------------------------------ MODULE MCSched ------------------------------
(* Instances of the scheduler for TLC. *)
EXTENDS SchedAtomic, TLC

\* Threads, command buffers and events are interchangeable.
Symm == Permutations(Threads) \cup Permutations(Cmds) \cup Permutations(Events)

\* Not the threads, when only some of them may pause; but the slots of the queue
\* table, as any free slot may be taken.
SymmData == Permutations(Cmds) \cup Permutations(Events) \cup Permutations(Queues)
=============================================================================
