---------------------------- MODULE SchedAtomic ----------------------------
(***************************************************************************)
(* The scheduler with atomic queues implements AtomicQueue.  The events     *)
(* that a holder has prefetched are still pending: odp_schedule has not     *)
(* returned them.                                                           *)
(***************************************************************************)
EXTENDS Sched

Holders(q) == {t \in Threads : held[t] # None /\ qe[held[t]] = q}

AOpen == [q \in Queues |-> status[q] >= READY]
AOwner == [q \in Queues |-> IF Holders(q) = {} THEN None
                            ELSE CHOOSE t \in Threads : t \in Holders(q)]
APend == [q \in Queues |-> IF Holders(q) = {} THEN head[q]
                           ELSE buf_hdr[AOwner[q]] \o head[q]]

A == INSTANCE AtomicQueue WITH open <- AOpen, pend <- APend, owner <- AOwner

\* Every step of the queue table and of the scheduler is a step of the abstract
\* atomic queues, or changes nothing that their users see.
ImplementsAtomicQueue == A!ASpec

\* Events prefetched from an atomic queue stay under the context of the thread
\* that prefetched them until odp_schedule has returned the last of them.
PrefetchUnderContext ==
    \A t \in Threads : buf_hdr[t] # <<>> =>
       held[t] # None /\ qe[held[t]] = local_qe[t]
=============================================================================
