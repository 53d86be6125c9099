------------------------------- MODULE RwLock -------------------------------
(***************************************************************************)
(* The recursive reader/writer lock (odp_rwlock_recursive.c) on top of the  *)
(* reader/writer lock (odp_rwlock.c), which the receive threads use too.    *)
(*                                                                          *)
(* cnt is the number n of readers, or -1 while a writer has the lock, or    *)
(* -n - 2 when a writer waits for n readers to leave; no reader gets in     *)
(* then.  Every access to it is an action; a compare-and-swap that fails    *)
(* leaves the value that it saw in the local variable of the same name, old *)
(* here.                                                                    *)
(***************************************************************************)
EXTENDS Integers, FiniteSets

CONSTANTS
    Threads,
    NO_OWNER,
    MaxDepth  \* bound: how often a thread acquires the lock without releasing it

ASSUME RwLockAssumption ==
    IsFiniteSet(Threads) /\ NO_OWNER \notin Threads /\ MaxDepth \in Nat \ {0}

VARIABLES
    cnt,       \* of the reader/writer lock
    rd_cnt,    \* how often each thread has acquired it for reading
    wr_owner,  \* the thread that has it for writing
    wr_cnt,    \* how often this thread has acquired it
    pc, old,   \* the step of each thread and its local cnt
    writes     \* how many write permissions each thread was given and has kept

lockVars == <<cnt, rd_cnt, wr_owner, wr_cnt>>
vars == <<lockVars, pc, old, writes>>

Init ==
    /\ cnt = 0 /\ rd_cnt = [t \in Threads |-> 0]
    /\ wr_owner = NO_OWNER /\ wr_cnt = 0
    /\ pc = [t \in Threads |-> "idle"] /\ old = [t \in Threads |-> 0]
    /\ writes = [t \in Threads |-> 0]

Goto(t, step) == pc' = [pc EXCEPT ![t] = step]
SetOld(t, v) == old' = [old EXCEPT ![t] = v]

\* odp_rwlock_recursive_read_lock, not called by a thread that has the lock for writing.
ReadLock(t) ==
    /\ pc[t] = "idle" /\ writes[t] = 0 /\ rd_cnt[t] < MaxDepth
    /\ IF rd_cnt[t] > 0
       THEN rd_cnt' = [rd_cnt EXCEPT ![t] = @ + 1] /\ UNCHANGED <<pc, old>>
       ELSE Goto(t, "rlock") /\ SetOld(t, -1) /\ UNCHANGED rd_cnt
    /\ UNCHANGED <<cnt, wr_owner, wr_cnt, writes>>

\* odp_rwlock_read_lock waits while there is a writer.
ReadLoad(t) ==
    /\ pc[t] = "rlock" /\ old[t] < 0
    /\ SetOld(t, cnt)
    /\ UNCHANGED <<lockVars, pc, writes>>

ReadSwap(t) ==
    /\ pc[t] = "rlock" /\ old[t] >= 0
    /\ IF cnt = old[t]
       THEN /\ cnt' = old[t] + 1
            /\ rd_cnt' = [rd_cnt EXCEPT ![t] = 1]
            /\ Goto(t, "idle") /\ UNCHANGED old
       ELSE SetOld(t, cnt) /\ UNCHANGED <<cnt, rd_cnt, pc>>
    /\ UNCHANGED <<wr_owner, wr_cnt, writes>>

\* odp_rwlock_recursive_read_unlock.
ReadUnlock(t) ==
    /\ pc[t] = "idle" /\ rd_cnt[t] > 0
    /\ rd_cnt' = [rd_cnt EXCEPT ![t] = @ - 1]
    /\ IF rd_cnt[t] > 1
       THEN UNCHANGED <<pc, old>>
       ELSE Goto(t, "runlock") /\ SetOld(t, 1)
    /\ UNCHANGED <<cnt, wr_owner, wr_cnt, writes>>

\* An unlock that does not expect a waiting writer.
OneLessAlways(c) == c - 1
\* One reader less: the count goes up when a writer waits.
OneLess(c) == IF c < 0 THEN c + 1 ELSE c - 1

\* odp_rwlock_read_unlock.
ReadLeave(t) ==
    /\ pc[t] = "runlock"
    /\ IF cnt = old[t]
       THEN cnt' = OneLess(old[t]) /\ Goto(t, "idle") /\ UNCHANGED old
       ELSE SetOld(t, cnt) /\ UNCHANGED <<cnt, pc>>
    /\ UNCHANGED <<rd_cnt, wr_owner, wr_cnt, writes>>
-----------------------------------------------------------------------------
\* odp_rwlock_recursive_write_lock, not called by a thread that has the lock for reading.
WriteLock(t) ==
    /\ pc[t] = "idle" /\ rd_cnt[t] = 0 /\ writes[t] < MaxDepth
    /\ IF wr_owner = t
       THEN /\ wr_cnt' = wr_cnt + 1
            /\ writes' = [writes EXCEPT ![t] = @ + 1]
            /\ UNCHANGED <<pc, old>>
       ELSE Goto(t, "wlock") /\ SetOld(t, 1) /\ UNCHANGED <<wr_cnt, writes>>
    /\ UNCHANGED <<cnt, rd_cnt, wr_owner>>

\* A writer that takes the lock as soon as another waits for the readers.
MayWriteWaiting(c) == c = 0 \/ c <= -2
\* The values with which odp_rwlock_write_lock tries to take the lock.
MayWrite(c) == c = 0 \/ c = -2

\* It makes known that it waits for the readers ...
WriteMark(t) ==
    /\ pc[t] = "wlock" /\ ~MayWrite(old[t]) /\ old[t] > 0
    /\ IF cnt = old[t]
       THEN cnt' = -old[t] - 2 /\ UNCHANGED old
       ELSE SetOld(t, cnt) /\ UNCHANGED cnt
    /\ UNCHANGED <<rd_cnt, wr_owner, wr_cnt, pc, writes>>

\* ... waits ...
WriteLoad(t) ==
    /\ pc[t] = "wlock" /\ ~MayWrite(old[t]) /\ old[t] <= 0
    /\ SetOld(t, cnt)
    /\ UNCHANGED <<lockVars, pc, writes>>

\* ... and takes the lock.
WriteSwap(t) ==
    /\ pc[t] = "wlock" /\ MayWrite(old[t])
    /\ IF cnt = old[t]
       THEN cnt' = -1 /\ Goto(t, "wset") /\ UNCHANGED old
       ELSE SetOld(t, cnt) /\ UNCHANGED <<cnt, pc>>
    /\ UNCHANGED <<rd_cnt, wr_owner, wr_cnt, writes>>

\* The end of odp_rwlock_recursive_write_lock.
WriteOwn(t) ==
    /\ pc[t] = "wset"
    /\ wr_owner' = t /\ wr_cnt' = 1
    /\ writes' = [writes EXCEPT ![t] = 1]
    /\ Goto(t, "idle")
    /\ UNCHANGED <<cnt, rd_cnt, old>>

\* An unlock that leaves the owner in place.
WriteUnlockKeepOwner(t) ==
    /\ pc[t] = "idle" /\ writes[t] > 0
    /\ writes' = [writes EXCEPT ![t] = @ - 1]
    /\ wr_cnt' = wr_cnt - 1
    /\ IF wr_cnt > 1 THEN UNCHANGED pc ELSE Goto(t, "wunlock")
    /\ UNCHANGED <<cnt, rd_cnt, wr_owner, old>>

\* odp_rwlock_recursive_write_unlock: the last one gives up the ownership first.
WriteUnlock(t) ==
    /\ pc[t] = "idle" /\ writes[t] > 0
    /\ writes' = [writes EXCEPT ![t] = @ - 1]
    /\ wr_cnt' = wr_cnt - 1
    /\ IF wr_cnt > 1
       THEN UNCHANGED <<wr_owner, pc>>
       ELSE wr_owner' = NO_OWNER /\ Goto(t, "wunlock")
    /\ UNCHANGED <<cnt, rd_cnt, old>>

\* odp_rwlock_write_unlock.
WriteLeave(t) ==
    /\ pc[t] = "wunlock"
    /\ cnt' = 0
    /\ Goto(t, "idle")
    /\ UNCHANGED <<rd_cnt, wr_owner, wr_cnt, old, writes>>

Step(t) ==
    \/ ReadLoad(t) \/ ReadSwap(t) \/ ReadLeave(t)
    \/ WriteMark(t) \/ WriteLoad(t) \/ WriteSwap(t) \/ WriteOwn(t) \/ WriteLeave(t)

Next ==
    \E t \in Threads :
        \/ ReadLock(t) \/ ReadUnlock(t) \/ WriteLock(t) \/ WriteUnlock(t)
        \/ Step(t)

Spec == Init /\ [][Next]_vars

Unlock(t) == ReadUnlock(t) \/ WriteUnlock(t)

\* A thread goes on with its call, and releases the lock as often as it acquired it.
FairSpec ==
    /\ Spec
    /\ \A t \in Threads :
          /\ WF_vars(Step(t)) /\ WF_vars(Unlock(t))
          /\ SF_vars(rd_cnt[t] + writes[t] = 1 /\ Unlock(t))
-----------------------------------------------------------------------------
\* Type correctness.
TypeOK ==
    /\ cnt \in Int /\ rd_cnt \in [Threads -> Nat]
    /\ wr_owner \in Threads \cup {NO_OWNER} /\ wr_cnt \in Nat
    /\ pc \in [Threads -> {"idle", "rlock", "runlock", "wlock", "wset", "wunlock"}]
    /\ old \in [Threads -> Int] /\ writes \in [Threads -> Nat]

\* Who is inside.
Reading(t) == rd_cnt[t] > 0 \/ pc[t] = "runlock"
Writing(t) == writes[t] > 0 \/ pc[t] \in {"wset", "wunlock"}

\* A thread that has write permission, once or several times, is alone: no nested
\* unlock lets others in, and no reader slips in between a writer's look at the count
\* and its compare-and-swap.
Exclusion ==
    \A t, u \in Threads : t # u /\ Writing(t) => ~Writing(u) /\ ~Reading(u)

\* The thread that has write permission is known as the owner, with the right count, so
\* that its nested calls do not wait for itself and its unlocks match its locks; no
\* other thread takes itself for the owner.
OwnerExact ==
    \A t \in Threads :
        /\ writes[t] > 0 => wr_owner = t /\ wr_cnt = writes[t]
        /\ wr_owner = t => writes[t] > 0

\* Once a writer waits, no reader gets in any more and a writer gets the lock.
WriterEnters == cnt <= -2 ~> cnt = -1
=============================================================================
