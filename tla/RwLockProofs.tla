---------------------------- MODULE RwLockProofs ----------------------------
(***************************************************************************)
(* Exclusion and OwnerExact, for every finite set of threads and every      *)
(* depth.  The invariant says what cnt counts.                              *)
(***************************************************************************)
EXTENDS RwLock, FiniteSetTheorems, TLAPS

Readers == {t \in Threads : Reading(t)}

\* A thread inside a call of the lock below has no permission yet, or no more.
CallInv == \A t \in Threads : pc[t] # "idle" => rd_cnt[t] = 0 /\ writes[t] = 0

\* cnt is the number of readers in one form or the other, and -1 with a writer.
CountInv ==
    /\ cnt >= 0 => Cardinality(Readers) = cnt
    /\ cnt <= -2 => Cardinality(Readers) = -cnt - 2
    /\ cnt = -1 => Readers = {}
    /\ cnt # -1 => \A t \in Threads : ~Writing(t)

OneWriter == \A t, u \in Threads : Writing(t) /\ Writing(u) => t = u

IInv == TypeOK /\ CallInv /\ CountInv /\ OneWriter /\ OwnerExact

\* In the initial state nobody has the lock.
LEMMA RwInit == Init => IInv
<1> SUFFICES ASSUME Init PROVE IInv
  OBVIOUS
<1> USE RwLockAssumption
<1>1. TypeOK
  BY DEF Init, TypeOK
<1>2. Readers = {}
  BY DEF Init, Readers, Reading
<1>3. Cardinality(Readers) = 0
  BY <1>2, FS_EmptySet
<1>4. CountInv
  BY <1>2, <1>3 DEF Init, CountInv, Writing
<1>5. CallInv /\ OneWriter /\ OwnerExact
  BY DEF Init, CallInv, OneWriter, OwnerExact, Writing
<1> QED
  BY <1>1, <1>4, <1>5 DEF IInv

\* The readers are a finite set, so that one that comes or goes changes their number
\* by one.
LEMMA RwReaders ==
    /\ IsFiniteSet(Readers) /\ Cardinality(Readers) \in Nat
    /\ \A t \in Threads :
          /\ t \notin Readers => Cardinality(Readers \cup {t}) = Cardinality(Readers) + 1
          /\ t \in Readers => Cardinality(Readers \ {t}) = Cardinality(Readers) - 1
    /\ Cardinality(Readers) = 0 <=> Readers = {}
<1>1. IsFiniteSet(Readers)
  BY RwLockAssumption, FS_Subset, Readers \subseteq Threads DEF Readers
<1> QED
  BY Zenon, <1>1, FS_CardinalityType, FS_AddElement, FS_RemoveElement, FS_EmptySet

\* Every step keeps the types.
LEMMA RwTypeStep ==
    ASSUME IInv, NEW t \in Threads,
           \/ ReadLock(t) \/ ReadUnlock(t) \/ WriteLock(t) \/ WriteUnlock(t) \/ Step(t)
    PROVE  TypeOK'
<1> USE RwLockAssumption DEF IInv, TypeOK
<1>1. CASE ReadLock(t)
  BY <1>1 DEF ReadLock, Goto, SetOld
<1>2. CASE ReadUnlock(t)
  BY <1>2 DEF ReadUnlock, Goto, SetOld
<1>3. CASE WriteLock(t)
  BY <1>3 DEF WriteLock, Goto, SetOld
<1>4. CASE WriteUnlock(t)
  <2>1. wr_cnt \in Nat \ {0}
    BY <1>4 DEF WriteUnlock, OwnerExact
  <2> QED
    BY <1>4, <2>1 DEF WriteUnlock, Goto
<1>5. CASE ReadLoad(t)
  BY <1>5 DEF ReadLoad, SetOld, lockVars
<1>6. CASE ReadSwap(t)
  BY <1>6 DEF ReadSwap, Goto, SetOld
<1>7. CASE ReadLeave(t)
  BY <1>7 DEF ReadLeave, Goto, SetOld, OneLess
<1>8. CASE WriteMark(t)
  BY <1>8 DEF WriteMark, SetOld
<1>9. CASE WriteLoad(t)
  BY <1>9 DEF WriteLoad, SetOld, lockVars
<1>10. CASE WriteSwap(t)
  BY <1>10 DEF WriteSwap, Goto, SetOld
<1>11. CASE WriteOwn(t)
  BY <1>11 DEF WriteOwn, Goto
<1>12. CASE WriteLeave(t)
  BY <1>12 DEF WriteLeave, Goto
<1> QED
  BY <1>1, <1>2, <1>3, <1>4, <1>5, <1>6, <1>7, <1>8, <1>9, <1>10, <1>11, <1>12 DEF Step

\* The steps of readers keep the rest of the invariant.
LEMMA RwReadStep ==
    ASSUME IInv, NEW t \in Threads,
           ReadLock(t) \/ ReadLoad(t) \/ ReadSwap(t) \/ ReadUnlock(t) \/ ReadLeave(t)
    PROVE  (CallInv /\ CountInv /\ OneWriter /\ OwnerExact)'
<1> USE RwLockAssumption DEF IInv, TypeOK
<1>1. /\ CallInv' /\ OwnerExact'
      /\ \A u \in Threads : Writing(u)' <=> Writing(u)
  <2>1. CASE ReadLock(t)
    BY <2>1 DEF ReadLock, Goto, SetOld, CallInv, OwnerExact, Writing
  <2>2. CASE ReadLoad(t)
    BY <2>2 DEF ReadLoad, SetOld, lockVars, CallInv, OwnerExact, Writing
  <2>3. CASE ReadSwap(t)
    BY <2>3 DEF ReadSwap, Goto, SetOld, CallInv, OwnerExact, Writing
  <2>4. CASE ReadUnlock(t)
    <3>1. Reading(t)
      BY <2>4 DEF ReadUnlock, Reading
    <3>2. writes[t] = 0
      BY <3>1, RwReaders DEF CountInv, Readers, Writing
    <3> QED
      BY <2>4, <3>2 DEF ReadUnlock, Goto, SetOld, CallInv, OwnerExact, Writing
  <2>5. CASE ReadLeave(t)
    BY <2>5 DEF ReadLeave, Goto, SetOld, CallInv, OwnerExact, Writing
  <2> QED
    BY <2>1, <2>2, <2>3, <2>4, <2>5
<1>2. OneWriter'
  BY <1>1 DEF OneWriter
<1>3. CountInv'
  <2>1. CASE cnt' = cnt /\ Readers' = Readers
    BY <1>1, <2>1 DEF CountInv
  <2>2. CASE ReadSwap(t) /\ cnt = old[t]
    <3>1. cnt >= 0 /\ cnt' = cnt + 1
      BY <2>2 DEF ReadSwap
    <3>2. t \notin Readers /\ Readers' = Readers \cup {t}
      BY <2>2 DEF ReadSwap, Goto, Readers, Reading, CallInv
    <3>3. Cardinality(Readers') = cnt'
      BY <3>1, <3>2, RwReaders DEF CountInv
    <3> QED
      BY <1>1, <3>1, <3>3 DEF CountInv
  <2>3. CASE ReadLeave(t) /\ cnt = old[t]
    <3>1. t \in Readers /\ Readers' = Readers \ {t}
      BY <2>3 DEF ReadLeave, Goto, Readers, Reading, CallInv
    <3>2. cnt # -1 /\ cnt # 0 /\ cnt # -2
      BY <3>1, RwReaders DEF CountInv
    <3>3. cnt' = IF cnt < 0 THEN cnt + 1 ELSE cnt - 1
      BY <2>3 DEF ReadLeave, OneLess
    <3>4. Cardinality(Readers') = Cardinality(Readers) - 1
      BY <3>1, RwReaders
    <3> QED
      BY <1>1, <3>2, <3>3, <3>4, RwReaders DEF CountInv
  <2>4. CASE ~(ReadSwap(t) /\ cnt = old[t]) /\ ~(ReadLeave(t) /\ cnt = old[t])
    <3>1. cnt' = cnt
      BY <2>4 DEF ReadLock, ReadLoad, ReadSwap, ReadUnlock, ReadLeave, lockVars
    <3>2. \A u \in Threads : Reading(u)' <=> Reading(u)
      BY <2>4 DEF ReadLock, ReadLoad, ReadSwap, ReadUnlock, ReadLeave, lockVars, Goto,
                  SetOld, Reading
    <3>3. Readers' = Readers
      BY <3>2 DEF Readers
    <3> QED
      BY <2>1, <3>1, <3>3
  <2> QED
    BY <2>2, <2>3, <2>4
<1> QED
  BY <1>1, <1>2, <1>3

\* So do the steps of writers.
LEMMA RwWriteStep ==
    ASSUME IInv, NEW t \in Threads,
           \/ WriteLock(t) \/ WriteMark(t) \/ WriteLoad(t) \/ WriteSwap(t) \/ WriteOwn(t)
           \/ WriteUnlock(t) \/ WriteLeave(t)
    PROVE  (CallInv /\ CountInv /\ OneWriter /\ OwnerExact)'
<1> USE RwLockAssumption DEF IInv, TypeOK
<1>1. \A u \in Threads : Reading(u)' <=> Reading(u)
  BY DEF WriteLock, WriteMark, WriteLoad, WriteSwap, WriteOwn, WriteUnlock, WriteLeave,
         lockVars, Goto, SetOld, Reading
<1>2. Readers' = Readers
  BY <1>1 DEF Readers
<1>3. CASE WriteLock(t)
  <2>1. /\ CallInv' /\ OwnerExact' /\ cnt' = cnt
        /\ \A u \in Threads : Writing(u)' <=> Writing(u)
    BY <1>3 DEF WriteLock, Goto, SetOld, CallInv, OwnerExact, Writing
  <2> QED
    BY <1>2, <2>1 DEF CountInv, OneWriter
<1>4. CASE WriteMark(t) \/ WriteLoad(t)
  <2>1. /\ CallInv' /\ OwnerExact'
        /\ \A u \in Threads : Writing(u)' <=> Writing(u)
    BY <1>4 DEF WriteMark, WriteLoad, lockVars, SetOld, CallInv, OwnerExact, Writing
  <2>2. cnt' = cnt \/ (cnt > 0 /\ cnt' = -cnt - 2)
    BY <1>4 DEF WriteMark, WriteLoad, lockVars
  <2> QED
    BY <1>2, <2>1, <2>2 DEF CountInv, OneWriter
<1>5. CASE WriteSwap(t) /\ cnt = old[t]
  <2>1. (cnt = 0 \/ cnt = -2) /\ cnt' = -1
    BY <1>5 DEF WriteSwap, MayWrite
  <2>2. Readers = {} /\ \A u \in Threads : ~Writing(u)
    BY <2>1, RwReaders DEF CountInv
  <2>3. CallInv' /\ OwnerExact' /\ \A u \in Threads : Writing(u)' => u = t
    BY <1>5, <2>2 DEF WriteSwap, Goto, CallInv, OwnerExact, Writing
  <2> QED
    BY <1>2, <2>1, <2>2, <2>3 DEF CountInv, OneWriter
<1>6. CASE WriteSwap(t) /\ cnt # old[t]
  <2>1. /\ CallInv' /\ OwnerExact' /\ cnt' = cnt
        /\ \A u \in Threads : Writing(u)' <=> Writing(u)
    BY <1>6 DEF WriteSwap, SetOld, CallInv, OwnerExact, Writing
  <2> QED
    BY <1>2, <2>1 DEF CountInv, OneWriter
<1>7. CASE WriteOwn(t)
  <2>1. Writing(t) /\ \A u \in Threads : Writing(u) => u = t
    BY <1>7 DEF WriteOwn, Writing, OneWriter
  <2>2. /\ CallInv' /\ OwnerExact' /\ cnt' = cnt
        /\ \A u \in Threads : Writing(u)' <=> Writing(u)
    BY <1>7, <2>1 DEF WriteOwn, Goto, CallInv, OwnerExact, Writing
  <2> QED
    BY <1>2, <2>2 DEF CountInv, OneWriter
<1>8. CASE WriteUnlock(t)
  <2>1. wr_owner = t /\ wr_cnt = writes[t] /\ writes[t] > 0
    BY <1>8 DEF WriteUnlock, OwnerExact
  <2>2. rd_cnt[t] = 0 /\ \A u \in Threads : Writing(u) => u = t
    BY <2>1 DEF Writing, OneWriter, CountInv, Readers, Reading
  <2>3. /\ CallInv' /\ OwnerExact' /\ cnt' = cnt
        /\ \A u \in Threads : Writing(u)' <=> Writing(u)
    BY <1>8, <2>1, <2>2 DEF WriteUnlock, Goto, CallInv, OwnerExact, Writing
  <2> QED
    BY <1>2, <2>3 DEF CountInv, OneWriter
<1>9. CASE WriteLeave(t)
  <2>1. Writing(t) /\ \A u \in Threads : Writing(u) => u = t
    BY <1>9 DEF WriteLeave, Writing, OneWriter
  <2>2. Readers = {} /\ cnt' = 0
    BY <1>9, <2>1 DEF WriteLeave, CountInv
  <2>3. CallInv' /\ OwnerExact' /\ \A u \in Threads : ~Writing(u)'
    BY <1>9, <2>1 DEF WriteLeave, Goto, CallInv, OwnerExact, Writing
  <2> QED
    BY <1>2, <2>2, <2>3, RwReaders DEF CountInv, OneWriter
<1> QED
  BY <1>3, <1>4, <1>5, <1>6, <1>7, <1>8, <1>9

\* The invariant holds always.
THEOREM RwInvariant == Spec => []IInv
<1>1. IInv /\ [Next]_vars => IInv'
  <2> SUFFICES ASSUME IInv, [Next]_vars PROVE IInv'
    OBVIOUS
  <2>1. CASE UNCHANGED vars
    BY <2>1 DEF vars, lockVars, IInv, TypeOK, CallInv, CountInv, OneWriter, OwnerExact,
                Readers, Reading, Writing
  <2>2. CASE Next
    <3>1. PICK t \in Threads :
             \/ ReadLock(t) \/ ReadUnlock(t) \/ WriteLock(t) \/ WriteUnlock(t) \/ Step(t)
      BY <2>2 DEF Next
    <3> QED
      BY <3>1, RwTypeStep, RwReadStep, RwWriteStep DEF Step, IInv
  <2> QED
    BY <2>1, <2>2
<1> QED
  BY <1>1, RwInit, PTL DEF Spec

\* A thread that has write permission is alone, for every number of threads and every
\* depth of nested calls (odp_rwlock_write_lock, odp_rwlock_recursive_write_unlock).
THEOREM RwExclusion == Spec => []Exclusion
<1>1. IInv => Exclusion
  BY DEF IInv, OneWriter, CountInv, Exclusion, Readers
<1> QED
  BY <1>1, RwInvariant, PTL

\* The owner and its count are those of the thread that has write permission.
THEOREM RwOwnerExact == Spec => []OwnerExact
<1>1. IInv => OwnerExact
  BY DEF IInv
<1> QED
  BY <1>1, RwInvariant, PTL
=============================================================================
