----------------------------- MODULE RingProofs -----------------------------
(***************************************************************************)
(* The theorems about the ring of buffer pointers, from the steps of        *)
(* RingSteps and RingPush: a pool's ring never overflows, the initial       *)
(* states, the invariant and what follows from it, and that the ring is a   *)
(* queue.                                                                   *)
(***************************************************************************)
EXTENDS RingPush

FS == INSTANCE FiniteSetTheorems

\* The instance has its own copy of the two definitions of FiniteSets.
LEMMA SizeSame ==
    ASSUME NEW S
    PROVE  FS!Cardinality(S) = Cardinality(S) /\ (FS!IsFiniteSet(S) <=> IsFiniteSet(S))
<1>1. FS!Cardinality(S) = Cardinality(S)
  BY DEF FS!Cardinality, Cardinality
<1>2. FS!IsFiniteSet(S) <=> IsFiniteSet(S)
  BY DEF FS!IsFiniteSet, IsFiniteSet
<1> QED
  BY Zenon, <1>1, <1>2

\* The numbers from 1 to m are m numbers.
LEMMA SizeInterval ==
    ASSUME NEW m \in Nat
    PROVE  FS!IsFiniteSet(1 .. m) /\ FS!Cardinality(1 .. m) = m
<1>1. 1 \in Int /\ m \in Int /\ (IF 1 > m THEN 0 ELSE m - 1 + 1) = m
  OBVIOUS
<1> QED
  BY Zenon, <1>1, FS!FS_Interval

\* A sequence without repetitions fits only into a set of at least its length.
LEMMA Distinct ==
    ASSUME NEW m \in Nat, NEW S, NEW f \in [1 .. m -> S], IsFiniteSet(S),
           \A i, j \in 1 .. m : f[i] = f[j] => i = j
    PROVE  m <= Cardinality(S)
<1>1. f \in FS!Injection(1 .. m, S)
  BY Zenon DEF FS!Injection, FS!IsInjective
<1>2. FS!IsFiniteSet(S) => FS!Cardinality(1 .. m) <= FS!Cardinality(S)
  BY Zenon, <1>1, FS!FS_Injection
<1> QED
  BY Zenon, <1>2, SizeInterval, SizeSame

\* A sequence without repetitions has as many elements as its length.
LEMMA Elements ==
    ASSUME NEW m \in Nat, NEW S, NEW f \in [1 .. m -> S],
           \A i, j \in 1 .. m : f[i] = f[j] => i = j, \A y \in S : \E i \in 1 .. m : f[i] = y
    PROVE  IsFiniteSet(S) /\ Cardinality(S) = m
<1>1. f \in FS!Bijection(1 .. m, S)
  BY Zenon DEF FS!Bijection, FS!Injection, FS!Surjection, FS!IsInjective
<1>2. FS!ExistsBijection(1 .. m, S)
  BY Zenon, <1>1 DEF FS!ExistsBijection
<1>3. FS!IsFiniteSet(S) /\ FS!Cardinality(S) = m
  BY Zenon, <1>2, SizeInterval, FS!FS_Bijection
<1> QED
  BY Zenon, <1>3, SizeSame

\* A push to a pool's ring has room: the buffers in the ring and those it pushes are
\* different buffers of the pool, and the ring has a slot more than the pool has buffers.
LEMMA PoolRoom ==
    ASSUME NEW t \in Threads, NEW ct, NEW ch, NEW pt, NEW ph, NEW at, NEW tl, NEW b, NEW C,
           TypeOK, GhostInv(ct, ch, pt, ph, at, tl, b, C), pc[t] = "pushSwap"
    PROVE  ph + n[t] < ct + buf_num
<1>1. /\ ct \in Nat /\ ch \in Nat /\ pt \in Nat /\ ph \in Nat
      /\ ct <= ch /\ ch <= pt /\ pt <= ph
  BY Zenon DEF GhostInv, EndsInv
<1>2. use = "multi" /\ n[t] \in 1 .. Len(mine[t]) /\ Len(mine[t]) \in Nat
  <2>1. mine[t] \in Seq(Bufs)
    BY Zenon DEF TypeOK
  <2>2. Len(mine[t]) \in Nat
    BY <2>1
  <2> QED
    BY Zenon, <2>2 DEF GhostInv, PushOk
<1>3. PICK d \in Nat, k \in Nat, m \in Nat :
         d = ph - ct /\ k = n[t] /\ k <= m /\ m = Len(mine[t])
  <2>1. ph - ct \in Nat /\ n[t] \in Nat /\ n[t] <= Len(mine[t])
    BY <1>1, <1>2
  <2> QED
    BY Zenon, <1>2, <2>1
<1>4. Free(t) = 1 .. m
  BY Zenon, <1>3 DEF Free, GetClaim, PushClaim
<1>5. PICK f : f = [i \in 1 .. d + k |-> IF i <= d THEN b[ct + i - 1] ELSE mine[t][i - d]]
  BY Zenon
<1>6. RoomInv(ct, ph, b, C) /\ UniqInv(ct, ph, b)
  BY Zenon, <1>2 DEF GhostInv
\* Every element is in the ring or with t.
<1>7. ASSUME NEW i \in 1 .. d + k
      PROVE  \/ /\ i <= d /\ ct + i - 1 \in Nat /\ ct <= ct + i - 1 /\ ct + i - 1 < ph
                /\ f[i] = b[ct + i - 1]
             \/ /\ ~(i <= d) /\ i - d \in Free(t) /\ f[i] = mine[t][i - d]
  <2>1. CASE i <= d
    <3>1. ct + i - 1 \in Nat /\ ct <= ct + i - 1 /\ ct + i - 1 < ph
      BY <1>1, <1>3, <2>1
    <3> QED
      BY Zenon, <1>5, <2>1, <3>1
  <2>2. CASE ~(i <= d)
    <3>1. i - d \in 1 .. m
      BY <1>3, <2>2
    <3> QED
      BY Zenon, <1>4, <1>5, <2>2, <3>1
  <2> QED
    BY Zenon, <2>1, <2>2
<1>8. f \in [1 .. d + k -> C]
  <2>1. \A i \in 1 .. d + k : f[i] \in C
    BY Zenon, <1>6, <1>7 DEF RoomInv
  <2> QED
    BY Zenon, <1>5, <2>1
<1>d. ASSUME NEW i \in 1 .. d + k, NEW j \in 1 .. d + k, i <= d, ~(j <= d) PROVE f[i] # f[j]
  <2>1. PICK x \in Nat : ct <= x /\ x < ph /\ f[i] = b[x]
    BY Zenon, <1>7, <1>d
  <2>2. j - d \in Free(t) /\ f[j] = mine[t][j - d]
    BY Zenon, <1>7, <1>d
  <2>3. mine[t][j - d] # b[x]
    BY Zenon, <1>6, <2>1, <2>2 DEF UniqInv
  <2> QED
    BY Zenon, <2>1, <2>2, <2>3
<1>9. ASSUME NEW i \in 1 .. d + k, NEW j \in 1 .. d + k, f[i] = f[j] PROVE i = j
  <2>1. CASE i <= d /\ j <= d
    <3>1. PICK x \in Nat, y \in Nat : /\ x = ct + i - 1 /\ y = ct + j - 1 /\ ct <= x /\ ct <= y
                                      /\ x < ph /\ y < ph /\ b[x] = b[y]
      BY Zenon, <1>7, <1>9, <2>1
    <3>2. ~(x < y) /\ ~(y < x)
      BY Zenon, <1>6, <3>1 DEF UniqInv
    <3> QED
      BY <1>1, <3>1, <3>2
  <2>2. CASE ~(i <= d) /\ ~(j <= d)
    <3>1. i - d \in Free(t) /\ j - d \in Free(t) /\ mine[t][i - d] = mine[t][j - d]
      BY Zenon, <1>7, <1>9, <2>2
    <3>2. i - d = j - d
      BY Zenon, <1>6, <3>1 DEF UniqInv
    <3> QED
      BY <1>3, <3>2
  <2>3. CASE i <= d /\ ~(j <= d)
    BY Zenon, <1>d, <1>9, <2>3
  <2>4. CASE ~(i <= d) /\ j <= d
    BY Zenon, <1>d, <1>9, <2>4
  <2> QED
    BY Zenon, <2>1, <2>2, <2>3, <2>4
<1>10. d + k <= Cardinality(C) /\ Cardinality(C) < buf_num
  <2>1. d + k \in Nat
    BY <1>3
  <2> QED
    BY Zenon, <1>6, <1>8, <1>9, <2>1, Distinct DEF RoomInv
<1>11. d + k < buf_num
  <2>1. Cardinality(C) \in Nat
    BY Zenon, <1>6, SizeSame, FS!FS_CardinalityType DEF RoomInv
  <2> QED
    BY <1>3, <1>10, <2>1, RingAssumption
<1> QED
  BY <1>1, <1>3, <1>11, RingAssumption

\* What a list push found free is still free when its compare-and-swap succeeds.
LEMMA ListRoom ==
    ASSUME NEW t \in Threads, NEW ct, NEW ch, NEW pt, NEW ph, NEW at, NEW tl, NEW b, NEW C,
           TypeOK, GhostInv(ct, ch, pt, ph, at, tl, b, C), ListSwap(t), prod_head = head[t]
    PROVE  ph + n[t] < ct + buf_num
<1>1. /\ pc[t] = "listSwap" /\ lap[t] \in 0 .. buf_num
  BY Zenon DEF ListSwap, TypeOK, CallTypes
<1>2. /\ head[t] = Wrap(at[t]) /\ at[t] + lap[t] = ph /\ lap[t] < buf_num
      /\ (lap[t] = 0 => at[t] + n[t] < ct + buf_num)
      /\ at[t] \in Nat /\ ph \in Nat /\ prod_head = Wrap(ph)
  BY Zenon, <1>1 DEF GhostInv, PushOk, EndsInv
<1>3. lap[t] \in Nat /\ at[t] <= ph /\ ph < at[t] + buf_num
  BY <1>1, <1>2, RingAssumption
<1>4. at[t] = ph
  BY Zenon, <1>2, <1>3, WrapApart
<1>5. lap[t] = 0
  BY <1>2, <1>3, <1>4
<1> QED
  BY Zenon, <1>2, <1>4, <1>5

-----------------------------------------------------------------------------
(* The initial states *)

\* In the beginning one thread has buffers, no buffer twice: all of them, or for a pool's
\* ring as many as it has room for.
LEMMA FirstOwner ==
    ASSUME Init
    PROVE  \E s \in Seq(Bufs), o \in Threads :
              /\ mine = [t \in Threads |-> IF t = o THEN s ELSE << >>]
              /\ \A i, j \in 1 .. Len(s) : s[i] = s[j] => i = j
              /\ use = "multi" => Len(s) = buf_num - 1
<1>1. PICK m \in Nat : m = Cardinality(Bufs)
  <2>1. FS!IsFiniteSet(Bufs) /\ FS!Cardinality(Bufs) = Cardinality(Bufs)
    BY Zenon, SizeSame, RingAssumption
  <2> QED
    BY Zenon, <2>1, FS!FS_CardinalityType
<1> DEFINE q == CHOOSE r \in Injection(1 .. Cardinality(Bufs), Bufs) : TRUE
           o == CHOOSE t \in Threads : TRUE
           s == IF use = "multi" THEN SubSeq(q, 1, buf_num - 1) ELSE q
<1>2. mine = [t \in Threads |-> IF t = o THEN s ELSE << >>]
  BY Zenon DEF Init
<1>3. q \in [1 .. m -> Bufs] /\ \A i, j \in 1 .. m : q[i] = q[j] => i = j
  <2>1. FS!IsFiniteSet(Bufs) /\ FS!Cardinality(Bufs) = m
    BY Zenon, <1>1, SizeSame, RingAssumption
  <2>2. PICK f : f \in FS!Bijection(1 .. m, Bufs)
    BY Zenon, <2>1, FS!FS_CardinalityType DEF FS!ExistsBijection
  <2>3. f \in [1 .. m -> Bufs] /\ \A i, j \in 1 .. m : f[i] = f[j] => i = j
    BY Zenon, <2>2 DEF FS!Bijection, FS!Injection, FS!IsInjective
  <2>4. f \in Injection(1 .. m, Bufs)
    BY Zenon, <2>3 DEF Injection, IsInjective
  <2>5. q \in Injection(1 .. m, Bufs)
    BY Zenon, <1>1, <2>4
  <2> QED
    BY Zenon, <2>5 DEF Injection, IsInjective
<1>4. o \in Threads
  BY Zenon, RingAssumption
<1> HIDE DEF q, o
<1>5. q \in Seq(Bufs) /\ Len(q) = m
  BY <1>3
<1>6. /\ use = "multi" => s = SubSeq(q, 1, buf_num - 1)
      /\ use # "multi" => s = q
  BY Zenon
<1> HIDE DEF s
<1>7. /\ s \in Seq(Bufs) /\ (use = "multi" => Len(s) = buf_num - 1)
      /\ \A i, j \in 1 .. Len(s) : s[i] = s[j] => i = j
  <2>1. CASE use = "multi"
    <3>1. buf_num - 1 \in 0 .. m
      BY <1>1, RingAssumption
    <3>2. /\ SubSeq(q, 1, buf_num - 1) \in Seq(Bufs) /\ Len(SubSeq(q, 1, buf_num - 1)) = buf_num - 1
          /\ \A i \in 1 .. buf_num - 1 : SubSeq(q, 1, buf_num - 1)[i] = q[i] /\ i \in 1 .. m
      BY <1>5, <3>1, RingAssumption
    <3> QED
      BY <1>3, <1>6, <2>1, <3>2
  <2>2. CASE use # "multi"
    BY Zenon, <1>3, <1>5, <1>6, <2>2
  <2> QED
    BY Zenon, <2>1, <2>2
<1> QED
  BY Zenon, <1>2, <1>4, <1>7

\* The ring begins empty, with every buffer of its own in the hands of one thread.
LEMMA RingInit == Init => IInv
<1> SUFFICES ASSUME Init PROVE IInv
  OBVIOUS
<1>1. PICK s \in Seq(Bufs), o \in Threads :
         /\ mine = [t \in Threads |-> IF t = o THEN s ELSE << >>]
         /\ \A i, j \in 1 .. Len(s) : s[i] = s[j] => i = j
         /\ use = "multi" => Len(s) = buf_num - 1
  BY Zenon, FirstOwner
<1>2. TypeOK
  <2>1. RingTypes
    BY Zero DEF Init, RingTypes
  <2>2. CallTypes
    BY Zero DEF Init, CallTypes
  <2>3. << >> \in Seq(Bufs)
    OBVIOUS
  <2>4. mine \in [Threads -> Seq(Bufs)]
    BY Zenon, <1>1, <2>3
  <2>5. \A t \in Threads : pc[t] \notin Claiming
    BY Zenon DEF Init, Claiming
  <2> QED
    BY Zenon, <2>1, <2>2, <2>4, <2>5 DEF TypeOK
<1>3. PICK at, b : at = [t \in Threads |-> 0] /\ b \in [Nat -> Bufs]
  <2>1. [y \in Nat |-> CHOOSE c \in Bufs : TRUE] \in [Nat -> Bufs]
    BY Zenon, RingAssumption
  <2> QED
    BY Zenon, <2>1
<1>4. at \in [Threads -> Nat] /\ \A t \in Threads : at[t] = 0
  BY Zenon, <1>3, Zero
<1>5. PICK m \in Nat : m = Len(s)
  BY <1>1
<1>6. PICK C : C = {s[i] : i \in 1 .. m}
  BY Zenon
<1>7. EndsInv(0, 0, 0, 0)
  BY RingAssumption DEF Init, EndsInv, Wrap
<1>8. \A t \in Threads : pc[t] = "idle" /\ copied[t] = 0 /\ ~GetClaim(t) /\ ~PushClaim(t)
  BY Zenon DEF Init, GetClaim, PushClaim
<1>9. \A t \in Threads : /\ GetOk(t, 0, 0, at[t], at[t]) /\ PushOk(t, 0, 0, at[t])
                         /\ ClaimOk(t, 0, 0, 0, 0, at[t]) /\ StoreOk(t, at[t], b)
  BY Zenon, <1>8 DEF GetOk, PushOk, ClaimOk, StoreOk
<1>10. ApartInv(at)
  BY Zenon, <1>8 DEF ApartInv
<1>11. \A y \in Nat : ~(y < 0)
  OBVIOUS
<1>12. StoredInv(0, 0, b)
  BY Zenon, <1>11 DEF StoredInv
<1>13. \A t \in Threads : \A i \in Free(t) : t = o /\ i \in 1 .. m /\ mine[t][i] = s[i]
  <2>1. \A t \in Threads : Free(t) = 1 .. Len(mine[t])
    BY Zenon, <1>8 DEF Free
  <2>2. Len(<< >>) = 0 /\ 1 .. 0 = {}
    OBVIOUS
  <2> QED
    BY Zenon, <1>1, <1>5, <2>1, <2>2
<1>14. UniqInv(0, 0, b)
  BY Zenon, <1>1, <1>5, <1>11, <1>13 DEF UniqInv
<1>15. use = "multi" => RoomInv(0, 0, b, C)
  <2>1. s \in [1 .. m -> Bufs] /\ m < m + 1
    BY <1>1, <1>5
  <2>2. IsFiniteSet(C) /\ Cardinality(C) = m
    <3>1. \A i, j \in 1 .. m : s[i] = s[j] => i = j
      BY Zenon, <1>1, <1>5
    <3>2. s \in [1 .. m -> C] /\ \A y \in C : \E i \in 1 .. m : s[i] = y
      BY Zenon, <1>6, <2>1
    <3> QED
      BY Zenon, <1>5, <3>1, <3>2, Elements
  <2>3. use = "multi" => m < buf_num
    BY <1>1, <1>5, RingAssumption
  <2> QED
    BY Zenon, <1>6, <1>11, <1>13, <2>2, <2>3 DEF RoomInv
<1> QED
  <2>1. GhostInv(0, 0, 0, 0, at, at, b, C)
    BY Zenon, <1>3, <1>4, <1>7, <1>9, <1>10, <1>12, <1>14, <1>15 DEF GhostInv
  <2> QED
    BY Zenon, <1>2, <2>1 DEF IInv

-----------------------------------------------------------------------------
(* The invariant *)

\* Between two steps of a thread nothing moves.
LEMMA RingStutter == ASSUME IInv, UNCHANGED vars PROVE IInv'
<1>1. /\ buf_ptrs' = buf_ptrs /\ prod_head' = prod_head /\ prod_tail' = prod_tail
      /\ cons_head' = cons_head /\ cons_tail' = cons_tail /\ use' = use
      /\ pc' = pc /\ head' = head /\ tail' = tail /\ n' = n /\ copied' = copied
      /\ mine' = mine /\ lap' = lap
  BY Zenon DEF vars, ringVars
<1>2. PICK ct, ch, pt, ph, at, tl, b, C : GhostInv(ct, ch, pt, ph, at, tl, b, C)
  BY Zenon DEF IInv
<1>3. TypeOK'
  BY Zenon, <1>1 DEF IInv, TypeOK, RingTypes, CallTypes
<1>4. EndsInv(ct, ch, pt, ph)' /\ ApartInv(at)' /\ StoredInv(ct, pt, b)'
  BY Zenon, <1>1, <1>2 DEF GhostInv, EndsInv, ApartInv, StoredInv, GetClaim, PushClaim
<1>5. ASSUME NEW t \in Threads
      PROVE  /\ GetOk(t, ch, pt, at[t], tl[t])' /\ PushOk(t, ct, ph, at[t])'
             /\ ClaimOk(t, ct, ch, pt, ph, at[t])' /\ StoreOk(t, at[t], b)'
  <2>1. /\ GetOk(t, ch, pt, at[t], tl[t]) /\ PushOk(t, ct, ph, at[t])
        /\ ClaimOk(t, ct, ch, pt, ph, at[t]) /\ StoreOk(t, at[t], b)
    BY Zenon, <1>2 DEF GhostInv
  <2> QED
    BY Zenon, <1>1, <2>1 DEF GetOk, PushOk, ClaimOk, StoreOk, GetClaim, PushClaim
<1>6. UniqInv(ct, ph, b)' /\ (use = "multi" => RoomInv(ct, ph, b, C)')
  <2>1. \A t \in Threads : Free(t)' = Free(t)
    BY Zenon, <1>1 DEF Free, GetClaim, PushClaim
  <2>2. UniqInv(ct, ph, b) /\ (use = "multi" => RoomInv(ct, ph, b, C)) /\ mine' = mine
    BY Zenon, <1>1, <1>2 DEF GhostInv
  <2> QED
    BY <2>1, <2>2 DEF UniqInv, RoomInv
<1> QED
  BY Zenon, <1>1, <1>2, <1>3, <1>4, <1>5, <1>6 DEF IInv, GhostInv

\* Every step keeps the invariant: the steps of RingSteps and RingPush together.
LEMMA RingNext ==
    ASSUME Granule = 1, ~Laps, IInv, [Next]_vars
    PROVE  IInv'
<1>1. CASE UNCHANGED vars
  BY Zenon, <1>1, RingStutter
<1>2. ASSUME NEW t \in Threads, Call(t) \/ Step(t) PROVE IInv'
  <2>0. PICK ct, ch, pt, ph, at, tl, b, C :
           TypeOK /\ GhostInv(ct, ch, pt, ph, at, tl, b, C)
    BY Zenon DEF IInv
  <2>1. CASE GetLoadHead(t) \/ GetReload(t)
    BY Zenon, <2>0, <2>1, GetHeadStep
  <2>2. CASE GetLoadTail(t)
    BY Zenon, <2>0, <2>2, GetTailStep
  <2>3. CASE GetSwap(t)
    BY Zenon, <2>0, <2>3, GetSwapStep, FailedSwapStep
  <2>4. CASE GetCopy(t)
    BY Zenon, <2>0, <2>4, GetCopyStep
  <2>5. CASE GetTurn(t)
    BY Zenon, <2>0, <2>5, GetTurnStep
  <2>6. CASE GetPublish(t)
    BY Zenon, <2>0, <2>6, GetPublishStep
  <2>7. CASE PushLoadHead(t) \/ ListLoadHead(t)
    BY Zenon, <2>0, <2>7, PushHeadStep
  <2>8. CASE PushSwap(t)
    <3>1. pc[t] = "pushSwap"
      BY Zenon, <2>8 DEF PushSwap
    <3>2. ph + n[t] < ct + buf_num
      BY Zenon, <2>0, <3>1, PoolRoom
    <3> QED
      BY Zenon, <2>0, <2>8, <3>2, PushClaimStep, FailedSwapStep
  <2>9. CASE PushStore(t)
    BY Zenon, <2>0, <2>9, PushStoreStep
  <2>10. CASE PushPublish(t)
    BY Zenon, <2>0, <2>10, PushPublishStep
  <2>11. CASE ListLoadTail(t)
    BY Zenon, <2>0, <2>11, ListTailStep
  <2>12. CASE ListSwap(t)
    <3>1. CASE prod_head = head[t]
      <4>1. ph + n[t] < ct + buf_num
        BY Zenon, <2>0, <2>12, <3>1, ListRoom
      <4> QED
        BY Zenon, <2>0, <2>12, <3>1, <4>1, PushClaimStep
    <3>2. CASE prod_head # head[t]
      BY Zenon, <2>0, <2>12, <3>2, FailedSwapStep
    <3> QED
      BY Zenon, <3>1, <3>2
  <2> QED
    BY Zenon, <1>2, <2>1, <2>2, <2>3, <2>4, <2>5, <2>6, <2>7, <2>8, <2>9, <2>10, <2>11, <2>12
       DEF Call, Step
<1> QED
  BY Zenon, <1>1, <1>2 DEF Next

\* The ends of the ring are ordered, claims lie between them and apart from each other,
\* and every buffer is in one place: in every reachable state.
THEOREM RingInvariant == ASSUME Granule = 1, ~Laps PROVE Spec => []IInv
<1>1. Init => IInv
  BY RingInit
<1>2. IInv /\ [Next]_vars => IInv'
  BY Zenon, RingNext
<1> QED
  BY <1>1, <1>2, PTL DEF Spec

\* Positions stay within the ring and no claim is larger than it: Plus never overflows.
THEOREM RingTypeCorrect == ASSUME Granule = 1, ~Laps PROVE Spec => []TypeOK
<1>1. IInv => TypeOK
  BY Zenon DEF IInv
<1>2. Spec => []IInv
  BY Zenon, RingInvariant
<1> QED
  BY <1>1, <1>2, PTL

\* The plain loads and stores of the pointers in buf_ptrs never race.
THEOREM RingNoSlotRace == ASSUME Granule = 1, ~Laps PROVE Spec => []NoSlotRace
<1>1. ASSUME IInv, NEW t \in Threads, NEW u \in Threads, t # u, Copying(t), Copying(u),
             pc[t] = "pushStore"
      PROVE  SlotOf(t) # SlotOf(u)
  <2>0. PICK ct, ch, pt, ph, at, tl, b, C : GhostInv(ct, ch, pt, ph, at, tl, b, C)
    BY Zenon, <1>1 DEF IInv
  <2>1. /\ ct \in Nat /\ ch \in Nat /\ pt \in Nat /\ ph \in Nat /\ at[t] \in Nat /\ at[u] \in Nat
        /\ ct <= ch /\ ch <= pt /\ pt <= ph /\ ph < ct + buf_num
    BY Zenon, <2>0 DEF GhostInv, EndsInv
  <2>2. /\ n[t] \in Nat /\ n[u] \in Nat /\ copied[t] \in Nat /\ copied[u] \in Nat
    <3>1. n[t] \in Nat /\ n[u] \in Nat /\ copied[t] \in 0 .. buf_num /\ copied[u] \in 0 .. buf_num
      BY Zenon, <1>1 DEF IInv, TypeOK, CallTypes
    <3> QED
      BY <3>1, RingAssumption
  <2>3. /\ copied[t] < n[t] /\ copied[u] < n[u] /\ PushClaim(t)
        /\ pc[u] = "getCopy" \/ pc[u] = "pushStore"
    BY Zenon, <1>1 DEF Copying, PushClaim
  <2>4. pt <= at[t] /\ at[t] + n[t] <= ph /\ head[t] = Wrap(at[t])
    BY Zenon, <2>0, <2>3 DEF GhostInv, ClaimOk
  <2>5. /\ head[u] = Wrap(at[u])
        /\ \/ ct <= at[u] /\ at[u] + n[u] <= ch
           \/ /\ pt <= at[u] /\ at[u] + n[u] <= ph
              /\ at[t] + n[t] <= at[u] \/ at[u] + n[u] <= at[t]
    <3>1. CASE pc[u] = "getCopy"
      BY Zenon, <2>0, <3>1 DEF GhostInv, ClaimOk, GetClaim
    <3>2. CASE pc[u] = "pushStore"
      BY Zenon, <1>1, <2>0, <2>3, <3>2 DEF GhostInv, ClaimOk, ApartInv, PushClaim
    <3> QED
      BY Zenon, <2>3, <3>1, <3>2
  <2>6. PICK x \in Nat, y \in Nat : x = at[t] + copied[t] /\ y = at[u] + copied[u]
    BY <2>1, <2>2
  <2>7. x # y /\ x < y + buf_num /\ y < x + buf_num
    BY <2>1, <2>2, <2>3, <2>4, <2>5, <2>6, RingAssumption
  <2>8. SlotOf(t) = Slot(x) /\ SlotOf(u) = Slot(y)
    <3>1. head[u] = Wrap(at[u])
      BY Zenon, <2>5
    <3>2. at[t] \in Nat /\ copied[t] \in Nat /\ at[u] \in Nat /\ copied[u] \in Nat
      BY Zenon, <2>1, <2>2
    <3>3. Slot(Wrap(at[t]) + copied[t]) = Slot(at[t] + copied[t])
      BY Zenon, <3>2, WrapSlot
    <3>4. Slot(Wrap(at[u]) + copied[u]) = Slot(at[u] + copied[u])
      BY Zenon, <3>2, WrapSlot
    <3> QED
      BY Zenon, <2>4, <2>6, <3>1, <3>3, <3>4 DEF SlotOf
  <2>9. x <= y \/ y <= x
    BY <2>6
  <2> QED
    BY Zenon, <2>6, <2>7, <2>8, <2>9, WrapApart
<1>2. IInv => NoSlotRace
  BY Zenon, <1>1 DEF NoSlotRace
<1>3. Spec => []IInv
  BY Zenon, RingInvariant
<1> QED
  BY <1>2, <1>3, PTL

-----------------------------------------------------------------------------
(* The ring is a queue *)

Ptrs == Bufs \cup {None}

\* What pointers f has at the k positions from p on.
Span(f, p, k) == [j \in 1 .. k |-> f[Slot(p + j - 1)]]

\* What a thread has according to the mapping, from what it has in the ring.
Holding(f, p, h, c, k, m) ==
    CASE p = "getCopy"   -> m \o Span(f, h + c, k - c)
      [] p = "pushStore" -> Span(f, h, c) \o m
      [] OTHER           -> m

Holds(t) == Holding(buf_ptrs, pc[t], head[t], copied[t], n[t], mine[t])

\* The mapping in these terms.
LEMMA Mapping ==
    /\ AHeld = [t \in Threads |-> Holds(t)]
    /\ AHeld' = [t \in Threads |->
                   Holding(buf_ptrs', pc'[t], head'[t], copied'[t], n'[t], mine'[t])]
    /\ AFifo = Span(buf_ptrs, cons_head, Dist(cons_head, prod_tail))
    /\ AFifo' = Span(buf_ptrs', cons_head', Dist(cons_head', prod_tail'))
<1>1. AHeld = [t \in Threads |-> Holds(t)]
  BY Zenon DEF AHeld, Holds, Holding, Stored, Span
<1>2. AHeld' = [t \in Threads |->
                   Holding(buf_ptrs', pc'[t], head'[t], copied'[t], n'[t], mine'[t])]
  BY Zenon DEF AHeld, Holding, Stored, Span
<1>3. /\ AFifo = Span(buf_ptrs, cons_head, Dist(cons_head, prod_tail))
      /\ AFifo' = Span(buf_ptrs', cons_head', Dist(cons_head', prod_tail'))
  BY Zenon DEF AFifo, Stored, Span
<1> QED
  BY Zenon, <1>1, <1>2, <1>3

\* A span is a sequence of its length.
LEMMA SpanSeq ==
    ASSUME NEW f \in [0 .. buf_num - 1 -> Ptrs], NEW p \in Nat, NEW k \in Nat
    PROVE  /\ Span(f, p, k) \in Seq(Ptrs) /\ Len(Span(f, p, k)) = k
           /\ \A j \in 1 .. k : Span(f, p, k)[j] = f[Slot(p + j - 1)]
<1>1. ASSUME NEW j \in 1 .. k PROVE f[Slot(p + j - 1)] \in Ptrs
  <2>1. p + j - 1 \in Nat
    OBVIOUS
  <2>2. Slot(p + j - 1) \in 0 .. buf_num - 1
    BY Zenon, <2>1, WrapType
  <2> QED
    BY Zenon, <2>2
<1>2. \A j \in 1 .. k : Span(f, p, k)[j] = f[Slot(p + j - 1)]
  BY Zenon DEF Span
<1>3. Span(f, p, k) \in [1 .. k -> Ptrs]
  BY Zenon, <1>1 DEF Span
<1>4. Span(f, p, k) \in Seq(Ptrs) /\ Len(Span(f, p, k)) = k
  BY <1>3
<1> QED
  BY Zenon, <1>2, <1>4

\* An empty span.
LEMMA SpanEmpty == ASSUME NEW f, NEW p PROVE Span(f, p, 0) = << >>
  BY DEF Span

\* Two spans are equal.
Alike(f, p, g, q, k) == Span(f, p, k) = Span(g, q, k)

\* A span begins where its wrapped beginning is.
LEMMA SpanWrap ==
    ASSUME NEW f, NEW x \in Nat, NEW c \in Nat, NEW k \in Nat
    PROVE  Alike(f, Wrap(x) + c, f, x + c, k)
<1>1. ASSUME NEW j \in 1 .. k PROVE Slot((Wrap(x) + c) + j - 1) = Slot((x + c) + j - 1)
  <2>1. PICK d \in Nat : d = c + j - 1
    OBVIOUS
  <2>2. Wrap(x) \in Nat
    BY WrapType, RingAssumption DEF Pos
  <2>3. (Wrap(x) + c) + j - 1 = Wrap(x) + d /\ (x + c) + j - 1 = x + d
    BY <2>1, <2>2
  <2>4. Slot(Wrap(x) + d) = Slot(x + d)
    BY Zenon, WrapSlot
  <2> QED
    BY Zenon, <2>3, <2>4
<1> QED
  BY Zenon, <1>1 DEF Alike, Span

\* The same without an offset.
LEMMA SpanWrapped ==
    ASSUME NEW f, NEW x \in Nat, NEW k \in Nat
    PROVE  Alike(f, Wrap(x), f, x, k)
<1>1. x + 0 = x /\ 0 \in Nat /\ Wrap(x) + 0 = Wrap(x)
  BY WrapType, RingAssumption DEF Pos
<1>2. Alike(f, Wrap(x) + 0, f, x + 0, k)
  BY Zenon, <1>1, SpanWrap
<1> QED
  BY Zenon, <1>1, <1>2

\* Sequences of one length that agree at every index are equal.
LEMMA SeqEqual ==
    ASSUME NEW s \in Seq(Ptrs), NEW r \in Seq(Ptrs), NEW k, Len(s) = k, Len(r) = k,
           \A j \in 1 .. k : s[j] = r[j]
    PROVE  s = r
  OBVIOUS

\* A sequence in two parts.
LEMMA SeqSplit ==
    ASSUME NEW s \in Seq(Ptrs), NEW r \in Seq(Ptrs)
    PROVE  /\ s \o r \in Seq(Ptrs) /\ Len(s \o r) = Len(s) + Len(r)
           /\ SubSeq(s \o r, 1, Len(s)) = s
           /\ SubSeq(s \o r, Len(s) + 1, Len(s \o r)) = r
  OBVIOUS

\* One element goes from one part to the other.
LEMMA SeqMove ==
    ASSUME NEW s \in Seq(Ptrs), NEW r \in Seq(Ptrs), r # << >>
    PROVE  s \o r = (s \o << Head(r) >>) \o Tail(r)
  OBVIOUS

\* An element at the end of one sequence is one at the beginning of the next.
LEMMA SeqAppend ==
    ASSUME NEW s \in Seq(Ptrs), NEW r \in Seq(Ptrs), NEW x \in Ptrs
    PROVE  Append(s, x) \o r = s \o (<< x >> \o r)
  OBVIOUS

\* Nothing is added.
LEMMA SeqEmpty ==
    ASSUME NEW s \in Seq(Ptrs)
    PROVE  s \o << >> = s /\ << >> \o s = s
  OBVIOUS

\* A span in two parts.
LEMMA SpanSplit ==
    ASSUME NEW f \in [0 .. buf_num - 1 -> Ptrs], NEW p \in Nat, NEW k \in Nat, NEW m \in Nat
    PROVE  Span(f, p, k + m) = Span(f, p, k) \o Span(f, p + k, m)
<1>1. k + m \in Nat /\ p + k \in Nat
  OBVIOUS
<1>2. PICK s \in Seq(Ptrs) : /\ s = Span(f, p, k) /\ Len(s) = k
                             /\ \A j \in 1 .. k : s[j] = f[Slot(p + j - 1)]
  BY Zenon, SpanSeq
<1>3. PICK r \in Seq(Ptrs) : /\ r = Span(f, p + k, m) /\ Len(r) = m
                             /\ \A j \in 1 .. m : r[j] = f[Slot(p + k + j - 1)]
  BY Zenon, <1>1, SpanSeq
<1>4. PICK w \in Seq(Ptrs) : /\ w = Span(f, p, k + m) /\ Len(w) = k + m
                             /\ \A j \in 1 .. k + m : w[j] = f[Slot(p + j - 1)]
  <2>1. PICK l \in Nat : l = k + m
    BY Zenon, <1>1
  <2>2. PICK w \in Seq(Ptrs) : /\ w = Span(f, p, l) /\ Len(w) = l
                               /\ \A j \in 1 .. l : w[j] = f[Slot(p + j - 1)]
    BY Zenon, SpanSeq
  <2> QED
    BY Zenon, <2>1, <2>2
<1>5. ASSUME NEW j \in 1 .. k + m PROVE w[j] = (s \o r)[j]
  <2>1. CASE j <= k
    <3>1. j \in 1 .. k /\ (s \o r)[j] = s[j]
      BY <1>2, <1>3, <2>1
    <3> QED
      BY Zenon, <1>2, <1>4, <3>1
  <2>2. CASE j > k
    <3>1. /\ j - k \in 1 .. m /\ (s \o r)[j] = r[j - k] /\ p + k + (j - k) - 1 = p + j - 1
      BY <1>2, <1>3, <2>2
    <3>2. r[j - k] = f[Slot(p + k + (j - k) - 1)]
      BY Zenon, <1>3, <3>1
    <3> QED
      BY Zenon, <1>4, <3>1, <3>2
  <2>3. j <= k \/ j > k
    OBVIOUS
  <2> QED
    BY Zenon, <2>1, <2>2, <2>3
<1>6. s \o r \in Seq(Ptrs) /\ Len(s \o r) = k + m
  <2>1. s \o r \in Seq(Ptrs) /\ Len(s \o r) = Len(s) + Len(r)
    BY Zenon, SeqSplit
  <2> QED
    BY Zenon, <1>2, <1>3, <2>1
<1>7. w = s \o r
  <2>1. /\ w \in Seq(Ptrs) /\ s \o r \in Seq(Ptrs) /\ Len(w) = k + m /\ Len(s \o r) = k + m
        /\ \A j \in 1 .. k + m : w[j] = (s \o r)[j]
    BY Zenon, <1>4, <1>5, <1>6
  <2> QED
    BY Zenon, <2>1, SeqEqual
<1> QED
  BY Zenon, <1>2, <1>3, <1>4, <1>7

\* What a get takes and what it leaves.
Splits(f, p, k, m) ==
    /\ Span(f, p, k) \in Seq(Ptrs) /\ Len(Span(f, p, k)) = k
    /\ Span(f, p + k, m) \in Seq(Ptrs) /\ Len(Span(f, p + k, m)) = m
    /\ Span(f, p, k + m) = Span(f, p, k) \o Span(f, p + k, m)
    /\ Len(Span(f, p, k + m)) = k + m
    /\ SubSeq(Span(f, p, k + m), 1, k) = Span(f, p, k)
    /\ SubSeq(Span(f, p, k + m), k + 1, k + m) = Span(f, p + k, m)

\* The first k of k + m positions are taken.
LEMMA SpanTake ==
    ASSUME NEW f \in [0 .. buf_num - 1 -> Ptrs], NEW p \in Nat, NEW k \in Nat, NEW m \in Nat
    PROVE  Splits(f, p, k, m)
<1>1. p + k \in Nat
  OBVIOUS
<1>2. PICK s \in Seq(Ptrs) : s = Span(f, p, k) /\ Len(s) = k
  BY Zenon, SpanSeq
<1>3. PICK r \in Seq(Ptrs) : r = Span(f, p + k, m) /\ Len(r) = m
  BY Zenon, <1>1, SpanSeq
<1>4. Span(f, p, k + m) = s \o r
  BY Zenon, <1>2, <1>3, SpanSplit
<1>5. /\ Len(s \o r) = Len(s) + Len(r) /\ SubSeq(s \o r, 1, Len(s)) = s
      /\ SubSeq(s \o r, Len(s) + 1, Len(s \o r)) = r
  BY Zenon, SeqSplit
<1> QED
  BY Zenon, <1>2, <1>3, <1>4, <1>5 DEF Splits

\* One position.
LEMMA SpanOne ==
    ASSUME NEW f, NEW p \in Nat
    PROVE  Span(f, p, 1) = << f[Slot(p)] >>
  BY DEF Span

\* The queue, from the unwrapped positions of its ends.
Unwrapped(f, x, y) == Span(f, Wrap(x), Dist(Wrap(x), Wrap(y))) = Span(f, x, y - x)

\* The distance of the wrapped positions is that of the unwrapped ones.
LEMMA FifoSpan ==
    ASSUME NEW f, NEW x \in Nat, NEW y \in Nat, x <= y, y < x + buf_num
    PROVE  Unwrapped(f, x, y)
<1>1. Dist(Wrap(x), Wrap(y)) = y - x
  BY Zenon, WrapApart
<1>2. y - x \in Nat
  OBVIOUS
<1>3. Alike(f, Wrap(x), f, x, y - x)
  BY Zenon, <1>2, SpanWrapped
<1> QED
  BY Zenon, <1>1, <1>3 DEF Alike, Unwrapped

\* The locals of a thread are numbers and its buffers are pointers.
LEMMA Locals ==
    ASSUME TypeOK, NEW t \in Threads
    PROVE  /\ mine[t] \in Seq(Ptrs) /\ head[t] \in Nat /\ n[t] \in Nat /\ copied[t] \in Nat
           /\ buf_ptrs \in [0 .. buf_num - 1 -> Ptrs]
<1>1. mine[t] \in Seq(Bufs) /\ head[t] \in Pos /\ n[t] \in Nat /\ copied[t] \in 0 .. buf_num
  BY Zenon DEF TypeOK, CallTypes
<1>2. mine[t] \in Seq(Ptrs)
  BY <1>1 DEF Ptrs
<1>3. head[t] \in Nat /\ copied[t] \in Nat
  BY Zenon, <1>1, PosNat DEF Pos
<1>4. buf_ptrs \in [0 .. buf_num - 1 -> Ptrs]
  BY Zenon DEF TypeOK, RingTypes, Ptrs
<1> QED
  BY Zenon, <1>1, <1>2, <1>3, <1>4

\* A thread that has not begun to copy, or is done, has what it has.
LEMMA HoldsMine ==
    ASSUME NEW f, NEW p, NEW h, NEW c, NEW k \in Nat, NEW m \in Seq(Ptrs),
           p = "getCopy" => c = k, p = "pushStore" => c = 0
    PROVE  Holding(f, p, h, c, k, m) = m
<1>1. m \o << >> = m /\ << >> \o m = m
  BY Zenon, SeqEmpty
<1>2. CASE p = "getCopy"
  <2>1. k - c = 0
    BY <1>2
  <2>2. Span(f, h + c, k - c) = << >>
    BY Zenon, <2>1, SpanEmpty
  <2> QED
    BY Zenon, <1>1, <1>2, <2>2 DEF Holding
<1>3. CASE p = "pushStore"
  <2>1. Span(f, h, c) = << >>
    BY Zenon, <1>3, SpanEmpty
  <2>2. p # "getCopy"
    BY Zenon, <1>3
  <2> QED
    BY Zenon, <1>1, <1>3, <2>1, <2>2 DEF Holding
<1>4. CASE p # "getCopy" /\ p # "pushStore"
  BY Zenon, <1>4 DEF Holding
<1> QED
  BY Zenon, <1>2, <1>3, <1>4

\* A step in which only what t has changes.
LEMMA HeldStep ==
    ASSUME NEW t \in Threads, NEW h, h = Holds(t)',
           \A u \in Threads \ {t} : Holds(u)' = Holds(u)
    PROVE  /\ AHeld' = [AHeld EXCEPT ![t] = h]
           /\ h = Holds(t) => AHeld' = AHeld
           /\ AHeld[t] = Holds(t)
<1>1. AHeld = [u \in Threads |-> Holds(u)]
  BY Zenon, Mapping
<1>2. AHeld' = [u \in Threads |-> Holds(u)']
  BY Zenon, Mapping DEF Holds
<1> QED
  BY <1>1, <1>2

\* What the others have does not change in a step of t that leaves the pointers alone.
LEMMA OthersHold ==
    ASSUME NEW t \in Threads, Others(t), buf_ptrs' = buf_ptrs
    PROVE  \A u \in Threads \ {t} : Holds(u)' = Holds(u)
  BY Zenon DEF Others, Holds

\* A step of t that moves no pointer and no end of the queue, outside the copying.
Quiet(t) ==
    /\ buf_ptrs' = buf_ptrs /\ cons_head' = cons_head /\ prod_tail' = prod_tail /\ mine' = mine
    /\ pc[t] # "pushStore" /\ pc'[t] # "getCopy"
    /\ pc[t] = "getCopy" => copied[t] = n[t]
    /\ pc'[t] = "pushStore" => copied'[t] = 0

\* It does not change the queue.
LEMMA QuietStep ==
    ASSUME NEW t \in Threads, TypeOK, TypeOK', Others(t), Quiet(t)
    PROVE  UNCHANGED F!fifoVars
<1>1. AFifo' = AFifo
  BY Zenon, Mapping DEF Quiet
<1>2. mine[t] \in Seq(Ptrs) /\ n[t] \in Nat
  BY Zenon, Locals
<1>3. n'[t] \in Nat /\ mine'[t] = mine[t]
  BY Zenon DEF Quiet, TypeOK, CallTypes
<1>4. /\ pc[t] = "getCopy" => copied[t] = n[t]
      /\ pc[t] = "pushStore" => copied[t] = 0
      /\ pc'[t] = "getCopy" => copied'[t] = n'[t]
      /\ pc'[t] = "pushStore" => copied'[t] = 0
  BY Zenon DEF Quiet
<1>5. Holds(t) = mine[t]
  BY SMTT(20), <1>2, <1>4, HoldsMine DEF Holds
<1>6. Holds(t)' = mine[t]
  BY SMTT(20), <1>2, <1>3, <1>4, HoldsMine DEF Holds
<1>7. \A u \in Threads \ {t} : Holds(u)' = Holds(u)
  BY Zenon, OthersHold DEF Quiet
<1>8. AHeld' = AHeld
  BY Zenon, <1>5, <1>6, <1>7, HeldStep
<1> QED
  BY Zenon, <1>1, <1>8 DEF F!fifoVars

\* The ends of the queue, unwrapped.
LEMMA FifoIs ==
    ASSUME NEW ct, NEW ch, NEW pt, NEW ph, NEW at, NEW tl, NEW b, NEW C,
           GhostInv(ct, ch, pt, ph, at, tl, b, C)
    PROVE  /\ ct \in Nat /\ ch \in Nat /\ pt \in Nat /\ ph \in Nat
           /\ ct <= ch /\ ch <= pt /\ pt <= ph /\ ph < ct + buf_num /\ pt < ch + buf_num
           /\ pt - ch \in Nat /\ cons_head = Wrap(ch) /\ prod_tail = Wrap(pt)
           /\ AFifo = Span(buf_ptrs, ch, pt - ch)
<1>1. /\ ct \in Nat /\ ch \in Nat /\ pt \in Nat /\ ph \in Nat
      /\ ct <= ch /\ ch <= pt /\ pt <= ph /\ ph < ct + buf_num
      /\ cons_head = Wrap(ch) /\ prod_tail = Wrap(pt)
  BY Zenon DEF GhostInv, EndsInv
<1>2. pt < ch + buf_num /\ pt - ch \in Nat
  BY <1>1, RingAssumption
<1>3. Unwrapped(buf_ptrs, ch, pt)
  BY Zenon, <1>1, <1>2, FifoSpan
<1>4. AFifo = Span(buf_ptrs, ch, pt - ch)
  BY Zenon, <1>1, <1>3, Mapping DEF Unwrapped
<1> QED
  BY Zenon, <1>1, <1>2, <1>4

\* A get takes its buffers out of the queue with its compare-and-swap.
LEMMA GetSwapFifo ==
    ASSUME NEW t \in Threads, NEW ct, NEW ch, NEW pt, NEW ph, NEW at, NEW tl, NEW b, NEW C,
           TypeOK, GhostInv(ct, ch, pt, ph, at, tl, b, C), Others(t), Granule = 1,
           GetSwap(t), cons_head = head[t]
    PROVE  F!Get(t)
<1>1. PICK k \in Nat \ {0} :
         /\ n'[t] = k /\ Age(t, {"getTail", "getSwap"}, k) /\ pc'[t] = "getCopy"
         /\ head[t] = Wrap(ch) /\ at[t] = ch /\ copied[t] = 0
         /\ k <= buf_num /\ ch + k \in Nat /\ ch + k <= pt /\ cons_head' = Wrap(ch + k)
  BY GetClaimed
<1>2. /\ ch \in Nat /\ pt \in Nat /\ pt < ch + buf_num /\ prod_tail = Wrap(pt)
      /\ AFifo = Span(buf_ptrs, ch, pt - ch)
  BY Zenon, FifoIs
<1>3. /\ pc[t] = "getSwap" /\ mine' = mine /\ head' = head /\ copied' = copied
      /\ buf_ptrs' = buf_ptrs /\ prod_tail' = prod_tail
  BY Zenon DEF GetSwap
<1>4. /\ mine[t] \in Seq(Ptrs) /\ buf_ptrs \in [0 .. buf_num - 1 -> Ptrs]
  BY Zenon, Locals
<1>5. PICK r \in Nat, x \in Nat : /\ x = ch + k /\ r = pt - x /\ pt - ch = k + r /\ x <= pt
                              /\ pt < x + buf_num /\ k \in Nat /\ k > 0 /\ k - 0 = k
  <2>1. ch \in Nat /\ pt \in Nat /\ pt < ch + buf_num /\ buf_num \in Nat /\ ch + k <= pt
    BY Zenon, <1>1, <1>2, RingAssumption
  <2>2. /\ ch + k \in Nat /\ pt - (ch + k) \in Nat /\ pt - ch = k + (pt - (ch + k))
        /\ pt < (ch + k) + buf_num /\ k \in Nat /\ k > 0 /\ k - 0 = k
    BY <2>1
  <2> QED
    BY Zenon, <2>1, <2>2
\* What is taken, and what stays.
<1>6. Splits(buf_ptrs, ch, k, r)
  <2>1. ch \in Nat /\ k \in Nat /\ buf_ptrs \in [0 .. buf_num - 1 -> Ptrs]
    BY Zenon, <1>2, <1>4, <1>5
  <2> QED
    BY Zenon, <2>1, SpanTake
<1>7. AFifo' = Span(buf_ptrs, x, r)
  <2>1. Unwrapped(buf_ptrs, x, pt)
    BY Zenon, <1>2, <1>5, FifoSpan
  <2> QED
    BY Zenon, <1>1, <1>2, <1>3, <1>5, <2>1, Mapping DEF Unwrapped
<1>8. Holds(t)' = mine[t] \o Span(buf_ptrs, ch, k)
  <2>1. Alike(buf_ptrs, Wrap(ch) + 0, buf_ptrs, ch + 0, k)
    <3>1. ch \in Nat /\ k \in Nat /\ 0 \in Nat
      BY Zenon, <1>2, <1>5, Zero
    <3> QED
      BY Zenon, <3>1, SpanWrap
  <2>2. ch + 0 = ch
    BY <1>2
  <2>3. Holds(t)' = mine[t] \o Span(buf_ptrs, Wrap(ch) + 0, k - 0)
    BY Zenon, <1>1, <1>3 DEF Holds, Holding
  <2> QED
    BY Zenon, <1>5, <2>1, <2>2, <2>3 DEF Alike
<1>9. Holds(t) = mine[t]
  <2>1. pc[t] # "getCopy" /\ pc[t] # "pushStore"
    BY Zenon, <1>3
  <2> QED
    BY Zenon, <2>1 DEF Holds, Holding
<1>10. /\ AHeld' = [AHeld EXCEPT ![t] = mine[t] \o Span(buf_ptrs, ch, k)] /\ AHeld[t] = mine[t]
  BY Zenon, <1>3, <1>8, <1>9, OthersHold, HeldStep
<1>11. /\ Len(AFifo) = k + r /\ SubSeq(AFifo, 1, k) = Span(buf_ptrs, ch, k)
       /\ SubSeq(AFifo, k + 1, Len(AFifo)) = Span(buf_ptrs, x, r)
  <2>1. AFifo = Span(buf_ptrs, ch, k + r)
    BY Zenon, <1>2, <1>5
  <2> QED
    BY Zenon, <1>5, <1>6, <2>1 DEF Splits
<1>12. k \in 1 .. Len(AFifo)
  BY <1>5, <1>11
<1> QED
  BY Zenon, <1>7, <1>10, <1>11, <1>12 DEF F!Get

\* To copy a pointer does not change what the thread has.
LEMMA GetCopyFifo ==
    ASSUME NEW t \in Threads, TypeOK, Others(t), GetCopy(t)
    PROVE  UNCHANGED F!fifoVars
<1>1. /\ pc[t] = "getCopy" /\ copied[t] < n[t]
      /\ mine'[t] = Append(mine[t], buf_ptrs[Slot(head[t] + copied[t])])
      /\ copied'[t] = copied[t] + 1 /\ pc' = pc /\ head' = head /\ n' = n
      /\ buf_ptrs' = buf_ptrs /\ cons_head' = cons_head /\ prod_tail' = prod_tail
  BY Zenon DEF GetCopy, ringVars, TypeOK, CallTypes
<1>2. /\ mine[t] \in Seq(Ptrs) /\ head[t] \in Nat /\ n[t] \in Nat /\ copied[t] \in Nat
      /\ buf_ptrs \in [0 .. buf_num - 1 -> Ptrs]
  BY Zenon, Locals
<1>3. PICK p \in Nat, k \in Nat : /\ p = head[t] + copied[t] /\ k = n[t] - (copied[t] + 1)
                              /\ n[t] - copied[t] = 1 + k /\ head[t] + (copied[t] + 1) = p + 1
  <2>1. /\ head[t] + copied[t] \in Nat /\ n[t] - (copied[t] + 1) \in Nat
        /\ n[t] - copied[t] = 1 + (n[t] - (copied[t] + 1))
        /\ head[t] + (copied[t] + 1) = (head[t] + copied[t]) + 1
    <3>1. head[t] \in Nat /\ n[t] \in Nat /\ copied[t] \in Nat /\ copied[t] < n[t]
      BY Zenon, <1>1, <1>2
    <3> QED
      BY <3>1
  <2> QED
    BY Zenon, <2>1
<1>y. PICK y : y = buf_ptrs[Slot(p)]
  BY Zenon
<1>n. 1 \in Nat /\ p + 1 \in Nat /\ buf_ptrs \in [0 .. buf_num - 1 -> Ptrs]
  <2>1. 1 \in Nat /\ p + 1 \in Nat
    OBVIOUS
  <2> QED
    BY Zenon, <1>2, <2>1
<1>4. Span(buf_ptrs, p, 1 + k) = << y >> \o Span(buf_ptrs, p + 1, k)
  <2>1. Splits(buf_ptrs, p, 1, k)
    BY Zenon, <1>n, SpanTake
  <2>2. Span(buf_ptrs, p, 1) = << y >>
    BY Zenon, <1>y, SpanOne
  <2> QED
    BY Zenon, <2>1, <2>2 DEF Splits
<1>5. Append(mine[t], y) \o Span(buf_ptrs, p + 1, k) = mine[t] \o (<< y >> \o Span(buf_ptrs, p + 1, k))
  <2>1. y \in Ptrs
    <3>1. Slot(p) \in 0 .. buf_num - 1
      BY Zenon, WrapType
    <3> QED
      BY Zenon, <1>n, <1>y, <3>1
  <2>2. Span(buf_ptrs, p + 1, k) \in Seq(Ptrs)
    BY Zenon, <1>n, SpanSeq
  <2> QED
    BY Zenon, <1>2, <2>1, <2>2, SeqAppend
<1>6. Holds(t) = mine[t] \o Span(buf_ptrs, p, 1 + k)
  BY Zenon, <1>1, <1>3 DEF Holds, Holding
<1>7. Holds(t)' = Append(mine[t], y) \o Span(buf_ptrs, p + 1, k)
  BY Zenon, <1>1, <1>3, <1>y DEF Holds, Holding
<1>8. AHeld' = AHeld
  BY Zenon, <1>1, <1>4, <1>5, <1>6, <1>7, OthersHold, HeldStep
<1>9. AFifo' = AFifo
  BY Zenon, <1>1, Mapping
<1> QED
  BY Zenon, <1>8, <1>9 DEF F!fifoVars

\* The pointers f and g differ at most in the slot of x, for the positions in use.
Kept(f, g, ct, ph, x) ==
    \A y \in Nat : ct <= y /\ y < ph /\ y # x => g[Slot(y)] = f[Slot(y)]

\* A span without x is the same in both.
LEMMA SpanKept ==
    ASSUME NEW f, NEW g, NEW ct \in Nat, NEW ph \in Nat, NEW x \in Nat, Kept(f, g, ct, ph, x),
           NEW p \in Nat, NEW k \in Nat, ct <= p, p + k <= ph, x < p \/ p + k <= x
    PROVE  Alike(g, p, f, p, k)
<1>1. ASSUME NEW j \in 1 .. k PROVE g[Slot(p + j - 1)] = f[Slot(p + j - 1)]
  <2>1. /\ p + j - 1 \in Nat /\ ct <= p + j - 1 /\ p + j - 1 < ph /\ p + j - 1 # x
    OBVIOUS
  <2> QED
    BY Zenon, <2>1 DEF Kept
<1> QED
  BY Zenon, <1>1 DEF Alike, Span

\* The positions whose pointers a thread still has to read, or has stored, do not contain x.
Clear(p, a, c, k, ct, ph, x) ==
    /\ p = "getCopy" => ct <= a /\ c <= k /\ a + k <= ph /\ a + k <= x
    /\ p = "pushStore" => ct <= a /\ a + c <= ph /\ (x < a \/ a + c <= x)

\* A thread in the same step has the same.
SameHolding(f, c, m, g, d, l, p, h, k) == Holding(f, p, h, c, k, m) = Holding(g, p, h, d, k, l)

\* The thread has the same with f and g then.
LEMMA HoldingKept ==
    ASSUME NEW f, NEW g, NEW ct \in Nat, NEW ph \in Nat, NEW x \in Nat, Kept(f, g, ct, ph, x),
           NEW p, NEW a \in Nat, NEW c \in Nat, NEW k \in Nat, NEW m,
           Clear(p, a, c, k, ct, ph, x)
    PROVE  SameHolding(g, c, m, f, c, m, p, Wrap(a), k)
<1>1. CASE p = "getCopy"
  <2>1. ct <= a /\ c <= k /\ a + k <= ph /\ a + k <= x
    BY Zenon, <1>1 DEF Clear
  <2>2. PICK q \in Nat, r \in Nat : q = a + c /\ r = k - c /\ ct <= q /\ q + r <= ph /\ q + r <= x
    BY <2>1
  <2>3. Alike(g, q, f, q, r)
    BY Zenon, <2>2, SpanKept
  <2>4. Alike(g, Wrap(a) + c, g, a + c, r) /\ Alike(f, Wrap(a) + c, f, a + c, r)
    BY Zenon, SpanWrap
  <2>5. Span(g, Wrap(a) + c, k - c) = Span(f, Wrap(a) + c, k - c)
    BY Zenon, <2>2, <2>3, <2>4 DEF Alike
  <2> QED
    BY Zenon, <1>1, <2>5 DEF SameHolding, Holding
<1>2. CASE p = "pushStore"
  <2>1. ct <= a /\ a + c <= ph /\ (x < a \/ a + c <= x)
    BY Zenon, <1>2 DEF Clear
  <2>2. Alike(g, a, f, a, c)
    BY Zenon, <2>1, SpanKept
  <2>3. Alike(g, Wrap(a), g, a, c) /\ Alike(f, Wrap(a), f, a, c)
    BY Zenon, SpanWrapped
  <2>4. Span(g, Wrap(a), c) = Span(f, Wrap(a), c)
    BY Zenon, <2>2, <2>3 DEF Alike
  <2>5. p # "getCopy"
    BY Zenon, <1>2
  <2> QED
    BY Zenon, <1>2, <2>4, <2>5 DEF SameHolding, Holding
<1>3. CASE p # "getCopy" /\ p # "pushStore"
  BY Zenon, <1>3 DEF SameHolding, Holding
<1> QED
  BY Zenon, <1>1, <1>2, <1>3

\* A store of one more pointer, at the position after those stored.
LEMMA HoldingStore ==
    ASSUME NEW f \in [0 .. buf_num - 1 -> Ptrs], NEW g \in [0 .. buf_num - 1 -> Ptrs],
           NEW ct \in Nat, NEW ph \in Nat, NEW x \in Nat, Kept(f, g, ct, ph, x),
           NEW a \in Nat, NEW c \in Nat, NEW k, NEW m \in Seq(Ptrs),
           x = a + c, ct <= a, x < ph, m # << >>, g[Slot(x)] = Head(m)
    PROVE  SameHolding(g, c + 1, Tail(m), f, c, m, "pushStore", Wrap(a), k)
<1>1. c + 1 \in Nat /\ 1 \in Nat /\ a + c \in Nat /\ a + c <= ph /\ a + c <= x
  OBVIOUS
<1>2. Alike(g, Wrap(a), g, a, c + 1) /\ Alike(f, Wrap(a), f, a, c)
  BY Zenon, <1>1, SpanWrapped
<1>3. Splits(g, a, c, 1)
  BY Zenon, <1>1, SpanTake
<1>4. Span(g, x, 1) = << Head(m) >>
  BY Zenon, SpanOne
<1>5. Alike(g, a, f, a, c)
  BY Zenon, <1>1, SpanKept
<1>6. PICK s \in Seq(Ptrs) : s = Span(f, a, c)
  BY Zenon, SpanSeq
<1>7. s \o m = (s \o << Head(m) >>) \o Tail(m)
  BY Zenon, SeqMove
<1>8. Span(g, Wrap(a), c + 1) = s \o << Head(m) >> /\ Span(f, Wrap(a), c) = s
  BY Zenon, <1>2, <1>3, <1>4, <1>5, <1>6 DEF Alike, Splits
<1> QED
  BY Zenon, <1>7, <1>8 DEF SameHolding, Holding

\* To store a pointer does not change what the thread has, nor what any other has or is
\* in the queue.
LEMMA PushStoreFifo ==
    ASSUME NEW t \in Threads, NEW ct, NEW ch, NEW pt, NEW ph, NEW at, NEW tl, NEW b, NEW C,
           TypeOK, GhostInv(ct, ch, pt, ph, at, tl, b, C), Others(t), PushStore(t)
    PROVE  UNCHANGED F!fifoVars
<1>1. /\ pc[t] = "pushStore" /\ copied[t] < n[t] /\ mine'[t] = Tail(mine[t])
      /\ copied'[t] = copied[t] + 1 /\ pc' = pc /\ head' = head /\ n' = n
      /\ cons_head' = cons_head /\ prod_tail' = prod_tail
  BY Zenon DEF PushStore, TypeOK, CallTypes
<1>2. /\ ct \in Nat /\ ch \in Nat /\ pt \in Nat /\ ph \in Nat
      /\ ct <= ch /\ ch <= pt /\ pt <= ph /\ pt < ch + buf_num /\ pt - ch \in Nat
      /\ cons_head = Wrap(ch) /\ prod_tail = Wrap(pt) /\ AFifo = Span(buf_ptrs, ch, pt - ch)
  BY Zenon, FifoIs
<1>3. PICK x \in Nat :
         /\ x = at[t] + copied[t] /\ pt <= x /\ x < at[t] + n[t] /\ x < ph
         /\ Head(mine[t]) = b[x] /\ mine[t] # << >>
         /\ buf_ptrs' \in [0 .. buf_num - 1 -> Bufs \cup {None}]
         /\ buf_ptrs'[Slot(x)] = b[x]
         /\ \A y \in Nat : ct <= y /\ y < ph /\ y # x => buf_ptrs'[Slot(y)] = buf_ptrs[Slot(y)]
  BY StoreFrame
<1>x. /\ ct \in Nat /\ ch \in Nat /\ pt \in Nat /\ ph \in Nat /\ ct <= ch /\ ch <= pt /\ pt <= ph
      /\ x = at[t] + copied[t] /\ pt <= x /\ x < at[t] + n[t] /\ x < ph
  BY Zenon, <1>2, <1>3
<1>4. PICK g : g = buf_ptrs'
  BY Zenon
<1>5. g \in [0 .. buf_num - 1 -> Ptrs] /\ Kept(buf_ptrs, g, ct, ph, x) /\ g[Slot(x)] = Head(mine[t])
  BY Zenon, <1>3, <1>4 DEF Ptrs, Kept
<1>6. ASSUME NEW u \in Threads
      PROVE  /\ at[u] \in Nat /\ n[u] \in Nat /\ copied[u] \in Nat /\ mine[u] \in Seq(Ptrs)
             /\ pc[u] = "getCopy" => /\ head[u] = Wrap(at[u]) /\ copied[u] <= n[u]
                                     /\ ct <= at[u] /\ at[u] + n[u] <= ch
             /\ pc[u] = "pushStore" => /\ head[u] = Wrap(at[u]) /\ copied[u] <= n[u]
                                       /\ pt <= at[u] /\ at[u] + n[u] <= ph
  <2>1. n[u] \in Nat /\ copied[u] \in Nat /\ mine[u] \in Seq(Ptrs)
    BY Zenon, Locals
  <2>2. at[u] \in Nat /\ ClaimOk(u, ct, ch, pt, ph, at[u])
    BY Zenon DEF GhostInv
  <2> QED
    BY Zenon, <2>1, <2>2 DEF ClaimOk, GetClaim, PushClaim
\* The positions of the other threads do not contain x.
<1>7. ASSUME NEW u \in Threads \ {t}
      PROVE  Clear(pc[u], at[u], copied[u], n[u], ct, ph, x)
  <2>1. CASE pc[u] = "getCopy"
    <3>1. at[u] \in Nat /\ n[u] \in Nat /\ at[u] + n[u] <= ch /\ pc[u] # "pushStore"
      BY Zenon, <1>6, <2>1
    <3>2. at[u] + n[u] <= ph /\ at[u] + n[u] <= x
      BY <1>x, <3>1
    <3> QED
      BY Zenon, <1>6, <2>1, <3>1, <3>2 DEF Clear
  <2>2. CASE pc[u] = "pushStore"
    <3>1. at[u] + n[u] <= at[t] \/ at[t] + n[t] <= at[u]
      BY Zenon, <1>1, <2>2 DEF GhostInv, ApartInv, PushClaim
    <3>2. /\ at[u] \in Nat /\ n[u] \in Nat /\ copied[u] \in Nat /\ copied[u] <= n[u]
          /\ pt <= at[u] /\ at[u] + n[u] <= ph
          /\ at[t] \in Nat /\ n[t] \in Nat /\ copied[t] \in Nat
      BY Zenon, <1>6, <2>2
    <3>3. ct <= at[u] /\ at[u] + copied[u] <= ph /\ (x < at[u] \/ at[u] + copied[u] <= x)
      BY <1>x, <3>1, <3>2
    <3> QED
      BY Zenon, <2>2, <3>3 DEF Clear
  <2>3. CASE pc[u] # "getCopy" /\ pc[u] # "pushStore"
    BY Zenon, <2>3 DEF Clear
  <2> QED
    BY Zenon, <2>1, <2>2, <2>3
<1>8. ASSUME NEW u \in Threads \ {t} PROVE Holds(u)' = Holds(u)
  <2>0. Holds(u)' = Holding(g, pc[u], head[u], copied[u], n[u], mine[u])
    BY Zenon, <1>4 DEF Holds, Others
  <2>1. CASE pc[u] = "getCopy" \/ pc[u] = "pushStore"
    <3>1. at[u] \in Nat /\ n[u] \in Nat /\ copied[u] \in Nat /\ head[u] = Wrap(at[u])
      BY Zenon, <1>6, <2>1
    <3>2. ct \in Nat /\ ph \in Nat /\ Kept(buf_ptrs, g, ct, ph, x)
      BY Zenon, <1>2, <1>5
    <3>3. SameHolding(g, copied[u], mine[u], buf_ptrs, copied[u], mine[u], pc[u], Wrap(at[u]), n[u])
      BY Zenon, <1>7, <3>1, <3>2, HoldingKept
    <3> QED
      BY Zenon, <2>0, <3>1, <3>3 DEF Holds, SameHolding
  <2>2. CASE pc[u] # "getCopy" /\ pc[u] # "pushStore"
    BY Zenon, <2>0, <2>2 DEF Holds, Holding
  <2> QED
    BY Zenon, <2>1, <2>2
<1>9. Holds(t)' = Holds(t)
  <2>1. /\ at[t] \in Nat /\ copied[t] \in Nat /\ mine[t] \in Seq(Ptrs) /\ head[t] = Wrap(at[t])
        /\ buf_ptrs \in [0 .. buf_num - 1 -> Ptrs] /\ pt <= at[t]
    BY Zenon, <1>1, <1>6, Locals
  <2>2. ct \in Nat /\ ph \in Nat /\ ct <= at[t]
    BY <1>x, <2>1
  <2>3. SameHolding(g, copied[t] + 1, Tail(mine[t]), buf_ptrs, copied[t], mine[t], "pushStore",
                    Wrap(at[t]), n[t])
    BY Zenon, <1>3, <1>5, <2>1, <2>2, HoldingStore
  <2> QED
    BY Zenon, <1>1, <1>4, <2>1, <2>3 DEF Holds, SameHolding
<1>10. AHeld' = AHeld
  BY Zenon, <1>8, <1>9, HeldStep
<1>11. AFifo' = AFifo
  <2>1. ch + (pt - ch) = pt
    BY <1>x
  <2>2. Alike(g, ch, buf_ptrs, ch, pt - ch)
    <3>1. /\ ct \in Nat /\ ph \in Nat /\ ch \in Nat /\ pt - ch \in Nat /\ ct <= ch
          /\ ch + (pt - ch) <= ph /\ ch + (pt - ch) <= x /\ Kept(buf_ptrs, g, ct, ph, x)
      BY Zenon, <1>2, <1>3, <1>5, <2>1
    <3> QED
      BY Zenon, <3>1, SpanKept
  <2>3. Unwrapped(g, ch, pt)
    BY Zenon, <1>2, FifoSpan
  <2>4. AFifo' = Span(g, Wrap(ch), Dist(Wrap(ch), Wrap(pt)))
    BY Zenon, <1>1, <1>2, <1>4, Mapping
  <2> QED
    BY Zenon, <1>2, <2>2, <2>3, <2>4 DEF Alike, Unwrapped
<1> QED
  BY Zenon, <1>10, <1>11 DEF F!fifoVars

\* A push puts its buffers in the queue when it stores prod_tail.
LEMMA PublishFifo ==
    ASSUME NEW t \in Threads, NEW ct, NEW ch, NEW pt, NEW ph, NEW at, NEW tl, NEW b, NEW C,
           TypeOK, GhostInv(ct, ch, pt, ph, at, tl, b, C), Others(t), PushPublish(t)
    PROVE  F!Put(t)
<1>1. /\ pc[t] = "pushStore" /\ pc'[t] = "idle" /\ mine' = mine /\ buf_ptrs' = buf_ptrs
      /\ cons_head' = cons_head
  BY Zenon DEF PushPublish, Return, TypeOK, CallTypes
<1>2. /\ ct \in Nat /\ ch \in Nat /\ pt \in Nat /\ ph \in Nat
      /\ ct <= ch /\ ch <= pt /\ pt <= ph /\ ph < ct + buf_num /\ pt - ch \in Nat
      /\ cons_head = Wrap(ch) /\ AFifo = Span(buf_ptrs, ch, pt - ch)
  BY Zenon, FifoIs
<1>3. PICK x \in Nat :
         /\ x = pt + n[t] /\ pt < x /\ x <= ph /\ at[t] = pt /\ prod_tail' = Wrap(x)
         /\ copied[t] = n[t] /\ head[t] = Wrap(pt)
         /\ \A y \in Nat : pt <= y /\ y < x => buf_ptrs[Slot(y)] = b[y]
  BY PublishEnd
<1>4. /\ mine[t] \in Seq(Ptrs) /\ n[t] \in Nat /\ buf_ptrs \in [0 .. buf_num - 1 -> Ptrs]
  BY Zenon, Locals
<1>5. PICK k \in Nat, r \in Nat : /\ k = n[t] /\ r = pt - ch /\ x - ch = r + k /\ ch + r = pt
                              /\ k > 0 /\ ch <= x /\ x < ch + buf_num
  <2>0. /\ ct \in Nat /\ ch \in Nat /\ pt \in Nat /\ ph \in Nat /\ n[t] \in Nat /\ buf_num \in Nat
        /\ ct <= ch /\ ch <= pt /\ ph < ct + buf_num /\ x = pt + n[t] /\ pt < x /\ x <= ph
    BY Zenon, <1>2, <1>3, <1>4, RingAssumption
  <2>1. /\ x - ch = (pt - ch) + n[t] /\ ch + (pt - ch) = pt /\ n[t] > 0
        /\ ch <= x /\ x < ch + buf_num
    BY <2>0
  <2> QED
    BY Zenon, <1>2, <1>4, <2>1
<1>6. Splits(buf_ptrs, ch, r, k)
  <2>1. ch \in Nat /\ buf_ptrs \in [0 .. buf_num - 1 -> Ptrs]
    BY Zenon, <1>2, <1>4
  <2> QED
    BY Zenon, <2>1, SpanTake
<1>7. PICK s \in Seq(Ptrs) : s = Span(buf_ptrs, pt, k) /\ Len(s) = k
  BY Zenon, <1>5, <1>6 DEF Splits
<1>8. AFifo' = AFifo \o s
  <2>1. Unwrapped(buf_ptrs, ch, x)
    BY Zenon, <1>2, <1>5, FifoSpan
  <2>2. AFifo' = Span(buf_ptrs, Wrap(ch), Dist(Wrap(ch), Wrap(x)))
    BY Zenon, <1>1, <1>2, <1>3, Mapping
  <2>3. AFifo' = Span(buf_ptrs, ch, r + k) /\ AFifo = Span(buf_ptrs, ch, r)
    BY Zenon, <1>2, <1>5, <2>1, <2>2 DEF Unwrapped
  <2>4. Span(buf_ptrs, ch, r + k) = Span(buf_ptrs, ch, r) \o s
    BY Zenon, <1>5, <1>6, <1>7 DEF Splits
  <2> QED
    BY Zenon, <2>3, <2>4
<1>9. Holds(t) = s \o mine[t]
  <2>1. Alike(buf_ptrs, Wrap(pt), buf_ptrs, pt, k)
    BY Zenon, <1>2, SpanWrapped
  <2>2. Holds(t) = Span(buf_ptrs, Wrap(pt), k) \o mine[t]
    BY Zenon, <1>1, <1>3, <1>5 DEF Holds, Holding
  <2> QED
    BY Zenon, <1>7, <2>1, <2>2 DEF Alike
<1>10. Holds(t)' = mine[t]
  <2>1. pc'[t] # "getCopy" /\ pc'[t] # "pushStore"
    BY Zenon, <1>1
  <2> QED
    BY Zenon, <1>1, <2>1 DEF Holds, Holding
<1>11. AHeld' = [AHeld EXCEPT ![t] = mine[t]] /\ AHeld[t] = s \o mine[t]
  BY Zenon, <1>1, <1>9, <1>10, OthersHold, HeldStep
<1>12. /\ Len(s \o mine[t]) = Len(s) + Len(mine[t]) /\ SubSeq(s \o mine[t], 1, Len(s)) = s
       /\ SubSeq(s \o mine[t], Len(s) + 1, Len(s \o mine[t])) = mine[t]
  BY Zenon, <1>4, SeqSplit
<1>13. k \in 1 .. Len(AHeld[t])
  <2>1. Len(mine[t]) \in Nat /\ Len(AHeld[t]) = k + Len(mine[t])
    <3>1. Len(mine[t]) \in Nat
      BY <1>4
    <3> QED
      BY Zenon, <1>7, <1>11, <1>12, <3>1
  <2> QED
    BY <1>5, <2>1
<1>14. /\ SubSeq(AHeld[t], 1, k) = s
       /\ SubSeq(AHeld[t], k + 1, Len(AHeld[t])) = mine[t]
  BY Zenon, <1>7, <1>11, <1>12
<1> QED
  BY Zenon, <1>8, <1>11, <1>13, <1>14 DEF F!Put

\* The queue begins empty; one thread has the buffers.
LEMMA FifoBegins == ASSUME Init PROVE F!FifoInit
<1>1. PICK s \in Seq(Bufs), o \in Threads :
         /\ mine = [t \in Threads |-> IF t = o THEN s ELSE << >>]
         /\ \A i, j \in 1 .. Len(s) : s[i] = s[j] => i = j
         /\ use = "multi" => Len(s) = buf_num - 1
  BY Zenon, FirstOwner
<1>2. PICK m \in Nat : m = Len(s) /\ s \in [1 .. m -> Bufs]
  BY <1>1
<1>3. s \in F!Injection(1 .. m, Bufs)
  BY Zenon, <1>1, <1>2 DEF F!Injection, F!IsInjective
<1>4. m \in 0 .. F!Cardinality(Bufs)
  <2>1. m <= Cardinality(Bufs)
    BY Zenon, <1>1, <1>2, Distinct, RingAssumption
  <2>2. Cardinality(Bufs) \in Nat
    BY Zenon, SizeSame, FS!FS_CardinalityType, RingAssumption
  <2>3. F!Cardinality(Bufs) = Cardinality(Bufs)
    BY DEF F!Cardinality, Cardinality
  <2> QED
    BY <2>1, <2>2, <2>3
<1>5. AFifo = << >>
  <2>1. cons_head = 0 /\ prod_tail = 0 /\ Dist(0, 0) = 0
    BY DEF Init, Dist
  <2> QED
    BY Zenon, <2>1, Mapping, SpanEmpty
<1>6. AHeld = [t \in Threads |-> IF t = o THEN s ELSE << >>]
  <2>1. \A t \in Threads : Holds(t) = IF t = o THEN s ELSE << >>
    BY Zenon, <1>1 DEF Init, Holds, Holding
  <2> QED
    BY Zenon, <2>1, Mapping
<1> QED
  BY Zenon, <1>3, <1>4, <1>5, <1>6 DEF F!FifoInit

\* Every step of the ring is a step of the queue, or leaves the queue as it is.
LEMMA FifoSteps ==
    ASSUME Granule = 1, ~Laps, IInv, IInv', [Next]_vars
    PROVE  [F!FifoNext]_(F!fifoVars)
<1>0. PICK ct, ch, pt, ph, at, tl, b, C :
         TypeOK /\ TypeOK' /\ GhostInv(ct, ch, pt, ph, at, tl, b, C)
  BY Zenon DEF IInv
<1>1. CASE UNCHANGED vars
  <2>1. /\ buf_ptrs' = buf_ptrs /\ prod_tail' = prod_tail /\ cons_head' = cons_head
        /\ pc' = pc /\ head' = head /\ n' = n /\ copied' = copied /\ mine' = mine
    BY Zenon, <1>1 DEF vars, ringVars
  <2>2. AFifo' = AFifo /\ AHeld' = AHeld
    BY Zenon, <2>1, Mapping DEF Holds
  <2> QED
    BY Zenon, <2>2 DEF F!fifoVars
<1>2. ASSUME NEW t \in Threads, Call(t) \/ Step(t) PROVE [F!FifoNext]_(F!fifoVars)
  <2>0. Others(t)
    BY Zenon, <1>0, <1>2, StepLocal
  <2>1. copied[t] = 0 \/ pc[t] \in {"getCopy", "getStore", "pushStore"}
    BY Zenon, <1>0 DEF GhostInv, ClaimOk, GetClaim, PushClaim
  <2>2. CASE \/ GetLoadHead(t) \/ GetReload(t) \/ GetLoadTail(t) \/ GetTurn(t) \/ GetPublish(t)
             \/ PushLoadHead(t) \/ ListLoadHead(t) \/ ListLoadTail(t)
             \/ (GetSwap(t) /\ cons_head # head[t])
    <3>1. Quiet(t)
      <4>0. pc \in [Threads -> {"idle", "getHead", "getTail", "getSwap", "getCopy", "getStore",
                               "pushSwap", "pushStore", "listHead", "listTail", "listSwap"}]
        BY Zenon, <1>0 DEF TypeOK, CallTypes
      <4>1. CASE GetLoadHead(t)
        BY <4>0, <4>1 DEF GetLoadHead, ringVars, Quiet
      <4>2. CASE GetReload(t)
        BY <4>0, <4>2 DEF GetReload, ringVars, Quiet
      <4>3. CASE GetLoadTail(t)
        BY <4>0, <4>3 DEF GetLoadTail, ringVars, Quiet
      <4>4. CASE GetTurn(t)
        BY <4>0, <4>4 DEF GetTurn, ringVars, Quiet
      <4>5. CASE GetPublish(t)
        BY <4>0, <4>5 DEF GetPublish, Return, ringVars, Quiet
      <4>6. CASE PushLoadHead(t)
        BY <4>0, <4>6 DEF PushLoadHead, ringVars, Quiet
      <4>7. CASE ListLoadHead(t)
        BY <4>0, <4>7 DEF ListLoadHead, ringVars, Quiet
      <4>8. CASE ListLoadTail(t)
        BY <4>0, <4>8 DEF ListLoadTail, ringVars, Quiet
      <4>9. CASE GetSwap(t) /\ cons_head # head[t]
        BY SMTT(15), <4>0, <4>9 DEF GetSwap, ringVars, Quiet
      <4> QED
        BY Zenon, <2>2, <4>1, <4>2, <4>3, <4>4, <4>5, <4>6, <4>7, <4>8, <4>9
    <3> QED
      BY Zenon, <1>0, <2>0, <3>1, QuietStep
  <2>3. CASE PushSwap(t) \/ ListSwap(t)
    <3>1. /\ UNCHANGED <<buf_ptrs, cons_head, prod_tail, mine>> /\ copied' = copied
          /\ pc[t] \in {"pushSwap", "listSwap"} /\ pc'[t] # "getCopy"
      BY <1>0, <2>3 DEF PushSwap, ListSwap, TypeOK, CallTypes
    <3>2. Quiet(t)
      BY Zenon, <2>1, <3>1 DEF Quiet
    <3> QED
      BY Zenon, <1>0, <2>0, <3>2, QuietStep
  <2>4. CASE GetSwap(t) /\ cons_head = head[t]
    <3>1. F!Get(t)
      BY Zenon, <1>0, <2>0, <2>4, GetSwapFifo
    <3> QED
      BY Zenon, <3>1 DEF F!FifoNext
  <2>5. CASE GetCopy(t)
    BY Zenon, <1>0, <2>0, <2>5, GetCopyFifo
  <2>6. CASE PushStore(t)
    BY Zenon, <1>0, <2>0, <2>6, PushStoreFifo
  <2>7. CASE PushPublish(t)
    <3>1. F!Put(t)
      BY Zenon, <1>0, <2>0, <2>7, PublishFifo
    <3> QED
      BY Zenon, <3>1 DEF F!FifoNext
  <2> QED
    BY Zenon, <1>2, <2>2, <2>3, <2>4, <2>5, <2>6, <2>7 DEF Call, Step
<1> QED
  BY Zenon, <1>1, <1>2 DEF Next

\* get_multi, push_multi and push_list, interleaved access by access, are a queue: a get
\* takes effect at its compare-and-swap of cons_head, a push at its store of prod_tail.
THEOREM RingImplementsFifo == ASSUME Granule = 1, ~Laps PROVE Spec => ImplementsFifo
<1>1. Init => F!FifoInit
  BY FifoBegins
<1>2. IInv /\ IInv' /\ [Next]_vars => [F!FifoNext]_(F!fifoVars)
  BY Zenon, FifoSteps
<1>3. Spec => []IInv
  BY Zenon, RingInvariant
<1> QED
  BY <1>1, <1>2, <1>3, PTL DEF Spec, ImplementsFifo, F!FifoSpec
=============================================================================
