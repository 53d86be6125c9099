------------------------------ MODULE RingPush ------------------------------
(***************************************************************************)
(* The steps of odp_buffer_ring_push_multi and odp_buffer_ring_push_list    *)
(* that claim positions, store the pointers and publish them.               *)
(***************************************************************************)
EXTENDS RingSteps

-----------------------------------------------------------------------------
(* The pushes that claim. *)

\* A claim with room: the buffers of t at the claimed positions are the first of its own.
LEMMA PushClaimStep ==
    ASSUME NEW t \in Threads, NEW ct, NEW ch, NEW pt, NEW ph, NEW at, NEW tl, NEW b, NEW C,
           TypeOK, GhostInv(ct, ch, pt, ph, at, tl, b, C), ~Laps,
           PushSwap(t) \/ ListSwap(t), prod_head = head[t], ph + n[t] < ct + buf_num
    PROVE  IInv'
<1>1. /\ pc[t] \in {"pushSwap", "listSwap"} /\ prod_head' = Plus(head[t], n[t])
      /\ pc'[t] = "pushStore" /\ Age(t, {"listTail", "listSwap"}, n[t]) /\ n' = n
      /\ head' = head /\ tail' = tail /\ copied' = copied /\ mine' = mine
      /\ buf_ptrs' = buf_ptrs /\ prod_tail' = prod_tail
      /\ cons_head' = cons_head /\ cons_tail' = cons_tail /\ use' = use
  BY Zenon DEF PushSwap, ListSwap, TypeOK, CallTypes
<1>2. Local(t)
  BY Zenon, StepLocal DEF Step
<1>3. /\ ct \in Nat /\ ch \in Nat /\ pt \in Nat /\ ph \in Nat
      /\ ct <= ch /\ ch <= pt /\ pt <= ph /\ ph < ct + buf_num
      /\ cons_tail = Wrap(ct) /\ cons_head = Wrap(ch)
      /\ prod_tail = Wrap(pt) /\ prod_head = Wrap(ph)
  BY Zenon DEF GhostInv, EndsInv
<1>4. PICK m \in Nat, k \in Nat : m = Len(mine[t]) /\ k = n[t] /\ 0 < k /\ k <= m
  <2>1. Len(mine[t]) \in Nat
    BY DEF TypeOK
  <2>2. n[t] \in 1 .. Len(mine[t])
    BY Zenon, <1>1 DEF GhostInv, PushOk
  <2>3. n[t] \in Nat /\ 0 < n[t] /\ n[t] <= Len(mine[t])
    BY <2>1, <2>2
  <2> QED
    BY Zenon, <2>1, <2>3
<1>5. PICK q \in Nat : q = ph + k /\ ph < q /\ q < ct + buf_num /\ k <= buf_num
  <2>1. ph + k \in Nat /\ ph < ph + k /\ k <= buf_num
    BY <1>3, <1>4, RingAssumption
  <2> QED
    BY Zenon, <1>4, <2>1
<1>6. EndsInv(ct, ch, pt, q)'
  <2>1. ph <= q /\ q < ph + buf_num /\ q - ph = k /\ pt <= q
    BY <1>3, <1>5, RingAssumption
  <2>2. prod_head' = Wrap(q)
    <3>1. Wrap(q) = Plus(Wrap(ph), q - ph)
      BY Zenon, <1>3, <2>1, WrapPlus
    <3> QED
      BY Zenon, <1>1, <1>3, <1>4, <2>1, <3>1
  <2> QED
    BY Zenon, <1>1, <1>3, <1>5, <2>1, <2>2 DEF EndsInv
<1>7. /\ lap' \in [Threads -> 0 .. buf_num]
      /\ \A u \in Threads \ {t} :
            /\ pc[u] \in {"listTail", "listSwap"} => lap'[u] = lap[u] + k /\ lap'[u] < buf_num
            /\ pc[u] \notin {"listTail", "listSwap"} => lap'[u] = lap[u]
  BY Zenon, <1>1, <1>4, AgeStep
<1>8. TypeOK' /\ Others(t)
  <2>1. prod_head' \in Pos
    BY Zenon, <1>5, <1>6, WrapType DEF EndsInv
  <2>2. RingTypes'
    BY Zenon, <1>1, <2>1 DEF TypeOK, RingTypes
  <2>3. Assigned(t)
    BY Zenon, <1>1, <1>4, <1>5, <1>7, <2>2 DEF TypeOK, CallTypes, Claiming, Assigned
  <2> QED
    BY Zenon, <1>2, <2>3, TypeStep
<1>9. ~GetClaim(t) /\ ~PushClaim(t) /\ ~GetClaim(t)' /\ PushClaim(t)' /\ copied[t] = 0
  <2>1. ~GetClaim(t) /\ ~PushClaim(t) /\ ~GetClaim(t)' /\ PushClaim(t)'
    BY Zenon, <1>1 DEF GetClaim, PushClaim
  <2> QED
    BY Zenon, <2>1 DEF GhostInv, ClaimOk
<1>10. PICK at2 : at2 = [at EXCEPT ![t] = ph]
  BY Zenon
<1>11. at2 \in [Threads -> Nat] /\ at2[t] = ph /\ \A u \in Threads \ {t} : at2[u] = at[u]
  BY Zenon, <1>3, <1>10 DEF GhostInv
<1>12. PICK b2 \in [Nat -> Bufs] :
          /\ \A y \in Nat : y < ph => b2[y] = b[y]
          /\ \A j \in 1 .. k : b2[ph + j - 1] = mine[t][j]
  <2>0. mine[t] \in Seq(Bufs) /\ b \in [Nat -> Bufs]
    BY Zenon DEF GhostInv, TypeOK
  <2>1. \A j \in 1 .. k : mine[t][j] \in Bufs
    BY <1>4, <2>0
  <2>2. PICK b2 : b2 = [y \in Nat |-> IF ph <= y /\ y < q THEN mine[t][y - ph + 1] ELSE b[y]]
    BY Zenon
  <2>3. \A y \in Nat : ph <= y /\ y < q => y - ph + 1 \in 1 .. k
    BY <1>3, <1>5
  <2>4. b2 \in [Nat -> Bufs]
    BY Zenon, <2>0, <2>1, <2>2, <2>3
  <2>5. \A y \in Nat : y < ph => ~(ph <= y)
    BY <1>3
  <2>6. \A j \in 1 .. k : /\ ph + j - 1 \in Nat /\ ph <= ph + j - 1 /\ ph + j - 1 < q
                          /\ (ph + j - 1) - ph + 1 = j
    BY <1>3, <1>5
  <2>7. \A y \in Nat : y < ph => b2[y] = b[y]
    BY Zenon, <2>2, <2>5
  <2>8. \A j \in 1 .. k : b2[ph + j - 1] = mine[t][j]
    BY Zenon, <2>2, <2>6
  <2> QED
    BY Zenon, <2>4, <2>7, <2>8
<1>13. \A y \in Nat : y < q => y < ph \/ \E j \in 1 .. k : y = ph + j - 1 /\ b2[y] = mine[t][j]
  <2>1. \A y \in Nat : y < q => y < ph \/ (y - ph + 1 \in 1 .. k /\ y = ph + (y - ph + 1) - 1)
    BY <1>3, <1>5
  <2> QED
    BY Zenon, <1>12, <2>1
<1>14. StoredInv(ct, pt, b2)'
  <2>1. \A y \in Nat : y < pt => b2[y] = b[y]
    BY <1>3, <1>12
  <2> QED
    BY Zenon, <1>1, <2>1 DEF GhostInv, StoredInv
<1>15. ASSUME NEW u \in Threads
       PROVE  /\ GetOk(u, ch, pt, at2[u], tl[u])' /\ PushOk(u, ct, q, at2[u])'
              /\ ClaimOk(u, ct, ch, pt, q, at2[u])' /\ StoreOk(u, at2[u], b2)'
  <2>1. CASE u = t
    <3>1. GetOk(t, ch, pt, ph, tl[t])' /\ PushOk(t, ct, q, ph)'
      BY Zenon, <1>1 DEF GetOk, PushOk
    <3>2. ph + k <= q /\ 0 <= k /\ k - 0 <= m /\ k > 0
      BY <1>4, <1>5
    <3>3. ClaimOk(t, ct, ch, pt, q, ph)'
      BY Zenon, <1>1, <1>3, <1>4, <1>9, <3>2 DEF ClaimOk, GetClaim, PushClaim
    <3>4. \A y \in Nat : ph <= y /\ y < ph + 0 => FALSE
      BY <1>3
    <3>5. k - 0 = k /\ \A i \in 1 .. k : ph + 0 + i - 1 = ph + i - 1
      BY <1>3, <1>4
    <3>6. StoreOk(t, ph, b2)'
      BY Zenon, <1>1, <1>4, <1>9, <1>12, <3>4, <3>5 DEF StoreOk
    <3> QED
      BY Zenon, <1>11, <2>1, <3>1, <3>3, <3>6
  <2>2. CASE u # t
    <3>1. /\ GetOk(u, ch, pt, at[u], tl[u]) /\ PushOk(u, ct, ph, at[u]) /\ at[u] \in Nat
          /\ ClaimOk(u, ct, ch, pt, ph, at[u]) /\ StoreOk(u, at[u], b) /\ at2[u] = at[u]
      BY Zenon, <1>11, <2>2 DEF GhostInv
    <3>2. pc'[u] = pc[u] /\ n[u] \in Nat /\ lap[u] \in Nat /\ copied[u] \in Nat
      <4>1. pc'[u] = pc[u] /\ n[u] \in Nat /\ lap[u] \in 0 .. buf_num /\ copied[u] \in 0 .. buf_num
        BY Zenon, <1>8, <2>2 DEF Others, TypeOK, CallTypes
      <4> QED
        BY <4>1, RingAssumption
    <3>3. GetOk(u, ch, pt, at[u], tl[u])'
      BY Zenon, <1>1, <1>7, <2>2, <3>1, <3>2 DEF GetOk
    <3>4. PushOk(u, ct, q, at[u])'
      <4>1. pc[u] \in {"listTail", "listSwap"} =>
               lap'[u] = lap[u] + k /\ lap'[u] < buf_num /\ at[u] + lap[u] = ph
        BY Zenon, <1>7, <2>2, <3>1 DEF PushOk
      <4>2. at[u] + lap[u] = ph => at[u] + (lap[u] + k) = q /\ lap[u] + k # 0
        BY <1>4, <1>5, <3>1, <3>2
      <4> QED
        BY Zenon, <1>1, <3>1, <3>2, <4>1, <4>2 DEF PushOk
    <3>5. ClaimOk(u, ct, ch, pt, q, at[u])'
      <4>1. at[u] + n[u] <= ph => at[u] + n[u] <= q
        BY <1>3, <1>5, <3>1, <3>2
      <4> QED
        BY Zenon, <1>1, <3>1, <3>2, <4>1 DEF ClaimOk, GetClaim, PushClaim
    <3>6. GetClaim(u) \/ PushClaim(u) => copied[u] <= n[u] /\ at[u] + n[u] <= ph
      <4>1. /\ GetClaim(u) => copied[u] <= n[u] /\ at[u] + n[u] <= ch
            /\ PushClaim(u) => copied[u] <= n[u] /\ at[u] + n[u] <= ph
        BY Zenon, <3>1 DEF ClaimOk
      <4>2. at[u] + n[u] <= ch => at[u] + n[u] <= ph
        BY <1>3, <3>1, <3>2
      <4> QED
        BY Zenon, <4>1, <4>2
    <3>7. StoreOk(u, at[u], b2)'
      <4>1. GetClaim(u)' = GetClaim(u) /\ PushClaim(u)' = PushClaim(u)
        BY Zenon, <3>2 DEF GetClaim, PushClaim
      <4>2. ASSUME PushClaim(u), NEW y \in Nat, at[u] <= y, y < at[u] + copied[u]
            PROVE  buf_ptrs[Slot(y)] = b2[y]
        <5>1. y < ph
          BY <1>3, <3>1, <3>2, <3>6, <4>2
        <5> QED
          BY Zenon, <1>12, <3>1, <4>2, <5>1 DEF StoreOk
      <4>3. ASSUME PushClaim(u), NEW i \in 1 .. n[u] - copied[u]
            PROVE  mine[u][i] = b2[at[u] + copied[u] + i - 1]
        <5>1. at[u] + copied[u] + i - 1 \in Nat /\ at[u] + copied[u] + i - 1 < ph
          BY <1>3, <3>1, <3>2, <3>6, <4>3
        <5> QED
          BY Zenon, <1>12, <3>1, <4>3, <5>1 DEF StoreOk
      <4>4. ASSUME GetClaim(u), NEW i \in 1 .. copied[u]
            PROVE  mine[u][Len(mine[u]) - copied[u] + i] = b2[at[u] + i - 1]
        <5>1. at[u] + i - 1 \in Nat /\ at[u] + i - 1 < ph
          BY <1>3, <3>1, <3>2, <3>6, <4>4
        <5> QED
          BY Zenon, <1>12, <3>1, <4>4, <5>1 DEF StoreOk
      <4> QED
        BY Zenon, <1>1, <4>1, <4>2, <4>3, <4>4 DEF StoreOk
    <3> QED
      BY Zenon, <3>1, <3>3, <3>4, <3>5, <3>7
  <2> QED
    BY Zenon, <2>1, <2>2
<1>16. ApartInv(at2)'
  <2>1. \A u \in Threads : u # t /\ PushClaim(u) => at2[u] + n[u] <= at2[t]
    BY Zenon, <1>11 DEF GhostInv, ClaimOk
  <2> QED
    BY Zenon, <1>1, <1>8, <1>9, <1>11, <2>1 DEF GhostInv, ApartInv, Others, GetClaim, PushClaim
<1>17. /\ Free(t) = 1 .. m /\ Free(t)' = k + 1 .. m
       /\ \A u \in Threads : u # t => Free(u)' = Free(u)
  <2>1. Free(t) = 1 .. m /\ Free(t)' = k - 0 + 1 .. m
    BY Zenon, <1>1, <1>4, <1>9 DEF Free
  <2>2. k - 0 + 1 = k + 1
    BY <1>4
  <2> QED
    BY Zenon, <1>8, <2>1, <2>2 DEF Free, Others, GetClaim, PushClaim
<1>18. /\ 1 .. k \subseteq Free(t)
       /\ \A u \in Threads : \A i \in Free(u)' : i \in Free(u) /\ (u = t => i \notin 1 .. k)
  <2>1. 1 .. k \subseteq 1 .. m /\ \A i \in k + 1 .. m : i \in 1 .. m /\ i \notin 1 .. k
    BY <1>4
  <2> QED
    BY Zenon, <1>17, <2>1
<1>19. UniqInv(ct, q, b2)' /\ (RoomInv(ct, ph, b, C) => RoomInv(ct, q, b2, C)')
  <2>1. \A y, z \in Nat : ct <= y /\ y < z /\ z < ph => b[y] # b[z]
    BY Zenon DEF GhostInv, UniqInv
  <2>2. \A u \in Threads : \A i \in Free(u) :
           \A y \in Nat : ct <= y /\ y < ph => mine[u][i] # b[y]
    BY Zenon DEF GhostInv, UniqInv
  <2>3. \A u, v \in Threads : \A i \in Free(u), j \in Free(v) :
           mine[u][i] = mine[v][j] => u = v /\ i = j
    BY Zenon DEF GhostInv, UniqInv
  <2>4. ASSUME NEW y \in Nat, NEW z \in Nat, ct <= y, y < z, z < q PROVE b2[y] # b2[z]
    <3>0. y < q /\ (z < ph => y < ph) /\ ct <= z
      BY <1>3, <1>5, <2>4
    <3>1. CASE z < ph
      BY Zenon, <1>12, <2>1, <2>4, <3>0, <3>1
    <3>2. CASE ~(z < ph)
      <4>1. PICK j \in 1 .. k : z = ph + j - 1 /\ b2[z] = mine[t][j]
        BY Zenon, <1>13, <2>4, <3>2
      <4>2. CASE y < ph
        BY <1>12, <1>18, <2>2, <2>4, <4>1, <4>2
      <4>3. CASE ~(y < ph)
        <5>1. PICK i \in 1 .. k : y = ph + i - 1 /\ b2[y] = mine[t][i]
          BY Zenon, <1>13, <3>0, <4>3
        <5>2. i # j
          BY <1>3, <2>4, <4>1, <5>1
        <5>3. mine[t][i] = mine[t][j] => i = j
          BY Zenon, <1>18, <2>3, <4>1, <5>1
        <5> QED
          BY Zenon, <4>1, <5>1, <5>2, <5>3
      <4> QED
        BY Zenon, <4>2, <4>3
    <3> QED
      BY Zenon, <3>1, <3>2
  <2>5. ASSUME NEW u \in Threads, NEW i \in Free(u)', NEW y \in Nat, ct <= y, y < q
        PROVE  mine[u][i] # b2[y]
    <3>1. i \in Free(u) /\ (u = t => i \notin 1 .. k)
      BY Zenon, <1>18, <2>5
    <3>2. CASE y < ph
      BY <1>12, <2>2, <2>5, <3>1, <3>2
    <3>3. CASE ~(y < ph)
      <4>1. PICK j \in 1 .. k : y = ph + j - 1 /\ b2[y] = mine[t][j]
        BY Zenon, <1>13, <2>5, <3>3
      <4>2. mine[u][i] = mine[t][j] => u = t /\ i = j
        BY <1>18, <2>3, <3>1, <4>1
      <4> QED
        BY Zenon, <3>1, <4>1, <4>2
    <3> QED
      BY Zenon, <3>2, <3>3
  <2>6. UniqInv(ct, q, b2)'
    <3>1. \A y, z \in Nat : ct <= y /\ y < z /\ z < q => b2[y] # b2[z]
      BY Zenon, <2>4
    <3>2. \A u \in Threads : \A i \in Free(u)' : \A y \in Nat : ct <= y /\ y < q => mine[u][i] # b2[y]
      BY Zenon, <2>5
    <3>3. \A u, v \in Threads : \A i \in Free(u)', j \in Free(v)' :
             mine[u][i] = mine[v][j] => u = v /\ i = j
      BY <1>18, <2>3
    <3>4. mine' = mine
      BY Zenon, <1>1
    <3> QED
      BY <3>1, <3>2, <3>3, <3>4 DEF UniqInv
  <2>7. ASSUME RoomInv(ct, ph, b, C) PROVE RoomInv(ct, q, b2, C)'
    <3>1. \A u \in Threads : \A i \in Free(u) : mine[u][i] \in C
      BY Zenon, <2>7 DEF RoomInv
    <3>2. IsFiniteSet(C) /\ Cardinality(C) < buf_num
      BY Zenon, <2>7 DEF RoomInv
    <3>3. ASSUME NEW y \in Nat, ct <= y, y < q PROVE b2[y] \in C
      <4>1. CASE y < ph
        BY Zenon, <1>12, <2>7, <3>3, <4>1 DEF RoomInv
      <4>2. CASE ~(y < ph)
        BY Zenon, <1>13, <1>18, <3>1, <3>3, <4>2
      <4> QED
        BY Zenon, <4>1, <4>2
    <3>4. \A u \in Threads : \A i \in Free(u)' : mine[u][i] \in C
      BY Zenon, <1>18, <3>1
    <3>5. mine' = mine
      BY Zenon, <1>1
    <3> QED
      BY <3>2, <3>3, <3>4, <3>5 DEF RoomInv
  <2> QED
    BY Zenon, <2>6, <2>7
<1>20. GhostInv(ct, ch, pt, q, at2, tl, b2, C)'
  BY Zenon, <1>1, <1>6, <1>11, <1>12, <1>14, <1>15, <1>16, <1>19 DEF GhostInv
<1> QED
  BY Zenon, <1>8, <1>20 DEF IInv

\* A store changes the one position it is for, and none of the others in use.
LEMMA StoreFrame ==
    ASSUME NEW t \in Threads, NEW ct, NEW ch, NEW pt, NEW ph, NEW at, NEW tl, NEW b, NEW C,
           TypeOK, GhostInv(ct, ch, pt, ph, at, tl, b, C), PushStore(t)
    PROVE  \E x \in Nat :
             /\ x = at[t] + copied[t] /\ pt <= x /\ x < at[t] + n[t] /\ x < ph
             /\ Head(mine[t]) = b[x] /\ mine[t] # << >>
             /\ buf_ptrs' \in [0 .. buf_num - 1 -> Bufs \cup {None}]
             /\ buf_ptrs'[Slot(x)] = b[x]
             /\ \A y \in Nat : ct <= y /\ y < ph /\ y # x => buf_ptrs'[Slot(y)] = buf_ptrs[Slot(y)]
<1>1. /\ PushClaim(t) /\ copied[t] < n[t]
      /\ buf_ptrs' = [buf_ptrs EXCEPT ![Slot(head[t] + copied[t])] = Head(mine[t])]
  BY Zenon DEF PushStore, PushClaim
<1>2. /\ mine[t] \in Seq(Bufs) /\ n[t] \in Nat /\ copied[t] \in Nat /\ at[t] \in Nat
      /\ b \in [Nat -> Bufs] /\ buf_ptrs \in [0 .. buf_num - 1 -> Bufs \cup {None}]
  <2>1. mine[t] \in Seq(Bufs) /\ n[t] \in Nat /\ copied[t] \in 0 .. buf_num
    BY Zenon DEF TypeOK, CallTypes
  <2>2. copied[t] \in Nat
    BY <2>1, RingAssumption
  <2> QED
    BY Zenon, <2>1, <2>2 DEF GhostInv, TypeOK, RingTypes
<1>3. /\ head[t] = Wrap(at[t]) /\ n[t] - copied[t] <= Len(mine[t])
      /\ pt <= at[t] /\ at[t] + n[t] <= ph
      /\ \A i \in 1 .. n[t] - copied[t] : mine[t][i] = b[at[t] + copied[t] + i - 1]
  BY Zenon, <1>1 DEF GhostInv, ClaimOk, StoreOk
<1>4. /\ ct \in Nat /\ ch \in Nat /\ pt \in Nat /\ ph \in Nat
      /\ ct <= ch /\ ch <= pt /\ pt <= ph /\ ph < ct + buf_num
  BY Zenon DEF GhostInv, EndsInv
<1>5. PICK x \in Nat : x = at[t] + copied[t] /\ pt <= x /\ x < at[t] + n[t] /\ x < ph /\ ct <= x
  <2>1. at[t] + copied[t] \in Nat /\ pt <= at[t] + copied[t] /\ at[t] + copied[t] < at[t] + n[t]
        /\ at[t] + copied[t] < ph /\ ct <= at[t] + copied[t]
    BY <1>1, <1>2, <1>3, <1>4
  <2> QED
    BY Zenon, <2>1
<1>6. Head(mine[t]) = b[x] /\ mine[t] # << >>
  <2>1. 1 \in 1 .. n[t] - copied[t] /\ at[t] + copied[t] + 1 - 1 = x
    BY <1>1, <1>2, <1>5
  <2>2. mine[t][1] = b[x]
    BY Zenon, <1>3, <2>1
  <2>3. mine[t] # << >>
    BY <1>1, <1>2, <1>3
  <2> QED
    BY <1>2, <2>2, <2>3
<1>7. Slot(head[t] + copied[t]) = Slot(x) /\ Slot(x) \in 0 .. buf_num - 1
  BY Zenon, <1>2, <1>3, <1>5, WrapSlot, WrapType
<1>8. /\ buf_ptrs' \in [0 .. buf_num - 1 -> Bufs \cup {None}]
      /\ buf_ptrs'[Slot(x)] = b[x]
      /\ \A s \in 0 .. buf_num - 1 : s # Slot(x) => buf_ptrs'[s] = buf_ptrs[s]
  <2>1. b[x] \in Bufs \cup {None}
    BY Zenon, <1>2, <1>5
  <2> QED
    BY Zenon, <1>1, <1>2, <1>6, <1>7, <2>1
<1>9. ASSUME NEW y \in Nat, ct <= y, y < ph, y # x PROVE buf_ptrs'[Slot(y)] = buf_ptrs[Slot(y)]
  <2>1. Slot(y) # Slot(x)
    <3>1. CASE x <= y
      <4>1. y < x + buf_num
        BY <1>4, <1>5, <1>9, RingAssumption
      <4> QED
        BY Zenon, <1>5, <1>9, <3>1, <4>1, WrapApart
    <3>2. CASE y <= x
      <4>1. x < y + buf_num
        BY <1>4, <1>5, <1>9, RingAssumption
      <4> QED
        BY Zenon, <1>5, <1>9, <3>2, <4>1, WrapApart
    <3>3. x <= y \/ y <= x
      BY <1>5, <1>9
    <3> QED
      BY Zenon, <3>1, <3>2, <3>3
  <2> QED
    BY Zenon, <1>8, <2>1, WrapType
<1> QED
  BY Zenon, <1>5, <1>6, <1>8, <1>9

\* A push stores a pointer at a position that nobody else reads or writes.
LEMMA PushStoreStep ==
    ASSUME NEW t \in Threads, NEW ct, NEW ch, NEW pt, NEW ph, NEW at, NEW tl, NEW b, NEW C,
           TypeOK, GhostInv(ct, ch, pt, ph, at, tl, b, C), PushStore(t)
    PROVE  IInv'
<1>1. /\ pc[t] = "pushStore" /\ copied[t] < n[t] /\ mine'[t] = Tail(mine[t])
      /\ copied'[t] = copied[t] + 1
      /\ use' = use /\ prod_head' = prod_head /\ prod_tail' = prod_tail
      /\ cons_head' = cons_head /\ cons_tail' = cons_tail
      /\ pc' = pc /\ head' = head /\ tail' = tail /\ n' = n /\ lap' = lap
  BY Zenon DEF PushStore, TypeOK, CallTypes
<1>2. Local(t)
  BY Zenon, StepLocal DEF Step
<1>3. PICK x \in Nat :
        /\ x = at[t] + copied[t] /\ pt <= x /\ x < at[t] + n[t] /\ x < ph
        /\ Head(mine[t]) = b[x] /\ mine[t] # << >>
        /\ buf_ptrs' \in [0 .. buf_num - 1 -> Bufs \cup {None}]
        /\ buf_ptrs'[Slot(x)] = b[x]
        /\ \A y \in Nat : ct <= y /\ y < ph /\ y # x => buf_ptrs'[Slot(y)] = buf_ptrs[Slot(y)]
  BY StoreFrame
<1>4. /\ GetClaim(t)' = GetClaim(t) /\ PushClaim(t)' /\ PushClaim(t) /\ ~GetClaim(t)
  BY Zenon, <1>1 DEF GetClaim, PushClaim
<1>5. PICK m \in Nat, k \in Nat, c \in Nat, a \in Nat :
        m = Len(mine[t]) /\ k = n[t] /\ c = copied[t] /\ a = at[t] /\ k <= buf_num
  <2>1. mine[t] \in Seq(Bufs) /\ n[t] \in Nat /\ copied[t] \in 0 .. buf_num /\ n[t] <= buf_num
    BY Zenon, <1>1 DEF TypeOK, CallTypes, Claiming
  <2>2. copied[t] \in Nat /\ Len(mine[t]) \in Nat
    BY <2>1, RingAssumption
  <2> QED
    BY Zenon, <2>1, <2>2 DEF GhostInv
<1>6. /\ mine'[t] \in Seq(Bufs) /\ Len(mine'[t]) = m - 1 /\ m > 0
      /\ \A i \in 1 .. m - 1 : mine'[t][i] = mine[t][i + 1]
  <2>1. mine[t] \in Seq(Bufs)
    BY Zenon DEF TypeOK
  <2> QED
    BY <1>1, <1>3, <1>5, <2>1
<1>7. /\ k - c <= m /\ c < k /\ pt <= a /\ a + k <= ph /\ x = a + c /\ head[t] = Wrap(a)
      /\ copied'[t] = c + 1 /\ n'[t] = k
  BY Zenon, <1>1, <1>3, <1>4, <1>5 DEF GhostInv, ClaimOk
<1>8. TypeOK' /\ Others(t)
  <2>1. RingTypes'
    BY Zenon, <1>1, <1>3 DEF TypeOK, RingTypes
  <2>2. copied'[t] \in 0 .. buf_num
    <3>1. c < k /\ k <= buf_num
      BY Zenon, <1>5, <1>7
    <3>2. c + 1 \in 0 .. buf_num
      BY <3>1, RingAssumption
    <3> QED
      BY Zenon, <1>7, <3>2
  <2>3. Assigned(t)
    BY Zenon, <1>1, <1>5, <1>6, <2>1, <2>2 DEF TypeOK, CallTypes, Claiming, Assigned
  <2> QED
    BY Zenon, <1>2, <2>3, TypeStep
<1>9. /\ ct \in Nat /\ ch \in Nat /\ pt \in Nat /\ ph \in Nat
      /\ ct <= ch /\ ch <= pt /\ pt <= ph /\ ph < ct + buf_num
  BY Zenon DEF GhostInv, EndsInv
<1>10. EndsInv(ct, ch, pt, ph)' /\ StoredInv(ct, pt, b)'
  <2>1. \A y \in Nat : y < pt => y < ph /\ y # x
    BY <1>3, <1>9
  <2> QED
    BY Zenon, <1>1, <1>3, <2>1 DEF GhostInv, EndsInv, StoredInv
<1>n. /\ m \in Nat /\ k \in Nat /\ c \in Nat /\ a \in Nat /\ x \in Nat /\ m > 0 /\ k - c <= m
      /\ c < k /\ x = a + c /\ pt <= a /\ a + k <= ph /\ ct <= pt /\ ct \in Nat /\ ph \in Nat /\ pt \in Nat
  <2>1. ct <= pt
    BY <1>9
  <2> QED
    BY Zenon, <1>3, <1>5, <1>6, <1>7, <1>9, <2>1
<1>11. ASSUME NEW u \in Threads
       PROVE  /\ GetOk(u, ch, pt, at[u], tl[u])' /\ PushOk(u, ct, ph, at[u])'
              /\ ClaimOk(u, ct, ch, pt, ph, at[u])' /\ StoreOk(u, at[u], b)'
  <2>0. /\ GetOk(u, ch, pt, at[u], tl[u]) /\ PushOk(u, ct, ph, at[u])
        /\ ClaimOk(u, ct, ch, pt, ph, at[u]) /\ StoreOk(u, at[u], b)
    BY Zenon DEF GhostInv
  <2>1. CASE u = t
    <3>1. GetOk(t, ch, pt, a, tl[t])' /\ PushOk(t, ct, ph, a)'
      BY Zenon, <1>1 DEF GetOk, PushOk
    <3>2. c + 1 <= k /\ k - (c + 1) <= m - 1 /\ k > 0
      BY <1>n
    <3>3. ClaimOk(t, ct, ch, pt, ph, a)'
      BY Zenon, <1>1, <1>4, <1>6, <1>7, <3>2 DEF ClaimOk, GetClaim, PushClaim
    <3>4. ASSUME NEW y \in Nat, a <= y, y < a + (c + 1) PROVE buf_ptrs'[Slot(y)] = b[y]
      <4>1. CASE y = x
        BY Zenon, <1>3, <4>1
      <4>2. CASE y # x
        <5>1. ct <= y /\ y < ph /\ y < a + c
          BY <1>n, <3>4, <4>2
        <5>2. buf_ptrs[Slot(y)] = b[y]
          BY Zenon, <1>4, <1>5, <2>0, <2>1, <3>4, <5>1 DEF StoreOk
        <5> QED
          BY Zenon, <1>3, <4>2, <5>1, <5>2
      <4> QED
        BY Zenon, <4>1, <4>2
    <3>5. ASSUME NEW i \in 1 .. k - (c + 1) PROVE mine'[t][i] = b[a + (c + 1) + i - 1]
      <4>1. /\ i \in 1 .. m - 1 /\ i + 1 \in 1 .. k - c
            /\ a + (c + 1) + i - 1 = a + c + (i + 1) - 1
        BY <1>n
      <4>2. mine[t][i + 1] = b[a + c + (i + 1) - 1]
        BY Zenon, <1>4, <1>5, <2>0, <2>1, <4>1 DEF StoreOk
      <4> QED
        BY Zenon, <1>6, <4>1, <4>2
    <3>6. StoreOk(t, a, b)'
      BY Zenon, <1>4, <1>7, <3>4, <3>5 DEF StoreOk
    <3> QED
      BY Zenon, <1>5, <2>1, <3>1, <3>3, <3>6
  <2>2. CASE u # t
    <3>1. copied'[u] = copied[u] /\ mine'[u] = mine[u]
      BY Zenon, <1>8, <2>2 DEF Others
    <3>2. /\ GetOk(u, ch, pt, at[u], tl[u])' /\ PushOk(u, ct, ph, at[u])'
          /\ ClaimOk(u, ct, ch, pt, ph, at[u])'
      BY Zenon, <1>1, <2>0, <3>1 DEF GetOk, PushOk, ClaimOk, GetClaim, PushClaim
    <3>3. ASSUME PushClaim(u), NEW y \in Nat, at[u] <= y, y < at[u] + copied[u]
          PROVE  buf_ptrs'[Slot(y)] = b[y]
      <4>1. n[u] \in Nat /\ copied[u] \in 0 .. buf_num /\ at[u] \in Nat
        BY Zenon DEF GhostInv, TypeOK, CallTypes
      <4>2. copied[u] <= n[u] /\ pt <= at[u] /\ at[u] + n[u] <= ph
        BY Zenon, <2>0, <3>3 DEF ClaimOk
      <4>3. a + k <= at[u] \/ at[u] + n[u] <= a
        BY Zenon, <1>4, <1>5, <2>2, <3>3 DEF GhostInv, ApartInv
      <4>4. ct <= y /\ y < ph /\ y # x
        BY <1>n, <3>3, <4>1, <4>2, <4>3, RingAssumption
      <4>5. buf_ptrs[Slot(y)] = b[y]
        BY Zenon, <2>0, <3>3 DEF StoreOk
      <4> QED
        BY Zenon, <1>3, <4>4, <4>5
    <3>4. StoreOk(u, at[u], b)'
      BY Zenon, <1>1, <2>0, <3>1, <3>3 DEF StoreOk, GetClaim, PushClaim
    <3> QED
      BY Zenon, <3>2, <3>4
  <2> QED
    BY Zenon, <2>1, <2>2
<1>12. ApartInv(at)'
  BY Zenon, <1>1 DEF GhostInv, ApartInv, GetClaim, PushClaim
<1>13. UniqInv(ct, ph, b)' /\ (RoomInv(ct, ph, b, C) => RoomInv(ct, ph, b, C)')
  <2>1. Free(t) = k - c + 1 .. m /\ Free(t)' = k - (c + 1) + 1 .. m - 1
    BY Zenon, <1>4, <1>5, <1>6, <1>7 DEF Free
  <2>2. \A i \in k - (c + 1) + 1 .. m - 1 :
           i \in Int /\ i + 1 \in k - c + 1 .. m /\ i \in 1 .. m - 1
    BY <1>n
  <2>3. 1 \in Int
        /\ \A i \in Free(t)' : i \in Int /\ i + 1 \in Free(t) /\ mine'[t][i] = mine[t][i + 1]
    <3>1. 1 \in Int
      OBVIOUS
    <3> QED
      BY Zenon, <1>6, <2>1, <2>2, <3>1
  <2> QED
    BY Zenon, <1>8, <2>3, UniqFrame DEF GhostInv
<1>14. GhostInv(ct, ch, pt, ph, at, tl, b, C)'
  BY Zenon, <1>1, <1>10, <1>11, <1>12, <1>13 DEF GhostInv
<1> QED
  BY Zenon, <1>8, <1>14 DEF IInv

\* The claim that is published is the first of the pushes', and all of it is stored.
LEMMA PublishEnd ==
    ASSUME NEW t \in Threads, NEW ct, NEW ch, NEW pt, NEW ph, NEW at, NEW tl, NEW b, NEW C,
           TypeOK, GhostInv(ct, ch, pt, ph, at, tl, b, C), PushPublish(t)
    PROVE  \E x \in Nat :
             /\ x = pt + n[t] /\ pt < x /\ x <= ph /\ at[t] = pt /\ prod_tail' = Wrap(x)
             /\ copied[t] = n[t] /\ head[t] = Wrap(pt)
             /\ \A y \in Nat : pt <= y /\ y < x => buf_ptrs[Slot(y)] = b[y]
<1>1. /\ PushClaim(t) /\ copied[t] = n[t] /\ prod_tail = head[t] /\ prod_tail' = Plus(head[t], n[t])
  BY Zenon DEF PushPublish, PushClaim
<1>2. /\ ct \in Nat /\ ch \in Nat /\ pt \in Nat /\ ph \in Nat /\ at[t] \in Nat /\ n[t] \in Nat
      /\ ct <= ch /\ ch <= pt /\ pt <= ph /\ ph < ct + buf_num
      /\ n[t] > 0 /\ pt <= at[t] /\ at[t] + n[t] <= ph
  BY Zenon, <1>1 DEF GhostInv, EndsInv, ClaimOk, TypeOK, CallTypes
<1>3. head[t] = Wrap(at[t]) /\ prod_tail = Wrap(pt)
  BY Zenon, <1>1 DEF GhostInv, EndsInv, ClaimOk
<1>4. at[t] = pt
  <2>1. at[t] < pt + buf_num
    BY <1>2, RingAssumption
  <2> QED
    BY Zenon, <1>1, <1>2, <1>3, <2>1, WrapApart
<1>5. PICK x \in Nat : x = pt + n[t]
  BY <1>2
<1>6. pt < x /\ x <= ph /\ x - pt = n[t] /\ pt <= x /\ x < pt + buf_num
  BY <1>2, <1>4, <1>5, RingAssumption
<1>7. prod_tail' = Wrap(x)
  <2>1. Wrap(x) = Plus(Wrap(pt), x - pt)
    BY Zenon, <1>2, <1>5, <1>6, WrapPlus
  <2> QED
    BY Zenon, <1>1, <1>3, <1>6, <2>1
<1>8. \A y \in Nat : pt <= y /\ y < x => buf_ptrs[Slot(y)] = b[y]
  <2>1. \A y \in Nat : at[t] <= y /\ y < at[t] + copied[t] => buf_ptrs[Slot(y)] = b[y]
    BY Zenon, <1>1 DEF GhostInv, StoreOk
  <2> QED
    BY Zenon, <1>1, <1>4, <1>5, <2>1
<1> QED
  BY Zenon, <1>1, <1>3, <1>4, <1>5, <1>6, <1>7, <1>8

\* A push publishes its claim: the positions are there for gets.
LEMMA PushPublishStep ==
    ASSUME NEW t \in Threads, NEW ct, NEW ch, NEW pt, NEW ph, NEW at, NEW tl, NEW b, NEW C,
           TypeOK, GhostInv(ct, ch, pt, ph, at, tl, b, C), PushPublish(t)
    PROVE  IInv'
<1>1. /\ pc[t] = "pushStore" /\ pc'[t] = "idle" /\ head'[t] = 0 /\ tail'[t] = 0 /\ n'[t] = 0
      /\ copied'[t] = 0 /\ mine' = mine /\ lap' = lap /\ buf_ptrs' = buf_ptrs
      /\ prod_head' = prod_head /\ cons_head' = cons_head /\ cons_tail' = cons_tail /\ use' = use
  BY Zenon DEF PushPublish, Return, TypeOK, CallTypes
<1>2. Local(t)
  BY Zenon, StepLocal DEF Step
<1>3. PushClaim(t) /\ ~GetClaim(t) /\ ~GetClaim(t)' /\ ~PushClaim(t)'
  BY Zenon, <1>1 DEF GetClaim, PushClaim
<1>4. PICK x \in Nat :
        /\ x = pt + n[t] /\ pt < x /\ x <= ph /\ at[t] = pt /\ prod_tail' = Wrap(x)
        /\ copied[t] = n[t] /\ head[t] = Wrap(pt)
        /\ \A y \in Nat : pt <= y /\ y < x => buf_ptrs[Slot(y)] = b[y]
  BY PublishEnd
<1>5. /\ ct \in Nat /\ ch \in Nat /\ pt \in Nat /\ ph \in Nat
      /\ ct <= ch /\ ch <= pt /\ pt <= ph /\ ph < ct + buf_num
      /\ cons_tail = Wrap(ct) /\ cons_head = Wrap(ch) /\ prod_head = Wrap(ph)
  BY Zenon DEF GhostInv, EndsInv
<1>6. EndsInv(ct, ch, x, ph)' /\ StoredInv(ct, x, b)'
  <2>1. ch <= x
    BY <1>4, <1>5
  <2>2. EndsInv(ct, ch, x, ph)'
    BY Zenon, <1>1, <1>4, <1>5, <2>1 DEF EndsInv
  <2>3. \A y \in Nat : y < pt \/ pt <= y
    BY <1>5
  <2> QED
    BY Zenon, <1>1, <1>4, <2>2, <2>3 DEF GhostInv, StoredInv
<1>7. TypeOK' /\ Others(t)
  <2>1. prod_tail' \in Pos
    BY Zenon, <1>4, WrapType
  <2>2. RingTypes'
    BY Zenon, <1>1, <2>1 DEF TypeOK, RingTypes
  <2>3. Assigned(t)
    BY Zenon, <1>1, <2>2, Zero DEF TypeOK, CallTypes, Claiming, Assigned
  <2> QED
    BY Zenon, <1>2, <2>3, TypeStep
<1>8. ASSUME NEW u \in Threads
      PROVE  /\ GetOk(u, ch, x, at[u], tl[u])' /\ PushOk(u, ct, ph, at[u])'
             /\ ClaimOk(u, ct, ch, x, ph, at[u])' /\ StoreOk(u, at[u], b)'
  <2>0. /\ GetOk(u, ch, pt, at[u], tl[u]) /\ PushOk(u, ct, ph, at[u])
        /\ at[u] \in Nat /\ tl[u] \in Nat
        /\ ClaimOk(u, ct, ch, pt, ph, at[u]) /\ StoreOk(u, at[u], b)
    BY Zenon DEF GhostInv
  <2>1. CASE u = t
    BY Zenon, <1>1, <1>3, <2>1 DEF GetOk, PushOk, ClaimOk, StoreOk
  <2>2. CASE u # t
    <3>1. /\ pc'[u] = pc[u] /\ head'[u] = head[u] /\ tail'[u] = tail[u] /\ n'[u] = n[u]
          /\ copied'[u] = copied[u]
      BY Zenon, <1>7, <2>2 DEF Others
    <3>2. PushOk(u, ct, ph, at[u])' /\ StoreOk(u, at[u], b)'
      BY Zenon, <1>1, <2>0, <3>1 DEF PushOk, StoreOk, GetClaim, PushClaim
    <3>3. GetOk(u, ch, x, at[u], tl[u])'
      <4>1. tl[u] <= pt => tl[u] <= x
        BY <1>4, <1>5, <2>0
      <4> QED
        BY Zenon, <1>1, <2>0, <3>1, <4>1 DEF GetOk
    <3>4. PushClaim(u) => x <= at[u]
      <4>1. PushClaim(u) => n[u] \in Nat /\ n[u] > 0 /\ pt <= at[u]
        BY Zenon, <2>0 DEF ClaimOk, TypeOK, CallTypes
      <4>2. PushClaim(u) => pt + n[t] <= at[u] \/ at[u] + n[u] <= pt
        BY Zenon, <1>3, <1>4, <2>2 DEF GhostInv, ApartInv
      <4>3. n[u] \in Nat /\ n[u] > 0 /\ pt <= at[u] => ~(at[u] + n[u] <= pt)
        BY <1>5, <2>0
      <4> QED
        BY Zenon, <1>4, <4>1, <4>2, <4>3
    <3>5. ClaimOk(u, ct, ch, x, ph, at[u])'
      BY Zenon, <1>1, <2>0, <3>1, <3>4 DEF ClaimOk, GetClaim, PushClaim
    <3> QED
      BY Zenon, <3>2, <3>3, <3>5
  <2> QED
    BY Zenon, <2>1, <2>2
<1>9. ApartInv(at)'
  BY Zenon, <1>3, <1>7 DEF GhostInv, ApartInv, GetClaim, PushClaim, Others
<1>10. UniqInv(ct, ph, b)' /\ (RoomInv(ct, ph, b, C) => RoomInv(ct, ph, b, C)')
  <2>1. n[t] - n[t] + 1 = 1
    BY DEF TypeOK, CallTypes
  <2>2. Free(t) = 1 .. Len(mine[t]) /\ Free(t)' = 1 .. Len(mine[t])
    BY Zenon, <1>1, <1>3, <1>4, <2>1 DEF Free
  <2>3. 0 \in Int
        /\ \A i \in Free(t)' : i \in Int /\ i + 0 \in Free(t) /\ mine'[t][i] = mine[t][i + 0]
    BY <1>1, <2>2
  <2> QED
    BY Zenon, <1>7, <2>3, UniqFrame DEF GhostInv
<1>11. GhostInv(ct, ch, x, ph, at, tl, b, C)'
  BY Zenon, <1>1, <1>6, <1>8, <1>9, <1>10 DEF GhostInv
<1> QED
  BY Zenon, <1>7, <1>11 DEF IInv
=============================================================================
