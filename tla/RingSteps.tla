----------------------------- MODULE RingSteps ------------------------------
(***************************************************************************)
(* The ring of buffer pointers never lets two threads at one slot and is a  *)
(* queue, for any number of threads, buffers and slots.                     *)
(*                                                                          *)
(* The positions of the ring wrap; the invariant counts them from the start *)
(* instead, where the ends are ordered and a claim is an interval.  How     *)
(* often each end has wrapped is not in the state, so that the invariant    *)
(* says there are such counts, and each step shows the next ones.           *)
(*                                                                          *)
(* It is about gets without a divisor (Granule = 1) and threads that no     *)
(* other thread overtakes by a lap (~Laps): README.md, "The rings".         *)
(***************************************************************************)
EXTENDS BufferRing, TLAPS

\* The wrapped form of a position that counts from the start and never wraps.
Wrap(x) == IF x = 0 THEN 0 ELSE 1 + ((x - 1) % buf_num)

GetClaim(t) == pc[t] \in {"getCopy", "getStore"}
PushClaim(t) == pc[t] = "pushStore"

\* The four ends, counted from the start: at most buf_num - 1 positions between them.
EndsInv(ct, ch, pt, ph) ==
    /\ ct \in Nat /\ ch \in Nat /\ pt \in Nat /\ ph \in Nat
    /\ ct <= ch /\ ch <= pt /\ pt <= ph /\ ph < ct + buf_num
    /\ cons_tail = Wrap(ct) /\ cons_head = Wrap(ch)
    /\ prod_tail = Wrap(pt) /\ prod_head = Wrap(ph)

\* What a get knows between its loads and its compare-and-swap: lap tells how old its
\* copy of cons_head is, and a copy that is not old leaves room up to its copy of
\* prod_tail.
GetOk(t, ch, pt, a, l) ==
    /\ pc[t] \in {"getHead", "getTail", "getSwap"} => n[t] > 0
    /\ pc[t] \in {"getTail", "getSwap"} =>
          head[t] = Wrap(a) /\ a + lap[t] = ch /\ lap[t] < buf_num
    /\ pc[t] = "getSwap" => tail[t] = Wrap(l) /\ l <= pt /\ (lap[t] = 0 => a < l)

\* The same for a push: what a list push found free is still free if its copy of
\* prod_head is not old.
PushOk(t, ct, ph, a) ==
    /\ pc[t] = "pushSwap" => use = "multi"
    /\ pc[t] \in {"listHead", "listTail", "listSwap"} => use = "list"
    /\ pc[t] \in {"pushSwap", "listSwap"} => n[t] \in 1 .. Len(mine[t])
    /\ pc[t] \in {"listTail", "listSwap"} =>
          head[t] = Wrap(a) /\ a + lap[t] = ph /\ lap[t] < buf_num
    /\ pc[t] = "listSwap" => (lap[t] = 0 => a + n[t] < ct + buf_num)

\* A claim is not empty and lies between the head and the tail of its end.
ClaimOk(t, ct, ch, pt, ph, a) ==
    /\ GetClaim(t) => /\ head[t] = Wrap(a) /\ n[t] > 0
                      /\ copied[t] <= n[t] /\ copied[t] <= Len(mine[t])
                      /\ ct <= a /\ a + n[t] <= ch
    /\ pc[t] = "getStore" => copied[t] = n[t] /\ a = ct
    /\ PushClaim(t) => /\ head[t] = Wrap(a) /\ n[t] > 0
                       /\ copied[t] <= n[t] /\ n[t] - copied[t] <= Len(mine[t])
                       /\ pt <= a /\ a + n[t] <= ph
    /\ ~GetClaim(t) /\ ~PushClaim(t) => copied[t] = 0

\* No position is claimed twice.
ApartInv(at) ==
    \A t, u \in Threads :
       t # u /\ ((GetClaim(t) /\ GetClaim(u)) \/ (PushClaim(t) /\ PushClaim(u)))
       => at[t] + n[t] <= at[u] \/ at[u] + n[u] <= at[t]

\* b is the buffer of every position: stored there, or next in the hands of the thread
\* whose claim it is, or copied from there by the thread that claimed it.
StoredInv(ct, pt, b) ==
    \A x \in Nat : ct <= x /\ x < pt => buf_ptrs[Slot(x)] = b[x]
StoreOk(t, a, b) ==
    /\ PushClaim(t) =>
          /\ \A x \in Nat : a <= x /\ x < a + copied[t] => buf_ptrs[Slot(x)] = b[x]
          /\ \A i \in 1 .. n[t] - copied[t] : mine[t][i] = b[a + copied[t] + i - 1]
    /\ GetClaim(t) =>
          \A i \in 1 .. copied[t] : mine[t][Len(mine[t]) - copied[t] + i] = b[a + i - 1]

\* The buffers of a thread that are not the copy of a claimed position: which they are
\* by their index, and that no buffer is in two places.
Free(t) == CASE GetClaim(t)  -> 1 .. Len(mine[t]) - copied[t]
             [] PushClaim(t) -> n[t] - copied[t] + 1 .. Len(mine[t])
             [] OTHER        -> 1 .. Len(mine[t])

UniqInv(ct, ph, b) ==
    /\ \A x, y \in Nat : ct <= x /\ x < y /\ y < ph => b[x] # b[y]
    /\ \A t \in Threads : \A i \in Free(t) :
          \A x \in Nat : ct <= x /\ x < ph => mine[t][i] # b[x]
    /\ \A t, u \in Threads : \A i \in Free(t), j \in Free(u) :
          mine[t][i] = mine[u][j] => t = u /\ i = j

\* A pool's ring has room for all the buffers of the pool.
RoomInv(ct, ph, b, C) ==
    /\ IsFiniteSet(C) /\ Cardinality(C) < buf_num
    /\ \A x \in Nat : ct <= x /\ x < ph => b[x] \in C
    /\ \A t \in Threads : \A i \in Free(t) : mine[t][i] \in C

GhostInv(ct, ch, pt, ph, at, tl, b, C) ==
    /\ at \in [Threads -> Nat] /\ tl \in [Threads -> Nat] /\ b \in [Nat -> Bufs]
    /\ EndsInv(ct, ch, pt, ph)
    /\ \A t \in Threads : GetOk(t, ch, pt, at[t], tl[t])
    /\ \A t \in Threads : PushOk(t, ct, ph, at[t])
    /\ \A t \in Threads : ClaimOk(t, ct, ch, pt, ph, at[t])
    /\ ApartInv(at)
    /\ StoredInv(ct, pt, b)
    /\ \A t \in Threads : StoreOk(t, at[t], b)
    /\ UniqInv(ct, ph, b)
    /\ use = "multi" => RoomInv(ct, ph, b, C)

IInv == TypeOK /\ \E ct, ch, pt, ph, at, tl, b, C : GhostInv(ct, ch, pt, ph, at, tl, b, C)

-----------------------------------------------------------------------------
(* Positions. *)

\* x % buf_num is the rest of x by a multiple of buf_num.
LEMMA ModRest ==
    ASSUME NEW N \in Nat \ {0}, NEW x \in Int
    PROVE  /\ x % N \in 0 .. N - 1
           /\ \E q \in Int : x = N * q + (x % N)
<1>1. x % N \in 0 .. N - 1
  BY Z3
<1>2. x \div N \in Int /\ x = N * (x \div N) + (x % N)
  OBVIOUS
<1> QED
  BY Zenon, <1>1, <1>2

\* Multiples of buf_num keep their distance.
LEMMA Multiple ==
    ASSUME NEW N \in Nat \ {0}, NEW k \in Int, NEW m \in Int, k <= m
    PROVE  N * k <= N * m
<1>1. m - k \in Nat
  OBVIOUS
<1>2. N * (m - k) \in Nat
  BY <1>1
<1>3. N * m = N * k + N * (m - k)
  OBVIOUS
<1>4. N * m \in Int /\ N * k \in Int
  OBVIOUS
<1> QED
  BY <1>2, <1>3, <1>4

\* A rest decides between neighbours: it is the number itself, or one lap less.
LEMMA ModUnique ==
    ASSUME NEW N \in Nat \ {0}, NEW x \in Int, NEW y \in Int,
           x <= y, y < x + N
    PROVE  /\ x % N = y % N => x = y
           /\ y % N = (x % N) + (y - x) \/ y % N = (x % N) + (y - x) - N
<1>1. PICK a \in 0 .. N - 1 : a = x % N /\ \E q \in Int : x = N * q + a
  BY Zenon, ModRest
<1>2. PICK c \in 0 .. N - 1 : c = y % N /\ \E r \in Int : y = N * r + c
  BY Zenon, ModRest
<1>3. PICK q \in Int, r \in Int : x = N * q + a /\ y = N * r + c
  BY Zenon, <1>1, <1>2
<1>4. r = q \/ r = q + 1
  <2>1. N * (r - q) = N * r - N * q
    OBVIOUS
  <2>2. N * (r - q) < 2 * N /\ N * (r - q) > 0 - N
    BY <1>3, <2>1
  <2>3. N * 2 <= N * (r - q) \/ ~(2 <= r - q)
    BY Multiple
  <2>4. N * (r - q) <= N * (0 - 1) \/ ~(r - q <= 0 - 1)
    BY Multiple
  <2> QED
    BY <2>2, <2>3, <2>4
<1>5. y - x = c - a \/ y - x = N + c - a
  BY <1>3, <1>4
<1> QED
  BY <1>1, <1>2, <1>5

\* Whole laps do not change the rest.
LEMMA ModLaps ==
    ASSUME NEW N \in Nat \ {0}, NEW x \in Int, NEW k \in Int
    PROVE  (x + N * k) % N = x % N
<1>0. N * k \in Int
  OBVIOUS
<1>1. PICK a \in 0 .. N - 1 : a = x % N /\ \E q \in Int : x = N * q + a
  BY Zenon, ModRest
<1>2. PICK y \in Int : y = x + N * k
  BY <1>0
<1>3. PICK c \in 0 .. N - 1 : c = y % N /\ \E r \in Int : y = N * r + c
  BY Zenon, ModRest
<1>4. PICK q \in Int, r \in Int : x = N * q + a /\ y = N * r + c
  BY Zenon, <1>1, <1>3
<1>5. PICK m \in Int : m = (q + k) - r
  OBVIOUS
<1>6. N * m = c - a
  <2>1. N * m = N * q + N * k - N * r
    BY <1>5
  <2> QED
    BY <1>0, <1>2, <1>4, <2>1
<1>7. N * 1 <= N * m \/ ~(1 <= m)
  BY Multiple
<1>8. N * m <= N * (0 - 1) \/ ~(m <= 0 - 1)
  BY Multiple
<1>9. m = 0
  BY <1>6, <1>7, <1>8
<1>10. a = c
  BY <1>6, <1>9
<1> QED
  BY Zenon, <1>1, <1>2, <1>3, <1>10

\* A wrapped position is one of the ring's, and 0 only at the start.
LEMMA WrapType ==
    ASSUME NEW x \in Nat
    PROVE  Wrap(x) \in Pos /\ (Wrap(x) = 0 <=> x = 0) /\ Slot(x) \in 0 .. buf_num - 1
<1>1. \A y \in Int : y % buf_num \in 0 .. buf_num - 1
  BY ModRest, RingAssumption
<1> QED
  BY <1>1, RingAssumption DEF Wrap, Pos, Slot

\* Plus is the addition of positions, for less than a lap.
LEMMA WrapPlus ==
    ASSUME NEW x \in Nat, NEW y \in Nat, x <= y, y < x + buf_num
    PROVE  Wrap(y) = Plus(Wrap(x), y - x)
<1>1. CASE x = 0
  <2>1. CASE y = 0
    BY <1>1, <2>1, RingAssumption DEF Wrap, Plus
  <2>2. CASE y > 0
    <3>1. (y - 1) % buf_num = y - 1
      BY <1>1, <2>2, RingAssumption
    <3> QED
      BY <1>1, <2>2, <3>1, RingAssumption DEF Wrap, Plus
  <2> QED
    BY <2>1, <2>2
<1>2. CASE x > 0
  <2>0. x - 1 \in Int /\ y - 1 \in Int
    BY <1>2
  <2>1. PICK a \in 0 .. buf_num - 1 : a = (x - 1) % buf_num
    BY Zenon, <2>0, ModRest, RingAssumption
  <2>2. PICK c \in 0 .. buf_num - 1 : c = (y - 1) % buf_num
    BY Zenon, <2>0, ModRest, RingAssumption
  <2>3. c = a + (y - x) \/ c = a + (y - x) - buf_num
    <3>1. x - 1 \in Int /\ y - 1 \in Int /\ x - 1 <= y - 1 /\ y - 1 < (x - 1) + buf_num
          /\ (y - 1) - (x - 1) = y - x /\ buf_num \in Nat \ {0}
      BY <1>2, RingAssumption
    <3>2. \/ (y - 1) % buf_num = ((x - 1) % buf_num) + ((y - 1) - (x - 1))
          \/ (y - 1) % buf_num = ((x - 1) % buf_num) + ((y - 1) - (x - 1)) - buf_num
      BY Zenon, <3>1, ModUnique
    <3> QED
      BY Zenon, <2>1, <2>2, <3>1, <3>2
  <2>4. Wrap(x) = 1 + a /\ Wrap(y) = 1 + c
    BY <1>2, <2>1, <2>2 DEF Wrap
  <2> QED
    BY <2>3, <2>4, RingAssumption DEF Plus
<1> QED
  BY <1>1, <1>2

\* Within a lap, wrapped positions tell positions apart, and so do slots.
LEMMA WrapApart ==
    ASSUME NEW x \in Nat, NEW y \in Nat, x <= y, y < x + buf_num
    PROVE  /\ Wrap(x) = Wrap(y) => x = y
           /\ Slot(x) = Slot(y) => x = y
           /\ Dist(Wrap(x), Wrap(y)) = y - x
<1>1. Wrap(x) \in Pos /\ Wrap(y) = Plus(Wrap(x), y - x)
  BY Zenon, WrapType, WrapPlus
<1>2. Slot(x) = Slot(y) => x = y
  <2>1. x \in Int /\ y \in Int
    OBVIOUS
  <2> QED
    BY Zenon, <2>1, ModUnique, RingAssumption DEF Slot
<1> QED
  BY <1>1, <1>2, RingAssumption DEF Plus, Dist, Pos

\* The slots of a claim, from its wrapped beginning.
LEMMA WrapSlot ==
    ASSUME NEW x \in Nat, NEW c \in Nat
    PROVE  Slot(Wrap(x) + c) = Slot(x + c)
<1>1. CASE x = 0
  BY <1>1 DEF Wrap
<1>2. CASE x > 0
  <2>0. x - 1 \in Int
    BY <1>2
  <2>1. PICK a \in 0 .. buf_num - 1 :
             a = (x - 1) % buf_num /\ \E q \in Int : x - 1 = buf_num * q + a
    BY Zenon, <2>0, ModRest, RingAssumption
  <2>2. PICK q \in Int : x - 1 = buf_num * q + a
    BY <2>1
  <2>3. Wrap(x) = 1 + a
    BY <1>2, <2>1 DEF Wrap
  <2>4. x + c = (1 + a + c) + buf_num * q
    BY <2>2, RingAssumption
  <2>5. ((1 + a + c) + buf_num * q) % buf_num = (1 + a + c) % buf_num
    <3>1. 1 + a + c \in Int
      OBVIOUS
    <3> QED
      BY Zenon, <3>1, ModLaps, RingAssumption
  <2> QED
    BY Zenon, <2>3, <2>4, <2>5 DEF Slot
<1> QED
  BY <1>1, <1>2

-----------------------------------------------------------------------------
(* Frames: what a step of t leaves alone. *)

\* No other thread moves.
Others(t) == \A u \in Threads \ {t} :
    /\ pc'[u] = pc[u] /\ head'[u] = head[u] /\ tail'[u] = tail[u]
    /\ n'[u] = n[u] /\ copied'[u] = copied[u] /\ mine'[u] = mine[u]

Local(t) ==
    /\ pc' = [pc EXCEPT ![t] = pc'[t]] /\ head' = [head EXCEPT ![t] = head'[t]]
    /\ tail' = [tail EXCEPT ![t] = tail'[t]] /\ n' = [n EXCEPT ![t] = n'[t]]
    /\ copied' = [copied EXCEPT ![t] = copied'[t]] /\ mine' = [mine EXCEPT ![t] = mine'[t]]

\* A step of t assigns nothing of another thread.
LEMMA StepLocal ==
    ASSUME NEW t \in Threads, TypeOK, Call(t) \/ Step(t)
    PROVE  Local(t) /\ Others(t)
<1>0. CallTypes /\ mine \in [Threads -> Seq(Bufs)]
  BY Zenon DEF TypeOK
<1> SUFFICES Local(t)
  BY Zenon, <1>0 DEF Local, CallTypes, Others
<1>1. CASE GetLoadHead(t)
  BY <1>0, <1>1 DEF GetLoadHead, CallTypes, Local
<1>2. CASE GetReload(t)
  BY <1>0, <1>2 DEF GetReload, CallTypes, Local
<1>3. CASE GetLoadTail(t)
  BY <1>0, <1>3 DEF GetLoadTail, CallTypes, Local
<1>4. CASE GetSwap(t)
  BY <1>0, <1>4 DEF GetSwap, CallTypes, Local
<1>5. CASE GetCopy(t)
  BY <1>0, <1>5 DEF GetCopy, CallTypes, Local
<1>6. CASE GetTurn(t)
  BY <1>0, <1>6 DEF GetTurn, CallTypes, Local
<1>7. CASE GetPublish(t)
  BY <1>0, <1>7 DEF GetPublish, Return, CallTypes, Local
<1>8. CASE PushLoadHead(t)
  BY <1>0, <1>8 DEF PushLoadHead, CallTypes, Local
<1>9. CASE PushSwap(t)
  BY <1>0, <1>9 DEF PushSwap, CallTypes, Local
<1>10. CASE PushStore(t)
  BY <1>0, <1>10 DEF PushStore, CallTypes, Local
<1>11. CASE PushPublish(t)
  BY <1>0, <1>11 DEF PushPublish, Return, CallTypes, Local
<1>12. CASE ListLoadHead(t)
  BY <1>0, <1>12 DEF ListLoadHead, CallTypes, Local
<1>13. CASE ListLoadTail(t)
  BY <1>0, <1>13 DEF ListLoadTail, CallTypes, Local
<1>14. CASE ListSwap(t)
  BY <1>0, <1>14 DEF ListSwap, CallTypes, Local
<1> QED
  BY Zenon, <1>1, <1>2, <1>3, <1>4, <1>5, <1>6, <1>7,
     <1>8, <1>9, <1>10, <1>11, <1>12, <1>13, <1>14 DEF Call, Step

\* An empty claim has no positions.
LEMMA NoIndex == 1 .. 0 = {}
  OBVIOUS

\* Positions are numbers.
LEMMA PosNat == \A x \in 0 .. buf_num : x \in Nat
  BY RingAssumption

\* 0 is where every end and every copy begins.
LEMMA Zero == 0 \in Pos /\ 0 \in 0 .. buf_num /\ 0 \in Nat
  BY RingAssumption DEF Pos

\* The types after a step follow from those of what it assigns.
Assigned(t) ==
    /\ RingTypes' /\ lap' \in [Threads -> 0 .. buf_num]
    /\ pc'[t] \in {"idle", "getHead", "getTail", "getSwap", "getCopy", "getStore",
                   "pushSwap", "pushStore", "listHead", "listTail", "listSwap"}
    /\ head'[t] \in Pos /\ tail'[t] \in Pos /\ n'[t] \in Nat
    /\ copied'[t] \in 0 .. buf_num /\ mine'[t] \in Seq(Bufs)
    /\ pc'[t] \in Claiming => n'[t] <= buf_num

\* A step that assigns values of the right types to what t has keeps the types.
LEMMA TypeStep ==
    ASSUME NEW t \in Threads, TypeOK, Local(t), Assigned(t)
    PROVE  TypeOK' /\ Others(t)
<1>1. Others(t)
  BY Zenon DEF Local, TypeOK, CallTypes, Others
<1>2. CallTypes' /\ mine' \in [Threads -> Seq(Bufs)]
  BY Zenon DEF Local, TypeOK, CallTypes, Assigned
<1>3. \A u \in Threads : pc'[u] \in Claiming => n'[u] <= buf_num
  BY Zenon, <1>1 DEF TypeOK, Others, Assigned
<1> QED
  BY Zenon, <1>1, <1>2, <1>3 DEF TypeOK, Assigned

\* No buffer changes place when the free buffers of t after the step are free ones of
\* before, up to a shift of their indexes.
LEMMA UniqFrame ==
    ASSUME NEW t \in Threads, NEW ct, NEW ph, NEW b, NEW C, NEW d \in Int,
           UniqInv(ct, ph, b), Others(t),
           \A i \in Free(t)' : i \in Int /\ i + d \in Free(t) /\ mine'[t][i] = mine[t][i + d]
    PROVE  UniqInv(ct, ph, b)' /\ (RoomInv(ct, ph, b, C) => RoomInv(ct, ph, b, C)')
<1>1. \A u \in Threads : u # t => Free(u)' = Free(u) /\ mine'[u] = mine[u]
  BY DEF Others, Free, GetClaim, PushClaim
<1>2. \A u \in Threads : \A i \in Free(u)' : \E j \in Free(u) : mine'[u][i] = mine[u][j]
  BY Zenon, <1>1
<1>u. \A u, v \in Threads : \A i \in Free(u), j \in Free(v) :
         mine[u][i] = mine[v][j] => u = v /\ i = j
  BY Zenon DEF UniqInv
<1>3. ASSUME NEW u \in Threads, NEW v \in Threads, NEW i \in Free(u)', NEW j \in Free(v)',
             mine'[u][i] = mine'[v][j]
      PROVE  u = v /\ i = j
  <2>1. CASE u # t /\ v # t
    BY <1>u, <1>1, <1>3, <2>1
  <2>2. CASE u = t /\ v # t
    BY <1>u, <1>1, <1>3, <2>2
  <2>3. CASE u # t /\ v = t
    BY <1>u, <1>1, <1>3, <2>3
  <2>4. CASE u = t /\ v = t
    <3>1. i + d = j + d /\ i \in Int /\ j \in Int
      BY <1>u, <1>3, <2>4
    <3> QED
      BY <2>4, <3>1
  <2> QED
    BY Zenon, <2>1, <2>2, <2>3, <2>4
<1>4. \A u \in Threads : \A i \in Free(u)' :
         \A x \in Nat : ct <= x /\ x < ph => mine'[u][i] # b[x]
  BY <1>2 DEF UniqInv
<1>5. UniqInv(ct, ph, b)'
  <2>1. \A x, y \in Nat : ct <= x /\ x < y /\ y < ph => b[x] # b[y]
    BY Zenon DEF UniqInv
  <2>2. \A u, v \in Threads : \A i \in Free(u)', j \in Free(v)' :
           mine'[u][i] = mine'[v][j] => u = v /\ i = j
    BY Zenon, <1>3
  <2> QED
    BY Zenon, <1>4, <2>1, <2>2 DEF UniqInv
<1>6. RoomInv(ct, ph, b, C) => RoomInv(ct, ph, b, C)'
  BY Zenon, <1>2 DEF RoomInv
<1> QED
  BY Zenon, <1>5, <1>6

\* What the invariant says of a thread that has not moved, in a ring whose pointers
\* have not changed.
Still(u) ==
    /\ pc'[u] = pc[u] /\ head'[u] = head[u] /\ tail'[u] = tail[u] /\ n'[u] = n[u]
    /\ copied'[u] = copied[u] /\ mine'[u] = mine[u] /\ lap'[u] = lap[u]
    /\ use' = use /\ buf_ptrs' = buf_ptrs

\* What is known of a thread stays true while it and the buffers stay where they are.
LEMMA StillOk ==
    ASSUME NEW u \in Threads, NEW ct, NEW ch, NEW pt, NEW ph, NEW a, NEW l, NEW b, Still(u),
           GetOk(u, ch, pt, a, l), PushOk(u, ct, ph, a), ClaimOk(u, ct, ch, pt, ph, a),
           StoreOk(u, a, b)
    PROVE  /\ GetOk(u, ch, pt, a, l)' /\ PushOk(u, ct, ph, a)'
           /\ ClaimOk(u, ct, ch, pt, ph, a)' /\ StoreOk(u, a, b)'
<1>1. GetOk(u, ch, pt, a, l)' /\ PushOk(u, ct, ph, a)'
  BY Zenon DEF GetOk, PushOk, Still
<1>2. ClaimOk(u, ct, ch, pt, ph, a)'
  BY Zenon DEF ClaimOk, GetClaim, PushClaim, Still
<1>3. StoreOk(u, a, b)'
  BY Zenon DEF StoreOk, GetClaim, PushClaim, Still
<1> QED
  BY Zenon, <1>1, <1>2, <1>3

\* A step outside the claims, with new copies of a head and a tail.
LEMMA LoadFrame ==
    ASSUME NEW t \in Threads, NEW ct, NEW ch, NEW pt, NEW ph, NEW at, NEW tl, NEW b, NEW C,
           GhostInv(ct, ch, pt, ph, at, tl, b, C), NEW a \in Nat, NEW l \in Nat,
           Others(t), UNCHANGED <<ringVars, copied, mine>>,
           \A u \in Threads \ {t} : lap'[u] = lap[u],
           pc[t] \notin Claiming, pc'[t] \notin Claiming,
           GetOk(t, ch, pt, a, l)', PushOk(t, ct, ph, a)'
    PROVE  \E at2, tl2 : GhostInv(ct, ch, pt, ph, at2, tl2, b, C)'
<1>1. PICK at2, tl2 : at2 = [at EXCEPT ![t] = a] /\ tl2 = [tl EXCEPT ![t] = l]
  BY Zenon
<1>2. /\ at2 \in [Threads -> Nat] /\ tl2 \in [Threads -> Nat] /\ at2[t] = a /\ tl2[t] = l
      /\ \A u \in Threads \ {t} : at2[u] = at[u] /\ tl2[u] = tl[u]
  BY Zenon, <1>1 DEF GhostInv
<1>3. /\ buf_ptrs' = buf_ptrs /\ prod_head' = prod_head /\ prod_tail' = prod_tail
      /\ cons_head' = cons_head /\ cons_tail' = cons_tail /\ use' = use
      /\ copied' = copied /\ mine' = mine
  BY Zenon DEF ringVars
<1>4. ~GetClaim(t) /\ ~PushClaim(t) /\ ~GetClaim(t)' /\ ~PushClaim(t)'
  BY Zenon DEF GetClaim, PushClaim, Claiming
<1>5. EndsInv(ct, ch, pt, ph)' /\ StoredInv(ct, pt, b)'
  BY Zenon, <1>3 DEF GhostInv, EndsInv, StoredInv
<1>6. ASSUME NEW u \in Threads
      PROVE  /\ GetOk(u, ch, pt, at2[u], tl2[u])' /\ PushOk(u, ct, ph, at2[u])'
             /\ ClaimOk(u, ct, ch, pt, ph, at2[u])' /\ StoreOk(u, at2[u], b)'
  <2>1. CASE u = t
    <3>1. copied[t] = 0
      BY Zenon, <1>4 DEF GhostInv, ClaimOk
    <3>2. ClaimOk(t, ct, ch, pt, ph, a)' /\ StoreOk(t, a, b)'
      BY Zenon, <1>3, <1>4, <3>1 DEF ClaimOk, StoreOk, GetClaim
    <3> QED
      BY Zenon, <1>2, <2>1, <3>2
  <2>2. CASE u # t
    <3>1. /\ GetOk(u, ch, pt, at[u], tl[u]) /\ PushOk(u, ct, ph, at[u])
          /\ ClaimOk(u, ct, ch, pt, ph, at[u]) /\ StoreOk(u, at[u], b)
      BY Zenon DEF GhostInv
    <3>2. Still(u) /\ at2[u] = at[u] /\ tl2[u] = tl[u]
      BY Zenon, <1>2, <1>3, <2>2 DEF Others, Still
    <3> QED
      BY Zenon, <3>1, <3>2, StillOk
  <2> QED
    BY Zenon, <2>1, <2>2
<1>7. ApartInv(at2)'
  BY Zenon, <1>2, <1>4 DEF GhostInv, ApartInv, Others, GetClaim, PushClaim
<1>8. UniqInv(ct, ph, b)' /\ (RoomInv(ct, ph, b, C) => RoomInv(ct, ph, b, C)')
  <2>1. Free(t) = 1 .. Len(mine[t]) /\ Free(t)' = 1 .. Len(mine[t])
    BY Zenon, <1>3, <1>4 DEF Free
  <2>2. 0 \in Int
        /\ \A i \in Free(t)' : i \in Int /\ i + 0 \in Free(t) /\ mine'[t][i] = mine[t][i + 0]
    BY <1>3, <2>1
  <2> QED
    BY Zenon, <2>2, UniqFrame DEF GhostInv
<1> QED
  BY Zenon, <1>2, <1>3, <1>5, <1>6, <1>7, <1>8 DEF GhostInv

-----------------------------------------------------------------------------
(* The loads, and the compare-and-swaps that fail. *)

\* A get loads cons_head: its copy is not old.
LEMMA GetHeadStep ==
    ASSUME NEW t \in Threads, NEW ct, NEW ch, NEW pt, NEW ph, NEW at, NEW tl, NEW b, NEW C,
           TypeOK, GhostInv(ct, ch, pt, ph, at, tl, b, C), GetLoadHead(t) \/ GetReload(t)
    PROVE  IInv'
<1>1. /\ pc[t] \in {"idle", "getHead"} /\ pc'[t] = "getTail" /\ head'[t] = cons_head
      /\ UNCHANGED <<ringVars, copied, mine>> /\ tail' = tail
      /\ lap' = [lap EXCEPT ![t] = 0] /\ lap'[t] = 0
  BY Zenon DEF GetLoadHead, GetReload, TypeOK, CallTypes
<1>2. Local(t)
  BY Zenon, StepLocal DEF Call, Step
<1>3. n'[t] \in Nat /\ n'[t] > 0
  <2>1. CASE GetLoadHead(t)
    BY <2>1, RingAssumption DEF GetLoadHead, TypeOK, CallTypes
  <2>2. CASE GetReload(t)
    BY Zenon, <2>2 DEF GetReload, TypeOK, CallTypes, GhostInv, GetOk
  <2> QED
    BY Zenon, <2>1, <2>2
<1>4. TypeOK' /\ Others(t)
  <2>1. RingTypes' /\ mine' = mine /\ copied' = copied
    BY Zenon, <1>1 DEF TypeOK, RingTypes, ringVars
  <2>3. lap' \in [Threads -> 0 .. buf_num]
    BY Zenon, <1>1, Zero DEF TypeOK, CallTypes
  <2>h. cons_head \in Pos
    BY Zenon DEF TypeOK, RingTypes
  <2>4. Assigned(t)
    BY Zenon, <1>1, <1>3, <2>1, <2>3, <2>h DEF TypeOK, CallTypes, Claiming, Assigned
  <2> QED
    BY Zenon, <1>2, <2>4, TypeStep
<1>5. ch \in Nat /\ cons_head = Wrap(ch)
  BY Zenon DEF GhostInv, EndsInv
<1>6. GetOk(t, ch, pt, ch, 0)' /\ PushOk(t, ct, ph, ch)'
  BY <1>1, <1>3, <1>5, RingAssumption DEF GetOk, PushOk
<1>7. /\ pc[t] \notin Claiming /\ pc'[t] \notin Claiming
      /\ \A u \in Threads \ {t} : lap'[u] = lap[u]
  BY Zenon, <1>1 DEF Claiming, TypeOK, CallTypes
<1> QED
  BY <1>1, <1>4, <1>5, <1>6, <1>7, LoadFrame DEF IInv

\* A get loads prod_tail, and returns if there is nothing up to it.
LEMMA GetTailStep ==
    ASSUME NEW t \in Threads, NEW ct, NEW ch, NEW pt, NEW ph, NEW at, NEW tl, NEW b, NEW C,
           TypeOK, GhostInv(ct, ch, pt, ph, at, tl, b, C), GetLoadTail(t)
    PROVE  IInv'
<1>1. /\ pc[t] = "getTail" /\ UNCHANGED <<ringVars, copied, mine>>
      /\ lap' = [lap EXCEPT ![t] = lap'[t]]
  BY DEF GetLoadTail, TypeOK, CallTypes
<1>2. \/ /\ pc'[t] = "idle" /\ head'[t] = 0 /\ tail'[t] = 0 /\ n'[t] = 0 /\ lap'[t] = 0
      \/ /\ pc'[t] = "getSwap" /\ head'[t] = head[t] /\ tail'[t] = prod_tail
         /\ n'[t] = n[t] /\ lap'[t] = lap[t] /\ head[t] # prod_tail
  BY DEF GetLoadTail, TypeOK, CallTypes
<1>3. Local(t)
  BY Zenon, StepLocal DEF Step
<1>4. TypeOK' /\ Others(t)
  <2>1. RingTypes' /\ mine' = mine /\ copied' = copied
    BY Zenon, <1>1 DEF TypeOK, RingTypes, ringVars
  <2>2. /\ pc'[t] \in {"idle", "getSwap"} /\ head'[t] \in Pos /\ tail'[t] \in Pos
        /\ n'[t] \in Nat /\ lap'[t] \in 0 .. buf_num
    BY Zenon, <1>2, Zero DEF TypeOK, CallTypes, RingTypes
  <2>3. lap' \in [Threads -> 0 .. buf_num]
    BY Zenon, <1>1, <2>2 DEF TypeOK, CallTypes
  <2>4. Assigned(t)
    BY Zenon, <2>1, <2>2, <2>3 DEF TypeOK, CallTypes, Claiming, Assigned
  <2> QED
    BY Zenon, <1>3, <2>4, TypeStep
<1>5. /\ at[t] \in Nat /\ ch \in Nat /\ pt \in Nat /\ ch <= pt /\ prod_tail = Wrap(pt)
      /\ head[t] = Wrap(at[t]) /\ at[t] + lap[t] = ch /\ lap[t] < buf_num /\ n[t] > 0
      /\ lap[t] \in Nat
  <2>1. EndsInv(ct, ch, pt, ph) /\ GetOk(t, ch, pt, at[t], tl[t]) /\ at[t] \in Nat
    BY Zenon DEF GhostInv
  <2>2. lap[t] \in Nat
    BY RingAssumption DEF TypeOK, CallTypes
  <2> QED
    BY Zenon, <1>1, <2>1, <2>2 DEF EndsInv, GetOk
<1>6. GetOk(t, ch, pt, at[t], pt)' /\ PushOk(t, ct, ph, at[t])'
  BY <1>2, <1>5 DEF GetOk, PushOk
<1>7. /\ pc[t] \notin Claiming /\ pc'[t] \notin Claiming
      /\ \A u \in Threads \ {t} : lap'[u] = lap[u]
  BY Zenon, <1>1, <1>2 DEF Claiming, TypeOK, CallTypes
<1> QED
  BY <1>1, <1>4, <1>5, <1>6, <1>7, LoadFrame DEF IInv

\* A push loads prod_head.
LEMMA PushHeadStep ==
    ASSUME NEW t \in Threads, NEW ct, NEW ch, NEW pt, NEW ph, NEW at, NEW tl, NEW b, NEW C,
           TypeOK, GhostInv(ct, ch, pt, ph, at, tl, b, C), PushLoadHead(t) \/ ListLoadHead(t)
    PROVE  IInv'
<1>1. /\ pc[t] \in {"idle", "listHead"} /\ head'[t] = prod_head /\ tail' = tail
      /\ UNCHANGED <<ringVars, copied, mine>> /\ lap' = [lap EXCEPT ![t] = lap'[t]]
  BY DEF PushLoadHead, ListLoadHead, TypeOK, CallTypes
<1>2. \/ pc'[t] = "pushSwap" /\ use = "multi" /\ lap'[t] = lap[t] /\ n'[t] \in 1 .. Len(mine[t])
      \/ pc'[t] = "listTail" /\ use = "list" /\ lap'[t] = 0 /\ n'[t] = n[t]
  BY DEF PushLoadHead, ListLoadHead, TypeOK, CallTypes
<1>3. Local(t)
  BY Zenon, StepLocal DEF Call, Step, ListLoadHead
<1>4. RingTypes' /\ mine' = mine /\ copied' = copied /\ use' = use /\ Len(mine[t]) \in Nat
  <2>1. mine[t] \in Seq(Bufs)
    BY Zenon DEF TypeOK
  <2>2. Len(mine[t]) \in Nat
    BY <2>1
  <2> QED
    BY Zenon, <1>1, <2>2 DEF TypeOK, RingTypes, ringVars
<1>5. TypeOK' /\ Others(t)
  <2>1. n'[t] \in Nat
    BY <1>2, <1>4 DEF TypeOK, CallTypes
  <2>2. lap'[t] \in 0 .. buf_num /\ pc'[t] \in {"pushSwap", "listTail"}
    BY Zenon, <1>2, Zero DEF TypeOK, CallTypes
  <2>3. lap' \in [Threads -> 0 .. buf_num]
    BY Zenon, <1>1, <2>2 DEF TypeOK, CallTypes
  <2>h. prod_head \in Pos
    BY Zenon DEF TypeOK, RingTypes
  <2>4. Assigned(t)
    BY Zenon, <1>1, <1>4, <2>1, <2>2, <2>3, <2>h DEF TypeOK, CallTypes, Claiming, Assigned
  <2> QED
    BY Zenon, <1>3, <2>4, TypeStep
<1>6. ph \in Nat /\ prod_head = Wrap(ph)
  BY Zenon DEF GhostInv, EndsInv
<1>7. GetOk(t, ch, pt, ph, 0)' /\ PushOk(t, ct, ph, ph)'
  BY <1>1, <1>2, <1>4, <1>6, RingAssumption DEF GetOk, PushOk
<1>8. /\ pc[t] \notin Claiming /\ pc'[t] \notin Claiming
      /\ \A u \in Threads \ {t} : lap'[u] = lap[u]
  BY Zenon, <1>1, <1>2 DEF Claiming, TypeOK, CallTypes
<1> QED
  BY <1>1, <1>5, <1>6, <1>7, <1>8, Zero, LoadFrame DEF IInv

\* A compare-and-swap that fails changes nothing but where the thread goes on.
LEMMA FailedSwapStep ==
    ASSUME NEW t \in Threads, NEW ct, NEW ch, NEW pt, NEW ph, NEW at, NEW tl, NEW b, NEW C,
           TypeOK, GhostInv(ct, ch, pt, ph, at, tl, b, C),
           \/ GetSwap(t) /\ cons_head # head[t]
           \/ PushSwap(t) /\ prod_head # head[t]
           \/ ListSwap(t) /\ prod_head # head[t]
    PROVE  IInv'
<1>1. /\ UNCHANGED <<ringVars, copied, mine>> /\ tail' = tail /\ lap' = lap
      /\ head'[t] \in {head[t], prod_head}
  BY DEF GetSwap, PushSwap, ListSwap, TypeOK, CallTypes, ringVars
<1>2. \/ pc[t] = "getSwap" /\ pc'[t] = "getHead" /\ n'[t] = n[t]
      \/ pc[t] = "pushSwap" /\ pc'[t] = "pushSwap" /\ n'[t] = n[t]
      \/ pc[t] = "listSwap" /\ pc'[t] = "listHead" /\ n'[t] = 0
  BY DEF GetSwap, PushSwap, ListSwap, TypeOK, CallTypes
<1>3. Local(t)
  BY Zenon, StepLocal DEF Step
<1>4. RingTypes' /\ mine' = mine /\ copied' = copied /\ use' = use
  BY Zenon, <1>1 DEF TypeOK, RingTypes, ringVars
<1>5. TypeOK' /\ Others(t)
  <2>1. n'[t] \in Nat /\ pc'[t] \in {"getHead", "pushSwap", "listHead"}
    BY Zenon, <1>2, Zero DEF TypeOK, CallTypes
  <2>2. head'[t] \in Pos
    BY Zenon, <1>1 DEF TypeOK, CallTypes, RingTypes
  <2>3. Assigned(t)
    BY Zenon, <1>1, <1>4, <2>1, <2>2 DEF TypeOK, CallTypes, Claiming, Assigned
  <2> QED
    BY Zenon, <1>3, <2>3, TypeStep
<1>6. GetOk(t, ch, pt, at[t], tl[t]) /\ PushOk(t, ct, ph, at[t]) /\ at[t] \in Nat /\ tl[t] \in Nat
  BY Zenon DEF GhostInv
<1>7. GetOk(t, ch, pt, at[t], tl[t])' /\ PushOk(t, ct, ph, at[t])'
  BY <1>2, <1>4, <1>6 DEF GetOk, PushOk
<1>8. /\ pc[t] \notin Claiming /\ pc'[t] \notin Claiming
      /\ \A u \in Threads \ {t} : lap'[u] = lap[u]
  BY Zenon, <1>1, <1>2 DEF Claiming
<1> QED
  BY <1>1, <1>5, <1>6, <1>7, <1>8, LoadFrame DEF IInv

\* What push_list finds room for leaves a slot free before the end of the gets, unless
\* its copy of prod_head is old.
LEMMA RoomFits ==
    ASSUME NEW h \in Nat, NEW c \in Nat, NEW k \in Nat, h < c + buf_num
    PROVE  /\ Room(Wrap(h), Wrap(c), k) \in 0 .. k
           /\ c <= h => h + Room(Wrap(h), Wrap(c), k) < c + buf_num
<1>1. PICK p \in Pos, q \in Pos : p = Wrap(h) /\ q = Wrap(c)
  BY Zenon, WrapType
<1>2. CASE c <= h
  <2>1. p = Plus(q, h - c)
    BY Zenon, <1>1, <1>2, WrapPlus
  <2>2. \/ p = q + (h - c)
        \/ p = q + (h - c) - buf_num
    BY <2>1, RingAssumption DEF Plus, Pos
  <2>3. Room(p, q, k) \in 0 .. k /\ h + Room(p, q, k) < c + buf_num
    <3>1. CASE p = q
      <4>1. h = c
        BY <1>2, <2>2, <3>1, RingAssumption DEF Pos
      <4>2. Room(p, q, k) = IF k >= buf_num THEN buf_num - 1 ELSE k
        BY <3>1, RingAssumption DEF Room, Pos
      <4> QED
        BY <4>1, <4>2, RingAssumption
    <3>2. CASE p < q
      <4>1. p = q + (h - c) - buf_num
        BY <1>2, <2>2, <3>2 DEF Pos
      <4>2. Room(p, q, k) = IF p + k >= q THEN q - p - 1 ELSE k
        BY <3>2, RingAssumption DEF Room, Pos
      <4> QED
        BY <1>2, <3>2, <4>1, <4>2, RingAssumption DEF Pos
    <3>3. CASE p > q
      <4>1. p = q + (h - c)
        BY <1>2, <2>2, <3>3, RingAssumption DEF Pos
      <4>2. Room(p, q, k) = IF p + k >= q + buf_num THEN q + buf_num - p - 1 ELSE k
        BY <3>3, RingAssumption DEF Room, Pos
      <4> QED
        BY <1>2, <3>3, <4>1, <4>2, RingAssumption DEF Pos
    <3> QED
      BY <3>1, <3>2, <3>3 DEF Pos
  <2> QED
    BY Zenon, <1>1, <2>3
<1>3. CASE ~(c <= h)
  <2>1. q # 0
    BY <1>1, <1>3, WrapType
  <2>2. Room(p, q, k) \in 0 .. k
    BY <2>1, RingAssumption DEF Room, Pos
  <2> QED
    BY Zenon, <1>1, <1>3, <2>2
<1> QED
  BY Zenon, <1>2, <1>3

\* A list push loads cons_tail and computes its room, or returns.
LEMMA ListTailStep ==
    ASSUME NEW t \in Threads, NEW ct, NEW ch, NEW pt, NEW ph, NEW at, NEW tl, NEW b, NEW C,
           TypeOK, GhostInv(ct, ch, pt, ph, at, tl, b, C), ListLoadTail(t)
    PROVE  IInv'
<1>0. PICK k : k = Room(head[t], cons_tail, Len(mine[t]))
  OBVIOUS
<1>1. /\ pc[t] = "listTail" /\ UNCHANGED <<ringVars, copied, mine>> /\ tail' = tail
      /\ lap' = [lap EXCEPT ![t] = lap'[t]]
  BY DEF ListLoadTail, TypeOK, CallTypes
<1>2. \/ pc'[t] = "idle" /\ head'[t] = 0 /\ lap'[t] = 0 /\ n'[t] = n[t]
      \/ pc'[t] = "listSwap" /\ head'[t] = head[t] /\ lap'[t] = lap[t] /\ n'[t] = k /\ k # 0
  BY <1>0 DEF ListLoadTail, TypeOK, CallTypes
<1>3. Local(t)
  BY Zenon, StepLocal DEF Step
<1>4. RingTypes' /\ mine' = mine /\ copied' = copied /\ use' = use
  BY Zenon, <1>1 DEF TypeOK, RingTypes, ringVars
<1>5. PushOk(t, ct, ph, at[t]) /\ EndsInv(ct, ch, pt, ph) /\ at[t] \in Nat /\ tl[t] \in Nat
  BY Zenon DEF GhostInv
<1>6. lap[t] \in Nat /\ Len(mine[t]) \in Nat
  <2>1. mine[t] \in Seq(Bufs) /\ lap[t] \in 0 .. buf_num
    BY Zenon DEF TypeOK, CallTypes
  <2> QED
    BY <2>1, RingAssumption
<1>7. /\ head[t] = Wrap(at[t]) /\ at[t] + lap[t] = ph /\ lap[t] < buf_num /\ use = "list"
      /\ ct \in Nat /\ ph \in Nat /\ ct <= ph /\ ph < ct + buf_num /\ cons_tail = Wrap(ct)
  <2>1. ct \in Nat /\ ch \in Nat /\ pt \in Nat /\ ph \in Nat
        /\ ct <= ch /\ ch <= pt /\ pt <= ph /\ ph < ct + buf_num
    BY Zenon, <1>5 DEF EndsInv
  <2>2. ct <= ph
    BY <2>1
  <2> QED
    BY Zenon, <1>1, <1>5, <2>1, <2>2 DEF PushOk, EndsInv
<1>8. k \in 0 .. Len(mine[t]) /\ (lap[t] = 0 => at[t] + k < ct + buf_num)
  <2>1. at[t] < ct + buf_num /\ (lap[t] = 0 => ct <= at[t])
    BY <1>5, <1>6, <1>7, RingAssumption
  <2> QED
    BY Zenon, <1>0, <1>5, <1>6, <1>7, <2>1, RoomFits
<1>9. TypeOK' /\ Others(t)
  <2>1. n'[t] \in Nat
    BY <1>2, <1>6, <1>8 DEF TypeOK, CallTypes
  <2>2. /\ head'[t] \in Pos /\ lap'[t] \in 0 .. buf_num /\ pc'[t] \in {"idle", "listSwap"}
    BY Zenon, <1>2, Zero DEF TypeOK, CallTypes
  <2>3. lap' \in [Threads -> 0 .. buf_num]
    BY Zenon, <1>1, <2>2 DEF TypeOK, CallTypes
  <2>4. Assigned(t)
    BY Zenon, <1>1, <1>4, <2>1, <2>2, <2>3 DEF TypeOK, CallTypes, Claiming, Assigned
  <2> QED
    BY Zenon, <1>3, <2>4, TypeStep
<1>10. GetOk(t, ch, pt, at[t], tl[t])' /\ PushOk(t, ct, ph, at[t])'
  BY <1>2, <1>4, <1>6, <1>7, <1>8 DEF GetOk, PushOk
<1>11. /\ pc[t] \notin Claiming /\ pc'[t] \notin Claiming
       /\ \A u \in Threads \ {t} : lap'[u] = lap[u]
  BY Zenon, <1>1, <1>2 DEF Claiming, TypeOK, CallTypes
<1> QED
  BY <1>1, <1>5, <1>9, <1>10, <1>11, LoadFrame DEF IInv

-----------------------------------------------------------------------------
(* The gets that claim. *)

\* The copies of a head age with it.
LEMMA AgeStep ==
    ASSUME NEW t \in Threads, NEW calls, NEW k \in Nat, TypeOK, ~Laps, Age(t, calls, k)
    PROVE  /\ lap' \in [Threads -> 0 .. buf_num]
           /\ \A u \in Threads \ {t} :
                /\ pc[u] \in calls => lap'[u] = lap[u] + k /\ lap'[u] < buf_num
                /\ pc[u] \notin calls => lap'[u] = lap[u]
<1>1. lap \in [Threads -> 0 .. buf_num]
  BY Zenon DEF TypeOK, CallTypes
<1>2. \A u \in Threads \ {t} : pc[u] \in calls => lap[u] + k < buf_num
  BY Zenon DEF Age
<1>3. lap' = [u \in Threads |-> IF u # t /\ pc[u] \in calls
                                THEN IF lap[u] + k > buf_num THEN buf_num ELSE lap[u] + k
                                ELSE IF u = t THEN 0 ELSE lap[u]]
  BY Zenon DEF Age
<1> QED
  BY <1>1, <1>2, <1>3, RingAssumption

\* The number a get claims is not 0 and no more than there is.
LEMMA GetCount ==
    ASSUME NEW t \in Threads, NEW a \in Nat, NEW l \in Nat, a < l, l < a + buf_num,
           head[t] = Wrap(a), tail[t] = Wrap(l), n[t] \in Nat \ {0}, Granule = 1
    PROVE  Whole(Fewer(n[t], Avail(t))) \in 1 .. l - a
<1>1. Dist(Wrap(a), Wrap(l)) = l - a /\ Wrap(a) # Wrap(l) /\ Wrap(a) \in Pos /\ Wrap(l) \in Pos
  BY WrapApart, WrapType
<1>2. Avail(t) = l - a
  BY <1>1, RingAssumption DEF Avail, Dist, Pos
<1>3. Fewer(n[t], Avail(t)) \in 1 .. l - a
  BY <1>2 DEF Fewer
<1> QED
  BY <1>3 DEF Whole

\* A get whose compare-and-swap succeeds claims k positions from the head, all of them
\* published.
LEMMA GetClaimed ==
    ASSUME NEW t \in Threads, NEW ct, NEW ch, NEW pt, NEW ph, NEW at, NEW tl, NEW b, NEW C,
           TypeOK, GhostInv(ct, ch, pt, ph, at, tl, b, C), Granule = 1,
           GetSwap(t), cons_head = head[t]
    PROVE  \E k \in Nat \ {0} :
              /\ n'[t] = k /\ Age(t, {"getTail", "getSwap"}, k) /\ pc'[t] = "getCopy"
              /\ head[t] = Wrap(ch) /\ at[t] = ch /\ copied[t] = 0
              /\ k <= buf_num /\ ch + k \in Nat /\ ch + k <= pt /\ cons_head' = Wrap(ch + k)
<1>0. PICK k : k = Whole(Fewer(n[t], Avail(t)))
  OBVIOUS
<1>1. /\ pc[t] = "getSwap" /\ cons_head' = Plus(head[t], k) /\ n'[t] = k /\ pc'[t] = "getCopy"
      /\ Age(t, {"getTail", "getSwap"}, k)
  BY Zenon, <1>0 DEF GetSwap, TypeOK, CallTypes
<1>3. /\ ct \in Nat /\ ch \in Nat /\ pt \in Nat /\ ph \in Nat /\ at[t] \in Nat /\ tl[t] \in Nat
      /\ ct <= ch /\ ch <= pt /\ pt <= ph /\ ph < ct + buf_num /\ cons_head = Wrap(ch)
  BY Zenon DEF GhostInv, EndsInv
<1>4. /\ n[t] \in Nat \ {0} /\ head[t] = Wrap(at[t]) /\ tail[t] = Wrap(tl[t])
      /\ at[t] = ch /\ ch < tl[t] /\ tl[t] <= pt
  <2>1. GetOk(t, ch, pt, at[t], tl[t])
    BY Zenon DEF GhostInv
  <2>2. lap[t] \in Nat /\ n[t] \in Nat
    BY RingAssumption DEF TypeOK, CallTypes
  <2>3. at[t] + lap[t] = ch /\ lap[t] < buf_num /\ head[t] = Wrap(at[t])
    BY Zenon, <1>1, <2>1 DEF GetOk
  <2>4. at[t] = ch
    <3>1. at[t] <= ch /\ ch < at[t] + buf_num
      BY <1>3, <2>2, <2>3, RingAssumption
    <3> QED
      BY Zenon, <1>3, <2>3, <3>1, WrapApart
  <2>5. lap[t] = 0
    BY <1>3, <2>2, <2>3, <2>4
  <2> QED
    BY <1>1, <2>1, <2>2, <2>4, <2>5 DEF GetOk
<1>5. k \in Nat \ {0} /\ ch + k <= pt /\ k <= buf_num /\ ch + k \in Nat
  <2>1. tl[t] < ch + buf_num
    BY <1>3, <1>4, RingAssumption
  <2>2. k \in 1 .. tl[t] - ch
    BY Zenon, <1>0, <1>3, <1>4, <2>1, GetCount
  <2> QED
    BY <1>3, <1>4, <2>1, <2>2, RingAssumption
<1>6. cons_head' = Wrap(ch + k)
  <2>1. ch <= ch + k /\ ch + k < ch + buf_num /\ (ch + k) - ch = k
    BY <1>3, <1>4, <1>5, RingAssumption
  <2>2. Wrap(ch + k) = Plus(Wrap(ch), (ch + k) - ch)
    BY Zenon, <1>3, <1>5, <2>1, WrapPlus
  <2> QED
    BY Zenon, <1>1, <1>4, <2>1, <2>2
<1>7. copied[t] = 0
  BY Zenon, <1>1 DEF GhostInv, ClaimOk, GetClaim, PushClaim
<1> QED
  BY Zenon, <1>1, <1>4, <1>5, <1>6, <1>7

\* A get claims what lies between cons_head and its copy of prod_tail.
LEMMA GetSwapStep ==
    ASSUME NEW t \in Threads, NEW ct, NEW ch, NEW pt, NEW ph, NEW at, NEW tl, NEW b, NEW C,
           TypeOK, GhostInv(ct, ch, pt, ph, at, tl, b, C), ~Laps, Granule = 1,
           GetSwap(t), cons_head = head[t]
    PROVE  IInv'
<1>0. PICK k \in Nat \ {0} :
         /\ n'[t] = k /\ Age(t, {"getTail", "getSwap"}, k) /\ pc'[t] = "getCopy"
         /\ head[t] = Wrap(ch) /\ at[t] = ch /\ copied[t] = 0
         /\ k <= buf_num /\ ch + k \in Nat /\ ch + k <= pt /\ cons_head' = Wrap(ch + k)
  BY GetClaimed
<1>1. /\ pc[t] = "getSwap" /\ head' = head /\ tail' = tail
      /\ buf_ptrs' = buf_ptrs /\ prod_head' = prod_head /\ prod_tail' = prod_tail
      /\ cons_tail' = cons_tail /\ use' = use /\ copied' = copied /\ mine' = mine
  BY Zenon DEF GetSwap
<1>2. Local(t)
  BY Zenon, StepLocal DEF Step
<1>3. /\ ct \in Nat /\ ch \in Nat /\ pt \in Nat /\ ph \in Nat /\ at[t] \in Nat
      /\ ct <= ch /\ ch <= pt /\ pt <= ph /\ ph < ct + buf_num
      /\ cons_tail = Wrap(ct) /\ prod_tail = Wrap(pt) /\ prod_head = Wrap(ph)
  BY Zenon DEF GhostInv, EndsInv
<1>7. /\ lap' \in [Threads -> 0 .. buf_num]
      /\ \A u \in Threads \ {t} :
            /\ pc[u] \in {"getTail", "getSwap"} => lap'[u] = lap[u] + k /\ lap'[u] < buf_num
            /\ pc[u] \notin {"getTail", "getSwap"} => lap'[u] = lap[u]
  BY Zenon, <1>1, <1>0, AgeStep
<1>8. TypeOK' /\ Others(t)
  <2>1. Wrap(ch + k) \in Pos
    BY Zenon, <1>0, WrapType
  <2>2. RingTypes'
    BY Zenon, <1>1, <1>0, <2>1 DEF TypeOK, RingTypes
  <2>3. Assigned(t)
    BY Zenon, <1>1, <1>0, <1>7, <2>2 DEF TypeOK, CallTypes, Claiming, Assigned
  <2> QED
    BY Zenon, <1>2, <2>3, TypeStep
<1>9. EndsInv(ct, ch + k, pt, ph)' /\ StoredInv(ct, pt, b)'
  <2>1. ct <= ch + k /\ ch + k <= pt
    BY <1>3, <1>0
  <2> QED
    BY Zenon, <1>1, <1>3, <1>0, <2>1 DEF EndsInv, StoredInv, GhostInv
<1>10. GetClaim(t)' /\ ~PushClaim(t)' /\ ~GetClaim(t) /\ ~PushClaim(t)
  BY Zenon, <1>0, <1>1 DEF GetClaim, PushClaim
<1>12. ASSUME NEW u \in Threads
       PROVE  /\ GetOk(u, ch + k, pt, at[u], tl[u])' /\ PushOk(u, ct, ph, at[u])'
              /\ ClaimOk(u, ct, ch + k, pt, ph, at[u])' /\ StoreOk(u, at[u], b)'
  <2>1. CASE u = t
    <3>1. Len(mine[t]) \in Nat
      BY DEF TypeOK
    <3>2. ClaimOk(t, ct, ch + k, pt, ph, at[t])'
      BY <1>1, <1>3, <1>0, <1>10, <3>1 DEF ClaimOk
    <3>3. GetOk(t, ch + k, pt, at[t], tl[t])' /\ PushOk(t, ct, ph, at[t])'
      BY Zenon, <1>0, <1>1 DEF GetOk, PushOk
    <3>4. StoreOk(t, at[t], b)'
      <4>1. copied'[t] = 0 /\ 1 .. 0 = {}
        BY Zenon, <1>0, <1>1, NoIndex
      <4> QED
        BY Zenon, <1>10, <4>1 DEF StoreOk
    <3> QED
      BY Zenon, <2>1, <3>2, <3>3, <3>4
  <2>2. CASE u # t
    <3>1. /\ GetOk(u, ch, pt, at[u], tl[u]) /\ PushOk(u, ct, ph, at[u])
          /\ ClaimOk(u, ct, ch, pt, ph, at[u]) /\ StoreOk(u, at[u], b) /\ at[u] \in Nat
      BY Zenon DEF GhostInv
    <3>2. pc'[u] = pc[u] /\ n'[u] = n[u] /\ lap[u] \in Nat /\ n[u] \in Nat
      BY Zenon, <1>8, <2>2, PosNat DEF Others, TypeOK, CallTypes
    <3>3. GetOk(u, ch + k, pt, at[u], tl[u])'
      <4>1. /\ pc'[u] = pc[u] /\ n'[u] = n[u] /\ head'[u] = head[u] /\ tail'[u] = tail[u]
            /\ pc[u] \in {"getTail", "getSwap"} => lap'[u] = lap[u] + k /\ lap'[u] < buf_num
        BY Zenon, <1>1, <1>7, <2>2, <3>2
      <4>2. /\ GetOk(u, ch, pt, at[u], tl[u]) /\ at[u] \in Nat /\ lap[u] \in Nat
            /\ ch \in Nat /\ k \in Nat \ {0}
        BY Zenon, <1>3, <3>1, <3>2
      <4> QED
        BY <4>1, <4>2 DEF GetOk
    <3>4. PushOk(u, ct, ph, at[u])' /\ StoreOk(u, at[u], b)'
      BY Zenon, <1>0, <1>1, <1>7, <2>2, <3>1, <3>2 DEF PushOk, StoreOk, GetClaim, PushClaim
    <3>5. ClaimOk(u, ct, ch + k, pt, ph, at[u])'
      BY <1>1, <1>3, <1>0, <3>1, <3>2 DEF ClaimOk, GetClaim, PushClaim
    <3> QED
      BY Zenon, <3>3, <3>4, <3>5
  <2> QED
    BY Zenon, <2>1, <2>2
<1>13. ApartInv(at)'
  <2>1. \A u \in Threads : u # t /\ GetClaim(u) => at[u] + n[u] <= at[t]
    BY Zenon, <1>0 DEF GhostInv, ClaimOk
  <2> QED
    BY Zenon, <1>8, <1>10, <2>1 DEF GhostInv, ApartInv, Others, GetClaim, PushClaim
<1>14. UniqInv(ct, ph, b)' /\ (RoomInv(ct, ph, b, C) => RoomInv(ct, ph, b, C)')
  <2>1. Len(mine[t]) \in Nat
    BY DEF TypeOK
  <2>2. Free(t) = 1 .. Len(mine[t]) /\ Free(t)' = 1 .. Len(mine[t])
    <3>1. Len(mine[t]) - 0 = Len(mine[t])
      BY <2>1
    <3>2. copied'[t] = 0 /\ mine'[t] = mine[t]
      BY Zenon, <1>0, <1>1
    <3> QED
      BY Zenon, <1>10, <3>1, <3>2 DEF Free
  <2>3. 0 \in Int
        /\ \A i \in Free(t)' : i \in Int /\ i + 0 \in Free(t) /\ mine'[t][i] = mine[t][i + 0]
    <3>1. mine'[t] = mine[t]
      BY Zenon, <1>1
    <3> QED
      BY <2>2, <3>1
  <2> QED
    BY Zenon, <1>8, <2>3, UniqFrame DEF GhostInv
<1>15. GhostInv(ct, ch + k, pt, ph, at, tl, b, C)'
  BY Zenon, <1>0, <1>1, <1>9, <1>12, <1>13, <1>14 DEF GhostInv
<1> QED
  BY Zenon, <1>8, <1>15 DEF IInv

\* A get copies the pointer of the next position it claimed.
LEMMA GetCopyStep ==
    ASSUME NEW t \in Threads, NEW ct, NEW ch, NEW pt, NEW ph, NEW at, NEW tl, NEW b, NEW C,
           TypeOK, GhostInv(ct, ch, pt, ph, at, tl, b, C), GetCopy(t)
    PROVE  IInv'
<1>1. /\ pc[t] = "getCopy" /\ copied[t] < n[t] /\ copied'[t] = copied[t] + 1
      /\ mine'[t] = Append(mine[t], buf_ptrs[Slot(head[t] + copied[t])])
      /\ UNCHANGED ringVars /\ pc' = pc /\ head' = head /\ tail' = tail /\ n' = n /\ lap' = lap
  BY Zenon DEF GetCopy, TypeOK, CallTypes
<1>2. Local(t)
  BY Zenon, StepLocal DEF Step
<1>3. /\ buf_ptrs' = buf_ptrs /\ prod_head' = prod_head /\ prod_tail' = prod_tail
      /\ cons_head' = cons_head /\ cons_tail' = cons_tail /\ use' = use
  BY Zenon, <1>1 DEF ringVars
<1>4. /\ GetClaim(t) /\ GetClaim(t)' /\ ~PushClaim(t) /\ ~PushClaim(t)'
  BY Zenon, <1>1 DEF GetClaim, PushClaim
<1>5. /\ mine[t] \in Seq(Bufs) /\ n[t] \in Nat /\ copied[t] \in Nat /\ at[t] \in Nat
      /\ n[t] <= buf_num /\ b \in [Nat -> Bufs]
  <2>1. mine[t] \in Seq(Bufs) /\ copied[t] \in 0 .. buf_num /\ n[t] \in Nat /\ n[t] <= buf_num
    BY Zenon, <1>1 DEF TypeOK, CallTypes, Claiming
  <2>2. copied[t] \in Nat
    BY Zenon, <2>1, PosNat
  <2> QED
    BY Zenon, <2>1, <2>2 DEF GhostInv
<1>6. /\ head[t] = Wrap(at[t]) /\ copied[t] <= Len(mine[t])
      /\ ct <= at[t] /\ at[t] + n[t] <= ch /\ ch <= pt /\ ct \in Nat /\ ch \in Nat /\ pt \in Nat
  BY Zenon, <1>4 DEF GhostInv, ClaimOk, EndsInv
<1>7. PICK x \in Nat : x = at[t] + copied[t]
  BY <1>5
<1>8. mine'[t] = Append(mine[t], b[x]) /\ b[x] \in Bufs
  <2>1. Slot(head[t] + copied[t]) = Slot(x)
    BY Zenon, <1>5, <1>6, <1>7, WrapSlot
  <2>2. ct <= x /\ x < pt
    BY <1>1, <1>5, <1>6, <1>7
  <2>3. buf_ptrs[Slot(x)] = b[x]
    BY Zenon, <2>2 DEF GhostInv, StoredInv
  <2> QED
    BY Zenon, <1>1, <1>5, <2>1, <2>3
<1>9. /\ mine'[t] \in Seq(Bufs) /\ Len(mine'[t]) = Len(mine[t]) + 1 /\ Len(mine[t]) \in Nat
      /\ mine'[t][Len(mine[t]) + 1] = b[x]
      /\ \A i \in 1 .. Len(mine[t]) : mine'[t][i] = mine[t][i]
  BY <1>5, <1>8
<1>c. /\ copied[t] < n[t] /\ copied'[t] = copied[t] + 1 /\ copied[t] \in Nat
      /\ Len(mine'[t]) = Len(mine[t]) + 1 /\ Len(mine[t]) \in Nat /\ copied[t] <= Len(mine[t])
  BY Zenon, <1>1, <1>5, <1>6, <1>9
<1>10. TypeOK' /\ Others(t)
  <2>1. RingTypes'
    BY Zenon, <1>3 DEF TypeOK, RingTypes
  <2>2. copied'[t] \in 0 .. buf_num
    BY <1>1, <1>5, RingAssumption
  <2>3. Assigned(t)
    BY Zenon, <1>1, <1>5, <1>9, <2>1, <2>2 DEF TypeOK, CallTypes, Claiming, Assigned
  <2> QED
    BY Zenon, <1>2, <2>3, TypeStep
<1>11. EndsInv(ct, ch, pt, ph)' /\ StoredInv(ct, pt, b)'
  BY Zenon, <1>3 DEF GhostInv, EndsInv, StoredInv
<1>12. ASSUME NEW u \in Threads
       PROVE  /\ GetOk(u, ch, pt, at[u], tl[u])' /\ PushOk(u, ct, ph, at[u])'
              /\ ClaimOk(u, ct, ch, pt, ph, at[u])' /\ StoreOk(u, at[u], b)'
  <2>0. /\ GetOk(u, ch, pt, at[u], tl[u]) /\ PushOk(u, ct, ph, at[u])
        /\ ClaimOk(u, ct, ch, pt, ph, at[u]) /\ StoreOk(u, at[u], b)
    BY Zenon DEF GhostInv
  <2>1. CASE u = t
    <3>1. GetOk(t, ch, pt, at[t], tl[t])' /\ PushOk(t, ct, ph, at[t])'
      BY Zenon, <1>1 DEF GetOk, PushOk
    <3>2. ClaimOk(t, ct, ch, pt, ph, at[t])'
      <4>1. copied'[t] <= n[t] /\ copied'[t] <= Len(mine'[t])
        BY <1>c, <1>5
      <4>2. ClaimOk(t, ct, ch, pt, ph, at[t])
        BY Zenon, <2>0, <2>1
      <4> QED
        BY Zenon, <1>1, <1>4, <4>1, <4>2 DEF ClaimOk
    <3>3. ASSUME NEW i \in 1 .. copied'[t]
          PROVE  mine'[t][Len(mine'[t]) - copied'[t] + i] = b[at[t] + i - 1]
      <4>1. CASE i = copied[t] + 1
        <5>1. Len(mine'[t]) - copied'[t] + i = Len(mine[t]) + 1 /\ at[t] + i - 1 = x
          BY <1>c, <1>5, <1>7, <4>1
        <5> QED
          BY Zenon, <1>9, <5>1
      <4>2. CASE i # copied[t] + 1
        <5>1. /\ Len(mine'[t]) - copied'[t] + i = Len(mine[t]) - copied[t] + i
              /\ i \in 1 .. copied[t] /\ Len(mine[t]) - copied[t] + i \in 1 .. Len(mine[t])
          <6>1. PICK m \in Nat, c \in Nat : m = Len(mine[t]) /\ c = copied[t]
            BY Zenon, <1>c
          <6>2. /\ Len(mine'[t]) = m + 1 /\ copied'[t] = c + 1 /\ c <= m
                /\ i \in 1 .. c + 1 /\ i # c + 1
            BY Zenon, <1>c, <4>2, <6>1
          <6>3. (m + 1) - (c + 1) + i = m - c + i /\ i \in 1 .. c /\ m - c + i \in 1 .. m
            BY <6>2
          <6> QED
            BY Zenon, <6>1, <6>2, <6>3
        <5>2. mine[t][Len(mine[t]) - copied[t] + i] = b[at[t] + i - 1]
          BY Zenon, <1>4, <2>0, <2>1, <5>1 DEF StoreOk
        <5> QED
          BY Zenon, <1>9, <5>1, <5>2
      <4> QED
        BY Zenon, <4>1, <4>2
    <3>4. StoreOk(t, at[t], b)'
      BY Zenon, <1>4, <3>3 DEF StoreOk
    <3> QED
      BY Zenon, <2>1, <3>1, <3>2, <3>4
  <2>2. CASE u # t
    <3>1. Still(u)
      BY Zenon, <1>1, <1>3, <1>10, <2>2 DEF Others, Still
    <3> QED
      BY Zenon, <2>0, <3>1, StillOk
  <2> QED
    BY Zenon, <2>1, <2>2
<1>13. ApartInv(at)'
  BY Zenon, <1>1 DEF GhostInv, ApartInv, GetClaim, PushClaim
<1>14. UniqInv(ct, ph, b)' /\ (RoomInv(ct, ph, b, C) => RoomInv(ct, ph, b, C)')
  <2>1. Free(t) = 1 .. Len(mine[t]) - copied[t] /\ Free(t)' = 1 .. Len(mine[t]) - copied[t]
    <3>1. Len(mine'[t]) - copied'[t] = Len(mine[t]) - copied[t]
      BY <1>c
    <3> QED
      BY Zenon, <1>4, <3>1 DEF Free
  <2>2. 0 \in Int
        /\ \A i \in Free(t)' : i \in Int /\ i + 0 \in Free(t) /\ mine'[t][i] = mine[t][i + 0]
    <3>1. \A i \in 1 .. Len(mine[t]) - copied[t] : i \in 1 .. Len(mine[t]) /\ i + 0 = i
      BY <1>c
    <3>2. 0 \in Int /\ \A i \in 1 .. Len(mine[t]) : i \in Int
      OBVIOUS
    <3> QED
      BY Zenon, <1>9, <2>1, <3>1, <3>2
  <2> QED
    BY Zenon, <1>10, <2>2, UniqFrame DEF GhostInv
<1>15. GhostInv(ct, ch, pt, ph, at, tl, b, C)'
  BY Zenon, <1>3, <1>11, <1>12, <1>13, <1>14 DEF GhostInv
<1> QED
  BY Zenon, <1>10, <1>15 DEF IInv

\* A get sees that the claims before its own are published.
LEMMA GetTurnStep ==
    ASSUME NEW t \in Threads, NEW ct, NEW ch, NEW pt, NEW ph, NEW at, NEW tl, NEW b, NEW C,
           TypeOK, GhostInv(ct, ch, pt, ph, at, tl, b, C), GetTurn(t)
    PROVE  IInv'
<1>1. /\ pc[t] = "getCopy" /\ copied[t] = n[t] /\ cons_tail = head[t] /\ pc'[t] = "getStore"
      /\ UNCHANGED ringVars /\ head' = head /\ tail' = tail /\ n' = n /\ copied' = copied
      /\ mine' = mine /\ lap' = lap
  BY Zenon DEF GetTurn, TypeOK, CallTypes
<1>2. Local(t)
  BY Zenon, StepLocal DEF Step
<1>3. /\ buf_ptrs' = buf_ptrs /\ prod_head' = prod_head /\ prod_tail' = prod_tail
      /\ cons_head' = cons_head /\ cons_tail' = cons_tail /\ use' = use
  BY Zenon, <1>1 DEF ringVars
<1>4. GetClaim(t) /\ GetClaim(t)' /\ ~PushClaim(t) /\ ~PushClaim(t)'
  BY Zenon, <1>1 DEF GetClaim, PushClaim
<1>5. TypeOK' /\ Others(t)
  <2>1. RingTypes' /\ n'[t] <= buf_num
    BY Zenon, <1>1, <1>3 DEF TypeOK, RingTypes, Claiming
  <2>2. Assigned(t)
    BY Zenon, <1>1, <2>1 DEF TypeOK, CallTypes, Claiming, Assigned
  <2> QED
    BY Zenon, <1>2, <2>2, TypeStep
<1>6. at[t] = ct
  <2>1. /\ head[t] = Wrap(at[t]) /\ n[t] > 0 /\ ct <= at[t] /\ at[t] + n[t] <= ch /\ ch <= pt
        /\ pt <= ph /\ ph < ct + buf_num /\ cons_tail = Wrap(ct)
        /\ ct \in Nat /\ ch \in Nat /\ pt \in Nat /\ ph \in Nat /\ at[t] \in Nat
    BY Zenon, <1>4 DEF GhostInv, ClaimOk, EndsInv
  <2>2. at[t] < ct + buf_num
    <3>1. n[t] \in Nat
      BY Zenon DEF TypeOK, CallTypes
    <3> QED
      BY <2>1, <3>1, RingAssumption
  <2> QED
    BY Zenon, <1>1, <2>1, <2>2, WrapApart
<1>7. ASSUME NEW u \in Threads
      PROVE  /\ GetOk(u, ch, pt, at[u], tl[u])' /\ PushOk(u, ct, ph, at[u])'
             /\ ClaimOk(u, ct, ch, pt, ph, at[u])' /\ StoreOk(u, at[u], b)'
  <2>0. /\ GetOk(u, ch, pt, at[u], tl[u]) /\ PushOk(u, ct, ph, at[u])
        /\ ClaimOk(u, ct, ch, pt, ph, at[u]) /\ StoreOk(u, at[u], b)
    BY Zenon DEF GhostInv
  <2>1. CASE u = t
    BY Zenon, <1>1, <1>4, <1>6, <2>0, <2>1 DEF GetOk, PushOk, ClaimOk, StoreOk
  <2>2. CASE u # t
    <3>1. Still(u)
      BY Zenon, <1>1, <1>3, <1>5, <2>2 DEF Others, Still
    <3> QED
      BY Zenon, <2>0, <3>1, StillOk
  <2> QED
    BY Zenon, <2>1, <2>2
<1>8. ApartInv(at)'
  BY Zenon, <1>1, <1>4, <1>5 DEF GhostInv, ApartInv, GetClaim, PushClaim, Others
<1>9. UniqInv(ct, ph, b)' /\ (RoomInv(ct, ph, b, C) => RoomInv(ct, ph, b, C)')
  <2>1. Free(t) = 1 .. Len(mine[t]) - copied[t] /\ Free(t)' = 1 .. Len(mine[t]) - copied[t]
    BY Zenon, <1>1, <1>4 DEF Free
  <2>2. 0 \in Int
        /\ \A i \in Free(t)' : i \in Int /\ i + 0 \in Free(t) /\ mine'[t][i] = mine[t][i + 0]
    BY <1>1, <2>1
  <2> QED
    BY Zenon, <1>5, <2>2, UniqFrame DEF GhostInv
<1>10. EndsInv(ct, ch, pt, ph)' /\ StoredInv(ct, pt, b)'
  BY Zenon, <1>3 DEF GhostInv, EndsInv, StoredInv
<1>11. GhostInv(ct, ch, pt, ph, at, tl, b, C)'
  BY Zenon, <1>3, <1>7, <1>8, <1>9, <1>10 DEF GhostInv
<1> QED
  BY Zenon, <1>5, <1>11 DEF IInv

\* A get publishes its claim: the positions are free for pushes.
LEMMA GetPublishStep ==
    ASSUME NEW t \in Threads, NEW ct, NEW ch, NEW pt, NEW ph, NEW at, NEW tl, NEW b, NEW C,
           TypeOK, GhostInv(ct, ch, pt, ph, at, tl, b, C), GetPublish(t)
    PROVE  IInv'
<1>1. /\ pc[t] = "getStore" /\ cons_tail' = Plus(head[t], n[t]) /\ pc'[t] = "idle"
      /\ head'[t] = 0 /\ tail'[t] = 0 /\ n'[t] = 0 /\ copied'[t] = 0 /\ mine' = mine /\ lap' = lap
      /\ buf_ptrs' = buf_ptrs /\ prod_head' = prod_head /\ prod_tail' = prod_tail
      /\ cons_head' = cons_head /\ use' = use
  BY Zenon DEF GetPublish, Return, TypeOK, CallTypes
<1>2. Local(t)
  BY Zenon, StepLocal DEF Step
<1>3. GetClaim(t) /\ ~GetClaim(t)' /\ ~PushClaim(t) /\ ~PushClaim(t)'
  BY Zenon, <1>1 DEF GetClaim, PushClaim
<1>4. /\ ct \in Nat /\ ch \in Nat /\ pt \in Nat /\ ph \in Nat /\ n[t] \in Nat /\ n[t] > 0
      /\ ct <= ch /\ ch <= pt /\ pt <= ph /\ ph < ct + buf_num /\ ct + n[t] <= ch
  <2>1. n[t] > 0 /\ at[t] = ct /\ at[t] + n[t] <= ch /\ n[t] \in Nat
    BY Zenon, <1>1, <1>3 DEF GhostInv, ClaimOk, TypeOK, CallTypes
  <2> QED
    BY Zenon, <2>1 DEF GhostInv, EndsInv
<1>5. /\ at[t] = ct /\ copied[t] = n[t] /\ head[t] = Wrap(ct) /\ cons_head = Wrap(ch)
      /\ prod_tail = Wrap(pt) /\ prod_head = Wrap(ph) /\ copied[t] <= Len(mine[t])
  BY Zenon, <1>1, <1>3 DEF GhostInv, ClaimOk, EndsInv
<1>6. PICK x \in Nat : x = ct + n[t]
  BY <1>4
<1>7. x <= ch /\ ct < x /\ ph < x + buf_num
  BY <1>4, <1>6, RingAssumption
<1>8. EndsInv(x, ch, pt, ph)' /\ StoredInv(x, pt, b)'
  <2>1. ct <= x /\ x < ct + buf_num /\ x - ct = n[t]
    BY <1>4, <1>6, <1>7, RingAssumption
  <2>2. cons_tail' = Wrap(x)
    BY Zenon, <1>1, <1>4, <1>5, <2>1, WrapPlus
  <2>3. EndsInv(x, ch, pt, ph)'
    BY Zenon, <1>1, <1>4, <1>5, <1>7, <2>2 DEF EndsInv
  <2>4. \A y \in Nat : x <= y => ct <= y
    BY <1>4, <1>7
  <2> QED
    BY Zenon, <1>1, <2>3, <2>4 DEF GhostInv, StoredInv
<1>9. TypeOK' /\ Others(t)
  <2>1. cons_tail' \in Pos
    BY Zenon, <1>6, <1>8, WrapType DEF EndsInv
  <2>2. RingTypes'
    BY Zenon, <1>1, <2>1 DEF TypeOK, RingTypes
  <2>3. Assigned(t)
    BY Zenon, <1>1, <2>2, Zero DEF TypeOK, CallTypes, Claiming, Assigned
  <2> QED
    BY Zenon, <1>2, <2>3, TypeStep
<1>10. ASSUME NEW u \in Threads
       PROVE  /\ GetOk(u, ch, pt, at[u], tl[u])' /\ PushOk(u, x, ph, at[u])'
              /\ ClaimOk(u, x, ch, pt, ph, at[u])' /\ StoreOk(u, at[u], b)'
  <2>0. /\ GetOk(u, ch, pt, at[u], tl[u]) /\ PushOk(u, ct, ph, at[u]) /\ at[u] \in Nat
        /\ ClaimOk(u, ct, ch, pt, ph, at[u]) /\ StoreOk(u, at[u], b)
    BY Zenon DEF GhostInv
  <2>1. CASE u = t
    BY Zenon, <1>1, <1>3, <2>1 DEF GetOk, PushOk, ClaimOk, StoreOk
  <2>2. CASE u # t
    <3>1. /\ pc'[u] = pc[u] /\ head'[u] = head[u] /\ tail'[u] = tail[u] /\ n'[u] = n[u]
          /\ copied'[u] = copied[u]
      BY Zenon, <1>9, <2>2 DEF Others
    <3>2. GetOk(u, ch, pt, at[u], tl[u])' /\ StoreOk(u, at[u], b)'
      BY Zenon, <1>1, <2>0, <3>1 DEF GetOk, StoreOk, GetClaim, PushClaim
    <3>3. PushOk(u, x, ph, at[u])'
      <4>1. n[u] \in Nat
        BY Zenon DEF TypeOK, CallTypes
      <4>2. at[u] + n[u] < ct + buf_num => at[u] + n[u] < x + buf_num
        BY <1>4, <1>7, <2>0, <4>1, RingAssumption
      <4> QED
        BY Zenon, <1>1, <2>0, <3>1, <4>2 DEF PushOk
    <3>4. GetClaim(u) => x <= at[u] /\ pc[u] # "getStore"
      <4>1. GetClaim(u) => n[u] \in Nat /\ n[u] > 0 /\ ct <= at[u]
        BY Zenon, <2>0 DEF ClaimOk, TypeOK, CallTypes
      <4>2. GetClaim(u) => ct + n[t] <= at[u] \/ at[u] + n[u] <= ct
        BY Zenon, <1>3, <1>5, <2>2 DEF GhostInv, ApartInv
      <4>3. GetClaim(u) => x <= at[u] /\ at[u] # ct
        BY <1>4, <1>6, <1>7, <2>0, <4>1, <4>2
      <4> QED
        BY Zenon, <2>0, <4>3 DEF ClaimOk
    <3>5. ClaimOk(u, x, ch, pt, ph, at[u])'
      BY Zenon, <1>1, <2>0, <3>1, <3>4 DEF ClaimOk, GetClaim, PushClaim
    <3> QED
      BY Zenon, <3>2, <3>3, <3>5
  <2> QED
    BY Zenon, <2>1, <2>2
<1>11. ApartInv(at)'
  BY Zenon, <1>3, <1>9 DEF GhostInv, ApartInv, GetClaim, PushClaim, Others
<1>k. PICK k \in Nat : k = n[t]
  BY Zenon, <1>4
<1>12. PICK m \in Nat : m = Len(mine[t]) /\ n[t] <= m
  <2>1. Len(mine[t]) \in Nat
    BY DEF TypeOK
  <2> QED
    BY Zenon, <1>5, <2>1
<1>13. /\ Free(t) = 1 .. m - n[t] /\ Free(t)' = 1 .. m
       /\ \A u \in Threads : u # t => Free(u)' = Free(u)
  <2>1. Free(t) = 1 .. m - n[t] /\ Free(t)' = 1 .. m
    BY Zenon, <1>1, <1>3, <1>5, <1>12 DEF Free
  <2> QED
    BY Zenon, <1>9, <2>1 DEF Free, Others, GetClaim, PushClaim
\* A buffer that becomes free was free or is the copy of a position.
<1>14. ASSUME NEW i \in 1 .. m, i \notin Free(t)
       PROVE  \E z \in Nat : ct <= z /\ z < x /\ z = ct + i - (m - k) - 1 /\ mine[t][i] = b[z]
  <2>1. i \notin 1 .. m - k /\ k <= m /\ x = ct + k
    BY Zenon, <1>6, <1>k, <1>12, <1>13, <1>14
  <2>2. PICK j \in 1 .. k : i = m - k + j
    <3>1. i - (m - k) \in 1 .. k /\ i = m - k + (i - (m - k))
      BY <2>1
    <3> QED
      BY Zenon, <3>1
  <2>3. mine[t][m - k + j] = b[ct + j - 1]
    <3>1. StoreOk(t, at[t], b)
      BY Zenon DEF GhostInv
    <3>2. \A l \in 1 .. copied[t] : mine[t][Len(mine[t]) - copied[t] + l] = b[at[t] + l - 1]
      BY Zenon, <1>3, <3>1 DEF StoreOk
    <3> QED
      BY Zenon, <1>5, <1>k, <1>12, <3>2
  <2>4. /\ ct + j - 1 \in Nat /\ ct <= ct + j - 1 /\ ct + j - 1 < x
        /\ ct + j - 1 = ct + i - (m - k) - 1
    BY <1>4, <2>1, <2>2
  <2> QED
    BY Zenon, <2>2, <2>3, <2>4
<1>15. UniqInv(x, ph, b)' /\ (RoomInv(ct, ph, b, C) => RoomInv(x, ph, b, C)')
  <2>1. \A y \in Nat : x <= y => ct <= y
    BY <1>4, <1>7
  <2>2. \A y, z \in Nat : ct <= y /\ y < z /\ z < ph => b[y] # b[z]
    BY Zenon DEF GhostInv, UniqInv
  <2>m. \A u \in Threads : \A i \in Free(u) :
           \A y \in Nat : ct <= y /\ y < ph => mine[u][i] # b[y]
    BY Zenon DEF GhostInv, UniqInv
  <2>u. \A u, v \in Threads : \A i \in Free(u), j \in Free(v) :
           mine[u][i] = mine[v][j] => u = v /\ i = j
    BY Zenon DEF GhostInv, UniqInv
  <2>3. \A z \in Nat : z < x => z < ph /\ \A y \in Nat : x <= y => z < y
    BY <1>4, <1>7
  <2>4. ASSUME NEW u \in Threads, NEW i \in Free(u)', NEW y \in Nat, x <= y, y < ph
        PROVE  mine[u][i] # b[y]
    <3>1. CASE i \in Free(u)
      BY Zenon, <2>1, <2>m, <2>4, <3>1
    <3>2. CASE i \notin Free(u)
      <4>1. PICK z \in Nat : ct <= z /\ z < x /\ mine[u][i] = b[z]
        BY Zenon, <1>13, <1>14, <3>2
      <4> QED
        BY Zenon, <2>2, <2>3, <2>4, <4>1
    <3> QED
      BY Zenon, <3>1, <3>2
  <2>5. ASSUME NEW u \in Threads, NEW v \in Threads, NEW i \in Free(u)', NEW j \in Free(v)',
               mine[u][i] = mine[v][j]
        PROVE  u = v /\ i = j
    <3>1. CASE i \in Free(u) /\ j \in Free(v)
      BY Zenon, <2>u, <2>5, <3>1
    <3>2. CASE i \notin Free(u) /\ j \in Free(v)
      <4>1. PICK z \in Nat : ct <= z /\ z < x /\ mine[u][i] = b[z]
        BY Zenon, <1>13, <1>14, <3>2
      <4>2. z < ph
        BY Zenon, <2>3, <4>1
      <4>3. mine[v][j] # b[z]
        BY Zenon, <2>m, <3>2, <4>1, <4>2
      <4> QED
        BY <2>5, <4>1, <4>3
    <3>3. CASE i \in Free(u) /\ j \notin Free(v)
      <4>1. PICK z \in Nat : ct <= z /\ z < x /\ mine[v][j] = b[z]
        BY Zenon, <1>13, <1>14, <3>3
      <4>2. z < ph
        BY Zenon, <2>3, <4>1
      <4>3. mine[u][i] # b[z]
        BY Zenon, <2>m, <3>3, <4>1, <4>2
      <4> QED
        BY <2>5, <4>1, <4>3
    <3>4. CASE i \notin Free(u) /\ j \notin Free(v)
      <4>1. u = t /\ v = t /\ i \in 1 .. m /\ j \in 1 .. m
        BY Zenon, <1>13, <3>4
      <4>2. PICK y \in Nat : ct <= y /\ y < x /\ y = ct + i - (m - k) - 1 /\ mine[t][i] = b[y]
        BY Zenon, <1>14, <3>4, <4>1
      <4>3. PICK z \in Nat : ct <= z /\ z < x /\ z = ct + j - (m - k) - 1 /\ mine[t][j] = b[z]
        BY Zenon, <1>14, <3>4, <4>1
      <4>4. y = z
        <5>1. y < z \/ z < y \/ y = z
          OBVIOUS
        <5> QED
          BY Zenon, <2>2, <2>3, <2>5, <4>1, <4>2, <4>3, <5>1
      <4> QED
        BY <1>4, <4>1, <4>2, <4>3, <4>4
    <3> QED
      BY Zenon, <3>1, <3>2, <3>3, <3>4
  <2>6. UniqInv(x, ph, b)'
    <3>1. \A y, z \in Nat : x <= y /\ y < z /\ z < ph => b[y] # b[z]
      BY Zenon, <2>1, <2>2
    <3>2. \A u \in Threads : \A i \in Free(u)' : \A y \in Nat : x <= y /\ y < ph => mine[u][i] # b[y]
      BY Zenon, <2>4
    <3>3. \A u, v \in Threads : \A i \in Free(u)', j \in Free(v)' :
             mine[u][i] = mine[v][j] => u = v /\ i = j
      BY Zenon, <2>5
    <3> QED
      BY <1>1, <3>1, <3>2, <3>3 DEF UniqInv
  <2>7. ASSUME RoomInv(ct, ph, b, C) PROVE RoomInv(x, ph, b, C)'
    <3>1. ASSUME NEW u \in Threads, NEW i \in Free(u)' PROVE mine[u][i] \in C
      <4>1. CASE i \in Free(u)
        BY Zenon, <2>7, <4>1 DEF RoomInv
      <4>2. CASE i \notin Free(u)
        <5>1. PICK z \in Nat : ct <= z /\ z < x /\ mine[u][i] = b[z]
          BY Zenon, <1>13, <1>14, <4>2
        <5> QED
          BY Zenon, <2>3, <2>7, <5>1 DEF RoomInv
      <4> QED
        BY Zenon, <4>1, <4>2
    <3>2. IsFiniteSet(C) /\ Cardinality(C) < buf_num
      BY Zenon, <2>7 DEF RoomInv
    <3>3. \A y \in Nat : x <= y /\ y < ph => b[y] \in C
      <4>1. \A y \in Nat : ct <= y /\ y < ph => b[y] \in C
        BY Zenon, <2>7 DEF RoomInv
      <4> QED
        BY Zenon, <2>1, <4>1
    <3> QED
      BY <1>1, <3>1, <3>2, <3>3 DEF RoomInv
  <2> QED
    BY Zenon, <2>6, <2>7
<1>16. GhostInv(x, ch, pt, ph, at, tl, b, C)'
  BY Zenon, <1>1, <1>8, <1>10, <1>11, <1>15 DEF GhostInv
<1> QED
  BY Zenon, <1>9, <1>16 DEF IInv
=============================================================================
