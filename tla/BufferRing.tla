----------------------------- MODULE BufferRing -----------------------------
(***************************************************************************)
(* The lock-free ring of buffer pointers (odp_buffer_ring.c): the free list *)
(* of every pool and the receive ring of every interface.  Any number of    *)
(* threads call odp_buffer_ring_get_multi, odp_buffer_ring_push_multi and   *)
(* odp_buffer_ring_push_list at once.                                       *)
(*                                                                          *)
(* A call claims positions with a compare-and-swap of a head, copies the    *)
(* pointers, waits until the claims before its own are published and        *)
(* publishes its own by storing the tail.  Every atomic access and every    *)
(* copied pointer is a step.                                                *)
(*                                                                          *)
(* A position runs from 0 to buf_num; buf_num is stored where 0 is, so that *)
(* 0 occurs only until the head first moves.                                *)
(***************************************************************************)
EXTENDS Integers, Sequences, FiniteSets, Functions

CONSTANTS
    Threads,      \* the threads that use the ring
    Bufs,         \* the buffers
    buf_num,      \* the number of slots
    MaxGet,       \* the largest n_buffers of a get
    Granule,      \* 2^divisor: a get takes a multiple of it
    Pushes,       \* the uses of a ring: "multi" (a pool's), "list" (a receive ring)
    Laps,         \* FALSE: no thread is overtaken by a whole lap inside a call
    None

ASSUME RingAssumption ==
    /\ IsFiniteSet(Bufs) /\ Bufs # {} /\ Cardinality(Bufs) >= buf_num - 1
    /\ buf_num \in Nat \ {0} /\ MaxGet \in Nat \ {0} /\ Granule \in Nat \ {0}
    /\ Threads # {} /\ Pushes \subseteq {"multi", "list"}
    /\ Laps \in BOOLEAN
    /\ None \notin Bufs

VARIABLES
    buf_ptrs, prod_head, prod_tail, cons_head, cons_tail,   \* odp_buffer_ring_t
    use,       \* which push the users of this ring call
    pc,        \* where each thread is in its call
    head,      \* its copy of cons_head or prod_head
    tail,      \* its copy of prod_tail or cons_tail
    n,         \* n_buffers, then the number it claimed
    copied,    \* how many pointers it has copied
    mine,      \* the buffers the thread has, in the order it got them
    lap        \* how far the heads moved since the thread read its copy

ringVars == <<buf_ptrs, prod_head, prod_tail, cons_head, cons_tail, use>>
vars == <<ringVars, pc, head, tail, n, copied, mine, lap>>

Pos == 0..buf_num

\* Mutant of Plus: it wraps one too late.
PlusLate(p, k) == IF p + k > buf_num + 1 THEN p + k - buf_num ELSE p + k

\* The position k after p, and the slot of a position.
Plus(p, k) == IF p + k > buf_num THEN p + k - buf_num ELSE p + k
Slot(p) == p % buf_num

\* odp_buffer_ring_init; the buffers not in the ring are with their first owner.
\* odp_pool_create starts with every buffer in the hands of the creator, who pushes
\* them one by one: the ring of a pool has room for all of them.  A receive ring may
\* have more buffers to take than slots.  Which buffer is which does not matter.
Init ==
    /\ use \in Pushes
    /\ buf_ptrs = [s \in 0..buf_num-1 |-> None]
    /\ prod_head = 0 /\ prod_tail = 0 /\ cons_head = 0 /\ cons_tail = 0
    /\ pc = [t \in Threads |-> "idle"]
    /\ head = [t \in Threads |-> 0]
    /\ tail = [t \in Threads |-> 0]
    /\ n = [t \in Threads |-> 0]
    /\ copied = [t \in Threads |-> 0]
    /\ LET s     == CHOOSE q \in Injection(1..Cardinality(Bufs), Bufs) : TRUE
           owner == CHOOSE t \in Threads : TRUE
           first == IF use = "multi" THEN SubSeq(s, 1, buf_num - 1) ELSE s
       IN  mine = [t \in Threads |-> IF t = owner THEN first ELSE <<>>]
    /\ lap = [t \in Threads |-> 0]

\* A head moves by k: the copies other threads are about to compare it with age.
Age(t, calls, k) ==
    /\ Laps \/ \A u \in Threads \ {t} : pc[u] \in calls => lap[u] + k < buf_num
    /\ lap' = [u \in Threads |-> IF u # t /\ pc[u] \in calls
                                 THEN IF lap[u] + k > buf_num THEN buf_num ELSE lap[u] + k
                                 ELSE IF u = t THEN 0 ELSE lap[u]]

-----------------------------------------------------------------------------
(* odp_buffer_ring_get_multi *)

GetLoadHead(t) ==
    /\ pc[t] = "idle"
    /\ \E k \in 1..MaxGet : n' = [n EXCEPT ![t] = k]
    /\ head' = [head EXCEPT ![t] = cons_head]
    /\ pc' = [pc EXCEPT ![t] = "getTail"]
    /\ lap' = [lap EXCEPT ![t] = 0]
    /\ UNCHANGED <<ringVars, tail, copied, mine>>

\* The same loads after a failed compare-and-swap: n_buffers is still that of the call.
GetReload(t) ==
    /\ pc[t] = "getHead"
    /\ head' = [head EXCEPT ![t] = cons_head]
    /\ pc' = [pc EXCEPT ![t] = "getTail"]
    /\ lap' = [lap EXCEPT ![t] = 0]
    /\ UNCHANGED <<ringVars, tail, n, copied, mine>>

\* "No Buf available": the call returns 0.
GetLoadTail(t) ==
    /\ pc[t] = "getTail"
    /\ IF head[t] = prod_tail
       THEN /\ pc' = [pc EXCEPT ![t] = "idle"]
            /\ head' = [head EXCEPT ![t] = 0]
            /\ n' = [n EXCEPT ![t] = 0]
            /\ lap' = [lap EXCEPT ![t] = 0]
            /\ tail' = [tail EXCEPT ![t] = 0]
       ELSE /\ pc' = [pc EXCEPT ![t] = "getSwap"]
            /\ tail' = [tail EXCEPT ![t] = prod_tail]
            /\ UNCHANGED <<head, n, lap>>
    /\ UNCHANGED <<ringVars, copied, mine>>

\* How many buffers there are between the copies the thread has.
Avail(t) == IF tail[t] > head[t] THEN tail[t] - head[t]
                                 ELSE tail[t] + buf_num - head[t]
Fewer(a, b) == IF a < b THEN a ELSE b
Whole(k) == k - (k % Granule)

GetSwap(t) ==
    /\ pc[t] = "getSwap"
    /\ IF cons_head = head[t]
       THEN LET k == Whole(Fewer(n[t], Avail(t)))
            IN /\ cons_head' = Plus(head[t], k)
               /\ n' = [n EXCEPT ![t] = k]
               /\ pc' = [pc EXCEPT ![t] = "getCopy"]
               /\ Age(t, {"getTail", "getSwap"}, k)
       ELSE /\ pc' = [pc EXCEPT ![t] = "getHead"]
            /\ UNCHANGED <<cons_head, n, lap>>
    /\ UNCHANGED <<use, buf_ptrs, prod_head, prod_tail, cons_tail, head, tail, copied, mine>>

GetCopy(t) ==
    /\ pc[t] = "getCopy" /\ copied[t] < n[t]
    /\ mine' = [mine EXCEPT ![t] = Append(@, buf_ptrs[Slot(head[t] + copied[t])])]
    /\ copied' = [copied EXCEPT ![t] = @ + 1]
    /\ UNCHANGED <<ringVars, pc, head, tail, n, lap>>

\* The end of a call: its locals are gone.
Return(t) ==
    /\ pc' = [pc EXCEPT ![t] = "idle"]
    /\ head' = [head EXCEPT ![t] = 0]
    /\ tail' = [tail EXCEPT ![t] = 0]
    /\ n' = [n EXCEPT ![t] = 0]
    /\ copied' = [copied EXCEPT ![t] = 0]

\* The spin on cons_tail ends when the claims before this one are published.
GetTurn(t) ==
    /\ pc[t] = "getCopy" /\ copied[t] = n[t]
    /\ cons_tail = head[t]
    /\ pc' = [pc EXCEPT ![t] = "getStore"]
    /\ UNCHANGED <<ringVars, head, tail, n, copied, mine, lap>>

\* Mutant of GetPublish: the claim is stored where it began.
GetPublishHead(t) ==
    /\ pc[t] = "getStore"
    /\ cons_tail' = head[t]
    /\ Return(t)
    /\ UNCHANGED <<use, buf_ptrs, prod_head, prod_tail, cons_head, mine, lap>>

GetPublish(t) ==
    /\ pc[t] = "getStore"
    /\ cons_tail' = Plus(head[t], n[t])
    /\ Return(t)
    /\ UNCHANGED <<use, buf_ptrs, prod_head, prod_tail, cons_head, mine, lap>>

-----------------------------------------------------------------------------
(* odp_buffer_ring_push_multi *)

PushLoadHead(t) ==
    /\ use = "multi"
    /\ pc[t] = "idle"
    /\ \E k \in 1..Len(mine[t]) : n' = [n EXCEPT ![t] = k]
    /\ head' = [head EXCEPT ![t] = prod_head]
    /\ pc' = [pc EXCEPT ![t] = "pushSwap"]
    /\ UNCHANGED <<ringVars, tail, copied, mine, lap>>

\* A failed compare-and-swap is followed by another load and another try.
PushSwap(t) ==
    /\ pc[t] = "pushSwap"
    /\ IF prod_head = head[t]
       THEN /\ prod_head' = Plus(head[t], n[t])
            /\ pc' = [pc EXCEPT ![t] = "pushStore"]
            /\ Age(t, {"listTail", "listSwap"}, n[t])
            /\ UNCHANGED head
       ELSE /\ head' = [head EXCEPT ![t] = prod_head]
            /\ UNCHANGED <<prod_head, pc, lap>>
    /\ UNCHANGED <<use, buf_ptrs, prod_tail, cons_head, cons_tail, tail, n, copied, mine>>

\* One pointer stored; the buffer leaves the thread.
PushStore(t) ==
    /\ pc[t] = "pushStore" /\ copied[t] < n[t]
    /\ buf_ptrs' = [buf_ptrs EXCEPT ![Slot(head[t] + copied[t])] = Head(mine[t])]
    /\ mine' = [mine EXCEPT ![t] = Tail(@)]
    /\ copied' = [copied EXCEPT ![t] = @ + 1]
    /\ UNCHANGED <<use, prod_head, prod_tail, cons_head, cons_tail, pc, head, tail, n, lap>>

\* The spin on prod_tail, and the store: the claims of a push are never empty, so that
\* nobody else can store prod_tail in between.
PushPublish(t) ==
    /\ pc[t] = "pushStore" /\ copied[t] = n[t]
    /\ prod_tail = head[t]
    /\ prod_tail' = Plus(head[t], n[t])
    /\ Return(t)
    /\ UNCHANGED <<use, buf_ptrs, prod_head, cons_head, cons_tail, mine, lap>>

-----------------------------------------------------------------------------
(* odp_buffer_ring_push_list: pushes what there is room for *)

\* The receive thread pushes its whole list.
ListLoadHead(t) ==
    /\ use = "list"
    /\ \/ pc[t] = "idle" /\ mine[t] # <<>>
       \/ pc[t] = "listHead"
    /\ head' = [head EXCEPT ![t] = prod_head]
    /\ pc' = [pc EXCEPT ![t] = "listTail"]
    /\ lap' = [lap EXCEPT ![t] = 0]
    /\ UNCHANGED <<ringVars, tail, n, copied, mine>>

\* Mutant of Room: no slot is left between the ends.
RoomFull(h, c, k) ==
    CASE h = c /\ k >= buf_num           -> buf_num
      [] h < c /\ h + k >= c             -> c - h
      [] h > c /\ h + k >= c + buf_num   -> c + buf_num - h
      [] OTHER                           -> k

\* The number of buffers that fit before the copy of cons_tail.
Room(h, c, k) ==
    CASE h = c /\ k >= buf_num           -> buf_num - 1
      [] h < c /\ h + k >= c             -> c - h - 1
      [] h > c /\ h + k >= c + buf_num   -> c + buf_num - h - 1
      [] OTHER                           -> k

\* "Ring is full": the call returns without a push.
ListLoadTail(t) ==
    /\ pc[t] = "listTail"
    /\ LET k == Room(head[t], cons_tail, Len(mine[t]))
       IN IF k = 0
          THEN /\ pc' = [pc EXCEPT ![t] = "idle"]
               /\ head' = [head EXCEPT ![t] = 0]
               /\ lap' = [lap EXCEPT ![t] = 0]
               /\ UNCHANGED n
          ELSE /\ pc' = [pc EXCEPT ![t] = "listSwap"]
               /\ n' = [n EXCEPT ![t] = k]
               /\ UNCHANGED <<head, lap>>
    /\ UNCHANGED <<ringVars, tail, copied, mine>>

\* Mutant of ListSwap: prod_head is stored without the comparison.
ListSwapPlain(t) ==
    /\ pc[t] = "listSwap"
    /\ prod_head' = Plus(head[t], n[t])
    /\ pc' = [pc EXCEPT ![t] = "pushStore"]
    /\ Age(t, {"listTail", "listSwap"}, n[t])
    /\ UNCHANGED <<use, buf_ptrs, prod_tail, cons_head, cons_tail, head, tail, n, copied, mine>>

ListSwap(t) ==
    /\ pc[t] = "listSwap"
    /\ IF prod_head = head[t]
       THEN /\ prod_head' = Plus(head[t], n[t])
            /\ pc' = [pc EXCEPT ![t] = "pushStore"]
            /\ Age(t, {"listTail", "listSwap"}, n[t])
            /\ UNCHANGED n
       ELSE /\ pc' = [pc EXCEPT ![t] = "listHead"]
            /\ n' = [n EXCEPT ![t] = 0]
            /\ UNCHANGED <<prod_head, lap>>
    /\ UNCHANGED <<use, buf_ptrs, prod_tail, cons_head, cons_tail, head, tail, copied, mine>>

-----------------------------------------------------------------------------

Step(t) ==
    \/ GetReload(t) \/ GetLoadTail(t) \/ GetSwap(t) \/ GetCopy(t)
    \/ GetTurn(t) \/ GetPublish(t)
    \/ PushSwap(t) \/ PushStore(t) \/ PushPublish(t)
    \/ pc[t] = "listHead" /\ ListLoadHead(t)
    \/ ListLoadTail(t) \/ ListSwap(t)

Call(t) == GetLoadHead(t) \/ PushLoadHead(t) \/ (pc[t] = "idle" /\ ListLoadHead(t))

Next == \E t \in Threads : Call(t) \/ Step(t)

Spec == Init /\ [][Next]_vars

\* A thread inside a call goes on with it.
FairSpec == Spec /\ \A t \in Threads : WF_vars(Step(t))

-----------------------------------------------------------------------------
(* Properties *)

\* Type correctness: every position stays within the ring and no claim is larger than it.
Claiming == {"getCopy", "getStore", "pushStore"}
RingTypes ==
    /\ buf_ptrs \in [0..buf_num-1 -> Bufs \cup {None}]
    /\ use \in Pushes
    /\ prod_head \in Pos /\ prod_tail \in Pos /\ cons_head \in Pos /\ cons_tail \in Pos
CallTypes ==
    /\ pc \in [Threads -> {"idle", "getHead", "getTail", "getSwap", "getCopy", "getStore",
                           "pushSwap", "pushStore", "listHead", "listTail", "listSwap"}]
    /\ head \in [Threads -> Pos] /\ tail \in [Threads -> Pos]
    /\ n \in [Threads -> Nat] /\ copied \in [Threads -> 0..buf_num]
    /\ lap \in [Threads -> 0..buf_num]
TypeOK ==
    /\ RingTypes /\ CallTypes /\ mine \in [Threads -> Seq(Bufs)]
    /\ \A t \in Threads : pc[t] \in Claiming => n[t] <= buf_num

\* A slot that one thread is about to read or write in its copy loop is no other
\* thread's to write, so that the plain loads and stores of the pointers never race.
SlotOf(t) == Slot(head[t] + copied[t])
Copying(t) == pc[t] \in {"getCopy", "pushStore"} /\ copied[t] < n[t]
NoSlotRace ==
    \A t, u \in Threads :
       t # u /\ Copying(t) /\ Copying(u) /\ pc[t] = "pushStore" => SlotOf(t) # SlotOf(u)

\* Whoever has claimed positions gets to publish them: the spins on cons_tail and
\* prod_tail never wait for each other in a circle.
ClaimPublished ==
    \A t \in Threads : pc[t] \in Claiming ~> pc[t] = "idle"

\* The positions from p up to q, and what is stored there.
Dist(p, q) == IF q >= p THEN q - p ELSE q + buf_num - p
Stored(p, k) == [j \in 1..k |-> buf_ptrs[Slot(p + j - 1)]]

\* The buffers in the queue are the published ones that no get has claimed; a thread
\* has what it claimed and not yet copied, and what it stored and not yet published.
AFifo == Stored(cons_head, Dist(cons_head, prod_tail))
AHeld == [t \in Threads |->
            CASE pc[t] = "getCopy"   -> mine[t] \o Stored(head[t] + copied[t], n[t] - copied[t])
              [] pc[t] = "pushStore" -> Stored(head[t], copied[t]) \o mine[t]
              [] OTHER               -> mine[t]]

F == INSTANCE BufferFifo WITH fifo <- AFifo, held <- AHeld

\* get_multi, push_multi and push_list, interleaved access by access, are a queue.
ImplementsFifo == F!FifoSpec
=============================================================================
