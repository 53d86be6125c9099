---------------------------- MODULE TimerProofs -----------------------------
(***************************************************************************)
(* Proofs about a timer pool, for any number of timers, threads, buffers,   *)
(* queues and ticks: the inductive invariant, that the calls of the         *)
(* application and the steps of the callback preserve it, and what follows. *)
(*                                                                          *)
(* The argument: a timer belongs to the application (handles), to the one   *)
(* thread that is freeing it, or to the free list; only a timer of the      *)
(* application has a buffer, and a buffer is in one place, whose timer has  *)
(* the queue that the header of the buffer names.                           *)
(***************************************************************************)
EXTENDS Timer, TLAPS

Freeing(t) == pc[t] \in {"fini", "insert"}

\* The timers that are not on the free list.
Out == handles \cup {arg[t].idx : t \in {u \in Threads : Freeing(u)}}

\* The arguments of a call: a timer is set while the application has it, and freed
\* by one thread once it has not.
CallInv ==
    \A t \in Threads :
        /\ arg[t].buf # None =>
              pc[t] = "set" /\ hdr[arg[t].buf].user_ptr = queue[arg[t].idx]
        /\ pc[t] = "set" => arg[t].idx \in handles
        /\ Freeing(t) => arg[t].idx \in Timers \ handles
        /\ \A u \in Threads :
              t # u /\ Freeing(t) /\ Freeing(u) => arg[t].idx # arg[u].idx

\* A timer of the application has its queue; a buffer in it names that queue.
TimerInv ==
    \A n \in Timers :
        /\ n \in handles => queue[n] \in Queues /\ user_ptr[n] = queue[n]
        /\ tmo_buf[n] # None => n \in handles /\ hdr[tmo_buf[n]].user_ptr = queue[n]

\* What the callback knows at each step of its scan.
ScanInv ==
    /\ ~itimer_running => scan = NoScan
    /\ scan.at # "next" => scan.i \in Timers
    /\ scan.buf # None <=> scan.at = "post"
    /\ scan.tick <= cur_tick
    /\ scan.at = "post" => scan.exp <= scan.tick

\* A buffer is not in two places.
UniqInv ==
    \A b \in Bufs :
        /\ b \in mine => scan.buf # b
        /\ \A t \in Threads : arg[t].buf = b =>
              b \notin mine /\ scan.buf # b /\ \A u \in Threads : arg[u].buf = b => u = t
        /\ \A n \in Timers : tmo_buf[n] = b =>
              /\ b \notin mine /\ scan.buf # b
              /\ \A t \in Threads : arg[t].buf # b
              /\ \A m \in Timers : tmo_buf[m] = b => m = n
        /\ \A q \in Queues : b \in delivered[q] =>
              /\ b \notin mine /\ scan.buf # b
              /\ \A t \in Threads : arg[t].buf # b
              /\ \A n \in Timers : tmo_buf[n] # b
              /\ \A r \in Queues : b \in delivered[r] => r = q

\* A buffer is somewhere.
FoundInv ==
    \A b \in Bufs :
        \/ b \in mine
        \/ \E t \in Threads : arg[t].buf = b
        \/ \E n \in Timers : tmo_buf[n] = b
        \/ scan.buf = b
        \/ \E q \in Queues : b \in delivered[q]

\* A timeout under way belongs to a timer the application has.
PostInv ==
    scan.at = "post" =>
        scan.i \in handles /\ hdr[scan.buf].user_ptr = queue[scan.i]

\* The free list is a chain through the timers that are not out.
Chain(f, K) ==
    /\ f \in [0 .. K -> 0 .. NumTimers]
    /\ f[0] = first_free /\ f[K] = NumTimers
    /\ \A k \in 0 .. K - 1 : f[k] \in Timers \ Out /\ queue[f[k]] = f[k + 1]
    /\ \A n \in Timers \ Out : \E k \in 0 .. K - 1 : f[k] = n
    /\ \A j, k \in 0 .. K - 1 : f[j] = f[k] => j = k

FreeInv == \E f : Chain(f, NumTimers - num_alloc)

CountInv == num_alloc = Cardinality(Out)

IInv ==
    /\ TypeOK /\ ActiveHasBuffer /\ CallInv /\ TimerInv /\ ScanInv /\ UniqInv
    /\ FreeInv /\ CountInv
    /\ ~Hasty => PostInv /\ FoundInv /\ RightTimeout

-----------------------------------------------------------------------------
(* Frames, and the calls of the application *)

\* No tick an application can ask for looks like the mark of an inactive timer.
LEMMA TimerTicks ==
    /\ TMO_INACTIVE \in Nat /\ TMO_UNUSED \in Nat
    /\ MaxTick + MaxRel < TMO_INACTIVE /\ TMO_INACTIVE <= TMO_UNUSED
    /\ \A x \in 0 .. TMO_INACTIVE - 1 :
          Inactive(x) \in 0 .. TMO_UNUSED /\ Inactive(x) >= TMO_INACTIVE
  BY TimerAssumption DEF TMO_INACTIVE, TMO_UNUSED, Inactive

\* The indices of timers, and the end of the free list.
LEMMA TimersRange == Timers \subseteq 0 .. NumTimers /\ 0 \in 0 .. NumTimers
  BY TimerAssumption DEF Timers

\* The chain and the timers it leaves out stay while nothing they depend on changes.
LEMMA FreeFrame ==
    ASSUME IInv, UNCHANGED <<num_alloc, first_free>>, Out' = Out,
           \A n \in Timers \ Out : queue'[n] = queue[n]
    PROVE  FreeInv' /\ CountInv'
<1>1. PICK f : Chain(f, NumTimers - num_alloc)
  BY Zenon DEF IInv, FreeInv
<1>2. Chain(f, NumTimers - num_alloc)'
  BY Zenon, <1>1 DEF Chain
<1> QED
  BY Zenon, <1>2 DEF IInv, FreeInv, CountInv

\* The buffers of UniqInv and FoundInv.
LEMMA PlaceFrame ==
    ASSUME UniqInv, UNCHANGED <<mine, tmo_buf, delivered>>, scan'.buf = scan.buf,
           \A t \in Threads : arg'[t].buf = arg[t].buf
    PROVE  UniqInv' /\ (FoundInv => FoundInv')
  BY DEF UniqInv, FoundInv

\* timer_alloc takes the first timer of the free list.
LEMMA TimerAllocStep ==
    ASSUME IInv, NEW t \in Threads, NEW q \in Queues, TimerAlloc(t, q), CountInv'
    PROVE  IInv'
<1> DEFINE n == first_free
<1>0. PICK K, f : K = NumTimers - num_alloc /\ Chain(f, K)
  BY Zenon DEF IInv, FreeInv
<1>1. n \in Timers \ Out /\ queue[n] = f[1] /\ K \in 1 .. NumTimers
  <2>1. num_alloc \in 0 .. NumTimers /\ num_alloc < NumTimers
    BY Zenon DEF TimerAlloc, IInv, TypeOK, PoolTypes
  <2>2. K \in 1 .. NumTimers /\ 0 \in 0 .. K - 1 /\ 0 + 1 = 1
    BY <1>0, <2>1, TimerAssumption
  <2>3. f[0] \in Timers \ Out /\ queue[f[0]] = f[0 + 1] /\ f[0] = n
    BY Zenon, <1>0, <2>2 DEF Chain
  <2> QED
    BY Zenon, <2>2, <2>3
<1>2. n \notin handles /\ tmo_buf[n] = None /\ (\A u \in Threads : Freeing(u) => arg[u].idx # n)
  <2>1. n \notin handles /\ (\A u \in Threads : Freeing(u) => arg[u].idx # n)
    BY Zenon, <1>1 DEF Out
  <2> QED
    BY Zenon, <1>1, <2>1 DEF IInv, TimerInv
<1>3. /\ queue' = [queue EXCEPT ![n] = q] /\ user_ptr' = [user_ptr EXCEPT ![n] = q]
      /\ exp_tck' = [exp_tck EXCEPT ![n] = TMO_INACTIVE]
      /\ handles' = handles \cup {n} /\ num_alloc' = num_alloc + 1
      /\ first_free' = queue[n] /\ high_wm' = HighWm(num_alloc + 1)
      /\ UNCHANGED <<cur_tick, itimer_running, scan, hdr, delivered, mine, live, pc, arg>>
  BY Zenon DEF TimerAlloc, tickVars, tmoVars
<1>4. tmo_buf' = tmo_buf
  BY Zenon, <1>2 DEF TimerAlloc, IInv, TypeOK, TimerTypes
<1>5. TypeOK'
  <2>1. queue[n] \in 0 .. NumTimers /\ num_alloc + 1 \in 0 .. NumTimers
    <3>1. f[1] \in 0 .. NumTimers
      BY <1>0, <1>1 DEF Chain
    <3> QED
      BY <1>0, <1>1, <3>1, TimerAssumption DEF IInv, TypeOK, PoolTypes
  <2>2. HighWm(num_alloc + 1) \in 0 .. NumTimers
    BY Zenon, <2>1 DEF HighWm, IInv, TypeOK, PoolTypes
  <2> QED
    BY <1>1, <1>3, <1>4, <2>1, <2>2, TimerTicks
       DEF IInv, TypeOK, TimerTypes, PoolTypes, TickTypes, TmoTypes, CallTypes
<1>6. ActiveHasBuffer'
  BY <1>2, <1>3, <1>4, TimerTicks DEF IInv, ActiveHasBuffer
<1>7. CallInv'
  BY <1>2, <1>3 DEF IInv, CallInv, Freeing
<1>8. TimerInv'
  BY Zenon, <1>2, <1>3, <1>4 DEF IInv, TypeOK, TimerInv, TimerTypes
<1>9. ScanInv'
  BY Zenon, <1>3 DEF IInv, ScanInv
<1>10. UniqInv' /\ (FoundInv => FoundInv')
  BY Zenon, <1>3, <1>4, PlaceFrame DEF IInv
<1>11. ~Hasty => PostInv' /\ RightTimeout'
  BY Zenon, <1>2, <1>3 DEF IInv, TypeOK, PostInv, RightTimeout, TimerTypes, CallTypes
<1>12. Out' = Out \cup {n}
  BY Zenon, <1>3 DEF Out, Freeing
<1>13. FreeInv'
  <2> DEFINE g == [k \in 0 .. K - 1 |-> f[k + 1]]
  <2>1. g \in [0 .. K - 1 -> 0 .. NumTimers] /\ g[0] = f[1] /\ g[K - 1] = NumTimers
    BY <1>0, <1>1 DEF Chain
  <2>2. \A k \in 0 .. K - 2 : g[k] = f[k + 1] /\ g[k + 1] = f[k + 2] /\ f[k + 1] # n
    BY <1>0 DEF Chain
  <2>3. \A k \in 0 .. K - 2 : g[k] \in Timers \ Out' /\ queue'[g[k]] = g[k + 1]
    <3> SUFFICES ASSUME NEW k \in 0 .. K - 2
                 PROVE  g[k] \in Timers \ Out' /\ queue'[g[k]] = g[k + 1]
      BY Zenon
    <3>1. k + 1 \in 0 .. K - 1 /\ (k + 1) + 1 = k + 2
      BY <1>1
    <3>2. f[k + 1] \in Timers \ Out /\ queue[f[k + 1]] = f[k + 2]
      BY Zenon, <1>0, <3>1 DEF Chain
    <3>3. queue'[f[k + 1]] = queue[f[k + 1]]
      BY Zenon, <1>3, <2>2, <3>2 DEF IInv, TypeOK, TimerTypes
    <3>4. g[k] = f[k + 1] /\ g[k + 1] = f[k + 2] /\ f[k + 1] # n
      BY Zenon, <2>2
    <3> HIDE DEF g
    <3> QED
      BY Zenon, <1>12, <3>2, <3>3, <3>4
  <2>4. ASSUME NEW m \in Timers \ Out' PROVE \E k \in 0 .. K - 2 : g[k] = m
    <3>1. PICK k \in 0 .. K - 1 : f[k] = m
      BY Zenon, <1>0, <1>12 DEF Chain
    <3>2. k # 0
      BY Zenon, <1>0, <1>12, <3>1 DEF Chain
    <3>3. k - 1 \in 0 .. K - 2 /\ (k - 1) + 1 = k
      BY <1>1, <3>2
    <3>4. g[k - 1] = f[k]
      BY <1>1, <3>3
    <3> QED
      BY Zenon, <3>1, <3>3, <3>4
  <2>5. \A j, k \in 0 .. K - 2 : g[j] = g[k] => j = k
    BY <1>0, <1>1 DEF Chain
  <2>6. Chain(g, K - 1)'
    <3> HIDE DEF g
    <3>1. (K - 1) - 1 = K - 2
      BY <1>1
    <3>2. g[0] = first_free'
      BY Zenon, <1>1, <1>3, <2>1
    <3> QED
      BY Zenon, <2>1, <2>3, <2>4, <2>5, <3>1, <3>2 DEF Chain
  <2>7. K - 1 = NumTimers - num_alloc'
    BY <1>0, <1>3, TimerAssumption DEF IInv, TypeOK, PoolTypes
  <2> HIDE DEF g
  <2> QED
    BY Zenon, <2>6, <2>7 DEF FreeInv
<1> QED
  BY Zenon, <1>5, <1>6, <1>7, <1>8, <1>9, <1>10, <1>11, <1>13 DEF IInv

\* A set call takes the buffer of the application and fills in its header.
LEMMA SetBeginStep ==
    ASSUME IInv, NEW t \in Threads, NEW n \in Timers, NEW abs \in 0 .. MaxTick + MaxRel,
           NEW b \in Bufs \cup {None}, SetBegin(t, n, abs, b)
    PROVE  IInv'
<1> DEFINE c == [idx |-> n, tick |-> abs, buf |-> b]
<1>1. /\ pc[t] = "idle" /\ n \in handles /\ b \in mine \cup {None}
      /\ hdr' = (IF b = None THEN hdr ELSE Filled(b, n))
      /\ mine' = mine \ {b}
      /\ pc' = [pc EXCEPT ![t] = "set"] /\ arg' = [arg EXCEPT ![t] = c]
      /\ UNCHANGED <<queue, user_ptr, exp_tck, tmo_buf, first_free, num_alloc, high_wm,
                     live, cur_tick, itimer_running, scan, delivered, handles>>
  BY Zenon DEF SetBegin, timerVars, poolVars, tickVars
<1>2. c \in Call /\ c.idx = n /\ c.buf = b
  BY Zenon, TimersRange DEF Call
<1> HIDE DEF c
<1>3. /\ pc'[t] = "set" /\ arg'[t] = c /\ arg[t].buf = None
      /\ \A u \in Threads : u # t => pc'[u] = pc[u] /\ arg'[u] = arg[u]
  BY Zenon, <1>1 DEF IInv, TypeOK, CallInv, CallTypes
<1>4. /\ queue[n] \in Queues /\ user_ptr[n] = queue[n]
      /\ b # None => b \in mine /\ b \in Bufs
  BY Zenon, <1>1 DEF IInv, TimerInv
<1>5. /\ hdr' \in [Bufs -> Header]
      /\ \A x \in Bufs : x # b => hdr'[x] = hdr[x]
      /\ b # None => hdr'[b].user_ptr = queue[n]
  <2>1. CASE b = None
    BY Zenon, <1>1, <2>1 DEF IInv, TypeOK, TmoTypes
  <2>2. CASE b # None
    <3>1. hdr' = [hdr EXCEPT ![b] = [hdr[b] EXCEPT !.user_ptr = user_ptr[n]]]
      BY Zenon, <1>1, <2>2 DEF Filled
    <3> QED
      BY Zenon, <1>4, <3>1 DEF IInv, TypeOK, TmoTypes, Header
  <2> QED
    BY Zenon, <2>1, <2>2
<1>6. TypeOK'
  BY Zenon, <1>1, <1>2, <1>5
     DEF IInv, TypeOK, TimerTypes, PoolTypes, TickTypes, TmoTypes, CallTypes
<1>7. ActiveHasBuffer' /\ ScanInv'
  BY Zenon, <1>1 DEF IInv, ActiveHasBuffer, ScanInv
<1>8. CallInv'
  <2>1. ASSUME NEW u \in Threads, u # t, arg[u].buf # None PROVE hdr'[arg[u].buf] = hdr[arg[u].buf]
    BY Zenon, <1>4, <1>5, <2>1 DEF IInv, TypeOK, Call, UniqInv, CallTypes
  <2> QED
    BY <1>1, <1>2, <1>3, <1>5, <2>1 DEF IInv, CallInv, Freeing
<1>9. TimerInv'
  <2>1. ASSUME NEW m \in Timers, tmo_buf[m] # None PROVE hdr'[tmo_buf[m]] = hdr[tmo_buf[m]]
    BY <1>4, <1>5, <2>1 DEF IInv, TypeOK, UniqInv, TimerTypes
  <2> QED
    BY Zenon, <1>1, <2>1 DEF IInv, TimerInv
<1>10. UniqInv' /\ (FoundInv => FoundInv')
  BY <1>1, <1>2, <1>3, TimerAssumption DEF IInv, UniqInv, FoundInv
<1>11. ~Hasty => PostInv' /\ RightTimeout'
  <2>1. scan.at = "post" => scan.buf \in Bufs /\ hdr'[scan.buf] = hdr[scan.buf]
    BY Zenon, <1>4, <1>5 DEF IInv, TypeOK, ScanInv, UniqInv, TickTypes, ScanState
  <2>2. ASSUME NEW q \in Queues, NEW x \in delivered[q] PROVE hdr'[x] = hdr[x]
    BY <1>4, <1>5, TimerAssumption DEF IInv, TypeOK, UniqInv, TmoTypes
  <2> QED
    BY <1>1, <2>1, <2>2 DEF IInv, PostInv, RightTimeout
<1>12. Out' = Out
  BY <1>1 DEF Out, Freeing
<1>13. FreeInv' /\ CountInv'
  BY Zenon, <1>1, <1>12, FreeFrame
<1> QED
  BY Zenon, <1>6, <1>7, <1>8, <1>9, <1>10, <1>11, <1>13 DEF IInv

\* The application gets buffers back: the headers of the others stay.
LEMMA RegainLemma ==
    ASSUME TypeOK, NEW B \in SUBSET Bufs, Regain(B)
    PROVE  /\ mine' = mine \cup B /\ mine' \in SUBSET Bufs
           /\ hdr' \in [Bufs -> Header]
           /\ \A x \in Bufs \ B : hdr'[x] = hdr[x]
<1>1. NoHdr \in Header
  BY TimerTicks DEF NoHdr, Header
<1> QED
  BY Zenon, <1>1 DEF TypeOK, Regain, TmoTypes

\* timer_reset stores the tick and the new buffer, and gives the former one back.
LEMMA TimerResetStep ==
    ASSUME IInv, NEW t \in Threads, TimerReset(t)
    PROVE  IInv'
<1> DEFINE n == arg[t].idx
           b == arg[t].buf
           B == IF b = None THEN {} ELSE {tmo_buf[n]} \ {None}
<1>1. /\ pc[t] = "set"
      /\ exp_tck' = (IF Resettable(n, b) THEN [exp_tck EXCEPT ![n] = arg[t].tick] ELSE exp_tck)
      /\ tmo_buf' = (IF b = None THEN tmo_buf ELSE [tmo_buf EXCEPT ![n] = b])
      /\ Regain(B)
      /\ pc' = [pc EXCEPT ![t] = "idle"] /\ arg' = [arg EXCEPT ![t] = NoCall]
      /\ UNCHANGED <<queue, user_ptr, first_free, num_alloc, high_wm,
                     live, cur_tick, itimer_running, scan, delivered, handles>>
  BY Zenon DEF TimerReset, poolVars, tickVars
<1>2. /\ n \in handles /\ n \in Timers /\ b \in Bufs \cup {None}
      /\ arg[t].tick \in 0 .. MaxTick + MaxRel /\ tmo_buf[n] \in Bufs \cup {None}
  BY Zenon, <1>1 DEF IInv, TypeOK, CallInv, Call, TimerTypes, CallTypes
<1>3. B \in SUBSET Bufs
  BY Zenon, <1>2
<1>4. /\ mine' = mine \cup B /\ mine' \in SUBSET Bufs
      /\ hdr' \in [Bufs -> Header]
      /\ \A x \in Bufs \ B : hdr'[x] = hdr[x]
  BY Zenon, <1>1, <1>3, RegainLemma DEF IInv
<1>5. /\ NoCall \in Call /\ NoCall.buf = None
  BY TimerAssumption DEF NoCall, Call
<1>6. /\ pc'[t] = "idle" /\ arg'[t] = NoCall
      /\ \A u \in Threads : u # t => pc'[u] = pc[u] /\ arg'[u] = arg[u]
  BY Zenon, <1>1 DEF IInv, TypeOK, CallTypes
<1>7. /\ \A m \in Timers : m # n => tmo_buf'[m] = tmo_buf[m] /\ exp_tck'[m] = exp_tck[m]
      /\ b # None => tmo_buf'[n] = b /\ exp_tck'[n] = arg[t].tick
      /\ b = None => /\ tmo_buf' = tmo_buf
                     /\ tmo_buf[n] # None => exp_tck'[n] = arg[t].tick
                     /\ tmo_buf[n] = None => exp_tck'[n] = exp_tck[n]
  BY Zenon, <1>1, <1>2 DEF IInv, TypeOK, Resettable, TimerTypes
<1>8. TypeOK'
  <2>1. arg[t].tick \in 0 .. TMO_UNUSED
    BY <1>2, TimerTicks, TimerAssumption
  <2>2. /\ exp_tck' \in [Timers -> 0 .. TMO_UNUSED]
        /\ tmo_buf' \in [Timers -> Bufs \cup {None}]
    BY Zenon, <1>1, <1>2, <2>1 DEF IInv, TypeOK, TimerTypes
  <2>3. pc' \in [Threads -> {"idle", "set", "fini", "insert"}] /\ arg' \in [Threads -> Call]
    BY Zenon, <1>1, <1>5 DEF IInv, TypeOK, CallTypes
  <2> QED
    BY Zenon, <1>1, <1>4, <2>2, <2>3
       DEF IInv, TypeOK, TimerTypes, PoolTypes, TickTypes, TmoTypes, CallTypes
<1>9. ActiveHasBuffer'
  <2>1. arg[t].tick < TMO_INACTIVE
    BY <1>2, TimerTicks, TimerAssumption
  <2> QED
    BY Zenon, <1>7, <2>1 DEF IInv, ActiveHasBuffer
<1>10. ScanInv'
  BY Zenon, <1>1 DEF IInv, ScanInv
<1> HIDE DEF n, b
<1>11. ASSUME NEW x \in Bufs, x \in B PROVE tmo_buf[n] = x /\ b # None
  BY Zenon, <1>11
<1> HIDE DEF B
<1>12. CallInv'
  <2>1. ASSUME NEW u \in Threads, u # t, arg[u].buf # None PROVE hdr'[arg[u].buf] = hdr[arg[u].buf]
    BY <1>2, <1>4, <1>11, <2>1 DEF IInv, TypeOK, Call, UniqInv, CallTypes
  <2> QED
    BY <1>1, <1>5, <1>6, <2>1 DEF IInv, CallInv, Freeing
<1>13. TimerInv'
  <2>1. ASSUME NEW m \in Timers, m # n, tmo_buf[m] # None
        PROVE  hdr'[tmo_buf[m]] = hdr[tmo_buf[m]]
    BY <1>2, <1>4, <1>11, <2>1 DEF IInv, TypeOK, UniqInv, TimerTypes
  <2>2. ASSUME b # None PROVE hdr'[b].user_ptr = queue[n]
    BY <1>2, <1>4, <1>11, <2>2 DEF IInv, UniqInv, CallInv, n, b
  <2>3. ASSUME b = None, tmo_buf[n] # None PROVE hdr'[tmo_buf[n]] = hdr[tmo_buf[n]]
    BY Zenon, <1>2, <1>4, <1>11, <2>3
  <2> QED
    BY <1>1, <1>2, <1>7, <2>1, <2>2, <2>3 DEF IInv, TimerInv
<1>14. UniqInv' /\ (FoundInv => FoundInv')
  <2>1. CASE b = None
    <3>1. B = {}
      BY Zenon, <2>1, <1>3, <1>11
    <3>2. mine' = mine
      BY Zenon, <1>4, <3>1
    <3>3. \A u \in Threads : arg'[u].buf = arg[u].buf
      BY Zenon, <1>5, <1>6, <2>1 DEF b
    <3> QED
      BY Zenon, <1>1, <2>1, <3>2, <3>3, PlaceFrame DEF IInv
  <2>2. CASE b # None
    <3>1. \A x \in Bufs : x \in mine' <=> x \in mine \/ x = tmo_buf[n]
      BY Zenon, <1>4, <2>2, TimerAssumption DEF B
    <3>2. \A u \in Threads : u # t => arg[u].buf # b
      BY Zenon, <1>2, <2>2 DEF IInv, UniqInv, b
    <3>3. \A m \in Timers : tmo_buf[m] # b
      BY Zenon, <1>2, <2>2 DEF IInv, UniqInv, b
    <3>4. b \in Bufs /\ b \notin mine /\ scan.buf # b /\ \A q \in Queues : b \notin delivered[q]
      BY Zenon, <1>2, <2>2 DEF IInv, UniqInv, b
    <3>5. UniqInv'
      BY <1>1, <1>2, <1>5, <1>6, <1>7, <3>1, <3>2, <3>3, <3>4, TimerAssumption DEF IInv, UniqInv
    <3>6. ASSUME FoundInv PROVE FoundInv'
      BY <1>1, <1>2, <1>7, <2>2, <3>1, <3>6 DEF FoundInv, b
    <3> QED
      BY Zenon, <3>5, <3>6
  <2> QED
    BY Zenon, <2>1, <2>2
<1>15. ~Hasty => PostInv' /\ RightTimeout'
  <2>1. scan.at = "post" => hdr'[scan.buf] = hdr[scan.buf]
    BY Zenon, <1>2, <1>4, <1>11 DEF IInv, TypeOK, ScanInv, UniqInv, TickTypes, ScanState
  <2>2. ASSUME NEW q \in Queues, NEW x \in delivered[q] PROVE hdr'[x] = hdr[x]
    BY <1>2, <1>4, <1>11 DEF IInv, TypeOK, UniqInv, TmoTypes
  <2> QED
    BY <1>1, <2>1, <2>2 DEF IInv, PostInv, RightTimeout
<1>16. Out' = Out
  BY Zenon, <1>1, <1>6 DEF Out, Freeing
<1>17. FreeInv' /\ CountInv'
  BY Zenon, <1>1, <1>16, FreeFrame
<1> QED
  BY Zenon, <1>8, <1>9, <1>10, <1>12, <1>13, <1>14, <1>15, <1>17 DEF IInv

\* timer_cancel gives the buffer of the timer, if it has one, back.
LEMMA TimerCancelLemma ==
    ASSUME IInv, NEW n \in handles, NEW new_state \in {TMO_INACTIVE, TMO_UNUSED},
           TimerCancel(n, new_state),
           UNCHANGED <<queue, cur_tick, scan, delivered>>,
           \A t \in Threads : arg'[t].buf = arg[t].buf
    PROVE  /\ exp_tck' \in [Timers -> 0 .. TMO_UNUSED]
           /\ tmo_buf' \in [Timers -> Bufs \cup {None}]
           /\ mine' \in SUBSET Bufs
           /\ hdr' \in [Bufs -> Header]
           /\ ActiveHasBuffer' /\ UniqInv' /\ (FoundInv => FoundInv')
           /\ tmo_buf'[n] = None
           /\ \A m \in Timers : tmo_buf'[m] # None =>
                 tmo_buf'[m] = tmo_buf[m] /\ hdr'[tmo_buf[m]] = hdr[tmo_buf[m]]
           /\ \A t \in Threads : arg[t].buf # None => hdr'[arg[t].buf] = hdr[arg[t].buf]
           /\ scan.at = "post" => hdr'[scan.buf] = hdr[scan.buf]
           /\ RightTimeout => RightTimeout'
<1> DEFINE B == {tmo_buf[n]} \ {None}
<1>1. /\ exp_tck' = [exp_tck EXCEPT ![n] = new_state] /\ tmo_buf' = [tmo_buf EXCEPT ![n] = None]
      /\ Regain(B)
  BY Zenon DEF TimerCancel
<1>2. n \in Timers /\ B \in SUBSET Bufs
  BY Zenon DEF IInv, TypeOK, TimerTypes, CallTypes
<1>3. /\ mine' = mine \cup B /\ mine' \in SUBSET Bufs
      /\ hdr' \in [Bufs -> Header]
      /\ \A x \in Bufs \ B : hdr'[x] = hdr[x]
  BY Zenon, <1>1, <1>2, RegainLemma DEF IInv
<1>4. /\ tmo_buf'[n] = None /\ exp_tck'[n] = new_state
      /\ \A m \in Timers : m # n => tmo_buf'[m] = tmo_buf[m] /\ exp_tck'[m] = exp_tck[m]
  BY Zenon, <1>1, <1>2 DEF IInv, TypeOK, TimerTypes
<1>5. \A x \in Bufs : x \in B <=> x = tmo_buf[n]
  BY Zenon, TimerAssumption
<1>6. exp_tck' \in [Timers -> 0 .. TMO_UNUSED] /\ tmo_buf' \in [Timers -> Bufs \cup {None}]
  BY <1>1, <1>2, TimerTicks DEF IInv, TypeOK, TimerTypes
<1>7. ActiveHasBuffer'
  <2>1. ~(new_state < TMO_INACTIVE)
    BY TimerTicks
  <2> QED
    BY Zenon, <1>4, <2>1 DEF IInv, ActiveHasBuffer
<1> HIDE DEF B
<1>8. UniqInv'
  BY <1>2, <1>3, <1>4, <1>5, TimerAssumption DEF IInv, UniqInv
<1>9. FoundInv => FoundInv'
  BY <1>3, <1>4, <1>5 DEF FoundInv
<1>10. \A m \in Timers : tmo_buf'[m] # None =>
          tmo_buf'[m] = tmo_buf[m] /\ hdr'[tmo_buf[m]] = hdr[tmo_buf[m]]
  BY <1>2, <1>3, <1>4, <1>5 DEF IInv, TypeOK, UniqInv, TimerTypes
<1>11. \A t \in Threads : arg[t].buf # None => hdr'[arg[t].buf] = hdr[arg[t].buf]
  BY <1>3, <1>5 DEF IInv, TypeOK, Call, UniqInv, CallTypes
<1>12. scan.at = "post" => hdr'[scan.buf] = hdr[scan.buf]
  BY Zenon, <1>2, <1>3, <1>5 DEF IInv, TypeOK, ScanInv, UniqInv, TickTypes, ScanState
<1>13. RightTimeout => RightTimeout'
  <2>1. ASSUME NEW q \in Queues, NEW x \in delivered[q] PROVE hdr'[x] = hdr[x]
    BY Zenon, <1>2, <1>3, <1>5 DEF IInv, TypeOK, UniqInv, TmoTypes
  <2> QED
    BY Zenon, <2>1 DEF RightTimeout
<1> QED
  BY Zenon, <1>3, <1>4, <1>6, <1>7, <1>8, <1>9, <1>10, <1>11, <1>12, <1>13

\* odp_timer_cancel.
LEMMA CancelStep ==
    ASSUME IInv, NEW t \in Threads, NEW n \in Timers, Cancel(t, n)
    PROVE  IInv'
<1>1. /\ n \in handles /\ TimerCancel(n, TMO_INACTIVE)
      /\ UNCHANGED <<queue, user_ptr, first_free, num_alloc, high_wm, live,
                     cur_tick, itimer_running, scan, delivered, handles, pc, arg>>
  BY Zenon DEF Cancel, poolVars, tickVars
<1>2. /\ exp_tck' \in [Timers -> 0 .. TMO_UNUSED]
      /\ tmo_buf' \in [Timers -> Bufs \cup {None}]
      /\ mine' \in SUBSET Bufs
      /\ hdr' \in [Bufs -> Header]
      /\ ActiveHasBuffer' /\ UniqInv' /\ (FoundInv => FoundInv')
      /\ \A m \in Timers : tmo_buf'[m] # None =>
            tmo_buf'[m] = tmo_buf[m] /\ hdr'[tmo_buf[m]] = hdr[tmo_buf[m]]
      /\ \A u \in Threads : arg[u].buf # None => hdr'[arg[u].buf] = hdr[arg[u].buf]
      /\ scan.at = "post" => hdr'[scan.buf] = hdr[scan.buf]
      /\ RightTimeout => RightTimeout'
  BY Zenon, <1>1, TimerCancelLemma
<1>3. TypeOK'
  BY Zenon, <1>1, <1>2 DEF IInv, TypeOK, TimerTypes, PoolTypes, TickTypes, TmoTypes, CallTypes
<1>4. CallInv' /\ TimerInv'
  BY <1>1, <1>2 DEF IInv, CallInv, TimerInv, Freeing
<1>5. ScanInv' /\ (PostInv => PostInv')
  BY Zenon, <1>1, <1>2 DEF IInv, ScanInv, PostInv
<1>6. FreeInv' /\ CountInv'
  <2>1. Out' = Out
    BY Zenon, <1>1 DEF Out, Freeing
  <2> QED
    BY Zenon, <1>1, <2>1, FreeFrame
<1> QED
  BY Zenon, <1>2, <1>3, <1>4, <1>5, <1>6 DEF IInv

\* timer_free cancels the timer, which only this thread has from then on.
LEMMA TimerFreeStep ==
    ASSUME IInv, NEW t \in Threads, NEW n \in Timers, TimerFree(t, n)
    PROVE  IInv'
<1> DEFINE c == [NoCall EXCEPT !.idx = n]
<1>1. /\ pc[t] = "idle" /\ n \in handles /\ ~Busy(n) /\ TimerCancel(n, TMO_UNUSED)
      /\ Hasty \/ ~(scan.at = "post" /\ scan.i = n)
      /\ handles' = handles \ {n}
      /\ pc' = [pc EXCEPT ![t] = "fini"] /\ arg' = [arg EXCEPT ![t] = c]
      /\ UNCHANGED <<queue, user_ptr, first_free, num_alloc, high_wm, live,
                     cur_tick, itimer_running, scan, delivered>>
  BY Zenon DEF TimerFree, poolVars, tickVars
<1>2. c \in Call /\ c.idx = n /\ c.buf = None
  BY TimersRange, TimerAssumption DEF NoCall, Call
<1> HIDE DEF c
<1>3. /\ pc'[t] = "fini" /\ arg'[t] = c /\ arg[t].buf = None
      /\ \A u \in Threads : u # t => pc'[u] = pc[u] /\ arg'[u] = arg[u]
  BY Zenon, <1>1 DEF IInv, TypeOK, CallInv, CallTypes
<1>4. \A u \in Threads : pc[u] # "idle" => arg[u].idx # n
  BY Zenon, <1>1 DEF Busy
<1>5. \A u \in Threads : arg'[u].buf = arg[u].buf
  BY Zenon, <1>2, <1>3
<1>6. /\ exp_tck' \in [Timers -> 0 .. TMO_UNUSED]
      /\ tmo_buf' \in [Timers -> Bufs \cup {None}]
      /\ mine' \in SUBSET Bufs
      /\ hdr' \in [Bufs -> Header]
      /\ ActiveHasBuffer' /\ UniqInv' /\ (FoundInv => FoundInv')
      /\ tmo_buf'[n] = None
      /\ \A m \in Timers : tmo_buf'[m] # None =>
            tmo_buf'[m] = tmo_buf[m] /\ hdr'[tmo_buf[m]] = hdr[tmo_buf[m]]
      /\ \A u \in Threads : arg[u].buf # None => hdr'[arg[u].buf] = hdr[arg[u].buf]
      /\ scan.at = "post" => hdr'[scan.buf] = hdr[scan.buf]
      /\ RightTimeout => RightTimeout'
  BY Zenon, <1>1, <1>5, TimerCancelLemma
<1>7. TypeOK'
  BY Zenon, <1>1, <1>2, <1>6
     DEF IInv, TypeOK, TimerTypes, PoolTypes, TickTypes, TmoTypes, CallTypes
<1>8. CallInv'
  BY <1>1, <1>2, <1>3, <1>4, <1>6 DEF IInv, CallInv, Freeing
<1>9. TimerInv'
  BY <1>1, <1>6 DEF IInv, TimerInv
<1>10. ScanInv' /\ (~Hasty /\ PostInv => PostInv')
  BY Zenon, <1>1, <1>6 DEF IInv, ScanInv, PostInv
<1>11. FreeInv' /\ CountInv'
  <2>1. Out' = Out
    BY <1>1, <1>2, <1>3 DEF Out, Freeing
  <2> QED
    BY Zenon, <1>1, <2>1, FreeFrame
<1> QED
  BY Zenon, <1>6, <1>7, <1>8, <1>9, <1>10, <1>11 DEF IInv

\* timer_fini writes to a timer that nobody else has.
LEMMA TimerFiniStep ==
    ASSUME IInv, NEW t \in Threads, TimerFini(t)
    PROVE  IInv'
<1> DEFINE n == arg[t].idx
<1>1. /\ pc[t] = "fini" /\ queue' = [queue EXCEPT ![n] = None]
      /\ user_ptr' = [user_ptr EXCEPT ![n] = None] /\ pc' = [pc EXCEPT ![t] = "insert"]
      /\ UNCHANGED <<exp_tck, tmo_buf, first_free, num_alloc, high_wm, live, cur_tick,
                     itimer_running, scan, hdr, delivered, mine, handles, arg>>
  BY Zenon DEF TimerFini, poolVars, tickVars, tmoVars
<1>2. n \in Timers \ handles /\ Freeing(t)
  BY Zenon, <1>1 DEF IInv, CallInv, Freeing
<1> HIDE DEF n
<1>3. \A u \in Threads : (Freeing(u)' <=> Freeing(u)) /\ (pc'[u] = "set" <=> pc[u] = "set")
  BY Zenon, <1>1 DEF IInv, TypeOK, Freeing, CallTypes
<1>4. \A m \in Timers : m # n => queue'[m] = queue[m] /\ user_ptr'[m] = user_ptr[m]
  BY Zenon, <1>1 DEF IInv, TypeOK, TimerTypes
<1>5. TypeOK'
  BY Zenon, <1>1 DEF IInv, TypeOK, TimerTypes, PoolTypes, TickTypes, TmoTypes, CallTypes
<1>6. ActiveHasBuffer' /\ ScanInv'
  BY Zenon, <1>1 DEF IInv, ActiveHasBuffer, ScanInv
<1>7. CallInv'
  <2>1. \A u \in Threads : arg[u].buf # None => queue'[arg[u].idx] = queue[arg[u].idx]
    BY <1>2, <1>4 DEF IInv, CallInv, TypeOK, CallTypes
  <2> QED
    BY Zenon, <1>1, <1>3, <2>1 DEF IInv, CallInv
<1>8. TimerInv'
  BY Zenon, <1>1, <1>2, <1>4 DEF IInv, TimerInv
<1>9. UniqInv' /\ (FoundInv => FoundInv')
  BY Zenon, <1>1, PlaceFrame DEF IInv
<1>10. ~Hasty => PostInv' /\ RightTimeout'
  BY Zenon, <1>1, <1>2 DEF IInv, TypeOK, PostInv, RightTimeout, TimerTypes, CallTypes
<1>11. FreeInv' /\ CountInv'
  <2>1. Out' = Out /\ n \in Out
    BY Zenon, <1>1, <1>2, <1>3 DEF Out, n
  <2> QED
    BY Zenon, <1>1, <1>4, <2>1, FreeFrame
<1> QED
  BY Zenon, <1>5, <1>6, <1>7, <1>8, <1>9, <1>10, <1>11 DEF IInv

\* timer_free puts the timer back as the first of the free list.
LEMMA TimerInsertStep ==
    ASSUME IInv, NEW t \in Threads, TimerInsert(t), num_alloc > 0, CountInv'
    PROVE  IInv'
<1>0. PICK K, f : K = NumTimers - num_alloc /\ Chain(f, K)
  BY Zenon DEF IInv, FreeInv
<1>n. PICK n : n = arg[t].idx
  OBVIOUS
<1>1. /\ pc[t] = "insert" /\ queue' = [queue EXCEPT ![n] = first_free] /\ first_free' = n
      /\ num_alloc' = num_alloc - 1
      /\ pc' = [pc EXCEPT ![t] = "idle"] /\ arg' = [arg EXCEPT ![t] = NoCall]
      /\ UNCHANGED <<user_ptr, exp_tck, tmo_buf, high_wm, live, cur_tick,
                     itimer_running, scan, hdr, delivered, mine, handles>>
  BY Zenon, <1>n DEF TimerInsert, tickVars, tmoVars
<1>2. n \in Timers \ handles /\ Freeing(t) /\ arg[t].buf = None
  BY Zenon, <1>n, <1>1 DEF IInv, CallInv, Freeing
<1>3. \A u \in Threads : u # t /\ Freeing(u) => arg[u].idx # n
  BY Zenon, <1>n, <1>2 DEF IInv, CallInv
<1>4. n \in Out
  BY Zenon, <1>n, <1>2 DEF Out
<1>5. NoCall \in Call /\ NoCall.buf = None
  BY TimerAssumption DEF NoCall, Call
<1>6. /\ pc'[t] = "idle" /\ arg'[t] = NoCall
      /\ \A u \in Threads : u # t => pc'[u] = pc[u] /\ arg'[u] = arg[u]
  BY Zenon, <1>1 DEF IInv, TypeOK, CallTypes
<1>7. \A m \in Timers : m # n => queue'[m] = queue[m]
  BY Zenon, <1>1 DEF IInv, TypeOK, TimerTypes
<1>8. Out' = Out \ {n}
  <2>1. \A u \in Threads : Freeing(u)' <=> Freeing(u) /\ u # t
    BY Zenon, <1>6 DEF Freeing
  <2> QED
    BY <1>n, <1>1, <1>2, <1>3, <2>1 DEF Out
<1>9. num_alloc \in 1 .. NumTimers
  BY DEF IInv, TypeOK, PoolTypes
<1>10. TypeOK'
  <2>1. first_free \in 0 .. NumTimers /\ n \in 0 .. NumTimers /\ num_alloc - 1 \in 0 .. NumTimers
    BY <1>2, TimersRange, TimerAssumption DEF IInv, TypeOK, PoolTypes
  <2>2. queue' \in [Timers -> Queues \cup {None} \cup 0 .. NumTimers]
    BY Zenon, <1>1, <2>1 DEF IInv, TypeOK, TimerTypes
  <2> QED
    BY Zenon, <1>1, <1>5, <2>1
       DEF IInv, TypeOK, TimerTypes, PoolTypes, TickTypes, TmoTypes, CallTypes
<1>11. ActiveHasBuffer' /\ ScanInv'
  BY Zenon, <1>1 DEF IInv, ActiveHasBuffer, ScanInv
<1>12. CallInv'
  <2>1. \A u \in Threads : arg[u].buf # None => queue'[arg[u].idx] = queue[arg[u].idx]
    BY <1>2, <1>7 DEF IInv, CallInv, TypeOK, CallTypes
  <2> QED
    BY <1>1, <1>5, <1>6, <2>1 DEF IInv, CallInv, Freeing
<1>13. TimerInv'
  BY Zenon, <1>1, <1>2, <1>7 DEF IInv, TimerInv
<1>14. UniqInv' /\ (FoundInv => FoundInv')
  <2>1. \A u \in Threads : arg'[u].buf = arg[u].buf
    BY Zenon, <1>2, <1>5, <1>6
  <2> QED
    BY Zenon, <1>1, <2>1, PlaceFrame DEF IInv
<1>15. ~Hasty => PostInv' /\ RightTimeout'
  BY Zenon, <1>1, <1>2 DEF IInv, TypeOK, PostInv, RightTimeout, TimerTypes, CallTypes
<1>16. FreeInv'
  <2> DEFINE g == [k \in 0 .. K + 1 |-> IF k = 0 THEN n ELSE f[k - 1]]
  <2>0. K \in 0 .. NumTimers /\ n \in 0 .. NumTimers
    <3>1. K = NumTimers - num_alloc /\ n \in Timers /\ NumTimers \in Nat
      BY Zenon, <1>0, <1>2, TimerAssumption
    <3> QED
      BY <1>9, <3>1, TimersRange
  <2>1. g \in [0 .. K + 1 -> 0 .. NumTimers] /\ g[0] = n /\ g[K + 1] = NumTimers
    <3>1. f \in [0 .. K -> 0 .. NumTimers] /\ f[K] = NumTimers
      BY Zenon, <1>0 DEF Chain
    <3> QED
      BY <2>0, <3>1
  <2>2. ASSUME NEW k \in 0 .. K PROVE g[k] \in Timers \ Out' /\ queue'[g[k]] = g[k + 1]
    <3>1. CASE k = 0
      <4>1. g[1] = first_free /\ g[0] = n
        BY <1>0 DEF Chain
      <4> HIDE DEF g
      <4> QED
        BY <1>1, <1>2, <1>8, <3>1, <4>1 DEF IInv, TypeOK, TimerTypes
    <3>2. CASE k # 0
      <4>1. k - 1 \in 0 .. K - 1 /\ (k - 1) + 1 = k /\ g[k] = f[k - 1] /\ g[k + 1] = f[k]
        BY <2>0, <3>2
      <4>2. f[k - 1] \in Timers \ Out /\ queue[f[k - 1]] = f[(k - 1) + 1]
        BY Zenon, <1>0, <4>1 DEF Chain
      <4> HIDE DEF g
      <4> QED
        BY Zenon, <1>4, <1>7, <1>8, <4>1, <4>2
    <3> QED
      BY Zenon, <3>1, <3>2
  <2>3. ASSUME NEW m \in Timers \ Out' PROVE \E k \in 0 .. K : g[k] = m
    <3>1. CASE m = n
      BY <2>0, <3>1
    <3>2. CASE m # n
      <4>1. PICK k \in 0 .. K - 1 : f[k] = m
        BY Zenon, <1>0, <1>8, <3>2 DEF Chain
      <4>2. k + 1 \in 0 .. K /\ g[k + 1] = f[k]
        BY <2>0
      <4> QED
        BY Zenon, <4>1, <4>2
    <3> QED
      BY Zenon, <3>1, <3>2
  <2>4. ASSUME NEW j \in 0 .. K, NEW k \in 0 .. K, g[j] = g[k] PROVE j = k
    <3>1. \A l \in 0 .. K - 1 : f[l] # n
      BY <1>0, <1>4 DEF Chain
    <3>2. \A l \in 0 .. K : (l = 0 => g[l] = n) /\ (l # 0 => l - 1 \in 0 .. K - 1 /\ g[l] = f[l - 1])
      BY <2>0
    <3> HIDE DEF g
    <3>3. CASE j = 0 \/ k = 0
      BY Zenon, <2>4, <3>1, <3>2, <3>3
    <3>4. CASE j # 0 /\ k # 0
      <4>1. j - 1 = k - 1
        BY <1>0, <2>4, <3>2, <3>4 DEF Chain
      <4> QED
        BY <4>1
    <3> QED
      BY Zenon, <3>3, <3>4
  <2> HIDE DEF g
  <2>5. Chain(g, K + 1)'
    <3>1. (K + 1) - 1 = K
      BY <2>0
    <3>2. g[0] = first_free'
      BY Zenon, <1>1, <2>1
    <3> QED
      BY Zenon, <2>1, <2>2, <2>3, <2>4, <3>1, <3>2 DEF Chain
  <2>6. K + 1 = NumTimers - num_alloc'
    BY <1>0, <1>1, <1>9, TimerAssumption
  <2> QED
    BY Zenon, <2>5, <2>6 DEF FreeInv
<1> QED
  BY Zenon, <1>10, <1>11, <1>12, <1>13, <1>14, <1>15, <1>16 DEF IInv

-----------------------------------------------------------------------------
(* The callback, and the application that receives *)

\* A step of the callback that moves no buffer, and the end of the pool.
LEMMA ScanFrame ==
    ASSUME IInv, UNCHANGED <<timerVars, first_free, num_alloc, high_wm, tmoVars, handles, pc, arg>>,
           cur_tick' \in 0 .. MaxTick, cur_tick <= cur_tick',
           live' \in BOOLEAN, itimer_running' \in BOOLEAN,
           scan' \in ScanState,
           ScanInv', scan'.buf = scan.buf,
           scan'.at = "post" => scan.at = "post" /\ scan'.i = scan.i
    PROVE  IInv'
<1> USE DEF timerVars, tmoVars
<1>1. TypeOK'
  BY Zenon DEF IInv, TypeOK, TimerTypes, PoolTypes, TickTypes, TmoTypes, CallTypes
<1>2. ActiveHasBuffer' /\ CallInv' /\ TimerInv'
  BY DEF IInv, ActiveHasBuffer, CallInv, TimerInv, Freeing
<1>3. UniqInv' /\ (FoundInv => FoundInv')
  BY Zenon, PlaceFrame DEF IInv
<1>4. ~Hasty => PostInv' /\ RightTimeout'
  <2>1. RightTimeout => RightTimeout'
    <3>1. \A b \in Bufs : hdr[b].expiration \in Int
      BY DEF IInv, TypeOK, TmoTypes, Header
    <3>2. cur_tick \in Int /\ cur_tick' \in Int
      BY DEF IInv, TypeOK, TickTypes
    <3> QED
      BY <3>1, <3>2 DEF RightTimeout, IInv, TypeOK, TmoTypes
  <2> QED
    BY Zenon, <2>1 DEF IInv, PostInv
<1>5. FreeInv' /\ CountInv'
  <2>1. Out' = Out
    BY Zenon DEF Out, Freeing
  <2> QED
    BY Zenon, <2>1, FreeFrame
<1> QED
  BY Zenon, <1>1, <1>2, <1>3, <1>4, <1>5 DEF IInv

\* A scan in the next position.
LEMMA ScanNextLemma ==
    ASSUME IInv, scan.i < NumTimers
    PROVE  /\ ScanNext \in ScanState
           /\ ScanNext.at = "next" /\ ScanNext.buf = None /\ ScanNext.tick = scan.tick
<1>1. scan.i + 1 \in 0 .. NumTimers /\ 0 \in 0 .. TMO_UNUSED
  BY TimerAssumption, TimerTicks DEF IInv, TypeOK, TickTypes, ScanState
<1> DEFINE a == [scan EXCEPT !.i = scan.i + 1]
           b == [a EXCEPT !.at = "next"]
           c == [b EXCEPT !.buf = None]
           R == ScanState
<1>2. a \in R /\ a.tick = scan.tick
  BY Zenon, <1>1 DEF IInv, TypeOK, TickTypes, ScanState
<1>3. b \in R /\ b.tick = scan.tick /\ b.at = "next"
  <2> HIDE DEF a
  <2> QED
    BY Zenon, <1>2 DEF ScanState
<1>4. c \in R /\ c.tick = scan.tick /\ c.at = "next" /\ c.buf = None
  <2> HIDE DEF b
  <2> QED
    BY Zenon, <1>3 DEF ScanState
<1>5. ScanNext = [c EXCEPT !.exp = 0]
  BY Zenon DEF ScanNext
<1> HIDE DEF c
<1> QED
  BY Zenon, <1>1, <1>4, <1>5 DEF ScanState

\* timer_notify, the unlocked test, the end of a scan and odp_timer_pool_destroy.
LEMMA ScanSteps ==
    ASSUME IInv,
           TimerNotify \/ ScanCheck \/ ScanEnd \/ \E t \in Threads : PoolDestroy(t)
    PROVE  IInv'
<1> USE DEF poolVars
<1>0. /\ scan \in ScanState
      /\ cur_tick \in 0 .. MaxTick /\ cur_tick \in Int /\ high_wm \in 0 .. NumTimers
      /\ live \in BOOLEAN /\ itimer_running \in BOOLEAN /\ ScanInv
  BY DEF IInv, TypeOK, PoolTypes, TickTypes
<1>1. NoScan \in ScanState
  BY TimerAssumption, TimerTicks DEF NoScan, ScanState
<1>2. CASE TimerNotify
  <2>1. cur_tick' \in 0 .. MaxTick /\ cur_tick <= cur_tick'
    BY <1>0, <1>2, TimerAssumption DEF TimerNotify
  <2>2. CASE itimer_running
    <3>1. UNCHANGED <<itimer_running, scan>>
      BY Zenon, <1>2, <2>2 DEF TimerNotify
    <3>2. ScanInv'
      BY <1>0, <2>1, <3>1 DEF ScanInv, ScanState
    <3> QED
      BY Zenon, <1>0, <1>2, <2>1, <3>1, <3>2, ScanFrame DEF TimerNotify
  <2>3. CASE ~itimer_running
    <3> DEFINE a == [NoScan EXCEPT !.tick = cur_tick]
               b == [a EXCEPT !.high_wm = high_wm]
               R == ScanState
    <3>1. a \in R /\ a.tick = cur_tick /\ a.at = "next" /\ a.buf = None
      BY Zenon, <1>0, <1>1 DEF NoScan, ScanState
    <3>2. b \in R /\ b.tick = cur_tick /\ b.at = "next" /\ b.buf = None
      <4> HIDE DEF a
      <4> QED
        BY Zenon, <1>0, <3>1 DEF ScanState
    <3>3. scan' = b /\ itimer_running' = TRUE
      BY Zenon, <1>2, <2>3 DEF TimerNotify
    <3> HIDE DEF b
    <3>4. ScanInv'
      BY Zenon, <2>1, <3>2, <3>3 DEF ScanInv
    <3>5. scan.buf = None
      BY <1>0, <2>3 DEF ScanInv, NoScan
    <3> QED
      BY Zenon, <1>2, <2>1, <3>2, <3>3, <3>4, <3>5, ScanFrame DEF TimerNotify
  <2> QED
    BY Zenon, <2>2, <2>3
<1>3. CASE ScanCheck
  <2>1. /\ scan.at = "next" /\ itimer_running /\ scan.i < NumTimers /\ scan.buf = None
        /\ scan.i \in Timers
    BY <1>0, <1>3, TimerAssumption DEF ScanCheck, Scanning, ScanMore, ScanInv, Timers, ScanState
  <2>2. CASE scan' = [scan EXCEPT !.at = "expire"]
    <3>1. ScanInv'
      BY Zenon, <1>0, <1>3, <2>1, <2>2 DEF ScanCheck, ScanInv, ScanState, Header
    <3> QED
      BY <1>0, <1>3, <2>2, <3>1, ScanFrame DEF ScanCheck, ScanState
  <2>3. CASE scan' = ScanNext
    <3>1. /\ scan' \in ScanState
          /\ scan'.at = "next" /\ scan'.buf = None /\ scan'.tick = scan.tick
      BY Zenon, <2>1, <2>3, ScanNextLemma
    <3>2. ScanInv'
      BY Zenon, <1>0, <1>3, <2>1, <3>1 DEF ScanCheck, ScanInv
    <3> QED
      BY <1>0, <1>3, <2>1, <3>1, <3>2, ScanFrame DEF ScanCheck
  <2> QED
    BY Zenon, <1>3, <2>2, <2>3 DEF ScanCheck
<1>4. CASE ScanEnd
  <2>1. /\ scan.buf = None /\ scan' = NoScan /\ cur_tick' = cur_tick
        /\ NoScan.buf = None /\ NoScan.at = "next" /\ NoScan.tick = 0
    BY Zenon, <1>0, <1>4 DEF ScanEnd, Scanning, ScanInv, NoScan
  <2>2. 0 <= cur_tick'
    BY <1>0, <2>1
  <2>3. ScanInv'
    BY Zenon, <2>1, <2>2 DEF ScanInv
  <2>4. itimer_running' \in BOOLEAN /\ live' \in BOOLEAN
    BY Zenon, <1>0, <1>4 DEF ScanEnd
  <2>5. cur_tick' \in 0 .. MaxTick /\ cur_tick <= cur_tick'
    BY <1>0, <2>1
  <2> QED
    BY Zenon, <1>1, <1>4, <2>1, <2>3, <2>4, <2>5, ScanFrame DEF ScanEnd
<1>5. CASE \E t \in Threads : PoolDestroy(t)
  <2>0. PICK t \in Threads : PoolDestroy(t)
    BY Zenon, <1>5
  <2>1. UNCHANGED <<scan, cur_tick>> /\ itimer_running' = TRUE /\ live' = FALSE
    BY Zenon, <2>0 DEF PoolDestroy
  <2>2. ScanInv'
    BY Zenon, <1>0, <2>1 DEF ScanInv
  <2>3. itimer_running' \in BOOLEAN /\ live' \in BOOLEAN
    BY Zenon, <2>1
  <2>4. cur_tick' \in 0 .. MaxTick /\ cur_tick <= cur_tick'
    BY <1>0, <2>1
  <2> QED
    BY Zenon, <1>0, <2>0, <2>2, <2>4, ScanFrame DEF PoolDestroy
<1> QED
  BY Zenon, <1>2, <1>3, <1>4, <1>5

\* timer_expire takes the buffer of a timer that has expired.
LEMMA TimerExpireStep ==
    ASSUME IInv, TimerExpire
    PROVE  IInv'
<1> DEFINE n == scan.i
<1>1. /\ scan.at = "expire" /\ n \in Timers /\ n < NumTimers
      /\ UNCHANGED <<queue, user_ptr, first_free, num_alloc, high_wm, live, hdr, delivered,
                     mine, cur_tick, itimer_running, handles, pc, arg>>
  BY TimerAssumption DEF TimerExpire, IInv, ScanInv, poolVars, tmoVars, Timers
<1>2. CASE ~Expired(n)
  <2>1. UNCHANGED <<tmo_buf, exp_tck>> /\ scan' = ScanNext /\ itimer_running
    BY <1>2 DEF TimerExpire, IInv, ScanInv, NoScan
  <2>2. /\ scan' \in ScanState
        /\ scan'.at = "next" /\ scan'.buf = None /\ scan'.tick = scan.tick
    BY Zenon, <1>1, <2>1, ScanNextLemma
  <2>3. ScanInv' /\ scan.buf = None
    BY Zenon, <1>1, <2>1, <2>2 DEF IInv, ScanInv
  <2>4. cur_tick \in 0 .. MaxTick /\ cur_tick <= cur_tick /\ live \in BOOLEAN /\ itimer_running \in BOOLEAN
    BY DEF IInv, TypeOK, PoolTypes, TickTypes
  <2> QED
    BY Zenon, <1>1, <2>1, <2>2, <2>3, <2>4, ScanFrame DEF timerVars, tmoVars
<1>3. CASE Expired(n)
  <2> DEFINE b == tmo_buf[n]
  <2>1. /\ b # None /\ b \in Bufs /\ exp_tck[n] <= scan.tick
        /\ exp_tck[n] \in 0 .. TMO_INACTIVE - 1 /\ exp_tck[n] \in 0 .. TMO_UNUSED
    BY <1>1, <1>3, TimerTicks DEF Expired, IInv, TypeOK, ActiveHasBuffer, TimerTypes
  <2>2. /\ tmo_buf' = [tmo_buf EXCEPT ![n] = None]
        /\ exp_tck' = [exp_tck EXCEPT ![n] = Inactive(exp_tck[n])]
        /\ scan' = [scan EXCEPT !.at = "post", !.buf = b, !.exp = exp_tck[n]]
    BY Zenon, <1>3 DEF TimerExpire
  <2>3. /\ scan' \in ScanState
        /\ scan'.at = "post" /\ scan'.buf = b /\ scan'.exp = exp_tck[n]
        /\ scan'.i = n /\ scan'.tick = scan.tick
    <3>1. PICK e \in 0 .. TMO_UNUSED, c \in Bufs : e = exp_tck[n] /\ c = tmo_buf[n]
      BY Zenon, <2>1
    <3>2. scan \in ScanState
      BY Zenon DEF IInv, TypeOK, TickTypes
    <3>3. scan' = [scan EXCEPT !.at = "post", !.buf = c, !.exp = e]
      BY Zenon, <2>2, <3>1
    <3>4. /\ scan' \in ScanState /\ scan'.at = "post" /\ scan'.buf = c /\ scan'.exp = e
          /\ scan'.i = scan.i /\ scan'.tick = scan.tick
      BY Zenon, <3>2, <3>3 DEF ScanState
    <3> QED
      BY Zenon, <3>1, <3>4
  <2>4. /\ tmo_buf'[n] = None /\ exp_tck'[n] = Inactive(exp_tck[n])
        /\ \A m \in Timers : m # n => tmo_buf'[m] = tmo_buf[m] /\ exp_tck'[m] = exp_tck[m]
        /\ exp_tck' \in [Timers -> 0 .. TMO_UNUSED]
        /\ tmo_buf' \in [Timers -> Bufs \cup {None}]
    <3>1. Inactive(exp_tck[n]) \in 0 .. TMO_UNUSED
      BY Zenon, <2>1, TimerTicks
    <3> QED
      BY <1>1, <2>2, <3>1 DEF IInv, TypeOK, TimerTypes
  <2>5. n \in handles /\ hdr[b].user_ptr = queue[n] /\ itimer_running /\ scan.buf = None
    BY <1>1, <2>1 DEF IInv, TimerInv, ScanInv, NoScan
  <2>6. /\ b \notin mine /\ (\A t \in Threads : arg[t].buf # b)
        /\ (\A m \in Timers : m # n => tmo_buf[m] # b)
        /\ (\A q \in Queues : b \notin delivered[q])
    BY <1>1, <2>1 DEF IInv, UniqInv
  <2> HIDE DEF n, b
  <2>7. TypeOK'
    BY Zenon, <1>1, <2>3, <2>4
       DEF IInv, TypeOK, TimerTypes, PoolTypes, TickTypes, TmoTypes, CallTypes
  <2>8. ActiveHasBuffer'
    <3>1. ~(Inactive(exp_tck[n]) < TMO_INACTIVE)
      BY <2>1, TimerTicks
    <3> QED
      BY Zenon, <2>4, <3>1 DEF IInv, ActiveHasBuffer
  <2>9. CallInv' /\ TimerInv'
    BY <1>1, <2>4 DEF IInv, CallInv, TimerInv, Freeing
  <2>10. ScanInv'
    BY Zenon, <1>1, <2>1, <2>3, <2>5 DEF IInv, ScanInv
  <2>11. UniqInv'
    BY <1>1, <2>1, <2>3, <2>4, <2>5, <2>6 DEF IInv, UniqInv
  <2>12. FoundInv => FoundInv'
    <3> SUFFICES ASSUME FoundInv, NEW x \in Bufs PROVE FoundInv!(x)'
      BY Zenon DEF FoundInv
    <3>1. CASE x = b
      BY Zenon, <2>3, <3>1
    <3>2. CASE x # b
      BY <1>1, <2>4, <2>5, <3>2 DEF FoundInv, b
    <3> QED
      BY Zenon, <3>1, <3>2
  <2>13. PostInv' /\ (RightTimeout => RightTimeout')
    BY <1>1, <2>3, <2>5 DEF PostInv, RightTimeout
  <2>14. FreeInv' /\ CountInv'
    <3>1. Out' = Out
      BY Zenon, <1>1 DEF Out, Freeing
    <3> QED
      BY Zenon, <1>1, <3>1, FreeFrame
  <2> QED
    BY Zenon, <2>7, <2>8, <2>9, <2>10, <2>11, <2>12, <2>13, <2>14 DEF IInv
<1> QED
  BY Zenon, <1>2, <1>3

\* timer_expire enqueues the timeout; the timer has its queue unless it was freed.
LEMMA TimerPostStep ==
    ASSUME IInv, TimerPost
    PROVE  IInv'
<1> DEFINE b == scan.buf
           q == queue[scan.i]
<1>1. /\ scan.at = "post" /\ hdr' = [hdr EXCEPT ![b] = [hdr[b] EXCEPT !.expiration = scan.exp]]
      /\ delivered' = (IF q \in Queues THEN [delivered EXCEPT ![q] = @ \cup {b}] ELSE delivered)
      /\ scan' = ScanNext
      /\ UNCHANGED <<queue, user_ptr, exp_tck, tmo_buf, first_free, num_alloc, high_wm, live,
                     mine, cur_tick, itimer_running, handles, pc, arg>>
  BY Zenon DEF TimerPost, timerVars, poolVars
<1>2. /\ b \in Bufs /\ scan.i < NumTimers /\ itimer_running
      /\ scan.exp <= scan.tick /\ scan.tick <= cur_tick
      /\ scan.exp \in 0 .. TMO_UNUSED /\ scan.tick \in Int /\ cur_tick \in Int
  BY <1>1, TimerAssumption
     DEF IInv, TypeOK, ScanInv, NoScan, Timers, PoolTypes, TickTypes, TmoTypes, CallTypes,
         ScanState, Header
<1>3. /\ scan' \in ScanState
      /\ scan'.at = "next" /\ scan'.buf = None /\ scan'.tick = scan.tick
  BY Zenon, <1>1, <1>2, ScanNextLemma
<1>4. /\ hdr' \in [Bufs -> Header]
      /\ \A x \in Bufs : x # b => hdr'[x] = hdr[x]
      /\ hdr'[b].user_ptr = hdr[b].user_ptr /\ hdr'[b].expiration = scan.exp
  BY <1>1, <1>2 DEF IInv, TypeOK, TickTypes, TmoTypes, ScanState, Header
<1>5. /\ delivered' \in [Queues -> SUBSET Bufs]
      /\ \A r \in Queues : delivered'[r] = IF r = q THEN delivered[r] \cup {b} ELSE delivered[r]
  <2>1. delivered \in [Queues -> SUBSET Bufs]
    BY Zenon DEF IInv, TypeOK, TmoTypes
  <2>2. PICK c, r : c \in Bufs /\ c = b /\ r = q
    BY Zenon, <1>2
  <2>3. delivered' = IF r \in Queues THEN [delivered EXCEPT ![r] = @ \cup {c}] ELSE delivered
    BY Zenon, <1>1, <2>2
  <2>4. /\ delivered' \in [Queues -> SUBSET Bufs]
        /\ \A p \in Queues : delivered'[p] = IF p = r THEN delivered[p] \cup {c} ELSE delivered[p]
    BY <2>1, <2>2, <2>3
  <2> QED
    BY Zenon, <2>2, <2>4
<1>6. /\ b \notin mine /\ (\A t \in Threads : arg[t].buf # b)
      /\ (\A m \in Timers : tmo_buf[m] # b) /\ (\A r \in Queues : b \notin delivered[r])
  BY Zenon, <1>2 DEF IInv, UniqInv
<1>7. TypeOK'
  BY Zenon, <1>1, <1>3, <1>4, <1>5
     DEF IInv, TypeOK, TimerTypes, PoolTypes, TickTypes, TmoTypes, CallTypes
<1> HIDE DEF b, q
<1>8. ActiveHasBuffer' /\ ScanInv'
  BY Zenon, <1>1, <1>2, <1>3 DEF IInv, ActiveHasBuffer, ScanInv
<1>9. CallInv' /\ TimerInv'
  <2>1. \A t \in Threads : arg[t].buf # None => hdr'[arg[t].buf] = hdr[arg[t].buf]
    BY <1>4, <1>6 DEF IInv, TypeOK, Call, CallTypes
  <2>2. \A m \in Timers : tmo_buf[m] # None => hdr'[tmo_buf[m]] = hdr[tmo_buf[m]]
    BY <1>4, <1>6 DEF IInv, TypeOK, TimerTypes
  <2> QED
    BY <1>1 DEF IInv, CallInv, TimerInv, Freeing
<1>10. UniqInv'
  BY <1>1, <1>3, <1>6, TimerAssumption DEF IInv, UniqInv
<1>11. ASSUME ~Hasty PROVE PostInv' /\ FoundInv' /\ RightTimeout'
  <2>1. q \in Queues /\ hdr[b].user_ptr = q
    BY Zenon, <1>1, <1>11 DEF IInv, TypeOK, PostInv, TimerInv, b, q, CallTypes
  <2>2. FoundInv'
    <3> SUFFICES ASSUME NEW x \in Bufs PROVE FoundInv!(x)'
      BY Zenon DEF FoundInv
    <3>1. CASE x = b
      BY Zenon, <1>5, <2>1, <3>1
    <3>2. CASE x # b
      BY <1>1, <1>11, <3>2 DEF IInv, FoundInv, b
    <3> QED
      BY Zenon, <3>1, <3>2
  <2>3. RightTimeout'
    <3> SUFFICES ASSUME NEW r \in Queues, NEW x \in delivered'[r]
                 PROVE  hdr'[x].user_ptr = r /\ hdr'[x].expiration < cur_tick' + 1
      BY Zenon DEF RightTimeout
    <3>1. CASE x = b
      BY <1>1, <1>2, <1>4, <1>6, <2>1, <3>1
    <3>2. CASE x # b
      BY <1>1, <1>11, <3>2 DEF IInv, RightTimeout
    <3> QED
      BY Zenon, <3>1, <3>2
  <2> QED
    BY Zenon, <1>3, <2>2, <2>3 DEF PostInv
<1>12. FreeInv' /\ CountInv'
  <2>1. Out' = Out
    BY Zenon, <1>1 DEF Out, Freeing
  <2> QED
    BY Zenon, <1>1, <2>1, FreeFrame
<1> QED
  BY Zenon, <1>7, <1>8, <1>9, <1>10, <1>11, <1>12 DEF IInv

\* The application receives a timeout.
LEMMA ReceiveStep ==
    ASSUME IInv, NEW t \in Threads, NEW q \in Queues, NEW b \in Bufs, Receive(t, q, b)
    PROVE  IInv'
<1>1. /\ b \in delivered[q] /\ delivered' = [delivered EXCEPT ![q] = @ \ {b}] /\ Regain({b})
      /\ UNCHANGED <<queue, user_ptr, exp_tck, tmo_buf, first_free, num_alloc, high_wm, live,
                     scan, cur_tick, itimer_running, handles, pc, arg>>
  BY Zenon DEF Receive, timerVars, poolVars, tickVars
<1>2. /\ mine' = mine \cup {b} /\ mine' \in SUBSET Bufs
      /\ hdr' \in [Bufs -> Header]
      /\ \A x \in Bufs \ {b} : hdr'[x] = hdr[x]
  BY <1>1, RegainLemma DEF IInv
<1>3. /\ delivered' \in [Queues -> SUBSET Bufs]
      /\ \A r \in Queues : delivered'[r] = IF r = q THEN delivered[r] \ {b} ELSE delivered[r]
  BY Zenon, <1>1 DEF IInv, TypeOK, TmoTypes
<1>4. /\ b \notin mine /\ scan.buf # b /\ (\A u \in Threads : arg[u].buf # b)
      /\ (\A m \in Timers : tmo_buf[m] # b) /\ (\A r \in Queues : b \in delivered[r] => r = q)
  BY Zenon, <1>1 DEF IInv, UniqInv
<1>5. TypeOK'
  BY <1>1, <1>2 DEF IInv, TypeOK, TimerTypes, PoolTypes, TickTypes, TmoTypes, CallTypes
<1>6. ActiveHasBuffer' /\ ScanInv'
  BY Zenon, <1>1 DEF IInv, ActiveHasBuffer, ScanInv
<1>7. CallInv' /\ TimerInv'
  <2>1. \A u \in Threads : arg[u].buf # None => hdr'[arg[u].buf] = hdr[arg[u].buf]
    BY <1>2, <1>4 DEF IInv, TypeOK, Call, CallTypes
  <2>2. \A m \in Timers : tmo_buf[m] # None => hdr'[tmo_buf[m]] = hdr[tmo_buf[m]]
    BY <1>2, <1>4 DEF IInv, TypeOK, TimerTypes
  <2>3. CallInv /\ TimerInv
    BY Zenon DEF IInv
  <2> QED
    BY Zenon, <1>1, <2>1, <2>2, <2>3 DEF CallInv, TimerInv, Freeing
<1>8. UniqInv' /\ (FoundInv => FoundInv')
  <2>1. UniqInv
    BY Zenon DEF IInv
  <2>2. UniqInv'
    BY <1>1, <1>2, <1>3, <2>1 DEF UniqInv
  <2> QED
    BY Zenon, <1>1, <1>2, <1>3, <2>2 DEF FoundInv
<1>9. ~Hasty => PostInv' /\ RightTimeout'
  <2>1. scan.at = "post" => hdr'[scan.buf] = hdr[scan.buf]
    BY Zenon, <1>2, <1>4 DEF IInv, TypeOK, ScanInv, TickTypes, ScanState
  <2>2. ~Hasty => PostInv /\ RightTimeout
    BY Zenon DEF IInv
  <2>3. PostInv => PostInv'
    BY Zenon, <1>1, <2>1 DEF PostInv
  <2>4. RightTimeout => RightTimeout'
    BY <1>1, <1>2, <1>3 DEF RightTimeout
  <2> QED
    BY Zenon, <2>2, <2>3, <2>4
<1>10. FreeInv' /\ CountInv'
  <2>1. Out' = Out
    BY Zenon, <1>1 DEF Out, Freeing
  <2> QED
    BY Zenon, <1>1, <2>1, FreeFrame
<1> QED
  BY Zenon, <1>5, <1>6, <1>7, <1>8, <1>9, <1>10 DEF IInv
-----------------------------------------------------------------------------
(* From here on with the theorems about finite and well-founded sets.       *)
FS == INSTANCE FiniteSetTheorems
LOCAL INSTANCE WellFoundedInduction

\* The instance has its own copy of the two definitions of FiniteSets.
LEMMA SizeSame ==
    ASSUME NEW S
    PROVE  FS!Cardinality(S) = Cardinality(S) /\ (FS!IsFiniteSet(S) <=> IsFiniteSet(S))
<1>1. FS!Cardinality(S) = Cardinality(S)
  BY DEF FS!Cardinality, Cardinality
<1>2. FS!IsFiniteSet(S) <=> IsFiniteSet(S)
  BY DEF FS!IsFiniteSet, IsFiniteSet
<1> QED
  BY Zenon, <1>1, <1>2

\* The sizes of the smallest sets.
LEMMA SizeSmall ==
    /\ Cardinality({}) = 0 /\ \A x : Cardinality({x}) = 1
    /\ \A S : IsFiniteSet(S) => Cardinality(S) \in Nat /\ (Cardinality(S) = 0 <=> S = {})
<1>1. Cardinality({}) = 0
  BY Zenon, SizeSame, FS!FS_EmptySet
<1>2. ASSUME NEW x PROVE Cardinality({x}) = 1
  BY Zenon, SizeSame, FS!FS_Singleton
<1>3. ASSUME NEW S, IsFiniteSet(S)
      PROVE  Cardinality(S) \in Nat /\ (Cardinality(S) = 0 <=> S = {})
  <2>1. FS!IsFiniteSet(S) /\ FS!Cardinality(S) = Cardinality(S)
    BY Zenon, <1>3, SizeSame
  <2> QED
    BY Zenon, <2>1, FS!FS_CardinalityType, FS!FS_EmptySet
<1> QED
  BY Zenon, <1>1, <1>2, <1>3

\* A set with one element more, and with one less.
LEMMA SizeStep ==
    ASSUME NEW S, NEW x, IsFiniteSet(S)
    PROVE  /\ x \notin S => Cardinality(S \cup {x}) = Cardinality(S) + 1
           /\ x \in S => Cardinality(S \ {x}) = Cardinality(S) - 1
<1>1. FS!IsFiniteSet(S) /\ FS!Cardinality(S) = Cardinality(S)
  BY Zenon, SizeSame
<1>2. FS!Cardinality(S \cup {x}) = Cardinality(S \cup {x})
      /\ FS!Cardinality(S \ {x}) = Cardinality(S \ {x})
  BY Zenon, SizeSame
<1> QED
  BY Zenon, <1>1, <1>2, FS!FS_AddElement, FS!FS_RemoveElement

\* The initial states.
LEMMA TimerInit == Init => IInv
<1> SUFFICES ASSUME Init PROVE IInv
  OBVIOUS
<1>1. TypeOK
  <2>1. /\ NoScan \in ScanState
        /\ NoHdr \in Header
        /\ NoCall \in Call
    BY TimerAssumption, TimerTicks DEF NoScan, NoHdr, NoCall, Call, ScanState, Header
  <2>2. /\ queue \in [Timers -> Queues \cup {None} \cup 0 .. NumTimers]
        /\ exp_tck \in [Timers -> 0 .. TMO_UNUSED] /\ cur_tick \in 0 .. MaxTick
        /\ first_free \in 0 .. NumTimers
        /\ num_alloc \in 0 .. NumTimers /\ high_wm \in 0 .. NumTimers
    BY TimerAssumption, TimerTicks DEF Init, Timers
  <2> QED
    BY Zenon, <2>1, <2>2 DEF Init, TypeOK, TimerTypes, PoolTypes, TickTypes, TmoTypes, CallTypes
<1>2. ActiveHasBuffer
  BY TimerTicks DEF Init, ActiveHasBuffer
<1>3. CallInv /\ TimerInv
  BY Zenon DEF Init, CallInv, TimerInv, NoCall, Freeing
<1>4. ScanInv /\ PostInv
  BY DEF Init, ScanInv, PostInv, NoScan
<1>5. UniqInv /\ FoundInv /\ RightTimeout
  BY TimerAssumption DEF Init, UniqInv, FoundInv, RightTimeout, NoScan, NoCall
<1>6. Out = {}
  BY Zenon DEF Init, Out, Freeing
<1> DEFINE f == [k \in 0 .. NumTimers |-> k]
<1>7. Chain(f, NumTimers)
  <2>1. /\ f \in [0 .. NumTimers -> 0 .. NumTimers] /\ f[0] = 0 /\ f[NumTimers] = NumTimers
        /\ \A k \in Timers : f[k] = k /\ f[k + 1] = k + 1
    BY TimerAssumption DEF Timers
  <2>2. \A k \in Timers : queue[k] = k + 1
    BY Zenon DEF Init
  <2> HIDE DEF f
  <2>3. first_free = 0 /\ Timers = 0 .. NumTimers - 1
    BY Zenon DEF Init, Timers
  <2>4. /\ \A k \in Timers : f[k] \in Timers \ Out /\ queue[f[k]] = f[k + 1]
        /\ \A n \in Timers \ Out : \E k \in Timers : f[k] = n
        /\ \A j, k \in Timers : f[j] = f[k] => j = k
    BY <1>6, <2>1, <2>2
  <2>5. /\ \A k \in 0 .. NumTimers - 1 : f[k] \in Timers \ Out /\ queue[f[k]] = f[k + 1]
        /\ \A n \in Timers \ Out : \E k \in 0 .. NumTimers - 1 : f[k] = n
        /\ \A j, k \in 0 .. NumTimers - 1 : f[j] = f[k] => j = k
    BY Zenon, <2>3, <2>4
  <2> QED
    BY Zenon, <2>1, <2>3, <2>5 DEF Chain
<1> HIDE DEF f
<1>8. FreeInv /\ CountInv
  <2>1. num_alloc = 0
    BY Zenon DEF Init
  <2>2. NumTimers - num_alloc = NumTimers
    BY <2>1, TimerAssumption
  <2>3. Cardinality(Out) = 0
    BY Zenon, <1>6, SizeSmall
  <2> QED
    BY Zenon, <1>7, <2>1, <2>2, <2>3 DEF FreeInv, CountInv
<1> QED
  BY Zenon, <1>1, <1>2, <1>3, <1>4, <1>5, <1>8 DEF IInv

\* num_alloc counts the timers that timer_alloc and timer_free take out and put back.
LEMMA CountStep ==
    ASSUME IInv, NEW t \in Threads
    PROVE  /\ \A q \in Queues : TimerAlloc(t, q) => CountInv'
           /\ TimerInsert(t) => num_alloc > 0 /\ CountInv'
<1>1. IsFiniteSet(Out) /\ Cardinality(Out) \in Nat
  <2>1. Out \subseteq 0 .. NumTimers - 1
    <3>1. handles \subseteq Timers
      BY Zenon DEF IInv, TypeOK, CallTypes
    <3>2. \A u \in Threads : Freeing(u) => arg[u].idx \in Timers
      BY Zenon DEF IInv, CallInv
    <3> QED
      BY Zenon, <3>1, <3>2 DEF Out, Timers
  <2>2. 0 \in Int /\ NumTimers - 1 \in Int
    BY TimerAssumption
  <2>3. FS!IsFiniteSet(Out)
    BY Zenon, <2>1, <2>2, FS!FS_Interval, FS!FS_Subset
  <2> QED
    BY Zenon, <2>3, SizeSame, SizeSmall
<1>2. ASSUME NEW q \in Queues, TimerAlloc(t, q) PROVE CountInv'
  <2>0. PICK K, f : K = NumTimers - num_alloc /\ Chain(f, K)
    BY Zenon DEF IInv, FreeInv
  <2>1. 0 \in 0 .. K - 1
    BY <1>2, <2>0, TimerAssumption DEF IInv, TypeOK, TimerAlloc, PoolTypes
  <2>2. first_free \notin Out
    BY Zenon, <2>0, <2>1 DEF Chain
  <2>3. Out' = Out \cup {first_free}
    BY Zenon, <1>2 DEF TimerAlloc, Out, Freeing
  <2> QED
    <3>1. num_alloc = Cardinality(Out) /\ num_alloc' = num_alloc + 1
      BY Zenon, <1>2 DEF IInv, CountInv, TimerAlloc
    <3>2. Cardinality(Out \cup {first_free}) = Cardinality(Out) + 1
      BY Zenon, <1>1, <2>2, SizeStep
    <3> QED
      BY Zenon, <2>3, <3>1, <3>2 DEF CountInv
<1>3. ASSUME TimerInsert(t) PROVE num_alloc > 0 /\ CountInv'
  <2> DEFINE n == arg[t].idx
  <2>1. /\ Freeing(t) /\ n \notin handles /\ n \in Out
        /\ \A u \in Threads : u # t /\ Freeing(u) => arg[u].idx # n
    BY <1>3 DEF TimerInsert, IInv, CallInv, Freeing, Out
  <2>2. /\ handles' = handles
        /\ \A u \in Threads : Freeing(u)' <=> Freeing(u) /\ u # t
        /\ \A u \in Threads : u # t => arg'[u] = arg[u]
    BY <1>3 DEF TimerInsert, IInv, TypeOK, Freeing, CallTypes
  <2>3. Out' = Out \ {n}
    BY <2>1, <2>2 DEF Out
  <2> HIDE DEF n
  <2>4. Cardinality(Out) # 0
    BY Zenon, <1>1, <2>1, SizeSmall
  <2>5. Cardinality(Out \ {n}) = Cardinality(Out) - 1
    BY Zenon, <1>1, <2>1, SizeStep
  <2> QED
    <3>1. num_alloc = Cardinality(Out) /\ num_alloc' = num_alloc - 1
      BY Zenon, <1>3 DEF IInv, CountInv, TimerInsert
    <3>2. num_alloc > 0
      BY <1>1, <2>4, <3>1
    <3> QED
      BY Zenon, <2>3, <2>5, <3>1, <3>2 DEF CountInv
<1> QED
  BY Zenon, <1>2, <1>3

\* Every non-empty set of natural numbers has a least element.
LEMMA TimerLeast ==
    ASSUME NEW S \in SUBSET Nat, S # {}
    PROVE  \E x \in S : \A y \in S : x <= y
<1> DEFINE R == OpToRel(<, Nat)
<1>1. IsWellFoundedOn(R, Nat)
  BY Zenon, NatLessThanWellFounded
<1>2. \A x, y \in Nat : x < y => <<x, y>> \in R
  BY Zenon DEF OpToRel
<1> HIDE DEF R
<1>3. PICK x \in S : \A y \in S : ~ (<<y, x>> \in R)
  BY Zenon, <1>1, WFMin
<1>4. ASSUME NEW y \in S PROVE x <= y
  <2>1. x \in Nat /\ y \in Nat
    OBVIOUS
  <2>2. ~(y < x)
    BY Zenon, <1>2, <1>3
  <2> QED
    BY <2>2
<1> QED
  BY Zenon, <1>4

\* The invariant holds initially, and every step keeps it.
THEOREM TimerInvariant == Spec => []IInv
<1>1. IInv /\ [Next]_vars => IInv'
  <2> SUFFICES ASSUME IInv, [Next]_vars PROVE IInv'
    OBVIOUS
  <2>1. CASE \E t \in Threads : \E q \in Queues : TimerAlloc(t, q)
    BY Zenon, <2>1, TimerAllocStep, CountStep
  <2>2. CASE \E t \in Threads :
                \E n \in Timers, abs \in 0 .. MaxTick + MaxRel, b \in Bufs \cup {None} :
                    SetBegin(t, n, abs, b)
    BY Zenon, <2>2, SetBeginStep
  <2>3. CASE \E t \in Threads : \E n \in Timers : Cancel(t, n) \/ TimerFree(t, n)
    BY Zenon, <2>3, CancelStep, TimerFreeStep
  <2>4. CASE \E t \in Threads : Finish(t)
    BY Zenon, <2>4, TimerResetStep, TimerFiniStep, TimerInsertStep, CountStep DEF Finish
  <2>5. CASE \E t \in Threads : \E q \in Queues, b \in Bufs : Receive(t, q, b)
    BY Zenon, <2>5, ReceiveStep
  <2>6. CASE TimerNotify \/ \E t \in Threads : PoolDestroy(t)
    BY Zenon, <2>6, ScanSteps
  <2>7. CASE Scan
    BY Zenon, <2>7, ScanSteps, TimerExpireStep, TimerPostStep DEF Scan
  <2>8. CASE UNCHANGED vars
    <3> USE <2>8 DEF vars, timerVars, poolVars, tickVars, tmoVars
    <3>1. /\ UNCHANGED <<timerVars, first_free, num_alloc, high_wm, tmoVars, handles, pc, arg>>
          /\ UNCHANGED <<live, itimer_running, scan, cur_tick>>
      OBVIOUS
    <3>2. TypeOK' /\ ScanInv'
      BY DEF IInv, TypeOK, ScanInv, TimerTypes, PoolTypes, TickTypes, TmoTypes, CallTypes
    <3>3. cur_tick <= cur_tick'
      BY DEF IInv, TypeOK, TickTypes
    <3> QED
      BY Zenon, <3>2, <3>3, ScanFrame DEF TypeOK, PoolTypes, TickTypes
  <2> QED
    BY Zenon, <2>1, <2>2, <2>3, <2>4, <2>5, <2>6, <2>7, <2>8 DEF Next
<1> QED
  BY <1>1, TimerInit, PTL DEF Spec

\* Type correctness: the free list and the high watermark stay inside the arrays.
THEOREM TimerTypeCorrect == Spec => []TypeOK
  BY TimerInvariant, PTL DEF IInv

\* A timer is active exactly while it has a timeout buffer.
THEOREM TimerActive == Spec => []ActiveHasBuffer
  BY TimerInvariant, PTL DEF IInv

\* A timeout is on the queue of its timer, and not before its tick has passed.
THEOREM TimerRightTimeout == ASSUME ~Hasty PROVE Spec => []RightTimeout
<1>1. IInv => RightTimeout
  BY Zenon DEF IInv
<1> QED
  BY <1>1, TimerInvariant, PTL

\* A timeout buffer is in exactly one place.
THEOREM TimerOnePlace == ASSUME ~Hasty PROVE Spec => []OnePlace
<1>1. ASSUME IInv, NEW b \in Bufs PROVE Cardinality(Places(b)) = 1
  <2> USE DEF Places
  <2>1. CASE b \in mine
    <3>1. Places(b) = {<<"app", 0>>}
      BY <1>1, <2>1 DEF IInv, UniqInv
    <3> QED
      BY Zenon, <3>1, SizeSmall
  <2>2. ASSUME NEW t \in Threads, arg[t].buf = b PROVE Cardinality(Places(b)) = 1
    <3>1. Places(b) = {<<"call", t>>}
      BY <1>1, <2>2 DEF IInv, UniqInv
    <3> QED
      BY Zenon, <3>1, SizeSmall
  <2>3. ASSUME NEW n \in Timers, tmo_buf[n] = b PROVE Cardinality(Places(b)) = 1
    <3>1. Places(b) = {<<"timer", n>>}
      BY <1>1, <2>3 DEF IInv, UniqInv
    <3> QED
      BY Zenon, <3>1, SizeSmall
  <2>4. CASE scan.buf = b
    <3>1. Places(b) = {<<"scan", 0>>}
      BY <1>1, <2>4 DEF IInv, UniqInv
    <3> QED
      BY Zenon, <3>1, SizeSmall
  <2>5. ASSUME NEW q \in Queues, b \in delivered[q] PROVE Cardinality(Places(b)) = 1
    <3>1. Places(b) = {<<"queue", q>>}
      BY <1>1, <2>5 DEF IInv, UniqInv
    <3> QED
      BY Zenon, <3>1, SizeSmall
  <2> QED
    BY Zenon, <1>1, <2>1, <2>2, <2>3, <2>4, <2>5 DEF IInv, FoundInv
<1>2. IInv => OnePlace
  BY Zenon, <1>1 DEF OnePlace
<1> QED
  BY <1>2, TimerInvariant, PTL

\* The list that timer_alloc and timer_free walk is the chain of the invariant.
LEMMA FreeListChain ==
    ASSUME TypeOK, NEW f, NEW K \in 0 .. NumTimers, Chain(f, K)
    PROVE  \A k \in 0 .. K : FreeList[k] = f[k]
<1> DEFINE Step(h) == [k \in 0 .. NumTimers |->
                         IF k = 0 THEN first_free
                         ELSE IF h[k - 1] \in Timers THEN queue[h[k - 1]]
                         ELSE NumTimers]
           g == [k \in 0 .. NumTimers |-> IF k <= K THEN f[k] ELSE NumTimers]
<1>1. ASSUME NEW k \in 0 .. NumTimers PROVE g[k] = Step(g)[k]
  <2>1. CASE k = 0
    BY <2>1 DEF Chain
  <2>2. CASE k \in 1 .. K
    <3>1. k - 1 \in 0 .. K - 1 /\ (k - 1) + 1 = k /\ k # 0 /\ k \in 0 .. NumTimers
      BY <2>2
    <3>2. f[k - 1] \in Timers /\ queue[f[k - 1]] = f[(k - 1) + 1]
      BY Zenon, <3>1 DEF Chain
    <3>3. g[k - 1] = f[k - 1] /\ g[k] = f[k]
      BY <2>2, TimerAssumption
    <3> HIDE DEF g
    <3> QED
      BY Zenon, <3>1, <3>2, <3>3
  <2>3. CASE k > K
    <3>1. g[k - 1] = NumTimers /\ g[k] = NumTimers /\ k # 0
      <4>1. k - 1 \in 0 .. NumTimers /\ k # 0 /\ (k - 1 <= K => k - 1 = K) /\ ~(k <= K)
        BY <2>3, TimerAssumption
      <4>2. f[K] = NumTimers
        BY Zenon DEF Chain
      <4> QED
        BY Zenon, <4>1, <4>2
    <3>2. NumTimers \notin Timers
      BY DEF Timers
    <3> HIDE DEF g
    <3> QED
      BY Zenon, <3>1, <3>2
  <2> QED
    BY <2>1, <2>2, <2>3
<1>2. g = Step(g)
  BY Zenon, <1>1
<1>3. FreeList = Step(FreeList)
  <2> HIDE DEF g
  <2>1. FreeList = CHOOSE h : h = Step(h)
    BY Zenon DEF FreeList
  <2> HIDE DEF Step
  <2> QED
    BY Zenon, <1>2, <2>1
<1> DEFINE S == {k \in 0 .. K : FreeList[k] # f[k]}
<1>4. SUFFICES ASSUME S # {} PROVE FALSE
  OBVIOUS
<1>5. PICK k \in S : \A j \in S : k <= j
  <2>1. S \in SUBSET Nat
    OBVIOUS
  <2> HIDE DEF S
  <2> QED
    BY Zenon, <1>4, <2>1, TimerLeast
<1>6. k \in 0 .. NumTimers /\ FreeList[k] = Step(FreeList)[k]
  BY <1>3, <1>5, TimerAssumption
<1>7. CASE k = 0
  BY Zenon, <1>6, <1>7 DEF Chain
<1>8. CASE k # 0
  <2>1. k - 1 \in 0 .. K - 1 /\ k - 1 \in 0 .. K /\ (k - 1) + 1 = k /\ k - 1 < k
    BY <1>8
  <2>2. FreeList[k - 1] = f[k - 1]
    BY <1>5, <2>1
  <2>3. f[k - 1] \in Timers /\ queue[f[k - 1]] = f[(k - 1) + 1]
    BY Zenon, <2>1 DEF Chain
  <2>4. FreeList[k] = f[k]
    BY Zenon, <1>6, <1>8, <2>1, <2>2, <2>3
  <2> QED
    BY Zenon, <2>4
<1> QED
  BY Zenon, <1>7, <1>8

\* The free list is exactly the timers that are neither allocated nor being freed.
THEOREM TimerFreeList == Spec => []FreeListExact
<1>1. ASSUME IInv PROVE FreeListExact
  <2>1. PICK K, f : K = NumTimers - num_alloc /\ Chain(f, K)
    BY Zenon, <1>1 DEF IInv, FreeInv
  <2>2. K \in 0 .. NumTimers
    BY <1>1, <2>1, TimerAssumption DEF IInv, TypeOK, PoolTypes
  <2>3. \A k \in 0 .. K : FreeList[k] = f[k]
    BY Zenon, <1>1, <2>1, <2>2, FreeListChain DEF IInv
  <2>4. {FreeList[k] : k \in 0 .. K - 1} = Timers \ Out
    <3>1. \A k \in 0 .. K - 1 : FreeList[k] = f[k] /\ f[k] \in Timers \ Out
      BY <2>1, <2>3 DEF Chain
    <3>2. \A n \in Timers \ Out : \E k \in 0 .. K - 1 : f[k] = n
      BY Zenon, <2>1 DEF Chain
    <3> QED
      BY Zenon, <3>1, <3>2
  <2>5. FreeList[K] = NumTimers
    BY <2>1, <2>2, <2>3 DEF Chain
  <2> QED
    BY Zenon, <2>1, <2>4, <2>5 DEF FreeListExact, Out, Freeing
<1> QED
  BY <1>1, TimerInvariant, PTL
=============================================================================
