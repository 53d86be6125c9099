------------------------------- MODULE Timer -------------------------------
(***************************************************************************)
(* A timer pool of src/platform/mppa/odp_timer.c and the tick callback of  *)
(* os/mos/timer.c and os/nodeos/timer.c.                                   *)
(*                                                                         *)
(* A timer is an index into two arrays: tick_buf (expiration tick and      *)
(* timeout buffer, guarded by one of a set of spin locks) and timers       *)
(* (destination queue, user pointer).  The queue field of a free timer     *)
(* links the free list, which the lock of the pool guards.  The callback   *)
(* counts the tick, then scans the array below the high watermark.         *)
(*                                                                         *)
(* One step of the model is one section under a lock, or the code between  *)
(* two of them.  The application receives timeouts from the destination    *)
(* queues and uses their buffers again.                                    *)
(***************************************************************************)
EXTENDS Integers, FiniteSets

CONSTANTS Threads,    \* the threads of the application
          Setters,    \* bound: those that set timers as well
          NumTimers,  \* param.num_timers
          Bufs,       \* the timeout buffers
          Queues,     \* the destination queues
          MinRel,     \* min_rel_tck
          MaxRel,     \* max_rel_tck
          MaxTick,    \* bound: the last tick told apart from later ones
          Hasty,      \* a timer is freed even while its timeout is under way
          None

ASSUME TimerAssumption ==
    /\ NumTimers \in Nat /\ MinRel \in Nat /\ MaxRel \in Nat /\ MaxTick \in Nat
    /\ Hasty \in BOOLEAN /\ Setters \subseteq Threads
    /\ None \notin Bufs /\ None \notin Queues
    /\ Queues \cap Nat = {}

VARIABLES queue,       \* timers[].queue: destination, invalid, or next free index
          user_ptr,    \* timers[].user_ptr; the application passes the queue
          exp_tck,     \* tick_buf[].exp_tck
          tmo_buf,     \* tick_buf[].tmo_buf
          first_free, num_alloc, high_wm, cur_tick,
          live,        \* the pool is in timer_pool[]
          itimer_running,
          scan,        \* the callback that holds itimer_running
          hdr,         \* the timeout header of each buffer
          delivered,   \* the timeouts in each destination queue
          mine,        \* the buffers the application has
          handles,     \* the timers the application has
          pc, arg      \* where each thread is, and the arguments of its call

timerVars == <<queue, user_ptr, exp_tck, tmo_buf>>
poolVars  == <<first_free, num_alloc, high_wm, live>>
tickVars  == <<cur_tick, itimer_running, scan>>
tmoVars   == <<hdr, delivered, mine>>
vars == <<timerVars, poolVars, tickVars, tmoVars, handles, pc, arg>>

Timers == 0 .. NumTimers - 1

\* TMO_INACTIVE is a bit above every tick, TMO_UNUSED has it and all those below.
TMO_INACTIVE == MaxTick + MaxRel + 1
TMO_UNUSED   == 2 * TMO_INACTIVE - 1

Inactive(x) == IF x < TMO_INACTIVE THEN x + TMO_INACTIVE ELSE x

Call == [idx : 0 .. NumTimers, tick : 0 .. MaxTick + MaxRel, buf : Bufs \cup {None}]
NoCall == [idx |-> 0, tick |-> 0, buf |-> None]
NoScan == [i |-> 0, tick |-> 0, high_wm |-> 0, at |-> "next", buf |-> None, exp |-> 0]

NoHdr == [user_ptr |-> None, expiration |-> 0]

Init ==
    /\ queue = [n \in Timers |-> n + 1]
    /\ user_ptr = [n \in Timers |-> None]
    /\ exp_tck = [n \in Timers |-> TMO_UNUSED]
    /\ tmo_buf = [n \in Timers |-> None]
    /\ first_free = 0 /\ num_alloc = 0 /\ high_wm = 0 /\ cur_tick = 0
    /\ live = TRUE
    /\ itimer_running = FALSE
    /\ scan = NoScan
    /\ hdr = [b \in Bufs |-> NoHdr]
    /\ delivered = [q \in Queues |-> {}]
    /\ mine = Bufs
    /\ handles = {}
    /\ pc = [t \in Threads |-> "idle"]
    /\ arg = [t \in Threads |-> NoCall]

Busy(n) == \E t \in Threads : pc[t] # "idle" /\ arg[t].idx = n

\* A high watermark that counts one too many.
HighWmPast(m) == IF m >= high_wm THEN m + 1 ELSE high_wm

\* The high watermark once m timers are allocated.
HighWm(m) == IF m > high_wm THEN m ELSE high_wm

\* timer_alloc, one section under the lock of the pool.
TimerAlloc(t, q) ==
    LET n == first_free
    IN  /\ pc[t] = "idle" /\ live
        /\ num_alloc < NumTimers
        /\ num_alloc' = num_alloc + 1
        /\ first_free' = queue[n]
        /\ queue' = [queue EXCEPT ![n] = q]
        /\ user_ptr' = [user_ptr EXCEPT ![n] = q]
        /\ tmo_buf' = [tmo_buf EXCEPT ![n] = None]
        /\ exp_tck' = [exp_tck EXCEPT ![n] = TMO_INACTIVE]
        /\ high_wm' = HighWm(num_alloc + 1)
        /\ handles' = handles \cup {n}
        /\ UNCHANGED <<tickVars, tmoVars, live, pc, arg>>

\* The application gets the buffers of a set; what their headers say does not matter
\* any more.
Regain(B) ==
    /\ mine' = mine \cup B
    /\ hdr' = [b \in Bufs |-> IF b \in B THEN NoHdr ELSE hdr[b]]

\* The header of a new timeout buffer, filled in before the lock is taken.
Filled(b, n) == [hdr EXCEPT ![b].user_ptr = user_ptr[n]]

\* odp_timer_set_abs and odp_timer_set_rel up to the lock of the timer: the
\* tick is tested against cur_tick.
SetBegin(t, n, abs, b) ==
    /\ pc[t] = "idle" /\ t \in Setters /\ n \in handles
    /\ abs >= cur_tick + MinRel /\ abs <= cur_tick + MaxRel
    /\ b \in mine \cup {None}
    /\ hdr' = IF b = None THEN hdr ELSE Filled(b, n)
    /\ mine' = mine \ {b}
    /\ pc' = [pc EXCEPT ![t] = "set"]
    /\ arg' = [arg EXCEPT ![t] = [idx |-> n, tick |-> abs, buf |-> b]]
    /\ UNCHANGED <<timerVars, poolVars, tickVars, delivered, handles>>

\* A reset that asks for no buffer at all.
ResettableAny(n, b) == TRUE

\* A timer can be reset with a new buffer, or with the one it has.
Resettable(n, b) == b # None \/ tmo_buf[n] # None

\* The locked section of timer_reset; a replaced buffer goes to the caller.
TimerReset(t) ==
    LET n == arg[t].idx
        b == arg[t].buf
    IN  /\ pc[t] = "set"
        /\ exp_tck' = IF Resettable(n, b) THEN [exp_tck EXCEPT ![n] = arg[t].tick]
                      ELSE exp_tck
        /\ tmo_buf' = IF b = None THEN tmo_buf ELSE [tmo_buf EXCEPT ![n] = b]
        /\ Regain(IF b = None THEN {} ELSE {tmo_buf[n]} \ {None})
        /\ pc' = [pc EXCEPT ![t] = "idle"]
        /\ arg' = [arg EXCEPT ![t] = NoCall]
        /\ UNCHANGED <<queue, user_ptr, poolVars, tickVars, delivered, handles>>

\* A cancellation that does not take the buffer out.
TimerCancelKeep(n, new_state) ==
    /\ exp_tck' = [exp_tck EXCEPT ![n] = new_state]
    /\ Regain({tmo_buf[n]} \ {None})
    /\ UNCHANGED tmo_buf

\* timer_cancel: the new state is stored and the buffer taken under the lock.
TimerCancel(n, new_state) ==
    /\ exp_tck' = [exp_tck EXCEPT ![n] = new_state]
    /\ tmo_buf' = [tmo_buf EXCEPT ![n] = None]
    /\ Regain({tmo_buf[n]} \ {None})

\* odp_timer_cancel.
Cancel(t, n) ==
    /\ pc[t] = "idle" /\ n \in handles
    /\ TimerCancel(n, TMO_INACTIVE)
    /\ UNCHANGED <<queue, user_ptr, poolVars, tickVars, delivered, handles, pc, arg>>

\* timer_free begins: the timer is cancelled.  The application gives its
\* handle up, and does not free a timer another thread is setting; unless it
\* is hasty it waits for a timeout that has left the timer.
TimerFree(t, n) ==
    /\ pc[t] = "idle" /\ n \in handles /\ ~Busy(n)
    /\ Hasty \/ ~(scan.at = "post" /\ scan.i = n)
    /\ TimerCancel(n, TMO_UNUSED)
    /\ handles' = handles \ {n}
    /\ pc' = [pc EXCEPT ![t] = "fini"]
    /\ arg' = [arg EXCEPT ![t] = [NoCall EXCEPT !.idx = n]]
    /\ UNCHANGED <<queue, user_ptr, poolVars, tickVars, delivered>>

\* timer_fini, under no lock.
TimerFini(t) ==
    LET n == arg[t].idx
    IN  /\ pc[t] = "fini"
        /\ queue' = [queue EXCEPT ![n] = None]
        /\ user_ptr' = [user_ptr EXCEPT ![n] = None]
        /\ pc' = [pc EXCEPT ![t] = "insert"]
        /\ UNCHANGED <<exp_tck, tmo_buf, poolVars, tickVars, tmoVars, handles, arg>>

\* A free that forgets to count.
TimerInsertNoCount(t) ==
    LET n == arg[t].idx
    IN  /\ pc[t] = "insert"
        /\ queue' = [queue EXCEPT ![n] = first_free]
        /\ first_free' = n
        /\ pc' = [pc EXCEPT ![t] = "idle"]
        /\ arg' = [arg EXCEPT ![t] = NoCall]
        /\ UNCHANGED <<num_alloc, user_ptr, exp_tck, tmo_buf, high_wm, live, tickVars,
                       tmoVars, handles>>

\* timer_free ends: the free list, under the lock of the pool.
TimerInsert(t) ==
    LET n == arg[t].idx
    IN  /\ pc[t] = "insert"
        /\ queue' = [queue EXCEPT ![n] = first_free]
        /\ first_free' = n
        /\ num_alloc' = num_alloc - 1
        /\ pc' = [pc EXCEPT ![t] = "idle"]
        /\ arg' = [arg EXCEPT ![t] = NoCall]
        /\ UNCHANGED <<user_ptr, exp_tck, tmo_buf, high_wm, live, tickVars, tmoVars, handles>>

\* timer_notify: the tick is counted; a scan for the ticks up to the former
\* value starts unless one is running.  Ticks past MaxTick are not told apart.
TimerNotify ==
    /\ live
    /\ cur_tick' = IF cur_tick < MaxTick THEN cur_tick + 1 ELSE cur_tick
    /\ IF itimer_running
       THEN UNCHANGED <<itimer_running, scan>>
       ELSE /\ itimer_running' = TRUE
            /\ scan' = [NoScan EXCEPT !.tick = cur_tick, !.high_wm = high_wm]
    /\ UNCHANGED <<timerVars, poolVars, tmoVars, handles, pc, arg>>

Scanning == live /\ itimer_running /\ scan.at = "next"
ScanMoreShort == scan.i + 1 < scan.high_wm
ScanMore == scan.i < scan.high_wm
ScanNext == [scan EXCEPT !.i = scan.i + 1, !.at = "next", !.buf = None, !.exp = 0]

\* _odp_timer_pool_expire: the tick of the next timer, read without a lock.
ScanCheck ==
    /\ Scanning /\ ScanMore
    /\ scan' = IF exp_tck[scan.i] <= scan.tick THEN [scan EXCEPT !.at = "expire"]
               ELSE ScanNext
    /\ UNCHANGED <<timerVars, poolVars, tmoVars, cur_tick, itimer_running, handles, pc, arg>>

\* An expiry that trusts the test made without the lock.
ExpiredUnlocked(n) == tmo_buf[n] # None

\* The test that timer_expire repeats under the lock.
Expired(n) == exp_tck[n] <= scan.tick /\ tmo_buf[n] # None

\* timer_expire, under the lock of the timer: the buffer is taken, and the
\* expired bit set.  What remains to be done is done after the unlock.
TimerExpire ==
    LET n == scan.i
    IN  /\ scan.at = "expire"
        /\ tmo_buf' = IF Expired(n) THEN [tmo_buf EXCEPT ![n] = None] ELSE tmo_buf
        /\ exp_tck' = IF Expired(n) THEN [exp_tck EXCEPT ![n] = Inactive(exp_tck[n])]
                      ELSE exp_tck
        /\ scan' = IF Expired(n)
                   THEN [scan EXCEPT !.at = "post", !.buf = tmo_buf[n], !.exp = exp_tck[n]]
                   ELSE ScanNext
        /\ UNCHANGED <<queue, user_ptr, poolVars, tmoVars, cur_tick, itimer_running,
                       handles, pc, arg>>

\* timer_expire ends: the header is completed, and the timeout enqueued to the
\* queue the timer names now.  If that is no queue, the timeout is gone.
TimerPost ==
    LET b == scan.buf
        q == queue[scan.i]
    IN  /\ scan.at = "post"
        /\ hdr' = [hdr EXCEPT ![b].expiration = scan.exp]
        /\ delivered' = IF q \in Queues THEN [delivered EXCEPT ![q] = @ \cup {b}]
                        ELSE delivered
        /\ scan' = ScanNext
        /\ UNCHANGED <<timerVars, poolVars, mine, cur_tick, itimer_running, handles, pc, arg>>

\* timer_notify ends: itimer_running is unlocked.
ScanEnd ==
    /\ Scanning /\ ~ScanMore
    /\ itimer_running' = FALSE
    /\ scan' = NoScan
    /\ UNCHANGED <<timerVars, poolVars, tmoVars, cur_tick, handles, pc, arg>>

\* The application takes a timeout from its queue.
Receive(t, q, b) ==
    /\ pc[t] = "idle" /\ b \in delivered[q]
    /\ delivered' = [delivered EXCEPT ![q] = @ \ {b}]
    /\ Regain({b})
    /\ UNCHANGED <<timerVars, poolVars, tickVars, handles, pc, arg>>

\* odp_timer_pool_destroy.  It waits for a running scan, whose lock it keeps,
\* aborts if timers are allocated, and stops the callback of its own core.
PoolDestroy(t) ==
    /\ pc[t] = "idle" /\ live /\ ~itimer_running /\ num_alloc = 0
    /\ live' = FALSE
    /\ itimer_running' = TRUE
    /\ UNCHANGED <<timerVars, first_free, num_alloc, high_wm, cur_tick, scan, tmoVars,
                   handles, pc, arg>>

Scan == ScanCheck \/ TimerExpire \/ TimerPost \/ ScanEnd
Finish(t) == TimerReset(t) \/ TimerFini(t) \/ TimerInsert(t)

Next ==
    \/ \E t \in Threads :
          \/ \E q \in Queues : TimerAlloc(t, q)
          \/ \E n \in Timers, abs \in 0 .. MaxTick + MaxRel, b \in Bufs \cup {None} :
                SetBegin(t, n, abs, b)
          \/ \E n \in Timers : Cancel(t, n) \/ TimerFree(t, n)
          \/ Finish(t)
          \/ \E q \in Queues, b \in Bufs : Receive(t, q, b)
          \/ PoolDestroy(t)
    \/ TimerNotify
    \/ Scan

Spec == Init /\ [][Next]_vars

\* The clock ticks, the callback runs, and a call that began ends.
FairSpec ==
    /\ Spec
    /\ WF_vars(TimerNotify) /\ WF_vars(Scan)
    /\ \A t \in Threads : WF_vars(Finish(t))
-----------------------------------------------------------------------------
TimerTypes ==
    /\ queue \in [Timers -> Queues \cup {None} \cup 0 .. NumTimers]
    /\ user_ptr \in [Timers -> Queues \cup {None}]
    /\ exp_tck \in [Timers -> 0 .. TMO_UNUSED]
    /\ tmo_buf \in [Timers -> Bufs \cup {None}]

PoolTypes ==
    /\ first_free \in 0 .. NumTimers /\ live \in BOOLEAN
    /\ num_alloc \in 0 .. NumTimers /\ high_wm \in 0 .. NumTimers

ScanState == [i : 0 .. NumTimers, tick : 0 .. MaxTick, high_wm : 0 .. NumTimers,
              at : {"next", "expire", "post"}, buf : Bufs \cup {None},
              exp : 0 .. TMO_UNUSED]

TickTypes == cur_tick \in 0 .. MaxTick /\ itimer_running \in BOOLEAN /\ scan \in ScanState

Header == [user_ptr : Queues \cup {None}, expiration : 0 .. TMO_UNUSED]

TmoTypes ==
    /\ hdr \in [Bufs -> Header] /\ delivered \in [Queues -> SUBSET Bufs] /\ mine \in SUBSET Bufs

CallTypes ==
    /\ handles \in SUBSET Timers
    /\ pc \in [Threads -> {"idle", "set", "fini", "insert"}] /\ arg \in [Threads -> Call]

\* Type correctness; the high watermark and the free list stay inside the arrays.
TypeOK == TimerTypes /\ PoolTypes /\ TickTypes /\ TmoTypes /\ CallTypes

\* A timer is active exactly while it has a timeout buffer: the case that
\* timer_expire calls "somehow active timer without user buffer" does not
\* occur, and no buffer is left in a timer that will not expire.
ActiveHasBuffer ==
    \A n \in Timers : exp_tck[n] < TMO_INACTIVE <=> tmo_buf[n] # None

\* The places a buffer can be in.
Places(b) ==
    {<<"app", 0>> : x \in {b} \cap mine}
    \cup {<<"call", t>> : t \in {u \in Threads : arg[u].buf = b}}
    \cup {<<"timer", n>> : n \in {m \in Timers : tmo_buf[m] = b}}
    \cup {<<"scan", 0>> : x \in {b} \cap {scan.buf}}
    \cup {<<"queue", q>> : q \in {r \in Queues : b \in delivered[r]}}

\* A timeout that is set, reset, cancelled, freed and expired at the same time
\* is delivered once or handed back once, never both and never neither.
OnePlace == \A b \in Bufs : Cardinality(Places(b)) = 1

\* The free list from first_free: its k-th index, NumTimers past the end.
FreeList[k \in 0 .. NumTimers] ==
    IF k = 0 THEN first_free
    ELSE IF FreeList[k - 1] \in Timers THEN queue[FreeList[k - 1]]
    ELSE NumTimers

\* The free list runs through the timers that are neither allocated nor being
\* freed, each once, and ends: the field that links it is the destination
\* queue of an allocated timer.
FreeListExact ==
    LET free == {FreeList[k] : k \in 0 .. NumTimers - num_alloc - 1}
        out  == handles \cup {arg[t].idx : t \in {u \in Threads : pc[u] \in {"fini", "insert"}}}
    IN  free = Timers \ out /\ FreeList[NumTimers - num_alloc] = NumTimers

\* A timeout is on the queue its timer was allocated for, which is also the
\* user pointer it carries, and not before its tick has passed.
RightTimeout ==
    \A q \in Queues : \A b \in delivered[q] :
        hdr[b].user_ptr = q /\ hdr[b].expiration < cur_tick + 1

Due(b)   == \E n \in Timers : tmo_buf[n] = b /\ exp_tck[n] <= cur_tick
Later(b) == \E n \in Timers : tmo_buf[n] = b /\ exp_tck[n] > cur_tick

\* A timeout that is due reaches the application, unless its timer is set to a
\* later tick first.
DueDelivered ==
    \A b \in Bufs :
        Due(b) ~> Later(b) \/ b \in mine \cup UNION {delivered[q] : q \in Queues}
=============================================================================
