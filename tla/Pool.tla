-------------------------------- MODULE Pool --------------------------------
(***************************************************************************)
(* One buffer pool (odp_pool.c) from its creation to its destruction: the   *)
(* ring of free buffers, the cache each thread keeps of buffers it freed,   *)
(* and the watermarks that decide where a freed buffer goes.                *)
(*                                                                          *)
(* The calls of the ring are atomic here, as BufferRing shows they may be   *)
(* taken to be; what a caller does with the number of buffers a call        *)
(* reported comes in a later step.                                          *)
(***************************************************************************)
EXTENDS Integers, Sequences, FiniteSets, SequencesExt

CONSTANTS
    Threads,
    Bufs,        \* the buffers of the pool
    MaxAlloc     \* the largest number of buffers asked for at once

ASSUME PoolAssumption == IsFiniteSet(Bufs) /\ Bufs # {} /\ MaxAlloc \in Nat \ {0}

VARIABLES
    ring,            \* the buffers in the ring, in order
    cons, prod,      \* the positions of its ends
    cache,           \* local_cache: the free list of each thread
    own,             \* the buffers the application has from each thread
    low_wm_assert,
    alive,           \* pool_shm is not ODP_SHM_INVALID
    pc,              \* where each thread is
    bufcount,        \* the count the ring call reported to it
    n_buffers        \* how many buffers it asked for or pushed

vars == <<ring, cons, prod, cache, own, low_wm_assert, alive, pc, bufcount, n_buffers>>

buf_num == Cardinality(Bufs)
low_wm == buf_num \div 4
high_wm == buf_num \div 2

\* The ring of a pool has one slot more than there are buffers.
Plus(p, k) == IF p + k > buf_num + 1 THEN p + k - (buf_num + 1) ELSE p + k

\* odp_buffer_ring_get_count: the difference of the two positions, unsigned.
get_count == IF prod >= cons THEN prod - cons
                             ELSE prod - cons + (buf_num + 1) + 1

\* odp_pool_create pushes the buffers one by one.
Init ==
    /\ ring \in SetToSeqs(Bufs)
    /\ cons = 0 /\ prod = buf_num
    /\ cache = [t \in Threads |-> <<>>]
    /\ own = [t \in Threads |-> {}]
    /\ low_wm_assert = FALSE
    /\ alive = TRUE
    /\ pc = [t \in Threads |-> "app"]
    /\ bufcount = [t \in Threads |-> 0]
    /\ n_buffers = [t \in Threads |-> 0]

Fewer(a, b) == IF a < b THEN a ELSE b
Drop(s, k) == SubSeq(s, k + 1, Len(s))
Take(s, k) == SubSeq(s, 1, k)

\* A ring call leaves the thread with the count it reported, at label l.
Reported(t, l, count, k) ==
    /\ pc' = [pc EXCEPT ![t] = l]
    /\ bufcount' = [bufcount EXCEPT ![t] = count]
    /\ n_buffers' = [n_buffers EXCEPT ![t] = k]

Forget(t) == Reported(t, "app", 0, 0)

\* buffer_alloc: from the cache of the thread if there is anything in it, or else from
\* the ring.
BufferAlloc(t) ==
    /\ alive /\ pc[t] = "app"
    /\ \E num \in 1..MaxAlloc :
          IF cache[t] # <<>>
          THEN LET k == Fewer(num, Len(cache[t]))
               IN /\ own' = [own EXCEPT ![t] = @ \cup ToSet(Take(cache[t], k))]
                  /\ cache' = [cache EXCEPT ![t] = Drop(@, k)]
                  /\ UNCHANGED <<ring, cons, pc, bufcount, n_buffers>>
          ELSE LET k == Fewer(num, Len(ring))
               IN /\ own' = [own EXCEPT ![t] = @ \cup ToSet(Take(ring, k))]
                  /\ ring' = Drop(ring, k)
                  /\ cons' = Plus(cons, k)
                  /\ Reported(t, "getWm", Len(ring) - k, num)
                  /\ UNCHANGED cache
    /\ UNCHANGED <<prod, low_wm_assert, alive>>

\* get_buf_multi after the ring call: the low watermark.
GetWatermark(t) ==
    /\ pc[t] = "getWm"
    /\ low_wm_assert' = \/ low_wm_assert
                        \/ /\ bufcount[t] <= low_wm
                           /\ bufcount[t] + n_buffers[t] > low_wm
    /\ Forget(t)
    /\ UNCHANGED <<ring, cons, prod, cache, own, alive>>

\* Mutant of RetBuf: the position is not wrapped.
RetBufNoWrap(t, s, l) ==
    /\ ring' = ring \o s
    /\ prod' = prod + Len(s)
    /\ Reported(t, l, Len(ring) + Len(s), Len(s))

\* ret_buf: the push, with the high watermark to look at afterwards.
RetBuf(t, s, l) ==
    /\ ring' = ring \o s
    /\ prod' = Plus(prod, Len(s))
    /\ Reported(t, l, Len(ring) + Len(s), Len(s))

RetWatermark(t) ==
    low_wm_assert' = (low_wm_assert /\ ~(/\ bufcount[t] >= high_wm
                                         /\ bufcount[t] - n_buffers[t] < high_wm))

\* odp_buffer_free: to the ring while buffers are scarce, or else to the cache.
BufferFree(t) ==
    /\ alive /\ pc[t] = "app"
    /\ \E b \in own[t] :
          /\ own' = [own EXCEPT ![t] = @ \ {b}]
          /\ IF low_wm_assert
             THEN RetBuf(t, <<b>>, "retWm") /\ UNCHANGED cache
             ELSE /\ cache' = [cache EXCEPT ![t] = <<b>> \o @]
                  /\ UNCHANGED <<ring, prod, pc, bufcount, n_buffers>>
    /\ UNCHANGED <<cons, low_wm_assert, alive>>

\* odp_buffer_free_multi: to the ring.
BufferFreeMulti(t) ==
    /\ alive /\ pc[t] = "app"
    /\ \E S \in SUBSET own[t] \ {{}} : \E s \in SetToSeqs(S) :
          /\ own' = [own EXCEPT ![t] = @ \ S]
          /\ RetBuf(t, s, "retWm")
    /\ UNCHANGED <<cons, cache, low_wm_assert, alive>>

\* A buffer given to another thread of the application.
Hand(t) ==
    /\ alive /\ pc[t] = "app"
    /\ \E u \in Threads \ {t}, b \in own[t] :
          own' = [own EXCEPT ![t] = @ \ {b}, ![u] = @ \cup {b}]
    /\ UNCHANGED <<ring, cons, prod, cache, low_wm_assert, alive, pc, bufcount, n_buffers>>

RetDone(t) ==
    /\ pc[t] = "retWm"
    /\ RetWatermark(t)
    /\ Forget(t)
    /\ UNCHANGED <<ring, cons, prod, cache, own, alive>>

\* Mutant of FlushCaches: the flushed list is not reset.
FlushCachesKeep(t) ==
    /\ alive /\ pc[t] = "app" /\ cache[t] # <<>>
    /\ RetBuf(t, cache[t], "retWm")
    /\ UNCHANGED <<cons, cache, own, low_wm_assert, alive>>

\* odp_pool_term_local: the thread leaves and flushes its cache.
FlushCaches(t) ==
    /\ alive /\ pc[t] = "app" /\ cache[t] # <<>>
    /\ RetBuf(t, cache[t], "retWm")
    /\ cache' = [cache EXCEPT ![t] = <<>>]
    /\ UNCHANGED <<cons, own, low_wm_assert, alive>>

\* Mutant of DestroyFlush: the cache of the caller is not flushed.
DestroyNoFlush(t) ==
    /\ alive /\ pc[t] = "app"
    /\ pc' = [pc EXCEPT ![t] = "destroyCount"]
    /\ UNCHANGED <<ring, cons, prod, cache, own, low_wm_assert, alive, bufcount, n_buffers>>

\* odp_pool_destroy, up to the count: the caller's own cache is flushed.  The pool lock
\* is held to the end of the call.
Destroying == {"destroyWm", "destroyCount"}
DestroyFlush(t) ==
    /\ alive /\ pc[t] = "app"
    /\ \A u \in Threads : pc[u] \notin Destroying
    /\ IF cache[t] = <<>>
       THEN pc' = [pc EXCEPT ![t] = "destroyCount"] /\ UNCHANGED <<ring, prod, bufcount, n_buffers>>
       ELSE RetBuf(t, cache[t], "destroyWm")
    /\ cache' = [cache EXCEPT ![t] = <<>>]
    /\ UNCHANGED <<cons, own, low_wm_assert, alive>>

DestroyWatermark(t) ==
    /\ pc[t] = "destroyWm"
    /\ RetWatermark(t)
    /\ Reported(t, "destroyCount", 0, 0)
    /\ UNCHANGED <<ring, cons, prod, cache, own, alive>>

\* "Call fails if pool has allocated buffers".
DestroyCount(t) ==
    /\ pc[t] = "destroyCount"
    /\ alive' = (get_count < buf_num)
    /\ Forget(t)
    /\ UNCHANGED <<ring, cons, prod, cache, own, low_wm_assert>>

Next ==
    \E t \in Threads :
       \/ BufferAlloc(t) \/ GetWatermark(t)
       \/ BufferFree(t) \/ BufferFreeMulti(t) \/ Hand(t) \/ RetDone(t)
       \/ FlushCaches(t)
       \/ DestroyFlush(t) \/ DestroyWatermark(t) \/ DestroyCount(t)

Spec == Init /\ [][Next]_vars

-----------------------------------------------------------------------------
(* Properties *)

\* Type correctness; the positions of the ring and what is in it agree.
TypeOK ==
    /\ ring \in Seq(Bufs)
    /\ cons \in 0..buf_num+1 /\ prod \in 0..buf_num+1
    /\ prod = Plus(cons, Len(ring))
    /\ cache \in [Threads -> Seq(Bufs)]
    /\ own \in [Threads -> SUBSET Bufs]
    /\ low_wm_assert \in BOOLEAN /\ alive \in BOOLEAN
    /\ pc \in [Threads -> {"app", "getWm", "retWm"} \cup Destroying]
    /\ bufcount \in [Threads -> 0..buf_num]
    /\ n_buffers \in [Threads -> 0..MaxAlloc + buf_num]

Distinct(s) == Cardinality(ToSet(s)) = Len(s)

\* Every buffer of the pool is in one place: the ring, the cache of one thread, or the
\* application.  None is lost, none can be handed out twice.
Conserved ==
    /\ Distinct(ring) /\ \A t \in Threads : Distinct(cache[t])
    /\ \A b \in Bufs :
          Cardinality({t \in Threads : b \in own[t]})
          + Cardinality({t \in Threads : b \in ToSet(cache[t])})
          + (IF b \in ToSet(ring) THEN 1 ELSE 0) = 1

\* odp_pool_destroy fails only if a buffer is out: allocated, or in the cache of another
\* thread.
RefusedOnlyIfOut ==
    [][\A t \in Threads : pc[t] = "destroyCount" /\ pc'[t] = "app" /\ alive'
          => \E u \in Threads : own[u] # {} \/ (u # t /\ cache[u] # <<>>)]_vars

\* odp_pool_destroy fails if a buffer is allocated.
DestroyedOnlyIfFree == ~alive => \A t \in Threads : own[t] = {}
=============================================================================
