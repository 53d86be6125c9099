------------------------------- MODULE Sched -------------------------------
(***************************************************************************)
(* The queue table (platform/mppa/odp_queue.c) and the event scheduler      *)
(* (platform/mppa/odp_schedule.c).                                          *)
(*                                                                          *)
(* Each scheduled queue owns one command buffer, its cmd_ev.  While the     *)
(* queue is in scheduling (status SCHED, or DESTROYED waiting to be         *)
(* finalized) that buffer travels: through the FIFO pri_queue of the        *)
(* queue's priority, into the hands of a thread inside schedule(), or into  *)
(* the scheduler context of a thread that holds an atomic queue.  Whoever   *)
(* has the command may dequeue from the queue.                              *)
(*                                                                          *)
(* An action is one critical section of a queue lock (or one access to a    *)
(* priority queue, itself a locked queue).  What a function does after it   *)
(* has unlocked is another action, selected by the thread's pc.  A call     *)
(* that fails and changes nothing is a stuttering step.  The events a call  *)
(* hands to the application go back to the pool of events it may enqueue.   *)
(***************************************************************************)
EXTENDS Integers, Sequences, FiniteSets

CONSTANTS Threads,   \* ODP threads, each with its sched_local context
          Queues,    \* slots of queue_tbl
          Events,    \* application events
          Cmds,      \* buffers of odp_sched_pool (NUM_SCHED_CMD of them)
          NPrio,     \* ODP_CONFIG_SCHED_PRIOS
          MaxDeq,    \* MAX_DEQ
          Groups,    \* named schedule groups
          GroupAll,  \* ODP_SCHED_GROUP_ALL
          Pausers,   \* threads of the application that may pause or leave
          Kinds,     \* kinds of queue the application creates
          None       \* ODP_EVENT_INVALID, ODP_QUEUE_INVALID, NULL

\* What odp_queue_create is asked for: a POLL queue, or a SCHED queue that is
\* scheduled to one thread at a time or to many.
POLL == "poll"
ATOMIC == "atomic"
PARALLEL == "parallel"

ASSUME SchedAssumption ==
    /\ NPrio \in Nat \ {0}
    /\ MaxDeq \in Nat \ {0}
    /\ Kinds \subseteq {POLL, ATOMIC, PARALLEL}
    /\ GroupAll \notin Groups
    /\ Pausers \subseteq Threads
    /\ None \notin Cmds
    /\ None \notin Queues
    /\ None \notin Events
    /\ None \notin 1..NPrio

VARIABLES status, kind, prio, group, head, cmd_ev, pri_queue,  \* queue entries
          qe, freecmds,                      \* command buffers and their pool
          priq, pri_count, mask,             \* sched_t
          pc, arg, i, ev,                    \* locals of a thread's calls
          held, heldpri, buf_hdr, local_qe, pause   \* sched_local

queueVars == <<status, kind, prio, group, head, cmd_ev, pri_queue>>
paramVars == <<kind, prio, group>>
cmdVars == <<qe, freecmds>>
ctxVars == <<held, heldpri, buf_hdr, local_qe, pause>>
vars == <<queueVars, cmdVars, priq, pri_count, mask, pc, arg, i, ev, ctxVars>>

Prios == 1..NPrio

\* QUEUE_STATUS_*
FREE == 0
DESTROYED == 1
READY == 2
NOTSCHED == 3
SCHED == 4

Elems(s) == {s[n] : n \in 1..Len(s)}

\* Events the application owns: neither queued nor prefetched by a thread.
AppEvents == {e \in Events : /\ \A q \in Queues : e \notin Elems(head[q])
                             /\ \A t \in Threads : e \notin Elems(buf_hdr[t])}

\* The non-empty batches of events that one enqueue call may carry.
Batches(S) == {<<e>> : e \in S}
              \cup {b \in S \X S : b[1] # b[2]}

Init ==
    /\ status = [q \in Queues |-> FREE]
    /\ kind = [q \in Queues |-> POLL]
    /\ prio = [q \in Queues |-> 1]
    /\ group = [q \in Queues |-> GroupAll]
    /\ head = [q \in Queues |-> <<>>]
    /\ cmd_ev = [q \in Queues |-> None]
    /\ pri_queue = [q \in Queues |-> None]
    /\ qe = [c \in Cmds |-> None]
    /\ freecmds = Cmds
    /\ priq = [p \in Prios |-> <<>>]
    /\ pri_count = [p \in Prios |-> 0]
    /\ mask = [g \in Groups |-> {}]
    /\ pc = [t \in Threads |-> "app"]
    /\ arg = [t \in Threads |-> None]
    /\ i = [t \in Threads |-> 1]
    /\ ev = [t \in Threads |-> None]
    /\ held = [t \in Threads |-> None]
    /\ heldpri = [t \in Threads |-> None]
    /\ buf_hdr = [t \in Threads |-> <<>>]
    /\ local_qe = [t \in Threads |-> None]
    /\ pause = [t \in Threads |-> FALSE]

-----------------------------------------------------------------------------
(* odp_queue.c *)

\* odp_queue_create: the locked part takes a free slot.  The scan for it reads
\* the status of the slots without their locks, so any free slot may be taken.
QueueCreate(t, q, k, p, g) ==
    /\ pc[t] = "app"
    /\ status[q] = FREE
    /\ status' = [status EXCEPT ![q] = IF k = POLL THEN READY ELSE NOTSCHED]
    /\ kind' = [kind EXCEPT ![q] = k]
    /\ prio' = [prio EXCEPT ![q] = p]
    /\ group' = [group EXCEPT ![q] = g]
    /\ head' = [head EXCEPT ![q] = <<>>]
    /\ cmd_ev' = [cmd_ev EXCEPT ![q] = None]
    /\ pri_queue' = [pri_queue EXCEPT ![q] = None]
    /\ IF k = POLL
       THEN UNCHANGED <<pc, arg>>
       ELSE /\ pc' = [pc EXCEPT ![t] = "create"]
            /\ arg' = [arg EXCEPT ![t] = q]
    /\ UNCHANGED <<cmdVars, priq, pri_count, mask, i, ev, ctxVars>>

\* schedule_queue_init, called once the slot is unlocked: a command buffer for
\* the queue, and one more queue at its priority (pri_set).
ScheduleQueueInit(t) ==
    LET q == arg[t] IN
    /\ pc[t] = "create"
    /\ \E c \in freecmds :
          /\ freecmds' = freecmds \ {c}
          /\ qe' = [qe EXCEPT ![c] = q]
          /\ cmd_ev' = [cmd_ev EXCEPT ![q] = c]
    /\ pri_count' = [pri_count EXCEPT ![prio[q]] = @ + 1]
    /\ pri_queue' = [pri_queue EXCEPT ![q] = prio[q]]
    /\ pc' = [pc EXCEPT ![t] = "app"]
    /\ arg' = [arg EXCEPT ![t] = None]
    /\ UNCHANGED <<status, paramVars, head, priq, mask, i, ev, ctxVars>>

\* schedule_queue_init when odp_buffer_alloc finds no buffer (they may all sit
\* in the local caches of other threads): odp_queue_create returns
\* ODP_QUEUE_INVALID and leaves the slot as it is.
ScheduleQueueInitFail(t) ==
    /\ pc[t] = "create"
    /\ pc' = [pc EXCEPT ![t] = "app"]
    /\ arg' = [arg EXCEPT ![t] = None]
    /\ UNCHANGED <<queueVars, cmdVars, priq, pri_count, mask, i, ev, ctxVars>>

\* Mutant: schedule_queue_destroy without pri_clr.
ScheduleQueueDestroyNoClr(q) ==
    /\ freecmds' = freecmds \cup {cmd_ev[q]}
    /\ cmd_ev' = [cmd_ev EXCEPT ![q] = None]
    /\ pri_queue' = [pri_queue EXCEPT ![q] = None]
    /\ UNCHANGED <<qe, pri_count>>

\* schedule_queue_destroy: give the command back, one queue less (pri_clr).
ScheduleQueueDestroy(q) ==
    /\ freecmds' = freecmds \cup {cmd_ev[q]}
    /\ pri_count' = [pri_count EXCEPT ![prio[q]] = @ - 1]
    /\ cmd_ev' = [cmd_ev EXCEPT ![q] = None]
    /\ pri_queue' = [pri_queue EXCEPT ![q] = None]
    /\ UNCHANGED qe

\* The application has a handle of q: odp_queue_create returned it.
HasHandle(q) == kind[q] = POLL \/ cmd_ev[q] # None

\* Mutant: a queue in scheduling is freed at once, as one out of scheduling is.
QueueDestroyAtOnce(t, q) ==
    /\ pc[t] = "app"
    /\ HasHandle(q)
    /\ status[q] \notin {FREE, DESTROYED}
    /\ head[q] = <<>>
    /\ status' = [status EXCEPT ![q] = FREE]
    /\ IF status[q] # READY
       THEN ScheduleQueueDestroy(q)
       ELSE UNCHANGED <<cmdVars, cmd_ev, pri_queue, pri_count>>
    /\ UNCHANGED <<paramVars, head, priq, mask, pc, arg, i, ev, ctxVars>>

\* odp_queue_destroy, when it does not fail.
QueueDestroy(t, q) ==
    /\ pc[t] = "app"
    /\ HasHandle(q)
    /\ status[q] \notin {FREE, DESTROYED}
    /\ head[q] = <<>>
    /\ status' = [status EXCEPT ![q] = IF @ = SCHED THEN DESTROYED ELSE FREE]
    /\ IF status[q] = NOTSCHED
       THEN ScheduleQueueDestroy(q)
       ELSE UNCHANGED <<cmdVars, cmd_ev, pri_queue, pri_count>>
    /\ UNCHANGED <<paramVars, head, priq, mask, pc, arg, i, ev, ctxVars>>

\* Mutant: every enqueue to a scheduled queue schedules it.
QueueEnqAlwaysWake(t, q, evs) ==
    /\ pc[t] = "app"
    /\ HasHandle(q)
    /\ status[q] >= READY
    /\ head' = [head EXCEPT ![q] = @ \o evs]
    /\ IF status[q] # READY
       THEN /\ status' = [status EXCEPT ![q] = SCHED]
            /\ pc' = [pc EXCEPT ![t] = "wake"]
            /\ arg' = [arg EXCEPT ![t] = q]
       ELSE UNCHANGED <<status, pc, arg>>
    /\ UNCHANGED <<paramVars, cmd_ev, pri_queue, cmdVars, priq, pri_count, mask,
                   i, ev, ctxVars>>

\* queue_enq and queue_enq_multi up to their unlock: append the batch; the first
\* events of a queue out of scheduling put it back, which the caller must do
\* after the unlock.
QueueEnq(t, q, evs) ==
    /\ pc[t] = "app"
    /\ HasHandle(q)
    /\ status[q] >= READY
    /\ head' = [head EXCEPT ![q] = @ \o evs]
    /\ IF status[q] = NOTSCHED
       THEN /\ status' = [status EXCEPT ![q] = SCHED]
            /\ pc' = [pc EXCEPT ![t] = "wake"]
            /\ arg' = [arg EXCEPT ![t] = q]
       ELSE UNCHANGED <<status, pc, arg>>
    /\ UNCHANGED <<paramVars, cmd_ev, pri_queue, cmdVars, priq, pri_count, mask,
                   i, ev, ctxVars>>

\* odp_queue_enq on a priority queue: they are POLL queues, always READY.
PriEnq(p, c) == priq' = [priq EXCEPT ![p] = Append(@, c)]

\* schedule_queue, called after the unlock.
ScheduleQueue(t) ==
    /\ pc[t] = "wake"
    /\ PriEnq(pri_queue[arg[t]], cmd_ev[arg[t]])
    /\ pc' = [pc EXCEPT ![t] = "app"]
    /\ arg' = [arg EXCEPT ![t] = None]
    /\ UNCHANGED <<queueVars, cmdVars, pri_count, mask, i, ev, ctxVars>>

\* odp_queue_deq and odp_queue_deq_multi by the application, on the queues the
\* API allows it on.
QueueDeq(t, q, n) ==
    /\ pc[t] = "app"
    /\ kind[q] = POLL
    /\ status[q] = READY
    /\ n \in 1..Len(head[q])
    /\ head' = [head EXCEPT ![q] = SubSeq(@, n + 1, Len(@))]
    /\ UNCHANGED <<status, paramVars, cmd_ev, pri_queue, cmdVars, priq,
                   pri_count, mask, pc, arg, i, ev, ctxVars>>

-----------------------------------------------------------------------------
(* odp_schedule.c *)

\* Mutant: the context is released although prefetched events are left.
ReleaseAtomicEarly(t) ==
    IF held[t] # None
    THEN /\ PriEnq(heldpri[t], held[t])
         /\ held' = [held EXCEPT ![t] = None]
         /\ heldpri' = [heldpri EXCEPT ![t] = None]
    ELSE UNCHANGED <<priq, held, heldpri>>

\* Mutant: sched_local.pri_queue is not reset after the release.
ReleaseAtomicNoReset(t) ==
    IF held[t] # None /\ buf_hdr[t] = <<>>
    THEN /\ PriEnq(heldpri[t], held[t])
         /\ UNCHANGED <<held, heldpri>>
    ELSE UNCHANGED <<priq, held, heldpri>>

\* odp_schedule_release_atomic: only when no prefetched event is left.
ReleaseAtomic(t) ==
    IF held[t] # None /\ buf_hdr[t] = <<>>
    THEN /\ PriEnq(heldpri[t], held[t])
         /\ held' = [held EXCEPT ![t] = None]
         /\ heldpri' = [heldpri EXCEPT ![t] = None]
    ELSE UNCHANGED <<priq, held, heldpri>>

\* odp_schedule_release_atomic by the application.
AppRelease(t) ==
    /\ pc[t] = "app"
    /\ held[t] # None
    /\ ReleaseAtomic(t)
    /\ UNCHANGED <<queueVars, cmdVars, pri_count, mask, pc, arg, i, ev, buf_hdr,
                   local_qe, pause>>

\* Mutant: the context is cleared without being released.
TermLocalForget(t) ==
    /\ pc[t] = "app"
    /\ t \in Pausers
    /\ buf_hdr[t] = <<>>
    /\ held' = [held EXCEPT ![t] = None]
    /\ heldpri' = [heldpri EXCEPT ![t] = None]
    /\ local_qe' = [local_qe EXCEPT ![t] = None]
    /\ pause' = [pause EXCEPT ![t] = FALSE]
    /\ UNCHANGED <<queueVars, cmdVars, priq, pri_count, mask, pc, arg, i, ev, buf_hdr>>

\* odp_schedule_term_local, when it does not fail.
TermLocal(t) ==
    /\ pc[t] = "app"
    /\ t \in Pausers
    /\ buf_hdr[t] = <<>>
    /\ ReleaseAtomic(t)
    /\ local_qe' = [local_qe EXCEPT ![t] = None]
    /\ pause' = [pause EXCEPT ![t] = FALSE]
    /\ UNCHANGED <<queueVars, cmdVars, pri_count, mask, pc, arg, i, ev, buf_hdr>>

\* odp_schedule_pause and odp_schedule_resume.
Pause(t) ==
    /\ pc[t] = "app"
    /\ t \in Pausers
    /\ pause' = [pause EXCEPT ![t] = ~@]
    /\ UNCHANGED <<queueVars, cmdVars, priq, pri_count, mask, pc, arg, i, ev,
                   held, heldpri, buf_hdr, local_qe>>

\* odp_schedule_group_join and odp_schedule_group_leave of one thread.
GroupChange(g, t) ==
    /\ mask' = [mask EXCEPT ![g] = IF t \in @ THEN @ \ {t} ELSE @ \cup {t}]
    /\ UNCHANGED <<queueVars, cmdVars, priq, pri_count, pc, arg, i, ev, ctxVars>>

\* schedule() when events were prefetched by an earlier call: copy_events.
ScheduleLocal(t) ==
    /\ pc[t] = "app"
    /\ \E n \in 1..Len(buf_hdr[t]) :
          buf_hdr' = [buf_hdr EXCEPT ![t] = SubSeq(@, n + 1, Len(@))]
    /\ UNCHANGED <<queueVars, cmdVars, priq, pri_count, mask, pc, arg, i, ev,
                   held, heldpri, local_qe, pause>>

\* schedule() otherwise: release the context, then scan the priorities unless
\* the thread is paused.
ScheduleBegin(t) ==
    /\ pc[t] = "app"
    /\ buf_hdr[t] = <<>>
    /\ ReleaseAtomic(t)
    /\ pc' = [pc EXCEPT ![t] = IF pause[t] THEN "app" ELSE "scan"]
    /\ i' = [i EXCEPT ![t] = 1]
    /\ UNCHANGED <<queueVars, cmdVars, pri_count, mask, arg, ev, buf_hdr,
                   local_qe, pause>>

\* Mutant: the scan goes one priority too far.
NextPrioPast(t) ==
    /\ pc' = [pc EXCEPT ![t] = IF i[t] <= NPrio THEN "scan" ELSE "app"]
    /\ i' = [i EXCEPT ![t] = IF i[t] <= NPrio THEN @ + 1 ELSE 1]

\* The next priority of the scan; past the last one schedule() returns 0.
NextPrio(t) ==
    /\ pc' = [pc EXCEPT ![t] = IF i[t] < NPrio THEN "scan" ELSE "app"]
    /\ i' = [i EXCEPT ![t] = IF i[t] < NPrio THEN @ + 1 ELSE 1]

\* Nothing to take at this priority.
ScanEmpty(t) ==
    /\ pc[t] = "scan"
    /\ pri_count[i[t]] = 0 \/ priq[i[t]] = <<>>
    /\ NextPrio(t)
    /\ UNCHANGED <<queueVars, cmdVars, priq, pri_count, mask, arg, ev, ctxVars>>

\* odp_queue_deq on the priority queue.
ScanTake(t) ==
    /\ pc[t] = "scan"
    /\ pri_count[i[t]] # 0
    /\ priq[i[t]] # <<>>
    /\ ev' = [ev EXCEPT ![t] = Head(priq[i[t]])]
    /\ priq' = [priq EXCEPT ![i[t]] = Tail(@)]
    /\ pc' = [pc EXCEPT ![t] = "token"]
    /\ UNCHANGED <<queueVars, cmdVars, pri_count, mask, arg, i, ctxVars>>

Eligible(t, q) == group[q] # GroupAll => t \in mask[group[q]]

\* Mutant: the command goes back to the next priority of the scan.
NotEligibleNextPrio(t) ==
    /\ pc[t] = "token"
    /\ ~Eligible(t, qe[ev[t]])
    /\ PriEnq(IF i[t] < NPrio THEN i[t] + 1 ELSE i[t], ev[t])
    /\ ev' = [ev EXCEPT ![t] = None]
    /\ NextPrio(t)
    /\ UNCHANGED <<queueVars, cmdVars, pri_count, mask, arg, ctxVars>>

\* The thread is not in the queue's group: continue scheduling the queue.
NotEligible(t) ==
    /\ pc[t] = "token"
    /\ ~Eligible(t, qe[ev[t]])
    /\ PriEnq(i[t], ev[t])
    /\ ev' = [ev EXCEPT ![t] = None]
    /\ NextPrio(t)
    /\ UNCHANGED <<queueVars, cmdVars, pri_count, mask, arg, ctxVars>>

\* Mutant: schedule() treats a destroyed queue as an empty one.
DeqDestroyedDrop(t) ==
    /\ pc[t] = "token"
    /\ Eligible(t, qe[ev[t]])
    /\ status[qe[ev[t]]] < READY
    /\ ev' = [ev EXCEPT ![t] = None]
    /\ NextPrio(t)
    /\ UNCHANGED <<queueVars, cmdVars, priq, pri_count, mask, arg, ctxVars>>

\* queue_deq_multi on a queue that is not READY: its finalization is next.
DeqDestroyed(t) ==
    /\ pc[t] = "token"
    /\ Eligible(t, qe[ev[t]])
    /\ status[qe[ev[t]]] < READY
    /\ pc' = [pc EXCEPT ![t] = "final"]
    /\ UNCHANGED <<queueVars, cmdVars, priq, pri_count, mask, arg, i, ev, ctxVars>>

\* Mutant: an empty queue is dropped by schedule() and its status left SCHED.
DeqEmptyKeepStatus(t) ==
    /\ pc[t] = "token"
    /\ Eligible(t, qe[ev[t]])
    /\ status[qe[ev[t]]] >= READY
    /\ head[qe[ev[t]]] = <<>>
    /\ ev' = [ev EXCEPT ![t] = None]
    /\ NextPrio(t)
    /\ UNCHANGED <<queueVars, cmdVars, priq, pri_count, mask, arg, ctxVars>>

\* queue_deq_multi on an empty queue: it leaves scheduling, the command stays
\* with the queue entry.
DeqEmpty(t) ==
    LET q == qe[ev[t]] IN
    /\ pc[t] = "token"
    /\ Eligible(t, q)
    /\ status[q] >= READY
    /\ head[q] = <<>>
    /\ status' = [status EXCEPT ![q] = IF @ = SCHED THEN NOTSCHED ELSE @]
    /\ ev' = [ev EXCEPT ![t] = None]
    /\ NextPrio(t)
    /\ UNCHANGED <<paramVars, head, cmd_ev, pri_queue, cmdVars, priq, pri_count,
                   mask, arg, ctxVars>>

\* Mutant: the head is set to the last event taken, not to the one after it.
DeqEventsKeepLast(t) ==
    LET q == qe[ev[t]]
        n == IF Len(head[q]) < MaxDeq THEN Len(head[q]) ELSE MaxDeq
    IN
    /\ pc[t] = "token"
    /\ Eligible(t, q)
    /\ status[q] >= READY
    /\ head[q] # <<>>
    /\ head' = [head EXCEPT ![q] = SubSeq(@, n, Len(@))]
    /\ \E m \in 1..n : buf_hdr' = [buf_hdr EXCEPT ![t] = SubSeq(head[q], m + 1, n)]
    /\ local_qe' = [local_qe EXCEPT ![t] = q]
    /\ IF kind[q] = ATOMIC
       THEN /\ held' = [held EXCEPT ![t] = ev[t]]
            /\ heldpri' = [heldpri EXCEPT ![t] = i[t]]
            /\ ev' = [ev EXCEPT ![t] = None]
            /\ pc' = [pc EXCEPT ![t] = "app"]
       ELSE /\ pc' = [pc EXCEPT ![t] = "again"]
            /\ UNCHANGED <<held, heldpri, ev>>
    /\ UNCHANGED <<status, paramVars, cmd_ev, pri_queue, cmdVars, priq, pri_count,
                   mask, arg, i, pause>>

\* queue_deq_multi of up to MaxDeq events, of which schedule() hands out the
\* first ones.  An atomic queue's command is kept in the thread's context.
DeqEvents(t) ==
    LET q == qe[ev[t]]
        n == IF Len(head[q]) < MaxDeq THEN Len(head[q]) ELSE MaxDeq
    IN
    /\ pc[t] = "token"
    /\ Eligible(t, q)
    /\ status[q] >= READY
    /\ head[q] # <<>>
    /\ head' = [head EXCEPT ![q] = SubSeq(@, n + 1, Len(@))]
    /\ \E m \in 1..n : buf_hdr' = [buf_hdr EXCEPT ![t] = SubSeq(head[q], m + 1, n)]
    /\ local_qe' = [local_qe EXCEPT ![t] = q]
    /\ IF kind[q] = ATOMIC
       THEN /\ held' = [held EXCEPT ![t] = ev[t]]
            /\ heldpri' = [heldpri EXCEPT ![t] = i[t]]
            /\ ev' = [ev EXCEPT ![t] = None]
            /\ pc' = [pc EXCEPT ![t] = "app"]
       ELSE /\ pc' = [pc EXCEPT ![t] = "again"]
            /\ UNCHANGED <<held, heldpri, ev>>
    /\ UNCHANGED <<status, paramVars, cmd_ev, pri_queue, cmdVars, priq, pri_count,
                   mask, arg, i, pause>>

\* A parallel queue goes back to its priority queue before schedule() returns.
Reschedule(t) ==
    /\ pc[t] = "again"
    /\ PriEnq(i[t], ev[t])
    /\ ev' = [ev EXCEPT ![t] = None]
    /\ pc' = [pc EXCEPT ![t] = "app"]
    /\ UNCHANGED <<queueVars, cmdVars, pri_count, mask, arg, i, ctxVars>>

\* queue_destroy_finalize.
DestroyFinalize(t) ==
    LET q == qe[ev[t]] IN
    /\ pc[t] = "final"
    /\ IF status[q] = DESTROYED
       THEN /\ status' = [status EXCEPT ![q] = FREE]
            /\ ScheduleQueueDestroy(q)
       ELSE UNCHANGED <<status, cmdVars, cmd_ev, pri_queue, pri_count>>
    /\ ev' = [ev EXCEPT ![t] = None]
    /\ NextPrio(t)
    /\ UNCHANGED <<paramVars, head, priq, mask, arg, ctxVars>>

-----------------------------------------------------------------------------
\* A call of odp_schedule or odp_schedule_multi.
ScheduleCall(t) == ScheduleLocal(t) \/ ScheduleBegin(t)

\* What a thread does inside a call it has made.
Step(t) ==
    \/ ScheduleQueueInit(t) \/ ScheduleQueueInitFail(t) \/ ScheduleQueue(t)
    \/ ScanEmpty(t) \/ ScanTake(t) \/ NotEligible(t)
    \/ DeqDestroyed(t) \/ DeqEmpty(t) \/ DeqEvents(t)
    \/ Reschedule(t) \/ DestroyFinalize(t)

\* The calls the application may make.
AppCall(t) ==
    \/ \E q \in Queues, k \in Kinds, p \in Prios, g \in Groups \cup {GroupAll} :
          QueueCreate(t, q, k, p, g)
    \/ \E q \in Queues : QueueDestroy(t, q)
    \/ \E q \in Queues, evs \in Batches(AppEvents) : QueueEnq(t, q, evs)
    \/ \E q \in Queues : \E n \in 1..MaxDeq : QueueDeq(t, q, n)
    \/ AppRelease(t) \/ TermLocal(t) \/ Pause(t)
    \/ \E g \in Groups : GroupChange(g, t)

Next == \E t \in Threads : ScheduleCall(t) \/ Step(t) \/ AppCall(t)

Spec == Init /\ [][Next]_vars

\* A thread inside a call goes on with it (the locks are fair, nothing crashes),
\* and every thread is a worker: it calls odp_schedule again and again, whatever
\* else it calls in between.
Fairness == \A t \in Threads : WF_vars(Step(t)) /\ SF_vars(ScheduleCall(t))

FairSpec == Spec /\ Fairness

-----------------------------------------------------------------------------
(* Properties *)

\* The types of the queue table, of the command buffers, of the scheduler's table, of
\* the calls of the threads and of their scheduling contexts.
QueueTypes ==
    /\ status \in [Queues -> {FREE, DESTROYED, READY, NOTSCHED, SCHED}]
    /\ kind \in [Queues -> {POLL, ATOMIC, PARALLEL}]
    /\ prio \in [Queues -> Prios]
    /\ group \in [Queues -> Groups \cup {GroupAll}]
    /\ head \in [Queues -> Seq(Events)]

CmdTypes ==
    /\ cmd_ev \in [Queues -> Cmds \cup {None}]
    /\ pri_queue \in [Queues -> Prios \cup {None}]
    /\ qe \in [Cmds -> Queues \cup {None}]
    /\ freecmds \in SUBSET Cmds

PriTypes ==
    /\ priq \in [Prios -> Seq(Cmds)]
    /\ pri_count \in [Prios -> Int]
    /\ mask \in [Groups -> SUBSET Threads]

CallTypes ==
    /\ pc \in [Threads -> {"app", "create", "wake", "scan", "token", "again", "final"}]
    /\ arg \in [Threads -> Queues \cup {None}]
    /\ i \in [Threads -> Prios]
    /\ ev \in [Threads -> Cmds \cup {None}]

CtxTypes ==
    /\ held \in [Threads -> Cmds \cup {None}]
    /\ heldpri \in [Threads -> Prios \cup {None}]
    /\ buf_hdr \in [Threads -> Seq(Events)]
    /\ local_qe \in [Threads -> Queues \cup {None}]
    /\ pause \in [Threads -> BOOLEAN]

\* Type correctness.  What is not syntactic: the scan of schedule() never indexes
\* past the last priority (i), odp_queue_enq on a priority queue and the release of an
\* atomic context always have one to go to (pri_queue, heldpri).
TypeOK ==
    /\ QueueTypes
    /\ CmdTypes
    /\ PriTypes
    /\ CallTypes
    /\ CtxTypes

\* The commands on each priority queue.
Queued == [p \in Prios |-> Elems(priq[p])]

\* Where the command of a queue may be while the queue is in scheduling.
InPriq(c) == \E p \in Prios : c \in Queued[p]
InHand(t, c) == ev[t] = c
InContext(t, c) == held[t] = c
InWake(t, c) == pc[t] = "wake" /\ cmd_ev[arg[t]] = c
WithThread(t, c) == InHand(t, c) \/ InContext(t, c) \/ InWake(t, c)
Circulating(c) == InPriq(c) \/ \E t \in Threads : WithThread(t, c)

Distinct(s) == \A m, n \in 1..Len(s) : s[m] = s[n] => m = n

\* A command buffer is never in two places: it is not twice on the priority
\* queues (linking a buffer that is already linked would corrupt the list), not
\* with a thread and on a priority queue, and not with two threads.
OneCommand ==
    /\ \A p \in Prios : Distinct(priq[p])
    /\ \A p, r \in Prios : p # r => Queued[p] \cap Queued[r] = {}
    /\ \A c \in Cmds, t \in Threads : WithThread(t, c) => ~InPriq(c)
    /\ \A c \in Cmds, t, u \in Threads :
          WithThread(t, c) /\ WithThread(u, c) => t = u
    /\ \A c \in Cmds, t \in Threads :
          /\ ~(InHand(t, c) /\ InContext(t, c))
          /\ ~(InHand(t, c) /\ InWake(t, c))
          /\ ~(InContext(t, c) /\ InWake(t, c))

\* A command that circulates is not a freed buffer and is the command of a queue
\* that is in scheduling, on the priority queue of that queue: schedule() never
\* dequeues from a slot that was freed or given to another queue.
CommandLive ==
    /\ \A c \in Cmds : Circulating(c) =>
          /\ c \notin freecmds
          /\ qe[c] # None
          /\ cmd_ev[qe[c]] = c
          /\ status[qe[c]] \in {SCHED, DESTROYED}
    /\ \A p \in Prios : \A c \in Queued[p] : pri_queue[qe[c]] = p
    /\ \A t \in Threads : held[t] # None => pri_queue[qe[held[t]]] = heldpri[t]

\* A queue that is in scheduling has its command somewhere, so that a queue with
\* events is never left out of scheduling, and a destroyed one never forgotten.
NoLostWakeup ==
    \A q \in Queues :
       /\ status[q] \in {SCHED, DESTROYED} =>
             cmd_ev[q] # None /\ Circulating(cmd_ev[q])
       /\ kind[q] # POLL /\ head[q] # <<>> => status[q] = SCHED

\* While a thread holds the atomic context of a queue, no other thread holds it
\* or is about to dequeue from the queue, the queue is not freed, and the events
\* the thread has prefetched are from that queue.
AtomicContext ==
    \A t \in Threads : held[t] # None =>
       LET q == qe[held[t]] IN
       /\ status[q] # FREE
       /\ kind[q] = ATOMIC
       /\ \A u \in Threads \ {t} :
             /\ held[u] # None => qe[held[u]] # q
             /\ ev[u] # None => qe[ev[u]] # q
       /\ local_qe[t] = q

\* pri_count counts the queues of each priority, so schedule() never skips a
\* priority whose queue has a command, and the counter never wraps below zero.
PriCountExact ==
    /\ \A p \in Prios :
          pri_count[p] = Cardinality({q \in Queues : cmd_ev[q] # None /\ prio[q] = p})
    /\ \A p \in Prios : priq[p] # <<>> => pri_count[p] > 0

\* An event is in one place: once in one queue, or prefetched by one thread.
OneEvent ==
    /\ \A q \in Queues : Cardinality(Elems(head[q])) = Len(head[q])
    /\ \A t \in Threads : Cardinality(Elems(buf_hdr[t])) = Len(buf_hdr[t])
    /\ \A q, r \in Queues : q # r => Elems(head[q]) \cap Elems(head[r]) = {}
    /\ \A t, u \in Threads : t # u => Elems(buf_hdr[t]) \cap Elems(buf_hdr[u]) = {}
    /\ \A q \in Queues, t \in Threads : Elems(head[q]) \cap Elems(buf_hdr[t]) = {}

\* The source queue that odp_schedule outputs with a prefetched event exists.
SourceQueueExists ==
    \A t \in Threads : buf_hdr[t] # <<>> => status[local_qe[t]] # FREE

\* An event of a scheduled queue reaches the application, from the queue or from
\* the prefetched events of a thread, when every thread is eligible and there is
\* one priority.
EventDelivered ==
    \A e \in Events :
       (\E q \in Queues : kind[q] # POLL /\ e \in Elems(head[q])) ~> (e \in AppEvents)

\* A queue destroyed while in scheduling is finalized: its slot and its command
\* buffer are free again.
DestroyCompletes ==
    \A q \in Queues : (status[q] = DESTROYED) ~> (status[q] = FREE /\ cmd_ev[q] = None)

-----------------------------------------------------------------------------
(* The inductive invariant behind the safety properties *)

\* The locals of a thread by where it is in its call.
PcInv ==
    \A t \in Threads :
       /\ ev[t] # None <=> pc[t] \in {"token", "again", "final"}
       /\ arg[t] # None <=> pc[t] \in {"create", "wake"}
       /\ pc[t] \in {"scan", "token", "again", "final"} => held[t] = None
       /\ held[t] # None <=> heldpri[t] # None

\* The status of a queue by its kind, and the command it owns.
QueueInv ==
    \A q \in Queues :
       /\ status[q] = READY <=> kind[q] = POLL /\ status[q] # FREE
       /\ status[q] \in {FREE, READY} => cmd_ev[q] = None
       /\ status[q] \in {SCHED, DESTROYED} => cmd_ev[q] # None
       /\ cmd_ev[q] # None => /\ qe[cmd_ev[q]] = q
                              /\ cmd_ev[q] \notin freecmds
                              /\ pri_queue[q] = prio[q]
       /\ kind[q] # POLL /\ head[q] # <<>> => status[q] = SCHED

\* A slot between the two parts of odp_queue_create belongs to one thread.
CreateInv ==
    /\ \A t \in Threads : pc[t] = "create" =>
          status[arg[t]] = NOTSCHED /\ cmd_ev[arg[t]] = None
    /\ \A t, u \in Threads : pc[t] = "create" /\ pc[u] = "create" /\ arg[t] = arg[u]
          => t = u

\* The command is where one thread, or one priority queue, has it.
UniqPri(t) ==
    \A p \in Prios : /\ ev[t] # None => ev[t] \notin Queued[p]
                     /\ held[t] # None => held[t] \notin Queued[p]
                     /\ pc[t] = "wake" => cmd_ev[arg[t]] \notin Queued[p]

UniqPair(t, u) ==
    /\ ev[t] # None /\ ev[t] = ev[u] => t = u
    /\ held[t] # None /\ held[t] = held[u] => t = u
    /\ pc[t] = "wake" /\ pc[u] = "wake" /\ arg[t] = arg[u] => t = u
    /\ ev[t] # None => ev[t] # held[u]
    /\ ev[t] # None /\ pc[u] = "wake" => ev[t] # cmd_ev[arg[u]]
    /\ held[t] # None /\ pc[u] = "wake" => held[t] # cmd_ev[arg[u]]

UniqInv ==
    /\ \A p \in Prios : Distinct(priq[p])
    /\ \A t \in Threads : UniqPri(t)
    /\ \A t, u \in Threads : UniqPair(t, u)

\* The command c is that of a queue in scheduling.
Live(c) ==
    /\ qe[c] # None
    /\ cmd_ev[qe[c]] = c
    /\ status[qe[c]] \in {SCHED, DESTROYED}

LivePri ==
    \A p \in Prios : \A c \in Queued[p] : Live(c) /\ pri_queue[qe[c]] = p

LiveThread(t) ==
    /\ ev[t] # None => /\ Live(ev[t])
                       /\ pri_queue[qe[ev[t]]] = i[t]
                       /\ pc[t] = "final" => status[qe[ev[t]]] = DESTROYED
    /\ held[t] # None => /\ Live(held[t])
                         /\ pri_queue[qe[held[t]]] = heldpri[t]
                         /\ kind[qe[held[t]]] = ATOMIC
                         /\ local_qe[t] = qe[held[t]]
    /\ pc[t] = "wake" => status[arg[t]] \in {SCHED, DESTROYED}

LiveInv == LivePri /\ \A t \in Threads : LiveThread(t)

\* The command of a queue in scheduling is somewhere.
Has(t, q) == \/ ev[t] = cmd_ev[q]
             \/ held[t] = cmd_ev[q]
             \/ (pc[t] = "wake" /\ arg[t] = q)

Found(q) == \/ \E p \in Prios : cmd_ev[q] \in Queued[p]
            \/ \E t \in Threads : Has(t, q)

FoundInv == \A q \in Queues : status[q] \in {SCHED, DESTROYED} => Found(q)

IInv ==
    /\ TypeOK
    /\ PcInv
    /\ QueueInv
    /\ CreateInv
    /\ UniqInv
    /\ LiveInv
    /\ FoundInv
=============================================================================
