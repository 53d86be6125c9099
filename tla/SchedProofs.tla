---------------------------- MODULE SchedProofs -----------------------------
(***************************************************************************)
(* Proofs about the queue table and the scheduler, for any number of        *)
(* threads, queues, command buffers, events, priorities and groups.         *)
(*                                                                          *)
(* IInv is inductive: Init implies it and every action preserves it.        *)
(* Enqueuing and dequeuing are here, the other actions in SchedSteps; the   *)
(* theorems follow.                                                         *)
(***************************************************************************)
EXTENDS SchedSteps
-----------------------------------------------------------------------------
(* A thread takes a command from a priority queue and dequeues from its     *)
(* queue (schedule() in odp_schedule.c): it finds events, an empty queue or *)
(* a destroyed one.                                                         *)

\* schedule() takes the first command of a priority queue: only it has it then.
LEMMA ScanTakeStep ==
    ASSUME IInv, NEW t \in Threads, ScanTake(t)
    PROVE  IInv'
<1> DEFINE p == i[t]
           c == Head(priq[p])
<1>1. /\ pc[t] = "scan" /\ p \in Prios /\ priq[p] # <<>>
      /\ ev[t] = None /\ held[t] = None
      /\ ev' = [ev EXCEPT ![t] = c]
      /\ priq' = [priq EXCEPT ![p] = Tail(priq[p])]
      /\ pc' = [pc EXCEPT ![t] = "token"]
      /\ UNCHANGED <<queueVars, cmdVars, pri_count, mask, arg, i, ctxVars>>
  <2>1. pc[t] = "scan"
    BY Zenon DEF ScanTake
  <2>2. ev[t] = None /\ held[t] = None
    BY Zenon, <2>1 DEF IInv, PcInv
  <2>3. p \in Prios
    BY Zenon DEF IInv, TypeOK, CallTypes
  <2> QED
    BY Zenon, <2>2, <2>3 DEF ScanTake
<1>2. /\ priq' \in [Prios -> Seq(Cmds)]
      /\ \A r \in Prios : Distinct(priq[r])'
      /\ Queued' = [Queued EXCEPT ![p] = @ \ {c}]
      /\ c \in Queued[p] /\ c \in Cmds
  BY Zenon, <1>1, PriDeqLemma DEF IInv, TypeOK, PriTypes, UniqInv
<1>3. /\ \A r \in Prios : Queued'[r] = IF r = p THEN Queued[p] \ {c} ELSE Queued[r]
      /\ c # None
  BY Zenon, <1>2, SchedAssumption DEF Queued
<1>4. Live(c) /\ pri_queue[qe[c]] = p
  BY Zenon, <1>1, <1>2 DEF IInv, LiveInv, LivePri
<1>5. \A r \in Prios : c \in Queued[r] => r = p
  BY Zenon, <1>4 DEF IInv, LiveInv, LivePri
<1>6. /\ ev'[t] = c /\ pc'[t] = "token"
      /\ \A u \in Threads \ {t} : UNCHANGED <<ev[u], pc[u]>>
  BY Zenon, <1>1 DEF IInv, TypeOK, CallTypes
<1> HIDE DEF p, c
<1>7. TypeOK'
  BY Zenon, <1>1, <1>2
     DEF IInv, TypeOK, QueueTypes, CmdTypes, PriTypes, CallTypes, CtxTypes, queueVars, cmdVars,
         ctxVars
<1>8. PcInv'
  BY <1>1, <1>3, <1>6 DEF IInv, PcInv, ctxVars
<1>9. QueueInv'
  BY Zenon, <1>1 DEF IInv, QueueInv, queueVars, cmdVars
<1>10. CreateInv'
  <2>1. ASSUME NEW u \in Threads, pc'[u] = "create" PROVE pc[u] = "create"
    BY Zenon, <1>6, <2>1
  <2> QED
    BY Zenon, <1>1, <2>1 DEF IInv, CreateInv, queueVars
<1>11. ASSUME NEW u \in Threads \ {t} PROVE UniqPri(u)'
  BY <1>1, <1>3 DEF IInv, UniqInv, UniqPri, queueVars, ctxVars
<1>12. UniqPri(t)'
  BY Zenon, <1>1, <1>3, <1>5, <1>6 DEF UniqPri, ctxVars
<1>13. ASSUME NEW u \in Threads
       PROVE  /\ ev[u] # c /\ held[u] # c
              /\ pc[u] = "wake" => cmd_ev[arg[u]] # c
  BY <1>1, <1>2, <1>3 DEF IInv, UniqInv, UniqPri
<1>14. ASSUME NEW u \in Threads, NEW v \in Threads PROVE UniqPair(u, v)'
  <2>1. UniqPair(u, v)
    BY Zenon DEF IInv, UniqInv
  <2>2. CASE u = t
    BY <1>1, <1>6, <1>13, <2>1, <2>2 DEF IInv, UniqPair, queueVars, ctxVars
  <2>3. CASE u # t
    BY <1>1, <1>13, <2>1, <2>3 DEF UniqPair, queueVars, ctxVars
  <2> QED
    BY Zenon, <2>2, <2>3
<1>15. UniqInv'
  BY Zenon, <1>2, <1>11, <1>12, <1>14 DEF UniqInv
<1>16. LivePri'
  BY <1>1, <1>3 DEF IInv, LiveInv, LivePri, Live, queueVars, cmdVars
<1>17. ASSUME NEW u \in Threads PROVE LiveThread(u)'
  <2>1. CASE u = t
    BY Zenon, <1>1, <1>4, <1>6, <2>1 DEF IInv, LiveThread, Live, p, queueVars, cmdVars, ctxVars
  <2>2. CASE u # t
    BY <1>1, <1>6, <2>2 DEF IInv, LiveInv, LiveThread, Live, queueVars, cmdVars, ctxVars
  <2> QED
    BY Zenon, <2>1, <2>2
<1>18. ASSUME NEW r \in Queues, (status[r] \in {SCHED, DESTROYED})'
       PROVE  Found(r)'
  <2>1. Found(r) /\ cmd_ev[r] # None
    BY Zenon, <1>1, <1>18 DEF IInv, FoundInv, QueueInv, queueVars
  <2>2. CASE cmd_ev[r] = c
    BY Zenon, <1>1, <1>6, <2>2 DEF Found, Has, queueVars
  <2>3. CASE cmd_ev[r] # c
    <3>1. ~Has(t, r)
      BY Zenon, <1>1, <2>1 DEF Has
    <3>2. \A s \in Prios : cmd_ev[r] \in Queued[s] => Found(r)'
      BY Zenon, <1>1, <1>3, <2>3 DEF Found, queueVars
    <3> QED
      BY Zenon, <1>1, <1>6, <2>1, <3>1, <3>2, FoundFrame DEF queueVars, ctxVars
  <2> QED
    BY Zenon, <2>2, <2>3
<1> QED
  BY Zenon, <1>7, <1>8, <1>9, <1>10, <1>15, <1>16, <1>17, <1>18 DEF IInv, LiveInv, FoundInv

\* schedule() takes events from the queue; the command of an atomic queue moves to
\* the context of the thread.
LEMMA DeqEventsStep ==
    ASSUME IInv, NEW t \in Threads, DeqEvents(t)
    PROVE  IInv'
<1> DEFINE c == ev[t]
           q == qe[c]
           n == IF Len(head[q]) < MaxDeq THEN Len(head[q]) ELSE MaxDeq
<1>1. /\ pc[t] = "token" /\ c # None /\ c \in Cmds /\ q \in Queues /\ cmd_ev[q] = c
      /\ status[q] = SCHED /\ pri_queue[q] = i[t] /\ held[t] = None
      /\ i[t] \in Prios
  <2>1. pc[t] = "token"
    BY Zenon DEF DeqEvents
  <2>2. ev[t] # None /\ held[t] = None
    BY Zenon, <2>1 DEF IInv, PcInv
  <2>3. status[q] >= READY
    BY Zenon DEF DeqEvents
  <2>4. i[t] \in Prios
    BY Zenon DEF IInv, TypeOK, CallTypes
  <2>5. /\ ev[t] \in Cmds /\ q \in Queues /\ cmd_ev[q] = ev[t]
        /\ status[q] \in {SCHED, DESTROYED} /\ pri_queue[q] = i[t]
    BY Zenon, <2>2, InHandLemma
  <2>6. status[q] = SCHED
    BY <2>3, <2>5 DEF READY, DESTROYED
  <2> QED
    BY Zenon, <2>1, <2>2, <2>4, <2>5, <2>6
<1>2. /\ head' = [head EXCEPT ![q] = SubSeq(head[q], n + 1, Len(head[q]))]
      /\ \E m \in 1..n : buf_hdr' = [buf_hdr EXCEPT ![t] = SubSeq(head[q], m + 1, n)]
      /\ local_qe' = [local_qe EXCEPT ![t] = q]
      /\ UNCHANGED <<status, paramVars, cmd_ev, pri_queue, cmdVars, priq, pri_count,
                     mask, arg, i, pause>>
  BY Zenon DEF DeqEvents
<1>3. \/ /\ kind[q] = ATOMIC
         /\ held' = [held EXCEPT ![t] = c]
         /\ heldpri' = [heldpri EXCEPT ![t] = i[t]]
         /\ ev' = [ev EXCEPT ![t] = None]
         /\ pc' = [pc EXCEPT ![t] = "app"]
      \/ /\ pc' = [pc EXCEPT ![t] = "again"]
         /\ UNCHANGED <<held, heldpri, ev>>
  BY Zenon DEF DeqEvents
<1>4. Queued' = Queued /\ \A r \in Prios : Distinct(priq[r])'
  BY Zenon, <1>2 DEF IInv, Queued, UniqInv
<1>5. head' \in [Queues -> Seq(Events)] /\ buf_hdr' \in [Threads -> Seq(Events)]
  <2>1. head[q] \in Seq(Events) /\ Len(head[q]) \in Nat /\ n \in 0..Len(head[q])
    BY <1>1, SchedAssumption DEF IInv, TypeOK, QueueTypes
  <2>2. SubSeq(head[q], n + 1, Len(head[q])) \in Seq(Events)
    BY <2>1
  <2>3. \A m \in 1..n : SubSeq(head[q], m + 1, n) \in Seq(Events)
    BY <2>1
  <2>4. head \in [Queues -> Seq(Events)] /\ buf_hdr \in [Threads -> Seq(Events)]
    BY Zenon DEF IInv, TypeOK, QueueTypes, CtxTypes
  <2> HIDE DEF n
  <2>5. PICK m \in 1..n : buf_hdr' = [buf_hdr EXCEPT ![t] = SubSeq(head[q], m + 1, n)]
    BY Zenon, <1>2
  <2>6. head' \in [Queues -> Seq(Events)]
    BY Zenon, <1>2, <2>2, <2>4
  <2>7. buf_hdr' \in [Threads -> Seq(Events)]
    BY Zenon, <2>3, <2>4, <2>5
  <2> QED
    BY Zenon, <2>6, <2>7
<1> HIDE DEF c, q, n
<1>6. TypeOK'
  <2>1. /\ held \in [Threads -> Cmds \cup {None}] /\ ev \in [Threads -> Cmds \cup {None}]
        /\ heldpri \in [Threads -> Prios \cup {None}] /\ pc \in [Threads -> PCs]
    BY Zenon DEF IInv, TypeOK, CallTypes, CtxTypes, PCs
  <2>2. /\ held' \in [Threads -> Cmds \cup {None}] /\ ev' \in [Threads -> Cmds \cup {None}]
        /\ heldpri' \in [Threads -> Prios \cup {None}] /\ pc' \in [Threads -> PCs]
    BY Zenon, <1>1, <1>3, <2>1 DEF PCs
  <2> QED
    BY Zenon, <1>1, <1>2, <1>5, <2>2
       DEF IInv, TypeOK, QueueTypes, CmdTypes, PriTypes, CallTypes, CtxTypes, PCs, paramVars,
           cmdVars
<1>7. \A u \in Threads \ {t} : UNCHANGED <<held[u], heldpri[u], ev[u], pc[u], local_qe[u]>>
  BY <1>2, <1>3 DEF IInv, TypeOK, CallTypes, CtxTypes
<1>8. \/ /\ kind[q] = ATOMIC /\ held'[t] = c /\ heldpri'[t] = i[t]
         /\ ev'[t] = None /\ pc'[t] = "app"
      \/ /\ held'[t] = None /\ heldpri'[t] = heldpri[t] /\ ev'[t] = c /\ pc'[t] = "again"
  BY Zenon, <1>1, <1>3 DEF IInv, TypeOK, CallTypes, CtxTypes, c
<1>9. PcInv'
  <2>1. arg'[t] = None /\ heldpri[t] = None /\ i[t] # None
    BY Zenon, <1>1, <1>2, SchedAssumption DEF IInv, PcInv, Prios
  <2> QED
    BY <1>1, <1>2, <1>7, <1>8, <2>1 DEF IInv, PcInv
<1>10. QueueInv'
  <2>1. \A r \in Queues : r # q => head'[r] = head[r]
    BY <1>2
  <2> QED
    BY <1>2 DEF IInv, QueueInv, paramVars, cmdVars
<1>11. CreateInv'
  <2>1. ASSUME NEW u \in Threads, pc'[u] = "create" PROVE pc[u] = "create"
    BY Zenon, <1>7, <1>8, <2>1
  <2> QED
    BY Zenon, <1>2, <2>1 DEF IInv, CreateInv
<1>12. ASSUME NEW u \in Threads PROVE UniqPri(u)'
  BY <1>1, <1>2, <1>4, <1>7, <1>8 DEF IInv, UniqInv, UniqPri, c
<1>13. ASSUME NEW u \in Threads, NEW v \in Threads PROVE UniqPair(u, v)'
  <2>1. ASSUME NEW w \in Threads
        PROVE  /\ held[w] # c /\ (w # t => ev[w] # c)
               /\ pc[w] = "wake" => cmd_ev[arg[w]] # c
    BY Zenon, <1>1 DEF IInv, UniqInv, UniqPair, c
  <2>2. UniqPair(u, v)
    BY Zenon DEF IInv, UniqInv
  <2>3. CASE u = t
    BY <1>2, <1>7, <1>8, <2>1, <2>2 DEF UniqPair
  <2>4. CASE u # t /\ v = t
    BY <1>2, <1>7, <1>8, <2>1, <2>2 DEF UniqPair
  <2>5. CASE u # t /\ v # t
    BY Zenon, <1>2, <1>7, <2>2, <2>5 DEF UniqPair
  <2> QED
    BY Zenon, <2>3, <2>4, <2>5
<1>14. LivePri'
  BY Zenon, <1>2, <1>4 DEF IInv, LiveInv, LivePri, Live, cmdVars
<1>15. ASSUME NEW u \in Threads PROVE LiveThread(u)'
  <2>1. CASE u = t
    <3>1. /\ qe'[c] = q /\ local_qe'[t] = q /\ q # None
          /\ pc'[t] \notin {"wake", "final"}
      BY Zenon, <1>1, <1>2, <1>8, SchedAssumption DEF IInv, TypeOK, CtxTypes, q, cmdVars
    <3>2. /\ cmd_ev'[q] = c /\ status'[q] = SCHED /\ pri_queue'[q] = i'[t]
          /\ kind'[q] = kind[q]
      BY Zenon, <1>1, <1>2 DEF paramVars
    <3>3. CASE kind[q] = ATOMIC /\ held'[t] = c /\ heldpri'[t] = i[t] /\ ev'[t] = None
      BY Zenon, <1>2, <2>1, <3>1, <3>2, <3>3 DEF LiveThread, Live
    <3>4. CASE held'[t] = None /\ ev'[t] = c
      BY Zenon, <2>1, <3>1, <3>2, <3>4 DEF LiveThread, Live
    <3> QED
      BY Zenon, <1>8, <3>3, <3>4
  <2>2. CASE u # t
    BY <1>2, <1>7, <2>2 DEF IInv, LiveInv, LiveThread, Live, paramVars, cmdVars
  <2> QED
    BY Zenon, <2>1, <2>2
<1>16. ASSUME NEW r \in Queues, (status[r] \in {SCHED, DESTROYED})'
       PROVE  Found(r)'
  <2>1. Found(r) /\ cmd_ev[r] # None
    BY Zenon, <1>2, <1>16 DEF IInv, FoundInv, QueueInv
  <2>2. Has(t, r) => Has(t, r)'
    BY Zenon, <1>1, <1>2, <1>8 DEF Has, c
  <2> QED
    BY Zenon, <1>2, <1>4, <1>7, <2>1, <2>2, FoundFrame DEF Found
<1> QED
  BY Zenon, <1>4, <1>6, <1>9, <1>10, <1>11, <1>12, <1>13, <1>14, <1>15, <1>16
     DEF IInv, LiveInv, FoundInv, UniqInv

\* queue_deq_multi takes an empty queue out of scheduling: its command is nowhere,
\* and its status says so.
LEMMA DeqEmptyStep ==
    ASSUME IInv, NEW t \in Threads, DeqEmpty(t)
    PROVE  IInv'
<1>1. Queued' = Queued /\ \A r \in Prios : Distinct(priq[r])'
  BY Zenon DEF IInv, Queued, UniqInv, DeqEmpty
<1>2. TypeOK'
  <2>1. i' \in [Threads -> Prios] /\ pc' \in [Threads -> PCs]
    BY Zenon, NextPrioType DEF IInv, TypeOK, CallTypes, PCs, DeqEmpty
  <2>2. status' \in [Queues -> {FREE, DESTROYED, READY, NOTSCHED, SCHED}]
    BY Zenon DEF IInv, TypeOK, QueueTypes, DeqEmpty
  <2> QED
    BY Zenon, <2>1
       DEF IInv, TypeOK, QueueTypes, CmdTypes, PriTypes, CallTypes, CtxTypes, PCs, DeqEmpty,
           paramVars, cmdVars, ctxVars
<1> DEFINE c == ev[t]
           q == qe[c]
<1>3. /\ c # None /\ c \in Cmds /\ q \in Queues /\ cmd_ev[q] = c
      /\ status[q] = SCHED /\ Apart(q, {t})
  <2>1. ev[t] # None
    BY Zenon DEF IInv, DeqEmpty, PcInv
  <2>2. status[q] >= READY
    BY Zenon DEF DeqEmpty
  <2> QED
    BY <2>1, <2>2, InHandLemma DEF READY, DESTROYED
<1>4. /\ status' = [status EXCEPT ![q] = NOTSCHED]
      /\ ev' = [ev EXCEPT ![t] = None]
      /\ pc[t] = "token" /\ pc'[t] \in {"scan", "app"} /\ head[q] = <<>>
      /\ \A u \in Threads \ {t} : pc'[u] = pc[u] /\ i'[u] = i[u]
      /\ UNCHANGED <<kind, prio, group, head, cmd_ev, pri_queue, qe, freecmds, arg, held, heldpri, local_qe>>
  BY Zenon, <1>3 DEF IInv, TypeOK, CallTypes, DeqEmpty, NextPrio, paramVars, cmdVars, ctxVars
<1> HIDE DEF c, q
<1>0. \A r \in Queues \ {q} : Same(r)
  BY <1>4 DEF Same
<1>5. PcInv'
  BY Zenon, <1>4 DEF IInv, TypeOK, CallTypes, PcInv
<1>6. QueueInv'
  BY <1>3, <1>4 DEF IInv, QueueInv, FREE, READY, NOTSCHED
<1>7. CreateInv'
  <2>1. ASSUME NEW u \in Threads, pc'[u] = "create"
        PROVE  u # t /\ pc[u] = "create" /\ arg[u] # q
    BY Zenon, <1>3, <1>4, <2>1 DEF IInv, CreateInv
  <2> QED
    BY <1>4 DEF IInv, CreateInv
<1>8. UniqInv'
  <2>1. ASSUME NEW u \in Threads PROVE UniqPri(u)'
    BY <1>1, <1>4 DEF IInv, UniqInv, UniqPri
  <2>2. ASSUME NEW u \in Threads, NEW v \in Threads PROVE UniqPair(u, v)'
    BY <1>4 DEF IInv, UniqInv, UniqPair
  <2> QED
    BY Zenon, <1>1, <2>1, <2>2 DEF UniqInv
<1>9. LivePri'
  BY Zenon, <1>1, <1>3, <1>4, <1>0, PriLive DEF LivePri
<1>10. ASSUME NEW u \in Threads \ {t} PROVE LiveThread(u)'
  BY <1>3, <1>4, <1>0, ThreadLive
<1>11. LiveThread(t)'
  BY Zenon, <1>4 DEF IInv, TypeOK, CallTypes, LiveThread, PcInv
<1>12. FoundInv'
  <2>1. ASSUME NEW r \in Queues, (status[r] \in {SCHED, DESTROYED})'
        PROVE  r # q /\ cmd_ev[r] # c
    BY <1>3, <1>4, <2>1
       DEF IInv, TypeOK, QueueTypes, CallTypes, QueueInv, SCHED, DESTROYED, NOTSCHED
  <2>2. ASSUME NEW r \in Queues, (status[r] \in {SCHED, DESTROYED})'
        PROVE  Found(r)'
    <3>1. r # q /\ cmd_ev[r] # c /\ cmd_ev[r] # None /\ Found(r)
      BY <1>4, <2>1, <2>2 DEF IInv, FoundInv, QueueInv
    <3>2. ~Has(t, r)
      BY Zenon, <1>4, <3>1 DEF IInv, Has, PcInv, c
    <3> QED
      BY <1>1, <1>4, <3>1, <3>2, FoundFrame DEF Found
  <2> QED
    BY Zenon, <2>2 DEF FoundInv
<1> QED
  BY Zenon, <1>2, <1>5, <1>6, <1>7, <1>8, <1>9, <1>10, <1>11, <1>12 DEF IInv, LiveInv

\* queue_destroy_finalize frees a destroyed queue whose command only the caller
\* has.
LEMMA DestroyFinalizeStep ==
    ASSUME IInv, NEW t \in Threads, DestroyFinalize(t)
    PROVE  IInv'
<1>1. Queued' = Queued /\ \A r \in Prios : Distinct(priq[r])'
  BY Zenon DEF IInv, Queued, UniqInv, DestroyFinalize
<1> DEFINE c == ev[t]
           q == qe[c]
<1>2. /\ c # None /\ c \in Cmds /\ q \in Queues /\ cmd_ev[q] = c
      /\ status[q] = DESTROYED /\ Apart(q, {t})
  <2>1. ev[t] # None /\ pc[t] = "final"
    BY Zenon DEF IInv, DestroyFinalize, PcInv
  <2>2. status[q] = DESTROYED
    BY Zenon, <2>1 DEF IInv, LiveInv, LiveThread
  <2> QED
    BY Zenon, <2>1, <2>2, InHandLemma
<1>3. /\ status' = [status EXCEPT ![q] = FREE]
      /\ freecmds' = freecmds \cup {c}
      /\ pri_count' = [pri_count EXCEPT ![prio[q]] = pri_count[prio[q]] - 1]
      /\ cmd_ev' = [cmd_ev EXCEPT ![q] = None]
      /\ pri_queue' = [pri_queue EXCEPT ![q] = None]
      /\ ev' = [ev EXCEPT ![t] = None]
      /\ pc[t] = "final" /\ NextPrio(t)
      /\ UNCHANGED <<kind, prio, group, head, qe, priq, mask, arg, ctxVars>>
  BY Zenon, <1>2 DEF DestroyFinalize, ScheduleQueueDestroy, paramVars
<1>4. /\ pc'[t] \in {"scan", "app"}
      /\ \A u \in Threads \ {t} : pc'[u] = pc[u] /\ i'[u] = i[u]
  BY Zenon, <1>3 DEF IInv, TypeOK, CallTypes, NextPrio
<1>5. TypeOK'
  <2>1. i' \in [Threads -> Prios] /\ pc' \in [Threads -> PCs]
    BY Zenon, <1>3, NextPrioType DEF IInv, TypeOK, CallTypes, PCs
  <2>2. pri_count' \in [Prios -> Int]
    BY <1>3, <1>2 DEF IInv, TypeOK, QueueTypes, PriTypes
  <2>3. status' \in [Queues -> {FREE, DESTROYED, READY, NOTSCHED, SCHED}]
    BY Zenon, <1>3 DEF IInv, TypeOK, QueueTypes
  <2> QED
    BY Zenon, <1>2, <1>3, <2>1, <2>2
       DEF IInv, TypeOK, QueueTypes, CmdTypes, PriTypes, CallTypes, CtxTypes, PCs, ctxVars
<1> HIDE DEF c, q
<1>6. \A r \in Queues \ {q} : Same(r)
  BY <1>3 DEF Same
<1>7. PcInv'
  BY Zenon, <1>3, <1>4 DEF IInv, TypeOK, CallTypes, PcInv, ctxVars
<1>8. QueueInv'
  <2>1. ASSUME NEW r \in Queues, cmd_ev[r] # None, r # q PROVE cmd_ev[r] # c
    BY <1>2, <2>1 DEF IInv, QueueInv
  <2> QED
    BY <1>2, <1>3 DEF IInv, TypeOK, QueueTypes, CmdTypes, QueueInv, FREE, DESTROYED, READY, SCHED
<1>9. CreateInv'
  <2>1. ASSUME NEW u \in Threads, pc'[u] = "create"
        PROVE  u # t /\ pc[u] = "create" /\ arg[u] # q
    BY Zenon, <1>2, <1>4, <2>1 DEF IInv, CreateInv
  <2> QED
    BY <1>3, <2>1 DEF IInv, CreateInv
<1>10. UniqInv'
  <2>1. ASSUME NEW u \in Threads, pc'[u] = "wake"
        PROVE  pc[u] = "wake" /\ u # t /\ arg[u] \in Queues \ {q}
    BY <1>2, <1>4, <2>1 DEF IInv, TypeOK, CallTypes, Apart, PcInv
  <2>2. ASSUME NEW u \in Threads PROVE UniqPri(u)'
    BY <1>1, <1>3, <2>1 DEF IInv, UniqInv, UniqPri, ctxVars
  <2>3. ASSUME NEW u \in Threads, NEW v \in Threads PROVE UniqPair(u, v)'
    BY <1>3, <2>1 DEF IInv, UniqInv, UniqPair, ctxVars
  <2> QED
    BY Zenon, <1>1, <2>2, <2>3 DEF UniqInv
<1>11. LivePri'
  BY Zenon, <1>1, <1>2, <1>3, <1>6, PriLive DEF LivePri
<1>12. ASSUME NEW u \in Threads \ {t} PROVE LiveThread(u)'
  BY <1>2, <1>3, <1>4, <1>6, ThreadLive DEF ctxVars
<1>13. LiveThread(t)'
  BY Zenon, <1>3, <1>4 DEF IInv, TypeOK, CallTypes, LiveThread, PcInv, ctxVars
<1>14. FoundInv'
  <2>1. ASSUME NEW r \in Queues, (status[r] \in {SCHED, DESTROYED})'
        PROVE  Found(r)'
    <3>1. r # q /\ cmd_ev[r] # c /\ cmd_ev[r] # None /\ Found(r)
      BY <1>2, <1>3, <2>1 DEF IInv, TypeOK, QueueTypes, CallTypes, FoundInv, QueueInv,
         SCHED, DESTROYED, FREE
    <3>2. ~Has(t, r)
      BY Zenon, <1>3, <3>1 DEF IInv, Has, PcInv, c
    <3>3. cmd_ev'[r] = cmd_ev[r]
      BY Zenon, <1>3, <3>1 DEF IInv, TypeOK, CmdTypes
    <3>4. \A p \in Prios : cmd_ev[r] \in Queued[p] => Found(r)'
      BY Zenon, <1>1, <3>3 DEF Found
    <3>5. \A u \in Threads \ {t} : UNCHANGED <<ev[u], held[u], pc[u], arg[u]>>
      BY Zenon, <1>3, <1>4 DEF IInv, TypeOK, CallTypes, ctxVars
    <3> QED
      BY Zenon, <3>1, <3>2, <3>3, <3>4, <3>5, FoundFrame
  <2> QED
    BY Zenon, <2>1 DEF FoundInv
<1> QED
  BY Zenon, <1>5, <1>7, <1>8, <1>9, <1>10, <1>11, <1>12, <1>13, <1>14 DEF IInv, LiveInv

-----------------------------------------------------------------------------
(* Enqueuing, and the theorems.                                             *)

\* A batch of events is a non-empty sequence of them.
LEMMA BatchesType ==
    ASSUME NEW S \in SUBSET Events, NEW evs \in Batches(S)
    PROVE  evs \in Seq(Events) /\ evs # <<>>
<1>1. CASE evs \in {<<e>> : e \in S}
  <2>1. PICK e \in Events : evs = <<e>>
    BY Zenon, <1>1
  <2> QED
    BY <2>1
<1>2. CASE evs \in {b \in S \X S : b[1] # b[2]}
  <2>1. evs = <<evs[1], evs[2]>> /\ evs[1] \in Events /\ evs[2] \in Events
    BY <1>2
  <2>2. ASSUME NEW x \in Events, NEW y \in Events
        PROVE  <<x, y>> \in Seq(Events) /\ <<x, y>> # <<>>
    OBVIOUS
  <2> QED
    BY Zenon, <2>1, <2>2
<1> QED
  BY Zenon, <1>1, <1>2 DEF Batches

\* queue_enq puts a queue out of scheduling back into it: the command, which nobody
\* has, is then with the caller.
LEMMA QueueEnqStep ==
    ASSUME IInv, NEW t \in Threads, NEW q \in Queues, NEW evs \in Seq(Events),
           QueueEnq(t, q, evs)
    PROVE  IInv'
<1>1. /\ pc[t] = "app" /\ HasHandle(q) /\ status[q] >= READY
      /\ head' = [head EXCEPT ![q] = head[q] \o evs]
      /\ UNCHANGED <<paramVars, cmd_ev, pri_queue, cmdVars, priq, pri_count, mask, i, ev, ctxVars>>
  BY Zenon DEF QueueEnq
<1>2. Queued' = Queued /\ \A r \in Prios : Distinct(priq[r])'
  BY Zenon, <1>1 DEF IInv, Queued, UniqInv
<1>3. head' \in [Queues -> Seq(Events)]
  <2>1. head \in [Queues -> Seq(Events)]
    BY Zenon DEF IInv, TypeOK, QueueTypes
  <2>2. head[q] \o evs \in Seq(Events)
    BY <2>1
  <2> QED
    BY Zenon, <1>1, <2>1, <2>2
<1>4. \A r \in Queues : r # q => head'[r] = head[r]
  BY Zenon, <1>1 DEF IInv, TypeOK, QueueTypes
<1>5. CASE status[q] = NOTSCHED
  <2> DEFINE c == cmd_ev[q]
  <2>1. /\ status' = [status EXCEPT ![q] = SCHED]
        /\ pc' = [pc EXCEPT ![t] = "wake"]
        /\ arg' = [arg EXCEPT ![t] = q]
    BY Zenon, <1>5 DEF QueueEnq
  <2>2. c # None /\ c \in Cmds /\ qe[c] = q /\ kind[q] # POLL /\ Apart(q, {})
    <3>1. kind[q] # POLL
      BY <1>5 DEF IInv, QueueInv, FREE, READY, NOTSCHED
    <3>2. Apart(q, {})
      BY <1>5, IdleLemma DEF NOTSCHED, SCHED, DESTROYED
    <3>3. c # None
      BY Zenon, <1>1, <3>1 DEF HasHandle
    <3> QED
      BY <3>2, <3>3 DEF IInv, TypeOK, CmdTypes, QueueInv
  <2>3. /\ \A r \in Queues \ {q} : status'[r] = status[r] /\ Same(r)
        /\ status'[q] = SCHED
    BY Zenon, <1>1, <2>1 DEF IInv, TypeOK, QueueTypes, Same, paramVars
  <2>4. /\ \A u \in Threads \ {t} : UNCHANGED <<pc[u], arg[u]>>
        /\ pc'[t] = "wake" /\ arg'[t] = q
    BY Zenon, <2>1 DEF IInv, TypeOK, CallTypes
  <2>5. TypeOK'
    BY Zenon, <1>1, <1>3, <2>1
       DEF IInv, TypeOK, QueueTypes, CmdTypes, PriTypes, CallTypes, CtxTypes, paramVars, cmdVars,
           ctxVars
  <2> HIDE DEF c
  <2>6. PcInv'
    BY Zenon, <1>1, <2>4, SchedAssumption DEF IInv, PcInv, ctxVars
  <2>7. QueueInv'
    <3>1. UNCHANGED <<kind, prio, cmd_ev, pri_queue, qe, freecmds>>
      BY Zenon, <1>1 DEF paramVars, cmdVars
    <3>2. SCHED \notin {FREE, READY} /\ status[q] # READY
      BY <1>5 DEF FREE, READY, NOTSCHED, SCHED
    <3> QED
      BY <1>4, <2>2, <2>3, <3>1, <3>2 DEF IInv, QueueInv, c
  <2>8. CreateInv'
    <3>1. ASSUME NEW u \in Threads, pc'[u] = "create"
          PROVE  u # t /\ pc[u] = "create" /\ arg[u] \in Queues \ {q}
      BY <2>2, <2>4, <3>1 DEF IInv, TypeOK, CallTypes, CreateInv, PcInv, c
    <3> QED
      BY <2>3, <2>4, <3>1 DEF IInv, CreateInv, Same
  <2>9. /\ \A p \in Prios : c \notin Queued[p]
        /\ \A u \in Threads : /\ ev[u] # c /\ held[u] # c
                              /\ pc[u] = "wake" => arg[u] # q /\ arg[u] \in Queues
    BY Zenon, <2>2 DEF IInv, TypeOK, CallTypes, Apart, PcInv
  <2>10. ASSUME NEW u \in Threads PROVE UniqPri(u)'
    BY Zenon, <1>1, <1>2, <2>4, <2>9 DEF IInv, UniqInv, UniqPri, c, ctxVars
  <2>11. ASSUME NEW u \in Threads, NEW v \in Threads PROVE UniqPair(u, v)'
    <3>1. UniqPair(u, v)
      BY Zenon DEF IInv, UniqInv
    <3>2. CASE u = t
      BY Zenon, <1>1, <2>4, <2>9, <3>1, <3>2 DEF UniqPair, c, ctxVars
    <3>3. CASE u # t /\ v = t
      BY Zenon, <1>1, <2>4, <2>9, <3>1, <3>3 DEF UniqPair, c, ctxVars
    <3>4. CASE u # t /\ v # t
      BY Zenon, <1>1, <2>4, <3>1, <3>4 DEF UniqPair, ctxVars
    <3> QED
      BY Zenon, <3>2, <3>3, <3>4
  <2>12. LivePri'
    BY Zenon, <1>1, <1>2, <2>2, <2>3, PriLive DEF LivePri, cmdVars
  <2>13. ASSUME NEW u \in Threads PROVE LiveThread(u)'
    <3>1. CASE u # t
      <4>1. u \in Threads \ {}
        BY Zenon
      <4>2. /\ UNCHANGED <<ev[u], i[u], held[u], heldpri[u], local_qe[u]>>
            /\ UNCHANGED <<pc[u], arg[u]>>
        BY Zenon, <1>1, <2>4, <3>1 DEF ctxVars
      <4> QED
        BY Zenon, <1>1, <2>2, <2>3, <4>1, <4>2, ThreadLive DEF cmdVars
    <3>2. CASE u = t
      <4>1. ev'[t] = None
        BY Zenon, <1>1 DEF IInv, PcInv
      <4>2. held[t] # None => held[t] \in Cmds /\ qe[held[t]] \in Queues \ {q}
        <5>1. held[t] # None => held[t] \in Cmds /\ Live(held[t])
          BY DEF IInv, TypeOK, CtxTypes, LiveInv, LiveThread
        <5> QED
          BY Zenon, <2>2, <5>1, NotFree DEF Apart
      <4> QED
        BY Zenon, <1>1, <2>3, <2>4, <3>2, <4>1, <4>2
           DEF IInv, LiveInv, LiveThread, Live, paramVars, cmdVars, ctxVars
    <3> QED
      BY Zenon, <3>1, <3>2
  <2>14. ASSUME NEW r \in Queues, (status[r] \in {SCHED, DESTROYED})'
         PROVE  Found(r)'
    <3>1. CASE r = q
      BY Zenon, <2>4, <3>1 DEF Found, Has
    <3>2. CASE r # q
      <4>1. Found(r)
        BY Zenon, <2>3, <2>14, <3>2 DEF IInv, FoundInv
      <4>2. Has(t, r) => Has(t, r)'
        BY Zenon, <1>1 DEF Has, ctxVars
      <4> QED
        BY Zenon, <1>1, <1>2, <2>4, <4>1, <4>2, FoundFrame DEF Found, ctxVars
    <3> QED
      BY Zenon, <3>1, <3>2
  <2> QED
    BY Zenon, <1>2, <2>5, <2>6, <2>7, <2>8, <2>10, <2>11, <2>12, <2>13, <2>14
       DEF IInv, LiveInv, UniqInv, FoundInv
<1>6. CASE status[q] # NOTSCHED
  <2>1. UNCHANGED <<status, pc, arg>>
    BY Zenon, <1>6 DEF QueueEnq
  <2>2. status[q] \in {READY, SCHED}
    <3>1. status[q] \in {FREE, DESTROYED, READY, NOTSCHED, SCHED}
      BY Zenon DEF IInv, TypeOK, QueueTypes
    <3> QED
      BY <1>1, <1>6, <3>1 DEF FREE, DESTROYED, READY
  <2>3. TypeOK'
    <3>1. QueueTypes'
      BY Zenon, <1>1, <1>3, <2>1 DEF IInv, TypeOK, QueueTypes, paramVars
    <3>2. CmdTypes' /\ PriTypes' /\ CallTypes'
      BY Zenon, <1>1, <2>1 DEF IInv, TypeOK, CmdTypes, PriTypes, CallTypes, cmdVars
    <3>3. CtxTypes'
      BY Zenon, <1>1 DEF IInv, TypeOK, CtxTypes, ctxVars
    <3> QED
      BY Zenon, <3>1, <3>2, <3>3 DEF TypeOK
  <2>4. QueueInv'
    BY <1>1, <2>1, <2>2 DEF IInv, QueueInv, paramVars, cmdVars
  <2>5. PcInv' /\ CreateInv'
    BY Zenon, <1>1, <2>1 DEF IInv, PcInv, CreateInv, ctxVars
  <2>v. UNCHANGED <<kind, status, cmd_ev, pri_queue, qe, pc, arg, i, ev, held, heldpri, local_qe>>
    BY Zenon, <1>1, <2>1 DEF paramVars, cmdVars, ctxVars
  <2>6. UniqInv'
    <3>1. ASSUME NEW u \in Threads PROVE UniqPri(u)'
      BY Zenon, <1>2, <2>v DEF IInv, UniqInv, UniqPri
    <3>2. ASSUME NEW u \in Threads, NEW v \in Threads PROVE UniqPair(u, v)'
      <4>1. UniqPair(u, v)
        BY Zenon DEF IInv, UniqInv
      <4> QED
        BY Zenon, <2>v, <4>1 DEF UniqPair
    <3> QED
      BY Zenon, <1>2, <3>1, <3>2 DEF UniqInv
  <2>7. LiveInv'
    <3>1. LivePri'
      BY Zenon, <1>2, <2>v DEF IInv, LiveInv, LivePri, Live
    <3>2. ASSUME NEW u \in Threads PROVE LiveThread(u)'
      <4>1. LiveThread(u)
        BY Zenon DEF IInv, LiveInv
      <4> QED
        BY Zenon, <2>v, <4>1 DEF LiveThread, Live
    <3> QED
      BY Zenon, <3>1, <3>2 DEF LiveInv
  <2>8. FoundInv'
    BY Zenon, <1>2, <2>v DEF IInv, FoundInv, Found, Has
  <2> QED
    BY Zenon, <2>3, <2>4, <2>5, <2>6, <2>7, <2>8 DEF IInv
<1> QED
  BY Zenon, <1>5, <1>6

\* The invariant holds when the queue table and the scheduler are initialized.
LEMMA InitIInv == Init => IInv
<1> SUFFICES ASSUME Init PROVE IInv
  BY Zenon
<1>1. TypeOK
  BY SchedAssumption DEF TypeOK, QueueTypes, CmdTypes, PriTypes, CallTypes, CtxTypes, Prios, Init
<1>2. \A p \in Prios : Queued[p] = {} /\ Distinct(priq[p])
  BY DEF Queued, Elems, Distinct, Init
<1>3. PcInv
  BY Zenon DEF PcInv, Init
<1>4. QueueInv
  BY DEF QueueInv, FREE, DESTROYED, READY, SCHED, Init
<1>5. CreateInv
  BY Zenon DEF CreateInv, Init
<1>6. UniqInv
  BY Zenon, <1>2 DEF UniqInv, UniqPri, UniqPair, Init
<1>7. LiveInv
  BY Zenon, <1>2 DEF LiveInv, LivePri, LiveThread, Init
<1>8. FoundInv
  BY DEF FoundInv, FREE, SCHED, DESTROYED, Init
<1> QED
  BY Zenon, <1>1, <1>3, <1>4, <1>5, <1>6, <1>7, <1>8 DEF IInv

\* Every step of every thread preserves the invariant.
LEMMA NextIInv == IInv /\ [Next]_vars => IInv'
<1> SUFFICES ASSUME IInv, [Next]_vars PROVE IInv'
  BY Zenon
<1>1. CASE UNCHANGED vars
  <2>1. /\ UNCHANGED <<status, kind, prio, cmd_ev, pri_queue, qe, freecmds, priq>>
        /\ UNCHANGED <<ev, held, heldpri, local_qe, pc, arg, i, head>>
    BY Zenon, <1>1 DEF vars, queueVars, cmdVars, ctxVars
  <2>2. TypeOK' /\ PcInv'
    BY Zenon, <1>1
       DEF IInv, TypeOK, QueueTypes, CmdTypes, PriTypes, CallTypes, CtxTypes, vars, queueVars,
           cmdVars, ctxVars, PcInv
  <2> QED
    BY Zenon, <2>1, <2>2, FrameStep DEF IInv, LiveInv, LiveThread
<1>2. ASSUME NEW t \in Threads, ScheduleCall(t) PROVE IInv'
  BY Zenon, <1>2, ScheduleLocalStep, ScheduleBeginStep DEF ScheduleCall
<1>3. ASSUME NEW t \in Threads, Step(t) PROVE IInv'
  <2>1. CASE ScheduleQueueInit(t)
    BY Zenon, <2>1, ScheduleQueueInitStep
  <2>2. CASE ScheduleQueueInitFail(t)
    BY Zenon, <2>2, ScheduleQueueInitFailStep
  <2>3. CASE ScheduleQueue(t)
    BY Zenon, <2>3, ScheduleQueueStep
  <2>4. CASE ScanEmpty(t)
    BY Zenon, <2>4, ScanEmptyStep
  <2>5. CASE ScanTake(t)
    BY Zenon, <2>5, ScanTakeStep
  <2>6. CASE NotEligible(t)
    BY Zenon, <2>6, NotEligibleStep
  <2>7. CASE DeqDestroyed(t)
    BY Zenon, <2>7, DeqDestroyedStep
  <2>8. CASE DeqEmpty(t)
    BY Zenon, <2>8, DeqEmptyStep
  <2>9. CASE DeqEvents(t)
    BY Zenon, <2>9, DeqEventsStep
  <2>10. CASE Reschedule(t)
    BY Zenon, <2>10, RescheduleStep
  <2>11. CASE DestroyFinalize(t)
    BY Zenon, <2>11, DestroyFinalizeStep
  <2> QED
    BY Zenon, <1>3, <2>1, <2>2, <2>3, <2>4, <2>5, <2>6, <2>7, <2>8, <2>9, <2>10, <2>11 DEF Step
<1>4. ASSUME NEW t \in Threads, AppCall(t) PROVE IInv'
  <2>1. ASSUME NEW q \in Queues, NEW k \in Kinds, NEW p \in Prios,
               NEW g \in Groups \cup {GroupAll}, QueueCreate(t, q, k, p, g)
        PROVE  IInv'
    BY Zenon, <2>1, QueueCreateStep
  <2>2. ASSUME NEW q \in Queues, QueueDestroy(t, q)
        PROVE  IInv'
    BY Zenon, <2>2, QueueDestroyIdle, QueueDestroySched
  <2>3. ASSUME NEW q \in Queues, NEW evs \in Batches(AppEvents), QueueEnq(t, q, evs)
        PROVE  IInv'
    <3>1. AppEvents \in SUBSET Events
      BY Zenon DEF AppEvents
    <3>2. evs \in Seq(Events)
      BY Zenon, <3>1, BatchesType
    <3> QED
      BY Zenon, <2>3, <3>2, QueueEnqStep
  <2>4. ASSUME NEW q \in Queues, NEW n \in 1..MaxDeq, QueueDeq(t, q, n)
        PROVE  IInv'
    BY Zenon, <2>4, QueueDeqStep
  <2>5. CASE AppRelease(t)
    BY Zenon, <2>5, AppReleaseStep
  <2>6. CASE TermLocal(t)
    BY Zenon, <2>6, TermLocalStep
  <2>7. CASE Pause(t)
    BY Zenon, <2>7, PauseStep
  <2>8. ASSUME NEW g \in Groups, GroupChange(g, t)
        PROVE  IInv'
    BY Zenon, <2>8, GroupChangeStep
  <2> QED
    BY Zenon, <1>4, <2>1, <2>2, <2>3, <2>4, <2>5, <2>6, <2>7, <2>8 DEF AppCall
<1> QED
  BY Zenon, <1>1, <1>2, <1>3, <1>4 DEF Next

\* IInv holds in every reachable state: the command of every queue in scheduling
\* is in exactly one place, whatever the threads do.
THEOREM SchedInvariant == Spec => []IInv
  BY InitIInv, NextIInv, PTL DEF Spec

\* The queue table, the priority queues and the contexts of the threads keep
\* their types.
THEOREM SchedTypeCorrect == Spec => []TypeOK
<1>1. IInv => TypeOK
  BY Zenon DEF IInv
<1> QED
  BY <1>1, SchedInvariant, PTL

\* A command buffer is never linked twice, and never with two threads.
THEOREM SchedOneCommand == Spec => []OneCommand
<1>1. IInv => OneCommand
  <2> SUFFICES ASSUME IInv PROVE OneCommand
    BY Zenon
  <2>1. \A p \in Prios : Distinct(priq[p])
    BY Zenon DEF IInv, UniqInv
  <2>2. \A p, r \in Prios : p # r => Queued[p] \cap Queued[r] = {}
    BY Zenon DEF IInv, LiveInv, LivePri
  <2>3. ASSUME NEW c \in Cmds, NEW t \in Threads, WithThread(t, c) PROVE ~InPriq(c)
    BY Zenon, <2>3, SchedAssumption
       DEF IInv, UniqInv, UniqPri, WithThread, InHand, InContext, InWake, InPriq
  <2>4. ASSUME NEW c \in Cmds, NEW t \in Threads, NEW u \in Threads, t # u
        PROVE  ~(InWake(t, c) /\ InWake(u, c))
    <3> SUFFICES ASSUME InWake(t, c), InWake(u, c) PROVE FALSE
      BY Zenon
    <3>1. arg[t] \in Queues /\ arg[u] \in Queues /\ arg[t] # arg[u]
      BY <2>4 DEF IInv, TypeOK, CallTypes, InWake, UniqInv, UniqPair, PcInv
    <3> QED
      BY <3>1, SchedAssumption DEF IInv, InWake, QueueInv
  <2>5. ASSUME NEW c \in Cmds, NEW t \in Threads, NEW u \in Threads
        PROVE  /\ ~(InHand(t, c) /\ InContext(u, c))
               /\ ~(InHand(t, c) /\ InWake(u, c))
               /\ ~(InContext(t, c) /\ InWake(u, c))
               /\ InHand(t, c) /\ InHand(u, c) => t = u
               /\ InContext(t, c) /\ InContext(u, c) => t = u
    BY Zenon, SchedAssumption DEF IInv, UniqInv, UniqPair, InHand, InContext, InWake
  <2> QED
    BY Zenon, <2>1, <2>2, <2>3, <2>4, <2>5 DEF OneCommand, WithThread
<1> QED
  BY <1>1, SchedInvariant, PTL

\* A command that circulates is the command of a queue in scheduling.
THEOREM SchedCommandLive == Spec => []CommandLive
<1>1. IInv => CommandLive
  <2> SUFFICES ASSUME IInv PROVE CommandLive
    BY Zenon
  <2>1. ASSUME NEW c \in Cmds, Circulating(c) PROVE Live(c)
    <3>1. ASSUME NEW t \in Threads, InWake(t, c) PROVE Live(c)
      <4>1. arg[t] \in Queues /\ status[arg[t]] \in {SCHED, DESTROYED} /\ cmd_ev[arg[t]] = c
        BY <3>1 DEF IInv, TypeOK, CallTypes, InWake, PcInv, LiveInv, LiveThread
      <4> QED
        BY <4>1, SchedAssumption DEF IInv, Live, QueueInv
    <3> QED
      BY <2>1, <3>1, SchedAssumption
         DEF IInv, Circulating, InPriq, WithThread, InHand, InContext, LiveInv, LivePri,
             LiveThread
  <2>2. ASSUME NEW c \in Cmds, Circulating(c)
        PROVE  /\ c \notin freecmds
               /\ qe[c] # None
               /\ cmd_ev[qe[c]] = c
               /\ status[qe[c]] \in {SCHED, DESTROYED}
    BY Zenon, <2>1, <2>2, NotFree DEF Live
  <2>3. \A p \in Prios : \A c \in Queued[p] : pri_queue[qe[c]] = p
    BY Zenon DEF IInv, LiveInv, LivePri
  <2>4. \A t \in Threads : held[t] # None => pri_queue[qe[held[t]]] = heldpri[t]
    BY Zenon DEF IInv, LiveInv, LiveThread
  <2> QED
    BY Zenon, <2>2, <2>3, <2>4 DEF CommandLive
<1> QED
  BY <1>1, SchedInvariant, PTL

\* A queue with events is in scheduling, and its command is somewhere.
THEOREM SchedNoLostWakeup == Spec => []NoLostWakeup
<1>1. IInv => NoLostWakeup
  <2> SUFFICES ASSUME IInv, NEW q \in Queues
               PROVE  /\ status[q] \in {SCHED, DESTROYED} =>
                            cmd_ev[q] # None /\ Circulating(cmd_ev[q])
                      /\ kind[q] # POLL /\ head[q] # <<>> => status[q] = SCHED
    BY Zenon DEF NoLostWakeup
  <2>1. ASSUME status[q] \in {SCHED, DESTROYED}
        PROVE  cmd_ev[q] # None /\ Circulating(cmd_ev[q])
    <3>1. cmd_ev[q] # None
      BY Zenon, <2>1 DEF IInv, QueueInv
    <3>2. Found(q)
      BY Zenon, <2>1 DEF IInv, FoundInv
    <3>3. ASSUME NEW t \in Threads, Has(t, q) PROVE WithThread(t, cmd_ev[q])
      BY Zenon, <3>3 DEF Has, WithThread, InHand, InContext, InWake
    <3> QED
      BY Zenon, <3>1, <3>2, <3>3 DEF Found, Circulating, InPriq
  <2>2. kind[q] # POLL /\ head[q] # <<>> => status[q] = SCHED
    BY Zenon DEF IInv, QueueInv
  <2> QED
    BY Zenon, <2>1, <2>2
<1> QED
  BY <1>1, SchedInvariant, PTL

\* The context of an atomic queue is exclusive.
THEOREM SchedAtomicContext == Spec => []AtomicContext
<1>1. IInv => AtomicContext
  <2> SUFFICES ASSUME IInv, NEW t \in Threads, held[t] # None
               PROVE  /\ status[qe[held[t]]] # FREE
                      /\ kind[qe[held[t]]] = ATOMIC
                      /\ \A u \in Threads \ {t} :
                            /\ held[u] # None => qe[held[u]] # qe[held[t]]
                            /\ ev[u] # None => qe[ev[u]] # qe[held[t]]
                      /\ local_qe[t] = qe[held[t]]
    BY Zenon DEF AtomicContext
  <2>1. /\ Live(held[t]) /\ kind[qe[held[t]]] = ATOMIC /\ local_qe[t] = qe[held[t]]
    BY Zenon DEF IInv, LiveInv, LiveThread
  <2>2. status[qe[held[t]]] # FREE
    BY <2>1 DEF Live, FREE, SCHED, DESTROYED
  <2>3. ASSUME NEW u \in Threads \ {t}
        PROVE  /\ held[u] # None => qe[held[u]] # qe[held[t]]
               /\ ev[u] # None => qe[ev[u]] # qe[held[t]]
    <3>1. /\ held[u] # None => Live(held[u]) /\ held[u] # held[t]
          /\ ev[u] # None => Live(ev[u]) /\ ev[u] # held[t]
      BY Zenon DEF IInv, LiveInv, LiveThread, UniqInv, UniqPair
    <3> QED
      BY Zenon, <2>1, <3>1 DEF Live
  <2> QED
    BY Zenon, <2>1, <2>2, <2>3
<1> QED
  BY <1>1, SchedInvariant, PTL

=============================================================================
