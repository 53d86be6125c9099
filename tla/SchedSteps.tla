----------------------------- MODULE SchedSteps -----------------------------
(***************************************************************************)
(* The lemmas behind SchedProofs: what the priority queues, the invariant   *)
(* and its parts keep when the state they do not mention changes, the       *)
(* steps that move no command, and those that create and destroy a queue    *)
(* (odp_queue.c) or put a command on a priority queue (odp_schedule.c).     *)
(*                                                                          *)
(* The sequences behind the priority queues occur only in the first         *)
(* lemmas; the others speak of the set of commands on each priority queue.  *)
(***************************************************************************)
EXTENDS Sched, TLAPS

\* The effect of odp_queue_enq on a priority queue: one command more on it.
LEMMA PriEnqLemma ==
    ASSUME priq \in [Prios -> Seq(Cmds)],
           \A p \in Prios : Distinct(priq[p]),
           NEW r \in Prios, NEW c \in Cmds,
           \A p \in Prios : c \notin Queued[p],
           PriEnq(r, c)
    PROVE  /\ priq' \in [Prios -> Seq(Cmds)]
           /\ \A p \in Prios : Distinct(priq[p])'
           /\ Queued' = [Queued EXCEPT ![r] = @ \cup {c}]
<1>1. priq' = [priq EXCEPT ![r] = Append(priq[r], c)]
  BY Zenon DEF PriEnq
<1>2. priq' \in [Prios -> Seq(Cmds)]
  BY <1>1
<1>3. ASSUME NEW s \in Seq(Cmds)
      PROVE  Elems(Append(s, c)) = Elems(s) \cup {c}
  <2> DEFINE S == Append(s, c)
  <2>1. Len(S) = Len(s) + 1 /\ S[Len(s) + 1] = c /\ \A n \in 1..Len(s) : S[n] = s[n]
    OBVIOUS
  <2>2. Len(s) \in Nat
    OBVIOUS
  <2> HIDE DEF S
  <2>3. ASSUME NEW d \in Elems(S)
        PROVE  d \in Elems(s) \cup {c}
    <3>1. PICK n \in 1..Len(S) : d = S[n]
      BY Zenon DEF Elems
    <3>2. CASE n = Len(s) + 1
      BY Zenon, <2>1, <3>1, <3>2
    <3>3. CASE n \in 1..Len(s)
      BY Zenon, <2>1, <3>1, <3>3 DEF Elems
    <3> QED
      BY <2>1, <3>2, <3>3
  <2>4. ASSUME NEW d \in Elems(s) \cup {c}
        PROVE  d \in Elems(S)
    <3>1. CASE d = c
      BY <2>1, <3>1 DEF Elems
    <3>2. CASE d \in Elems(s)
      <4>1. PICK n \in 1..Len(s) : d = s[n]
        BY Zenon, <3>2 DEF Elems
      <4>2. n \in 1..Len(S) /\ d = S[n]
        BY <2>1, <4>1
      <4> QED
        BY Zenon, <4>2 DEF Elems
    <3> QED
      BY Zenon, <3>1, <3>2
  <2>5. Elems(S) = Elems(s) \cup {c}
    BY Zenon, <2>3, <2>4
  <2> QED
    BY Zenon, <2>5 DEF S
<1>4. Queued' = [Queued EXCEPT ![r] = @ \cup {c}]
  BY Zenon, <1>1, <1>3 DEF Queued
<1>5. c \notin Elems(priq[r])
  BY Zenon DEF Queued
<1>6. Distinct(Append(priq[r], c))
  BY <1>5 DEF Distinct, Elems
<1>7. \A p \in Prios : Distinct(priq[p])'
  BY <1>1, <1>6
<1> QED
  BY Zenon, <1>2, <1>4, <1>7

\* The effect of odp_queue_deq on a priority queue: its first command is not on
\* it any more.
LEMMA PriDeqLemma ==
    ASSUME priq \in [Prios -> Seq(Cmds)],
           \A p \in Prios : Distinct(priq[p]),
           NEW r \in Prios, priq[r] # <<>>,
           priq' = [priq EXCEPT ![r] = Tail(priq[r])]
    PROVE  /\ priq' \in [Prios -> Seq(Cmds)]
           /\ \A p \in Prios : Distinct(priq[p])'
           /\ Queued' = [Queued EXCEPT ![r] = @ \ {Head(priq[r])}]
           /\ Head(priq[r]) \in Queued[r]
           /\ Head(priq[r]) \in Cmds
<1>1. priq' \in [Prios -> Seq(Cmds)]
  OBVIOUS
<1>2. /\ Head(priq[r]) \in Elems(priq[r])
      /\ Head(priq[r]) \in Cmds
  BY DEF Elems
<1>3. Elems(Tail(priq[r])) = Elems(priq[r]) \ {Head(priq[r])}
  <2> DEFINE s == priq[r]
             T == Tail(s)
  <2>1. /\ Len(s) \in Nat \ {0} /\ Len(T) = Len(s) - 1 /\ Head(s) = s[1]
        /\ \A n \in 1..Len(T) : T[n] = s[n + 1]
    OBVIOUS
  <2>2. \A m, n \in 1..Len(s) : s[m] = s[n] => m = n
    BY Zenon DEF Distinct
  <2> HIDE DEF s, T
  <2>3. ASSUME NEW d \in Elems(T)
        PROVE  d \in Elems(s) \ {Head(s)}
    <3>1. PICK n \in 1..Len(T) : d = T[n]
      BY Zenon DEF Elems
    <3>2. d = s[n + 1] /\ n + 1 \in 1..Len(s) /\ n + 1 # 1 /\ 1 \in 1..Len(s)
      BY <2>1, <3>1
    <3> QED
      BY Zenon, <2>1, <2>2, <3>2 DEF Elems
  <2>4. ASSUME NEW d \in Elems(s) \ {Head(s)}
        PROVE  d \in Elems(T)
    <3>1. PICK n \in 1..Len(s) : d = s[n]
      BY Zenon DEF Elems
    <3>2. n - 1 \in 1..Len(T) /\ d = T[n - 1]
      BY <2>1, <3>1
    <3> QED
      BY Zenon, <3>2 DEF Elems
  <2>5. Elems(T) = Elems(s) \ {Head(s)}
    BY Zenon, <2>3, <2>4
  <2> QED
    BY Zenon, <2>5 DEF s, T
<1>4. Distinct(Tail(priq[r]))
  BY DEF Distinct
<1>5. Queued' = [Queued EXCEPT ![r] = @ \ {Head(priq[r])}]
  BY Zenon, <1>3 DEF Queued
<1>6. \A p \in Prios : Distinct(priq[p])'
  BY <1>4
<1>7. Head(priq[r]) \in Queued[r]
  BY Zenon, <1>2 DEF Queued
<1> QED
  BY Zenon, <1>1, <1>2, <1>5, <1>6, <1>7

PCs == {"app", "create", "wake", "scan", "token", "again", "final"}

\* The scan stays within the priorities.
LEMMA NextPrioType ==
    ASSUME i \in [Threads -> Prios], pc \in [Threads -> PCs],
           NEW t \in Threads, NextPrio(t)
    PROVE  i' \in [Threads -> Prios] /\ pc' \in [Threads -> PCs]
  BY SchedAssumption DEF NextPrio, Prios, PCs

\* Nobody but the threads in S has the command of queue q.
Apart(q, S) ==
    /\ \A p \in Prios : \A d \in Queued[p] : qe[d] # q
    /\ \A u \in Threads \ S : ev[u] # None => qe[ev[u]] # q
    /\ \A u \in Threads : held[u] # None => qe[held[u]] # q
    /\ \A u \in Threads : pc[u] = "wake" => arg[u] # q

\* A step that leaves the queue entry r alone.
Same(r) == UNCHANGED <<status[r], kind[r], cmd_ev[r], pri_queue[r]>>

\* What is on the priority queues is typed.
LEMMA QueuedType ==
    ASSUME TypeOK, NEW p \in Prios, NEW d \in Queued[p]
    PROVE  d \in Cmds
  BY DEF TypeOK, PriTypes, Queued, Elems

\* A thread and the queues of its commands that a step leaves alone stay live.
LEMMA LiveThreadFrame ==
    ASSUME NEW u \in Threads, LiveThread(u),
           UNCHANGED <<ev[u], i[u], held[u], heldpri[u], local_qe[u]>>,
           pc'[u] \in {"wake", "final"} => UNCHANGED <<pc[u], arg[u]>>,
           ev[u] # None => qe'[ev[u]] = qe[ev[u]] /\ Same(qe[ev[u]]),
           held[u] # None => qe'[held[u]] = qe[held[u]] /\ Same(qe[held[u]]),
           pc[u] = "wake" => Same(arg[u])
    PROVE  LiveThread(u)'
<1>1. (ev[u] # None => /\ Live(ev[u])
                       /\ pri_queue[qe[ev[u]]] = i[u]
                       /\ pc[u] = "final" => status[qe[ev[u]]] = DESTROYED)'
  BY Zenon DEF LiveThread, Live, Same
<1>2. (held[u] # None => /\ Live(held[u])
                         /\ pri_queue[qe[held[u]]] = heldpri[u]
                         /\ kind[qe[held[u]]] = ATOMIC
                         /\ local_qe[u] = qe[held[u]])'
  BY Zenon DEF LiveThread, Live, Same
<1>3. (pc[u] = "wake" => status[arg[u]] \in {SCHED, DESTROYED})'
  BY Zenon DEF LiveThread, Same
<1> QED
  BY Zenon, <1>1, <1>2, <1>3 DEF LiveThread

\* A command that was somewhere is found again after a step of thread t if it
\* was not with t, or is found where t has put it.
LEMMA FoundFrame ==
    ASSUME NEW r \in Queues, NEW t \in Threads, Found(r),
           cmd_ev'[r] = cmd_ev[r],
           \A p \in Prios : cmd_ev[r] \in Queued[p] => Found(r)',
           \A u \in Threads \ {t} : UNCHANGED <<ev[u], held[u], pc[u], arg[u]>>,
           Has(t, r) => Found(r)'
    PROVE  Found(r)'
<1>1. CASE \E p \in Prios : cmd_ev[r] \in Queued[p]
  BY Zenon, <1>1
<1>2. CASE \E u \in Threads : Has(u, r)
  <2>1. PICK u \in Threads : Has(u, r)
    BY Zenon, <1>2
  <2>2. CASE u = t
    BY Zenon, <2>1, <2>2
  <2>3. CASE u # t
    <3>1. Has(u, r)'
      BY Zenon, <2>1, <2>3 DEF Has
    <3> QED
      BY Zenon, <3>1 DEF Found
  <2> QED
    BY Zenon, <2>2, <2>3
<1> QED
  BY Zenon, <1>2 DEF Found

\* The command a thread has taken from a priority queue is that of a queue in
\* scheduling, and nobody else has it.
LEMMA InHandLemma ==
    ASSUME IInv, NEW t \in Threads, ev[t] # None
    PROVE  /\ ev[t] \in Cmds
           /\ qe[ev[t]] \in Queues
           /\ cmd_ev[qe[ev[t]]] = ev[t]
           /\ status[qe[ev[t]]] \in {SCHED, DESTROYED}
           /\ pri_queue[qe[ev[t]]] = i[t]
           /\ Apart(qe[ev[t]], {t})
<1>1. ev[t] \in Cmds
  BY Zenon DEF IInv, TypeOK, CallTypes
<1>2. Live(ev[t]) /\ pri_queue[qe[ev[t]]] = i[t]
  BY Zenon DEF IInv, LiveInv, LiveThread
<1>3. qe[ev[t]] \in Queues
  BY Zenon, <1>1, <1>2 DEF IInv, TypeOK, CmdTypes, Live
<1>4. ASSUME NEW p \in Prios, NEW d \in Queued[p]
      PROVE  qe[d] # qe[ev[t]]
  <2>1. Live(d) /\ ev[t] \notin Queued[p]
    BY Zenon DEF IInv, LiveInv, LivePri, UniqInv, UniqPri
  <2> QED
    BY Zenon, <1>2, <2>1 DEF Live
<1>5. ASSUME NEW u \in Threads \ {t}, ev[u] # None
      PROVE  qe[ev[u]] # qe[ev[t]]
  <2>1. Live(ev[u]) /\ ev[u] # ev[t]
    BY Zenon, <1>5 DEF IInv, LiveInv, LiveThread, UniqInv, UniqPair
  <2> QED
    BY Zenon, <1>2, <2>1 DEF Live
<1>6. ASSUME NEW u \in Threads, held[u] # None
      PROVE  qe[held[u]] # qe[ev[t]]
  <2>1. Live(held[u]) /\ held[u] # ev[t]
    BY Zenon, <1>6 DEF IInv, LiveInv, LiveThread, UniqInv, UniqPair
  <2> QED
    BY Zenon, <1>2, <2>1 DEF Live
<1>7. ASSUME NEW u \in Threads, pc[u] = "wake"
      PROVE  arg[u] # qe[ev[t]]
  BY Zenon, <1>2, <1>7 DEF IInv, UniqInv, UniqPair, Live
<1> QED
  BY Zenon, <1>1, <1>2, <1>3, <1>4, <1>5, <1>6, <1>7 DEF Apart, Live

\* Nobody has the command of a queue that is out of scheduling.
LEMMA IdleLemma ==
    ASSUME IInv, NEW q \in Queues, status[q] \notin {SCHED, DESTROYED}
    PROVE  Apart(q, {})
<1>1. ASSUME NEW p \in Prios, NEW d \in Queued[p]
      PROVE  qe[d] # q
  BY Zenon DEF IInv, LiveInv, LivePri, Live
<1>2. ASSUME NEW u \in Threads
      PROVE  /\ ev[u] # None => qe[ev[u]] # q
             /\ held[u] # None => qe[held[u]] # q
             /\ pc[u] = "wake" => arg[u] # q
  BY Zenon DEF IInv, LiveInv, LiveThread, Live
<1> QED
  BY Zenon, <1>1, <1>2 DEF Apart

\* The commands that circulate are not free.
LEMMA NotFree ==
    ASSUME IInv, NEW d \in Cmds, Live(d)
    PROVE  qe[d] \in Queues /\ d \notin freecmds
  BY Zenon DEF IInv, TypeOK, CmdTypes, QueueInv, Live

\* A step that touches only the queue entry q, whose command is apart from the
\* priority queues and from thread u, leaves the other commands live.
LEMMA PriLive ==
    ASSUME IInv, NEW q \in Queues, NEW S, Apart(q, S),
           \A r \in Queues \ {q} : Same(r),
           \A d \in Cmds \ freecmds : qe'[d] = qe[d],
           NEW p \in Prios, NEW d \in Queued[p]
    PROVE  Live(d)' /\ pri_queue'[qe'[d]] = p
<1>1. d \in Cmds /\ Live(d) /\ pri_queue[qe[d]] = p
  BY Zenon, QueuedType DEF IInv, LiveInv, LivePri
<1>2. qe[d] \in Queues /\ d \notin freecmds /\ qe[d] # q
  BY Zenon, <1>1, NotFree DEF Apart
<1> QED
  BY Zenon, <1>1, <1>2 DEF Live, Same

\* The same for a thread u.
LEMMA ThreadLive ==
    ASSUME IInv, NEW q \in Queues, NEW S, Apart(q, S),
           \A r \in Queues \ {q} : Same(r),
           \A d \in Cmds \ freecmds : qe'[d] = qe[d],
           NEW u \in Threads \ S,
           UNCHANGED <<ev[u], i[u], held[u], heldpri[u], local_qe[u]>>,
           pc'[u] \in {"wake", "final"} => UNCHANGED <<pc[u], arg[u]>>
    PROVE  LiveThread(u)'
<1>1. LiveThread(u)
  BY Zenon DEF IInv, LiveInv
<1>2. ev[u] # None => qe'[ev[u]] = qe[ev[u]] /\ Same(qe[ev[u]])
  <2>1. ev[u] # None => ev[u] \in Cmds /\ Live(ev[u]) /\ qe[ev[u]] # q
    BY Zenon, <1>1 DEF IInv, TypeOK, CallTypes, LiveThread, Apart
  <2> QED
    BY Zenon, <2>1, NotFree
<1>3. held[u] # None => qe'[held[u]] = qe[held[u]] /\ Same(qe[held[u]])
  <2>1. held[u] # None => held[u] \in Cmds /\ Live(held[u]) /\ qe[held[u]] # q
    BY Zenon, <1>1 DEF IInv, TypeOK, CtxTypes, LiveThread, Apart
  <2> QED
    BY Zenon, <2>1, NotFree
<1>4. pc[u] = "wake" => Same(arg[u])
  BY DEF IInv, TypeOK, CallTypes, PcInv, Apart
<1> QED
  BY Zenon, <1>1, <1>2, <1>3, <1>4, LiveThreadFrame

\* What is left of a sequence of events is one.
LEMMA SubSeqType ==
    ASSUME NEW s \in Seq(Events), NEW m \in Nat, NEW n \in 0..Len(s)
    PROVE  SubSeq(s, m + 1, n) \in Seq(Events)
  OBVIOUS

\* A step that moves no command and changes no queue, but for where a thread is
\* in its call and for the events in the queues.
LEMMA FrameStep ==
    ASSUME IInv, TypeOK', PcInv',
           UNCHANGED <<status, kind, prio, cmd_ev, pri_queue, qe, freecmds, priq,
                       ev, held, heldpri, local_qe>>,
           \A q \in Queues : kind[q] # POLL /\ head'[q] # <<>> => head[q] # <<>>,
           \A u \in Threads :
              /\ pc'[u] \in {"create", "wake"} => UNCHANGED <<pc[u], arg[u]>>
              /\ pc[u] = "wake" => UNCHANGED <<pc[u], arg[u]>>
              /\ ev[u] # None => i'[u] = i[u]
              /\ ev[u] # None /\ pc'[u] = "final" => status[qe[ev[u]]] = DESTROYED
    PROVE  IInv'
<1>1. Queued' = Queued
  BY Zenon DEF Queued
<1>2. QueueInv'
  BY Zenon DEF IInv, QueueInv
<1>3. CreateInv'
  BY DEF IInv, CreateInv
<1>4. UniqInv'
  <2>1. ASSUME NEW u \in Threads PROVE UniqPri(u)'
    BY Zenon, <1>1 DEF IInv, UniqInv, UniqPri
  <2>2. ASSUME NEW u \in Threads, NEW v \in Threads PROVE UniqPair(u, v)'
    <3>1. UniqPair(u, v)
      BY Zenon DEF IInv, UniqInv
    <3> QED
      BY <3>1 DEF UniqPair
  <2>3. \A p \in Prios : Distinct(priq[p])'
    BY Zenon DEF IInv, UniqInv
  <2> QED
    BY Zenon, <2>1, <2>2, <2>3 DEF UniqInv
<1>5. LiveInv'
  <2>1. LivePri'
    BY <1>1 DEF IInv, LiveInv, LivePri, Live
  <2>2. ASSUME NEW u \in Threads PROVE LiveThread(u)'
    BY DEF IInv, LiveInv, LiveThread, Live
  <2> QED
    BY Zenon, <2>1, <2>2 DEF LiveInv
<1>6. FoundInv'
  <2>1. ASSUME NEW q \in Queues, Found(q) PROVE Found(q)'
    <3>1. CASE \E p \in Prios : cmd_ev[q] \in Queued[p]
      BY Zenon, <1>1, <3>1 DEF Found
    <3>2. ASSUME NEW u \in Threads, Has(u, q) PROVE Found(q)'
      <4>1. Has(u, q)'
        BY Zenon, <3>2 DEF Has
      <4> QED
        BY Zenon, <4>1 DEF Found
    <3> QED
      BY Zenon, <2>1, <3>1, <3>2 DEF Found
  <2> QED
    BY Zenon, <2>1 DEF IInv, FoundInv
<1> QED
  BY Zenon, <1>2, <1>3, <1>4, <1>5, <1>6 DEF IInv

\* schedule() hands out prefetched events.
LEMMA ScheduleLocalStep ==
    ASSUME IInv, NEW t \in Threads, ScheduleLocal(t)
    PROVE  IInv'
<1>1. PICK n \in 1..Len(buf_hdr[t]) :
          buf_hdr' = [buf_hdr EXCEPT ![t] = SubSeq(buf_hdr[t], n + 1, Len(buf_hdr[t]))]
  BY Zenon DEF ScheduleLocal
<1>2. buf_hdr[t] \in Seq(Events) /\ buf_hdr \in [Threads -> Seq(Events)]
  BY Zenon DEF IInv, TypeOK, CtxTypes
<1>3. Len(buf_hdr[t]) \in Nat
  OBVIOUS
<1>4. buf_hdr' \in [Threads -> Seq(Events)]
  BY <1>1, <1>2
<1>5. TypeOK' /\ PcInv'
  BY Zenon, <1>4
     DEF IInv, TypeOK, QueueTypes, CmdTypes, PriTypes, CallTypes, CtxTypes, ScheduleLocal, PcInv,
         queueVars, cmdVars
<1>6. /\ UNCHANGED <<status, kind, prio, cmd_ev, pri_queue, qe, freecmds, priq>>
      /\ UNCHANGED <<ev, held, heldpri, local_qe, pc, arg, i, head>>
  BY Zenon DEF ScheduleLocal, queueVars, cmdVars
<1> QED
  BY Zenon, <1>5, <1>6, FrameStep DEF IInv, LiveInv, LiveThread

\* odp_schedule_pause and odp_schedule_resume.
LEMMA PauseStep ==
    ASSUME IInv, NEW t \in Threads, Pause(t)
    PROVE  IInv'
<1>1. TypeOK' /\ PcInv'
  BY Zenon
     DEF IInv, TypeOK, QueueTypes, CmdTypes, PriTypes, CallTypes, CtxTypes, Pause, PcInv,
         queueVars, cmdVars
<1>2. /\ UNCHANGED <<status, kind, prio, cmd_ev, pri_queue, qe, freecmds, priq>>
      /\ UNCHANGED <<ev, held, heldpri, local_qe, pc, arg, i, head>>
  BY Zenon DEF Pause, queueVars, cmdVars
<1> QED
  BY Zenon, <1>1, <1>2, FrameStep DEF IInv, LiveInv, LiveThread

\* odp_schedule_group_join and odp_schedule_group_leave.
LEMMA GroupChangeStep ==
    ASSUME IInv, NEW t \in Threads, NEW g \in Groups, GroupChange(g, t)
    PROVE  IInv'
<1>1. TypeOK' /\ PcInv'
  BY Zenon DEF IInv, TypeOK, QueueTypes, CmdTypes, PriTypes, CallTypes, CtxTypes, GroupChange,
     PcInv, queueVars, cmdVars, ctxVars
<1>2. /\ UNCHANGED <<status, kind, prio, cmd_ev, pri_queue, qe, freecmds, priq>>
      /\ UNCHANGED <<ev, held, heldpri, local_qe, pc, arg, i, head>>
  BY Zenon DEF GroupChange, queueVars, cmdVars, ctxVars
<1> QED
  BY Zenon, <1>1, <1>2, FrameStep DEF IInv, LiveInv, LiveThread

\* odp_queue_deq takes events from a queue that is not scheduled.
LEMMA QueueDeqStep ==
    ASSUME IInv, NEW t \in Threads, NEW q \in Queues, NEW n \in 1..MaxDeq, QueueDeq(t, q, n)
    PROVE  IInv'
<1>1. head[q] \in Seq(Events) /\ head \in [Queues -> Seq(Events)]
  BY Zenon DEF IInv, TypeOK, QueueTypes
<1>2. Len(head[q]) \in Nat
  OBVIOUS
<1>3. SubSeq(head[q], n + 1, Len(head[q])) \in Seq(Events)
  BY <1>1
<1>4. /\ head' = [head EXCEPT ![q] = SubSeq(head[q], n + 1, Len(head[q]))]
      /\ kind[q] = POLL
      /\ UNCHANGED <<status, kind, prio, cmd_ev, pri_queue, qe, freecmds, priq>>
      /\ UNCHANGED <<ev, held, heldpri, local_qe, pc, arg, i>>
  BY Zenon DEF QueueDeq, paramVars, cmdVars, ctxVars
<1>5. head' \in [Queues -> Seq(Events)] /\ \A r \in Queues : r # q => head'[r] = head[r]
  BY Zenon, <1>1, <1>3, <1>4
<1>6. TypeOK' /\ PcInv'
  BY Zenon, <1>5
     DEF IInv, TypeOK, QueueTypes, CmdTypes, PriTypes, CallTypes, CtxTypes, QueueDeq, PcInv,
         paramVars, cmdVars, ctxVars
<1> QED
  BY Zenon, <1>4, <1>5, <1>6, FrameStep DEF IInv, LiveInv, LiveThread

\* A failed schedule_queue_init leaves the slot without a command.
LEMMA ScheduleQueueInitFailStep ==
    ASSUME IInv, NEW t \in Threads, ScheduleQueueInitFail(t)
    PROVE  IInv'
<1>1. /\ UNCHANGED <<status, kind, prio, cmd_ev, pri_queue, qe, freecmds, priq>>
      /\ UNCHANGED <<ev, held, heldpri, local_qe, i, head>>
      /\ pc[t] = "create" /\ pc'[t] = "app" /\ arg'[t] = None
      /\ \A u \in Threads \ {t} : UNCHANGED <<pc[u], arg[u]>>
  BY Zenon DEF IInv, TypeOK, CallTypes, ScheduleQueueInitFail, queueVars, cmdVars, ctxVars
<1>2. TypeOK'
  BY Zenon
     DEF IInv, TypeOK, QueueTypes, CmdTypes, PriTypes, CallTypes, CtxTypes, ScheduleQueueInitFail,
         queueVars, cmdVars, ctxVars
<1>3. PcInv'
  BY Zenon, <1>1 DEF IInv, PcInv
<1> QED
  BY Zenon, <1>1, <1>2, <1>3, FrameStep DEF IInv, LiveInv, LiveThread

\* schedule() finds nothing at a priority.
LEMMA ScanEmptyStep ==
    ASSUME IInv, NEW t \in Threads, ScanEmpty(t)
    PROVE  IInv'
<1>1. i' \in [Threads -> Prios] /\ pc' \in [Threads -> PCs]
  BY Zenon, NextPrioType DEF IInv, TypeOK, CallTypes, PCs, ScanEmpty
<1>2. /\ UNCHANGED <<status, kind, prio, cmd_ev, pri_queue, qe, freecmds, priq>>
      /\ UNCHANGED <<ev, held, heldpri, local_qe, arg, head>>
      /\ pc[t] = "scan" /\ pc'[t] \in {"scan", "app"}
      /\ \A u \in Threads \ {t} : UNCHANGED <<pc[u], i[u]>>
  BY DEF ScanEmpty, NextPrio, queueVars, cmdVars, ctxVars
<1>3. TypeOK'
  BY Zenon, <1>1
     DEF IInv, TypeOK, QueueTypes, CmdTypes, PriTypes, CallTypes, CtxTypes, ScanEmpty, PCs,
         queueVars, cmdVars, ctxVars
<1>4. PcInv' /\ ev[t] = None
  BY Zenon, <1>2 DEF IInv, PcInv
<1> QED
  BY Zenon, <1>2, <1>3, <1>4, FrameStep DEF IInv, LiveInv, LiveThread

\* schedule() finds a destroyed queue.
LEMMA DeqDestroyedStep ==
    ASSUME IInv, NEW t \in Threads, DeqDestroyed(t)
    PROVE  IInv'
<1>1. /\ UNCHANGED <<status, kind, prio, cmd_ev, pri_queue, qe, freecmds, priq>>
      /\ UNCHANGED <<ev, held, heldpri, local_qe, arg, i, head>>
      /\ pc[t] = "token" /\ pc'[t] = "final" /\ status[qe[ev[t]]] < READY
      /\ \A u \in Threads \ {t} : UNCHANGED pc[u]
  BY Zenon DEF IInv, TypeOK, CallTypes, DeqDestroyed, queueVars, cmdVars, ctxVars
<1>2. ev[t] # None
  BY Zenon, <1>1 DEF IInv, PcInv
<1>3. status[qe[ev[t]]] = DESTROYED
  <2>1. status[qe[ev[t]]] \in {SCHED, DESTROYED}
    BY Zenon, <1>2, InHandLemma
  <2> QED
    BY <1>1, <2>1 DEF READY, SCHED
<1>4. TypeOK'
  <2>1. QueueTypes' /\ CmdTypes' /\ PriTypes'
    BY Zenon DEF IInv, TypeOK, QueueTypes, CmdTypes, PriTypes, DeqDestroyed, queueVars, cmdVars
  <2>2. CallTypes'
    BY Zenon DEF IInv, TypeOK, CallTypes, DeqDestroyed
  <2>3. CtxTypes'
    BY Zenon DEF IInv, TypeOK, CtxTypes, DeqDestroyed, ctxVars
  <2> QED
    BY Zenon, <2>1, <2>2, <2>3 DEF TypeOK
<1>5. PcInv'
  BY Zenon, <1>1 DEF IInv, PcInv
<1> QED
  BY Zenon, <1>1, <1>3, <1>4, <1>5, FrameStep DEF IInv, LiveInv, LiveThread

-----------------------------------------------------------------------------
(* Creating and destroying a queue.                                         *)

\* schedule_queue_init gives a new queue a command that nobody has.
LEMMA ScheduleQueueInitStep ==
    ASSUME IInv, NEW t \in Threads, ScheduleQueueInit(t)
    PROVE  IInv'
<1>1. Queued' = Queued /\ \A r \in Prios : Distinct(priq[r])'
  BY Zenon DEF IInv, Queued, UniqInv, ScheduleQueueInit
<1> DEFINE q == arg[t]
<1>2. /\ pc[t] = "create" /\ q \in Queues
      /\ status[q] = NOTSCHED /\ cmd_ev[q] = None /\ Apart(q, {})
  <2>1. pc[t] = "create" /\ q \in Queues
    BY Zenon DEF IInv, TypeOK, CallTypes, ScheduleQueueInit, PcInv
  <2>2. status[q] = NOTSCHED /\ cmd_ev[q] = None
    BY Zenon, <2>1 DEF IInv, CreateInv
  <2> QED
    BY <2>1, <2>2, IdleLemma DEF NOTSCHED, SCHED, DESTROYED
<1>3. PICK c \in freecmds :
          /\ freecmds' = freecmds \ {c}
          /\ qe' = [qe EXCEPT ![c] = q]
          /\ cmd_ev' = [cmd_ev EXCEPT ![q] = c]
  BY Zenon DEF ScheduleQueueInit
<1>4. /\ pri_count' = [pri_count EXCEPT ![prio[q]] = pri_count[prio[q]] + 1]
      /\ pri_queue' = [pri_queue EXCEPT ![q] = prio[q]]
      /\ pc' = [pc EXCEPT ![t] = "app"]
      /\ arg' = [arg EXCEPT ![t] = None]
      /\ UNCHANGED <<status, kind, prio, group, head, priq, mask, i, ev, ctxVars>>
  BY Zenon DEF ScheduleQueueInit, paramVars
<1> HIDE DEF q
<1>5. c \in Cmds /\ c # None
  BY Zenon, SchedAssumption DEF IInv, TypeOK, CmdTypes
<1>6. TypeOK'
  <2>1. pri_count' \in [Prios -> Int]
    BY <1>2, <1>4 DEF IInv, TypeOK, QueueTypes, PriTypes
  <2> QED
    BY Zenon, <1>2, <1>3, <1>4, <2>1
       DEF IInv, TypeOK, QueueTypes, CmdTypes, PriTypes, CallTypes, CtxTypes, ctxVars
<1>7. /\ \A r \in Queues \ {q} : Same(r)
      /\ \A d \in Cmds \ freecmds : qe'[d] = qe[d]
  BY <1>3, <1>4 DEF Same
<1>8. PcInv'
  BY Zenon, <1>2, <1>4 DEF IInv, TypeOK, CallTypes, PcInv, ctxVars
<1>9. QueueInv'
  <2>1. ASSUME NEW r \in Queues, cmd_ev[r] # None PROVE cmd_ev[r] \in Cmds /\ cmd_ev[r] # c /\ r # q
    BY <1>2, <2>1 DEF IInv, TypeOK, CmdTypes, QueueInv
  <2>2. ASSUME NEW r \in Queues PROVE status[r] \in {FREE, READY} => r # q
    BY <1>2 DEF NOTSCHED, FREE, READY
  <2> QED
    BY <1>2, <1>3, <1>4, <1>5, <2>1, <2>2 DEF IInv, TypeOK, CmdTypes, QueueInv
<1>10. CreateInv'
  <2>1. ASSUME NEW u \in Threads, pc'[u] = "create"
        PROVE  u # t /\ pc[u] = "create" /\ arg[u] # q /\ arg'[u] = arg[u] /\ arg[u] \in Queues
    BY <1>2, <1>4, <2>1 DEF IInv, TypeOK, CallTypes, CreateInv, PcInv, q
  <2> QED
    BY <1>3, <1>4, <2>1 DEF IInv, CreateInv
<1>11. UniqInv'
  <2>1. ASSUME NEW u \in Threads, pc'[u] = "wake"
        PROVE  pc[u] = "wake" /\ arg'[u] = arg[u] /\ arg[u] \in Queues \ {q}
    BY Zenon, <1>2, <1>4, <2>1 DEF IInv, TypeOK, CallTypes, Apart, PcInv
  <2>2. ASSUME NEW u \in Threads PROVE UniqPri(u)'
    BY <1>1, <1>3, <1>4, <2>1 DEF IInv, UniqInv, UniqPri, ctxVars
  <2>3. ASSUME NEW u \in Threads, NEW v \in Threads PROVE UniqPair(u, v)'
    BY <1>3, <1>4, <2>1 DEF IInv, UniqInv, UniqPair, ctxVars
  <2> QED
    BY Zenon, <1>1, <2>2, <2>3 DEF UniqInv
<1>12. LivePri'
  BY Zenon, <1>1, <1>2, <1>7, PriLive DEF LivePri
<1>13. ASSUME NEW u \in Threads PROVE LiveThread(u)'
  <2>1. u \in Threads \ {}
    BY Zenon
  <2>2. /\ UNCHANGED <<ev[u], i[u], held[u], heldpri[u], local_qe[u]>>
        /\ pc'[u] \in {"wake", "final"} => UNCHANGED <<pc[u], arg[u]>>
    BY Zenon, <1>4 DEF IInv, TypeOK, CallTypes, ctxVars
  <2> QED
    BY Zenon, <1>2, <1>7, <2>1, <2>2, ThreadLive
<1>14. FoundInv'
  <2>1. ASSUME NEW r \in Queues, (status[r] \in {SCHED, DESTROYED})'
        PROVE  Found(r)'
    <3>1. r # q /\ cmd_ev'[r] = cmd_ev[r] /\ Found(r) /\ cmd_ev[r] # None
      BY <1>2, <1>3, <1>4, <2>1 DEF IInv, FoundInv, QueueInv
    <3>2. Has(t, r) => Has(t, r)'
      BY Zenon, <1>2, <1>4, <3>1 DEF Has, ctxVars
    <3> QED
      BY <1>1, <1>4, <3>1, <3>2, FoundFrame DEF Found, ctxVars
  <2> QED
    BY Zenon, <2>1 DEF FoundInv
<1> QED
  BY Zenon, <1>6, <1>8, <1>9, <1>10, <1>11, <1>12, <1>13, <1>14 DEF IInv, LiveInv

\* odp_queue_create takes a slot whose command nobody has.
LEMMA QueueCreateStep ==
    ASSUME IInv, NEW t \in Threads, NEW q \in Queues, NEW k \in Kinds,
           NEW p \in Prios, NEW g \in Groups \cup {GroupAll},
           QueueCreate(t, q, k, p, g)
    PROVE  IInv'
<1>1. Queued' = Queued /\ \A r \in Prios : Distinct(priq[r])'
  BY Zenon DEF IInv, Queued, UniqInv, QueueCreate
<1>2. pc[t] = "app" /\ status[q] = FREE /\ cmd_ev[q] = None /\ Apart(q, {})
  <2>1. pc[t] = "app" /\ status[q] = FREE
    BY Zenon DEF QueueCreate
  <2> QED
    BY Zenon, <2>1, IdleLemma DEF IInv, QueueInv
<1>3. /\ status' = [status EXCEPT ![q] = IF k = POLL THEN READY ELSE NOTSCHED]
      /\ kind' = [kind EXCEPT ![q] = k]
      /\ prio' = [prio EXCEPT ![q] = p]
      /\ group' = [group EXCEPT ![q] = g]
      /\ head' = [head EXCEPT ![q] = <<>>]
      /\ cmd_ev' = [cmd_ev EXCEPT ![q] = None]
      /\ pri_queue' = [pri_queue EXCEPT ![q] = None]
      /\ UNCHANGED <<qe, freecmds, priq, pri_count, mask, i, ev, ctxVars>>
  BY Zenon DEF QueueCreate, cmdVars
<1>4. \/ k = POLL /\ UNCHANGED <<pc, arg>>
      \/ /\ k # POLL
         /\ pc' = [pc EXCEPT ![t] = "create"]
         /\ arg' = [arg EXCEPT ![t] = q]
  BY Zenon DEF QueueCreate
<1>5. TypeOK'
  <2>1. /\ status' \in [Queues -> {FREE, DESTROYED, READY, NOTSCHED, SCHED}]
        /\ kind' \in [Queues -> {POLL, ATOMIC, PARALLEL}]
        /\ head' \in [Queues -> Seq(Events)]
    BY <1>3, SchedAssumption DEF IInv, TypeOK, QueueTypes
  <2>2. /\ pc' \in [Threads -> PCs]
        /\ arg' \in [Threads -> Queues \cup {None}]
    <3>1. pc \in [Threads -> PCs] /\ arg \in [Threads -> Queues \cup {None}]
      BY Zenon DEF IInv, TypeOK, CallTypes, PCs
    <3> QED
      BY Zenon, <1>4, <3>1 DEF PCs
  <2> QED
    BY Zenon, <1>3, <2>1, <2>2
       DEF IInv, TypeOK, QueueTypes, CmdTypes, PriTypes, CallTypes, CtxTypes, PCs, ctxVars
<1>6. /\ \A r \in Queues \ {q} : Same(r)
      /\ \A d \in Cmds \ freecmds : qe'[d] = qe[d]
  BY <1>3 DEF Same
<1>7. PcInv'
  BY <1>2, <1>3, <1>4, SchedAssumption DEF IInv, TypeOK, CallTypes, PcInv, queueVars,
     paramVars, cmdVars, ctxVars
<1>8. QueueInv'
  <2>1. ASSUME NEW r \in Queues \ {q}
        PROVE  UNCHANGED <<status[r], kind[r], head[r], cmd_ev[r], pri_queue[r], prio[r]>>
    BY <1>3
  <2>2. /\ status'[q] = IF k = POLL THEN READY ELSE NOTSCHED
        /\ kind'[q] = k /\ head'[q] = <<>> /\ cmd_ev'[q] = None
    BY Zenon, <1>3 DEF IInv, TypeOK, QueueTypes, CmdTypes
  <2> QED
    BY <1>3, <2>2 DEF IInv, QueueInv, FREE, DESTROYED, READY, NOTSCHED, SCHED
<1>9. CreateInv'
  <2>1. ASSUME NEW u \in Threads \ {t}, pc'[u] = "create"
        PROVE  pc[u] = "create" /\ arg'[u] = arg[u] /\ arg[u] \in Queues \ {q}
    BY <1>2, <1>4, <2>1 DEF IInv, TypeOK, CallTypes, CreateInv, PcInv, FREE, NOTSCHED
  <2>2. pc'[t] = "create" => k # POLL /\ arg'[t] = q
    BY Zenon, <1>2, <1>4 DEF IInv, TypeOK, CallTypes
  <2>3. ASSUME NEW u \in Threads, pc'[u] = "create"
        PROVE  status'[arg'[u]] = NOTSCHED /\ cmd_ev'[arg'[u]] = None
    <3>1. CASE u = t
      BY Zenon, <1>3, <2>2, <2>3, <3>1 DEF IInv, TypeOK, QueueTypes, CmdTypes
    <3>2. CASE u # t
      BY <1>6, <2>1, <2>3, <3>2 DEF IInv, CreateInv, Same
    <3> QED
      BY Zenon, <3>1, <3>2
  <2>4. ASSUME NEW u \in Threads, NEW v \in Threads,
               pc'[u] = "create", pc'[v] = "create", arg'[u] = arg'[v]
        PROVE  u = v
    BY Zenon, <2>1, <2>2, <2>4 DEF IInv, CreateInv
  <2> QED
    BY Zenon, <2>3, <2>4 DEF CreateInv
<1>10. UniqInv'
  <2>1. ASSUME NEW u \in Threads, pc'[u] = "wake"
        PROVE  pc[u] = "wake" /\ arg'[u] = arg[u] /\ cmd_ev'[arg[u]] = cmd_ev[arg[u]]
    <3>1. pc[u] = "wake" /\ arg'[u] = arg[u] /\ arg[u] \in Queues \ {q}
      BY <1>2, <1>4, <2>1 DEF IInv, TypeOK, CallTypes, Apart, PcInv
    <3> QED
      BY Zenon, <1>6, <3>1 DEF Same
  <2>2. ASSUME NEW u \in Threads PROVE UniqPri(u)'
    <3>1. UniqPri(u)
      BY Zenon DEF IInv, UniqInv
    <3> QED
      BY <1>1, <1>3, <2>1, <3>1 DEF UniqPri, ctxVars
  <2>3. ASSUME NEW u \in Threads, NEW v \in Threads PROVE UniqPair(u, v)'
    <3>1. UniqPair(u, v)
      BY Zenon DEF IInv, UniqInv
    <3> QED
      BY <1>3, <2>1, <3>1 DEF UniqPair, ctxVars
  <2> QED
    BY Zenon, <1>1, <2>2, <2>3 DEF UniqInv
<1>11. LivePri'
  BY Zenon, <1>1, <1>2, <1>6, PriLive DEF LivePri
<1>12. ASSUME NEW u \in Threads PROVE LiveThread(u)'
  <2>1. u \in Threads \ {}
    BY Zenon
  <2>2. /\ UNCHANGED <<ev[u], i[u], held[u], heldpri[u], local_qe[u]>>
        /\ pc'[u] \in {"wake", "final"} => UNCHANGED <<pc[u], arg[u]>>
    BY Zenon, <1>3, <1>4 DEF IInv, TypeOK, CallTypes, ctxVars
  <2> QED
    BY Zenon, <1>2, <1>6, <2>1, <2>2, ThreadLive
<1>13. FoundInv'
  <2>1. ASSUME NEW r \in Queues, (status[r] \in {SCHED, DESTROYED})'
        PROVE  Found(r)'
    <3>1. r # q /\ cmd_ev'[r] = cmd_ev[r] /\ Found(r)
      BY <1>3, <2>1 DEF IInv, TypeOK, QueueTypes, FoundInv, SCHED, DESTROYED, NOTSCHED, READY
    <3>2. Has(t, r) => Has(t, r)'
      BY Zenon, <1>2, <1>3, <3>1 DEF Has, ctxVars
    <3>3. \A x \in Prios : cmd_ev[r] \in Queued[x] => Found(r)'
      BY Zenon, <1>1, <3>1 DEF Found
    <3>4. \A u \in Threads \ {t} : UNCHANGED <<ev[u], held[u], pc[u], arg[u]>>
      BY Zenon, <1>3, <1>4 DEF IInv, TypeOK, CallTypes, ctxVars
    <3>5. Has(t, r) => Found(r)'
      BY Zenon, <3>2 DEF Found
    <3> QED
      BY Zenon, <3>1, <3>3, <3>4, <3>5, FoundFrame
  <2> QED
    BY Zenon, <2>1 DEF FoundInv
<1> QED
  BY Zenon, <1>5, <1>7, <1>8, <1>9, <1>10, <1>11, <1>12, <1>13 DEF IInv, LiveInv

\* A queue out of scheduling is freed.
LEMMA QueueDestroyIdle ==
    ASSUME IInv, NEW t \in Threads, NEW q \in Queues, QueueDestroy(t, q), status[q] # SCHED
    PROVE  IInv'
<1>1. Queued' = Queued /\ \A r \in Prios : Distinct(priq[r])'
  BY Zenon DEF IInv, Queued, UniqInv, QueueDestroy
<1>2. /\ status[q] \in {READY, NOTSCHED} /\ Apart(q, {})
      /\ kind[q] # POLL => cmd_ev[q] # None
      /\ head[q] = <<>>
  <2>1. status[q] \in {READY, NOTSCHED} /\ HasHandle(q) /\ head[q] = <<>>
    BY Zenon DEF IInv, TypeOK, QueueTypes, QueueDestroy
  <2> QED
    BY <2>1, IdleLemma DEF HasHandle, NOTSCHED, DESTROYED, READY
<1>3. /\ status' = [status EXCEPT ![q] = FREE]
      /\ UNCHANGED <<kind, prio, group, head, qe, priq, mask, pc, arg, i, ev, ctxVars>>
  BY Zenon DEF QueueDestroy, ScheduleQueueDestroy, paramVars, cmdVars
<1>4. \/ /\ status[q] = READY
         /\ UNCHANGED <<freecmds, cmd_ev, pri_queue, pri_count>>
      \/ /\ status[q] = NOTSCHED
         /\ freecmds' = freecmds \cup {cmd_ev[q]}
         /\ pri_count' = [pri_count EXCEPT ![prio[q]] = pri_count[prio[q]] - 1]
         /\ cmd_ev' = [cmd_ev EXCEPT ![q] = None]
         /\ pri_queue' = [pri_queue EXCEPT ![q] = None]
  BY Zenon, <1>2 DEF QueueDestroy, ScheduleQueueDestroy, cmdVars
<1>5. status[q] = NOTSCHED => cmd_ev[q] \in Cmds /\ cmd_ev[q] # None
  BY <1>2 DEF IInv, TypeOK, CmdTypes, QueueInv, READY, NOTSCHED, FREE
<1>6. TypeOK'
  <2>1. pri_count' \in [Prios -> Int]
    BY <1>4 DEF IInv, TypeOK, PriTypes
  <2>2. status' \in [Queues -> {FREE, DESTROYED, READY, NOTSCHED, SCHED}]
    BY Zenon, <1>3 DEF IInv, TypeOK, QueueTypes
  <2>3. /\ freecmds' \in SUBSET Cmds
        /\ cmd_ev' \in [Queues -> Cmds \cup {None}]
        /\ pri_queue' \in [Queues -> Prios \cup {None}]
    BY Zenon, <1>4, <1>5 DEF IInv, TypeOK, CmdTypes
  <2> QED
    BY Zenon, <1>3, <2>1, <2>3
       DEF IInv, TypeOK, QueueTypes, CmdTypes, PriTypes, CallTypes, CtxTypes, ctxVars
<1>7. /\ \A r \in Queues \ {q} : Same(r)
      /\ \A d \in Cmds \ freecmds : qe'[d] = qe[d]
  BY <1>3, <1>4 DEF IInv, TypeOK, CmdTypes, Same
<1>8. cmd_ev'[q] = None
  BY Zenon, <1>4 DEF IInv, TypeOK, CmdTypes, QueueInv
<1>9. PcInv'
  BY Zenon, <1>3 DEF IInv, PcInv, ctxVars
<1>10. QueueInv'
  <2>1. ASSUME NEW r \in Queues \ {q}, cmd_ev[r] # None PROVE cmd_ev[r] \notin freecmds'
    BY <1>4, <2>1 DEF IInv, QueueInv
  <2>2. ASSUME NEW r \in Queues \ {q}
        PROVE  UNCHANGED <<status[r], cmd_ev[r], pri_queue[r]>>
    BY Zenon, <1>7 DEF Same
  <2>3. status'[q] = FREE
    BY Zenon, <1>3 DEF IInv, TypeOK, QueueTypes
  <2>4. head'[q] = <<>> /\ kind'[q] = kind[q]
    BY Zenon, <1>2, <1>3
  <2>5. FREE \notin {DESTROYED, READY, NOTSCHED, SCHED}
    BY DEF FREE, DESTROYED, READY, NOTSCHED, SCHED
  <2> QED
    BY <1>3, <1>8, <2>1, <2>2, <2>3, <2>4, <2>5 DEF IInv, QueueInv
<1>11. CreateInv'
  <2>1. ASSUME NEW u \in Threads, pc[u] = "create"
        PROVE  arg[u] \in Queues \ {q}
    BY <1>5, <2>1 DEF IInv, TypeOK, CallTypes, CreateInv, PcInv
  <2> QED
    BY <1>3, <1>7, <2>1 DEF IInv, CreateInv, Same
<1>12. UniqInv'
  <2>1. ASSUME NEW u \in Threads, pc[u] = "wake"
        PROVE  arg[u] \in Queues /\ cmd_ev'[arg[u]] = cmd_ev[arg[u]]
    BY <1>2, <1>7, <2>1 DEF IInv, TypeOK, CallTypes, Apart, PcInv, Same
  <2>2. ASSUME NEW u \in Threads PROVE UniqPri(u)'
    BY Zenon, <1>1, <1>3, <2>1 DEF IInv, UniqInv, UniqPri, ctxVars
  <2>3. ASSUME NEW u \in Threads, NEW v \in Threads PROVE UniqPair(u, v)'
    BY <1>3, <2>1 DEF IInv, UniqInv, UniqPair, ctxVars
  <2> QED
    BY Zenon, <1>1, <2>2, <2>3 DEF UniqInv
<1>13. LivePri'
  BY Zenon, <1>1, <1>2, <1>7, PriLive DEF LivePri
<1>14. ASSUME NEW u \in Threads PROVE LiveThread(u)'
  <2>1. u \in Threads \ {}
    BY Zenon
  <2>2. /\ UNCHANGED <<ev[u], i[u], held[u], heldpri[u], local_qe[u]>>
        /\ pc'[u] \in {"wake", "final"} => UNCHANGED <<pc[u], arg[u]>>
    BY Zenon, <1>3 DEF ctxVars
  <2> QED
    BY Zenon, <1>2, <1>7, <2>1, <2>2, ThreadLive
<1>15. FoundInv'
  <2>1. ASSUME NEW r \in Queues, (status[r] \in {SCHED, DESTROYED})'
        PROVE  Found(r)'
    <3>1. r # q
      BY <1>3, <2>1 DEF IInv, TypeOK, QueueTypes, SCHED, DESTROYED, FREE
    <3>2. cmd_ev'[r] = cmd_ev[r] /\ Found(r)
      BY Zenon, <1>7, <2>1, <3>1 DEF IInv, FoundInv, Same
    <3> QED
      BY Zenon, <1>1, <1>3, <3>2 DEF Found, Has, ctxVars
  <2> QED
    BY Zenon, <2>1 DEF FoundInv
<1> QED
  BY Zenon, <1>6, <1>9, <1>10, <1>11, <1>12, <1>13, <1>14, <1>15 DEF IInv, LiveInv

\* A queue in scheduling is only marked; its command stays where it is.
LEMMA QueueDestroySched ==
    ASSUME IInv, NEW t \in Threads, NEW q \in Queues, QueueDestroy(t, q), status[q] = SCHED
    PROVE  IInv'
<1>1. Queued' = Queued /\ \A r \in Prios : Distinct(priq[r])'
  BY Zenon DEF IInv, Queued, UniqInv, QueueDestroy
<1>2. /\ status' = [status EXCEPT ![q] = DESTROYED]
      /\ head[q] = <<>>
      /\ UNCHANGED <<kind, prio, group, head, cmd_ev, pri_queue, qe, freecmds, pri_count>>
      /\ UNCHANGED <<priq, mask, pc, arg, i, ev, held, heldpri, buf_hdr, local_qe, pause>>
  <2>1. status' = [status EXCEPT ![q] = DESTROYED] /\ head[q] = <<>>
    BY DEF QueueDestroy, SCHED, NOTSCHED
  <2>2. SCHED # NOTSCHED
    BY DEF SCHED, NOTSCHED
  <2>3. UNCHANGED <<cmdVars, cmd_ev, pri_queue, pri_count>>
    BY Zenon, <2>2 DEF QueueDestroy
  <2>4. UNCHANGED <<paramVars, head, priq, mask, pc, arg, i, ev, ctxVars>>
    BY Zenon DEF QueueDestroy
  <2> QED
    BY Zenon, <2>1, <2>3, <2>4 DEF paramVars, cmdVars, ctxVars
<1>3. TypeOK'
  <2>1. QueueTypes'
    BY Zenon, <1>2 DEF IInv, TypeOK, QueueTypes
  <2>2. CmdTypes' /\ PriTypes' /\ CallTypes'
    BY Zenon, <1>2 DEF IInv, TypeOK, CmdTypes, PriTypes, CallTypes
  <2>3. CtxTypes'
    BY Zenon, <1>2 DEF IInv, TypeOK, CtxTypes
  <2> QED
    BY Zenon, <2>1, <2>2, <2>3 DEF TypeOK
<1>4. PcInv'
  BY Zenon, <1>2 DEF IInv, PcInv
<1>s. \A r \in Queues : status'[r] = IF r = q THEN DESTROYED ELSE status[r]
  BY Zenon, <1>2 DEF IInv, TypeOK, QueueTypes
<1>d. DESTROYED \notin {FREE, READY} /\ SCHED \notin {FREE, READY, NOTSCHED}
  BY DEF DESTROYED, FREE, READY, SCHED, NOTSCHED
<1>5. QueueInv'
  <2> SUFFICES ASSUME NEW r \in Queues PROVE QueueInv!(r)'
    BY Zenon DEF QueueInv
  <2>1. QueueInv!(r)
    BY Zenon DEF IInv, QueueInv
  <2>2. CASE r = q
    BY Zenon, <1>2, <1>s, <1>d, <2>1, <2>2
  <2>3. CASE r # q
    BY Zenon, <1>2, <1>s, <2>1, <2>3
  <2> QED
    BY Zenon, <2>2, <2>3
<1>6. CreateInv'
  <2>1. ASSUME NEW u \in Threads, pc[u] = "create" PROVE arg[u] \in Queues \ {q}
    <3>1. arg[u] # None
      BY Zenon, <2>1 DEF IInv, PcInv
    <3>2. arg[u] \in Queues
      BY Zenon, <3>1 DEF IInv, TypeOK, CallTypes
    <3>3. status[arg[u]] = NOTSCHED
      BY Zenon, <2>1 DEF IInv, CreateInv
    <3> QED
      BY Zenon, <1>d, <3>2, <3>3
  <2> QED
    BY Zenon, <1>2, <1>s, <2>1 DEF IInv, CreateInv
<1>7. UniqInv'
  <2>1. \A u \in Threads : UniqPri(u)'
    BY Zenon, <1>1, <1>2 DEF IInv, UniqInv, UniqPri
  <2>2. ASSUME NEW u \in Threads, NEW v \in Threads PROVE UniqPair(u, v)'
    <3>1. UniqPair(u, v)
      BY Zenon DEF IInv, UniqInv
    <3> QED
      BY Zenon, <1>2, <3>1 DEF UniqPair
  <2> QED
    BY Zenon, <1>1, <2>1, <2>2 DEF UniqInv
<1>8. ASSUME NEW r \in Queues, status[r] \in {SCHED, DESTROYED}
      PROVE  status'[r] \in {SCHED, DESTROYED} /\ (status[r] = DESTROYED => status'[r] = DESTROYED)
  BY Zenon, <1>2, <1>8 DEF IInv, TypeOK, QueueTypes
<1>9. ASSUME NEW d \in Cmds, Live(d) PROVE Live(d)'
  BY Zenon, <1>2, <1>8, <1>9, NotFree DEF Live
<1>10. LivePri'
  BY Zenon, <1>1, <1>2, <1>9, QueuedType DEF IInv, LiveInv, LivePri
<1>11. ASSUME NEW u \in Threads PROVE LiveThread(u)'
  <2>1. LiveThread(u)
    BY Zenon DEF IInv, LiveInv
  <2>2. /\ ev[u] # None => ev[u] \in Cmds
        /\ held[u] # None => held[u] \in Cmds
        /\ pc[u] = "wake" => arg[u] \in Queues
    BY Zenon DEF IInv, TypeOK, CallTypes, CtxTypes, PcInv
  <2>3. ev[u] # None => qe[ev[u]] \in Queues
    BY Zenon, <2>1, <2>2, NotFree DEF LiveThread
  <2> QED
    BY Zenon, <1>2, <1>8, <1>9, <2>1, <2>2, <2>3 DEF LiveThread
<1>12. FoundInv'
  <2> SUFFICES ASSUME NEW r \in Queues, status'[r] \in {SCHED, DESTROYED} PROVE Found(r)'
    BY Zenon DEF FoundInv
  <2>1. Found(r)
    BY Zenon, <1>s DEF IInv, FoundInv
  <2> QED
    BY Zenon, <1>1, <1>2, <2>1 DEF Found, Has
<1> QED
  BY Zenon, <1>3, <1>4, <1>5, <1>6, <1>7, <1>10, <1>11, <1>12 DEF IInv, LiveInv

-----------------------------------------------------------------------------
(* A thread puts a command on a priority queue, or finds it has none to put *)
(* there.                                                                   *)

\* A thread puts the command it has, and nobody else has, on the priority queue
\* of the command's queue.
LEMMA PutStep ==
    ASSUME IInv, NEW t \in Threads, NEW c \in Cmds, NEW p \in Prios,
           PriEnq(p, c), Live(c), pri_queue[qe[c]] = p,
           \A r \in Prios : c \notin Queued[r],
           \A u \in Threads \ {t} :
              ev[u] # c /\ held[u] # c /\ (pc[u] = "wake" => cmd_ev[arg[u]] # c),
           UNCHANGED <<status, kind, cmd_ev, pri_queue, qe>>,
           \A u \in Threads \ {t} :
              UNCHANGED <<ev[u], pc[u], arg[u], i[u], held[u], heldpri[u], local_qe[u]>>,
           ev'[t] = None, pc'[t] \in {"app", "scan"},
           held'[t] # None =>
              held[t] # c /\ UNCHANGED <<held[t], heldpri[t], local_qe[t]>>,
           \A r \in Queues : Has(t, r) => cmd_ev[r] \in {None, c} \/ held'[t] = cmd_ev[r]
    PROVE  priq' \in [Prios -> Seq(Cmds)] /\ UniqInv' /\ LiveInv' /\ FoundInv'
<1>1. /\ priq' \in [Prios -> Seq(Cmds)]
      /\ \A r \in Prios : Distinct(priq[r])'
      /\ Queued' = [Queued EXCEPT ![p] = @ \cup {c}]
  BY Zenon, PriEnqLemma DEF IInv, TypeOK, PriTypes, UniqInv
<1>2. \A r \in Prios : Queued'[r] = IF r = p THEN Queued[p] \cup {c} ELSE Queued[r]
  BY Zenon, <1>1 DEF Queued
<1>3. c # None
  BY Zenon, SchedAssumption
<1>m. \A r \in Prios : \A x : x \notin Queued[r] /\ x # c => x \notin Queued'[r]
  <2>1. ASSUME NEW r \in Prios, NEW x, x \notin Queued[r], x # c PROVE x \notin Queued'[r]
    <3>1. CASE r = p
      <4>1. Queued'[r] = Queued[r] \cup {c}
        BY Zenon, <1>2, <3>1
      <4> QED
        BY Zenon, <4>1, <2>1
    <3>2. CASE r # p
      BY Zenon, <1>2, <2>1, <3>2
    <3> QED
      BY Zenon, <3>1, <3>2
  <2> QED
    BY Zenon, <2>1
<1>h. held'[t] # None => held'[t] = held[t] /\ held[t] # c
  OBVIOUS
<1>4. ASSUME NEW u \in Threads PROVE UniqPri(u)'
  <2>0. UniqPri(u)
    BY Zenon DEF IInv, UniqInv
  <2>1. CASE u = t
    <3>1. ev'[u] = None /\ pc'[u] # "wake"
      BY Zenon, <2>1
    <3>2. ASSUME NEW r \in Prios, held'[u] # None PROVE held'[u] \notin Queued'[r]
      <4>1. held'[u] = held[u] /\ held[u] # c
        BY Zenon, <1>h, <2>1, <3>2
      <4>2. held[u] # None
        BY Zenon, <3>2, <4>1
      <4>3. held[u] \notin Queued[r]
        BY Zenon, <2>0, <4>2 DEF UniqPri
      <4> QED
        BY Zenon, <1>m, <4>1, <4>3
    <3> QED
      BY Zenon, <3>1, <3>2 DEF UniqPri
  <2>2. CASE u # t
    <3>1. /\ ev'[u] = ev[u] /\ held'[u] = held[u] /\ pc'[u] = pc[u] /\ arg'[u] = arg[u]
          /\ cmd_ev' = cmd_ev /\ ev[u] # c /\ held[u] # c
          /\ (pc[u] = "wake" => cmd_ev[arg[u]] # c)
      BY Zenon, <2>2
    <3> QED
      BY Zenon, <1>m, <2>0, <3>1 DEF UniqPri
  <2> QED
    BY Zenon, <2>1, <2>2
<1>5. ASSUME NEW u \in Threads, NEW v \in Threads PROVE UniqPair(u, v)'
  <2>1. UniqPair(u, v)
    BY Zenon DEF IInv, UniqInv
  <2>2. ASSUME NEW w \in Threads
        PROVE  /\ ev'[w] # None => ev'[w] = ev[w]
               /\ held'[w] # None => held'[w] = held[w]
               /\ pc'[w] = "wake" => pc[w] = "wake" /\ arg'[w] = arg[w]
    <3>1. CASE w = t
      BY Zenon, <3>1
    <3>2. CASE w # t
      BY Zenon, <3>2
    <3> QED
      BY Zenon, <3>1, <3>2
  <2> QED
    BY Zenon, <2>1, <2>2 DEF UniqPair
<1>6. UniqInv'
  BY Zenon, <1>1, <1>4, <1>5 DEF UniqInv
<1>7. LivePri'
  BY <1>2 DEF IInv, LiveInv, LivePri, Live
<1>8. ASSUME NEW u \in Threads PROVE LiveThread(u)'
  <2>0. LiveThread(u)
    BY Zenon DEF IInv, LiveInv
  <2>1. CASE u = t
    <3>1. LiveThread(t) /\ ev'[t] = None /\ pc'[t] # "wake"
      BY Zenon, <2>0, <2>1
    <3> QED
      BY Zenon, <2>1, <3>1 DEF LiveThread, Live
  <2>2. CASE u # t
    BY Zenon, <2>0, <2>2 DEF LiveThread, Live
  <2> QED
    BY Zenon, <2>1, <2>2
<1>9. ASSUME NEW r \in Queues, (status[r] \in {SCHED, DESTROYED})'
      PROVE  Found(r)'
  <2>1. Found(r) /\ cmd_ev[r] # None
    BY Zenon, <1>9 DEF IInv, FoundInv, QueueInv
  <2>2. ASSUME NEW s \in Prios, cmd_ev[r] \in Queued[s] PROVE Found(r)'
    BY Zenon, <1>2, <2>2 DEF Found
  <2>3. ASSUME Has(t, r) PROVE Found(r)'
    <3>1. CASE cmd_ev[r] = c
      BY Zenon, <1>2, <3>1 DEF Found
    <3>2. CASE held'[t] = cmd_ev[r]
      BY Zenon, <3>2 DEF Found, Has
    <3> QED
      BY Zenon, <2>1, <2>3, <3>1, <3>2
  <2> QED
    BY Zenon, <2>1, <2>2, <2>3, FoundFrame
<1> QED
  BY Zenon, <1>1, <1>6, <1>7, <1>8, <1>9 DEF LiveInv, FoundInv

\* schedule_queue puts the command of a queue that was just woken on its priority
\* queue.
LEMMA ScheduleQueueStep ==
    ASSUME IInv, NEW t \in Threads, ScheduleQueue(t)
    PROVE  IInv'
<1> DEFINE q == arg[t]
           c == cmd_ev[q]
<1>1. /\ pc[t] = "wake" /\ q \in Queues /\ status[q] \in {SCHED, DESTROYED}
      /\ ev[t] = None
  <2>1. pc[t] = "wake"
    BY Zenon DEF ScheduleQueue
  <2>2. q \in Queues /\ ev[t] = None
    BY Zenon, <2>1 DEF IInv, TypeOK, CallTypes, PcInv
  <2>3. status[q] \in {SCHED, DESTROYED}
    BY Zenon, <2>1 DEF IInv, LiveInv, LiveThread
  <2> QED
    BY Zenon, <2>1, <2>2, <2>3
<1>2. c \in Cmds /\ c # None /\ qe[c] = q /\ pri_queue[q] \in Prios
  BY <1>1 DEF IInv, TypeOK, QueueTypes, CmdTypes, QueueInv
<1>3. /\ PriEnq(pri_queue[q], c)
      /\ pc' = [pc EXCEPT ![t] = "app"]
      /\ arg' = [arg EXCEPT ![t] = None]
      /\ UNCHANGED <<queueVars, cmdVars, pri_count, mask, i, ev, ctxVars>>
  BY Zenon DEF ScheduleQueue
<1>4. Live(c) /\ pri_queue[qe[c]] = pri_queue[q]
  BY Zenon, <1>1, <1>2, SchedAssumption DEF Live
<1>5. \A r \in Prios : c \notin Queued[r]
  BY Zenon, <1>1 DEF IInv, UniqInv, UniqPri
<1>6. /\ \A u \in Threads \ {t} :
            ev[u] # c /\ held[u] # c /\ (pc[u] = "wake" => cmd_ev[arg[u]] # c)
      /\ held[t] # c
  <2>1. ASSUME NEW u \in Threads PROVE ev[u] # c /\ held[u] # c
    BY Zenon, <1>1, <1>2 DEF IInv, UniqInv, UniqPair
  <2>2. ASSUME NEW u \in Threads \ {t}, pc[u] = "wake" PROVE cmd_ev[arg[u]] # c
    <3>1. arg[u] # q /\ arg[u] \in Queues
      BY <1>1, <2>2 DEF IInv, TypeOK, CallTypes, UniqInv, UniqPair, PcInv
    <3> QED
      BY Zenon, <1>2, <3>1 DEF IInv, QueueInv
  <2> QED
    BY Zenon, <2>1, <2>2
<1>7. /\ \A u \in Threads \ {t} :
            UNCHANGED <<ev[u], pc[u], arg[u], i[u], held[u], heldpri[u], local_qe[u]>>
      /\ pc'[t] \in {"app", "scan"} /\ ev'[t] = None
      /\ UNCHANGED <<held[t], heldpri[t], local_qe[t]>>
  BY Zenon, <1>1, <1>3 DEF IInv, TypeOK, CallTypes, ctxVars
<1>8. \A r \in Queues : Has(t, r) => cmd_ev[r] \in {None, c} \/ held'[t] = cmd_ev[r]
  BY Zenon, <1>1, <1>3 DEF Has, ctxVars
<1> HIDE DEF q, c
<1>9. priq' \in [Prios -> Seq(Cmds)] /\ UniqInv' /\ LiveInv' /\ FoundInv'
  BY Zenon, <1>2, <1>3, <1>4, <1>5, <1>6, <1>7, <1>8, PutStep DEF queueVars, cmdVars
<1>10. TypeOK'
  BY Zenon, <1>3, <1>9
     DEF IInv, TypeOK, QueueTypes, CmdTypes, PriTypes, CallTypes, CtxTypes, queueVars, cmdVars,
         ctxVars
<1>11. PcInv'
  BY Zenon, <1>1, <1>3 DEF IInv, TypeOK, CallTypes, PcInv, ctxVars
<1>12. QueueInv'
  BY Zenon, <1>3 DEF IInv, QueueInv, queueVars, cmdVars
<1>13. CreateInv'
  BY Zenon, <1>3 DEF IInv, TypeOK, CallTypes, CreateInv, queueVars
<1> QED
  BY Zenon, <1>9, <1>10, <1>11, <1>12, <1>13 DEF IInv

\* The release of the atomic context, followed by the rest of the call.
LEMMA ReleaseStep ==
    ASSUME IInv, NEW t \in Threads, pc[t] = "app",
           ReleaseAtomic(t), held[t] # None, buf_hdr[t] = <<>>,
           UNCHANGED <<queueVars, cmdVars, arg, ev>>,
           \A u \in Threads \ {t} : UNCHANGED <<pc[u], i[u], local_qe[u]>>,
           pc'[t] \in {"app", "scan"}
    PROVE  /\ priq' \in [Prios -> Seq(Cmds)] /\ UniqInv' /\ LiveInv' /\ FoundInv'
           /\ held' = [held EXCEPT ![t] = None]
           /\ heldpri' = [heldpri EXCEPT ![t] = None]
<1> DEFINE c == held[t]
           p == heldpri[t]
<1>1. /\ PriEnq(p, c)
      /\ held' = [held EXCEPT ![t] = None]
      /\ heldpri' = [heldpri EXCEPT ![t] = None]
  BY Zenon DEF ReleaseAtomic
<1>2. /\ Live(c) /\ pri_queue[qe[c]] = p /\ c # None
  BY Zenon DEF IInv, LiveInv, LiveThread
<1>3. c \in Cmds /\ p \in Prios
  BY Zenon DEF IInv, TypeOK, CtxTypes, PcInv
<1>4. \A r \in Prios : c \notin Queued[r]
  BY Zenon DEF IInv, UniqInv, UniqPri
<1>5. /\ \A u \in Threads \ {t} :
            ev[u] # c /\ held[u] # c /\ (pc[u] = "wake" => cmd_ev[arg[u]] # c)
  BY Zenon DEF IInv, UniqInv, UniqPair
<1>6. /\ \A u \in Threads \ {t} :
            UNCHANGED <<ev[u], pc[u], arg[u], i[u], held[u], heldpri[u], local_qe[u]>>
      /\ ev'[t] = None /\ held'[t] = None
  BY Zenon, <1>1 DEF IInv, TypeOK, CtxTypes, PcInv
<1>7. \A r \in Queues : Has(t, r) => cmd_ev[r] \in {None, c} \/ held'[t] = cmd_ev[r]
  BY Zenon, <1>6 DEF Has
<1> HIDE DEF c, p
<1>8. priq' \in [Prios -> Seq(Cmds)] /\ UniqInv' /\ LiveInv' /\ FoundInv'
  BY Zenon, <1>1, <1>2, <1>3, <1>4, <1>5, <1>6, <1>7, PutStep DEF queueVars, cmdVars
<1> QED
  BY Zenon, <1>1, <1>8

\* The same when there is nothing to release.
LEMMA NoReleaseStep ==
    ASSUME IInv, NEW t \in Threads, pc[t] = "app",
           UNCHANGED <<priq, held, heldpri>>,
           UNCHANGED <<queueVars, cmdVars, arg, ev>>,
           \A u \in Threads \ {t} : UNCHANGED <<pc[u], i[u], local_qe[u]>>,
           pc'[t] \in {"app", "scan"},
           held[t] # None => UNCHANGED local_qe[t]
    PROVE  UniqInv' /\ LiveInv' /\ FoundInv'
<1>1. Queued' = Queued
  BY Zenon DEF Queued
<1>2. ev[t] = None
  BY Zenon DEF IInv, PcInv
<1>3. UniqInv'
  <2>1. ASSUME NEW u \in Threads PROVE UniqPri(u)'
    BY Zenon, <1>1 DEF IInv, UniqInv, UniqPri, queueVars
  <2>2. ASSUME NEW u \in Threads, NEW v \in Threads PROVE UniqPair(u, v)'
    <3>1. UniqPair(u, v)
      BY Zenon DEF IInv, UniqInv
    <3> QED
      BY <3>1 DEF UniqPair, queueVars
  <2>3. \A r \in Prios : Distinct(priq[r])'
    BY Zenon DEF IInv, UniqInv
  <2> QED
    BY Zenon, <2>1, <2>2, <2>3 DEF UniqInv
<1>4. LivePri'
  <2>1. LivePri
    BY Zenon DEF IInv, LiveInv
  <2> QED
    BY Zenon, <1>1, <2>1 DEF LivePri, Live, queueVars, cmdVars
<1>5. ASSUME NEW u \in Threads PROVE LiveThread(u)'
  <2>1. CASE u = t
    BY Zenon, <1>2, <2>1 DEF IInv, LiveInv, LiveThread, Live, queueVars, cmdVars
  <2>2. CASE u # t
    BY <2>2 DEF IInv, LiveInv, LiveThread, Live, queueVars, cmdVars
  <2> QED
    BY Zenon, <2>1, <2>2
<1>6. ASSUME NEW r \in Queues, (status[r] \in {SCHED, DESTROYED})'
      PROVE  Found(r)'
  <2>1. Found(r)
    BY Zenon, <1>6 DEF IInv, FoundInv, queueVars
  <2>2. Has(t, r) => Found(r)'
    BY Zenon DEF Has, Found, queueVars
  <2> QED
    BY Zenon, <1>1, <2>1, <2>2, FoundFrame DEF Found, queueVars
<1> QED
  BY Zenon, <1>3, <1>4, <1>5, <1>6 DEF LiveInv, FoundInv

\* odp_schedule_release_atomic gives the command back, or does nothing.
LEMMA AppReleaseStep ==
    ASSUME IInv, NEW t \in Threads, AppRelease(t)
    PROVE  IInv'
<1>1. /\ pc[t] = "app" /\ held[t] # None /\ ReleaseAtomic(t)
      /\ UNCHANGED <<queueVars, cmdVars, pri_count, mask, pc, arg, i, ev, buf_hdr, local_qe, pause>>
  BY Zenon DEF AppRelease
<1>2. CASE buf_hdr[t] = <<>>
  <2>1. /\ priq' \in [Prios -> Seq(Cmds)] /\ UniqInv' /\ LiveInv' /\ FoundInv'
        /\ held' = [held EXCEPT ![t] = None]
        /\ heldpri' = [heldpri EXCEPT ![t] = None]
    BY Zenon, <1>1, <1>2, ReleaseStep
  <2>2. TypeOK'
    BY Zenon, <1>1, <2>1
       DEF IInv, TypeOK, QueueTypes, CmdTypes, PriTypes, CallTypes, CtxTypes, queueVars, cmdVars
  <2>3. PcInv'
    BY Zenon, <1>1, <2>1 DEF IInv, TypeOK, CtxTypes, PcInv
  <2>4. QueueInv' /\ CreateInv'
    BY Zenon, <1>1 DEF IInv, QueueInv, CreateInv, queueVars, cmdVars
  <2> QED
    BY Zenon, <2>1, <2>2, <2>3, <2>4 DEF IInv
<1>3. CASE buf_hdr[t] # <<>>
  <2>1. UNCHANGED <<priq, held, heldpri>>
    BY Zenon, <1>1, <1>3 DEF ReleaseAtomic
  <2>2. UniqInv' /\ LiveInv' /\ FoundInv'
    BY Zenon, <1>1, <2>1, NoReleaseStep
  <2>3. TypeOK' /\ PcInv'
    BY Zenon, <1>1, <2>1
       DEF IInv, TypeOK, QueueTypes, CmdTypes, PriTypes, CallTypes, CtxTypes, PcInv, queueVars,
           cmdVars
  <2>4. QueueInv' /\ CreateInv'
    BY Zenon, <1>1 DEF IInv, QueueInv, CreateInv, queueVars, cmdVars
  <2> QED
    BY Zenon, <2>2, <2>3, <2>4 DEF IInv
<1> QED
  BY Zenon, <1>2, <1>3

\* odp_schedule_term_local gives the command back before it clears the context.
LEMMA TermLocalStep ==
    ASSUME IInv, NEW t \in Threads, TermLocal(t)
    PROVE  IInv'
<1>1. /\ pc[t] = "app" /\ buf_hdr[t] = <<>> /\ ReleaseAtomic(t)
      /\ local_qe' = [local_qe EXCEPT ![t] = None]
      /\ pause' = [pause EXCEPT ![t] = FALSE]
      /\ UNCHANGED <<queueVars, cmdVars, pri_count, mask, pc, arg, i, ev, buf_hdr>>
  BY Zenon DEF TermLocal
<1>2. \A u \in Threads \ {t} : UNCHANGED <<pc[u], i[u], local_qe[u]>>
  BY Zenon, <1>1 DEF IInv, TypeOK, CtxTypes
<1>3. QueueInv' /\ CreateInv'
  BY Zenon, <1>1 DEF IInv, QueueInv, CreateInv, queueVars, cmdVars
<1>4. CASE held[t] # None
  <2>1. /\ priq' \in [Prios -> Seq(Cmds)] /\ UniqInv' /\ LiveInv' /\ FoundInv'
        /\ held' = [held EXCEPT ![t] = None]
        /\ heldpri' = [heldpri EXCEPT ![t] = None]
    BY Zenon, <1>1, <1>2, <1>4, ReleaseStep
  <2>2. TypeOK'
    BY Zenon, <1>1, <2>1
       DEF IInv, TypeOK, QueueTypes, CmdTypes, PriTypes, CallTypes, CtxTypes, queueVars, cmdVars
  <2>3. PcInv'
    BY Zenon, <1>1, <2>1 DEF IInv, TypeOK, CtxTypes, PcInv
  <2> QED
    BY Zenon, <1>3, <2>1, <2>2, <2>3 DEF IInv
<1>5. CASE held[t] = None
  <2>1. UNCHANGED <<priq, held, heldpri>>
    BY Zenon, <1>1, <1>5 DEF ReleaseAtomic
  <2>2. UniqInv' /\ LiveInv' /\ FoundInv'
    BY Zenon, <1>1, <1>2, <1>5, <2>1, NoReleaseStep
  <2>3. TypeOK' /\ PcInv'
    BY Zenon, <1>1, <2>1
       DEF IInv, TypeOK, QueueTypes, CmdTypes, PriTypes, CallTypes, CtxTypes, PcInv, queueVars,
           cmdVars
  <2> QED
    BY Zenon, <1>3, <2>2, <2>3 DEF IInv
<1> QED
  BY Zenon, <1>4, <1>5

\* schedule() gives the command back before it scans the priorities.
LEMMA ScheduleBeginStep ==
    ASSUME IInv, NEW t \in Threads, ScheduleBegin(t)
    PROVE  IInv'
<1>1. /\ pc[t] = "app" /\ buf_hdr[t] = <<>> /\ ReleaseAtomic(t)
      /\ pc' = [pc EXCEPT ![t] = IF pause[t] THEN "app" ELSE "scan"]
      /\ i' = [i EXCEPT ![t] = 1]
      /\ UNCHANGED <<queueVars, cmdVars, pri_count, mask, arg, ev, buf_hdr, local_qe, pause>>
  BY Zenon DEF ScheduleBegin
<1>2. /\ \A u \in Threads \ {t} : UNCHANGED <<pc[u], i[u], local_qe[u]>>
      /\ pc'[t] \in {"app", "scan"}
  BY Zenon, <1>1 DEF IInv, TypeOK, CallTypes
<1>3. QueueInv'
  BY Zenon, <1>1 DEF IInv, QueueInv, queueVars, cmdVars
<1>4. CreateInv'
  <2>1. ASSUME NEW u \in Threads, pc'[u] = "create" PROVE pc[u] = "create"
    BY Zenon, <1>2, <2>1
  <2> QED
    BY Zenon, <1>1, <2>1 DEF IInv, CreateInv, queueVars
<1>5. i' \in [Threads -> Prios] /\ pc' \in [Threads -> PCs]
  <2>1. i \in [Threads -> Prios] /\ pc \in [Threads -> PCs]
    BY Zenon DEF IInv, TypeOK, CallTypes, PCs
  <2>2. 1 \in Prios
    BY SchedAssumption DEF Prios
  <2> QED
    BY Zenon, <1>1, <2>1, <2>2 DEF PCs
<1>6. /\ priq' \in [Prios -> Seq(Cmds)] /\ UniqInv' /\ LiveInv' /\ FoundInv'
      /\ held'[t] = None /\ heldpri'[t] = None
      /\ held' \in [Threads -> Cmds \cup {None}]
      /\ heldpri' \in [Threads -> Prios \cup {None}]
      /\ \A u \in Threads \ {t} : UNCHANGED <<held[u], heldpri[u]>>
  <2>1. CASE held[t] # None
    <3>1. /\ priq' \in [Prios -> Seq(Cmds)] /\ UniqInv' /\ LiveInv' /\ FoundInv'
          /\ held' = [held EXCEPT ![t] = None]
          /\ heldpri' = [heldpri EXCEPT ![t] = None]
      BY Zenon, <1>1, <1>2, <2>1, ReleaseStep
    <3> QED
      BY Zenon, <3>1 DEF IInv, TypeOK, CtxTypes
  <2>2. CASE held[t] = None
    <3>1. UNCHANGED <<priq, held, heldpri>>
      BY Zenon, <1>1, <2>2 DEF ReleaseAtomic
    <3>2. UniqInv' /\ LiveInv' /\ FoundInv'
      BY Zenon, <1>1, <1>2, <3>1, NoReleaseStep
    <3> QED
      BY Zenon, <2>2, <3>1, <3>2 DEF IInv, TypeOK, PriTypes, CtxTypes, PcInv
  <2> QED
    BY Zenon, <2>1, <2>2
<1>7. TypeOK'
  BY Zenon, <1>1, <1>5, <1>6
     DEF IInv, TypeOK, QueueTypes, CmdTypes, PriTypes, CallTypes, CtxTypes, queueVars, cmdVars
<1>8. PcInv'
  <2>1. ev'[t] = None /\ arg'[t] = None
    BY Zenon, <1>1 DEF IInv, PcInv
  <2>2. PcInv /\ ev' = ev /\ arg' = arg
    BY Zenon, <1>1 DEF IInv
  <2>3. ASSUME NEW u \in Threads \ {t}
        PROVE  /\ ev'[u] = ev[u] /\ arg'[u] = arg[u] /\ pc'[u] = pc[u]
               /\ held'[u] = held[u] /\ heldpri'[u] = heldpri[u]
    BY Zenon, <1>2, <1>6, <2>2
  <2>4. pc'[t] \in {"app", "scan"} /\ held'[t] = None /\ heldpri'[t] = None
    BY Zenon, <1>2, <1>6
  <2>5. pc'[t] \notin {"token", "again", "final"} /\ pc'[t] \notin {"create", "wake"}
    BY Zenon, <2>4
  <2> QED
    BY Zenon, <2>1, <2>2, <2>3, <2>4, <2>5 DEF PcInv
<1> QED
  BY Zenon, <1>3, <1>4, <1>6, <1>7, <1>8 DEF IInv

\* A thread that has taken a command from a priority queue puts it back.
LEMMA PutBackStep ==
    ASSUME IInv, NEW t \in Threads, ev[t] # None,
           PriEnq(i[t], ev[t]),
           ev' = [ev EXCEPT ![t] = None],
           UNCHANGED <<queueVars, cmdVars, arg, ctxVars>>,
           \A u \in Threads \ {t} : UNCHANGED <<pc[u], i[u]>>,
           pc'[t] \in {"app", "scan"}
    PROVE  /\ priq' \in [Prios -> Seq(Cmds)] /\ UniqInv' /\ LiveInv' /\ FoundInv'
           /\ QueueInv' /\ CreateInv' /\ PcInv'
<1> DEFINE c == ev[t]
           p == i[t]
<1>1. c \in Cmds /\ c # None /\ p \in Prios
  BY Zenon DEF IInv, TypeOK, CallTypes
<1>2. Live(c) /\ pri_queue[qe[c]] = p
  BY Zenon DEF IInv, LiveInv, LiveThread
<1>3. \A r \in Prios : c \notin Queued[r]
  BY Zenon DEF IInv, UniqInv, UniqPri
<1>4. /\ \A u \in Threads \ {t} :
            ev[u] # c /\ held[u] # c /\ (pc[u] = "wake" => cmd_ev[arg[u]] # c)
      /\ held[t] # c
  BY Zenon DEF IInv, UniqInv, UniqPair
<1>5. held[t] = None /\ pc[t] \in {"token", "again", "final"} /\ heldpri[t] = None
  BY Zenon DEF IInv, PcInv
<1>6. /\ \A u \in Threads \ {t} :
            UNCHANGED <<ev[u], pc[u], arg[u], i[u], held[u], heldpri[u], local_qe[u]>>
      /\ ev'[t] = None /\ held'[t] = None
  BY Zenon, <1>5 DEF IInv, TypeOK, CallTypes, ctxVars
<1>7. \A r \in Queues : Has(t, r) => cmd_ev[r] \in {None, c} \/ held'[t] = cmd_ev[r]
  BY Zenon, <1>5 DEF Has
<1>8. PriEnq(p, c)
  BY Zenon
<1> HIDE DEF c, p
<1>9. priq' \in [Prios -> Seq(Cmds)] /\ UniqInv' /\ LiveInv' /\ FoundInv'
  BY Zenon, <1>1, <1>2, <1>3, <1>4, <1>6, <1>7, <1>8, PutStep DEF queueVars, cmdVars
<1>10. QueueInv'
  BY Zenon DEF IInv, QueueInv, queueVars, cmdVars
<1>11. CreateInv'
  <2>1. ASSUME NEW u \in Threads, pc'[u] = "create" PROVE pc[u] = "create"
    BY Zenon, <2>1
  <2> QED
    BY Zenon, <2>1 DEF IInv, CreateInv, queueVars
<1>12. PcInv'
  BY <1>6 DEF IInv, PcInv, ctxVars
<1> QED
  BY Zenon, <1>9, <1>10, <1>11, <1>12

\* A thread outside the group of the queue puts the command back.
LEMMA NotEligibleStep ==
    ASSUME IInv, NEW t \in Threads, NotEligible(t)
    PROVE  IInv'
<1>1. /\ pc[t] = "token" /\ PriEnq(i[t], ev[t]) /\ NextPrio(t)
      /\ ev' = [ev EXCEPT ![t] = None]
      /\ UNCHANGED <<queueVars, cmdVars, pri_count, mask, arg, ctxVars>>
  BY Zenon DEF NotEligible
<1>2. /\ \A u \in Threads \ {t} : UNCHANGED <<pc[u], i[u]>>
      /\ pc'[t] \in {"app", "scan"} /\ ev[t] # None
  BY Zenon, <1>1 DEF IInv, TypeOK, CallTypes, NextPrio, PcInv
<1>3. /\ priq' \in [Prios -> Seq(Cmds)] /\ UniqInv' /\ LiveInv' /\ FoundInv'
      /\ QueueInv' /\ CreateInv' /\ PcInv'
  BY Zenon, <1>1, <1>2, PutBackStep
<1>4. i' \in [Threads -> Prios] /\ pc' \in [Threads -> PCs]
  BY Zenon, <1>1, NextPrioType DEF IInv, TypeOK, CallTypes, PCs
<1>5. TypeOK'
  BY Zenon, <1>1, <1>3, <1>4
     DEF IInv, TypeOK, QueueTypes, CmdTypes, PriTypes, CallTypes, CtxTypes, PCs, queueVars,
         cmdVars, ctxVars
<1> QED
  BY Zenon, <1>3, <1>5 DEF IInv

\* schedule() puts the command of a parallel queue back.
LEMMA RescheduleStep ==
    ASSUME IInv, NEW t \in Threads, Reschedule(t)
    PROVE  IInv'
<1>1. /\ pc[t] = "again" /\ PriEnq(i[t], ev[t])
      /\ ev' = [ev EXCEPT ![t] = None]
      /\ pc' = [pc EXCEPT ![t] = "app"]
      /\ UNCHANGED <<queueVars, cmdVars, pri_count, mask, arg, i, ctxVars>>
  BY Zenon DEF Reschedule
<1>2. /\ \A u \in Threads \ {t} : UNCHANGED <<pc[u], i[u]>>
      /\ pc'[t] \in {"app", "scan"} /\ ev[t] # None
  BY Zenon, <1>1 DEF IInv, TypeOK, CallTypes, PcInv
<1>3. /\ priq' \in [Prios -> Seq(Cmds)] /\ UniqInv' /\ LiveInv' /\ FoundInv'
      /\ QueueInv' /\ CreateInv' /\ PcInv'
  BY Zenon, <1>1, <1>2, PutBackStep
<1>4. TypeOK'
  BY Zenon, <1>1, <1>3
     DEF IInv, TypeOK, QueueTypes, CmdTypes, PriTypes, CallTypes, CtxTypes, queueVars, cmdVars,
         ctxVars
<1> QED
  BY Zenon, <1>3, <1>4 DEF IInv

=============================================================================
