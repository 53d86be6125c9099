-------------------------------- MODULE TxUc --------------------------------
(***************************************************************************)
(* Transmission through a micro-core (pktio/tx_uc.c), by eth_send and by    *)
(* pcie_send, each of which has contexts of its own.                        *)
(*                                                                          *)
(* A context has MAX_JOB_PER_UC slots.  A thread takes the next position of *)
(* the context, waits until the micro-core has executed the job that had    *)
(* its slot before, frees the packets of that job, stores its own packets   *)
(* in the slot and commits the slot to the micro-core, which counts the     *)
(* jobs it has executed.  Any number of threads send at once.               *)
(*                                                                          *)
(* The micro-core is outside the repository.  The test of the code, one     *)
(* counter for all the slots, makes sense if it executes the positions in   *)
(* order whatever the order of the commits; InOrder is that assumption.     *)
(***************************************************************************)
EXTENDS Integers, Sequences, FiniteSets, Functions

CONSTANTS
    Threads,         \* the threads that send
    Keepers,         \* those that send on an interface opened with "nofree"
    Callers,         \* the users of a context: "eth_send", "pcie_send"
    Pkts,            \* the packets
    Big,             \* the packets longer than the MTU
    MAX_JOB_PER_UC,  \* the number of slots
    MaxPkt,          \* the largest number of packets of a job
    MaxBurst,        \* bound: the largest len of a send
    MaxPcieBurst,    \* bound: the same, for pcie_send
    MaxJobs,         \* bound: no send begins once so many positions are taken
    InOrder          \* the micro-core executes the positions in order

ASSUME TxUcAssumption ==
    /\ Keepers \subseteq Threads /\ Big \subseteq Pkts
    /\ Callers \subseteq {"eth_send", "pcie_send"}
    /\ MAX_JOB_PER_UC \in Nat \ {0} /\ MaxPkt \in Nat \ {0}
    /\ MaxBurst \in Nat /\ MaxPcieBurst \in Nat /\ MaxJobs \in Nat
    /\ InOrder \in BOOLEAN

VARIABLES
    head,        \* the next position (ctx->head)
    ev_counter,  \* the number of executed jobs (event_counter)
    committed,   \* the positions committed and not yet executed
    job,         \* job_ctxs: the packets of each slot and its nofree
    pool,        \* the free packets
    owned,       \* the packets each thread has
    caller,      \* which of the two uses this context
    wlock,       \* who holds pcie->wlock, if anyone
    pc, call     \* where each thread is, and the locals of its call

ctxVars == <<head, ev_counter, committed, job, caller>>
vars == <<ctxVars, pool, owned, wlock, pc, call>>

Slots == 0 .. MAX_JOB_PER_UC - 1
Slot(p) == p % MAX_JOB_PER_UC

\* tbl: pkt_table; len: how many packets remain; sent: how many were taken;
\* pos, count: the positions of the call; done: how many of them are committed.
NoCall == [tbl |-> <<>>, len |-> 0, sent |-> 0, pos |-> 0, count |-> 0, done |-> 0]

\* tx_uc_init; the packets are shared out by the application.
Init ==
    /\ head = 0 /\ ev_counter = 0 /\ committed = {}
    /\ job = [s \in Slots |-> [pkts |-> {}, nofree |-> FALSE]]
    /\ owned \in [Threads -> SUBSET Pkts]
    /\ \A t, u \in Threads : t # u => owned[t] \cap owned[u] = {}
    /\ pool = Pkts \ UNION {owned[t] : t \in Threads}
    /\ caller \in Callers
    /\ wlock = {}
    /\ pc = [t \in Threads |-> "idle"]
    /\ call = [t \in Threads |-> NoCall]

\* The application takes a packet from the pool.
AppAlloc(t, p) ==
    /\ pc[t] = "idle" /\ t \notin Keepers /\ p \in pool
    /\ pool' = pool \ {p}
    /\ owned' = [owned EXCEPT ![t] = @ \cup {p}]
    /\ UNCHANGED <<ctxVars, wlock, pc, call>>

Fewer(a, b) == IF a < b THEN a ELSE b

\* eth_send, or pcie_send up to its lock, with the packets of a sequence; pcie_send
\* may shorten it for want of credit.
Send(t, tbl) ==
    /\ pc[t] = "idle" /\ tbl # <<>>
    /\ head < MaxJobs
    /\ caller = "pcie_send" => wlock = {} /\ Len(tbl) <= MaxPcieBurst
    /\ wlock' = IF caller = "pcie_send" THEN {t} ELSE wlock
    /\ pc' = [pc EXCEPT ![t] = "alloc"]
    /\ call' = [call EXCEPT ![t] = [NoCall EXCEPT !.tbl = tbl, !.len = Len(tbl), !.count = 1]]
    /\ UNCHANGED <<ctxVars, pool, owned>>

\* tx_uc_flush, called when an interface is closed.
Flush(t) ==
    /\ pc[t] = "idle"
    /\ head < MaxJobs
    /\ pc' = [pc EXCEPT ![t] = "alloc"]
    /\ call' = [call EXCEPT ![t] = [NoCall EXCEPT !.count = MAX_JOB_PER_UC]]
    /\ UNCHANGED <<ctxVars, pool, owned, wlock>>

\* tx_uc_alloc_uc_slots: the positions are taken by one atomic addition.
Alloc(t) ==
    /\ pc[t] = "alloc"
    /\ head' = head + call[t].count
    /\ call' = [call EXCEPT ![t].pos = head, ![t].done = 0]
    /\ pc' = [pc EXCEPT ![t] = "wait"]
    /\ UNCHANGED <<ev_counter, committed, job, pool, owned, wlock, caller>>

Positions(t) == call[t].pos .. call[t].pos + call[t].count - 1

\* Waits that end one job early, or only when every job has been executed.
MaySlotEarly(t) == ev_counter + MAX_JOB_PER_UC >= call[t].pos + call[t].count - 1
MaySlotLate(t)  == ev_counter > call[t].pos + call[t].count - 1

\* The wait for the slot of the last position.
MaySlot(t) == ev_counter + MAX_JOB_PER_UC > call[t].pos + call[t].count - 1

\* A slot whose nofree is not looked at.
FreedAll(t) == UNION {job[Slot(p)].pkts : p \in {q \in Positions(t) : q >= MAX_JOB_PER_UC}}

\* The packets of the former jobs of its slots, which the thread frees.
Freed(t) ==
    UNION {IF job[Slot(p)].nofree THEN {} ELSE job[Slot(p)].pkts :
              p \in {q \in Positions(t) : q >= MAX_JOB_PER_UC}}

\* tx_uc_alloc_uc_slots ends.
Wait(t) ==
    /\ pc[t] = "wait" /\ MaySlot(t)
    /\ pool' = pool \cup Freed(t)
    /\ pc' = [pc EXCEPT ![t] = "fill"]
    /\ UNCHANGED <<ctxVars, owned, wlock, call>>

\* The packets of the next job: pcie_send passes the start of its table each time.
Part(t) ==
    LET c == call[t]
        from == IF caller = "pcie_send" THEN 0 ELSE c.sent
    IN  SubSeq(c.tbl, from + 1, from + Fewer(MaxPkt, c.len))

\* How many packets precede the first that is too long.
Fitting(s) == CHOOSE k \in 0 .. Len(s) : /\ \A i \in 1 .. k : s[i] \notin Big
                                         /\ k < Len(s) => s[k + 1] \in Big

\* _tx_uc_send_packets stores the packets in its slot.  A packet that is too long
\* ends the send, except that pcie_send goes on after a job that sent something.
Fill(t) ==
    LET c == call[t]
        k == Fitting(Part(t))
        goesOn == k = Len(Part(t)) \/ (caller = "pcie_send" /\ k > 0)
        pkts == Range(SubSeq(Part(t), 1, k))
    IN  /\ pc[t] = "fill" /\ c.tbl # <<>>
        /\ job' = [job EXCEPT ![Slot(c.pos)] = [pkts |-> pkts, nofree |-> t \in Keepers]]
        /\ owned' = IF t \in Keepers THEN owned ELSE [owned EXCEPT ![t] = @ \ pkts]
        /\ call' = [call EXCEPT ![t].sent = c.sent + k,
                                ![t].len = IF goesOn THEN c.len - Len(Part(t)) ELSE 0]
        /\ pc' = [pc EXCEPT ![t] = "commit"]
        /\ UNCHANGED <<head, ev_counter, committed, pool, wlock, caller>>

\* tx_uc_flush empties all the slots.
FlushClear(t) ==
    /\ pc[t] = "fill" /\ call[t].tbl = <<>>
    /\ job' = [s \in Slots |-> [pkts |-> {}, nofree |-> TRUE]]
    /\ pc' = [pc EXCEPT ![t] = "commit"]
    /\ UNCHANGED <<head, ev_counter, committed, pool, owned, wlock, call, caller>>

\* tx_uc_commit, one slot; then the next job of the send, or its end: the packets
\* it reports as sent are no longer the application's.
Commit(t) ==
    LET c == call[t]
        last == c.done + 1 = c.count
    IN  /\ pc[t] = "commit"
        /\ committed' = committed \cup {c.pos + c.done}
        /\ IF last /\ c.len = 0
           THEN /\ pc' = [pc EXCEPT ![t] = "idle"]
                /\ call' = [call EXCEPT ![t] = NoCall]
                /\ wlock' = wlock \ {t}
                /\ owned' = IF t \in Keepers THEN owned
                            ELSE [owned EXCEPT ![t] = @ \ Range(SubSeq(c.tbl, 1, c.sent))]
           ELSE /\ pc' = [pc EXCEPT ![t] = IF last THEN "alloc" ELSE "commit"]
                /\ call' = [call EXCEPT ![t].done = @ + 1]
                /\ UNCHANGED <<owned, wlock>>
        /\ UNCHANGED <<head, ev_counter, job, pool, caller>>

\* The micro-core executes a committed job.
UcRun(p) ==
    /\ p \in committed /\ (InOrder => p = ev_counter)
    /\ committed' = committed \ {p}
    /\ ev_counter' = ev_counter + 1
    /\ UNCHANGED <<head, job, pool, owned, wlock, pc, call, caller>>

Step(t) == Alloc(t) \/ Wait(t) \/ Fill(t) \/ FlushClear(t) \/ Commit(t)
UcStep == \E p \in committed : UcRun(p)

\* The application sends some of its packets, each of them once.
Tables(t) == UNION {Injection(1 .. n, owned[t]) : n \in 1 .. MaxBurst}

Next ==
    \/ \E t \in Threads :
          \/ \E p \in Pkts : AppAlloc(t, p)
          \/ \E tbl \in Tables(t) : Send(t, tbl)
          \/ Flush(t)
          \/ Step(t)
    \/ UcStep

Spec == Init /\ [][Next]_vars

\* The micro-core runs, and a thread inside a call goes on with it.
FairSpec == Spec /\ WF_vars(UcStep) /\ \A t \in Threads : WF_vars(Step(t))
-----------------------------------------------------------------------------
\* The positions a thread has the slots of and has not committed.
Filling(t) ==
    CASE pc[t] = "fill"   -> Positions(t)
      [] pc[t] = "commit" -> call[t].pos + call[t].done .. call[t].pos + call[t].count - 1
      [] OTHER            -> {}

InUse == committed \cup UNION {Filling(t) : t \in Threads}

\* The jobs that threads prepare, and those the micro-core has still to execute, are
\* all in different slots: no packet is freed, and no slot written, before the
\* micro-core has done with it.
SlotOneJob == \A p, q \in InUse : p # q => Slot(p) # Slot(q)

\* The places a packet can be in; a slot whose packets a thread has just freed,
\* and has yet to fill, holds none.
Loaded(s) == \A t \in Threads : pc[t] = "fill" => s \notin {Slot(p) : p \in Positions(t)}
Places(p) ==
    {<<"pool", 0>> : x \in {p} \cap pool}
    \cup {<<"app", t>> : t \in {u \in Threads : p \in owned[u]}}
    \cup {<<"slot", s>> : s \in {r \in Slots : Loaded(r) /\ ~job[r].nofree /\ p \in job[r].pkts}}

\* Every packet is free, or the application's, or in one slot: none is leaked by a
\* send, an error or a flush, and none is freed twice.
OnePlace == \A p \in Pkts : Cardinality(Places(p)) = 1

\* Every send and every flush returns.
CallReturns == \A t \in Threads : pc[t] # "idle" ~> pc[t] = "idle"
=============================================================================
