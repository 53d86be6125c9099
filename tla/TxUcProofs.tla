----------------------------- MODULE TxUcProofs -----------------------------
(***************************************************************************)
(* If the micro-core executes the positions in order, no slot of a transmit *)
(* context is ever used for two jobs, for any set of threads, any number of *)
(* slots and any packets.                                                   *)
(*                                                                          *)
(* The argument: a position belongs to one thread from the addition that    *)
(* takes it to its commit, and then to the micro-core; the positions that   *)
(* are not yet executed start at the completion counter, and those whose    *)
(* slots are in use end before the counter has to make room for them.  They *)
(* are a window of MAX_JOB_PER_UC positions, whose slots are all different. *)
(*                                                                          *)
(* With that, no packet is lost or freed twice.  A packet is in the pool, a *)
(* thread's, or in a slot; each step takes packets from some of these       *)
(* places to one other.  The steps that do are the wait, whose slots no     *)
(* other thread is filling, and the filling of a slot, which takes the next *)
(* packets of a table in which no packet is twice.                          *)
(***************************************************************************)
EXTENDS TxUc, FiniteSetTheorems, TLAPS

\* The locals of a call, of which the positions matter.
IsCall(c) ==
    /\ c = [f \in {"tbl", "len", "sent", "pos", "count", "done"} |-> c[f]]
    /\ c.pos \in Nat /\ c.count \in Nat /\ c.done \in Nat

CallInv ==
    /\ head \in Nat /\ ev_counter \in Nat /\ committed \in SUBSET Nat
    /\ pc \in [Threads -> {"idle", "alloc", "wait", "fill", "commit"}]
    /\ call = [t \in Threads |-> call[t]]
    /\ \A t \in Threads :
          /\ IsCall(call[t])
          /\ pc[t] # "idle" => call[t].count > 0
          /\ pc[t] \in {"wait", "fill"} => call[t].done = 0
          /\ pc[t] = "commit" => call[t].done < call[t].count

\* The positions a thread has taken and not committed.
Pending(t) ==
    IF pc[t] \in {"wait", "fill", "commit"}
    THEN call[t].pos + call[t].done .. call[t].pos + call[t].count - 1 ELSE {}

\* None has been executed, and those whose slots are in use are in the window.
WindowInv ==
    /\ ev_counter <= head
    /\ \A p \in committed : ev_counter <= p /\ p < head /\ p < ev_counter + MAX_JOB_PER_UC
    /\ \A t \in Threads : \A p \in Pending(t) :
          /\ ev_counter <= p /\ p < head
          /\ pc[t] \in {"fill", "commit"} => p < ev_counter + MAX_JOB_PER_UC

\* They are all different.
ApartInv ==
    /\ \A t \in Threads : \A p \in Pending(t) : p \notin committed
    /\ \A t, u \in Threads : t # u => \A p \in Pending(t) : p \notin Pending(u)

IInv == CallInv /\ WindowInv /\ ApartInv
-----------------------------------------------------------------------------
\* A position has a quotient by the number of slots.
LEMMA TxQuotient ==
    ASSUME NEW p \in Nat, NEW N \in Int, N > 0
    PROVE  \E a \in Int : p = N * a + (p % N)
  BY Z3

\* Different positions of a window have different slots (pos % MAX_JOB_PER_UC).
LEMMA TxSlots ==
    ASSUME NEW p \in Nat, NEW q \in Nat, NEW e \in Nat,
           e <= p, p < e + MAX_JOB_PER_UC, e <= q, q < e + MAX_JOB_PER_UC,
           p < q
    PROVE  Slot(p) # Slot(q)
<1> DEFINE N == MAX_JOB_PER_UC
<1>n. N \in Int /\ N > 0
  BY TxUcAssumption
<1> HIDE DEF N
<1>a. PICK a \in Int : p = N * a + (p % N)
  BY Zenon, <1>n, TxQuotient
<1>b. PICK b \in Int : q = N * b + (q % N)
  BY <1>n, TxQuotient
<1>2. SUFFICES ASSUME p % N = q % N PROVE FALSE
  BY DEF Slot, N
<1>3. q - p = N * (b - a) /\ 0 < q - p /\ q - p < N
  BY <1>a, <1>b, <1>2, <1>n DEF N
<1>4. CASE b - a <= 0
  <2>1. N * (b - a) <= 0
    BY <1>4, <1>n, Z3
  <2> QED
    BY <2>1, <1>3, <1>n
<1>5. CASE b - a >= 1
  <2>1. N * (b - a) >= N
    BY <1>5, <1>n, Z3
  <2> QED
    BY <2>1, <1>3, <1>n
<1> QED
  BY <1>4, <1>5

\* The invariant holds initially, and every step keeps it.
THEOREM TxInvariant == ASSUME InOrder PROVE Spec => []IInv
<1> USE TxUcAssumption
<1>1. Init => IInv
  <2> SUFFICES ASSUME Init PROVE IInv
    OBVIOUS
  <2>1. CallInv
    BY DEF Init, CallInv, IsCall, NoCall
  <2>2. \A t \in Threads : Pending(t) = {}
    BY DEF Init, Pending
  <2> QED
    BY <2>1, <2>2 DEF Init, IInv, WindowInv, ApartInv
<1>2. IInv /\ [Next]_vars => IInv'
  <2> SUFFICES ASSUME IInv, [Next]_vars PROVE IInv'
    OBVIOUS
  <2> USE DEF IInv
  <2>1. ASSUME UNCHANGED <<head, ev_counter, committed, pc, call>> PROVE IInv'
    BY <2>1 DEF CallInv, IsCall, WindowInv, ApartInv, Pending
  <2>2. ASSUME NEW t \in Threads,
               (\E p \in Pkts : AppAlloc(t, p)) \/ UNCHANGED vars PROVE IInv'
    BY <2>1, <2>2 DEF AppAlloc, ctxVars, vars
  <2>3. ASSUME NEW t \in Threads, NEW c, IsCall(c), c.count > 0,
               UNCHANGED <<head, ev_counter, committed>>,
               pc[t] = "idle", pc' = [pc EXCEPT ![t] = "alloc"],
               call' = [call EXCEPT ![t] = c]
        PROVE  IInv'
    <3>1. /\ pc'[t] = "alloc" /\ call'[t] = c
          /\ \A u \in Threads : u # t => pc'[u] = pc[u] /\ call'[u] = call[u]
      BY <2>3 DEF CallInv
    <3>2. CallInv'
      BY Zenon, <2>3, <3>1 DEF CallInv, IsCall
    <3>3. Pending(t)' = {} /\ \A u \in Threads : u # t => Pending(u)' = Pending(u)
      BY <3>1 DEF Pending
    <3> QED
      BY <2>3, <3>1, <3>2, <3>3 DEF WindowInv, ApartInv
  <2>4. ASSUME NEW t \in Threads, NEW tbl \in Tables(t), Send(t, tbl) PROVE IInv'
    <3> DEFINE a == [NoCall EXCEPT !.tbl = tbl]
               b == [a EXCEPT !.len = Len(tbl)]
               c == [b EXCEPT !.count = 1]
    <3>0. IsCall(NoCall)
      BY DEF IsCall, NoCall
    <3>a. IsCall(a)
      BY <3>0 DEF IsCall
    <3>b. IsCall(b)
      <4> HIDE DEF a
      <4> QED
        BY Zenon, <3>a DEF IsCall
    <3>1. IsCall(c) /\ c.count > 0
      <4> HIDE DEF b
      <4> QED
        BY <3>b DEF IsCall
    <3> HIDE DEF c
    <3>2. /\ UNCHANGED <<head, ev_counter, committed>>
          /\ pc[t] = "idle" /\ pc' = [pc EXCEPT ![t] = "alloc"]
          /\ call' = [call EXCEPT ![t] = c]
      BY <2>4 DEF Send, ctxVars, a, b, c
    <3> QED
      BY Zenon, <2>3, <3>1, <3>2
  <2>5. ASSUME NEW t \in Threads, Flush(t) PROVE IInv'
    <3> DEFINE c == [NoCall EXCEPT !.count = MAX_JOB_PER_UC]
    <3>1. IsCall(c) /\ c.count > 0
      BY DEF IsCall, NoCall
    <3> QED
      BY Zenon, <2>3, <2>5, <3>1 DEF Flush, ctxVars
  <2>6. ASSUME NEW t \in Threads, Alloc(t) PROVE IInv'
    <3>1. /\ pc[t] = "alloc" /\ pc'[t] = "wait" /\ head' = head + call[t].count
          /\ UNCHANGED <<ev_counter, committed>>
          /\ \A u \in Threads : u # t => pc'[u] = pc[u] /\ call'[u] = call[u]
      BY <2>6 DEF Alloc, CallInv
    <3>2. /\ IsCall(call'[t]) /\ call'[t].pos = head /\ call'[t].done = 0
          /\ call'[t].count = call[t].count /\ call[t].count \in Nat /\ call[t].count > 0
      <4>1. call'[t] = [call[t] EXCEPT !.pos = head, !.done = 0]
        BY <2>6 DEF Alloc, CallInv
      <4> DEFINE d == call[t]
                 a == [d EXCEPT !.pos = head]
      <4>2. IsCall(d) /\ d.count > 0 /\ head \in Nat
        BY <3>1 DEF CallInv
      <4> HIDE DEF d
      <4>3. IsCall(a) /\ a.pos = head /\ a.count = d.count
        BY <4>2 DEF IsCall
      <4>4. call'[t] = [a EXCEPT !.done = 0]
        BY <4>1 DEF a, d
      <4> HIDE DEF a
      <4> QED
        BY <4>2, <4>3, <4>4 DEF IsCall, d
    <3>3. CallInv'
      <4>1. pc' \in [Threads -> {"idle", "alloc", "wait", "fill", "commit"}]
        BY <2>6 DEF Alloc, CallInv
      <4>2. call' = [u \in Threads |-> call'[u]]
        BY <2>6 DEF Alloc, CallInv
      <4> QED
        BY <3>1, <3>2, <4>1, <4>2 DEF CallInv, IsCall
    <3>4. /\ Pending(t)' = head .. head' - 1 /\ Pending(t) = {}
          /\ \A u \in Threads : u # t => Pending(u)' = Pending(u)
      BY <3>1, <3>2 DEF Pending, CallInv
    <3>5. head \in Nat /\ head' \in Nat /\ head < head' /\ ev_counter \in Nat
          /\ \A u \in Threads : Pending(u) \subseteq Int
      BY <3>1, <3>2 DEF CallInv, Pending, IsCall
    <3>6. WindowInv'
      <4>1. \A p \in committed : ev_counter <= p /\ p < head' /\ p < ev_counter + MAX_JOB_PER_UC
        BY <3>5 DEF WindowInv, CallInv
      <4>2. ASSUME NEW u \in Threads, NEW p \in Pending(u)'
            PROVE  /\ ev_counter <= p /\ p < head'
                   /\ pc'[u] \in {"fill", "commit"} => p < ev_counter + MAX_JOB_PER_UC
        <5>1. CASE u = t
          BY <4>2, <5>1, <3>1, <3>4, <3>5 DEF WindowInv
        <5>2. CASE u # t
          BY <4>2, <5>2, <3>1, <3>4, <3>5 DEF WindowInv
        <5> QED
          BY <5>1, <5>2
      <4> QED
        BY <4>1, <4>2, <3>1, <3>5 DEF WindowInv
    <3>7. ApartInv'
      <4>1. \A p \in Pending(t)' : p \notin committed /\ \A u \in Threads : p \notin Pending(u)
        BY <3>4, <3>5 DEF WindowInv, CallInv
      <4>2. \A u \in Threads : \A p \in Pending(u)' : p \notin committed'
        BY Zenon, <4>1, <3>1, <3>4 DEF ApartInv
      <4>3. ASSUME NEW u \in Threads, NEW v \in Threads, u # v, NEW p \in Pending(u)'
            PROVE  p \notin Pending(v)'
        <5>1. CASE u = t
          BY <4>1, <4>3, <5>1, <3>4
        <5>2. CASE v = t
          BY <4>1, <4>3, <5>2, <3>4
        <5>3. CASE u # t /\ v # t
          BY <4>3, <5>3, <3>4 DEF ApartInv
        <5> QED
          BY <5>1, <5>2, <5>3
      <4> QED
        BY <4>2, <4>3 DEF ApartInv
    <3> QED
      BY <3>3, <3>6, <3>7
  <2>7. ASSUME NEW t \in Threads, NEW c, NEW l,
               IsCall(c), c.pos = call[t].pos, c.count = call[t].count, c.done = call[t].done,
               UNCHANGED <<head, ev_counter, committed>>,
               (pc[t] = "wait" /\ MaySlot(t) /\ l = "fill") \/ (pc[t] = "fill" /\ l = "commit"),
               pc' = [pc EXCEPT ![t] = l], call' = [call EXCEPT ![t] = c]
        PROVE  IInv'
    <3>1. /\ pc'[t] = l /\ call'[t] = c
          /\ \A u \in Threads : u # t => pc'[u] = pc[u] /\ call'[u] = call[u]
      BY <2>7 DEF CallInv
    <3>2. CallInv'
      <4>1. /\ pc' \in [Threads -> {"idle", "alloc", "wait", "fill", "commit"}]
            /\ call' = [u \in Threads |-> call'[u]]
        BY <2>7 DEF CallInv
      <4>2. /\ c.count > 0 /\ c.done = 0
            /\ c.count \in Nat
        BY <2>7 DEF CallInv, IsCall
      <4> QED
        BY Zenon, <2>7, <3>1, <4>1, <4>2 DEF CallInv, IsCall
    <3>3. \A u \in Threads : Pending(u)' = Pending(u)
      BY <2>7, <3>1 DEF Pending
    <3>4. \A p \in Pending(t) : p < ev_counter + MAX_JOB_PER_UC
      BY <2>7 DEF Pending, MaySlot, WindowInv, CallInv, IsCall
    <3>5. WindowInv'
      BY <2>7, <3>1, <3>3, <3>4 DEF WindowInv
    <3>6. ApartInv'
      BY <2>7, <3>3 DEF ApartInv
    <3> QED
      BY <3>2, <3>5, <3>6
  <2>8. ASSUME NEW t \in Threads, Wait(t) \/ FlushClear(t) PROVE IInv'
    <3>1. IsCall(call[t]) /\ call = [call EXCEPT ![t] = call[t]]
      BY DEF CallInv
    <3> QED
      BY Zenon, <2>7, <2>8, <3>1 DEF Wait, FlushClear, ctxVars
  <2>9. ASSUME NEW t \in Threads, Fill(t) PROVE IInv'
    <3>1. PICK x, n : call' = [call EXCEPT ![t].sent = x, ![t].len = n]
      BY <2>9, Zenon DEF Fill
    <3> DEFINE d == call[t]
               a == [d EXCEPT !.sent = x]
               c == [a EXCEPT !.len = n]
    <3>2. IsCall(c) /\ c.pos = d.pos /\ c.count = d.count /\ c.done = d.done
      <4>1. IsCall(d)
        BY DEF CallInv
      <4> HIDE DEF d
      <4>2. IsCall(a) /\ a.pos = d.pos /\ a.count = d.count /\ a.done = d.done
        BY <4>1 DEF IsCall
      <4> HIDE DEF a
      <4> QED
        BY <4>2 DEF IsCall
    <3>3. call' = [call EXCEPT ![t] = c]
      BY Zenon, <3>1 DEF CallInv
    <3> HIDE DEF c
    <3>4. /\ UNCHANGED <<head, ev_counter, committed>>
          /\ pc[t] = "fill" /\ pc' = [pc EXCEPT ![t] = "commit"]
      BY <2>9, Zenon DEF Fill
    <3> QED
      BY Zenon, <2>7, <3>2, <3>3, <3>4
  <2>10. ASSUME NEW t \in Threads, NEW c, NEW l,
                IsCall(c), pc[t] = "commit",
                \/ l = "idle" \/ (l = "alloc" /\ c.count > 0)
                \/ /\ l = "commit" /\ c.done < c.count
                   /\ c.pos = call[t].pos /\ c.count = call[t].count
                   /\ c.done = call[t].done + 1,
                committed' = committed \cup {call[t].pos + call[t].done},
                UNCHANGED <<head, ev_counter>>,
                pc' = [pc EXCEPT ![t] = l], call' = [call EXCEPT ![t] = c]
         PROVE  IInv'
    <3> DEFINE k == call[t].pos + call[t].done
    <3>1. /\ pc'[t] = l /\ call'[t] = c
          /\ \A u \in Threads : u # t => pc'[u] = pc[u] /\ call'[u] = call[u]
      BY <2>10 DEF CallInv
    <3>0. /\ call[t].pos \in Nat /\ call[t].done \in Nat /\ call[t].count \in Nat
          /\ call[t].done < call[t].count
      BY <2>10 DEF CallInv, IsCall
    <3>2. CallInv'
      <4>1. /\ pc' \in [Threads -> {"idle", "alloc", "wait", "fill", "commit"}]
            /\ call' = [u \in Threads |-> call'[u]]
        BY <2>10 DEF CallInv
      <4>2. committed' \in SUBSET Nat
        BY <2>10, <3>0 DEF CallInv
      <4>3. l # "idle" => c.count > 0
        BY <2>10, <3>0 DEF IsCall
      <4>4. ASSUME NEW u \in Threads
            PROVE  /\ IsCall(call'[u])
                   /\ pc'[u] # "idle" => call'[u].count > 0
                   /\ pc'[u] \in {"wait", "fill"} => call'[u].done = 0
                   /\ pc'[u] = "commit" => call'[u].done < call'[u].count
        <5>1. CASE u = t
          BY <2>10, <3>1, <4>3, <5>1
        <5>2. CASE u # t
          BY <3>1, <5>2 DEF CallInv
        <5> QED
          BY <5>1, <5>2
      <4> QED
        BY <2>10, <4>1, <4>2, <4>4 DEF CallInv, IsCall
    <3>3. k \in Pending(t) /\ Pending(t)' \subseteq Pending(t) \ {k}
      <4>1. k \in Pending(t)
        BY <2>10, <3>0 DEF Pending
      <4>2. CASE l = "commit"
        BY <2>10, <3>0, <3>1, <4>2 DEF Pending
      <4>3. CASE l # "commit"
        <5>1. l \notin {"wait", "fill", "commit"}
          BY <2>10, <4>3
        <5>2. Pending(t)' = {}
          BY <3>1, <5>1, Zenon DEF Pending
        <5> QED
          BY <4>1, <5>2, Zenon
      <4> QED
        BY <4>1, <4>2, <4>3
    <3>4. \A u \in Threads : u # t => Pending(u)' = Pending(u)
      BY <3>1 DEF Pending
    <3> HIDE DEF k
    <3>5. committed' = committed \cup {k}
      BY <2>10 DEF k
    <3>6. WindowInv'
      BY <2>10, <3>1, <3>3, <3>4, <3>5 DEF WindowInv
    <3>7. ApartInv'
      BY <3>3, <3>4, <3>5 DEF ApartInv
    <3> QED
      BY <3>2, <3>6, <3>7
  <2>11. ASSUME NEW t \in Threads, Commit(t) PROVE IInv'
    <3> DEFINE d == call[t]
               last == d.done + 1 = d.count
    <3>1. /\ pc[t] = "commit" /\ UNCHANGED <<head, ev_counter>>
          /\ committed' = committed \cup {d.pos + d.done}
      BY <2>11 DEF Commit
    <3>2. IsCall(d) /\ d.done < d.count
      BY <3>1 DEF CallInv
    <3>3. CASE last /\ d.len = 0
      <4>1. pc' = [pc EXCEPT ![t] = "idle"] /\ call' = [call EXCEPT ![t] = NoCall]
        BY <2>11, <3>3 DEF Commit
      <4>2. IsCall(NoCall)
        BY DEF IsCall, NoCall
      <4> QED
        BY Zenon, <2>10, <3>1, <3>3, <4>1, <4>2
    <3>4. CASE ~(last /\ d.len = 0)
      <4> DEFINE c == [d EXCEPT !.done = d.done + 1]
      <4>1. /\ pc' = [pc EXCEPT ![t] = IF last THEN "alloc" ELSE "commit"]
            /\ call' = [call EXCEPT ![t] = c]
        BY <2>11, <3>4 DEF Commit, CallInv
      <4>2. /\ IsCall(c) /\ c.pos = d.pos /\ c.count = d.count /\ c.done = d.done + 1
        <5> HIDE DEF d
        <5> QED
          BY <3>2 DEF IsCall
      <4>3. /\ d.done \in Nat /\ d.count \in Nat /\ d.done < d.count
        BY <3>2 DEF IsCall
      <4> HIDE DEF c
      <4>4. CASE last
        <5>1. c.count > 0 /\ pc' = [pc EXCEPT ![t] = "alloc"]
          BY <4>1, <4>2, <4>3, <4>4
        <5> QED
          BY Zenon, <2>10, <3>1, <4>1, <4>2, <5>1
      <4>5. CASE ~last
        <5>1. c.done < c.count
          BY <4>2, <4>3, <4>5
        <5> QED
          BY Zenon, <2>10, <3>1, <4>1, <4>2, <4>5, <5>1
      <4> QED
        BY <4>4, <4>5
    <3> QED
      BY <3>3, <3>4
  <2>12. ASSUME NEW p \in committed, UcRun(p) PROVE IInv'
    <3>1. /\ p = ev_counter /\ ev_counter' = ev_counter + 1 /\ committed' = committed \ {p}
          /\ UNCHANGED <<head, pc, call>>
      BY <2>12 DEF UcRun
    <3>2. CallInv'
      BY <3>1 DEF CallInv, IsCall
    <3>3. \A u \in Threads : Pending(u)' = Pending(u) /\ Pending(u) \subseteq Int
      BY <3>1 DEF Pending, CallInv, IsCall
    <3>4. WindowInv'
      BY <3>1, <3>3 DEF WindowInv, ApartInv, CallInv
    <3>5. ApartInv'
      BY <3>1, <3>3 DEF ApartInv
    <3> QED
      BY <3>2, <3>4, <3>5
  <2> QED
    BY <2>1, <2>2, <2>4, <2>5, <2>6, <2>8, <2>9, <2>11, <2>12 DEF Next, Step, UcStep, vars, ctxVars
<1> QED
  BY <1>1, <1>2, PTL DEF Spec

\* SlotOneJob, for any number of threads and of slots: no thread writes a slot, and
\* none frees the packets of a slot, that another job still uses, provided the
\* micro-core executes the positions in order.
THEOREM TxSlotOneJob == ASSUME InOrder PROVE Spec => []SlotOneJob
<1>1. IInv => SlotOneJob
  <2> SUFFICES ASSUME IInv, NEW p \in InUse, NEW q \in InUse, p # q
               PROVE  Slot(p) # Slot(q)
    BY DEF SlotOneJob
  <2> USE DEF IInv
  <2>1. \A x \in InUse : x \in Nat /\ ev_counter <= x /\ x < ev_counter + MAX_JOB_PER_UC
    <3>1. ASSUME NEW t \in Threads, NEW x \in Filling(t)
          PROVE  x \in Nat /\ ev_counter <= x /\ x < ev_counter + MAX_JOB_PER_UC
      <4>1. pc[t] \in {"fill", "commit"}
        BY <3>1 DEF Filling, CallInv
      <4>2. x \in Pending(t) /\ x \in Nat
        BY <3>1, <4>1 DEF Filling, Pending, Positions, CallInv, IsCall
      <4> QED
        BY <4>1, <4>2 DEF WindowInv
    <3>2. \A x \in committed : x \in Nat /\ ev_counter <= x /\ x < ev_counter + MAX_JOB_PER_UC
      BY DEF WindowInv, CallInv
    <3> QED
      BY <3>1, <3>2 DEF InUse
  <2>2. ev_counter \in Nat /\ (p < q \/ q < p)
    BY <2>1 DEF CallInv
  <2> QED
    BY <2>1, <2>2, TxSlots
<1> QED
  BY <1>1, TxInvariant, PTL
-----------------------------------------------------------------------------
(* The packets. *)

\* A table holds no packet twice.
NoTwice(s) == \A i, j \in DOMAIN s : s[i] = s[j] => i = j

\* The table of a call: what is sent is no longer the thread's, the rest is.
SendTable(t) ==
    /\ call[t].count = 1 /\ NoTwice(call[t].tbl)
    /\ call[t].sent <= Len(call[t].tbl)
    /\ call[t].len # 0 => call[t].sent + call[t].len = Len(call[t].tbl)
    /\ pc[t] # "commit" => call[t].len # 0
    /\ caller = "pcie_send" => /\ Len(call[t].tbl) <= MaxPkt
                               /\ IF pc[t] = "commit" THEN call[t].len = 0 ELSE call[t].sent = 0
    /\ t \notin Keepers =>
          \A k \in DOMAIN call[t].tbl : call[t].tbl[k] \in owned[t] <=> k > call[t].sent

TableOK(t) ==
    /\ call[t].tbl \in Seq(Pkts) /\ call[t].len \in Nat /\ call[t].sent \in Nat
    /\ pc[t] # "idle" => IF call[t].tbl = <<>>
                         THEN /\ call[t].count = MAX_JOB_PER_UC
                              /\ call[t].len = 0 /\ call[t].sent = 0
                         ELSE SendTable(t)

\* The slots no job has used, and those of the first positions until their jobs are
\* stored, hold no packet.
Unused(s) == s >= head \/ \E t \in Threads : s \in Pending(t) /\ pc[t] \in {"wait", "fill"}

\* The places a packet can be in, and what each of them holds.
AtPool == <<"pool", 0>>
AtApp(t) == <<"app", t>>
AtSlot(s) == <<"slot", s>>
TxPlaces == {AtPool} \cup {AtApp(t) : t \in Threads} \cup {AtSlot(s) : s \in Slots}
Kept(s) == IF Loaded(s) /\ ~job[s].nofree THEN job[s].pkts ELSE {}
Holds(x) == CASE x[1] = "pool" -> pool
              [] x[1] = "app"  -> owned[x[2]]
              [] OTHER         -> Kept(x[2])

PktTypes ==
    /\ pool \in SUBSET Pkts /\ owned \in [Threads -> SUBSET Pkts]
    /\ job \in [Slots -> [pkts : SUBSET Pkts, nofree : BOOLEAN]]

PlaceInv ==
    /\ \A x, y \in TxPlaces : x # y => Holds(x) \cap Holds(y) = {}
    /\ \A p \in Pkts : \E x \in TxPlaces : p \in Holds(x)

PktInv ==
    /\ PktTypes /\ PlaceInv
    /\ \A t \in Threads : TableOK(t)
    /\ \A s \in Slots : Unused(s) => job[s].pkts = {}
-----------------------------------------------------------------------------
\* A set of natural numbers has a least element.
LEMMA TxLeast ==
    ASSUME NEW T \in SUBSET Nat, T # {}
    PROVE  \E x \in T : \A y \in T : x <= y
<1> DEFINE R == OpToRel(<, Nat)
<1>1. IsWellFoundedOn(R, Nat)
  BY NatLessThanWellFounded
<1>2. \A a, b \in Nat : a < b => <<a, b>> \in R
  BY DEF OpToRel
<1> HIDE DEF R
<1>3. PICK x \in T : \A y \in T : ~(<<y, x>> \in R)
  BY Zenon, <1>1, WFMin
<1>4. \A y \in T : ~(y < x)
  BY Zenon, <1>2, <1>3
<1> QED
  BY <1>4

\* The packets before the first that is too long are some of the packets.
LEMMA FittingRange ==
    ASSUME NEW s \in Seq(Pkts)
    PROVE  Fitting(s) \in 0 .. Len(s)
<1> DEFINE I == {i \in 1 .. Len(s) : s[i] \in Big}
           P(k) == (\A i \in 1 .. k : s[i] \notin Big) /\ (k < Len(s) => s[k + 1] \in Big)
<1>1. Len(s) \in Nat
  OBVIOUS
<1>2. \E k \in 0 .. Len(s) : P(k)
  <2>1. CASE I # {}
    <3>1. I \in SUBSET Nat
      BY <1>1
    <3>2. PICK x \in I : \A y \in I : x <= y
      <4> HIDE DEF I
      <4> QED
        BY Zenon, <2>1, <3>1, TxLeast
    <3>3. x \in 1 .. Len(s) /\ s[x] \in Big
      BY Zenon
    <3>4. x - 1 \in 0 .. Len(s) /\ (x - 1) + 1 = x
      BY <1>1, <3>3
    <3>5. ASSUME NEW i \in 1 .. x - 1 PROVE s[i] \notin Big
      <4>1. i \in 1 .. Len(s) /\ ~(x <= i)
        BY <1>1, <3>3
      <4> QED
        BY Zenon, <3>2, <4>1
    <3> QED
      BY Zenon, <3>3, <3>4, <3>5
  <2>2. CASE I = {}
    <3>1. Len(s) \in 0 .. Len(s) /\ ~(Len(s) < Len(s))
      BY <1>1
    <3>2. \A i \in 1 .. Len(s) : s[i] \notin Big
      BY Zenon, <2>2
    <3> QED
      BY Zenon, <3>1, <3>2
  <2> QED
    BY Zenon, <2>1, <2>2
<1> QED
  BY Zenon, <1>2 DEF Fitting

\* The slot of a position: the positions of a lap are the slots.
LEMMA SlotOfSum ==
    ASSUME NEW a \in Int, NEW s \in Slots, NEW p \in Nat, p = MAX_JOB_PER_UC * a + s
    PROVE  Slot(p) = s
<1> DEFINE N == MAX_JOB_PER_UC
           m == p % N
<1>n. N \in Int /\ N > 0 /\ s \in Int /\ 0 <= s /\ s < N
  BY TxUcAssumption DEF Slots
<1>0. m \in Int /\ 0 <= m /\ m < N
  BY <1>n
<1>1. p = N * a + s
  BY Zenon
<1> HIDE DEF N
<1>2. PICK b \in Int : p = N * b + m
  BY Zenon, <1>n, TxQuotient
<1>s. Slot(p) = m
  BY DEF Slot, N
<1> HIDE DEF m
<1>3. m - s = N * (a - b) /\ -N < m - s /\ m - s < N
  BY <1>n, <1>0, <1>1, <1>2
<1>4. CASE a - b <= -1
  <2>1. N * (a - b) <= -N
    BY <1>4, <1>n, Z3
  <2> QED
    BY <2>1, <1>0, <1>3, <1>n
<1>5. CASE a - b >= 1
  <2>1. N * (a - b) >= N
    BY <1>5, <1>n, Z3
  <2> QED
    BY <2>1, <1>0, <1>3, <1>n
<1>6. CASE a - b = 0
  <2>1. N * (a - b) = 0
    BY <1>6, <1>n
  <2> QED
    BY <2>1, <1>0, <1>3, <1>n, <1>s
<1> QED
  BY <1>4, <1>5, <1>6

\* A slot is not above its position, and the first positions are their own slots.
LEMMA SlotRange ==
    ASSUME NEW p \in Nat
    PROVE  Slot(p) \in Slots /\ Slot(p) <= p /\ (p < MAX_JOB_PER_UC => Slot(p) = p)
<1> DEFINE N == MAX_JOB_PER_UC
<1>n. N \in Int /\ N > 0
  BY TxUcAssumption
<1>1. Slot(p) \in Slots
  BY TxUcAssumption DEF Slot, Slots
<1>2. p < N => Slot(p) = p
  <2> SUFFICES ASSUME p < N PROVE Slot(p) = p
    BY Zenon
  <2>1. p \in Slots /\ p = N * 0 + p /\ 0 \in Int
    BY <1>n DEF Slots
  <2> QED
    BY Zenon, <2>1, SlotOfSum
<1>3. ~(p < N) => Slot(p) <= p
  BY <1>n, <1>1 DEF Slots
<1> QED
  BY <1>1, <1>2, <1>3

\* As many consecutive positions as there are slots have all the slots.
LEMMA SlotAll ==
    ASSUME NEW p \in Nat, NEW s \in Slots
    PROVE  \E q \in p .. p + MAX_JOB_PER_UC - 1 : Slot(q) = s
<1> DEFINE N == MAX_JOB_PER_UC
           m == p % N
<1>n. N \in Int /\ N > 0 /\ s \in Int /\ 0 <= s /\ s < N
  BY TxUcAssumption DEF Slots
<1>0. m \in Int /\ 0 <= m /\ m < N
  BY <1>n
<1>1. PICK a \in Int : p = N * a + m
  BY Zenon, <1>n, TxQuotient
<1> HIDE DEF m
<1>2. CASE s >= m
  <2>1. /\ p + (s - m) \in p .. p + N - 1 /\ p + (s - m) = N * a + s
        /\ p + (s - m) \in Nat
    <3> HIDE DEF N
    <3> QED
      BY <1>n, <1>0, <1>1, <1>2
  <2>2. Slot(p + (s - m)) = s
    BY Zenon, <2>1, SlotOfSum
  <2> QED
    BY Zenon, <2>1, <2>2
<1>3. CASE s < m
  <2>1. /\ p + (s - m) + N \in p .. p + N - 1 /\ p + (s - m) + N = N * (a + 1) + s
        /\ p + (s - m) + N \in Nat /\ a + 1 \in Int
    <3> HIDE DEF N
    <3>1. N * (a + 1) = N * a + N
      BY <1>n
    <3> QED
      BY <1>n, <1>0, <1>1, <1>3, <3>1
  <2>2. Slot(p + (s - m) + N) = s
    BY Zenon, <2>1, SlotOfSum
  <2> QED
    BY Zenon, <2>1, <2>2
<1> QED
  BY <1>n, <1>0, <1>2, <1>3
-----------------------------------------------------------------------------
(* The places. *)

\* The places are the pool, the threads and the slots, all different.
LEMMA PlaceFacts ==
    /\ AtPool \in TxPlaces
    /\ \A t \in Threads : AtApp(t) \in TxPlaces
    /\ \A s \in Slots : AtSlot(s) \in TxPlaces
    /\ \A t \in Threads : AtApp(t) # AtPool
    /\ \A s \in Slots : AtSlot(s) # AtPool
    /\ \A t \in Threads, s \in Slots : AtApp(t) # AtSlot(s)
    /\ \A t, u \in Threads : AtApp(t) = AtApp(u) => t = u
    /\ \A s, r \in Slots : AtSlot(s) = AtSlot(r) => s = r
    /\ \A x \in TxPlaces :
          \/ x = AtPool
          \/ \E t \in Threads : x = AtApp(t)
          \/ \E s \in Slots : x = AtSlot(s)
<1>1. /\ AtPool \in TxPlaces
      /\ \A t \in Threads : AtApp(t) \in TxPlaces
      /\ \A s \in Slots : AtSlot(s) \in TxPlaces
  BY Zenon DEF TxPlaces
<1>2. /\ \A t \in Threads : AtApp(t) # AtPool
      /\ \A s \in Slots : AtSlot(s) # AtPool
      /\ \A t \in Threads, s \in Slots : AtApp(t) # AtSlot(s)
  BY DEF AtPool, AtApp, AtSlot
<1>3. /\ \A t, u \in Threads : AtApp(t) = AtApp(u) => t = u
      /\ \A s, r \in Slots : AtSlot(s) = AtSlot(r) => s = r
  BY DEF AtApp, AtSlot
<1>4. \A x \in TxPlaces :
         \/ x = AtPool
         \/ \E t \in Threads : x = AtApp(t)
         \/ \E s \in Slots : x = AtSlot(s)
  BY Zenon DEF TxPlaces
<1> QED
  BY Zenon, <1>1, <1>2, <1>3, <1>4

\* What each of them holds.
LEMMA HoldsIs ==
    /\ Holds(AtPool) = pool /\ Holds(AtPool)' = pool'
    /\ \A t \in Threads : Holds(AtApp(t)) = owned[t] /\ Holds(AtApp(t))' = owned'[t]
    /\ \A s \in Slots : Holds(AtSlot(s)) = Kept(s) /\ Holds(AtSlot(s))' = Kept(s)'
  BY DEF Holds, AtPool, AtApp, AtSlot

\* One place gets what the others lose.
LEMMA MoveStep ==
    ASSUME PlaceInv, NEW y \in TxPlaces,
           \A x \in TxPlaces : x # y => Holds(x)' \subseteq Holds(x),
           \A p : p \in Holds(y)' <=>
                    \/ p \in Holds(y)
                    \/ \E x \in TxPlaces : x # y /\ p \in Holds(x) /\ p \notin Holds(x)'
    PROVE  PlaceInv'
<1>1. ASSUME NEW v \in TxPlaces, NEW w \in TxPlaces, v # w, NEW p PROVE ~(p \in Holds(v) /\ p \in Holds(w))
  BY Zenon, <1>1 DEF PlaceInv
<1>2. ASSUME NEW w \in TxPlaces, w # y, NEW p, p \in Holds(y)', p \in Holds(w)' PROVE FALSE
  <2>1. p \in Holds(w)
    BY Zenon, <1>2
  <2>2. CASE p \in Holds(y)
    BY Zenon, <1>1, <1>2, <2>1, <2>2
  <2>3. ASSUME NEW x \in TxPlaces, x # y, p \in Holds(x), p \notin Holds(x)' PROVE FALSE
    <3>1. x = w
      BY Zenon, <1>1, <2>1, <2>3
    <3> QED
      BY Zenon, <1>2, <2>3, <3>1
  <2> QED
    BY Zenon, <1>2, <2>2, <2>3
<1>3. ASSUME NEW v \in TxPlaces, NEW w \in TxPlaces, v # w, NEW p,
             p \in Holds(v)', p \in Holds(w)'
      PROVE  FALSE
  <2>1. CASE v = y
    BY Zenon, <1>2, <1>3, <2>1
  <2>2. CASE w = y
    BY Zenon, <1>2, <1>3, <2>2
  <2>3. CASE v # y /\ w # y
    BY Zenon, <1>1, <1>3, <2>3
  <2> QED
    BY Zenon, <2>1, <2>2, <2>3
<1>4. ASSUME NEW p \in Pkts PROVE \E x \in TxPlaces : p \in Holds(x)'
  <2>1. PICK x \in TxPlaces : p \in Holds(x)
    BY Zenon DEF PlaceInv
  <2> QED
    BY Zenon, <2>1
<1> QED
  BY Zenon, <1>3, <1>4 DEF PlaceInv

\* Some packets go from one place to another.
LEMMA MoveSet ==
    ASSUME PlaceInv, NEW y \in TxPlaces, NEW z \in TxPlaces, y # z, NEW A,
           \A p \in A : p \in Holds(z),
           Holds(z)' = Holds(z) \ A, Holds(y)' = Holds(y) \cup A,
           \A x \in TxPlaces : x # y /\ x # z => Holds(x)' = Holds(x)
    PROVE  PlaceInv'
<1>1. \A x \in TxPlaces : x # y => Holds(x)' \subseteq Holds(x)
  BY Zenon
<1>2. ASSUME NEW p, p \in Holds(y)'
      PROVE  \/ p \in Holds(y)
             \/ \E x \in TxPlaces : x # y /\ p \in Holds(x) /\ p \notin Holds(x)'
  BY Zenon, <1>2
<1>3. ASSUME NEW p, NEW x \in TxPlaces, x # y, p \in Holds(x), p \notin Holds(x)'
      PROVE  p \in Holds(y)'
  <2>1. x = z
    BY Zenon, <1>3
  <2> QED
    BY Zenon, <1>3, <2>1
<1>4. \A p : p \in Holds(y) => p \in Holds(y)'
  BY Zenon
<1>5. \A p : p \in Holds(y)' <=>
                \/ p \in Holds(y)
                \/ \E x \in TxPlaces : x # y /\ p \in Holds(x) /\ p \notin Holds(x)'
  BY Zenon, <1>2, <1>3, <1>4
<1> QED
  BY Zenon, <1>1, <1>5, MoveStep

\* Nothing moves.
LEMMA SamePlaces ==
    ASSUME PlaceInv, pool' = pool, \A t \in Threads : owned'[t] = owned[t],
           \A s \in Slots : Kept(s)' = Kept(s)
    PROVE  PlaceInv'
<1>1. Holds(AtPool)' = Holds(AtPool)
  BY Zenon, HoldsIs
<1>2. \A t \in Threads : Holds(AtApp(t))' = Holds(AtApp(t))
  BY Zenon, HoldsIs
<1>3. \A s \in Slots : Holds(AtSlot(s))' = Holds(AtSlot(s))
  BY Zenon, HoldsIs
<1>4. ASSUME NEW x \in TxPlaces PROVE Holds(x)' = Holds(x)
  <2>1. \/ x = AtPool
        \/ \E t \in Threads : x = AtApp(t)
        \/ \E s \in Slots : x = AtSlot(s)
    BY Zenon, PlaceFacts
  <2> QED
    BY Zenon, <1>1, <1>2, <1>3, <2>1
<1>5. ASSUME NEW x \in TxPlaces, NEW y \in TxPlaces, x # y PROVE Holds(x)' \cap Holds(y)' = {}
  <2>1. Holds(x) \cap Holds(y) = {}
    BY Zenon, <1>5 DEF PlaceInv
  <2> QED
    BY Zenon, <1>4, <2>1
<1>6. ASSUME NEW p \in Pkts PROVE \E x \in TxPlaces : p \in Holds(x)'
  <2>1. PICK x \in TxPlaces : p \in Holds(x)
    BY Zenon DEF PlaceInv
  <2> QED
    BY Zenon, <1>4, <2>1
<1> QED
  BY Zenon, <1>5, <1>6 DEF PlaceInv
-----------------------------------------------------------------------------
(* The slots. *)

SlotsOf(t) == {Slot(p) : p \in Positions(t)}

\* What the invariant of the positions says of one thread.
LEMMA CallFacts ==
    ASSUME IInv, NEW t \in Threads
    PROVE  /\ call[t].pos \in Nat /\ call[t].count \in Nat /\ call[t].done \in Nat
           /\ pc[t] # "idle" => call[t].count > 0
           /\ pc[t] \in {"wait", "fill"} => Pending(t) = Positions(t)
           /\ pc[t] = "commit" => call[t].done < call[t].count
           /\ Positions(t) \subseteq Nat /\ SlotsOf(t) \subseteq Slots
<1>1. /\ call[t].pos \in Nat /\ call[t].count \in Nat /\ call[t].done \in Nat
      /\ pc[t] # "idle" => call[t].count > 0
      /\ pc[t] \in {"wait", "fill"} => call[t].done = 0
      /\ pc[t] = "commit" => call[t].done < call[t].count
  BY Zenon DEF IInv, CallInv, IsCall
<1>2. Positions(t) \subseteq Nat
  BY <1>1 DEF Positions
<1>3. SlotsOf(t) \subseteq Slots
  BY Zenon, <1>2, SlotRange DEF SlotsOf
<1>4. pc[t] \in {"wait", "fill"} => Pending(t) = Positions(t)
  BY <1>1 DEF Pending, Positions
<1> QED
  BY Zenon, <1>1, <1>2, <1>3, <1>4

\* The slots of a thread that may use them, or uses them, are not those of another
\* that fills its own.
LEMMA SlotsApart ==
    ASSUME IInv, NEW t \in Threads, NEW u \in Threads, t # u,
           (pc[t] = "wait" /\ MaySlot(t)) \/ pc[t] = "fill", pc[u] = "fill",
           NEW s \in SlotsOf(t)
    PROVE  s \notin SlotsOf(u)
<1>1. /\ Pending(t) = Positions(t) /\ Positions(t) \subseteq Nat
      /\ Pending(u) = Positions(u) /\ Positions(u) \subseteq Nat
  BY Zenon, CallFacts
<1>2. SUFFICES ASSUME NEW p \in Positions(t), NEW q \in Positions(u), Slot(p) = Slot(q)
               PROVE  FALSE
  BY Zenon DEF SlotsOf
<1>3. p \in Nat /\ q \in Nat /\ p # q /\ ev_counter \in Nat
  BY Zenon, <1>1 DEF IInv, ApartInv, CallInv
<1>4. ev_counter <= q /\ q < ev_counter + MAX_JOB_PER_UC /\ ev_counter <= p
  BY Zenon, <1>1 DEF IInv, WindowInv
<1>5. p < ev_counter + MAX_JOB_PER_UC
  <2>1. CASE pc[t] = "fill"
    BY Zenon, <1>1, <2>1 DEF IInv, WindowInv
  <2>2. CASE MaySlot(t)
    <3>1. call[t].pos \in Nat /\ call[t].count \in Nat
      BY Zenon, CallFacts
    <3> QED
      BY <2>2, <3>1, <1>3, TxUcAssumption DEF MaySlot, Positions
  <2> QED
    BY Zenon, <2>1, <2>2
<1>6. p < q \/ q < p
  BY <1>3
<1> QED
  BY Zenon, <1>2, <1>3, <1>4, <1>5, <1>6, TxSlots

\* A slot is loaded if no thread that fills its slots has it.
LEMMA LoadedIs ==
    /\ \A s : Loaded(s) <=> \A u \in Threads : pc[u] = "fill" => s \notin SlotsOf(u)
    /\ \A s : Loaded(s)' <=> \A u \in Threads : pc'[u] = "fill" => s \notin SlotsOf(u)'
  BY Zenon DEF Loaded, SlotsOf

\* Steps that do not begin or end the filling of slots.
LEMMA LoadedSame ==
    ASSUME \A u \in Threads : pc'[u] = "fill" <=> pc[u] = "fill",
           \A u \in Threads : pc[u] = "fill" => call'[u] = call[u]
    PROVE  \A s : Loaded(s)' <=> Loaded(s)
<1>1. \A u \in Threads : pc[u] = "fill" => SlotsOf(u)' = SlotsOf(u)
  BY Zenon DEF SlotsOf, Positions
<1> QED
  BY Zenon, <1>1, LoadedIs

\* They leave the packets of every slot as they were.
LEMMA KeptSame ==
    ASSUME \A u \in Threads : pc'[u] = "fill" <=> pc[u] = "fill",
           \A u \in Threads : pc[u] = "fill" => call'[u] = call[u], job' = job
    PROVE  \A s : Kept(s)' = Kept(s)
<1>1. \A s : Loaded(s)' <=> Loaded(s)
  BY Zenon, LoadedSame
<1> QED
  BY Zenon, <1>1 DEF Kept
-----------------------------------------------------------------------------
(* The steps, and the packets. *)

\* Steps that leave the table of a call, and what was sent of it, alone.
LEMMA TableKeep ==
    ASSUME NEW u \in Threads, TableOK(u),
           call'[u].tbl = call[u].tbl, call'[u].len = call[u].len,
           call'[u].sent = call[u].sent, call'[u].count = call[u].count,
           owned'[u] = owned[u], caller' = caller,
           pc'[u] # "idle" => pc[u] # "idle",
           \/ pc'[u] = "commit" <=> pc[u] = "commit"
           \/ pc[u] = "commit" /\ call[u].len # 0
    PROVE  TableOK(u)'
<1>1. SendTable(u) => SendTable(u)'
  BY Zenon DEF SendTable, NoTwice
<1> QED
  BY Zenon, <1>1 DEF TableOK

\* The call of a thread that does not step.
LEMMA TableFrame ==
    ASSUME NEW u \in Threads, TableOK(u), call'[u] = call[u], pc'[u] = pc[u],
           owned'[u] = owned[u], caller' = caller
    PROVE  TableOK(u)'
<1>1. /\ call'[u].tbl = call[u].tbl /\ call'[u].len = call[u].len
      /\ call'[u].sent = call[u].sent /\ call'[u].count = call[u].count
      /\ pc'[u] # "idle" => pc[u] # "idle"
      /\ pc'[u] = "commit" <=> pc[u] = "commit"
  BY Zenon
<1> QED
  BY Zenon, <1>1, TableKeep

\* No slot becomes unused by a step that takes no positions.
LEMMA UnusedSame ==
    ASSUME head' = head,
           \A u \in Threads : pc'[u] \in {"wait", "fill"} =>
              pc[u] \in {"wait", "fill"} /\ call'[u] = call[u]
    PROVE  \A s : Unused(s)' => Unused(s)
<1>1. \A u \in Threads : pc'[u] \in {"wait", "fill"} => Pending(u)' = Pending(u)
  BY Zenon DEF Pending
<1> QED
  BY Zenon, <1>1 DEF Unused

\* A step of a thread that neither moves packets nor begins or ends filling slots.
LEMMA TxFrame ==
    ASSUME PktInv, NEW t \in Threads, UNCHANGED <<job, pool, owned, caller>>,
           pc[t] # "fill", pc'[t] # "fill",
           \A u \in Threads : u # t => pc'[u] = pc[u] /\ call'[u] = call[u],
           TableOK(t)', \A s \in Slots : Unused(s)' => Unused(s)
    PROVE  PktInv'
<1>1. PktTypes'
  BY Zenon DEF PktInv, PktTypes
<1>2. PlaceInv'
  <2>1. /\ \A u \in Threads : pc'[u] = "fill" <=> pc[u] = "fill"
        /\ \A u \in Threads : pc[u] = "fill" => call'[u] = call[u]
    BY Zenon
  <2>2. \A s \in Slots : Kept(s)' = Kept(s)
    BY Zenon, <2>1, KeptSame
  <2>3. PlaceInv /\ pool' = pool /\ \A u \in Threads : owned'[u] = owned[u]
    BY Zenon DEF PktInv
  <2> QED
    BY Zenon, <2>2, <2>3, SamePlaces
<1>3. ASSUME NEW u \in Threads PROVE TableOK(u)'
  <2>1. CASE u # t
    BY Zenon, <2>1, TableFrame DEF PktInv
  <2> QED
    BY Zenon, <2>1
<1>4. \A s \in Slots : Unused(s)' => job'[s].pkts = {}
  BY Zenon DEF PktInv
<1> QED
  BY Zenon, <1>1, <1>2, <1>3, <1>4 DEF PktInv

\* The micro-core executes a job, or nothing happens.
LEMMA TxStill ==
    ASSUME PktInv, UNCHANGED <<head, job, pool, owned, caller, pc, call>>
    PROVE  PktInv'
<1>1. PktTypes'
  BY Zenon DEF PktInv, PktTypes
<1>2. PlaceInv'
  <2>2. \A s \in Slots : Kept(s)' = Kept(s)
    BY Zenon, KeptSame
  <2>3. PlaceInv /\ pool' = pool /\ \A u \in Threads : owned'[u] = owned[u]
    BY Zenon DEF PktInv
  <2> QED
    BY Zenon, <2>2, <2>3, SamePlaces
<1>3. ASSUME NEW u \in Threads PROVE TableOK(u)'
  BY Zenon, TableFrame DEF PktInv
<1>4. \A s \in Slots : Unused(s)' => job'[s].pkts = {}
  BY Zenon, UnusedSame DEF PktInv
<1> QED
  BY Zenon, <1>1, <1>2, <1>3, <1>4 DEF PktInv

\* The application allocates a packet.
LEMMA AppAllocStep ==
    ASSUME IInv, PktInv, NEW t \in Threads, NEW q \in Pkts, AppAlloc(t, q)
    PROVE  PktInv'
<1>1. /\ pc[t] = "idle" /\ q \in pool /\ pool' = pool \ {q}
      /\ owned' = [owned EXCEPT ![t] = @ \cup {q}]
      /\ UNCHANGED <<head, ev_counter, committed, job, caller, wlock, pc, call>>
  BY Zenon DEF AppAlloc, ctxVars
<1>2. owned \in [Threads -> SUBSET Pkts] /\ pool \in SUBSET Pkts
  BY Zenon DEF PktInv, PktTypes
<1>3. owned'[t] = owned[t] \cup {q} /\ \A u \in Threads : u # t => owned'[u] = owned[u]
  BY Zenon, <1>1, <1>2
<1>4. PktTypes'
  <2>1. owned' \in [Threads -> SUBSET Pkts] /\ pool' \in SUBSET Pkts
    BY <1>1, <1>2
  <2> QED
    BY Zenon, <1>1, <2>1 DEF PktInv, PktTypes
<1>5. PlaceInv'
  <2>1. \A s : Kept(s)' = Kept(s)
    BY Zenon, <1>1, KeptSame
  <2>2. /\ Holds(AtPool)' = Holds(AtPool) \ {q} /\ q \in Holds(AtPool)
        /\ Holds(AtApp(t))' = Holds(AtApp(t)) \cup {q}
    BY Zenon, <1>1, <1>3, HoldsIs
  <2>3. ASSUME NEW x \in TxPlaces, x # AtPool, x # AtApp(t) PROVE Holds(x)' = Holds(x)
    <3>1. ASSUME NEW u \in Threads, x = AtApp(u) PROVE Holds(x)' = Holds(x)
      <4>1. owned'[u] = owned[u]
        BY Zenon, <1>3, <2>3, <3>1
      <4> QED
        BY Zenon, <3>1, <4>1, HoldsIs
    <3>2. ASSUME NEW s \in Slots, x = AtSlot(s) PROVE Holds(x)' = Holds(x)
      BY Zenon, <2>1, <3>2, HoldsIs
    <3> QED
      BY Zenon, <2>3, <3>1, <3>2, PlaceFacts
  <2>4. AtApp(t) \in TxPlaces /\ AtPool \in TxPlaces /\ AtPool # AtApp(t) /\ PlaceInv
    BY Zenon, PlaceFacts DEF PktInv
  <2>5. \A p \in {q} : p \in Holds(AtPool)
    BY Zenon, <2>2
  <2>6. PICK A : /\ \A p \in A : p \in Holds(AtPool)
                 /\ Holds(AtPool)' = Holds(AtPool) \ A
                 /\ Holds(AtApp(t))' = Holds(AtApp(t)) \cup A
    BY Zenon, <2>2, <2>5
  <2>7. \A x \in TxPlaces : x # AtApp(t) /\ x # AtPool => Holds(x)' = Holds(x)
    BY Zenon, <2>3
  <2> QED
    BY Zenon, <2>4, <2>6, <2>7, MoveSet
<1>6. ASSUME NEW u \in Threads PROVE TableOK(u)'
  <2>1. CASE u # t
    BY Zenon, <1>1, <1>3, <2>1, TableFrame DEF PktInv
  <2>2. CASE u = t
    BY Zenon, <1>1, <2>2 DEF PktInv, TableOK
  <2> QED
    BY Zenon, <2>1, <2>2
<1>7. \A s \in Slots : Unused(s)' => job'[s].pkts = {}
  BY Zenon, <1>1, UnusedSame DEF PktInv
<1> QED
  BY Zenon, <1>4, <1>5, <1>6, <1>7 DEF PktInv

\* The table of a send: packets of the thread, none twice.
LEMMA TableFacts ==
    ASSUME PktTypes, NEW t \in Threads, NEW tbl \in Tables(t)
    PROVE  tbl \in Seq(Pkts) /\ NoTwice(tbl) /\ \A k \in DOMAIN tbl : tbl[k] \in owned[t]
<1>1. owned[t] \in SUBSET Pkts
  BY Zenon DEF PktTypes
<1>2. PICK n \in 1 .. MaxBurst : tbl \in Injection(1 .. n, owned[t])
  BY Zenon DEF Tables
<1>3. n \in Nat
  BY TxUcAssumption
<1>4. /\ tbl \in [1 .. n -> owned[t]]
      /\ \A i, j \in DOMAIN tbl : tbl[i] = tbl[j] => i = j
  BY Zenon, <1>2 DEF Injection, IsInjective
<1>5. NoTwice(tbl) /\ \A k \in DOMAIN tbl : tbl[k] \in owned[t]
  BY Zenon, <1>4 DEF NoTwice
<1>6. tbl \in Seq(Pkts)
  BY <1>1, <1>3, <1>4
<1> QED
  BY Zenon, <1>5, <1>6

\* A send begins; pcie_send never has more packets than one job takes.
LEMMA SendPkts ==
    ASSUME IInv, PktInv, MaxPcieBurst <= MaxPkt,
           NEW t \in Threads, NEW tbl \in Tables(t), Send(t, tbl)
    PROVE  PktInv'
<1>1. /\ pc[t] = "idle" /\ tbl # <<>>
      /\ caller = "pcie_send" => Len(tbl) <= MaxPcieBurst
      /\ pc' = [pc EXCEPT ![t] = "alloc"]
      /\ call' = [call EXCEPT ![t] = [NoCall EXCEPT !.tbl = tbl, !.len = Len(tbl), !.count = 1]]
      /\ UNCHANGED <<head, job, caller, pool, owned>>
  BY Zenon DEF Send, ctxVars
<1>2. /\ pc \in [Threads -> {"idle", "alloc", "wait", "fill", "commit"}]
      /\ call = [u \in Threads |-> call[u]]
  BY Zenon DEF IInv, CallInv
<1>3. /\ pc'[t] = "alloc"
      /\ \A u \in Threads : u # t => pc'[u] = pc[u] /\ call'[u] = call[u]
      /\ call'[t] = [NoCall EXCEPT !.tbl = tbl, !.len = Len(tbl), !.count = 1]
  BY Zenon, <1>1, <1>2
<1>4. call'[t].tbl = tbl /\ call'[t].len = Len(tbl) /\ call'[t].sent = 0 /\ call'[t].count = 1
  BY <1>3 DEF NoCall
<1>5. tbl \in Seq(Pkts) /\ NoTwice(tbl) /\ \A k \in DOMAIN tbl : tbl[k] \in owned[t]
  BY Zenon, TableFacts DEF PktInv
<1>6. /\ 0 \in Nat /\ Len(tbl) \in Nat /\ Len(tbl) # 0 /\ 0 + Len(tbl) = Len(tbl) /\ 0 <= Len(tbl)
      /\ (Len(tbl) <= MaxPcieBurst => Len(tbl) <= MaxPkt)
      /\ \A k \in DOMAIN tbl : k > 0
  BY <1>1, <1>5, TxUcAssumption
<1>7. SendTable(t)'
  BY Zenon, <1>1, <1>3, <1>4, <1>5, <1>6 DEF SendTable
<1>8. TableOK(t)'
  BY Zenon, <1>1, <1>4, <1>5, <1>6, <1>7 DEF TableOK
<1>9. \A s : Unused(s)' => Unused(s)
  BY Zenon, <1>1, <1>3, UnusedSame
<1> QED
  BY Zenon, <1>1, <1>3, <1>8, <1>9, TxFrame

\* A flush begins.
LEMMA FlushPkts ==
    ASSUME IInv, PktInv, NEW t \in Threads, Flush(t)
    PROVE  PktInv'
<1>1. /\ pc[t] = "idle"
      /\ pc' = [pc EXCEPT ![t] = "alloc"]
      /\ call' = [call EXCEPT ![t] = [NoCall EXCEPT !.count = MAX_JOB_PER_UC]]
      /\ UNCHANGED <<head, job, caller, pool, owned>>
  BY Zenon DEF Flush, ctxVars
<1>2. /\ pc \in [Threads -> {"idle", "alloc", "wait", "fill", "commit"}]
      /\ call = [u \in Threads |-> call[u]]
  BY Zenon DEF IInv, CallInv
<1>3. /\ pc'[t] = "alloc"
      /\ \A u \in Threads : u # t => pc'[u] = pc[u] /\ call'[u] = call[u]
      /\ call'[t] = [NoCall EXCEPT !.count = MAX_JOB_PER_UC]
  BY Zenon, <1>1, <1>2
<1>4. /\ call'[t].tbl = <<>> /\ call'[t].len = 0 /\ call'[t].sent = 0
      /\ call'[t].count = MAX_JOB_PER_UC
  BY <1>3 DEF NoCall
<1>5. <<>> \in Seq(Pkts) /\ 0 \in Nat
  OBVIOUS
<1>8. TableOK(t)'
  BY Zenon, <1>4, <1>5 DEF TableOK
<1>9. \A s : Unused(s)' => Unused(s)
  BY Zenon, <1>1, <1>3, UnusedSame
<1> QED
  BY Zenon, <1>1, <1>3, <1>8, <1>9, TxFrame

\* The positions are taken.
LEMMA AllocPkts ==
    ASSUME IInv, PktInv, NEW t \in Threads, Alloc(t)
    PROVE  PktInv'
<1>1. /\ pc[t] = "alloc" /\ head' = head + call[t].count
      /\ pc' = [pc EXCEPT ![t] = "wait"]
      /\ call' = [call EXCEPT ![t].pos = head, ![t].done = 0]
      /\ UNCHANGED <<job, caller, pool, owned>>
  BY Zenon DEF Alloc
<1>2. /\ pc \in [Threads -> {"idle", "alloc", "wait", "fill", "commit"}]
      /\ call = [u \in Threads |-> call[u]] /\ IsCall(call[t]) /\ head \in Nat
  BY Zenon DEF IInv, CallInv
<1>3. /\ pc'[t] = "wait"
      /\ \A u \in Threads : u # t => pc'[u] = pc[u] /\ call'[u] = call[u]
  BY Zenon, <1>1, <1>2
<1>4. /\ call'[t].tbl = call[t].tbl /\ call'[t].len = call[t].len
      /\ call'[t].sent = call[t].sent /\ call'[t].count = call[t].count
      /\ call'[t].pos = head /\ call'[t].done = 0
  BY Zenon, <1>1, <1>2 DEF IsCall
<1>5. TableOK(t)'
  <2>1. TableOK(t) /\ owned'[t] = owned[t]
    BY Zenon, <1>1 DEF PktInv
  <2>2. /\ pc'[t] # "idle" => pc[t] # "idle"
        /\ pc'[t] = "commit" <=> pc[t] = "commit"
    BY Zenon, <1>1, <1>3
  <2> QED
    BY Zenon, <1>1, <1>4, <2>1, <2>2, TableKeep
<1>6. ASSUME NEW s \in Slots, Unused(s)' PROVE Unused(s)
  <2>1. CASE s >= head'
    <3>1. call[t].count \in Nat /\ s \in Int
      BY <1>2, TxUcAssumption DEF IsCall, Slots
    <3>2. s >= head
      BY <2>1, <3>1, <1>1, <1>2
    <3> QED
      BY Zenon, <3>2 DEF Unused
  <2>2. ASSUME NEW u \in Threads, s \in Pending(u)', pc'[u] \in {"wait", "fill"} PROVE Unused(s)
    <3>1. CASE u = t
      <4>1. s \in head + 0 .. head + call[t].count - 1
        BY Zenon, <2>2, <3>1, <1>3, <1>4 DEF Pending
      <4>2. s >= head
        BY <4>1, <1>2 DEF IsCall
      <4> QED
        BY Zenon, <4>2 DEF Unused
    <3>2. CASE u # t
      <4>1. Pending(u)' = Pending(u) /\ pc'[u] = pc[u]
        BY Zenon, <3>2, <1>3 DEF Pending
      <4> QED
        BY Zenon, <2>2, <4>1 DEF Unused
    <3> QED
      BY Zenon, <3>1, <3>2
  <2> QED
    BY Zenon, <1>6, <2>1, <2>2 DEF Unused
<1> QED
  BY Zenon, <1>1, <1>3, <1>5, <1>6, TxFrame

\* The slots are the thread's: the packets of their former jobs go to the pool.
LEMMA WaitPkts ==
    ASSUME IInv, PktInv, NEW t \in Threads, Wait(t)
    PROVE  PktInv'
<1>1. /\ pc[t] = "wait" /\ MaySlot(t) /\ pool' = pool \cup Freed(t)
      /\ pc' = [pc EXCEPT ![t] = "fill"]
      /\ UNCHANGED <<head, job, caller, owned, call>>
  BY Zenon DEF Wait, ctxVars
<1>2. pc \in [Threads -> {"idle", "alloc", "wait", "fill", "commit"}]
  BY Zenon DEF IInv, CallInv
<1>3. pc'[t] = "fill" /\ \A u \in Threads : u # t => pc'[u] = pc[u]
  BY Zenon, <1>1, <1>2
<1>4. Pending(t) = Positions(t) /\ Positions(t) \subseteq Nat /\ SlotsOf(t) \subseteq Slots
  BY Zenon, <1>1, CallFacts
<1>5. \A u : SlotsOf(u)' = SlotsOf(u)
  BY Zenon, <1>1 DEF SlotsOf, Positions
<1>6. ASSUME NEW s \in SlotsOf(t) PROVE Loaded(s) /\ ~Loaded(s)'
  <2>1. ASSUME NEW u \in Threads, pc[u] = "fill" PROVE s \notin SlotsOf(u)
    <3>1. u # t
      BY Zenon, <1>1, <2>1
    <3> QED
      BY Zenon, <1>1, <2>1, <3>1, SlotsApart
  <2> QED
    BY Zenon, <1>3, <1>5, <2>1, LoadedIs
<1>7. ASSUME NEW s, s \notin SlotsOf(t) PROVE Loaded(s)' <=> Loaded(s)
  <2>1. \A u \in Threads : u # t => (pc'[u] = "fill" <=> pc[u] = "fill")
    BY Zenon, <1>3
  <2> QED
    BY Zenon, <1>5, <1>7, <2>1, LoadedIs
<1>8. /\ \A s \in SlotsOf(t) : Kept(s) = (IF job[s].nofree THEN {} ELSE job[s].pkts)
      /\ \A s \in SlotsOf(t) : Kept(s)' = {}
      /\ \A s : s \notin SlotsOf(t) => Kept(s)' = Kept(s)
  BY Zenon, <1>1, <1>6, <1>7 DEF Kept
<1>9. ASSUME NEW q \in Positions(t), ~(q >= MAX_JOB_PER_UC) PROVE job[Slot(q)].pkts = {}
  <2>1. q \in Nat /\ MAX_JOB_PER_UC \in Nat
    BY Zenon, <1>4, TxUcAssumption
  <2>2. q < MAX_JOB_PER_UC
    BY <1>9, <2>1
  <2>3. Slot(q) = q /\ Slot(q) \in Slots
    BY Zenon, <2>1, <2>2, SlotRange
  <2>4. Unused(q)
    BY Zenon, <1>1, <1>4 DEF Unused
  <2> QED
    BY Zenon, <2>3, <2>4 DEF PktInv
<1>10. ASSUME NEW p PROVE p \in Freed(t) <=> \E s \in SlotsOf(t) : p \in Kept(s)
  <2>1. ASSUME p \in Freed(t) PROVE \E s \in SlotsOf(t) : p \in Kept(s)
    <3>1. PICK q \in Positions(t) : p \in IF job[Slot(q)].nofree THEN {} ELSE job[Slot(q)].pkts
      BY Zenon, <2>1 DEF Freed
    <3>2. Slot(q) \in SlotsOf(t)
      BY Zenon DEF SlotsOf
    <3> QED
      BY Zenon, <1>8, <3>1, <3>2
  <2>2. ASSUME NEW s \in SlotsOf(t), p \in Kept(s) PROVE p \in Freed(t)
    <3>1. PICK q \in Positions(t) : s = Slot(q)
      BY Zenon DEF SlotsOf
    <3>2. p \in IF job[Slot(q)].nofree THEN {} ELSE job[Slot(q)].pkts
      BY Zenon, <1>8, <2>2, <3>1
    <3>3. q >= MAX_JOB_PER_UC
      BY Zenon, <1>9, <3>2
    <3> QED
      BY Zenon, <3>2, <3>3 DEF Freed
  <2> QED
    BY Zenon, <2>1, <2>2
<1>11. PlaceInv'
  <2>1. ASSUME NEW u \in Threads PROVE Holds(AtApp(u))' = Holds(AtApp(u))
    BY Zenon, <1>1, HoldsIs
  <2>2. ASSUME NEW s \in Slots, s \notin SlotsOf(t) PROVE Holds(AtSlot(s))' = Holds(AtSlot(s))
    BY Zenon, <1>8, <2>2, HoldsIs
  <2>3. ASSUME NEW s \in SlotsOf(t) PROVE Holds(AtSlot(s))' = {} /\ Holds(AtSlot(s)) = Kept(s)
    BY Zenon, <1>4, <1>8, HoldsIs
  <2>4. ASSUME NEW x \in TxPlaces, x # AtPool
        PROVE  \/ Holds(x)' = Holds(x)
               \/ \E s \in SlotsOf(t) : x = AtSlot(s) /\ Holds(x)' = {} /\ Holds(x) = Kept(s)
    <3>1. \/ \E u \in Threads : x = AtApp(u)
          \/ \E s \in Slots : x = AtSlot(s)
      BY Zenon, <2>4, PlaceFacts
    <3> QED
      BY Zenon, <2>1, <2>2, <2>3, <3>1
  <2>5. \A x \in TxPlaces : x # AtPool => Holds(x)' \subseteq Holds(x)
    BY Zenon, <2>4
  <2>6. Holds(AtPool) = pool /\ Holds(AtPool)' = pool \cup Freed(t)
    BY Zenon, <1>1, HoldsIs
  <2>7. ASSUME NEW p, p \in Holds(AtPool)', p \notin Holds(AtPool)
        PROVE  \E x \in TxPlaces : x # AtPool /\ p \in Holds(x) /\ p \notin Holds(x)'
    <3>1. PICK s \in SlotsOf(t) : p \in Kept(s)
      BY Zenon, <1>10, <2>6, <2>7
    <3>2. AtSlot(s) \in TxPlaces /\ AtSlot(s) # AtPool
      BY Zenon, <1>4, PlaceFacts
    <3> QED
      BY Zenon, <2>3, <3>1, <3>2
  <2>8. ASSUME NEW p, NEW x \in TxPlaces, x # AtPool, p \in Holds(x), p \notin Holds(x)'
        PROVE  p \in Holds(AtPool)'
    <3>1. PICK s \in SlotsOf(t) : p \in Kept(s)
      BY Zenon, <2>4, <2>8
    <3> QED
      BY Zenon, <1>10, <2>6, <3>1
  <2>9. \A p : p \in Holds(AtPool)' <=>
                 \/ p \in Holds(AtPool)
                 \/ \E x \in TxPlaces : x # AtPool /\ p \in Holds(x) /\ p \notin Holds(x)'
    BY Zenon, <2>6, <2>7, <2>8
  <2>10. AtPool \in TxPlaces /\ PlaceInv
    BY Zenon, PlaceFacts DEF PktInv
  <2> QED
    BY Zenon, <2>5, <2>9, <2>10, MoveStep
<1>12. PktTypes'
  <2>1. \A s \in Slots : Kept(s) \subseteq Pkts
    BY DEF PktInv, PktTypes, Kept
  <2>2. Freed(t) \subseteq Pkts
    BY Zenon, <1>4, <1>10, <2>1
  <2> QED
    BY Zenon, <1>1, <2>2 DEF PktInv, PktTypes
<1>13. ASSUME NEW u \in Threads PROVE TableOK(u)'
  <2>1. TableOK(u) /\ owned'[u] = owned[u] /\ call'[u] = call[u]
    BY Zenon, <1>1 DEF PktInv
  <2>2. CASE u # t
    BY Zenon, <1>1, <1>3, <2>1, <2>2, TableFrame
  <2>3. CASE u = t
    <3>1. /\ pc'[u] # "idle" => pc[u] # "idle"
          /\ pc'[u] = "commit" <=> pc[u] = "commit"
      BY Zenon, <1>1, <1>3, <2>3
    <3>2. /\ call'[u].tbl = call[u].tbl /\ call'[u].len = call[u].len
          /\ call'[u].sent = call[u].sent /\ call'[u].count = call[u].count
      BY Zenon, <2>1
    <3> QED
      BY Zenon, <1>1, <2>1, <3>1, <3>2, TableKeep
  <2> QED
    BY Zenon, <2>2, <2>3
<1>14. \A s \in Slots : Unused(s)' => job'[s].pkts = {}
  BY Zenon, <1>1, <1>3, UnusedSame DEF PktInv
<1> QED
  BY Zenon, <1>11, <1>12, <1>13, <1>14 DEF PktInv

\* A flush empties all the slots, whose packets it has freed.
LEMMA FlushClearPkts ==
    ASSUME IInv, PktInv, NEW t \in Threads, FlushClear(t)
    PROVE  PktInv'
<1>1. /\ pc[t] = "fill" /\ call[t].tbl = <<>>
      /\ job' = [s \in Slots |-> [pkts |-> {}, nofree |-> TRUE]]
      /\ pc' = [pc EXCEPT ![t] = "commit"]
      /\ UNCHANGED <<pool, owned, call, caller>>
  BY Zenon DEF FlushClear
<1>2. pc \in [Threads -> {"idle", "alloc", "wait", "fill", "commit"}]
  BY Zenon DEF IInv, CallInv
<1>3. pc'[t] = "commit" /\ \A u \in Threads : u # t => pc'[u] = pc[u]
  BY Zenon, <1>1, <1>2
<1>4. TableOK(t) /\ call[t].count = MAX_JOB_PER_UC
  BY Zenon, <1>1 DEF PktInv, TableOK
<1>5. \A s \in Slots : job'[s].pkts = {} /\ job'[s].nofree = TRUE
  BY <1>1
<1>6. ASSUME NEW s \in Slots PROVE Kept(s)' = Kept(s)
  <2>1. call[t].pos \in Nat
    BY Zenon, CallFacts
  <2>2. PICK q \in call[t].pos .. call[t].pos + MAX_JOB_PER_UC - 1 : Slot(q) = s
    BY Zenon, <2>1, SlotAll
  <2>3. s \in SlotsOf(t)
    BY Zenon, <1>4, <2>2 DEF SlotsOf, Positions
  <2>4. ~Loaded(s)
    BY Zenon, <1>1, <2>3, LoadedIs
  <2> QED
    BY Zenon, <1>5, <2>4 DEF Kept
<1>7. PlaceInv'
  <2>1. PlaceInv /\ pool' = pool /\ \A u \in Threads : owned'[u] = owned[u]
    BY Zenon, <1>1 DEF PktInv
  <2> QED
    BY Zenon, <1>6, <2>1, SamePlaces
<1>8. PktTypes'
  <2>1. job' \in [Slots -> [pkts : SUBSET Pkts, nofree : BOOLEAN]]
    BY <1>1
  <2> QED
    BY Zenon, <1>1, <2>1 DEF PktInv, PktTypes
<1>9. ASSUME NEW u \in Threads PROVE TableOK(u)'
  <2>1. CASE u # t
    <3>1. TableOK(u) /\ owned'[u] = owned[u] /\ call'[u] = call[u]
      BY Zenon, <1>1 DEF PktInv
    <3> QED
      BY Zenon, <1>1, <1>3, <2>1, <3>1, TableFrame
  <2>2. CASE u = t
    BY Zenon, <1>1, <1>4, <2>2 DEF TableOK
  <2> QED
    BY Zenon, <2>1, <2>2
<1> QED
  BY Zenon, <1>5, <1>7, <1>8, <1>9 DEF PktInv

\* A slot is committed, and the call goes on or ends: what it reports as sent was no
\* longer the thread's.
LEMMA CommitPkts ==
    ASSUME IInv, PktInv, NEW t \in Threads, Commit(t)
    PROVE  PktInv'
<1>1. pc[t] = "commit" /\ UNCHANGED <<head, job, pool, caller>>
  BY Zenon DEF Commit
<1>2. /\ pc \in [Threads -> {"idle", "alloc", "wait", "fill", "commit"}]
      /\ call = [u \in Threads |-> call[u]] /\ IsCall(call[t])
  BY Zenon DEF IInv, CallInv
<1>3. TableOK(t) /\ owned \in [Threads -> SUBSET Pkts]
  BY Zenon DEF PktInv, PktTypes
<1> DEFINE last == call[t].done + 1 = call[t].count
<1>4. CASE last /\ call[t].len = 0
  <2> DEFINE R == Range(SubSeq(call[t].tbl, 1, call[t].sent))
  <2>1. /\ pc' = [pc EXCEPT ![t] = "idle"] /\ call' = [call EXCEPT ![t] = NoCall]
        /\ owned' = IF t \in Keepers THEN owned ELSE [owned EXCEPT ![t] = @ \ R]
    BY Zenon, <1>4 DEF Commit
  <2>2. /\ pc'[t] = "idle" /\ call'[t] = NoCall
        /\ \A u \in Threads : u # t => pc'[u] = pc[u] /\ call'[u] = call[u]
    BY Zenon, <1>2, <2>1
  <2>3. ASSUME t \notin Keepers, NEW p \in R PROVE p \notin owned[t]
    <3>1. call[t].tbl \in Seq(Pkts) /\ call[t].sent \in Nat
      BY Zenon, <1>3 DEF TableOK
    <3>2. CASE call[t].tbl = <<>>
      <4>1. call[t].sent = 0
        BY Zenon, <1>1, <1>3, <3>2 DEF TableOK
      <4> QED
        BY <2>3, <3>2, <4>1 DEF Range
    <3>3. CASE call[t].tbl # <<>>
      <4>1. SendTable(t)
        BY Zenon, <1>1, <1>3, <3>3 DEF TableOK
      <4>2. /\ call[t].sent <= Len(call[t].tbl)
            /\ \A k \in DOMAIN call[t].tbl : call[t].tbl[k] \in owned[t] <=> k > call[t].sent
        BY Zenon, <2>3, <4>1 DEF SendTable
      <4>3. \E k \in DOMAIN call[t].tbl : k <= call[t].sent /\ p = call[t].tbl[k]
        BY <2>3, <3>1, <4>2 DEF Range
      <4> QED
        BY <3>1, <4>2, <4>3
    <3> QED
      BY Zenon, <3>2, <3>3
  <2> HIDE DEF R
  <2>4. owned' = owned
    <3>1. CASE t \in Keepers
      BY Zenon, <2>1, <3>1
    <3>2. CASE t \notin Keepers
      <4>1. owned[t] \ R = owned[t]
        BY Zenon, <2>3, <3>2
      <4> QED
        BY Zenon, <1>3, <2>1, <3>2, <4>1
    <3> QED
      BY Zenon, <3>1, <3>2
  <2>5. call'[t].tbl = <<>> /\ call'[t].len = 0 /\ call'[t].sent = 0
    BY <2>2 DEF NoCall
  <2>6. <<>> \in Seq(Pkts) /\ 0 \in Nat
    OBVIOUS
  <2>7. TableOK(t)'
    BY Zenon, <2>2, <2>5, <2>6 DEF TableOK
  <2>8. \A s : Unused(s)' => Unused(s)
    BY Zenon, <1>1, <2>2, UnusedSame
  <2> QED
    BY Zenon, <1>1, <2>2, <2>4, <2>7, <2>8, TxFrame
<1>5. CASE ~(last /\ call[t].len = 0)
  <2>1. /\ pc' = [pc EXCEPT ![t] = IF last THEN "alloc" ELSE "commit"]
        /\ call' = [call EXCEPT ![t].done = @ + 1]
        /\ owned' = owned
    BY Zenon, <1>5 DEF Commit
  <2>2. /\ pc'[t] = IF last THEN "alloc" ELSE "commit"
        /\ \A u \in Threads : u # t => pc'[u] = pc[u] /\ call'[u] = call[u]
    BY Zenon, <1>2, <2>1
  <2>3. /\ call'[t].tbl = call[t].tbl /\ call'[t].len = call[t].len
        /\ call'[t].sent = call[t].sent /\ call'[t].count = call[t].count
    BY Zenon, <1>2, <2>1 DEF IsCall
  <2>4. /\ pc[t] # "idle" /\ owned'[t] = owned[t]
        /\ \/ pc'[t] = "commit" <=> pc[t] = "commit"
           \/ pc[t] = "commit" /\ call[t].len # 0
    BY Zenon, <1>1, <1>5, <2>1, <2>2
  <2>5. TableOK(t)'
    BY Zenon, <1>1, <1>3, <2>3, <2>4, TableKeep
  <2>6. \A s : Unused(s)' => Unused(s)
    BY Zenon, <1>1, <2>2, UnusedSame
  <2>7. pc[t] # "fill" /\ pc'[t] # "fill"
    BY Zenon, <1>1, <2>2
  <2> QED
    BY Zenon, <1>1, <2>1, <2>2, <2>5, <2>6, <2>7, TxFrame
<1> QED
  BY Zenon, <1>4, <1>5

\* A part of a sequence.
LEMMA TxSubSeq ==
    ASSUME NEW S, NEW s \in Seq(S), NEW a \in Nat, NEW n \in Nat, a + n <= Len(s)
    PROVE  /\ SubSeq(s, a + 1, a + n) \in Seq(S) /\ Len(SubSeq(s, a + 1, a + n)) = n
           /\ \A i \in 1 .. n : SubSeq(s, a + 1, a + n)[i] = s[a + i]
<1>1. SubSeq(s, a + 1, a + n) \in Seq(S)
  BY SMTT(20)
<1>2. Len(SubSeq(s, a + 1, a + n)) = n
  BY SMTT(20)
<1>3. ASSUME NEW i \in 1 .. n PROVE SubSeq(s, a + 1, a + n)[i] = s[a + i]
  BY SMTT(20)
<1> QED
  BY Zenon, <1>1, <1>2, <1>3

\* How many packets a job takes, which they are, and how many remain.
Taken(t) == Fitting(Part(t))
JobPkts(t) == Range(SubSeq(Part(t), 1, Taken(t)))
Remaining(t) == IF Taken(t) = Len(Part(t)) \/ (caller = "pcie_send" /\ Taken(t) > 0)
                THEN call[t].len - Len(Part(t)) ELSE 0

\* A job takes the next packets of the table, up to one that is too long.
LEMMA PartFacts ==
    ASSUME IInv, PktInv, NEW t \in Threads, pc[t] = "fill", call[t].tbl # <<>>
    PROVE  /\ Taken(t) \in Nat /\ call[t].sent \in Nat
           /\ call[t].sent + Taken(t) <= Len(call[t].tbl)
           /\ \A p : p \in JobPkts(t) <=>
                  \E j \in DOMAIN call[t].tbl :
                     j > call[t].sent /\ j <= call[t].sent + Taken(t) /\ p = call[t].tbl[j]
           /\ Remaining(t) \in Nat
           /\ Remaining(t) # 0 => call[t].sent + Taken(t) + Remaining(t) = Len(call[t].tbl)
           /\ caller = "pcie_send" => Remaining(t) = 0
<1> DEFINE tbl == call[t].tbl
           sent == call[t].sent
           n == Fewer(MaxPkt, call[t].len)
           k == Taken(t)
<1>1. TableOK(t)
  BY Zenon DEF PktInv
<1>2. SendTable(t) /\ tbl \in Seq(Pkts) /\ sent \in Nat /\ call[t].len \in Nat
  BY Zenon, <1>1 DEF TableOK
<1>3. /\ call[t].len # 0
      /\ sent + call[t].len = Len(tbl)
      /\ caller = "pcie_send" => Len(tbl) <= MaxPkt /\ sent = 0
  BY Zenon, <1>2 DEF SendTable
<1>4. /\ n \in Nat /\ n # 0 /\ n <= call[t].len
      /\ caller = "pcie_send" => n = call[t].len
  BY <1>2, <1>3, TxUcAssumption DEF Fewer
<1>5. Part(t) = SubSeq(tbl, sent + 1, sent + n)
  BY Zenon, <1>3 DEF Part
<1> HIDE DEF tbl, sent, n, k
<1>6. /\ Part(t) \in Seq(Pkts) /\ Len(Part(t)) = n
      /\ \A i \in 1 .. n : Part(t)[i] = tbl[sent + i]
  <2>1. sent + n <= Len(tbl)
    BY <1>2, <1>3, <1>4
  <2>2. /\ SubSeq(tbl, sent + 1, sent + n) \in Seq(Pkts)
        /\ Len(SubSeq(tbl, sent + 1, sent + n)) = n
        /\ \A i \in 1 .. n : SubSeq(tbl, sent + 1, sent + n)[i] = tbl[sent + i]
    BY SMTT(20), <1>2, <1>4, <2>1, TxSubSeq
  <2> QED
    BY Zenon, <1>5, <2>2
<1>7. k \in 0 .. n
  BY Zenon, <1>6, FittingRange DEF k, Taken
<1>8. k \in Nat /\ k <= n /\ sent + k <= Len(tbl) /\ Len(tbl) \in Nat
  BY <1>2, <1>3, <1>4, <1>7
<1>13. /\ 0 \in Nat /\ call[t].len - n \in Nat
       /\ k = n => sent + k + (call[t].len - n) = Len(tbl)
       /\ n = call[t].len => call[t].len - n = 0
  <2> DEFINE b == call[t].len
  <2>1. b \in Nat /\ n \in Nat /\ n <= b /\ sent \in Nat /\ Len(tbl) = sent + b
    BY Zenon, <1>2, <1>3, <1>4
  <2> HIDE DEF b
  <2>2. b - n \in Nat
    BY <2>1
  <2>3. k = n => sent + k + (b - n) = Len(tbl)
    BY <2>1
  <2>4. n = b => b - n = 0
    BY <2>1
  <2> QED
    BY <2>2, <2>3, <2>4 DEF b
<1>14. /\ Remaining(t) \in Nat
       /\ Remaining(t) # 0 => sent + k + Remaining(t) = Len(tbl)
       /\ caller = "pcie_send" => Remaining(t) = 0
  <2>2. \/ Remaining(t) = 0
        \/ Remaining(t) = call[t].len - n /\ (k = n \/ n = call[t].len)
    BY Zenon, <1>4, <1>6 DEF Remaining, k
  <2>5. CASE Remaining(t) = 0
    BY Zenon, <1>13, <2>5
  <2>6. CASE Remaining(t) = call[t].len - n /\ (k = n \/ n = call[t].len)
    BY Zenon, <1>4, <1>13, <2>6
  <2> QED
    BY Zenon, <2>2, <2>5, <2>6
<1>9. Range(SubSeq(Part(t), 1, k)) = {tbl[sent + i] : i \in 1 .. k}
  <2>1. 0 + k <= Len(Part(t)) /\ 0 \in Nat /\ 0 + 1 = 1 /\ 0 + k = k
    BY <1>4, <1>6, <1>8
  <2>2. /\ Len(SubSeq(Part(t), 1, k)) = k /\ SubSeq(Part(t), 1, k) \in Seq(Pkts)
        /\ \A i \in 1 .. k : SubSeq(Part(t), 1, k)[i] = Part(t)[0 + i]
    BY SMTT(20), <1>6, <1>8, <2>1, TxSubSeq
  <2>3. \A i \in 1 .. k : i \in 1 .. n /\ 0 + i = i
    BY <1>4, <1>8
  <2>4. \A i \in 1 .. k : SubSeq(Part(t), 1, k)[i] = tbl[sent + i]
    BY Zenon, <1>6, <2>2, <2>3
  <2>5. DOMAIN SubSeq(Part(t), 1, k) = 1 .. k
    BY <2>2
  <2>6. Range(SubSeq(Part(t), 1, k)) = {SubSeq(Part(t), 1, k)[i] : i \in 1 .. k}
    BY Zenon, <2>5 DEF Range
  <2>7. \A p : p \in {SubSeq(Part(t), 1, k)[i] : i \in 1 .. k}
                <=> p \in {tbl[sent + i] : i \in 1 .. k}
    <3> HIDE <2>6
    <3> QED
      BY Zenon, <2>4
  <2> QED
    BY Zenon, <2>6, <2>7
<1>10. ASSUME NEW p, p \in {tbl[sent + i] : i \in 1 .. k}
       PROVE  \E j \in DOMAIN tbl : j > sent /\ j <= sent + k /\ p = tbl[j]
  <2>1. PICK i \in 1 .. k : p = tbl[sent + i]
    BY Zenon, <1>10
  <2>2. sent + i \in DOMAIN tbl /\ sent + i > sent /\ sent + i <= sent + k
    BY <1>2, <1>8
  <2> QED
    BY Zenon, <2>1, <2>2
<1>11. ASSUME NEW p, NEW j \in DOMAIN tbl, j > sent, j <= sent + k, p = tbl[j]
       PROVE  p \in {tbl[sent + i] : i \in 1 .. k}
  <2>1. j - sent \in 1 .. k /\ sent + (j - sent) = j
    BY <1>2, <1>8, <1>11
  <2> QED
    BY Zenon, <1>11, <2>1
<1>12. \A p : p \in JobPkts(t) <=>
                  \E j \in DOMAIN tbl : j > sent /\ j <= sent + k /\ p = tbl[j]
  BY Zenon, <1>9, <1>10, <1>11 DEF JobPkts, k
<1> QED
  BY Zenon, <1>2, <1>8, <1>12, <1>14 DEF tbl, sent, k

\* The slot of a position that is being filled is not one that no job has used.
LEMMA FilledUsed ==
    ASSUME IInv, NEW t \in Threads, pc[t] = "fill", NEW p \in Positions(t)
    PROVE  /\ ~(Slot(p) >= head)
           /\ \A u \in Threads \ {t} : Slot(p) \notin Pending(u)
<1>1. Pending(t) = Positions(t) /\ Positions(t) \subseteq Nat
  BY Zenon, CallFacts
<1>2. /\ p \in Nat /\ head \in Nat /\ ev_counter \in Nat
      /\ ev_counter <= p /\ p < head /\ p < ev_counter + MAX_JOB_PER_UC
  BY Zenon, <1>1 DEF IInv, CallInv, WindowInv
<1>3. Slot(p) \in Slots /\ Slot(p) <= p
  BY Zenon, <1>2, SlotRange
<1>4. /\ Slot(p) \in Nat /\ Slot(p) < MAX_JOB_PER_UC /\ ~(Slot(p) >= head)
      /\ Slot(p) < ev_counter + MAX_JOB_PER_UC
  BY <1>2, <1>3, TxUcAssumption DEF Slots
<1>5. Slot(Slot(p)) = Slot(p)
  BY Zenon, <1>4, SlotRange
<1>6. ASSUME NEW u \in Threads, u # t, Slot(p) \in Pending(u) PROVE FALSE
  <2>1. ev_counter <= Slot(p)
    BY Zenon, <1>6 DEF IInv, WindowInv
  <2>2. Slot(p) # p
    BY Zenon, <1>1, <1>6 DEF IInv, ApartInv
  <2>3. Slot(p) < p
    BY <1>2, <1>3, <1>4, <2>2
  <2>4. PICK r \in Nat : /\ r = Slot(p) /\ ev_counter <= r
                         /\ r < ev_counter + MAX_JOB_PER_UC /\ r < p
    BY Zenon, <1>4, <2>1, <2>3
  <2>5. Slot(r) # Slot(p)
    BY Zenon, <1>2, <2>4, TxSlots
  <2> QED
    BY Zenon, <1>5, <2>4, <2>5
<1> QED
  BY Zenon, <1>4, <1>6

\* Whether a thread keeps its packets is a Boolean.
LEMMA TxKeeps ==
    ASSUME NEW t
    PROVE  \E b \in BOOLEAN : b = (t \in Keepers) /\ (b <=> t \in Keepers)
<1>1. CASE t \in Keepers
  <2>1. (t \in Keepers) = TRUE
    BY <1>1
  <2> QED
    BY Zenon, <1>1, <2>1
<1>2. CASE t \notin Keepers
  <2>1. (t \in Keepers) = FALSE
    BY <1>2
  <2> QED
    BY Zenon, <1>2, <2>1
<1> QED
  BY Zenon, <1>1, <1>2

\* The packets of a job go from the thread to its slot.
LEMMA FillPkts ==
    ASSUME IInv, PktInv, NEW t \in Threads, Fill(t)
    PROVE  PktInv'
<1>0. PICK c, k, pkts, len, w :
         c = call[t] /\ k = Taken(t) /\ pkts = JobPkts(t) /\ len = Remaining(t) /\ w = Slot(c.pos)
  BY Zenon
<1>b. PICK b \in BOOLEAN : b = (t \in Keepers) /\ (b <=> t \in Keepers)
  BY Zenon, TxKeeps
<1>1. /\ pc[t] = "fill" /\ c.tbl # <<>>
      /\ job' = [job EXCEPT ![w] = [pkts |-> pkts, nofree |-> b]]
      /\ owned' = IF t \in Keepers THEN owned ELSE [owned EXCEPT ![t] = @ \ pkts]
      /\ call' = [call EXCEPT ![t].sent = c.sent + k, ![t].len = len]
      /\ pc' = [pc EXCEPT ![t] = "commit"]
      /\ UNCHANGED <<head, pool, caller>>
  BY Zenon, <1>0, <1>b DEF Fill, Taken, JobPkts, Remaining
<1>2. /\ pc \in [Threads -> {"idle", "alloc", "wait", "fill", "commit"}]
      /\ call = [u \in Threads |-> call[u]] /\ IsCall(call[t])
  BY Zenon DEF IInv, CallInv
<1>3. /\ PlaceInv /\ pool \in SUBSET Pkts /\ owned \in [Threads -> SUBSET Pkts]
      /\ job \in [Slots -> [pkts : SUBSET Pkts, nofree : BOOLEAN]]
  BY Zenon DEF PktInv, PktTypes
<1>4. /\ k \in Nat /\ c.sent \in Nat /\ c.sent + k <= Len(c.tbl)
      /\ \A p : p \in pkts <=>
             \E j \in DOMAIN c.tbl : j > c.sent /\ j <= c.sent + k /\ p = c.tbl[j]
      /\ len \in Nat /\ (len # 0 => c.sent + k + len = Len(c.tbl))
      /\ caller = "pcie_send" => len = 0
  BY Zenon, <1>0, <1>1, PartFacts
<1>5. /\ TableOK(t) /\ SendTable(t) /\ c.tbl \in Seq(Pkts) /\ c.count = 1
  BY Zenon, <1>0, <1>1 DEF PktInv, TableOK, SendTable
<1>6. /\ pc'[t] = "commit"
      /\ \A u \in Threads : u # t => pc'[u] = pc[u] /\ call'[u] = call[u]
      /\ call'[t].tbl = c.tbl /\ call'[t].len = len
      /\ call'[t].sent = c.sent + k /\ call'[t].count = c.count
  <2>1. /\ pc'[t] = "commit"
        /\ \A u \in Threads : u # t => pc'[u] = pc[u] /\ call'[u] = call[u]
    BY Zenon, <1>1, <1>2
  <2>2. /\ call'[t].tbl = c.tbl /\ call'[t].len = len
        /\ call'[t].sent = c.sent + k /\ call'[t].count = c.count
    BY Zenon, <1>0, <1>1, <1>2 DEF IsCall
  <2> QED
    BY Zenon, <2>1, <2>2
<1>7. Positions(t) = {c.pos} /\ c.pos \in Nat
  <2>1. c.pos \in Nat
    BY Zenon, <1>0, CallFacts
  <2> QED
    BY <1>0, <1>5, <2>1 DEF Positions
<1>8. w \in Slots /\ SlotsOf(t) = {w}
  BY Zenon, <1>0, <1>7, SlotRange DEF SlotsOf
<1>9. pkts \subseteq Pkts
  BY <1>4, <1>5
<1>10. ASSUME t \notin Keepers
       PROVE  /\ \A p \in pkts : p \in owned[t]
              /\ owned'[t] = owned[t] \ pkts
  <2>1. \A j \in DOMAIN c.tbl : c.tbl[j] \in owned[t] <=> j > c.sent
    BY Zenon, <1>0, <1>5, <1>10 DEF SendTable
  <2>2. ASSUME NEW p \in pkts PROVE p \in owned[t]
    <3>1. PICK j \in DOMAIN c.tbl : j > c.sent /\ p = c.tbl[j]
      BY Zenon, <1>4, <2>2
    <3> QED
      BY Zenon, <2>1, <3>1
  <2>3. owned' = [owned EXCEPT ![t] = @ \ pkts]
    BY Zenon, <1>1, <1>10
  <2> QED
    BY Zenon, <1>3, <2>2, <2>3
<1>11. /\ \A u \in Threads : u # t => owned'[u] = owned[u]
       /\ t \in Keepers => owned'[t] = owned[t]
  BY Zenon, <1>1, <1>3
<1>12. /\ job'[w] = [pkts |-> pkts, nofree |-> b]
       /\ \A s \in Slots : s # w => job'[s] = job[s]
  BY Zenon, <1>1, <1>3, <1>8
<1>13. job'[w].pkts = pkts /\ (job'[w].nofree <=> t \in Keepers)
  <2>1. job'[w].pkts = pkts /\ job'[w].nofree = b
    BY <1>12
  <2>2. job'[w].nofree <=> b
    BY <1>b, <2>1
  <2> QED
    BY Zenon, <1>b, <2>1, <2>2
<1>14. PktTypes'
  <2>1. [pkts |-> pkts, nofree |-> b] \in [pkts : SUBSET Pkts, nofree : BOOLEAN]
    BY Zenon, <1>9
  <2>2. job' \in [Slots -> [pkts : SUBSET Pkts, nofree : BOOLEAN]]
    BY Zenon, <1>1, <1>3, <2>1
  <2>3. owned' \in [Threads -> SUBSET Pkts]
    BY <1>1, <1>3
  <2> QED
    BY Zenon, <1>1, <1>3, <2>2, <2>3 DEF PktTypes
<1>15. /\ ~Loaded(w) /\ Loaded(w)'
       /\ \A s : s # w => (Loaded(s)' <=> Loaded(s))
  <2>1. ~Loaded(w)
    BY Zenon, <1>1, <1>8, LoadedIs
  <2>2. ASSUME NEW u \in Threads, pc'[u] = "fill" PROVE w \notin SlotsOf(u)
    <3>1. u # t /\ pc[u] = "fill"
      BY Zenon, <1>6, <2>2
    <3> QED
      BY Zenon, <1>1, <1>8, <3>1, SlotsApart
  <2>3. \A u \in Threads : u # t => SlotsOf(u)' = SlotsOf(u) /\ pc'[u] = pc[u]
    BY Zenon, <1>6 DEF SlotsOf, Positions
  <2>4. Loaded(w)'
    BY Zenon, <1>6, <2>2, <2>3, LoadedIs
  <2>5. ASSUME NEW s, s # w PROVE Loaded(s)' <=> Loaded(s)
    <3>1. s \notin SlotsOf(t)
      BY Zenon, <1>8, <2>5
    <3> QED
      BY Zenon, <1>6, <2>3, <3>1, LoadedIs
  <2> QED
    BY Zenon, <2>1, <2>4, <2>5
<1>16. /\ Kept(w) = {} /\ Kept(w)' = IF t \in Keepers THEN {} ELSE pkts
       /\ \A s \in Slots : s # w => Kept(s)' = Kept(s)
  BY Zenon, <1>12, <1>13, <1>15 DEF Kept
<1>17. PlaceInv'
  <2>1. CASE t \in Keepers
    <3>1. \A s \in Slots : Kept(s)' = Kept(s)
      BY Zenon, <1>16, <2>1
    <3>2. \A u \in Threads : owned'[u] = owned[u]
      BY Zenon, <1>11, <2>1
    <3> QED
      BY Zenon, <1>1, <1>3, <3>1, <3>2, SamePlaces
  <2>2. CASE t \notin Keepers
    <3>1. /\ AtSlot(w) \in TxPlaces /\ AtApp(t) \in TxPlaces /\ AtSlot(w) # AtApp(t)
      BY Zenon, <1>8, PlaceFacts
    <3>2. /\ \A p \in pkts : p \in Holds(AtApp(t))
          /\ Holds(AtApp(t))' = Holds(AtApp(t)) \ pkts
      BY Zenon, <1>10, <2>2, HoldsIs
    <3>3. Holds(AtSlot(w))' = Holds(AtSlot(w)) \cup pkts
      <4>1. Holds(AtSlot(w)) = {} /\ Holds(AtSlot(w))' = pkts
        BY Zenon, <1>8, <1>16, <2>2, HoldsIs
      <4> QED
        BY Zenon, <4>1
    <3>4. ASSUME NEW x \in TxPlaces, x # AtSlot(w), x # AtApp(t) PROVE Holds(x)' = Holds(x)
      <4>1. CASE x = AtPool
        BY Zenon, <1>1, <4>1, HoldsIs
      <4>2. ASSUME NEW u \in Threads, x = AtApp(u) PROVE Holds(x)' = Holds(x)
        <5>1. owned'[u] = owned[u]
          BY Zenon, <1>11, <3>4, <4>2
        <5> QED
          BY Zenon, <4>2, <5>1, HoldsIs
      <4>3. ASSUME NEW s \in Slots, x = AtSlot(s) PROVE Holds(x)' = Holds(x)
        <5>1. Kept(s)' = Kept(s)
          BY Zenon, <1>16, <3>4, <4>3
        <5> QED
          BY Zenon, <4>3, <5>1, HoldsIs
      <4> QED
        BY Zenon, <4>1, <4>2, <4>3, PlaceFacts
    <3> QED
      BY Zenon, <1>3, <3>1, <3>2, <3>3, <3>4, MoveSet
  <2> QED
    BY Zenon, <2>1, <2>2
<1>18. TableOK(t)'
  <2>1. ASSUME t \notin Keepers, NEW j \in DOMAIN c.tbl
        PROVE  c.tbl[j] \in owned'[t] <=> j > c.sent + k
    <3>1. c.tbl[j] \in owned[t] <=> j > c.sent
      BY Zenon, <1>0, <1>5, <2>1 DEF SendTable
    <3>2. c.tbl[j] \in pkts <=> j > c.sent /\ j <= c.sent + k
      <4>1. \A i \in DOMAIN c.tbl : c.tbl[j] = c.tbl[i] => j = i
        BY Zenon, <1>0, <1>5, <2>1 DEF SendTable, NoTwice
      <4> QED
        BY Zenon, <1>4, <2>1, <4>1
    <3>3. j \in Int
      BY <1>5, <2>1
    <3>4. (j > c.sent /\ ~(j > c.sent /\ j <= c.sent + k)) <=> j > c.sent + k
      BY <1>4, <3>3
    <3> QED
      BY Zenon, <1>10, <2>1, <3>1, <3>2, <3>4
  <2>2. c.sent + k \in Nat
    BY <1>4
  <2>3. /\ NoTwice(c.tbl)
        /\ caller = "pcie_send" => Len(c.tbl) <= MaxPkt
    BY Zenon, <1>0, <1>5 DEF SendTable
  <2>4. SendTable(t)'
    BY Zenon, <1>1, <1>4, <1>5, <1>6, <2>1, <2>3 DEF SendTable
  <2> QED
    BY Zenon, <1>1, <1>4, <1>5, <1>6, <2>2, <2>4 DEF TableOK
<1>19. ASSUME NEW u \in Threads PROVE TableOK(u)'
  <2>1. CASE u # t
    <3>1. TableOK(u) /\ owned'[u] = owned[u]
      BY Zenon, <1>11, <2>1 DEF PktInv
    <3> QED
      BY Zenon, <1>1, <1>6, <2>1, <3>1, TableFrame
  <2> QED
    BY Zenon, <1>18, <2>1
<1>20. ASSUME NEW s \in Slots, Unused(s)' PROVE job'[s].pkts = {}
  <2>1. CASE s # w
    <3>1. Unused(s)
      BY Zenon, <1>1, <1>6, <1>20, UnusedSame
    <3>2. job[s].pkts = {}
      BY Zenon, <3>1 DEF PktInv
    <3> QED
      BY Zenon, <1>12, <2>1, <3>2
  <2>2. CASE s = w
    <3>1. ~(w >= head) /\ \A u \in Threads \ {t} : w \notin Pending(u)
      BY Zenon, <1>0, <1>1, <1>7, FilledUsed
    <3>2. PICK u \in Threads : w \in Pending(u)' /\ pc'[u] \in {"wait", "fill"}
      BY Zenon, <1>1, <1>20, <2>2, <3>1 DEF Unused
    <3>3. u # t
      BY Zenon, <1>6, <3>2
    <3>4. Pending(u)' = Pending(u)
      BY Zenon, <1>6, <3>3 DEF Pending
    <3> QED
      BY Zenon, <3>1, <3>2, <3>3, <3>4
  <2> QED
    BY Zenon, <2>1, <2>2
<1> QED
  BY Zenon, <1>14, <1>17, <1>19, <1>20 DEF PktInv

\* The application has all the packets that are not in the pool.
LEMMA InitPkts ==
    ASSUME Init
    PROVE  PktInv
<1>1. /\ job = [s \in Slots |-> [pkts |-> {}, nofree |-> FALSE]]
      /\ owned \in [Threads -> SUBSET Pkts]
      /\ \A t, u \in Threads : t # u => owned[t] \cap owned[u] = {}
      /\ pool = Pkts \ UNION {owned[t] : t \in Threads}
      /\ pc = [t \in Threads |-> "idle"] /\ call = [t \in Threads |-> NoCall]
  BY Zenon DEF Init
<1>2. \A s \in Slots : job[s].pkts = {} /\ Kept(s) = {}
  <2>1. \A s \in Slots : job[s].pkts = {}
    BY <1>1
  <2> QED
    BY Zenon, <2>1 DEF Kept
<1>3. PktTypes
  <2>1. job \in [Slots -> [pkts : SUBSET Pkts, nofree : BOOLEAN]]
    BY <1>1
  <2>2. pool \in SUBSET Pkts
    BY Zenon, <1>1
  <2> QED
    BY Zenon, <1>1, <2>1, <2>2 DEF PktTypes
<1>4. ASSUME NEW t \in Threads PROVE TableOK(t)
  <2>1. call[t].tbl = <<>> /\ call[t].len = 0 /\ call[t].sent = 0
    BY <1>1 DEF NoCall
  <2>2. <<>> \in Seq(Pkts) /\ 0 \in Nat
    OBVIOUS
  <2>3. pc[t] = "idle"
    BY Zenon, <1>1
  <2> QED
    BY Zenon, <2>1, <2>2, <2>3 DEF TableOK
<1>5. PlaceInv
  <2>1. ASSUME NEW x \in TxPlaces, NEW y \in TxPlaces, x # y, NEW p,
               p \in Holds(x), p \in Holds(y)
        PROVE  FALSE
    <3>1. ASSUME NEW z \in TxPlaces, p \in Holds(z)
          PROVE  \/ z = AtPool /\ p \in pool
                 \/ \E t \in Threads : z = AtApp(t) /\ p \in owned[t]
      <4>1. CASE z = AtPool
        BY Zenon, <3>1, <4>1, HoldsIs
      <4>2. ASSUME NEW t \in Threads, z = AtApp(t) PROVE p \in owned[t]
        BY Zenon, <3>1, <4>2, HoldsIs
      <4>3. ASSUME NEW s \in Slots, z = AtSlot(s) PROVE FALSE
        BY Zenon, <1>2, <3>1, <4>3, HoldsIs
      <4> QED
        BY Zenon, <4>1, <4>2, <4>3, PlaceFacts
    <3>2. \A t \in Threads : ~(p \in owned[t] /\ p \in pool)
      BY Zenon, <1>1
    <3>3. \A t, u \in Threads : p \in owned[t] /\ p \in owned[u] => t = u
      BY Zenon, <1>1
    <3>4. /\ \/ x = AtPool /\ p \in pool
             \/ \E t \in Threads : x = AtApp(t) /\ p \in owned[t]
          /\ \/ y = AtPool /\ p \in pool
             \/ \E t \in Threads : y = AtApp(t) /\ p \in owned[t]
      BY Zenon, <2>1, <3>1
    <3> QED
      BY Zenon, <2>1, <3>2, <3>3, <3>4
  <2>2. ASSUME NEW p \in Pkts PROVE \E x \in TxPlaces : p \in Holds(x)
    <3>1. CASE p \in pool
      BY Zenon, <3>1, PlaceFacts, HoldsIs
    <3>2. ASSUME NEW t \in Threads, p \in owned[t] PROVE \E x \in TxPlaces : p \in Holds(x)
      <4>1. p \in Holds(AtApp(t))
        BY Zenon, <3>2, HoldsIs
      <4> QED
        BY Zenon, <4>1, PlaceFacts
    <3> QED
      BY Zenon, <1>1, <3>1, <3>2
  <2> QED
    BY Zenon, <2>1, <2>2 DEF PlaceInv
<1> QED
  BY Zenon, <1>2, <1>3, <1>4, <1>5 DEF PktInv

\* The invariant of the packets, on top of that of the positions.  pcie_send hands a
\* burst to tx_uc_send_packets whole, so a burst fits in one job.
THEOREM TxPacketInvariant ==
    ASSUME InOrder, MaxPcieBurst <= MaxPkt
    PROVE  Spec => []PktInv
<1>1. ASSUME IInv, PktInv, [Next]_vars PROVE PktInv'
  <2>1. ASSUME NEW t \in Threads, NEW p \in Pkts, AppAlloc(t, p) PROVE PktInv'
    BY Zenon, <1>1, <2>1, AppAllocStep
  <2>2. ASSUME NEW t \in Threads, NEW tbl \in Tables(t), Send(t, tbl) PROVE PktInv'
    BY Zenon, <1>1, <2>2, SendPkts
  <2>3. ASSUME NEW t \in Threads, Flush(t) PROVE PktInv'
    BY Zenon, <1>1, <2>3, FlushPkts
  <2>4. ASSUME NEW t \in Threads, Alloc(t) PROVE PktInv'
    BY Zenon, <1>1, <2>4, AllocPkts
  <2>5. ASSUME NEW t \in Threads, Wait(t) PROVE PktInv'
    BY Zenon, <1>1, <2>5, WaitPkts
  <2>6. ASSUME NEW t \in Threads, Fill(t) PROVE PktInv'
    BY Zenon, <1>1, <2>6, FillPkts
  <2>7. ASSUME NEW t \in Threads, FlushClear(t) PROVE PktInv'
    BY Zenon, <1>1, <2>7, FlushClearPkts
  <2>8. ASSUME NEW t \in Threads, Commit(t) PROVE PktInv'
    BY Zenon, <1>1, <2>8, CommitPkts
  <2>9. ASSUME NEW p \in committed, UcRun(p) PROVE PktInv'
    <3>1. UNCHANGED <<head, job, pool, owned, caller, pc, call>>
      BY Zenon, <2>9 DEF UcRun
    <3> QED
      BY Zenon, <1>1, <3>1, TxStill
  <2>10. ASSUME UNCHANGED vars PROVE PktInv'
    <3>1. UNCHANGED <<head, job, pool, owned, caller, pc, call>>
      BY Zenon, <2>10 DEF vars, ctxVars
    <3> QED
      BY Zenon, <1>1, <3>1, TxStill
  <2> QED
    BY Zenon, <1>1, <2>1, <2>2, <2>3, <2>4, <2>5, <2>6, <2>7, <2>8, <2>9, <2>10
       DEF Next, Step, UcStep
<1>2. Init => PktInv
  BY Zenon, InitPkts
<1>3. Spec => []IInv
  BY Zenon, TxInvariant
<1> QED
  BY <1>1, <1>2, <1>3, PTL DEF Spec

\* OnePlace, for any number of threads, slots and packets: every packet is free, or
\* the application's, or in one slot whatever the sends, the flushes and the packets
\* that are too long, provided the micro-core executes the positions in order and a
\* burst of pcie_send fits in one job.
THEOREM TxOnePlace ==
    ASSUME InOrder, MaxPcieBurst <= MaxPkt
    PROVE  Spec => []OnePlace
<1>1. ASSUME PktInv PROVE OnePlace
  <2> SUFFICES ASSUME NEW p \in Pkts PROVE Cardinality(Places(p)) = 1
    BY Zenon DEF OnePlace
  <2>1. \A x : x \in Places(p) <=>
           \/ x = AtPool /\ p \in pool
           \/ \E t \in Threads : x = AtApp(t) /\ p \in owned[t]
           \/ \E s \in Slots : x = AtSlot(s) /\ p \in Kept(s)
    BY Zenon DEF Places, AtPool, AtApp, AtSlot, Kept
  <2>2. \A x : x \in Places(p) <=> x \in TxPlaces /\ p \in Holds(x)
    <3>1. ASSUME NEW x \in Places(p) PROVE x \in TxPlaces /\ p \in Holds(x)
      <4>1. CASE x = AtPool /\ p \in pool
        BY Zenon, <4>1, PlaceFacts, HoldsIs
      <4>2. ASSUME NEW t \in Threads, x = AtApp(t), p \in owned[t]
            PROVE  x \in TxPlaces /\ p \in Holds(x)
        BY Zenon, <4>2, PlaceFacts, HoldsIs
      <4>3. ASSUME NEW s \in Slots, x = AtSlot(s), p \in Kept(s)
            PROVE  x \in TxPlaces /\ p \in Holds(x)
        BY Zenon, <4>3, PlaceFacts, HoldsIs
      <4> QED
        BY Zenon, <2>1, <4>1, <4>2, <4>3
    <3>2. ASSUME NEW x \in TxPlaces, p \in Holds(x) PROVE x \in Places(p)
      <4>1. CASE x = AtPool
        BY Zenon, <2>1, <3>2, <4>1, HoldsIs
      <4>2. ASSUME NEW t \in Threads, x = AtApp(t) PROVE x \in Places(p)
        BY Zenon, <2>1, <3>2, <4>2, HoldsIs
      <4>3. ASSUME NEW s \in Slots, x = AtSlot(s) PROVE x \in Places(p)
        BY Zenon, <2>1, <3>2, <4>3, HoldsIs
      <4> QED
        BY Zenon, <4>1, <4>2, <4>3, PlaceFacts
    <3> QED
      BY Zenon, <3>1, <3>2
  <2>3. PICK x \in TxPlaces : p \in Holds(x)
    BY Zenon, <1>1 DEF PktInv, PlaceInv
  <2>4. \A y \in TxPlaces : p \in Holds(y) => y = x
    BY Zenon, <1>1, <2>3 DEF PktInv, PlaceInv
  <2>5. Places(p) = {x}
    BY Zenon, <2>2, <2>3, <2>4
  <2>6. Cardinality({x}) = 1
    BY Zenon, FS_Singleton
  <2> QED
    BY Zenon, <2>5, <2>6
<1>2. Spec => []PktInv
  BY Zenon, TxPacketInvariant
<1> QED
  BY <1>1, <1>2, PTL
=============================================================================
