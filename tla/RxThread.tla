------------------------------ MODULE RxThread ------------------------------
(***************************************************************************)
(* The receive threads (pktio/rx_thread.c) and the interfaces they serve.   *)
(*                                                                          *)
(* The NoC writes a packet in the buffer of one of the tags of an interface *)
(* and raises the event of the tag.  A receive thread polls the events,     *)
(* gives each tag a new buffer and puts the received one in a list of its   *)
(* own, which it sorts and pushes to the ring of the interface from time to *)
(* time.  It holds a read lock meanwhile; interfaces are opened and closed  *)
(* under the write lock, for which new readers make way.                    *)
(*                                                                          *)
(* The packets are numbered in the order in which they arrive.  The NoC is  *)
(* outside the repository.                                                  *)
(***************************************************************************)
EXTENDS Integers, Sequences, FiniteSets, SequencesExt

CONSTANTS
    Ifs,                \* the interfaces
    Ports(_),           \* the tags of each: min_port .. max_port
    Word,               \* the number of tags of a word of events (64)
    Bufs,               \* the buffers of the pool, numbers
    NRxThr,             \* the number of receive threads (n_rx_thr)
    PKT_BURST_SZ,
    BUFFER_ORDER_BITS,  \* the width of the number of a packet (25)
    RingSizes,          \* the sizes of the rings, one of which is chosen
    FirstPkt, LastPkt,  \* bound: the numbers of the packets
    MaxOpen,            \* bound: how often an interface is opened
    Faults              \* the faults of the NoC: "spurious", "refused"

ASSUME RxThreadAssumption ==
    /\ Bufs \subseteq Nat /\ NRxThr \in Nat \ {0} /\ Word \in Nat \ {0}
    /\ PKT_BURST_SZ \in Nat \ {0} /\ BUFFER_ORDER_BITS \in Nat \ {0}
    /\ RingSizes \subseteq Nat /\ FirstPkt \in Nat /\ LastPkt \in Nat /\ MaxOpen \in Nat
    /\ \A i, j \in Ifs : i # j => Ports(i) \cap Ports(j) = {}
    /\ Faults \subseteq {"spurious", "refused"}

None == -1
Threads == 0 .. NRxThr - 1
Tags == UNION {Ports(i) : i \in Ifs}
IfOf(t) == CHOOSE i \in Ifs : t \in Ports(i)
Words == {t \div Word : t \in Tags}

VARIABLES
    flow_controlled,  \* the option, the same for all interfaces
    ring_size,        \* and the size of their rings
    pool,             \* the free buffers
    tag,              \* the tags: see NoTag
    spares,           \* of each thread
    list,             \* hdr_list of each thread and interface
    ring,             \* of each interface
    app,              \* the buffers of the application
    last,             \* the number of the last packet it received, by interface
    drop_pkt,         \* the buffer for packets to drop, or None
    n_rx,             \* pools[].n_rx
    up,               \* the interfaces that are up
    readers, writer,  \* the lock: who reads, and the step of the control thread
    destroy,
    pc, word, mask, if_mask,  \* of each receive thread
    next,             \* the number of the next packet
    opens,            \* how often an interface was opened
    oom               \* whether a packet was dropped for want of a buffer

confVars == <<flow_controlled, ring_size>>
ctlVars == <<drop_pkt, n_rx, up, writer, destroy, opens>>
thVars == <<readers, pc, word, mask, if_mask>>
appVars == <<app, last>>
vars == <<confVars, pool, tag, spares, list, ring, appVars, ctlVars, thVars, next, oom>>

\* on: active; buf: its buffer or None; event: raised; pkt: the packet received, or 0;
\* need: how many packets raise the event; refused: packets came while it was full.
NoTag == [on |-> FALSE, buf |-> None, event |-> FALSE, pkt |-> 0, need |-> 1,
          refused |-> FALSE, broken |-> FALSE]

Smaller(m, n) == IF m < n THEN m ELSE n
Larger(m, n) == IF m > n THEN m ELSE n

\* The first n free buffers, or all of them.
Free(n) == LET s == SetToSortSeq(pool, <) IN SubSeq(s, 1, Smaller(n, Len(s)))

Init ==
    /\ flow_controlled \in BOOLEAN /\ ring_size \in RingSizes
    /\ pool = Bufs /\ tag = [t \in Tags |-> NoTag]
    /\ spares = [th \in Threads |-> <<>>]
    /\ list = [th \in Threads |-> [i \in Ifs |-> <<>>]]
    /\ ring = [i \in Ifs |-> <<>>] /\ app = {} /\ last = [i \in Ifs |-> 0]
    /\ drop_pkt = None /\ n_rx = 0 /\ up = {} /\ readers = {} /\ writer = <<"none">>
    /\ destroy = FALSE /\ opens = 0
    /\ pc = [th \in Threads |-> "lock"] /\ word = [th \in Threads |-> 0]
    /\ mask = [th \in Threads |-> {}] /\ if_mask = [th \in Threads |-> {}]
    /\ next = FirstPkt /\ oom = FALSE
-----------------------------------------------------------------------------
\* A packet arrives on an active tag.  It is refused if the tag is full.  One that only
\* counts down the items of a broken tag has no number.
Arrive(t) ==
    LET g == tag[t]
    IN  /\ g.on
        /\ \/ /\ g.event /\ g.pkt # 0 /\ "refused" \in Faults /\ next <= LastPkt
              /\ tag' = [tag EXCEPT ![t].refused = TRUE] /\ next' = next + 1
           \/ /\ ~g.event /\ g.need > 1
              /\ tag' = [tag EXCEPT ![t].need = @ - 1] /\ next' = next
           \/ /\ ~g.event /\ g.need = 1 /\ next <= LastPkt
              /\ tag' = [tag EXCEPT ![t].event = TRUE, ![t].pkt = next] /\ next' = next + 1
        /\ UNCHANGED <<confVars, pool, spares, list, ring, appVars, ctlVars, thVars, oom>>

\* The event of a tag is raised without a packet, which the bound counts too.
Spurious(t) ==
    /\ "spurious" \in Faults
    /\ tag[t].on /\ tag[t].buf # None /\ ~tag[t].event
    /\ next <= LastPkt /\ next' = next + 1
    /\ tag' = [tag EXCEPT ![t].event = TRUE, ![t].pkt = 0]
    /\ UNCHANGED <<confVars, pool, spares, list, ring, appVars, ctlVars, thVars, oom>>
-----------------------------------------------------------------------------
\* _rx_thread_start: the read lock, and what the thread sees under it.
ReadLock(th) ==
    /\ pc[th] = "lock" /\ writer[1] \in {"none", "join"}
    /\ IF destroy
       THEN pc' = [pc EXCEPT ![th] = "off"] /\ readers' = readers \cup {th}
       ELSE /\ up # {}
            /\ pc' = [pc EXCEPT ![th] = "poll"] /\ readers' = readers \cup {th}
    /\ word' = [word EXCEPT ![th] = 0]
    /\ UNCHANGED <<confVars, pool, tag, spares, list, ring, appVars, ctlVars, mask, if_mask,
                   next, oom>>

\* The ports of an interface are shared out in contiguous parts (rx_thread_link_open).
PerThread(i) == (Cardinality(Ports(i)) + NRxThr - 1) \div NRxThr
Mine(th) ==
    {t \in UNION {Ports(i) : i \in up} :
        (t - Min(Ports(IfOf(t)))) \div PerThread(IfOf(t)) = th}

\* _poll_masks reads a word of events.
ReadWord(th) ==
    /\ pc[th] = "poll" /\ mask[th] = {} /\ word[th] \in Words
    /\ mask' = [mask EXCEPT ![th] =
                   {t \in Mine(th) : t \div Word = word[th] /\ tag[t].event}]
    /\ word' = [word EXCEPT ![th] = @ + 1]
    /\ UNCHANGED <<confVars, pool, tag, spares, list, ring, appVars, ctlVars, readers, pc,
                   if_mask, next, oom>>

\* The number of buffers to take from the pool before a tag is given a new one; the
\* mutant does not count the tag itself.
EventsRest(th, i) == Cardinality(mask[th] \cap Ports(i)) - 1
Events(th, i) == Cardinality(mask[th] \cap Ports(i))

ToTake(th, i) ==
    IF flow_controlled
    THEN IF Events(th, i) > Len(spares[th])
         THEN Smaller(Larger(Events(th, i), n_rx), PKT_BURST_SZ) ELSE 0
    ELSE IF spares[th] = <<>> THEN Smaller(n_rx, PKT_BURST_SZ) ELSE 0

\* _reload_rx leaves the tags of a flow controlled interface alone when there are not
\* enough buffers for all of them.
ReloadNot(th) ==
    LET t == Min(mask[th])
        i == IfOf(t)
        taken == Free(ToTake(th, i))
        have == spares[th] \o taken
    IN  /\ pc[th] = "poll" /\ mask[th] # {}
        /\ flow_controlled /\ Events(th, i) > Len(have)
        /\ pool' = pool \ ToSet(taken)
        /\ spares' = [spares EXCEPT ![th] = have]
        /\ mask' = [mask EXCEPT ![th] = @ \ Ports(i)]
        /\ UNCHANGED <<confVars, tag, list, ring, appVars, ctlVars, readers, pc, word, if_mask,
                       next, oom>>

\* A spare that is lost when packets were refused.
UnusedLost(have) == IF have = <<>> THEN have ELSE Front(have)
\* The spare that was taken is still there.
Unused(have) == have

\* _reload_rx: the tag gets a spare buffer, or the one for packets to drop, and the
\* packet goes to the list.  A spurious event leaves the buffer in place.  If packets
\* were refused, the next two are dropped as well.
Reload(th) ==
    LET t == Min(mask[th])
        i == IfOf(t)
        g == tag[t]
        taken == Free(ToTake(th, i))
        have == spares[th] \o taken
        spurious == g.buf # None /\ g.pkt = 0
        received == g.buf # None /\ ~spurious
        new == IF spurious THEN g.buf ELSE IF have = <<>> THEN None ELSE Last(have)
        rest == IF spurious \/ have = <<>> THEN have ELSE Front(have)
    IN  /\ pc[th] = "poll" /\ mask[th] # {}
        /\ flow_controlled => Events(th, i) <= Len(have)
        /\ pool' = pool \ ToSet(taken)
        /\ mask' = [mask EXCEPT ![th] = @ \ {t}]
        /\ oom' = (oom \/ (g.buf = None /\ ~g.broken))
        /\ IF g.refused
           THEN /\ tag' = [tag EXCEPT ![t] = [NoTag EXCEPT !.on = TRUE, !.broken = TRUE, !.need = 2]]
                /\ spares' = [spares EXCEPT ![th] = Unused(have)]
           ELSE /\ tag' = [tag EXCEPT ![t] = [NoTag EXCEPT !.on = TRUE, !.buf = new]]
                /\ spares' = [spares EXCEPT ![th] = rest]
        /\ IF received
           THEN /\ list' = [list EXCEPT ![th][i] = Append(@, [buf |-> g.buf, pkt |-> g.pkt])]
                /\ if_mask' = [if_mask EXCEPT ![th] = @ \cup {i}]
           ELSE UNCHANGED <<list, if_mask>>
        /\ UNCHANGED <<confVars, ring, appVars, ctlVars, readers, pc, word, next>>
-----------------------------------------------------------------------------
\* The number of a packet has BUFFER_ORDER_BITS bits.
Order(b) == b.pkt % 2 ^ BUFFER_ORDER_BITS

\* _buffer_ordered_cmp.
Cmp(a, b) ==
    LET diff == IF Order(a) < Order(b) THEN Order(b) - Order(a) ELSE Order(a) - Order(b)
    IN  IF diff > 2 ^ (BUFFER_ORDER_BITS - 1) THEN Order(b) < Order(a) ELSE Order(a) < Order(b)

\* One turn of the loop of _sort_buffers: s is the sorted part of the list and at the
\* position of the last insertion, where the search for the next one starts.
Insert(acc, b) ==
    LET s == acc.s
        from == IF Cmp(b, s[acc.at]) THEN 1 ELSE acc.at
        k == Min({j \in from .. Len(s) : ~Cmp(s[j], b)})
    IN  IF Cmp(b, Last(s))
        THEN [s |-> InsertAt(s, k, b), at |-> k]
        ELSE [s |-> Append(s, b), at |-> acc.at]

SortBuffers(s) ==
    IF s = <<>> THEN s ELSE FoldLeft(Insert, [s |-> <<Head(s)>>, at |-> 1], Tail(s)).s

\* Packets in the order of the polls.
Unsorted(th, i) == list[th][i]
\* flush_ifce_queue: what goes to the ring, which takes ring_size - 1 buffers.
ToFlush(th, i) == IF NRxThr = 1 THEN SortBuffers(list[th][i]) ELSE list[th][i]
Room(i) == ring_size - 1 - Len(ring[i])
\* A flush that waits for a full burst, and the number that it pushes.
FitsBurst(th, i) == IF Len(list[th][i]) < PKT_BURST_SZ THEN 0 ELSE Smaller(Room(i), Len(list[th][i]))
Fits(th, i) == Smaller(Room(i), Len(list[th][i]))

\* The interfaces whose lists are flushed; after the last turn of _poll_masks the
\* thread leaves it.
Flush(th, leave) ==
    LET rest == {i \in if_mask[th] : Fits(th, i) < Len(list[th][i])}
    IN  /\ pc[th] = "poll" /\ mask[th] = {} /\ word[th] \notin Words
        /\ ring' = [i \in Ifs |-> IF i \in if_mask[th]
                        THEN ring[i] \o SubSeq(ToFlush(th, i), 1, Fits(th, i)) ELSE ring[i]]
        /\ list' = [list EXCEPT ![th] = [i \in Ifs |-> IF i \in if_mask[th]
                        THEN SubSeq(ToFlush(th, i), Fits(th, i) + 1, Len(@[i])) ELSE @[i]]]
        /\ if_mask' = [if_mask EXCEPT ![th] = rest]
        /\ word' = [word EXCEPT ![th] = 0]
        /\ pc' = [pc EXCEPT ![th] = IF leave THEN "leave" ELSE "poll"]
        /\ UNCHANGED <<confVars, pool, tag, spares, appVars, ctlVars, readers, mask, next, oom>>

\* Another turn, without a flush.
Again(th) ==
    /\ pc[th] = "poll" /\ mask[th] = {} /\ word[th] \notin Words
    /\ word' = [word EXCEPT ![th] = 0]
    /\ UNCHANGED <<confVars, pool, tag, spares, list, ring, appVars, ctlVars, readers, pc,
                   mask, if_mask, next, oom>>

\* The spares are given back and the lock is released; if_mask is forgotten.
Leave(th) ==
    /\ pc[th] = "leave"
    /\ pool' = pool \cup ToSet(spares[th])
    /\ spares' = [spares EXCEPT ![th] = <<>>]
    /\ if_mask' = [if_mask EXCEPT ![th] = {}]
    /\ readers' = readers \ {th}
    /\ pc' = [pc EXCEPT ![th] = "lock"]
    /\ UNCHANGED <<confVars, tag, list, ring, appVars, ctlVars, word, mask, next, oom>>
-----------------------------------------------------------------------------
\* _configure_rx: a tag is given a buffer and activated.
ConfigureRx(b) == [NoTag EXCEPT !.on = TRUE, !.buf = b]

\* rx_thread_link_open, before its lock, configures the tags.  One for which there is
\* no buffer is passed over silently.
OpenConfigure(i) ==
    LET ports == SetToSortSeq(Ports(i), <)
        bufs == Free(Len(ports))
        given == {ports[k] : k \in DOMAIN bufs}
        at(t) == CHOOSE k \in DOMAIN ports : ports[k] = t
    IN  /\ writer[1] = "none" /\ ~destroy /\ i \notin up /\ opens < MaxOpen
        /\ opens' = opens + 1
        /\ tag' = [t \in Tags |-> IF t \in given
                       THEN ConfigureRx(bufs[at(t)]) ELSE tag[t]]
        /\ pool' = pool \ ToSet(bufs)
        /\ writer' = <<"open", i>>
        /\ UNCHANGED <<confVars, spares, list, ring, appVars, drop_pkt, n_rx, up, destroy,
                       thVars, next, oom>>

\* The rest, under the lock.
OpenLocked(i) ==
    /\ writer = <<"open", i>> /\ readers = {}
    /\ drop_pkt # None \/ pool # {}
    /\ drop_pkt' = IF drop_pkt = None THEN Min(pool) ELSE drop_pkt
    /\ pool' = pool \ {drop_pkt'}
    /\ n_rx' = n_rx + PerThread(i)
    /\ up' = up \cup {i}
    /\ writer' = <<"none">>
    /\ UNCHANGED <<confVars, tag, spares, list, ring, appVars, destroy, opens, thVars, next, oom>>

\* Without a buffer for drop_pkt it fails, and keeps the lock.
OpenFail(i) ==
    /\ writer = <<"open", i>> /\ readers = {}
    /\ drop_pkt = None /\ pool = {}
    /\ tag' = [t \in Tags |-> IF t \in Ports(i) THEN [tag[t] EXCEPT !.on = FALSE, !.event = FALSE]
                                               ELSE tag[t]]
    /\ writer' = <<"failed">>
    /\ UNCHANGED <<confVars, pool, spares, list, ring, appVars, drop_pkt, n_rx, up, destroy,
                   opens, thVars, next, oom>>

\* rx_thread_link_close.
CloseBegin(i) ==
    /\ writer[1] = "none" /\ i \in up
    /\ writer' = <<"close", i>>
    /\ UNCHANGED <<confVars, pool, tag, spares, list, ring, appVars, drop_pkt, n_rx, up,
                   destroy, opens, thVars, next, oom>>

\* The buffers that it frees.
FreedAtClose(i) ==
    ({tag[t].buf : t \in Ports(i)} \ {None}) \cup {b.buf : b \in ToSet(ring[i])}

CloseLocked(i) ==
    /\ writer = <<"close", i>> /\ readers = {}
    /\ up' = up \ {i}
    /\ tag' = [t \in Tags |-> IF t \in Ports(i) THEN NoTag ELSE tag[t]]
    /\ ring' = [ring EXCEPT ![i] = <<>>]
    /\ n_rx' = n_rx - Cardinality(Ports(i)) \div NRxThr
    /\ drop_pkt' = IF up' = {} THEN None ELSE drop_pkt
    /\ pool' = pool \cup FreedAtClose(i) \cup (IF up' = {} THEN {drop_pkt} \ {None} ELSE {})
    /\ writer' = <<"none">>
    /\ UNCHANGED <<confVars, spares, list, appVars, destroy, opens, thVars, next, oom>>

\* rx_thread_destroy, which does nothing while an interface is up.
DestroyBegin ==
    /\ writer[1] = "none" /\ ~destroy /\ up = {}
    /\ writer' = <<"destroy">>
    /\ UNCHANGED <<confVars, pool, tag, spares, list, ring, appVars, drop_pkt, n_rx, up,
                   destroy, opens, thVars, next, oom>>

DestroyLocked ==
    /\ writer = <<"destroy">> /\ readers = {}
    /\ destroy' = TRUE
    /\ writer' = <<"join">>
    /\ UNCHANGED <<confVars, pool, tag, spares, list, ring, appVars, drop_pkt, n_rx, up, opens,
                   thVars, next, oom>>

Join ==
    /\ writer = <<"join">> /\ \A th \in Threads : pc[th] = "off"
    /\ writer' = <<"none">>
    /\ UNCHANGED <<confVars, pool, tag, spares, list, ring, appVars, drop_pkt, n_rx, up,
                   destroy, opens, thVars, next, oom>>
-----------------------------------------------------------------------------
\* The application takes a packet from the ring of an interface it is not closing.
Recv(i) ==
    /\ i \in up /\ writer # <<"close", i>> /\ ring[i] # <<>>
    /\ app' = app \cup {Head(ring[i]).buf}
    /\ last' = [last EXCEPT ![i] = Head(ring[i]).pkt]
    /\ ring' = [ring EXCEPT ![i] = Tail(@)]
    /\ UNCHANGED <<confVars, pool, tag, spares, list, ctlVars, thVars, next, oom>>

\* It frees one of its packets; which one makes no difference.
AppFree ==
    /\ app # {}
    /\ app' = app \ {Min(app)}
    /\ pool' = pool \cup {Min(app)}
    /\ UNCHANGED <<confVars, tag, spares, list, ring, last, ctlVars, thVars, next, oom>>

Next ==
    \/ \E t \in Tags : Arrive(t) \/ Spurious(t)
    \/ \E th \in Threads :
          \/ ReadLock(th) \/ ReadWord(th) \/ ReloadNot(th) \/ Reload(th)
          \/ Flush(th, FALSE) \/ Flush(th, TRUE) \/ Again(th) \/ Leave(th)
    \/ \E i \in Ifs :
          \/ OpenConfigure(i) \/ OpenLocked(i) \/ OpenFail(i)
          \/ CloseBegin(i) \/ CloseLocked(i)
          \/ Recv(i)
    \/ DestroyBegin \/ DestroyLocked \/ Join
    \/ AppFree

Spec == Init /\ [][Next]_vars

Polling(th) == ReadLock(th) \/ ReadWord(th) \/ ReloadNot(th) \/ Reload(th) \/ Leave(th)

\* The threads run, and leave _poll_masks again and again (N_ITER_LOCKED), and the
\* application goes on receiving and freeing packets.
FairSpec ==
    /\ Spec
    /\ \A th \in Threads :
          WF_vars(Polling(th) \/ Again(th)) /\ SF_vars(Flush(th, TRUE))
    /\ \A i \in Ifs : WF_vars(OpenLocked(i)) /\ WF_vars(CloseLocked(i)) /\ WF_vars(Recv(i))
    /\ WF_vars(DestroyLocked)
    /\ WF_vars(AppFree)
-----------------------------------------------------------------------------
\* Where a buffer is.
Places(b) ==
    {<<"pool", 0>> : x \in {b} \cap pool} \cup {<<"app", 0>> : x \in {b} \cap app}
    \cup {<<"drop", 0>> : x \in {b} \cap {drop_pkt}}
    \cup {<<"tag", t>> : t \in {u \in Tags : tag[u].buf = b}}
    \cup {<<"spare", th>> : th \in {u \in Threads : b \in ToSet(spares[u])}}
    \cup {<<"list", th, i>> : <<th, i>> \in {<<u, j>> \in Threads \X Ifs :
                                    \E k \in DOMAIN list[u][j] : list[u][j][k].buf = b}}
    \cup {<<"ring", i>> : i \in {j \in Ifs : \E k \in DOMAIN ring[j] : ring[j][k].buf = b}}

\* Every buffer is in one place, whatever packets were dropped, refused or left in a
\* list because the ring was full: none is lost, and the NoC never writes in a buffer
\* that the application, the pool or another tag has.
Conserved == \A b \in Bufs : Cardinality(Places(b)) = 1

\* With one receive thread, and the tags of an interface in one word of events, the
\* application receives the packets of an interface in the order in which they arrived,
\* as the documentation promises, also when their numbers wrap.
InOrder == [][\A i \in Ifs : last'[i] >= last[i]]_vars

\* A packet that was received reaches the application, unless its interface is closed,
\* if the ring is large enough for all the buffers: the lists are always flushed, and a
\* flow controlled interface that waits for buffers gets them.
Delivered ==
    \A i \in Ifs, p \in FirstPkt .. LastPkt :
        (/\ ring_size > Cardinality(Bufs) /\ i \in up
         /\ \E t \in Ports(i) : tag[t].event /\ tag[t].buf # None /\ tag[t].pkt = p)
        ~> (last[i] >= p \/ i \notin up)

\* A flow controlled interface drops no packet for want of a buffer.
NoOom == flow_controlled => ~oom
=============================================================================
