------------------------------ MODULE Cluster ------------------------------
(***************************************************************************)
(* The link between two clusters (pktio/cluster.c), in one direction: from  *)
(* a cluster that opened it for output only to one that opened it for input *)
(* only, with the part of pktio/rx_thread.c that takes the packets from     *)
(* the NoC.                                                                 *)
(*                                                                          *)
(* The receiver has NTags NoC tags, each of which can hold one packet.  The *)
(* sender uses them round robin and must not send to a tag that is still    *)
(* full: the NoC would refuse the packet.  It counts the packets it has     *)
(* sent, the receiver writes the number of packets its application has got  *)
(* in a mailbox of the sender, and the difference is the number of credits  *)
(* in use.                                                                  *)
(*                                                                          *)
(* The RPC server, which tells a cluster whether the other one has opened   *)
(* the link, the micro-core and the NoC are outside the repository.         *)
(***************************************************************************)
EXTENDS Integers, Sequences, FiniteSets, SequencesExt

CONSTANTS
    Senders,    \* the threads that send
    Receivers,  \* the threads that receive
    NTags,      \* the number of tags of the receiver (rx_opts.nRx)
    NRxThr,     \* the number of Rx threads of the receiver (n_rx_thr)
    MaxBurst,   \* bound: the largest len of a send and of a receive
    MaxPkts,    \* bound: how many packets are sent
    MaxOom,     \* bound: how often the pool has no buffer for a tag
    MaxOpen     \* bound: the receiver does not close the link it opened for the MaxOpen-th time

ASSUME ClusterAssumption ==
    /\ NTags \in Nat \ {0} /\ NRxThr \in Nat \ {0}
    /\ MaxBurst \in Nat /\ MaxPkts \in Nat /\ MaxOom \in Nat /\ MaxOpen \in Nat

VARIABLES
    \* The sender.
    known,      \* whether remote.min_rx and max_rx are known
    tag,        \* the next tag (tx_config.header._.tag)
    local,      \* local.pkt_count
    wlock,      \* who holds wlock, if anyone
    pc, call,   \* where each sender is, and the locals of its cluster_send
    mbox,       \* the mailbox (local.cnoc_rx)
    \* The NoC.
    nsent,      \* how many packets were given to the micro-core
    wire,       \* the packets on their way, with their tags
    tags,       \* what is in each tag: a packet or Empty
    mapped,     \* whether each tag has a buffer (or the one for packets to drop)
    refused,    \* the packets that found their tag full
    \* The receiver.
    opened,     \* how often it has opened the link
    link,       \* "up", "closing" or "down"
    synced,     \* whether remote.cnoc_rx is known
    remote,     \* remote.pkt_count
    list,       \* hdr_list of each Rx thread
    ring,       \* the ring
    took,       \* the number of packets each receiver took and has not counted
    got, lost,  \* the packets the application got, and those that were dropped
    oom         \* how often the pool had no buffer

sendVars == <<known, tag, local, wlock, pc, call, mbox>>
nocVars == <<nsent, wire, tags, mapped, refused>>
recvVars == <<opened, link, synced, remote, list, ring, took, got, lost, oom>>
vars == <<sendVars, nocVars, recvVars>>

Tags == 0 .. NTags - 1
RxThreads == 0 .. NRxThr - 1
Empty == 0
CLOSED == -1
NoCall == [len |-> 0, sent |-> 0]

\* rx_thread_link_open: each Rx thread has a contiguous part of the tags.
PerThread == (NTags + NRxThr - 1) \div NRxThr
TagsOf(th) == {i \in Tags : i \div PerThread = th}

\* Both ends have opened the link: cluster_open.
Init ==
    /\ known = FALSE /\ tag = 0 /\ local = 0 /\ wlock = {}
    /\ pc = [t \in Senders |-> "idle"] /\ call = [t \in Senders |-> NoCall]
    /\ mbox = 0
    /\ nsent = 0 /\ wire = <<>> /\ refused = {}
    /\ tags = [i \in Tags |-> Empty] /\ mapped = [i \in Tags |-> TRUE]
    /\ opened = 1 /\ link = "up" /\ synced = FALSE /\ remote = 0
    /\ list = [th \in RxThreads |-> <<>>] /\ ring = <<>>
    /\ took = [r \in Receivers |-> 0] /\ got = <<>> /\ lost = {} /\ oom = 0
-----------------------------------------------------------------------------
\* cluster_send takes the lock.
Send(t, n) ==
    /\ pc[t] = "idle" /\ wlock = {} /\ nsent + n <= MaxPkts
    /\ wlock' = {t}
    /\ pc' = [pc EXCEPT ![t] = "sync"]
    /\ call' = [call EXCEPT ![t] = [len |-> n, sent |-> 0]]
    /\ UNCHANGED <<known, tag, local, mbox, nocVars, recvVars>>

\* It asks the server where to send, unless it knows; the send ends when the other
\* end has not opened the link.
Sync(t) ==
    /\ pc[t] = "sync"
    /\ IF known \/ link # "down"
       THEN /\ known' = TRUE
            /\ tag' = IF known THEN tag ELSE 0
            /\ pc' = [pc EXCEPT ![t] = "credit"]
            /\ UNCHANGED wlock
       ELSE /\ pc' = [pc EXCEPT ![t] = "idle"]
            /\ wlock' = {}
            /\ UNCHANGED <<known, tag>>
    /\ UNCHANGED <<local, call, mbox, nocVars, recvVars>>

\* A credit for a packet that has none.
CreditOneMore == NTags + 1 - (local - mbox)

Credit == NTags - (local - mbox)

\* An unsigned subtraction: a negative credit is a very large one.
Allowed(n) == IF Credit >= 0 /\ Credit < n THEN Credit ELSE n

\* The mailbox is read: the other end has closed the link, or len is cut down.
ReadCredit(t) ==
    /\ pc[t] = "credit"
    /\ IF mbox = CLOSED
       THEN /\ wlock' = {}
            /\ pc' = [pc EXCEPT ![t] = "reset"]
            /\ UNCHANGED call
       ELSE /\ call' = [call EXCEPT ![t].len = Allowed(@)]
            /\ pc' = [pc EXCEPT ![t] = "send"]
            /\ UNCHANGED wlock
    /\ UNCHANGED <<known, tag, local, mbox, nocVars, recvVars>>

\* The link is forgotten, after the unlock.
Reset(t) ==
    /\ pc[t] = "reset"
    /\ known' = FALSE
    /\ pc' = [pc EXCEPT ![t] = "idle"]
    /\ UNCHANGED <<tag, local, wlock, call, mbox, nocVars, recvVars>>

\* One packet is sent and the tag moves; max_rx and min_rx are -1 if the link has
\* been forgotten meanwhile.
NextTag == IF known THEN (tag + 1) % NTags ELSE CLOSED

SendOne(t) ==
    /\ pc[t] = "send" /\ call[t].len > 0
    /\ nsent' = nsent + 1
    /\ wire' = Append(wire, [pkt |-> nsent', tag |-> tag])
    /\ tag' = NextTag
    /\ call' = [call EXCEPT ![t].len = @ - 1, ![t].sent = @ + 1]
    /\ UNCHANGED <<known, local, wlock, pc, mbox, tags, mapped, refused, recvVars>>

\* A send that counts a packet it has not sent.
SendEndOneMore(t) ==
    /\ pc[t] = "send"
    /\ local' = local + call[t].sent + (IF call[t].len > 0 THEN 1 ELSE 0)
    /\ wlock' = {}
    /\ pc' = [pc EXCEPT ![t] = "idle"]
    /\ call' = [call EXCEPT ![t] = NoCall]
    /\ UNCHANGED <<known, tag, mbox, nocVars, recvVars>>

\* The end of the loop, or a packet that is too long: what was sent is counted.
SendEnd(t) ==
    /\ pc[t] = "send"
    /\ local' = local + call[t].sent
    /\ wlock' = {}
    /\ pc' = [pc EXCEPT ![t] = "idle"]
    /\ call' = [call EXCEPT ![t] = NoCall]
    /\ UNCHANGED <<known, tag, mbox, nocVars, recvVars>>
-----------------------------------------------------------------------------
\* The NoC delivers the next packet: lost when the link is down, refused when its
\* tag is full.
Deliver ==
    LET p == Head(wire).pkt
        i == Head(wire).tag
    IN  /\ wire # <<>>
        /\ wire' = Tail(wire)
        /\ IF i \notin Tags \/ link = "down"
           THEN lost' = lost \cup {p} /\ UNCHANGED <<tags, refused>>
           ELSE IF tags[i] = Empty
           THEN tags' = [tags EXCEPT ![i] = p] /\ UNCHANGED <<refused, lost>>
           ELSE refused' = refused \cup {p} /\ UNCHANGED <<tags, lost>>
        /\ UNCHANGED <<sendVars, nsent, mapped, opened, link, synced, remote, list, ring,
                       took, got, oom>>

Full(th) == {i \in TagsOf(th) : tags[i] # Empty}
InTagOrder(I) == SetToSortSeq(I, <)

\* _poll_masks: one reading of the events and _reload_rx of each tag.  The pool has
\* no buffer for the tags of bare, whose next packet is dropped.
RxPoll(th, bare) ==
    LET seen == SelectSeq(InTagOrder(Full(th)), LAMBDA i : mapped[i])
    IN  /\ link # "down" /\ Full(th) # {}
        /\ bare \subseteq Full(th) /\ oom + Cardinality(bare) <= MaxOom
        /\ oom' = oom + Cardinality(bare)
        /\ list' = [list EXCEPT ![th] = @ \o [k \in DOMAIN seen |-> tags[seen[k]]]]
        /\ lost' = lost \cup {tags[i] : i \in {j \in Full(th) : ~mapped[j]}}
        /\ tags' = [i \in Tags |-> IF i \in Full(th) THEN Empty ELSE tags[i]]
        /\ mapped' = [i \in Tags |-> IF i \in Full(th) THEN i \notin bare ELSE mapped[i]]
        /\ UNCHANGED <<sendVars, nsent, wire, refused, opened, link, synced, remote, ring,
                       took, got>>

\* A list that is pushed as it is.
Unsorted(s) == s

\* flush_ifce_queue sorts the list by the numbers of the packets when there is one
\* Rx thread (odp_init_global).
Sorted(s) == IF NRxThr = 1 THEN SetToSortSeq(ToSet(s), <) ELSE s

RxFlush(th) ==
    /\ link # "down" /\ list[th] # <<>>
    /\ ring' = ring \o Sorted(list[th])
    /\ list' = [list EXCEPT ![th] = <<>>]
    /\ UNCHANGED <<sendVars, nocVars, opened, link, synced, remote, took, got, lost, oom>>
-----------------------------------------------------------------------------
\* cluster_recv asks the server for the mailbox, unless it knows it.
RecvSync(r) ==
    /\ link = "up" /\ took[r] = 0 /\ ~synced
    /\ synced' = TRUE
    /\ UNCHANGED <<sendVars, nocVars, opened, link, remote, list, ring, took, got, lost, oom>>

\* It takes packets from the ring.
RecvGet(r, len) ==
    LET n == Min({len, Len(ring)})
    IN  /\ link = "up" /\ took[r] = 0 /\ synced /\ n > 0
        /\ got' = got \o SubSeq(ring, 1, n)
        /\ ring' = SubSeq(ring, n + 1, Len(ring))
        /\ took' = [took EXCEPT ![r] = n]
        /\ UNCHANGED <<sendVars, nocVars, opened, link, synced, remote, list, lost, oom>>

\* It counts them, and writes the count in the mailbox, under g_cnoc_tx_lock.
RecvCount(r) ==
    /\ took[r] > 0
    /\ remote' = remote + took[r]
    /\ mbox' = remote'
    /\ took' = [took EXCEPT ![r] = 0]
    /\ UNCHANGED <<known, tag, local, wlock, pc, call, nocVars, opened, link, synced, list,
                   ring, got, lost, oom>>
-----------------------------------------------------------------------------
\* cluster_close tells the sender, if it knows its mailbox; no thread is receiving.
CloseBegin ==
    /\ link = "up" /\ opened < MaxOpen /\ \A r \in Receivers : took[r] = 0
    /\ link' = "closing"
    /\ mbox' = IF synced THEN CLOSED ELSE mbox
    /\ UNCHANGED <<known, tag, local, wlock, pc, call, nocVars, opened, synced, remote, list,
                   ring, took, got, lost, oom>>

\* The server is told and rx_thread_link_close frees the tags and the ring.  Its write
\* lock waits for the Rx threads, which have flushed their lists before they let go.
CloseEnd ==
    /\ link = "closing" /\ \A th \in RxThreads : list[th] = <<>>
    /\ link' = "down"
    /\ lost' = lost \cup ToSet(ring) \cup ({tags[i] : i \in Tags} \ {Empty})
    /\ ring' = <<>>
    /\ tags' = [i \in Tags |-> Empty]
    /\ UNCHANGED <<sendVars, nsent, wire, mapped, refused, opened, synced, remote, list, took,
                   got, oom>>

\* cluster_open, again.
Open ==
    /\ link = "down"
    /\ link' = "up" /\ opened' = opened + 1
    /\ synced' = FALSE /\ remote' = 0
    /\ mapped' = [i \in Tags |-> TRUE]
    /\ UNCHANGED <<sendVars, nsent, wire, tags, refused, list, ring, took, got, lost, oom>>
-----------------------------------------------------------------------------
SendStep(t) == Sync(t) \/ ReadCredit(t) \/ Reset(t) \/ SendOne(t) \/ SendEnd(t)
Sending(t) == \E n \in 1 .. MaxBurst : Send(t, n)
Polling(th) == \E bare \in SUBSET Tags : RxPoll(th, bare)
Getting(r) == \E len \in 1 .. MaxBurst : RecvGet(r, len)
Receiving(r) == RecvSync(r) \/ RecvCount(r) \/ Getting(r)

Next ==
    \/ \E t \in Senders :
          \/ Sending(t)
          \/ Sync(t) \/ ReadCredit(t) \/ Reset(t) \/ SendOne(t) \/ SendEnd(t)
    \/ Deliver
    \/ \E th \in RxThreads : RxFlush(th) \/ Polling(th)
    \/ \E r \in Receivers : RecvSync(r) \/ RecvCount(r) \/ Getting(r)
    \/ CloseBegin \/ CloseEnd

Spec == Init /\ [][Next]_vars

\* A thread goes on with its call, the NoC delivers, the Rx threads poll, and the
\* application of the receiver goes on receiving.
Fairness ==
    /\ \A t \in Senders : WF_vars(SendStep(t))
    /\ WF_vars(Deliver)
    /\ \A th \in RxThreads : WF_vars(RxFlush(th)) /\ WF_vars(Polling(th))
    /\ \A r \in Receivers : WF_vars(Receiving(r))

FairSpec == Spec /\ Fairness

\* The receiver opens the link again; the sender goes on sending packets that are not
\* too long, and a close completes.
ReopenSpec ==
    /\ Init /\ [][Next \/ Open]_vars
    /\ Fairness
    /\ \A t \in Senders : WF_vars(Sending(t)) /\ SF_vars(SendOne(t))
    /\ WF_vars(CloseEnd) /\ WF_vars(Open)
-----------------------------------------------------------------------------
\* The NoC refuses no packet: every packet that cluster_send sends finds its tag
\* empty, whatever the threads that send and receive do, also when packets are
\* dropped for want of a buffer and until the receiver closes the link.
NoOverrun == refused = {}

\* The application gets the packets in the order in which they were sent, as
\* the documentation promises for one Rx thread: a list is sorted before it goes to
\* the ring, and nothing older can still be in a tag.
InOrder == \A k \in 1 .. Len(got) - 1 : got[k] < got[k + 1]

\* Every credit that cluster_send takes comes back, unless its packet was dropped, or
\* the receiver closes the link: a send that fails halfway counts what it sent, and
\* the counts that several receivers write at once lose nothing.
CreditReturns ==
    \A k \in 1 .. MaxPkts :
        local >= k ~> mbox + Cardinality(lost) >= k \/ link # "up"

\* Once the receiver has opened the link again, the sender sends on it: cluster_send
\* forgets a link that was closed in order to "reinit the pktio".
SendingResumes == opened = MaxOpen ~> nsent = MaxPkts
=============================================================================
