---------------------------- MODULE AtomicQueue ----------------------------
(***************************************************************************)
(* What an atomic queue promises its users.  Events come out in the order  *)
(* in which they went in, each once, and only to the thread that owns the   *)
(* queue; a thread that gives the queue up has received everything that     *)
(* was set aside for it.  A slot of the queue table serves a new queue only *)
(* when the events of the former one were received and nobody owns it.      *)
(***************************************************************************)
EXTENDS Integers, Sequences

CONSTANTS Threads, Queues, Events, None

VARIABLES open,    \* the queue accepts events
          pend,    \* events enqueued and not yet received, oldest first
          owner    \* the thread in the atomic context of the queue, or None

avars == <<open, pend, owner>>

AInit ==
    /\ open = [q \in Queues |-> FALSE]
    /\ pend = [q \in Queues |-> <<>>]
    /\ owner = [q \in Queues |-> None]

Open(q) ==
    /\ ~open[q]
    /\ pend[q] = <<>>
    /\ owner[q] = None
    /\ open' = [open EXCEPT ![q] = TRUE]
    /\ UNCHANGED <<pend, owner>>

\* Only the owner's events may be left in a queue when it is closed.
Close(q) ==
    /\ open[q]
    /\ pend[q] = <<>> \/ owner[q] # None
    /\ open' = [open EXCEPT ![q] = FALSE]
    /\ UNCHANGED <<pend, owner>>

Enqueue(q, evs) ==
    /\ open[q]
    /\ pend' = [pend EXCEPT ![q] = @ \o evs]
    /\ UNCHANGED <<open, owner>>

\* The thread receives the first n events, and is the owner from then on.
Receive(t, q, n) ==
    /\ owner[q] \in {None, t}
    /\ n \in 1..Len(pend[q])
    /\ pend' = [pend EXCEPT ![q] = SubSeq(@, n + 1, Len(@))]
    /\ owner' = [owner EXCEPT ![q] = t]
    /\ UNCHANGED open

\* A closed queue is given up empty.
Release(t, q) ==
    /\ owner[q] = t
    /\ ~open[q] => pend[q] = <<>>
    /\ owner' = [owner EXCEPT ![q] = None]
    /\ UNCHANGED <<open, pend>>

ANext ==
    \E q \in Queues :
       \/ Open(q) \/ Close(q)
       \/ \E e, f \in Events : Enqueue(q, <<e>>) \/ Enqueue(q, <<e, f>>)
       \/ \E t \in Threads : Release(t, q) \/ \E n \in 1..Len(pend[q]) : Receive(t, q, n)

ASpec == AInit /\ [][ANext]_avars
=============================================================================
