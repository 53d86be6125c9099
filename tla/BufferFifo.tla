----------------------------- MODULE BufferFifo -----------------------------
(***************************************************************************)
(* What the ring of buffer pointers promises: a queue.  Buffers come out in *)
(* the order they went in, each to one thread, and none is lost or made up. *)
(***************************************************************************)
EXTENDS Naturals, Sequences, FiniteSets, Functions

CONSTANTS Threads, Bufs

VARIABLES
    fifo,      \* the buffers in the queue
    held       \* the buffers of each thread, in the order it got them

fifoVars == <<fifo, held>>

FifoInit ==
    /\ fifo = <<>>
    /\ \E t \in Threads, k \in 0..Cardinality(Bufs) : \E s \in Injection(1..k, Bufs) :
          held = [u \in Threads |-> IF u = t THEN s ELSE <<>>]

Get(t) ==
    \E k \in 1..Len(fifo) :
       /\ held' = [held EXCEPT ![t] = @ \o SubSeq(fifo, 1, k)]
       /\ fifo' = SubSeq(fifo, k + 1, Len(fifo))

Put(t) ==
    \E k \in 1..Len(held[t]) :
       /\ fifo' = fifo \o SubSeq(held[t], 1, k)
       /\ held' = [held EXCEPT ![t] = SubSeq(@, k + 1, Len(@))]

FifoNext == \E t \in Threads : Get(t) \/ Put(t)

FifoSpec == FifoInit /\ [][FifoNext]_fifoVars
=============================================================================
