----------------------------- MODULE MCRxThread -----------------------------
(* One interface with two tags.                                             *)
EXTENDS RxThread, TLC

CONSTANTS i1

MCIfs == {i1}
MCPorts(i) == {0, 1}

\* The lists that _sort_buffers may meet, six packets at most whose numbers wrap; it
\* sorts every one of them.
Lists == UNION {SetToSeqs(P) : P \in SUBSET (14 .. 19)}
Packets(s) == [k \in DOMAIN s |-> [buf |-> k, pkt |-> s[k]]]
Numbers(s) == [k \in DOMAIN s |-> s[k].pkt]

ASSUME SortBuffersSorts ==
    \A s \in Lists : Numbers(SortBuffers(Packets(s))) = SetToSortSeq(ToSet(s), <)
=============================================================================
