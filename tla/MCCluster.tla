----------------------------- MODULE MCCluster -----------------------------
(* The cluster link, with two senders, two receivers and two tags.          *)
EXTENDS Cluster, TLC

CONSTANTS s1, s2, r1, r2

MCSenders == {s1, s2}
MCReceivers == {r1, r2}
=============================================================================
