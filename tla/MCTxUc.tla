------------------------------- MODULE MCTxUc -------------------------------
(* Instances of the transmission through a micro-core for TLC. *)
EXTENDS TxUc
=============================================================================
