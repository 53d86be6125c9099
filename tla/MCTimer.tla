------------------------------ MODULE MCTimer ------------------------------
(* Timer on small instances. *)
EXTENDS Timer
=============================================================================
