------------------------------- MODULE MCPool -------------------------------
(***************************************************************************)
(* Small instances of Pool.                                                 *)
(***************************************************************************)
EXTENDS Pool, TLC

Symm == Permutations(Threads) \cup Permutations(Bufs)
=============================================================================
