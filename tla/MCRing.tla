------------------------------- MODULE MCRing -------------------------------
(***************************************************************************)
(* The ring of buffer pointers implements the queue of BufferFifo.          *)
(***************************************************************************)
EXTENDS BufferRing
=============================================================================
