------------------------------ MODULE MCRwLock ------------------------------
(* The recursive reader/writer lock with three threads.                     *)
EXTENDS RwLock
=============================================================================
