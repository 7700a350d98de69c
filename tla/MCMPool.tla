------------------------------ MODULE MCMPool ------------------------------
(* Instances of the memory pool for TLC.                                   *)
EXTENDS MPool
=============================================================================
