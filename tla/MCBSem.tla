------------------------------- MODULE MCBSem -------------------------------
(* Instances of the binary semaphore for TLC.                              *)
EXTENDS BSem
=============================================================================
