----------------------------- MODULE MCPCQueue -----------------------------
(* Instances of the producer-consumer queue for TLC: the threads, elements *)
(* and bounds are given by the configurations.                             *)
EXTENDS PCQueue
=============================================================================
