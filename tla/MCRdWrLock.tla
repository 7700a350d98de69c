----------------------------- MODULE MCRdWrLock -----------------------------
(* Instances of the reader-writer lock for TLC.                            *)
EXTENDS RdWrLock
=============================================================================
