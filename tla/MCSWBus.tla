------------------------------ MODULE MCSWBus ------------------------------
(* Instances of the software bus for TLC: one pool of two chunks, or a     *)
(* pool of one small chunk and a pool of one large chunk.                  *)
EXTENDS SWBus

OnePoolSizes == <<1>>
OnePoolElts == <<2>>
TwoPoolSizes == <<1, 2>>
TwoPoolElts == <<1, 1>>
=============================================================================
