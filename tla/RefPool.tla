------------------------------ MODULE RefPool ------------------------------
(***************************************************************************)
(* What a reference-counted memory pool promises: a chunk is granted only  *)
(* while nobody refers to it, stays granted as long as anybody does, and   *)
(* is free again with the last reference.  A handle is one reference some  *)
(* thread may hold; it refers to a chunk or to none.                       *)
(***************************************************************************)
CONSTANTS Chunks, Handles, NoChunk

VARIABLES
  available,  \* the chunks that can be granted
  refersTo    \* refersTo[h]: the chunk handle h refers to, or NoChunk

vars == <<available, refersTo>>

Init == available = Chunks /\ refersTo = [h \in Handles |-> NoChunk]

Grant(h, c) ==
  /\ refersTo[h] = NoChunk
  /\ c \in available
  /\ available' = available \ {c}
  /\ refersTo' = [refersTo EXCEPT ![h] = c]

\* Another reference to a chunk somebody refers to.
Share(h, c) ==
  /\ refersTo[h] = NoChunk
  /\ \E g \in Handles : refersTo[g] = c
  /\ refersTo' = [refersTo EXCEPT ![h] = c]
  /\ UNCHANGED available

Drop(h, c) ==
  /\ refersTo[h] = c
  /\ refersTo' = [refersTo EXCEPT ![h] = NoChunk]
  /\ available' = IF \E g \in Handles \ {h} : refersTo[g] = c
                  THEN available ELSE available \cup {c}

Next == \E h \in Handles, c \in Chunks : Grant(h, c) \/ Share(h, c) \/ Drop(h, c)

Spec == Init /\ [][Next]_vars
=============================================================================
