----------------------------- MODULE RWLockSpec -----------------------------
(***************************************************************************)
(* What a reader-writer lock promises: many readers or one writer.         *)
(***************************************************************************)
CONSTANT Threads

VARIABLES
  readers,  \* the threads inside with read access
  writers   \* the threads inside with write access

vars == <<readers, writers>>

Init == readers = {} /\ writers = {}

EnterRead(t) ==
  /\ t \notin readers /\ writers = {}
  /\ readers' = readers \cup {t} /\ UNCHANGED writers

EnterWrite(t) ==
  /\ readers = {} /\ writers = {}
  /\ writers' = {t} /\ UNCHANGED readers

ExitRead(t) == t \in readers /\ readers' = readers \ {t} /\ UNCHANGED writers

ExitWrite(t) == t \in writers /\ writers' = writers \ {t} /\ UNCHANGED readers

Next == \E t \in Threads :
          EnterRead(t) \/ EnterWrite(t) \/ ExitRead(t) \/ ExitWrite(t)

Spec == Init /\ [][Next]_vars
=============================================================================
