------------------------------ MODULE RBuffer ------------------------------
(***************************************************************************)
(* The ring buffer of src/src/ds/rbuffer.c as a value and the operations   *)
(* on it.  A buffer is a record with the fields the code updates: start,   *)
(* current and the array of slots.  There is no state here: FIFO queues    *)
(* keep a ring buffer in a variable of theirs.                             *)
(***************************************************************************)
EXTENDS Naturals, Sequences

CONSTANTS
  MaxElts,  \* rb->max_elts, fixed when the buffer is initialised
  Elts,     \* what a slot can hold
  Unset     \* the content of a slot nothing was copied to yet

ASSUME MaxEltsAssumption == MaxElts \in Nat \ {0}
ASSUME UnsetAssumption == Unset \notin Elts

Slots == 0 .. MaxElts - 1

RingBuffers == [start: Slots, current: 0 .. MaxElts,
                elements: [Slots -> Elts \cup {Unset}]]

EmptyRing == [start |-> 0, current |-> 0, elements |-> [i \in Slots |-> Unset]]

RingIsFull(rb) == rb.current = MaxElts
RingIsEmpty(rb) == rb.current = 0

\* rbuffer_data_get: every index is reduced to a slot of the array.
RingSlot(idx) == idx % MaxElts

\* Mutant of RingAdd: the slot is counted from the start of the array.
RingAddFromZero(rb, e) ==
  [rb EXCEPT !.current = @ + 1, !.elements[RingSlot(rb.current)] = e]

\* rbuffer_add once the guard of a FIFO has passed.  A buffer that is not a
\* FIFO overwrites its oldest element when it is full.
RingAdd(rb, e) ==
  LET slot == RingSlot(rb.start + rb.current)
  IN  [start    |-> IF RingIsFull(rb) THEN RingSlot(rb.start + 1) ELSE rb.start,
       current  |-> IF RingIsFull(rb) THEN rb.current ELSE rb.current + 1,
       elements |-> [rb.elements EXCEPT ![slot] = e]]

\* rbuffer_remove of a buffer that is not empty.
RingRemove(rb) ==
  [start    |-> RingSlot(rb.start + 1),
   current  |-> rb.current - 1,
   elements |-> rb.elements]

RingFront(rb) == rb.elements[rb.start]

\* What the buffer holds, oldest first: the order rbuffer_map visits.
RingContents(rb) ==
  [i \in 1 .. rb.current |-> rb.elements[RingSlot(rb.start + i - 1)]]
=============================================================================
