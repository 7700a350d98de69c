-------------------------------- MODULE Ring --------------------------------
(***************************************************************************)
(* A plain ring buffer in use (src/src/ds/rbuffer.c without                *)
(* RCSW_DS_RBUFFER_AS_FIFO): adding to a full buffer overwrites the oldest *)
(* element.  `newest` is what a client that only counts the calls expects  *)
(* the buffer to hold.                                                     *)
(***************************************************************************)
EXTENDS RBuffer, SequencesExt

VARIABLES
  ring,    \* the ring buffer
  newest,  \* the elements it should hold, oldest first
  cleared  \* has rbuffer_clear been called?  (TRUE ends a behaviour's prefix)

ringVars == <<ring, newest, cleared>>

RingInit == ring = EmptyRing /\ newest = <<>> /\ cleared = FALSE

RingPut(e) ==
  /\ ring' = RingAdd(ring, e)
  /\ newest' = Append(IF Len(newest) = MaxElts THEN Tail(newest) ELSE newest, e)
  /\ UNCHANGED cleared

RingTake ==
  /\ ~RingIsEmpty(ring)
  /\ ring' = RingRemove(ring)
  /\ newest' = Tail(newest)
  /\ UNCHANGED cleared

\* rbuffer_clear zeroes as many slots as there are elements, from slot 0 on:
\* not the slots in use.  Only `current` says that they are free.
RingClear(rb) ==
  [start |-> 0, current |-> 0,
   elements |-> [i \in Slots |-> IF i < rb.current THEN Unset ELSE rb.elements[i]]]

RingWipe ==
  /\ ring' = RingClear(ring)
  /\ newest' = <<>>
  /\ cleared' = TRUE

RingNext == RingTake \/ RingWipe \/ \E e \in Elts : RingPut(e)

RingSpec == RingInit /\ [][RingNext]_ringVars

\* rbuffer_index_query walks every slot once from the start, the slots of
\* removed elements too, and returns the index of the slot, or -1 (ERROR).
RingIndexQuery(rb, e) ==
  LET at(k) == RingSlot(rb.start + k)
      hits == {k \in Slots : rb.elements[at(k)] = e}
  IN  IF hits = {} THEN -1 ELSE at(CHOOSE k \in hits : \A l \in hits : k <= l)

-----------------------------------------------------------------------------
\* The buffer holds the newest elements in the order they came, whatever was
\* overwritten, removed or cleared before, and a query for one of them returns
\* the slot of its oldest copy (rbuffer_add, rbuffer_remove, rbuffer_clear,
\* rbuffer_index_query).
RingHoldsNewest ==
  /\ RingContents(ring) = newest
  /\ \A i \in DOMAIN newest :
       (\A j \in 1 .. i - 1 : newest[j] # newest[i])
          => RingIndexQuery(ring, newest[i]) = RingSlot(ring.start + i - 1)

\* "The index of the first element in the rbuffer that matches": what is found is
\* an element of the buffer.
QueryFindsElements ==
  \A e \in Elts : RingIndexQuery(ring, e) # -1 => \E i \in DOMAIN newest : newest[i] = e
=============================================================================
