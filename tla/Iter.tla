-------------------------------- MODULE Iter --------------------------------
(***************************************************************************)
(* The iterators of src/src/ds/iter.c over dynamic arrays, linked lists    *)
(* and ring buffers: what each call of ds_iter_next returns and where it   *)
(* leaves the iterator, and what a client sees that calls it until it gets *)
(* NULL.  A filter accepts the elements whose key is in a set; an iterator *)
(* without a filter accepts all.                                           *)
(***************************************************************************)
EXTENDS DArray, LList, Ring

\* ds_iter_init and ds_filter_init: the position of a new iterator.
IterStartArray(a, forward) == IF forward THEN 0 ELSE DaSize(a) - 1
IterStartList(li, forward) == IF forward THEN li.first ELSE li.last
IterStartRing(rb, forward) == IF forward THEN rb.start ELSE -1

\* Where a call leaves the iterator, and the element it returns, or none for
\* NULL.
At(pos, elt) == [pos |-> pos, elt |-> elt]

\* Mutant of NextOfArray: backwards the first element is not reached.
NextOfArrayButFirst(a, pos, forward, accept) ==
  IF pos \notin (IF forward THEN 0 ELSE 1) .. DaSize(a) - 1 \/ DaGet(a, pos)[1] \notin accept
  THEN At(pos, <<>>)
  ELSE At(IF forward THEN pos + 1 ELSE pos - 1, <<DaGet(a, pos)[1]>>)

\* ds_iter_next of an array.
NextOfArray(a, pos, forward, accept) ==
  LET ahead == IF forward THEN {i \in pos .. DaSize(a) - 1 : DaGet(a, i)[1] \in accept}
                          ELSE {i \in 0 .. pos : DaGet(a, i)[1] \in accept}
      i     == IF forward THEN Least(ahead) ELSE Greatest(ahead)
  IN  IF ahead = {} THEN At(IF forward THEN DaSize(a) ELSE -1, <<>>)
      ELSE At(IF forward THEN i + 1 ELSE i - 1, <<DaGet(a, i)[1]>>)

\* ds_iter_next of a list: elements are skipped in the direction of next, also
\* by a backward iterator (which has no filter).
NextOfList(hp, li, pos, forward, accept) ==
  LET s     == NodesOf(hp, li)
      ahead == {i \in DOMAIN s : hp[s[i]].data \in accept /\ \E j \in 1 .. i : s[j] = pos}
      node  == hp[s[Least(ahead)]]
  IN  IF ahead = {} THEN At(pos, <<>>)
      ELSE At(IF forward THEN node.next ELSE node.prev, <<node.data>>)

\* ds_iter_next of a ring buffer.  Forwards the position starts at rb.start and
\* counts from there again; after an element that is not accepted the same slot
\* is looked at until the position is behind the end.  Backwards positions are
\* reduced by the number of elements, not of slots, and there is no filter.
NextOfRing(rb, pos, forward, accept) ==
  LET elt(i) == rb.elements[RingSlot(i)]
      back   == ((IF pos = -1 THEN rb.start ELSE pos) + rb.current - 1) % rb.current
  IN  IF forward
      THEN IF pos >= rb.current THEN At(pos, <<>>)
           ELSE IF elt(rb.start + pos) \in accept THEN At(pos + 1, <<elt(rb.start + pos)>>)
           ELSE At(rb.current, <<>>)
      ELSE IF pos = rb.start THEN At(pos, <<>>) ELSE At(back, <<elt(back)>>)

\* What a client sees in at most so many calls; it stops at NULL.
Visit(next, start, calls) ==
  LET after[n \in 0 .. calls] ==
        IF n = 0 THEN At(start, <<>>)
        ELSE LET was == after[n - 1]
                 got == next[was.pos]
             IN  IF got.elt = <<>> THEN was ELSE At(got.pos, was.elt \o got.elt)
  IN  after[calls].elt

\* One call more than there are elements is made: it must return NULL.
VisitArray(a, forward, accept) ==
  Visit([p \in -1 .. DaSize(a) |-> NextOfArray(a, p, forward, accept)],
        IterStartArray(a, forward), DaSize(a) + 1)

VisitList(hp, li, forward, accept) ==
  Visit([p \in ListNodes \cup {Null} |-> NextOfList(hp, li, p, forward, accept)],
        IterStartList(li, forward), li.current + 1)

VisitRing(rb, forward, accept) ==
  Visit([p \in -1 .. MaxElts |-> NextOfRing(rb, p, forward, accept)],
        IterStartRing(rb, forward), rb.current + 1)

-----------------------------------------------------------------------------
\* An iterator visits every element once, in order or in reverse order, and a
\* filter exactly the elements it accepts.  A ring buffer has that only when
\* it starts in slot 0, is not empty and is not filtered: see NextOfRing
\* (ds_iter_init, ds_filter_init, ds_iter_next).
IterationVisitsAll ==
  /\ VisitArray(darr, FALSE, ArrayKeys) = Reverse(KeySeq(darr))
  /\ \A accept \in SUBSET ArrayKeys :
       VisitArray(darr, TRUE, accept) = Selected(KeySeq(darr), accept)
  /\ \A l \in Lists :
       /\ VisitList(nodes, list[l], FALSE, ListKeys) = Reverse(KeysOf(nodes, list[l]))
       /\ \A accept \in SUBSET ListKeys :
            VisitList(nodes, list[l], TRUE, accept) = Selected(KeysOf(nodes, list[l]), accept)
  /\ ring.start = 0 /\ ~RingIsEmpty(ring) =>
       /\ VisitRing(ring, TRUE, Elts) = newest
       /\ VisitRing(ring, FALSE, Elts) = Reverse(newest)

\* "Iterate over all of the elements of a data structure", wherever a ring buffer
\* starts.
RingIterationVisitsAll == ~RingIsEmpty(ring) => VisitRing(ring, TRUE, Elts) = newest

\* "Iterate over SOME of the elements": those the filter accepts, of a ring buffer
\* that starts in slot 0.
RingFilterVisitsAccepted ==
  ring.start = 0 => \A accept \in SUBSET Elts : VisitRing(ring, TRUE, accept) = Selected(newest, accept)
=============================================================================
