------------------------------- MODULE RawFifo -------------------------------
(***************************************************************************)
(* The raw FIFO of src/src/ds/rawfifo.c: an array, a read and a write      *)
(* index, one slot always unused.  Arrays are bytes: the slots of the FIFO *)
(* are as far apart as a dptr_t is wide and the elements of a caller's     *)
(* array one byte, whatever the size of an element.  rawfifo_enq and       *)
(* rawfifo_deq replace the count they are given by the larger of it and    *)
(* what fits (the comment says they cap it), and a FIFO is followed up to  *)
(* the first call for which that makes a difference.                       *)
(***************************************************************************)
EXTENDS Order

CONSTANTS RawMax,     \* fifo->max_elts: the elements of the array, one of them unused
          RawEltSize, \* fifo->elt_size
          PtrAlign,   \* RCSW_CONFIG_PTR_ALIGN, the bytes of a dptr_t
          RawElts,    \* what a byte of an element can be
          RawJunk     \* what lies behind the end of a caller's array

ASSUME RawMaxAssumption ==
  RawMax \in Nat \ {0} /\ RawEltSize \in {1, 2, 4} /\ PtrAlign \in {1, 2, 4}

VARIABLES raw,       \* the structure
          queued,    \* ghost: the bytes of the elements that should be in it, oldest first
          rawRaised  \* ghost: a count was not what fits
rawVars == <<raw, queued, rawRaised>>

\* The bytes the slots take.
RawSpace == 0 .. PtrAlign * (RawMax - 1) + RawEltSize - 1

RawInit ==
  /\ raw = [to_i |-> 0, from_i |-> 0, elements |-> [p \in RawSpace |-> RawJunk]]
  /\ queued = <<>> /\ rawRaised = FALSE

RawSize(f) == IF f.to_i >= f.from_i THEN f.to_i - f.from_i
                                    ELSE f.to_i + (RawMax - f.from_i)
RawFree(f) == RawMax - RawSize(f) - 1

Larger(a, b) == IF a >= b THEN a ELSE b
Smaller(a, b) == IF a <= b THEN a ELSE b

\* rawfifo_enq(f, elts, n): n is raised to the free room, and the bytes missing
\* from elts are whatever lies behind it.  The last copy that reaches a byte
\* stays.
RawEnq(f, elts, n) ==
  LET m == Larger(RawFree(f), n)
      slot(i) == PtrAlign * ((f.to_i + i) % RawMax)
      copies(p) == {i \in 0 .. m - 1 : p - slot(i) \in 0 .. RawEltSize - 1}
      last(p) == Greatest(copies(p))
      src(x) == IF x < Len(elts) THEN elts[x + 1] ELSE RawJunk
  IN  [f EXCEPT !.to_i = (@ + m) % RawMax,
                !.elements = [p \in DOMAIN @ |->
                   IF copies(p) = {} THEN @[p] ELSE src(last(p) + (p - slot(last(p))))]]

\* The bytes rawfifo_deq leaves in the array of a caller who wants m elements.
RawTaken(f, m) ==
  LET last(x) == Smaller(x, m - 1)
      byte(x) == f.elements[PtrAlign * ((f.from_i + last(x)) % RawMax) + (x - last(x))]
  IN  [x \in 1 .. RawEltSize * m |-> IF x < m + RawEltSize THEN byte(x - 1) ELSE RawJunk]

\* Mutant of RawDeq: the last element dequeued stays in the FIFO.
RawDeqShort(f, n) ==
  LET m == Larger(RawSize(f), n)
  IN  [elts |-> RawTaken(f, m), fifo |-> [f EXCEPT !.from_i = (@ + m - 1) % RawMax]]

\* rawfifo_deq(f, n): n is raised to the number of elements.
RawDeq(f, n) ==
  LET m == Larger(RawSize(f), n)
  IN  [elts |-> RawTaken(f, m), fifo |-> [f EXCEPT !.from_i = (@ + m) % RawMax]]

\* Of n elements as many should go in as there is room for ...
RawFill(n) ==
  /\ \E s \in [1 .. RawEltSize * n -> RawElts] :
       /\ raw' = RawEnq(raw, s, n)
       /\ queued' = queued \o SubSeq(s, 1, RawEltSize * Smaller(n, RawFree(raw)))
  /\ rawRaised' = (n # RawFree(raw))

\* ... and as many come out as there are.
RawDrain(n) ==
  /\ raw' = RawDeq(raw, n).fifo
  /\ queued' = SubSeq(queued, RawEltSize * Smaller(n, RawSize(raw)) + 1, Len(queued))
  /\ rawRaised' = (n # RawSize(raw))

\* rawfifo_clear: the write index goes back to the read index.
RawClear ==
  /\ raw' = [raw EXCEPT !.to_i = raw.from_i]
  /\ queued' = <<>> /\ UNCHANGED rawRaised

RawNext ==
  /\ ~rawRaised
  /\ \/ \E n \in 0 .. RawMax : RawFill(n) \/ RawDrain(n)
     \/ RawClear

RawSpec == RawInit /\ [][RawNext]_rawVars

-----------------------------------------------------------------------------
\* What rawfifo.h says the FIFO can be used for: elements of 1, 2 or 4 bytes.  As
\* long as the counts fit, what was enqueued comes out.
ElementsComeOut == rawRaised \/ RawDeq(raw, RawSize(raw)).elts = queued

\* What rawfifo.c says of a count that is too large, and rawfifo.h of one that is
\* not: no more is removed than there is, and no more than was asked for.
CountsAreCapped == RawEltSize * RawSize(raw) = Len(queued)

\* Elements of one byte, in a build that aligns to bytes.
RawBytes == RawEltSize = 1 /\ PtrAlign = 1

\* All the bytes that were enqueued and nothing else come out, in order, wherever
\* the indices are in the array, and the size and the free room always add up to
\* the capacity, as long as every call asks for all the room or all there is
\* (rawfifo_enq, rawfifo_deq, rawfifo_size).
RawFifoKeepsOrder ==
  RawBytes /\ ~rawRaised =>
    /\ RawSize(raw) = Len(queued)
    /\ RawSize(raw) + RawFree(raw) = RawMax - 1
    /\ RawDeq(raw, Len(queued)).elts = queued
=============================================================================
