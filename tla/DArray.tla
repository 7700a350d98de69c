------------------------------- MODULE DArray -------------------------------
(***************************************************************************)
(* The dynamic array of src/src/ds/darray.c: operators on an array as a    *)
(* value (bin heaps and hash map buckets are arrays too), then an array in *)
(* use.  Elements are <<key, tag>> pairs ordered by their keys; which of   *)
(* equal elements a sort puts first is not specified (module Sorting has   *)
(* the sorts).  Of the slots behind the last element only the number is    *)
(* kept: `alloc` slots exist, `capacity` is what the structure says.       *)
(***************************************************************************)
EXTENDS Order

CONSTANTS
  ArrayKeys,   \* the keys of elements
  ArrayMax,    \* the most elements the array in use ever has
  MaxCapacity  \* bound on the capacity the array is resized to

ASSUME DArrayAssumption ==
  ArrayKeys \subseteq Int /\ ArrayMax \in Nat \ {0} /\ MaxCapacity \in Nat

VARIABLES
  darr,      \* struct darray
  darrKeys,  \* ghost: how many elements with each key the array should hold
  darrFailed, \* ghost: how often realloc failed to shrink the array
  darrLoose   \* ghost: whether it failed to extend it

darrVars == <<darr, darrKeys, darrFailed, darrLoose>>

\* max_elts is -1 for an array without a limit; order is which of the flags
\* RCSW_DS_SORTED ("sorted") and RCSW_DS_ORDERED ("ordered") was given, noalloc
\* is RCSW_NOALLOC_DATA.
DArrays(elts) ==
  [elts : Seq(elts), capacity : Nat, alloc : Nat, max_elts : Int, sorted : BOOLEAN,
   order : {"none", "ordered", "sorted"}, noalloc : BOOLEAN]

\* darray_init; an array with a limit that allocates for itself must start
\* smaller than the limit.
DaInitOk(size, max, noalloc) == noalloc \/ max = -1 \/ size < max

DaNew(size, max, order, noalloc) ==
  LET slots == IF noalloc THEN max ELSE size
  IN  [elts |-> <<>>, capacity |-> slots, alloc |-> slots, max_elts |-> max,
       sorted |-> FALSE, order |-> order, noalloc |-> noalloc]

DaSize(a) == Len(a.elts)
DaIsFull(a) == DaSize(a) = a.max_elts
DaIsEmpty(a) == DaSize(a) = 0
\* darray_data_get, of an index below the size
DaGet(a, index) == a.elts[index + 1]
\* darray_data_set
DaSet(a, index, e) == [a EXCEPT !.elts[index + 1] = e]

\* darray_extend.  When realloc fails the "old" capacity it restores is the
\* new one.
DaExtend(a, size, reallocOk) ==
  IF a.noalloc THEN a
  ELSE [a EXCEPT !.capacity = size, !.alloc = IF reallocOk THEN size ELSE @]

\* darray_shrink.  One element fewer than the new capacity is kept.
DaShrink(a, size, reallocOk) ==
  IF size = 0 THEN [a EXCEPT !.capacity = 0, !.elts = <<>>]
  ELSE IF a.noalloc \/ ~reallocOk THEN a
  ELSE [a EXCEPT !.capacity = size, !.alloc = size,
                 !.elts = SubSeq(@, 1, IF Len(@) < size THEN Len(@) ELSE size - 1)]

\* darray_resize
DaResize(a, size, reallocOk) ==
  IF size > a.capacity THEN DaExtend(a, size, reallocOk)
  ELSE IF size < a.capacity THEN DaShrink(a, size, reallocOk) ELSE a

\* darray_sort: nothing is done to an array that is marked sorted.
DaSort(a) ==
  IF DaSize(a) <= 1 \/ a.sorted THEN a
  ELSE [a EXCEPT !.elts = StableSort(@), !.sorted = TRUE]

\* An element goes in at an index, and those behind it move up; without a flag
\* only the one that was there moves, to the end.
Placed(a, e, index) ==
  IF a.order = "ordered" \/ index = DaSize(a) THEN InsertAt(a.elts, index + 1, e)
  ELSE Append([a.elts EXCEPT ![index + 1] = e], a.elts[index + 1])

\* darray_insert fails when there is no room.
DaInsertOk(a, index) ==
  /\ index <= DaSize(a) /\ ~DaIsFull(a)
  /\ DaSize(a) >= a.capacity => ~a.noalloc

\* Mutant of DaInsert: the flag `sorted` is not reset.
DaInsertStale(a, e, index) ==
  DaSort([a EXCEPT !.elts = Placed(a, e, index), !.capacity = Greatest({@, DaSize(a) + 1}),
                   !.alloc = Greatest({@, DaSize(a) + 1})])

\* darray_insert once it passed its checks, and realloc gave what was asked.
DaInsert(a, e, index) ==
  LET grown == IF DaSize(a) < a.capacity THEN a
               ELSE DaExtend(a, Greatest({2 * a.capacity, 1}), TRUE)
      put   == [grown EXCEPT !.elts = Placed(a, e, index)]
  IN  IF a.order = "sorted" THEN DaSort([put EXCEPT !.sorted = FALSE]) ELSE put

\* darray_remove of an element of the array: a sorted array closes the gap, any
\* other fills it with the last element.  When a quarter of the capacity or
\* less is in use the array shrinks; the last element goes without that.
DaRemove(a, index, reallocOk) ==
  LET rest == IF a.order = "sorted" THEN RemoveAt(a.elts, index + 1)
              ELSE Front([a.elts EXCEPT ![index + 1] = Last(a.elts)])
      left == [a EXCEPT !.elts = rest]
  IN  IF ~DaIsEmpty(left) /\ 4 * Len(rest) <= a.capacity /\ ~a.noalloc
      THEN DaShrink(left, a.capacity \div 2, reallocOk)
      ELSE left

\* darray_clear
DaClear(a) == [a EXCEPT !.elts = <<>>]

\* darray_idx_query: a binary search when the array is marked sorted, otherwise
\* the last match of a scan.
DaQuery(a, e) ==
  LET hits == {i \in 0 .. DaSize(a) - 1 : Cmp(e, DaGet(a, i)) = 0}
  IN  IF a.sorted
      THEN BSearchRec([i \in 0 .. DaSize(a) - 1 |-> DaGet(a, i)], e, 0, DaSize(a) - 1)
      ELSE IF hits = {} THEN -1 ELSE Greatest(hits)

\* darray_copy: no copy (NULL) can be made of a full array with a limit.
DaCopyOk(a) == DaInitOk(DaSize(a), a.max_elts, a.noalloc)
DaCopy(a) ==
  [DaNew(DaSize(a), a.max_elts, a.order, a.noalloc) EXCEPT !.elts = a.elts, !.sorted = a.sorted]

\* darray_filter: an index does not advance past an element that is removed,
\* because another one takes its place.
FilterStep(st, key) ==
  IF DaGet(st.arr, st.i)[1] = key
  THEN [arr |-> DaRemove(st.arr, st.i, TRUE), i |-> st.i,
        out |-> DaInsert(st.out, DaGet(st.arr, st.i), DaSize(st.out))]
  ELSE [st EXCEPT !.i = @ + 1]

DaFilter(a, key) ==
  LET st[n \in 0 .. DaSize(a)] ==
        IF n = 0 THEN [arr |-> a, i |-> 0, out |-> DaNew(0, a.max_elts, a.order, FALSE)]
        ELSE FilterStep(st[n - 1], key)
  IN  st[DaSize(a)]

-----------------------------------------------------------------------------
\* An array in use.  When an extension fails (see DaExtend) its life ends here:
\* the next element is written behind the end of its memory.
KeySeq(a) == [i \in DOMAIN a.elts |-> a.elts[i][1]]
NoKeys == [k \in ArrayKeys |-> 0]

DarrInit ==
  /\ \/ \E size \in 0 .. 1, max \in {-1, ArrayMax}, order \in {"none", "ordered", "sorted"} :
           darr = DaNew(size, max, order, FALSE)
     \/ darr = DaNew(0, ArrayMax, "sorted", TRUE)
  /\ darrKeys = NoKeys /\ darrFailed = 0 /\ darrLoose = FALSE

DarrInsert(k, index) ==
  /\ DaInsertOk(darr, index) /\ DaSize(darr) < ArrayMax
  /\ darr' = DaInsert(darr, <<k, 0>>, index)
  /\ darrKeys' = [darrKeys EXCEPT ![k] = @ + 1]
  /\ UNCHANGED <<darrFailed, darrLoose>>

\* darray_insert into an array that is at its capacity, or darray_resize above
\* it, when realloc gives nothing: the call fails.
DarrExtendFails(size) ==
  /\ ~darr.noalloc /\ size > darr.capacity
  /\ \/ DaInsertOk(darr, DaSize(darr)) /\ DaSize(darr) >= darr.capacity
        /\ size = Greatest({2 * darr.capacity, 1})
     \/ size <= MaxCapacity
  /\ darr' = DaExtend(darr, size, FALSE)
  /\ darrLoose' = TRUE
  /\ UNCHANGED <<darrKeys, darrFailed>>

DarrRemove(index, reallocOk) ==
  /\ index < DaSize(darr)
  /\ reallocOk \/ darrFailed = 0
  /\ darr' = DaRemove(darr, index, reallocOk)
  /\ darrKeys' = [darrKeys EXCEPT ![DaGet(darr, index)[1]] = @ - 1]
  /\ darrFailed' = darrFailed + (IF reallocOk THEN 0 ELSE 1)
  /\ UNCHANGED darrLoose

\* darray_resize to a capacity above the size: below it elements are lost.
DarrResize(size) ==
  /\ size > DaSize(darr) \/ size = 0
  /\ darr' = DaResize(darr, size, TRUE)
  /\ darrKeys' = IF size = 0 THEN NoKeys ELSE darrKeys
  /\ UNCHANGED <<darrFailed, darrLoose>>

DarrSort == darr' = DaSort(darr) /\ UNCHANGED <<darrKeys, darrFailed, darrLoose>>

DarrClear ==
  darr' = DaClear(darr) /\ darrKeys' = NoKeys /\ UNCHANGED <<darrFailed, darrLoose>>

DarrFilter(k) ==
  /\ darr' = DaFilter(darr, k).arr
  /\ darrKeys' = [darrKeys EXCEPT ![k] = 0]
  /\ UNCHANGED <<darrFailed, darrLoose>>

DarrNext ==
  /\ ~darrLoose
  /\ \/ \E k \in ArrayKeys, i \in 0 .. ArrayMax : DarrInsert(k, i)
     \/ \E n \in 1 .. Greatest({2 * darr.capacity, MaxCapacity, 1}) : DarrExtendFails(n)
     \/ \E i \in 0 .. ArrayMax - 1, ok \in BOOLEAN : DarrRemove(i, ok)
     \/ \E n \in 0 .. MaxCapacity : DarrResize(n)
     \/ DarrSort \/ DarrClear
     \/ \E k \in ArrayKeys : DarrFilter(k)

DarrSpec == DarrInit /\ [][DarrNext]_darrVars

-----------------------------------------------------------------------------
\* Whether the flag `sorted` can be trusted: an array that is sorted by a call
\* of darray_sort and changed later, without RCSW_DS_SORTED, stays marked.
MarkIsTrue(a) == a.sorted => Ascending(a.elts)

\* The array holds exactly what was put in and not taken out, in no more slots
\* than exist.  Until an extension fails its capacity is not above them either;
\* kept sorted it is sorted; a query gives an element with the key when there
\* is one and -1 when there is none, unless the mark is stale (which of several
\* it gives: see QueryFindsFirst); and copies and filters lose nothing
\* (darray_insert, darray_remove with its shrinking and a realloc that fails,
\* darray_resize, darray_idx_query, darray_filter, darray_copy).
ArrayHoldsElements ==
  /\ darr \in DArrays(ArrayKeys \X {0})
  /\ \A k \in ArrayKeys : KeyCount(darr.elts, k) = darrKeys[k]
  /\ DaSize(darr) <= darr.alloc
  /\ \/ darrLoose
     \/ /\ DaSize(darr) <= darr.capacity /\ darr.capacity <= darr.alloc
        /\ darr.order = "sorted" => Ascending(darr.elts)
        /\ MarkIsTrue(darr) =>
             \A k \in ArrayKeys :
               LET i == DaQuery(darr, <<k, 0>>)
               IN  IF darrKeys[k] > 0 THEN i \in 0 .. DaSize(darr) - 1 /\ DaGet(darr, i)[1] = k
                   ELSE i = -1
        /\ \A k \in ArrayKeys :
             LET out == DaFilter(darr, k).out
             IN  DaSize(out) = darrKeys[k] /\ \A i \in DOMAIN out.elts : out.elts[i][1] = k
        /\ DaCopyOk(darr) => KeySeq(DaCopy(darr)) = KeySeq(darr)

\* What darray.h says of darray_idx_query: it finds the first occurrence of the
\* element.
QueryFindsFirst ==
  MarkIsTrue(darr) =>
    \A k \in ArrayKeys : darrKeys[k] > 0 =>
      \A i \in 0 .. DaSize(darr) - 1 : DaGet(darr, i)[1] = k => DaQuery(darr, <<k, 0>>) <= i

\* What the comment in darray_extend is there for: when realloc fails the array
\* is as it was, with room for as many elements as its capacity says.
ExtensionKeepsArray == darr.capacity <= darr.alloc
=============================================================================
