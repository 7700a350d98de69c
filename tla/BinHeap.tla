------------------------------- MODULE BinHeap -------------------------------
(***************************************************************************)
(* The binary heap of src/src/ds/binheap.c in a dynamic array.  Slot 0 is  *)
(* a scratch slot for swaps, so the elements have the indices from 1 on    *)
(* and the array is one longer than the heap.                              *)
(***************************************************************************)
EXTENDS DArray

CONSTANTS
  HeapKeys,  \* the keys of elements
  HeapMax    \* params->max_elts

\* binheap_delete_key needs a key that no other is above.
ASSUME HeapAssumption ==
  /\ HeapKeys \subseteq Int /\ HeapMax \in Nat \ {0}
  /\ \E lo, hi \in HeapKeys : \A k \in HeapKeys : lo <= k /\ k <= hi

VARIABLES
  heap,      \* struct binheap: arr, and min for RCSW_DS_BINHEAP_MIN
  heapKeys,  \* ghost: how many elements with each key the heap should hold
  heapMishap \* ghost: the call, if any, after which order is not to be expected

heapVars == <<heap, heapKeys, heapMishap>>

Scratch == <<0, 0>>

\* binheap_init: room for the scratch slot is added to the sizes asked for.
BinHeaps(elts) == [arr : DArrays(elts), min : BOOLEAN]

HeapInit ==
  /\ \E size \in 0 .. HeapMax - 1, min \in BOOLEAN :
       heap = [arr |-> [DaNew(Greatest({1, size + 1}), HeapMax + 1, "none", FALSE)
                          EXCEPT !.elts = <<Scratch>>],
               min |-> min]
  /\ heapKeys = [k \in HeapKeys |-> 0]
  /\ heapMishap = "none"

HeapSize(h) == DaSize(h.arr) - 1
HeapIsEmpty(h) == DaSize(h.arr) = 1
HeapIsFull(h) == DaIsFull(h.arr)
HeapKey(h, i) == DaGet(h.arr, i)[1]
HeapPeek(h) == HeapKey(h, 1)

\* Has element i a higher priority than element j?
Above(h, i, j) == IF h.min THEN HeapKey(h, i) < HeapKey(h, j) ELSE HeapKey(h, i) > HeapKey(h, j)

\* binheap_swap: the scratch slot never takes part.
HeapSwap(h, i, j) ==
  IF i = 0 \/ j = 0 THEN h
  ELSE [h EXCEPT !.arr = DaSet(DaSet(@, i, DaGet(@, j)), j, DaGet(@, i))]

\* One round of the loop in binheap_sift_up, with the element at index st.i.
SiftUpStep(st) ==
  IF st.i <= 1 \/ ~Above(st.h, st.i, st.i \div 2) THEN st
  ELSE [h |-> HeapSwap(st.h, st.i, st.i \div 2), i |-> st.i \div 2]

\* Halving the index ends within i rounds.
SiftUp(h, i) ==
  LET st[n \in 0 .. i] == IF n = 0 THEN [h |-> h, i |-> i] ELSE SiftUpStep(st[n - 1])
  IN  st[i].h

\* The left child, if it has a higher priority than its parent.  It is also the
\* mutant of BestChild that does not look at the right child.
LeftChild(h, m) == IF 2 * m <= HeapSize(h) /\ Above(h, 2 * m, m) THEN 2 * m ELSE m

\* The child with the highest priority, if it has a higher one than its parent.
BestChild(h, m) ==
  LET left == LeftChild(h, m)
  IN  IF 2 * m + 1 <= HeapSize(h) /\ Above(h, 2 * m + 1, left) THEN 2 * m + 1 ELSE left

\* binheap_sift_down, which goes on with the child: it goes up for as long as
\* it has a higher priority.
SiftDownStep(st) ==
  LET best == BestChild(st.h, st.i)
  IN  IF best = st.i THEN st ELSE [h |-> HeapSwap(st.h, st.i, best), i |-> best]

SiftDown(h, m) ==
  LET st[n \in 0 .. HeapSize(h)] == IF n = 0 THEN [h |-> h, i |-> m] ELSE SiftDownStep(st[n - 1])
  IN  st[HeapSize(h)].h

HeapInsert(h, k) ==
  LET put == [h EXCEPT !.arr = DaInsert(@, <<k, 0>>, DaSize(@))]
  IN  SiftUp(put, HeapSize(put))

\* binheap_extract: the last element goes to the top, and the array may shrink.
LastToTop(h, reallocOk) ==
  LET last == DaGet(h.arr, DaSize(h.arr) - 1)
  IN  [h EXCEPT !.arr = DaRemove(DaSet(@, 1, last), DaSize(@) - 1, reallocOk)]
HeapExtract(h) == SiftDown(LastToTop(h, TRUE), 1)

\* When the array should shrink and realloc fails, the element at the top is not
\* sifted down.
ExtractShrinks(h) == HeapSize(h) > 0 /\ 4 * HeapSize(h) <= h.arr.capacity
HeapExtractFails(h) == LastToTop(h, FALSE)

\* binheap_update_key sifts up only: a key of lower priority stays where it is.
HeapUpdateKey(h, i, k) == SiftUp([h EXCEPT !.arr = DaSet(@, i, <<k, 0>>)], i)

\* binheap_delete_key, with a key no other is above.
HeapDeleteKey(h, i, minmax) == HeapExtract(HeapUpdateKey(h, i, minmax))

\* binheap_make: each element is put at its index, whatever was there goes to
\* the end and is cut off; then the inner nodes are sifted down, last first.
PutAll(h, keys) ==
  LET put[i \in 0 .. Len(keys)] ==
        IF i = 0 THEN h ELSE [put[i - 1] EXCEPT !.arr = DaInsert(@, <<keys[i], 0>>, i)]
  IN  put[Len(keys)]

HeapMake(h, keys) ==
  LET n == Len(keys)
      cut == [PutAll(h, keys) EXCEPT !.arr.elts = SubSeq(@, 1, n + 1)]
      sift[m \in 0 .. n \div 2] ==
        IF m = 0 THEN cut ELSE SiftDown(sift[m - 1], n \div 2 + 1 - m)
  IN  sift[n \div 2]

-----------------------------------------------------------------------------
\* What extraction should find: of the keys there are, the one with the highest
\* priority.
BestKey ==
  LET keys == {k \in HeapKeys : heapKeys[k] > 0}
  IN  IF heap.min THEN Least(keys) ELSE Greatest(keys)

MinMax == IF heap.min THEN Least(HeapKeys) ELSE Greatest(HeapKeys)

BhInsert(k) ==
  /\ ~HeapIsFull(heap)
  /\ heap' = HeapInsert(heap, k)
  /\ heapKeys' = [heapKeys EXCEPT ![k] = @ + 1]
  /\ UNCHANGED heapMishap

BhExtract ==
  /\ ~HeapIsEmpty(heap)
  /\ heap' = HeapExtract(heap)
  /\ heapKeys' = [heapKeys EXCEPT ![BestKey] = @ - 1]
  /\ UNCHANGED heapMishap

BhUpdateKey(i, k) ==
  /\ i <= HeapSize(heap)
  /\ IF heap.min THEN k <= HeapKey(heap, i) ELSE k >= HeapKey(heap, i)
  /\ heap' = HeapUpdateKey(heap, i, k)
  /\ heapKeys' = [[heapKeys EXCEPT ![HeapKey(heap, i)] = @ - 1] EXCEPT ![k] = @ + 1]
  /\ UNCHANGED heapMishap

BhDeleteKey(i) ==
  /\ i <= HeapSize(heap)
  /\ heap' = HeapDeleteKey(heap, i, MinMax)
  /\ heapKeys' = [heapKeys EXCEPT ![HeapKey(heap, i)] = @ - 1]
  /\ UNCHANGED heapMishap

BhMake(keys) ==
  /\ HeapSize(heap) + Len(keys) <= HeapMax
  /\ heap' = HeapMake(heap, keys)
  /\ heapKeys' = [k \in HeapKeys |-> Cardinality({i \in 1 .. Len(keys) : keys[i] = k})]
  /\ UNCHANGED heapMishap

\* The calls after which no order is kept; the life of a heap is followed up to
\* the first of them.
BhMishap(what) == heapMishap' = what /\ UNCHANGED heapKeys

\* binheap_update_key with a key of lower priority.
BhWorsenKey(i, k) ==
  /\ i <= HeapSize(heap)
  /\ IF heap.min THEN k > HeapKey(heap, i) ELSE k < HeapKey(heap, i)
  /\ heap' = HeapUpdateKey(heap, i, k)
  /\ BhMishap("update")

\* binheap_extract and binheap_delete_key when the shrinking array gets no memory.
BhExtractFails ==
  /\ ExtractShrinks(heap)
  /\ heap' = HeapExtractFails(heap)
  /\ BhMishap("extract")

BhDeleteFails(i) ==
  /\ i <= HeapSize(heap) /\ ExtractShrinks(heap)
  /\ heap' = HeapExtractFails(HeapUpdateKey(heap, i, MinMax))
  /\ BhMishap("extract")

\* binheap_make of more elements than there is room for: those up to the limit
\* are put in before the call fails.
BhMakeRefused(keys) ==
  /\ ~HeapIsFull(heap) /\ HeapSize(heap) + Len(keys) > HeapMax
  /\ heap' = PutAll(heap, SubSeq(keys, 1, HeapMax - HeapSize(heap)))
  /\ BhMishap("make")

\* binheap_clear empties the array, its scratch slot included.
BhClear ==
  /\ heap' = [heap EXCEPT !.arr = DaClear(@)]
  /\ BhMishap("clear")

HeapNext ==
  /\ heapMishap = "none"
  /\ \/ \E k \in HeapKeys : BhInsert(k)
     \/ BhExtract
     \/ \E i \in 1 .. HeapMax, k \in HeapKeys : BhUpdateKey(i, k)
     \/ \E i \in 1 .. HeapMax : BhDeleteKey(i)
     \/ \E n \in 1 .. HeapMax : \E keys \in [1 .. n -> HeapKeys] : BhMake(keys)
     \/ \E i \in 1 .. HeapMax, k \in HeapKeys : BhWorsenKey(i, k)
     \/ BhExtractFails
     \/ \E i \in 1 .. HeapMax : BhDeleteFails(i)
     \/ \E n \in 1 .. HeapMax : \E keys \in [1 .. n -> HeapKeys] : BhMakeRefused(keys)
     \/ BhClear

HeapSpec == HeapInit /\ [][HeapNext]_heapVars

-----------------------------------------------------------------------------
\* No element has a higher priority than its parent.
ParentsFirst == \A i \in 2 .. HeapSize(heap) : ~Above(heap, i, i \div 2)

\* Until one of the mishaps, no element has a higher priority than its parent, so
\* that extraction is in the order of priority, and behind the scratch slot the
\* heap holds exactly the keys put in and not taken out, in no more slots than
\* exist, also when the array grows or shrinks under it (binheap_insert,
\* binheap_extract, binheap_update_key, binheap_delete_key, binheap_make).
HeapOrdered ==
  \/ heapMishap # "none"
  \/ /\ heap \in BinHeaps((HeapKeys \X {0}) \cup {Scratch})
     /\ ParentsFirst
     /\ ~HeapIsEmpty(heap) => HeapPeek(heap) = BestKey
     /\ \A k \in HeapKeys : KeyCount(Tail(heap.arr.elts), k) = heapKeys[k]
     /\ DaSize(heap.arr) <= heap.arr.capacity /\ heap.arr.capacity <= heap.arr.alloc

\* What binheap.h says of struct binheap, after a binheap_make that failed: the
\* smallest or largest element is guaranteed to always be on the top.
OrderAfterFailedMake == heapMishap = "make" => ParentsFirst

\* What binheap.h says of binheap_extract, when the array could not shrink: the
\* heap is rebuilt after the element is removed.
RebuiltAfterExtract == heapMishap = "extract" => ParentsFirst

\* What binheap.h says of binheap_update_key: the new key is presumably a
\* decrease, but it doesn't have to be.
OrderAfterUpdate == heapMishap = "update" => ParentsFirst

\* What binheap.h says of binheap_clear: it empties the heap.
EmptyAfterClear == heapMishap = "clear" => HeapIsEmpty(heap)
=============================================================================
