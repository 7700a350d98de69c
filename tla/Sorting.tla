------------------------------- MODULE Sorting -------------------------------
(***************************************************************************)
(* src/src/algorithm/sort.c, search.c and alg_arr_largest_num of           *)
(* algorithm.c.  An array is a function from 0 .. n - 1, a linked list a   *)
(* sequence of nodes of elements that module Order compares.  The          *)
(* operators are those loops; the reference they are compared with is at   *)
(* the end.                                                                *)
(***************************************************************************)
EXTENDS Order

SwapElts(a, i, j) == [a EXCEPT ![i] = a[j], ![j] = a[i]]

-----------------------------------------------------------------------------
\* partition: the pivot is the element at lo; left stops at an element that is
\* larger than it, right at one that is not.
RECURSIVE PartitionFrom(_, _, _, _, _)
PartitionFrom(a, lo, hi, left, right) ==
  LET l == Least({i \in left .. hi : Cmp(a[i], a[lo]) > 0 \/ i = hi})
      r == Greatest({i \in 0 .. right : Cmp(a[i], a[lo]) <= 0 \/ i = 0})
  IN  IF left >= right THEN [arr |-> SwapElts(a, lo, right), pivot |-> right]
      ELSE PartitionFrom(IF l < r THEN SwapElts(a, l, r) ELSE a, lo, hi, l, r)

Partition(a, lo, hi) == PartitionFrom(a, lo, hi, lo, hi)

RECURSIVE QSortRec(_, _, _)
QSortRec(a, lo, hi) ==
  IF hi <= lo THEN a
  ELSE LET p == Partition(a, lo, hi)
       IN  QSortRec(QSortRec(p.arr, lo, p.pivot - 1), p.pivot + 1, hi)

\* The loop of qsort_iter; `depth` is the highest index of the stack written
\* so far, plus one.
RECURSIVE QSortLoop(_, _, _)
QSortLoop(a, stack, depth) ==
  IF stack = <<>> THEN [arr |-> a, depth |-> depth]
  ELSE LET top == stack[Len(stack)]
           p   == Partition(a, top[1], top[2])
           pushed == Front(stack)
                       \o (IF p.pivot - 1 > top[1] THEN <<<<top[1], p.pivot - 1>>>> ELSE <<>>)
                       \o (IF p.pivot + 1 < top[2] THEN <<<<p.pivot + 1, top[2]>>>> ELSE <<>>)
       IN  QSortLoop(p.arr, pushed, Greatest({depth, 2 * Len(pushed)}))

QSortIter(a, hi) == QSortLoop(a, <<<<0, hi>>>>, 2)

\* The element at i goes down to where no larger one is in front of it.
InsertOne(a, i) ==
  LET j == Least({k \in 0 .. i : \A l \in k .. i - 1 : Cmp(a[l], a[i]) > 0})
  IN  [k \in DOMAIN a |-> IF k = j THEN a[i]
                          ELSE IF k \in j + 1 .. i THEN a[k - 1] ELSE a[k]]

InsertionSort(a, n) == FoldLeft(InsertOne, a, [i \in 1 .. n - 1 |-> i])

-----------------------------------------------------------------------------
\* Mutant of Merge: of two equal elements the right one comes first.
RECURSIVE MergeRightFirst(_, _)
MergeRightFirst(s, t) ==
  IF s = <<>> THEN t ELSE IF t = <<>> THEN s
  ELSE IF Cmp(Head(s), Head(t)) < 0 THEN <<Head(s)>> \o MergeRightFirst(Tail(s), t)
                                    ELSE <<Head(t)>> \o MergeRightFirst(s, Tail(t))

\* The merging loops of both merge sorts.
RECURSIVE Merge(_, _)
Merge(s, t) ==
  IF s = <<>> THEN t ELSE IF t = <<>> THEN s
  ELSE IF Cmp(Head(s), Head(t)) <= 0 THEN <<Head(s)>> \o Merge(Tail(s), t)
                                     ELSE <<Head(t)>> \o Merge(s, Tail(t))

\* mergesort_rec: the two pointers meet after the first half.
RECURSIVE MergeSortRec(_)
MergeSortRec(s) ==
  LET half == Len(s) \div 2
  IN  IF Len(s) <= 1 THEN s
      ELSE Merge(MergeSortRec(SubSeq(s, 1, half)), MergeSortRec(SubSeq(s, half + 1, Len(s))))

\* A pass of mergesort_iter merges neighbouring runs of `size` nodes.
RECURSIVE MergePass(_, _)
MergePass(s, size) ==
  IF s = <<>> THEN <<>>
  ELSE LET upTo(n) == IF n < Len(s) THEN n ELSE Len(s)
       IN  Merge(SubSeq(s, 1, upTo(size)), SubSeq(s, size + 1, upTo(2 * size)))
             \o MergePass(SubSeq(s, 2 * size + 1, Len(s)), size)

\* Passes until one does a single merge.
RECURSIVE MergeSortIter(_, _)
MergeSortIter(s, size) ==
  IF 2 * size >= Len(s) THEN MergePass(s, size)
  ELSE MergeSortIter(MergePass(s, size), 2 * size)

-----------------------------------------------------------------------------
\* alg_arr_largest_num, 0 for an empty array.
LargestNum(a) == Greatest({0} \cup {a[i] : i \in DOMAIN a})

\* radix_sort_prefix_sum: how many elements have a digit up to d.
PrefixSums(a, digit, base) ==
  [d \in 0 .. base - 1 |-> Cardinality({i \in DOMAIN a : (a[i] \div digit) % base <= d})]

\* Where radix_counting_sort, which goes from the last element down, puts
\* element i.
CountingSlot(a, digit, base, i) ==
  LET d(j) == (a[j] \div digit) % base
  IN  PrefixSums(a, digit, base)[d(i)] - 1
        - Cardinality({j \in DOMAIN a : j > i /\ d(j) = d(i)})

\* radix_counting_sort.  The loop ends before element 0: it is not copied, and
\* the zero tmp was cleared with stays in its slot.
CountingSort(a, digit, base) ==
  [s \in DOMAIN a |->
     IF \E i \in DOMAIN a \ {0} : CountingSlot(a, digit, base, i) = s
     THEN a[CHOOSE i \in DOMAIN a \ {0} : CountingSlot(a, digit, base, i) = s]
     ELSE 0]

\* radix_sort: a counting sort for each digit of the largest number.
RECURSIVE RadixFrom(_, _, _, _)
RadixFrom(a, m, exp, base) ==
  IF m \div exp = 0 THEN a
  ELSE RadixFrom(CountingSort(a, exp, base), m, exp * base, base)

RadixSort(a, base) == RadixFrom(a, LargestNum(a), 1, base)

-----------------------------------------------------------------------------
RECURSIVE BSearchIter(_, _, _, _)
BSearchIter(a, e, low, high) ==
  LET index == (low + high) \div 2
  IN  IF low > high THEN -1
      ELSE IF Cmp(a[index], e) = 0 THEN index
      ELSE IF Cmp(e, a[index]) < 0 THEN BSearchIter(a, e, low, index - 1)
      ELSE BSearchIter(a, e, index + 1, high)

-----------------------------------------------------------------------------
\* The reference.
AsSeq(a) == [i \in 1 .. Cardinality(DOMAIN a) |-> a[i - 1]]
Count(e, s) == Cardinality({i \in DOMAIN s : s[i] = e})

\* b is a in ascending order of keys; equal elements may have changed places.
SortsTo(a, b) ==
  /\ \A i \in DOMAIN b : i + 1 \in DOMAIN b => Cmp(b[i], b[i + 1]) <= 0
  /\ DOMAIN b = DOMAIN a
  /\ \A i \in DOMAIN a : Count(a[i], a) = Count(a[i], b)

FindsIn(a, e, i) == IF \E j \in DOMAIN a : Cmp(a[j], e) = 0
                    THEN i \in DOMAIN a /\ Cmp(a[i], e) = 0 ELSE i = -1
=============================================================================
