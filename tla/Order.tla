-------------------------------- MODULE Order --------------------------------
(***************************************************************************)
(* The order of elements and what relies on it: the binary search of       *)
(* src/src/algorithm/search.c and the order a stable sort leaves.  An      *)
(* element is <<key, tag>>, and cmpe compares keys; the tags tell equal    *)
(* elements apart.                                                         *)
(***************************************************************************)
EXTENDS Integers, Sequences, SequencesExt

Least(S) == CHOOSE x \in S : \A y \in S : x <= y
Greatest(S) == CHOOSE x \in S : \A y \in S : x >= y

Cmp(e1, e2) == e1[1] - e2[1]

Ascending(s) == \A i, j \in 1 .. Len(s) : i < j => s[i][1] <= s[j][1]

\* How many elements of a sequence have a key.
KeyCount(s, k) == Cardinality({i \in 1 .. Len(s) : s[i][1] = k})

\* bsearch_rec, whose ranges are parts of the first one; an array is a function
\* from 0 .. n - 1.
BSearchRec(a, e, low, high) ==
  LET search[r \in (low .. high + 1) \X (low - 1 .. high)] ==
        LET mid == (r[1] + r[2]) \div 2
            c   == Cmp(e, a[mid])
        IN  IF r[1] > r[2] THEN -1
            ELSE IF c = 0 THEN mid
            ELSE IF c < 0 THEN IF r[1] = mid THEN -1 ELSE search[<<r[1], mid - 1>>]
            ELSE IF r[2] = mid THEN -1 ELSE search[<<mid + 1, r[2]>>]
  IN  search[<<low, high>>]

\* The stable ascending order of a sequence.
StableSort(s) ==
  LET before(i, j) == \/ Cmp(s[i], s[j]) < 0
                      \/ Cmp(s[i], s[j]) = 0 /\ i < j
      at(k) == CHOOSE i \in DOMAIN s : Cardinality({j \in DOMAIN s : before(j, i)}) = k - 1
  IN  [k \in DOMAIN s |-> s[at(k)]]
=============================================================================
