------------------------------ MODULE DynProg ------------------------------
(***************************************************************************)
(* The dynamic programs of src/src/algorithm: lcs.c, edit_dist.c,          *)
(* mcm_opt.c.  A string is a sequence, its character x[i - 1] here x[i];   *)
(* a table is a function from the flat index the code computes.  The rows  *)
(* of the tables of lcs.c and edit_dist.c have len_y + 1 entries, but are  *)
(* len_x entries apart.                                                    *)
(***************************************************************************)
EXTENDS Sorting

Unknown == -1

\* The highest index a table is used at, and the number of its entries.
TableSize(x, y) == (Len(x) + 1) * (Len(y) + 1)
LastIndex(x, y) == Len(x) * Len(x) + Len(y)
Table(x, y)     == [k \in 0 .. Greatest({TableSize(x, y) - 1, LastIndex(x, y)}) |-> Unknown]

\* The two loops over all i and j that store Cell(table, i, j).
FillTable(Cell(_, _, _), x, y) ==
  LET store(c, k) == LET i == k \div (Len(y) + 1)
                         j == k % (Len(y) + 1)
                     IN  [c EXCEPT ![i * Len(x) + j] = Cell(c, i, j)]
  IN  FoldLeft(store, Table(x, y), [k \in 1 .. TableSize(x, y) |-> k - 1])

-----------------------------------------------------------------------------
\* lcs_iter: the table, then the walk from its last entry that collects the
\* subsequence, going left where both neighbours are equal.
LcsTable(x, y) ==
  LET m == Len(x)
      Cell(c, i, j) == IF i = 0 \/ j = 0 THEN 0
                       ELSE IF x[i] = y[j] THEN c[(i - 1) * m + j - 1] + 1
                       ELSE Greatest({c[(i - 1) * m + j], c[i * m + j - 1]})
  IN  FillTable(Cell, x, y)

RECURSIVE LcsWalk(_, _, _, _, _)
LcsWalk(c, x, y, i, j) ==
  IF i = 0 \/ j = 0 THEN <<>>
  ELSE IF x[i] = y[j] THEN Append(LcsWalk(c, x, y, i - 1, j - 1), x[i])
  ELSE IF c[(i - 1) * Len(x) + j] > c[i * Len(x) + j - 1]
  THEN LcsWalk(c, x, y, i - 1, j) ELSE LcsWalk(c, x, y, i, j - 1)

LcsIter(x, y) ==
  LET c == LcsTable(x, y)
  IN  [size |-> c[LastIndex(x, y)], sequence |-> LcsWalk(c, x, y, Len(x), Len(y))]

\* lcs_rec_sub: the table with what the call remembered, and its result.
RECURSIVE LcsRecSub(_, _, _, _, _)
LcsRecSub(c, x, y, i, j) ==
  LET k    == i * Len(x) + j
      both == LcsRecSub(c, x, y, i + 1, j + 1)
      down == LcsRecSub(c, x, y, i + 1, j)
      left == LcsRecSub(down[1], x, y, i, j + 1)
      Keep(r, v) == <<[r[1] EXCEPT ![k] = v], v>>
  IN  IF i = Len(x) \/ j = Len(y) THEN <<c, 0>>
      ELSE IF c[k] >= 0 THEN <<c, c[k]>>
      ELSE IF x[i + 1] = y[j + 1] THEN Keep(both, both[2] + 1)
      ELSE Keep(left, Greatest({down[2], left[2]}))

LcsRec(x, y) == LcsRecSub(Table(x, y), x, y, 0, 0)[2]

-----------------------------------------------------------------------------
\* edit_dist_iter.
EditDistIter(x, y) ==
  LET m == Len(x)
      Cell(c, i, j) == IF i = 0 THEN j ELSE IF j = 0 THEN i
                       ELSE IF x[i] = y[j] THEN c[(i - 1) * m + j - 1]
                       ELSE 1 + Least({c[(i - 1) * m + j - 1], c[(i - 1) * m + j],
                                       c[i * m + j - 1]})
  IN  FillTable(Cell, x, y)[LastIndex(x, y)]

\* edit_dist_rec_sub (for elements of one byte, which its comparison assumes).
RECURSIVE EditDistRecSub(_, _, _, _, _)
EditDistRecSub(c, x, y, i, j) ==
  LET k    == i * Len(x) + j
      both == EditDistRecSub(c, x, y, i - 1, j - 1)
      del  == EditDistRecSub(both[1], x, y, i - 1, j)
      ins  == EditDistRecSub(del[1], x, y, i, j - 1)
      Keep(r, v) == <<[r[1] EXCEPT ![k] = v], v>>
  IN  IF c[k] >= 0 THEN <<c, c[k]>>
      ELSE IF i = 0 THEN <<c, j>> ELSE IF j = 0 THEN <<c, i>>
      ELSE IF x[i] = y[j] THEN Keep(both, both[2])
      ELSE Keep(ins, 1 + Least({both[2], del[2], ins[2]}))

EditDistRec(x, y) == EditDistRecSub(Table(x, y), x, y, Len(x), Len(y))[2]

-----------------------------------------------------------------------------
\* mcm_opt_optimize: dims are the dimensions of the chain (dims[1] rows, then
\* columns); results and route are matrices, filled in order of chain length.
McmCell(dims, c, j, k) ==
  LET cost(q) == c[j, q].cost + c[q + 1, k].cost + dims[j] * dims[q + 1] * dims[k + 1]
      best    == Least({cost(q) : q \in j .. k - 1})
  IN  [c EXCEPT ![j, k] = [cost |-> best, route |-> Least({q \in j .. k - 1 : cost(q) = best})]]

McmOptimize(dims) ==
  LET n     == Len(dims) - 1
      spans == SetToSortSeq({<<j, k>> \in (1 .. n) \X (1 .. n) : j < k},
                            LAMBDA a, b : \/ a[2] - a[1] < b[2] - b[1]
                                          \/ a[2] - a[1] = b[2] - b[1] /\ a[1] < b[1])
  IN  FoldLeft(LAMBDA c, s : McmCell(dims, c, s[1], s[2]),
               [s \in (1 .. n) \X (1 .. n) |-> [cost |-> 0, route |-> 0]], spans)

\* mcm_opt_report_parens.
RECURSIVE McmReport(_, _, _)
McmReport(c, i, j) ==
  LET k == c[i, j].route
  IN  IF i = j THEN <<>>
      ELSE McmReport(c, i, k) \o McmReport(c, k + 1, j)
             \o (IF i = k THEN <<k>> ELSE <<>>) \o (IF k + 1 = j THEN <<k + 1>> ELSE <<>>)

-----------------------------------------------------------------------------
\* References: what the results are defined to be.
Chosen(x, S) == LET at == SetToSortSeq(S, <) IN [k \in DOMAIN at |-> x[at[k]]]
Subsequences(x) == {Chosen(x, S) : S \in SUBSET DOMAIN x}
LongestCommon(x, y) == Greatest({Len(s) : s \in Subsequences(x) \cap Subsequences(y)})

\* An alignment of x and y keeps the letters of an increasing set of pairs of
\* positions together and replaces, deletes or inserts all others.
Alignments(x, y) ==
  {P \in SUBSET ((DOMAIN x) \X (DOMAIN y)) :
     \A p, q \in P : p = q \/ (p[1] < q[1] /\ p[2] < q[2]) \/ (q[1] < p[1] /\ q[2] < p[2])}
AlignmentCost(P, x, y) ==
  Len(x) + Len(y) - 2 * Cardinality(P) + Cardinality({p \in P : x[p[1]] # y[p[2]]})
LeastEdits(x, y) == Least({AlignmentCost(P, x, y) : P \in Alignments(x, y)})

RECURSIVE LeastMultiplications(_)
LeastMultiplications(dims) ==
  LET n == Len(dims)
  IN  IF n = 2 THEN 0
      ELSE Least({LeastMultiplications(SubSeq(dims, 1, q)) + LeastMultiplications(SubSeq(dims, q, n))
                    + dims[1] * dims[q] * dims[n] : q \in 2 .. n - 1})
=============================================================================
