------------------------------ MODULE Matrices ------------------------------
(***************************************************************************)
(* The matrices of src/src/ds: the matrix of a fixed size (matrix.c) with  *)
(* the graph kept in one (adj_matrix.c), and the matrix that grows         *)
(* (dyn_matrix.c), an array of arrays whose slots are used up to their     *)
(* capacity.  Rows and columns count from 0, as in the code.               *)
(***************************************************************************)
EXTENDS Order

CONSTANTS Vertices,  \* n_vertices of the graph
          Weights,   \* weights of edges, and values of a matrix: not NoEdge
          MaxSide    \* bound on the rows and columns a matrix grows to

VARIABLES graph,  \* struct adj_matrix
          edges,  \* ghost: the weight of every edge that should be there
          dyn,    \* struct dyn_matrix
          stored  \* ghost: the value of every place that was set

graphVars == <<graph, edges>>
dynVars   == <<dyn, stored>>

NoEdge == 0   \* 0, in a weighted graph NAN
Fresh  == -1  \* what malloc and realloc leave in a slot

ASSUME MatrixAssumption == Vertices \in Nat /\ MaxSide \in Nat /\ NoEdge \notin Weights

\* A ghost with one more place, or another value in one.
Putting(f, p, w) == [q \in DOMAIN f \cup {p} |-> IF q = p THEN w ELSE f[q]]

\* matrix_init, matrix_access and matrix_set: a flat array, row after row.
MatrixNew(rows, cols, e) ==
  [n_rows |-> rows, n_cols |-> cols, elements |-> [i \in 0 .. rows * cols - 1 |-> e]]
MatrixIndex(m, u, v)  == m.n_cols * u + v
MatrixAccess(m, u, v) == m.elements[MatrixIndex(m, u, v)]
MatrixSet(m, u, v, w) == [m EXCEPT !.elements[MatrixIndex(m, u, v)] = w]
MatrixIsSquare(m)     == m.n_rows = m.n_cols

\* matrix_transpose: in row i every element left of the diagonal changes places
\* with the one above it.
MatrixSwap(m, i, j) ==
  MatrixSet(MatrixSet(m, i, j, MatrixAccess(m, j, i)), j, i, MatrixAccess(m, i, j))

MatrixSwapRow(m, i) ==
  LET after[j \in 0 .. i] == IF j = 0 THEN m ELSE MatrixSwap(after[j - 1], i, j - 1)
  IN  after[i]

MatrixTranspose(m) ==
  LET after[i \in 0 .. m.n_rows] == IF i = 0 THEN m ELSE MatrixSwapRow(after[i - 1], i - 1)
  IN  after[m.n_rows]

-----------------------------------------------------------------------------
AdjNew(directed, weighted) ==
  [is_directed |-> directed, is_weighted |-> weighted, n_edges |-> 0,
   matrix |-> MatrixNew(Vertices, Vertices, NoEdge)]

EdgeQuery(g, u, v) == MatrixAccess(g.matrix, u, v) # NoEdge

\* adj_matrix_edge_addu: both directions are set and counted, one after the
\* other, whether they were there or not.
EdgeAddU(g, u, v) ==
  [g EXCEPT !.matrix = MatrixSet(MatrixSet(@, u, v, 1), v, u, 1), !.n_edges = @ + 2]

\* adj_matrix_edge_addd
EdgeAddD(g, u, v, w) ==
  [g EXCEPT !.matrix = MatrixSet(@, u, v, IF g.is_weighted THEN w ELSE 1), !.n_edges = @ + 1]

\* Mutant of EdgeRemove: the way back stays.
EdgeRemoveOneWay(g, u, v) ==
  [g EXCEPT !.matrix = MatrixSet(@, u, v, NoEdge),
            !.n_edges = @ - (IF g.is_directed THEN 1 ELSE 2)]

\* adj_matrix_edge_remove
EdgeRemove(g, u, v) ==
  IF g.is_directed THEN [g EXCEPT !.matrix = MatrixSet(@, u, v, NoEdge), !.n_edges = @ - 1]
  ELSE [g EXCEPT !.matrix = MatrixSet(MatrixSet(@, u, v, NoEdge), v, u, NoEdge),
                 !.n_edges = @ - 2]

Ends == 0 .. Vertices - 1

GraphInit ==
  /\ graph \in {AdjNew(TRUE, TRUE), AdjNew(TRUE, FALSE), AdjNew(FALSE, FALSE)}
  /\ edges = [e \in {} |-> 0]

\* Only edges that are not there are added, and only edges that are there are
\* removed: n_edges counts calls.  So an undirected graph has no loops.
GraphAdd(u, v, w) ==
  /\ <<u, v>> \notin DOMAIN edges
  /\ IF graph.is_directed
     THEN /\ graph' = EdgeAddD(graph, u, v, w)
          /\ edges' = Putting(edges, <<u, v>>, IF graph.is_weighted THEN w ELSE 1)
     ELSE /\ u # v
          /\ graph' = EdgeAddU(graph, u, v)
          /\ edges' = Putting(Putting(edges, <<u, v>>, 1), <<v, u>>, 1)

GraphRemove(u, v) ==
  /\ <<u, v>> \in DOMAIN edges
  /\ graph' = EdgeRemove(graph, u, v)
  /\ edges' = LET gone == IF graph.is_directed THEN {<<u, v>>} ELSE {<<u, v>>, <<v, u>>}
              IN  [e \in DOMAIN edges \ gone |-> edges[e]]

GraphTranspose ==
  /\ MatrixIsSquare(graph.matrix)
  /\ graph' = [graph EXCEPT !.matrix = MatrixTranspose(@)]
  /\ edges' = [e \in {<<d[2], d[1]>> : d \in DOMAIN edges} |-> edges[<<e[2], e[1]>>]]

GraphNext ==
  \/ \E u, v \in Ends, w \in Weights : GraphAdd(u, v, w)
  \/ \E u, v \in Ends : GraphRemove(u, v)
  \/ GraphTranspose

-----------------------------------------------------------------------------
\* A row, or the row of rows, made longer by darray_resize; it is never made
\* shorter.
Extended(row, size, e) == row \o [i \in 1 .. size - Len(row) |-> e]
FreshRow(size) == Extended(<<>>, size, Fresh)

\* dyn_matrix_init, dyn_matrix_access
DynNew(rows, cols) ==
  [n_rows |-> rows, n_cols |-> cols, rows |-> Extended(<<>>, rows, FreshRow(cols))]
DynAccess(m, u, v) == m.rows[u + 1][v + 1]

\* dyn_matrix_resize: the rows first, the new ones as long as the old ones
\* were, then the columns.
DynResize(m, u, v) ==
  LET taller == IF u >= m.n_rows
                THEN [m EXCEPT !.rows = Extended(@, u, FreshRow(m.n_cols)), !.n_rows = u] ELSE m
  IN  IF v >= taller.n_cols
      THEN [taller EXCEPT !.rows = [i \in DOMAIN @ |-> Extended(@[i], v, Fresh)], !.n_cols = v]
      ELSE taller

\* dyn_matrix_set: a place that does not exist yet is made.
DynSet(m, u, v, w) ==
  LET fit == IF u >= m.n_rows \/ v >= m.n_cols THEN DynResize(m, u + 1, v + 1) ELSE m
  IN  [fit EXCEPT !.rows[u + 1][v + 1] = w]

\* dyn_matrix_clear
DynClear(m, u, v) == [m EXCEPT !.rows[u + 1][v + 1] = 0]

\* dyn_matrix_transpose of a square matrix.
DynSwap(m, i, j) ==
  [m EXCEPT !.rows[i + 1][j + 1] = DynAccess(m, j, i), !.rows[j + 1][i + 1] = DynAccess(m, i, j)]

DynSwapRow(m, i) ==
  LET after[j \in 0 .. i] == IF j = 0 THEN m ELSE DynSwap(after[j - 1], i, j - 1)
  IN  after[i]

DynTranspose(m) ==
  LET after[i \in 0 .. m.n_rows] == IF i = 0 THEN m ELSE DynSwapRow(after[i - 1], i - 1)
  IN  after[m.n_rows]

DynInit ==
  /\ dyn = DynNew(1, 1)
  /\ stored = [p \in {} |-> 0]

DynNext ==
  \/ \E u, v \in 0 .. MaxSide - 1, w \in Weights :
       dyn' = DynSet(dyn, u, v, w) /\ stored' = Putting(stored, <<u, v>>, w)
  \/ \E u, v \in 0 .. MaxSide - 1 :
       /\ u < dyn.n_rows /\ v < dyn.n_cols
       /\ dyn' = DynClear(dyn, u, v) /\ stored' = Putting(stored, <<u, v>>, 0)
  \/ \E u, v \in 1 .. MaxSide : dyn' = DynResize(dyn, u, v) /\ UNCHANGED stored
  \/ /\ dyn.n_rows = dyn.n_cols
     /\ dyn' = DynTranspose(dyn)
     /\ stored' = [p \in {<<q[2], q[1]>> : q \in DOMAIN stored} |-> stored[<<p[2], p[1]>>]]

MatrixSpec ==
  GraphInit /\ DynInit
    /\ [][(GraphNext /\ UNCHANGED dynVars) \/ (DynNext /\ UNCHANGED graphVars)]_<<graphVars, dynVars>>

-----------------------------------------------------------------------------
\* A graph has exactly the edges added, reversed by transpositions, and not
\* removed, in both directions when it is undirected, and counts them; a
\* matrix that grows has every value set, wherever growing and transposing put
\* it, and all its rows stay of one length (adj_matrix.c, matrix.c, dyn_matrix.c).
MatricesKeepValues ==
  /\ \A u, v \in Ends : EdgeQuery(graph, u, v) <=> <<u, v>> \in DOMAIN edges
  /\ \A e \in DOMAIN edges : MatrixAccess(graph.matrix, e[1], e[2]) = edges[e]
  /\ graph.n_edges = Cardinality(DOMAIN edges)
  /\ ~graph.is_directed => MatrixTranspose(graph.matrix) = graph.matrix
  /\ Len(dyn.rows) = dyn.n_rows
  /\ \A i \in DOMAIN dyn.rows : Len(dyn.rows[i]) = dyn.n_cols
  /\ \A p \in DOMAIN stored : DynAccess(dyn, p[1], p[2]) = stored[p]
=============================================================================
