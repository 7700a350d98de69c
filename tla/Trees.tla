------------------------------- MODULE Trees -------------------------------
(***************************************************************************)
(* The search trees of src/src/ds: the plain tree (bstree.c), the          *)
(* red-black tree (rbtree.c) and its two uses, the order statistics tree   *)
(* (ostree.c) and the interval tree (inttree.c).  A node is known by its   *)
(* key.  Two sentinels are nodes too: TreeRoot, whose left child is the    *)
(* root, and TreeNil, which stands for every absent child and whose parent *)
(* is whatever the last removal wrote there.                               *)
(***************************************************************************)
EXTENDS Integers, FiniteSets, SequencesExt

CONSTANTS TreeKeys,   \* keys, and low ends of intervals: positive integers
          TreeMax,    \* max_elts, obeyed by trees with a pool of nodes only
          TreeHighs   \* high ends of intervals

VARIABLES tree,      \* the nodes, and flags and size of the handle
          treeKeys,  \* the keys inserted and not removed, with their high ends
          treeCut    \* a node was removed since the tree was last empty

treeVars == <<tree, treeKeys, treeCut>>

TreeNil  == -1
TreeRoot == 0
IntMin   == -100
Sides    == {"left", "right"}
Other(s) == CHOOSE o \in Sides : o # s

IsRB(kind) == kind # "bst"
Kinds      == {"bst", "rb", "os", "int"}

TreeNode(parent, aux, high) ==
  [left |-> TreeNil, right |-> TreeNil, parent |-> parent, red |-> FALSE,
   aux |-> aux, high |-> high]

\* bstree_init_internal with inttree_init_helper or ostree_init_helper: the
\* field for an interval's maximum or a subtree's size, INT_MIN or 0.
TreeEmpty(kind, pool) ==
  LET sentinel == TreeNode(TreeNil, IF kind = "int" THEN IntMin ELSE 0, IntMin)
  IN  [kind |-> kind, pool |-> pool, current |-> 0,
       node |-> [n \in {TreeNil, TreeRoot} |-> sentinel]]

\* Mutant of UpdateAux: the right child is forgotten.
UpdateAuxLeft(kind, t, n) ==
  IF kind \in {"int", "os"} /\ t[n].parent # n
  THEN [t EXCEPT ![n].aux = IF kind = "os" THEN t[t[n].left].aux + 1
                            ELSE IF t[t[n].left].aux > t[n].high THEN t[t[n].left].aux ELSE t[n].high]
  ELSE t

\* inttree_node_update_max and ostree_node_update_count (not for the nil node).
UpdateAux(kind, t, n) ==
  LET l == t[t[n].left].aux
      r == t[t[n].right].aux
  IN  CASE kind = "int" -> [t EXCEPT ![n].aux =
                             CHOOSE m \in {l, r, t[n].high} : m >= l /\ m >= r /\ m >= t[n].high]
        [] kind = "os" /\ t[n].parent # n -> [t EXCEPT ![n].aux = l + r + 1]
        [] OTHER -> t

\* bstree_node_rotate_left (side "left") and bstree_node_rotate_right: the
\* child c on the far side gives up its own child on this side, takes n's
\* place, and n below it.
Adopt(t, n, far, c, side) ==
  LET u == [t EXCEPT ![n][far] = t[c][side]]
  IN  IF u[c][side] = TreeNil THEN u ELSE [u EXCEPT ![u[c][side]].parent = n]
Lift(t, n, c) ==
  LET u == [t EXCEPT ![c].parent = t[n].parent]
      p == u[n].parent
  IN  [u EXCEPT ![p][IF n = u[p].left THEN "left" ELSE "right"] = c]
Hang(t, n, c, side) == [[t EXCEPT ![c][side] = n] EXCEPT ![n].parent = c]

Rotate(kind, t, n, side) ==
  LET c == t[n][Other(side)]
  IN  UpdateAux(kind, UpdateAux(kind,
        Hang(Lift(Adopt(t, n, Other(side), c, side), n, c), n, c, side), n), c)

Paint(t, n, red) == [t EXCEPT ![n].red = red]

SideOf(t, n) == IF n = t[t[n].parent].left THEN "left" ELSE "right"

\* rbtree_insert_fixup.
RECURSIVE InsertFixup(_, _, _)
InsertFixup(kind, t, n) ==
  LET p     == t[n].parent
      g     == t[p].parent
      side  == SideOf(t, p)
      uncle == t[g][Other(side)]
  IN  IF ~t[p].red THEN t
      ELSE IF t[uncle].red
      THEN InsertFixup(kind, Paint(Paint(Paint(t, p, FALSE), uncle, FALSE), g, TRUE), g)
      ELSE LET inner == n = t[p][Other(side)]
               t1    == IF inner THEN Rotate(kind, t, p, side) ELSE t
               m     == IF inner THEN p ELSE n
               q     == t1[m].parent
               t2    == Paint(Paint(t1, q, FALSE), t1[q].parent, TRUE)
           IN  InsertFixup(kind, Rotate(kind, t2, t2[q].parent, Other(side)), m)

Sibling(t, n, side) == t[t[n].parent][Other(side)]

\* The cases of rbtree_delete_fixup for a red sibling, for one whose far child
\* is black, and for the others.
WithBlackSibling(kind, t, n, side) ==
  LET s == Sibling(t, n, side)  p == t[n].parent
  IN  IF t[s].red THEN Rotate(kind, Paint(Paint(t, s, FALSE), p, TRUE), p, side) ELSE t

WithRedNephew(kind, t, n, side) ==
  LET s == Sibling(t, n, side)
  IN  IF t[t[s][Other(side)]].red THEN t
      ELSE Rotate(kind, Paint(Paint(t, t[s][side], FALSE), s, TRUE), s, Other(side))

Balanced(kind, t, n, side) ==
  LET s == Sibling(t, n, side)  p == t[n].parent
      u == Paint(Paint(Paint(t, s, t[p].red), p, FALSE), t[s][Other(side)], FALSE)
  IN  Paint(Rotate(kind, u, p, side), n, FALSE)

\* rbtree_delete_fixup: node is black and one black short.  The loop does not
\* stop at the root: above it, the sentinels are recoloured and rotated.
RECURSIVE DeleteFixup(_, _, _)
DeleteFixup(kind, t, n) ==
  LET side == SideOf(t, n)
      u    == WithBlackSibling(kind, t, n, side)
      s    == Sibling(u, n, side)
  IN  IF t[n].red THEN Paint(t, n, FALSE)
      ELSE IF ~u[u[s].right].red /\ ~u[u[s].left].red
      THEN DeleteFixup(kind, Paint(u, s, TRUE), u[n].parent)
      ELSE Balanced(kind, WithRedNephew(kind, u, n, side), n, side)

\* inttree_high_fixup: up to, and without, the root's node.
RECURSIVE UpdateMaxUpwards(_, _)
UpdateMaxUpwards(t, n) ==
  IF n = t[TreeRoot].left THEN t
  ELSE UpdateMaxUpwards(UpdateAux("int", t, n), t[n].parent)

\* ostree_count_fixup: up to the root sentinel, whose own count, which falls
\* with every removal of a child of it and which nothing reads, is left out.
RECURSIVE UpdateCountUpwards(_, _)
UpdateCountUpwards(t, n) ==
  IF n = TreeRoot THEN t
  ELSE UpdateCountUpwards(UpdateAux("os", t, n), t[n].parent)

FixAux(kind, t, n, deleted) ==
  CASE kind = "int" -> UpdateMaxUpwards([t EXCEPT ![n].aux = t[n].high], n)
    [] kind = "os" -> UpdateCountUpwards(t, IF deleted THEN t[n].parent ELSE n)
    [] OTHER -> t

\* rbtree_node_black_height: down the left children.
RECURSIVE BlackHeight(_, _)
BlackHeight(t, n) ==
  IF t[n].left = n \/ t[n].right = n THEN 0
  ELSE BlackHeight(t, t[n].left) + (IF t[n].red THEN 0 ELSE 1)

\* The checks at the end of an insertion and a removal, which return ERROR.
LooksRedBlack(t) ==
  LET top == t[t[TreeRoot].left]
  IN  ~t[TreeRoot].red /\ ~t[TreeNil].red /\ BlackHeight(t, top.left) = BlackHeight(t, top.right)

\* bstree_node_query, and the place where bstree_insert_internal stops.
RECURSIVE Descend(_, _, _, _)
Descend(t, n, parent, key) ==
  IF n \in {TreeNil, key} THEN [node |-> n, parent |-> parent]
  ELSE Descend(t, IF key < n THEN t[n].left ELSE t[n].right, n, key)
TreeQuery(t, key) == Descend(t, t[TreeRoot].left, TreeRoot, key).node

-----------------------------------------------------------------------------
\* bstree_node_create: nodes and datablocks come from the heap, or from pools
\* of max_elts + 2 that the sentinels are taken from too.
NodeAvailable(tr) == tr.pool => Cardinality(DOMAIN tr.node) < TreeMax + 2

\* The end of both operations: ERROR if the checks fail, although the nodes
\* are changed, and the new number of elements otherwise.
Checked(tr, t, remaining, change) ==
  IF IsRB(tr.kind) /\ ~LooksRedBlack(t) THEN [ok |-> FALSE, tree |-> [tr EXCEPT !.node = t]]
  ELSE [ok |-> TRUE, tree |-> [tr EXCEPT !.node = [n \in remaining |-> t[n]], !.current = @ + change]]

Attached(t, p, key, high) ==
  LET side == IF p = TreeRoot \/ key < p THEN "left" ELSE "right"
  IN  [n \in DOMAIN t \cup {key} |->
         IF n = key THEN TreeNode(p, 0, high)
         ELSE IF n = p THEN [t[p] EXCEPT ![side] = key] ELSE t[n]]
BlackTop(t) == Paint(t, t[TreeRoot].left, FALSE)

\* bstree_insert_internal.
TreeInsert(tr, key, high) ==
  LET at == Descend(tr.node, tr.node[TreeRoot].left, TreeRoot, key)
      t  == Attached(tr.node, at.parent, key, high)
  IN  IF at.node = key \/ ~NodeAvailable(tr) THEN [ok |-> FALSE, tree |-> tr]
      ELSE Checked(tr, IF ~IsRB(tr.kind) THEN t
                       ELSE BlackTop(InsertFixup(tr.kind,
                              Paint(FixAux(tr.kind, t, key, FALSE), key, TRUE), key)),
                   DOMAIN t, 1)

\* bstree_node_successor of a node with a right child.
RECURSIVE Leftmost(_, _)
Leftmost(t, n) == IF t[n].left = TreeNil THEN n ELSE Leftmost(t, t[n].left)

Successor(t, n) == Leftmost(t, t[n].right)

\* bstree_delete: y is the node that leaves its place, x the child that takes
\* it; then y takes the victim's.
Unhung(t, y, x) ==
  LET p == t[y].parent
      u == [t EXCEPT ![x].parent = p]
  IN  [u EXCEPT ![p][IF p = TreeRoot \/ y = u[p].left THEN "left" ELSE "right"] = x]

InPlaceOf(t, v, y) ==
  LET w == t[v]
      u == [t EXCEPT ![y].left = w.left, ![y].right = w.right,
                     ![y].parent = w.parent, ![y].red = w.red,
                     ![w.right].parent = y, ![w.left].parent = y]
  IN  IF y = v THEN t
      ELSE [u EXCEPT ![w.parent][IF v = u[w.parent].left THEN "left" ELSE "right"] = y]

TreeDelete(tr, v) ==
  LET t == tr.node
      y == IF t[v].left = TreeNil \/ t[v].right = TreeNil THEN v ELSE Successor(t, v)
      x == IF t[y].left = TreeNil THEN t[y].right ELSE t[y].left
      u == Unhung(t, y, x)
  IN  Checked(tr, InPlaceOf(IF IsRB(tr.kind) /\ ~u[y].red
                            THEN DeleteFixup(tr.kind, FixAux(tr.kind, u, x, TRUE), x) ELSE u, v, y),
              DOMAIN t \ {v}, -1)

\* bstree_remove.
TreeRemove(tr, key) ==
  IF TreeQuery(tr.node, key) = TreeNil THEN [ok |-> FALSE, tree |-> tr]
  ELSE TreeDelete(tr, key)

\* bstree_traverse_nodes_inorder, with a callback that notes the key.
RECURSIVE InOrder(_, _)
InOrder(t, n) ==
  IF n = TreeNil THEN <<>> ELSE InOrder(t, t[n].left) \o <<n>> \o InOrder(t, t[n].right)

\* bstree_node_height: 0 at the sentinel.
RECURSIVE Height(_, _)
Height(t, n) ==
  IF n \in {t[n].parent, t[n].left, t[n].right} \/ n = TreeNil THEN 0
  ELSE 1 + (IF Height(t, t[n].left) > Height(t, t[n].right)
            THEN Height(t, t[n].left) ELSE Height(t, t[n].right))

\* ostree_select and ostree_rank.
RECURSIVE OsSelect(_, _, _)
OsSelect(t, n, i) ==
  LET k == t[t[n].left].aux
  IN  IF n = TreeNil \/ i = k THEN n
      ELSE IF i < k THEN OsSelect(t, t[n].left, i) ELSE OsSelect(t, t[n].right, i - (k + 1))

RECURSIVE RankUpwards(_, _)
RankUpwards(t, n) ==
  LET p == t[n].parent
  IN  IF n = TreeRoot THEN 0
      ELSE RankUpwards(t, p) + (IF n = t[p].right THEN t[t[p].left].aux + 1 ELSE 0)
OsRank(t, n) == t[t[n].left].aux + RankUpwards(t, n)

\* inttree_cmp_overlap and inttree_overlap_search; an interval is [low, high].
Overlap(a, b) == IF a[1] <= b[1] THEN b[1] <= a[2] ELSE a[1] <= b[2]

RECURSIVE OverlapSearch(_, _, _)
OverlapSearch(t, n, iv) ==
  IF n = TreeNil \/ Overlap(<<n, t[n].high>>, iv) THEN n
  ELSE IF t[n].left # TreeNil /\ t[t[n].left].aux >= iv[1]
  THEN OverlapSearch(t, t[n].left, iv) ELSE OverlapSearch(t, t[n].right, iv)

-----------------------------------------------------------------------------
TreeInit ==
  /\ tree \in {TreeEmpty(kind, FALSE) : kind \in Kinds} \cup {TreeEmpty("rb", TRUE)}
  /\ treeKeys = [k \in {} |-> 0]
  /\ treeCut = FALSE

TreeAdd(key, high) ==
  LET r == TreeInsert(tree, key, high)
  IN  /\ tree' = r.tree
      /\ treeKeys' = IF r.ok THEN (key :> high) @@ treeKeys ELSE treeKeys
      /\ UNCHANGED treeCut

TreeTake(key) ==
  LET r == TreeRemove(tree, key)
  IN  /\ tree' = r.tree
      /\ treeKeys' = IF r.ok THEN [k \in DOMAIN treeKeys \ {key} |-> treeKeys[k]] ELSE treeKeys
      /\ treeCut' = IF r.ok THEN DOMAIN treeKeys # {key} ELSE treeCut

TreeNext ==
  \/ \E key \in TreeKeys, high \in IF tree.kind = "int" THEN TreeHighs ELSE {IntMin} :
       (high >= key \/ tree.kind # "int") /\ TreeAdd(key, high)
  \/ \E key \in TreeKeys : TreeTake(key)

-----------------------------------------------------------------------------
TreeSorted == SetToSortSeq(DOMAIN treeKeys, <)

RECURSIVE BlackHeightsEqual(_, _)
BlackHeightsEqual(t, n) ==
  n # TreeNil =>
    /\ BlackHeight(t, t[n].left) = BlackHeight(t, t[n].right)
    /\ BlackHeightsEqual(t, t[n].left) /\ BlackHeightsEqual(t, t[n].right)

\* A tree holds exactly the keys inserted and not removed, in order, each
\* found by a query; child and parent links agree; no node is lost; and a
\* red-black tree has a black root, no red node with a red child, and as many
\* black nodes on every path, although rbtree_delete_fixup recolours and
\* rotates sentinels (bstree_insert_internal, bstree_delete,
\* rbtree_insert_fixup, rbtree_delete_fixup).
TreeIsDictionary ==
  LET t    == tree.node
      keys == DOMAIN treeKeys
  IN  /\ InOrder(t, t[TreeRoot].left) = TreeSorted
      /\ tree.current = Cardinality(keys)
      /\ DOMAIN t = keys \cup {TreeNil, TreeRoot}
      /\ \A k \in TreeKeys : TreeQuery(t, k) = IF k \in keys THEN k ELSE TreeNil
      /\ \A k \in keys, s \in Sides : t[k][s] # TreeNil => t[t[k][s]].parent = k
      /\ t[TreeRoot].right = TreeNil /\ t[TreeNil].left = TreeNil /\ t[TreeNil].right = TreeNil
      /\ IsRB(tree.kind) =>
           /\ ~t[TreeNil].red /\ ~t[TreeRoot].red /\ ~t[t[TreeRoot].left].red
           /\ \A k \in keys : t[k].red => ~t[t[k].left].red /\ ~t[t[k].right].red
           /\ BlackHeightsEqual(t, t[TreeRoot].left)
           /\ Height(t, t[TreeRoot].left) <= 2 * BlackHeight(t, t[TreeRoot].left)

\* What the auxiliary field is for: select and rank count in key order, and an
\* interval search finds an overlapping interval whenever the tree has one.
AnswersRight ==
  LET t    == tree.node
      top  == t[TreeRoot].left
      ivs  == {<<a, b>> \in TreeKeys \X TreeHighs : a <= b}
  IN  CASE tree.kind = "os" ->
             \A i \in 1 .. Len(TreeSorted) : /\ OsSelect(t, top, i - 1) = TreeSorted[i]
                                             /\ OsRank(t, TreeSorted[i]) = i - 1
        [] tree.kind = "int" ->
             \A iv \in ivs :
               LET n == OverlapSearch(t, top, iv)
               IN  IF n = TreeNil THEN \A k \in DOMAIN treeKeys : ~Overlap(<<k, treeKeys[k]>>, iv)
                   ELSE Overlap(<<n, treeKeys[n]>>, iv)
        [] OTHER -> TRUE

\* As long as nothing was removed since the tree was empty, an order statistics
\* tree selects and ranks by key order and an interval tree finds an overlap
\* when there is one, through all rotations of the insertions
\* (ostree_node_update_count, inttree_high_fixup, bstree_node_rotate_left).
GrownTreeAnswers == treeCut \/ AnswersRight

\* After any sequence of insertions and removals, successful or refused, trees
\* of every kind hold what was put into them (TreeIsDictionary), and answer by
\* order and by interval while they grow (GrownTreeAnswers).
TreesServe == TreeIsDictionary /\ GrownTreeAnswers

\* An order statistics or interval tree answers by order and by interval after
\* removals too (ostree_count_fixup, bstree_delete).
TreeAnswers == AnswersRight
=============================================================================
