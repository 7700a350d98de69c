-------------------------------- MODULE LList --------------------------------
(***************************************************************************)
(* The doubly linked list of src/src/ds/llist.c and llist_node.c at the    *)
(* level of its pointers.  Two lists: operations that make a second list   *)
(* (llist_copy, llist_filter) put it in the second place, and llist_splice *)
(* joins the two.  A node and its datablock are allocated and freed        *)
(* together, from the list's own pool through its allocation map           *)
(* (RCSW_NOALLOC_META and RCSW_NOALLOC_DATA) or from the heap.  An element *)
(* is its key: what cmpe compares.                                         *)
(***************************************************************************)
EXTENDS Order, FiniteSets

CONSTANTS ListMax,    \* list->max_elts of both lists
          ListKeys,   \* the keys of elements
          HeapNodes   \* how many nodes malloc can give before it fails

ASSUME ListAssumption ==
  /\ ListMax \in Nat \ {0} /\ ListKeys \subseteq Int
  /\ HeapNodes \in Nat /\ HeapNodes <= 2 * ListMax

Lists == 1 .. 2
Null == 0
ListNodes == 1 .. 2 * ListMax

VARIABLES
  nodes,     \* struct llist_node: next, prev, data
  list,      \* struct llist: first, last, current, sorted
  inuse,     \* nodes taken in the allocation maps, or from malloc
  listFlags, \* pool: RCSW_NOALLOC_META and _DATA, sort: RCSW_DS_SORTED
  expected,  \* ghost: the keys each list should hold, in order
  missorted  \* ghost: llist_sort was asked to sort a list that was marked
             \* sorted and was not; from then on `expected` is not kept

listVars == <<nodes, list, inuse, listFlags, expected, missorted>>

LinkedLists ==
  [first : ListNodes \cup {Null}, last : ListNodes \cup {Null},
   current : 0 .. ListMax, sorted : BOOLEAN]

\* The fields of a node that is not in use are not kept: nothing reads them.
FreeNode == [next |-> Null, prev |-> Null, data |-> Null]

EmptyList == [first |-> Null, last |-> Null, current |-> 0, sorted |-> FALSE]

ListInit ==
  /\ nodes = [n \in ListNodes |-> FreeNode]
  /\ list = [l \in Lists |-> EmptyList]
  /\ inuse = {}
  /\ listFlags \in [pool : BOOLEAN, sort : BOOLEAN]
  /\ expected = [l \in Lists |-> <<>>]
  /\ missorted = FALSE

ListIsFull(l) == list[l].current = ListMax
ListIsEmpty(l) == list[l].current = 0

-----------------------------------------------------------------------------
\* llist_node_alloc: the first free entry of list l's allocation map from
\* index `current` on, wrapping (allocm_probe), or any node malloc still has.
AllocmProbe(used, base, index) ==
  LET at(k) == base + ((index + k) % ListMax)
      free  == {k \in 0 .. ListMax - 1 : at(k) \notin used}
  IN  IF free = {} THEN Null ELSE at(Least(free))

MallocNode(used) ==
  LET free == (1 .. HeapNodes) \ used
  IN  IF free = {} THEN Null ELSE Least(free)

NodeAlloc(used, l, current) ==
  IF listFlags.pool THEN AllocmProbe(used, (l - 1) * ListMax + 1, current)
                    ELSE MallocNode(used)

\* llist_node_create and llist_node_destroy: a node takes its element along
\* when it comes and when it goes.
NodeCreate(next, prev, key) == [next |-> next, prev |-> prev, data |-> key]
NodeDestroy(used, gone) == used \ gone

\* The nodes of a list in the order of their next pointers (LLIST_FOREACH).
NodesOf(hp, li) ==
  LET walk[k \in 0 .. ListMax + 1] ==
        IF k = 0 THEN li.first
        ELSE IF walk[k - 1] = Null THEN Null ELSE hp[walk[k - 1]].next
      len == Least({k \in 0 .. ListMax + 1 : k = ListMax + 1 \/ walk[k] = Null})
  IN  [i \in 1 .. len |-> walk[i - 1]]

DataOf(hp, s) == [i \in DOMAIN s |-> hp[s[i]].data]
KeysOf(hp, li) == DataOf(hp, NodesOf(hp, li))

\* The index of the first element with a key.
FirstAt(keys, key) == Least({i \in DOMAIN keys : keys[i] = key})

\* llist_node_query: the first node with the key, or Null.
NodeQuery(hp, li, key) ==
  LET s == NodesOf(hp, li)
  IN  IF Contains(DataOf(hp, s), key) THEN s[FirstAt(DataOf(hp, s), key)] ELSE Null

\* Both merge sorts take the left element of two equal ones, and link the
\* nodes both ways in their new order.
StableOrder(hp, s) ==
  LET order == StableSort([i \in DOMAIN s |-> <<hp[s[i]].data, s[i]>>])
  IN  [i \in DOMAIN s |-> order[i][2]]

Relinked(hp, s) ==
  [n \in DOMAIN hp |->
     IF \E i \in DOMAIN s : s[i] = n
     THEN LET i == CHOOSE i \in DOMAIN s : s[i] = n
          IN  [next |-> IF i = Len(s) THEN Null ELSE s[i + 1],
               prev |-> IF i = 1 THEN Null ELSE s[i - 1],
               data |-> hp[n].data]
     ELSE hp[n]]

\* An intermediate value of an operation: the nodes, one list, the taken nodes.
State(hp, li, used) == [hp |-> hp, li |-> li, used |-> used]

\* llist_sort: nothing is done to a list that is marked sorted.
SortList(s) ==
  IF s.li.current <= 1 \/ s.li.sorted THEN s
  ELSE LET order == StableOrder(s.hp, NodesOf(s.hp, s.li))
       IN  State(Relinked(s.hp, order),
                 [s.li EXCEPT !.first = order[1], !.last = order[Len(order)],
                              !.sorted = TRUE],
                 s.used)

\* The end of llist_append and llist_prepend.
Resort(s) == IF listFlags.sort THEN SortList([s EXCEPT !.li.sorted = FALSE]) ELSE s

\* llist_append of list l; the state is unchanged when there is no room.
AppendTo(s, l, key) ==
  LET n == NodeAlloc(s.used, l, s.li.current)
      last == s.li.last
  IN  IF s.li.current = ListMax \/ n = Null THEN s
      ELSE Resort(State(
        [m \in DOMAIN s.hp |->
           IF m = n THEN NodeCreate(Null, last, key)
           ELSE IF m = last THEN [s.hp[m] EXCEPT !.next = n] ELSE s.hp[m]],
        [s.li EXCEPT !.first = IF last = Null THEN n ELSE @, !.last = n, !.current = @ + 1],
        s.used \cup {n}))

PrependTo(s, l, key) ==
  LET n == NodeAlloc(s.used, l, s.li.current)
      first == s.li.first
  IN  IF s.li.current = ListMax \/ n = Null THEN s
      ELSE Resort(State(
        [m \in DOMAIN s.hp |->
           IF m = n THEN NodeCreate(first, Null, key)
           ELSE IF m = first THEN [s.hp[m] EXCEPT !.prev = n] ELSE s.hp[m]],
        [s.li EXCEPT !.first = n, !.last = IF first = Null THEN n ELSE @, !.current = @ + 1],
        s.used \cup {n}))

\* Mutant of Unlink: the node behind the victim keeps its prev pointer.
UnlinkOneWay(hp, victim) ==
  [m \in DOMAIN hp |->
     IF m = victim THEN FreeNode
     ELSE IF m = hp[victim].prev THEN [hp[m] EXCEPT !.next = hp[victim].next] ELSE hp[m]]

\* The pointers around a victim in llist_delete.
Unlink(hp, victim) ==
  [m \in DOMAIN hp |->
     IF m = victim THEN FreeNode
     ELSE IF m = hp[victim].prev THEN [hp[m] EXCEPT !.next = hp[victim].next]
     ELSE IF m = hp[victim].next THEN [hp[m] EXCEPT !.prev = hp[victim].prev] ELSE hp[m]]

\* llist_delete: the node and its datablock go back where they came from.
DeleteFrom(s, victim) ==
  State(Unlink(s.hp, victim),
        [s.li EXCEPT !.first = IF @ = victim THEN s.hp[victim].next ELSE @,
                     !.last  = IF @ = victim THEN s.hp[victim].prev ELSE @,
                     !.current = @ - 1],
        NodeDestroy(s.used, {victim}))

\* llist_remove: the first element that compares equal.
RemoveFrom(s, key) ==
  LET n == NodeQuery(s.hp, s.li, key) IN IF n = Null THEN s ELSE DeleteFrom(s, n)

\* llist_filter2 with a predicate on the key: when the loop has passed a match
\* it removes it by a search for its key from the front of the list.
FilterOut(s, key) ==
  LET keys == KeysOf(s.hp, s.li)
      after[n \in 0 .. Len(keys)] ==
        IF n = 0 THEN s
        ELSE IF keys[n] = key THEN RemoveFrom(after[n - 1], key) ELSE after[n - 1]
  IN  after[Len(keys)]

\* llist_destroy, llist_clear: every node is given back; `sorted` stays.
ClearList(s) ==
  LET mine == ToSet(NodesOf(s.hp, s.li))
  IN  State([m \in DOMAIN s.hp |-> IF m \in mine THEN FreeNode ELSE s.hp[m]],
            [s.li EXCEPT !.first = Null, !.last = Null, !.current = 0],
            NodeDestroy(s.used, mine))

\* llist_copy2 into list l, llist_copy when every key is wanted: append all.
CopyInto(s, l, keys) ==
  LET after[n \in 0 .. Len(keys)] ==
        IF n = 0 THEN s ELSE AppendTo(after[n - 1], l, keys[n])
  IN  after[Len(keys)]

\* llist_filter: a match is appended to list 2 and then removed from list 1; hp,
\* used and both lists are carried through the loop.
MoveKey(s, key) ==
  LET two == AppendTo(State(s.hp, s.two, s.used), 2, key)
      one == RemoveFrom(State(two.hp, s.one, two.used), key)
  IN  [hp |-> one.hp, one |-> one.li, two |-> two.li, used |-> one.used]

FilterInto(s, key) ==
  LET keys == KeysOf(s.hp, s.one)
      after[n \in 0 .. Len(keys)] ==
        IF n = 0 THEN s
        ELSE IF keys[n] = key THEN MoveKey(after[n - 1], key) ELSE after[n - 1]
  IN  after[Len(keys)]

\* The elements of a sequence that are in a set.
Selected(s, S) ==
  LET sel[n \in 0 .. Len(s)] ==
        IF n = 0 THEN <<>> ELSE IF s[n] \in S THEN Append(sel[n - 1], s[n]) ELSE sel[n - 1]
  IN  sel[Len(s)]

-----------------------------------------------------------------------------
Become(l, s) == nodes' = s.hp /\ list' = [list EXCEPT ![l] = s.li] /\ inuse' = s.used
Here(l) == State(nodes, list[l], inuse)
ExpectBoth(keys) == expected' = IF missorted THEN [l \in Lists |-> <<>>] ELSE keys
Expect(l, keys) == ExpectBoth([expected EXCEPT ![l] = keys])
KeysAscend(keys) == \A i, j \in 1 .. Len(keys) : i < j => keys[i] <= keys[j]

\* The one sequence with as many elements of each key, in ascending order.
SortedKeys(s) ==
  LET times(t, k) == Cardinality({i \in 1 .. Len(s) : t[i] = k})
  IN  CHOOSE t \in [1 .. Len(s) -> {s[i] : i \in 1 .. Len(s)}] :
        /\ \A i, j \in 1 .. Len(s) : i < j => t[i] <= t[j]
        /\ \A i \in 1 .. Len(s) : times(t, s[i]) = times(s, s[i])
MaybeSorted(s) == IF listFlags.sort THEN SortedKeys(s) ELSE s

HasRoom(l) == ~ListIsFull(l) /\ NodeAlloc(inuse, l, list[l].current) # Null

ListAppend(l, key) ==
  /\ HasRoom(l)
  /\ Become(l, AppendTo(Here(l), l, key))
  /\ Expect(l, MaybeSorted(Append(expected[l], key)))
  /\ UNCHANGED <<listFlags, missorted>>

ListPrepend(l, key) ==
  /\ HasRoom(l)
  /\ Become(l, PrependTo(Here(l), l, key))
  /\ Expect(l, MaybeSorted(<<key>> \o expected[l]))
  /\ UNCHANGED <<listFlags, missorted>>

ListRemove(l, key) ==
  /\ Contains(KeysOf(nodes, list[l]), key)
  /\ Become(l, RemoveFrom(Here(l), key))
  /\ Expect(l, RemoveAt(expected[l], FirstAt(expected[l], key)))
  /\ UNCHANGED <<listFlags, missorted>>

\* llist_delete of a node the caller got from llist_node_query or an iterator.
ListDelete(l, i) ==
  /\ i \in DOMAIN NodesOf(nodes, list[l])
  /\ Become(l, DeleteFrom(Here(l), NodesOf(nodes, list[l])[i]))
  /\ Expect(l, RemoveAt(expected[l], i))
  /\ UNCHANGED <<listFlags, missorted>>

ListClear(l) ==
  /\ Become(l, ClearList(Here(l)))
  /\ Expect(l, <<>>)
  /\ UNCHANGED <<listFlags, missorted>>

\* llist_sort.  A list that was sorted and then added to without RCSW_DS_SORTED,
\* or spliced, is still marked sorted: it is left as it is.
ListSort(l) ==
  /\ Become(l, SortList(Here(l)))
  /\ Expect(l, SortedKeys(expected[l]))
  /\ missorted' = (missorted \/ (list[l].sorted /\ ~KeysAscend(KeysOf(nodes, list[l]))))
  /\ UNCHANGED listFlags

ListFilter2(l, key) ==
  /\ Become(l, FilterOut(Here(l), key))
  /\ Expect(l, Selected(expected[l], ListKeys \ {key}))
  /\ UNCHANGED <<listFlags, missorted>>

\* llist_copy2 of list 1 into a new list 2; a key no element has makes it
\* llist_copy.  There must be nodes for it.
ListCopy(key) ==
  LET keys == Selected(KeysOf(nodes, list[1]), ListKeys \ {key})
  IN  /\ ListIsEmpty(2)
      /\ listFlags.pool \/ Cardinality(inuse) + Len(keys) <= HeapNodes
      /\ Become(2, CopyInto(State(nodes, EmptyList, inuse), 2, keys))
      /\ Expect(2, MaybeSorted(Selected(expected[1], ListKeys \ {key})))
      /\ UNCHANGED <<listFlags, missorted>>

\* llist_filter: the matching elements of list 1 move to a new list 2 on the
\* heap, where there must be a node more than are in use.  A new list with a
\* pool is left out: its two memory areas are swapped (llist.c:413-414).
ListFilter(key) ==
  LET s == FilterInto([hp |-> nodes, one |-> list[1], two |-> EmptyList, used |-> inuse], key)
  IN  /\ ListIsEmpty(2)
      /\ ~listFlags.pool /\ Cardinality(inuse) < HeapNodes
      /\ nodes' = s.hp /\ inuse' = s.used
      /\ list' = <<s.one, s.two>>
      /\ ExpectBoth(<<Selected(expected[1], ListKeys \ {key}), Selected(expected[1], {key})>>)
      /\ UNCHANGED <<listFlags, missorted>>

\* llist_splice: list 2 goes in front of node i of list 1, behind it when it
\* is the last of several; the handle of list 2 is freed, its nodes are not.
\* Only nodes from the heap may move to another list.
ListSplice(i) ==
  LET n == NodesOf(nodes, list[1])[i]
      a == list[1] b == list[2]
      behind == n = a.last /\ n # a.first
      before == IF behind THEN n ELSE nodes[n].prev
      after  == IF behind THEN Null ELSE n
      spliced == [m \in DOMAIN nodes |->
        [next |-> IF m = before THEN b.first ELSE IF m = b.last THEN after ELSE nodes[m].next,
         prev |-> IF m = after THEN b.last ELSE IF m = b.first THEN before ELSE nodes[m].prev,
         data |-> nodes[m].data]]
  IN  /\ ~listFlags.pool /\ ~ListIsEmpty(1) /\ ~ListIsEmpty(2)
      /\ a.current + b.current <= ListMax
      /\ nodes' = spliced
      /\ list' = <<[a EXCEPT !.first = IF @ = n THEN b.first ELSE @,
                             !.last  = IF behind THEN b.last ELSE @,
                             !.current = @ + b.current],
                   EmptyList>>
      /\ ExpectBoth(<<IF behind THEN expected[1] \o expected[2]
                      ELSE SubSeq(expected[1], 1, i - 1) \o expected[2]
                             \o SubSeq(expected[1], i, Len(expected[1])), <<>> >>)
      /\ UNCHANGED <<inuse, listFlags, missorted>>

ListNext ==
  \/ \E l \in Lists, k \in ListKeys :
       ListAppend(l, k) \/ ListPrepend(l, k) \/ ListRemove(l, k) \/ ListFilter2(l, k)
  \/ \E l \in Lists : ListClear(l) \/ ListSort(l)
  \/ \E l \in Lists, i \in 1 .. ListMax : ListDelete(l, i)
  \/ \E k \in ListKeys \cup {Null} : ListCopy(k)
  \/ \E k \in ListKeys : ListFilter(k)
  \/ \E i \in 1 .. list[1].current : ListSplice(i)

ListSpec == ListInit /\ [][ListNext]_listVars

-----------------------------------------------------------------------------
\* Forwards and backwards the pointers of a list visit the same nodes, as many
\* as it counts.
Linked(l) ==
  LET s == NodesOf(nodes, list[l])
  IN  /\ list[l] \in LinkedLists /\ Len(s) = list[l].current
      /\ s = <<>> => list[l].first = Null /\ list[l].last = Null
      /\ s # <<>> => list[l].last = s[Len(s)]
      /\ \A i \in DOMAIN s : nodes[s[i]].prev = IF i = 1 THEN Null ELSE s[i - 1]

\* The calls put their keys in each list, in the order they ask for.  What
\* llist.h says ("Sorts a linked list using the sort type specified."), and the
\* code does not do for a list that is marked sorted and is not.
ListsAsAsked == \A l \in Lists : KeysOf(nodes, list[l]) = expected[l]

\* Both lists are intact in both directions, and every node taken from a pool
\* or the heap is in exactly one list: none is lost or shared, whatever was
\* spliced, filtered, sorted or deleted (llist.c and llist_node.c).  Unless a
\* sort was skipped they hold what the calls ask for, in that order.
ListsIntact ==
  /\ \A l \in Lists : Linked(l)
  /\ inuse = UNION {ToSet(NodesOf(nodes, list[l])) : l \in Lists}
  /\ ToSet(NodesOf(nodes, list[1])) \cap ToSet(NodesOf(nodes, list[2])) = {}
  /\ missorted \/ ListsAsAsked
=============================================================================
