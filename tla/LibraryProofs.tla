---------------------------- MODULE LibraryProofs ----------------------------
(***************************************************************************)
(* Proofs about the linked list, the profiler and the matrices.  The list, *)
(* for any capacity and keys, without and with an element pool: every      *)
(* operation leaves both lists linked both ways and acyclic, with the      *)
(* elements their operations specify, and no node is lost or in two lists. *)
(* The profiler, for any number of grindees, any resolution, table size    *)
(* and interval: every sample is in one datapoint, and no interval keeps a *)
(* sample of a later one.  The matrices, for any size and values: a graph  *)
(* has the edges it was given and a matrix what was stored in it, wherever *)
(* growing and transposing put it.  The iterators, over arrays, lists and  *)
(* unwrapped ring buffers of any size and content: a client that calls     *)
(* until NULL sees every accepted element once, in the iterator's order.   *)
(***************************************************************************)
EXTENDS ContainerProofs, LList, Grind, Matrices, Iter

-----------------------------------------------------------------------------
NodeRecs == [next : ListNodes \cup {Null}, prev : ListNodes \cup {Null}, data : ListKeys \cup {Null}]
ListStates == [hp : [ListNodes -> NodeRecs], li : LinkedLists, used : SUBSET ListNodes]

\* The nodes q are linked in both directions, and have elements.
Linking(hp, q) ==
  /\ q \in Seq(ListNodes) /\ Len(q) <= ListMax
  /\ \A i, j \in 1 .. Len(q) : q[i] = q[j] => i = j
  /\ \A i \in 1 .. Len(q) :
       /\ hp[q[i]].next = IF i = Len(q) THEN Null ELSE q[i + 1]
       /\ hp[q[i]].prev = IF i = 1 THEN Null ELSE q[i - 1]
       /\ hp[q[i]].data \in ListKeys

\* A list with the nodes q.
Chain(hp, li, q) ==
  /\ Linking(hp, q)
  /\ li.current = Len(q)
  /\ li.first = IF Len(q) = 0 THEN Null ELSE q[1]
  /\ li.last = IF Len(q) = 0 THEN Null ELSE q[Len(q)]

\* Where list l gets its nodes.
NodesFor(l) == IF listFlags.pool THEN (l - 1) * ListMax + 1 .. l * ListMax ELSE 1 .. HeapNodes

\* In state s of list l it has the nodes q, ...
Owns(s, l, q) ==
  /\ s \in ListStates
  /\ Chain(s.hp, s.li, q)
  /\ ElementsOf(q) \subseteq s.used /\ ElementsOf(q) \subseteq NodesFor(l)

\* ... and from s to t, where it has r, the nodes of others are left alone.
Turns(s, q, t, r) ==
  /\ t.used \ ElementsOf(r) = s.used \ ElementsOf(q)
  /\ \A m \in s.used \ ElementsOf(q) : t.hp[m] = s.hp[m]

\* What is reached from s has the keys.
Reaches(s, l, q, t, keys) ==
  \E r \in Seq(ListNodes) : Owns(t, l, r) /\ Turns(s, q, t, r) /\ DataOf(t.hp, r) = keys

\* The sizes of the list, and its nodes, as numbers.
LEMMA ListNumbers ==
  /\ ListMax \in Nat /\ ListMax >= 1 /\ HeapNodes \in Nat /\ Null = 0
  /\ ListNodes = 1 .. 2 * ListMax /\ Null \notin ListNodes
  /\ \A n \in ListNodes : n \in Nat /\ n # Null
  /\ \A k \in ListKeys : k \in Int
  BY ListAssumption DEF ListNodes, Null

\* The states of a list in their parts.
LEMMA StateParts ==
  /\ \A s \in ListStates : /\ s.hp \in [ListNodes -> NodeRecs] /\ s.li \in LinkedLists
                           /\ s.used \subseteq ListNodes
  /\ \A hp \in [ListNodes -> NodeRecs], li \in LinkedLists, used \in SUBSET ListNodes :
       /\ State(hp, li, used) \in ListStates /\ State(hp, li, used).hp = hp
       /\ State(hp, li, used).li = li /\ State(hp, li, used).used = used
  /\ \A li \in LinkedLists : /\ li.first \in ListNodes \cup {Null} /\ li.last \in ListNodes \cup {Null}
                             /\ li.current \in 0 .. ListMax /\ li.sorted \in BOOLEAN
BY DEF ListStates, State, LinkedLists

\* The elements of linked nodes.
LEMMA ChainData ==
  ASSUME NEW hp, NEW q, Linking(hp, q)
  PROVE  /\ DataOf(hp, q) \in Seq(ListKeys) /\ Len(DataOf(hp, q)) = Len(q)
         /\ \A i \in 1 .. Len(q) : DataOf(hp, q)[i] = hp[q[i]].data
         /\ DOMAIN DataOf(hp, q) = 1 .. Len(q) /\ Len(q) \in Nat
<1> DEFINE n == Len(q)
           d == DataOf(hp, q)
<1>1. n \in Nat /\ DOMAIN q = 1 .. n /\ \A i \in 1 .. n : hp[q[i]].data \in ListKeys
  BY DEF Linking
<1> HIDE DEF n
<1>2. d = [i \in 1 .. n |-> hp[q[i]].data]
  BY <1>1 DEF DataOf
<1> HIDE DEF d
<1>3. d \in [1 .. n -> ListKeys] /\ \A i \in 1 .. n : d[i] = hp[q[i]].data
  BY <1>1, <1>2
<1>4. d \in Seq(ListKeys) /\ Len(d) = n
  BY <1>1, <1>3, FunctionIsSeq
<1> QED
  BY <1>1, <1>3, <1>4 DEF d, n

\* f follows the next pointers of a list until they end.
Walks(hp, li, f) ==
  f = [k \in 0 .. ListMax + 1 |->
         IF k = 0 THEN li.first ELSE IF f[k - 1] = Null THEN Null ELSE hp[f[k - 1]].next]

\* Following the next pointers of a list gives its nodes.
LEMMA ChainIsWalked ==
  ASSUME NEW hp, NEW li, NEW q, Chain(hp, li, q)
  PROVE  NodesOf(hp, li) = q
<1> DEFINE N == Len(q)
           g == [k \in 0 .. ListMax + 1 |-> IF k < N THEN q[k + 1] ELSE Null]
           w == CHOOSE f : Walks(hp, li, f)
           T == {k \in 0 .. ListMax + 1 : k = ListMax + 1 \/ w[k] = Null}
<1>1. /\ N \in Nat /\ N <= ListMax /\ ListMax \in Nat /\ q \in Seq(ListNodes)
      /\ li.first = (IF N = 0 THEN Null ELSE q[1])
      /\ \A i \in 1 .. N : q[i] # Null /\ hp[q[i]].next = IF i = N THEN Null ELSE q[i + 1]
  BY ListNumbers DEF Chain, Linking
<1> HIDE DEF N
<1>2. g[0] = li.first
  BY <1>1
<1>3. ASSUME NEW k \in 1 .. ListMax + 1
      PROVE  g[k] = IF g[k - 1] = Null THEN Null ELSE hp[g[k - 1]].next
  <2>1. k - 1 \in 0 .. ListMax + 1 /\ k \in 0 .. ListMax + 1
    BY <1>1
  <2>2. /\ g[k - 1] = (IF k - 1 < N THEN q[k - 1 + 1] ELSE Null)
        /\ g[k] = IF k < N THEN q[k + 1] ELSE Null
    BY <2>1
  <2> HIDE DEF g
  <2>3. CASE k - 1 < N
    <3>1. k \in 1 .. N /\ g[k - 1] = q[k]
      BY <1>1, <2>1, <2>2, <2>3
    <3>2. hp[q[k]].next = g[k] /\ q[k] # Null
      BY <1>1, <2>2, <3>1
    <3> QED
      BY <3>1, <3>2
  <2>4. CASE ~(k - 1 < N)
    BY <1>1, <2>1, <2>2, <2>4
  <2> QED
    BY <2>3, <2>4
<1>4. Walks(hp, li, g)
  <2>1. g = [k \in 0 .. ListMax + 1 |-> g[k]]
    OBVIOUS
  <2> HIDE DEF g
  <2>2. \A k \in 0 .. ListMax + 1 :
          g[k] = IF k = 0 THEN li.first ELSE IF g[k - 1] = Null THEN Null ELSE hp[g[k - 1]].next
    <3>1. \A k \in 0 .. ListMax + 1 : k = 0 \/ k \in 1 .. ListMax + 1
      BY <1>1
    <3> QED
      BY <1>2, <1>3, <3>1
  <2> QED
    BY <2>1, <2>2 DEF Walks
<1>5. Walks(hp, li, w)
  BY <1>4
<1> HIDE DEF w
<1>6. \A k \in 0 .. ListMax + 1 : w[k] = g[k]
  <2> DEFINE I == [k \in 0 .. ListMax + 1 |-> {g[k]}]
             M == ListMax + 1
  <2>1. \A k \in 0 .. M :
          w[k] = IF k = 0 THEN li.first ELSE IF w[k - 1] = Null THEN Null ELSE hp[w[k - 1]].next
    BY <1>5 DEF Walks
  <2>2. M \in Nat /\ 0 \in 0 .. M /\ \A k \in 1 .. M : k \in 0 .. M /\ k - 1 \in 0 .. M /\ k # 0
    BY <1>1
  <2>3. \A k \in 0 .. M : I[k] = {g[k]}
    OBVIOUS
  <2> HIDE DEF g, I, M
  <2>4. w[0] \in I[0]
    BY <1>2, <2>1, <2>2, <2>3
  <2>5. \A k \in 1 .. M : w[k - 1] \in I[k - 1] => w[k] \in I[k]
    <3>1. ASSUME NEW k \in 1 .. M, w[k - 1] = g[k - 1] PROVE w[k] = g[k]
      <4>1. g[k] = IF g[k - 1] = Null THEN Null ELSE hp[g[k - 1]].next
        BY <1>3 DEF M
      <4> QED
        BY <2>1, <2>2, <3>1, <4>1
    <3> QED
      BY <2>2, <2>3, <3>1
  <2>6. \A k \in 0 .. M : w[k] \in I[k]
    BY <2>2, <2>4, <2>5, StaysIn
  <2> QED
    BY <2>3, <2>6 DEF M
<1>7. \A k \in 0 .. ListMax + 1 : w[k] = IF k < N THEN q[k + 1] ELSE Null
  BY <1>6
<1> HIDE DEF g
<1>8. Least(T) = N
  <2>1. N \in T /\ T \in SUBSET Nat
    BY <1>1, <1>7
  <2>2. \A k \in T : N <= k
    <3>1. ASSUME NEW k \in T, k < N PROVE FALSE
      <4>1. k \in 0 .. ListMax + 1 /\ k + 1 \in 1 .. N /\ k # ListMax + 1
        BY <1>1, <3>1
      <4>2. w[k] = q[k + 1] /\ q[k + 1] # Null
        BY <1>1, <1>7, <3>1, <4>1
      <4> QED
        BY <4>1, <4>2
    <3> QED
      BY <1>1, <2>1, <3>1
  <2> HIDE DEF T
  <2>3. Least(T) \in T /\ \A y \in T : Least(T) <= y
    BY <2>1, LeastIs
  <2>4. Least(T) \in Nat
    BY <2>1, <2>3
  <2> QED
    BY <1>1, <2>1, <2>2, <2>3, <2>4
<1>9. NodesOf(hp, li) = [i \in 1 .. Least(T) |-> w[i - 1]]
  BY Zenon DEF NodesOf, Walks, T, w
<1> HIDE DEF T
<1>10. \A i \in 1 .. N : w[i - 1] = q[i]
  <2>1. \A i \in 1 .. N : i - 1 \in 0 .. ListMax + 1 /\ i - 1 < N /\ i - 1 + 1 = i
    BY <1>1
  <2> QED
    BY <1>7, <2>1
<1>11. q = [i \in 1 .. N |-> q[i]]
  BY <1>1 DEF N
<1> QED
  BY <1>8, <1>9, <1>10, <1>11

-----------------------------------------------------------------------------
\* How often a key is in a sequence.
Times(d, k) == Cardinality({i \in 1 .. Len(d) : d[i] = k})

SameTimes(d, e) == \A k : Times(d, k) = Times(e, k)

\* A number; 0 of a key that is not there.
LEMMA TimesIs ==
  ASSUME NEW d \in Seq(Int), NEW k
  PROVE  /\ Times(d, k) \in Nat /\ IsFiniteSet({i \in 1 .. Len(d) : d[i] = k})
         /\ Times(d, k) = 0 <=> \A i \in 1 .. Len(d) : d[i] # k
<1> DEFINE P == {i \in 1 .. Len(d) : d[i] = k}
<1>1. IsFiniteSet(1 .. Len(d)) /\ P \in SUBSET (1 .. Len(d))
  <2>1. 1 \in Int /\ Len(d) \in Int
    OBVIOUS
  <2>2. IsFiniteSet(1 .. Len(d))
    BY ONLY <2>1, FS_Interval
  <2> QED
    BY <2>2
<1>2. IsFiniteSet(P)
  <2> HIDE DEF P
  <2> QED
    BY <1>1, FS_Subset
<1>3. Cardinality(P) \in Nat /\ (Cardinality(P) = 0 <=> P = {})
  <2> HIDE DEF P
  <2> QED
    BY <1>2, FS_CardinalityType, FS_EmptySet
<1>4. (P = {}) <=> \A i \in 1 .. Len(d) : d[i] # k
  OBVIOUS
<1>5. Times(d, k) = Cardinality(P)
  BY DEF Times
<1> HIDE DEF P
<1> QED
  BY <1>2, <1>3, <1>4, <1>5 DEF P

\* One more at the end.
LEMMA TimesAppended ==
  ASSUME NEW d \in Seq(Int), NEW x \in Int, NEW k
  PROVE  Times(Append(d, x), k) = IF x = k THEN Times(d, k) + 1 ELSE Times(d, k)
<1> DEFINE n == Len(d)
           P == {i \in 1 .. n : d[i] = k}
           Q == {i \in 1 .. n + 1 : Append(d, x)[i] = k}
<1>1. n \in Nat /\ Len(Append(d, x)) = n + 1 /\ n + 1 \notin P
  OBVIOUS
<1>2. Q = IF x = k THEN P \cup {n + 1} ELSE P
  <2>1. \A i \in 1 .. n : Append(d, x)[i] = d[i]
    OBVIOUS
  <2>2. Append(d, x)[n + 1] = x
    OBVIOUS
  <2>3. \A i : i \in 1 .. n + 1 <=> i \in 1 .. n \/ i = n + 1
    BY <1>1
  <2> QED
    BY <1>1, <2>1, <2>2, <2>3
<1>3. Times(Append(d, x), k) = Cardinality(Q) /\ Times(d, k) = Cardinality(P)
  BY <1>1 DEF Times
<1>4. IsFiniteSet(P)
  BY TimesIs
<1> HIDE DEF P, Q, n
<1> QED
  BY <1>1, <1>2, <1>3, <1>4, FS_AddElement

\* Two ascending sequences with the same keys are one.
LEMMA AscendingIsOne ==
  ASSUME NEW t \in Seq(Int), NEW u \in Seq(Int), Len(t) = Len(u), KeysAscend(t), KeysAscend(u),
         \A i \in 1 .. Len(t) : Times(t, t[i]) = Times(u, t[i]) /\ Times(t, u[i]) = Times(u, u[i])
  PROVE  t = u
<1> DEFINE n == Len(t)
           D == {i \in 1 .. n : t[i] # u[i]}
<1>1. /\ n \in Nat /\ Len(u) = n /\ DOMAIN t = 1 .. n /\ DOMAIN u = 1 .. n
      /\ \A i \in 1 .. n : t[i] \in Int /\ u[i] \in Int
  OBVIOUS
<1>2. SUFFICES ASSUME D # {} PROVE FALSE
  <2>1. D = {} => \A i \in 1 .. n : t[i] = u[i]
    OBVIOUS
  <2> QED
    BY <1>1, <2>1
<1>3. PICK i \in D : \A j \in D : i <= j
  <2>1. D \in SUBSET Nat
    OBVIOUS
  <2> HIDE DEF D
  <2> QED
    BY <1>2, <2>1, LeastNumber
<1>4. i \in 1 .. n /\ t[i] # u[i] /\ \A j \in 1 .. n : j < i => t[j] = u[j]
  BY <1>1, <1>3
<1> HIDE DEF n, D
<1>5. ASSUME NEW a \in Seq(Int), NEW b \in Seq(Int), Len(a) = n, Len(b) = n, KeysAscend(b),
             a[i] < b[i], \A j \in 1 .. n : j < i => a[j] = b[j], Times(a, a[i]) = Times(b, a[i])
      PROVE  FALSE
  <2> DEFINE A == {j \in 1 .. n : a[j] = a[i]}
             B == {j \in 1 .. n : b[j] = a[i]}
  <2>1. Times(a, a[i]) = Cardinality(A) /\ Times(b, a[i]) = Cardinality(B) /\ IsFiniteSet(A)
    BY <1>5, TimesIs DEF Times
  <2>2. \A j \in B : j \in A /\ j # i
    <3>1. ASSUME NEW j \in 1 .. n, b[j] = a[i] PROVE j < i
      <4>1. b[j] \in Int /\ b[i] \in Int /\ a[i] \in Int /\ j \in Int /\ i \in Int
        BY <1>1, <1>4, <1>5
      <4>2. i < j => b[i] <= b[j]
        BY <1>4, <1>5 DEF KeysAscend
      <4>3. b[j] < b[i]
        BY <1>5, <3>1, <4>1
      <4> QED
        BY <4>1, <4>2, <4>3
    <3>2. ASSUME NEW j \in 1 .. n, b[j] = a[i] PROVE a[j] = a[i] /\ j # i
      <4>1. j < i /\ i \in Int
        BY <1>1, <1>4, <3>1, <3>2
      <4>2. a[j] = b[j]
        BY <1>5, <4>1
      <4> QED
        BY <3>2, <4>1, <4>2
    <3> QED
      BY <3>2
  <2>3. i \in A /\ B \in SUBSET A /\ B # A
    BY <1>4, <2>2
  <2> HIDE DEF A, B
  <2> QED
    BY <1>5, <2>1, <2>3, FS_Subset
<1>6. t[i] \in Int /\ u[i] \in Int /\ Times(t, t[i]) = Times(u, t[i]) /\ Times(t, u[i]) = Times(u, u[i])
  BY <1>1, <1>4 DEF n
<1>7. t[i] < u[i] \/ u[i] < t[i]
  BY <1>4, <1>6
<1>8. CASE t[i] < u[i]
  BY <1>1, <1>4, <1>5, <1>6, <1>8
<1>9. CASE u[i] < t[i]
  <2>1. \A j \in 1 .. n : j < i => u[j] = t[j]
    BY <1>4
  <2> QED
    BY <1>1, <1>5, <1>6, <1>9, <2>1
<1> QED
  BY <1>7, <1>8, <1>9

\* A sequence in ascending order with the keys of another is its sorted one.
LEMMA SortedIs ==
  ASSUME NEW d \in Seq(Int), NEW t \in Seq(Int), Len(t) = Len(d), KeysAscend(t), SameTimes(t, d)
  PROVE  SortedKeys(d) = t
<1> DEFINE n == Len(d)
           V == {d[i] : i \in 1 .. n}
           Ok(x) == /\ \A i, j \in 1 .. n : i < j => x[i] <= x[j]
                    /\ \A i \in 1 .. n : Cardinality({j \in 1 .. n : x[j] = d[i]})
                                           = Cardinality({j \in 1 .. n : d[j] = d[i]})
<1>1. n \in Nat /\ DOMAIN t = 1 .. n /\ V \subseteq Int /\ \A i \in 1 .. n : t[i] \in Int /\ d[i] \in Int
  OBVIOUS
<1>2. SortedKeys(d) = CHOOSE x \in [1 .. n -> V] : Ok(x)
  BY Zenon DEF SortedKeys
<1>3. t \in [1 .. n -> V]
  <2>1. ASSUME NEW i \in 1 .. n PROVE t[i] \in V
    <3>1. Times(t, t[i]) # 0
      BY <1>1, TimesIs
    <3>2. Times(d, t[i]) # 0
      BY <3>1 DEF SameTimes
    <3>3. ~ \A j \in 1 .. n : d[j] # t[i]
      BY <3>2, TimesIs
    <3> QED
      BY <3>3
  <2>2. t = [i \in 1 .. n |-> t[i]]
    BY <1>1
  <2> HIDE DEF V
  <2> QED
    BY <2>1, <2>2
<1>4. Ok(t)
  <2>1. \A i, j \in 1 .. n : i < j => t[i] <= t[j]
    BY DEF KeysAscend
  <2>2. \A i \in 1 .. n : Cardinality({j \in 1 .. n : t[j] = d[i]}) = Cardinality({j \in 1 .. n : d[j] = d[i]})
    BY Zenon DEF SameTimes, Times
  <2> QED
    BY <2>1, <2>2
<1>5. ASSUME NEW x \in [1 .. n -> V], Ok(x) PROVE x = t
  <2>1. x \in Seq(Int) /\ Len(x) = n /\ \A i \in 1 .. n : x[i] \in V
    <3>1. x \in [1 .. n -> Int]
      <4> HIDE DEF V
      <4> QED
        BY <1>1
    <3> HIDE DEF V, n
    <3> QED
      BY <1>1, <3>1, FunctionIsSeq
  <2>2. KeysAscend(x)
    BY <1>5, <2>1 DEF KeysAscend
  <2>3. ASSUME NEW v \in V PROVE Times(x, v) = Times(t, v)
    <3>1. PICK i \in 1 .. n : v = d[i]
      OBVIOUS
    <3>2. Cardinality({j \in 1 .. n : x[j] = d[i]}) = Cardinality({j \in 1 .. n : d[j] = d[i]})
      BY <1>5
    <3>3. Times(x, v) = Times(d, v)
      <4> HIDE DEF n, Ok, V
      <4> QED
        BY <2>1, <3>1, <3>2 DEF Times, n
    <3> QED
      BY <3>3 DEF SameTimes
  <2>4. \A i \in 1 .. n : x[i] \in V /\ t[i] \in V
    BY <1>3, <2>1
  <2> HIDE DEF Ok, V
  <2>5. \A i \in 1 .. Len(x) : Times(x, x[i]) = Times(t, x[i]) /\ Times(x, t[i]) = Times(t, t[i])
    BY <2>1, <2>3, <2>4
  <2>6. Len(x) = Len(t)
    BY <2>1
  <2> HIDE DEF n
  <2> QED
    BY <2>1, <2>2, <2>5, <2>6, AscendingIsOne
<1> HIDE DEF Ok, V, n
<1> QED
  BY <1>2, <1>3, <1>4, <1>5

\* o has the keys d in ascending order, and with each its tag from x.
IsSorting(d, x, o) ==
  /\ Len(o) = Len(d)
  /\ \E f \in [1 .. Len(d) -> 1 .. Len(d)] :
       /\ \A i, j \in 1 .. Len(d) : f[i] = f[j] => i = j
       /\ \A j \in 1 .. Len(d) : \E i \in 1 .. Len(d) : f[i] = j
       /\ \A i \in 1 .. Len(d) : o[i] = <<d[f[i]], x[f[i]]>>
  /\ SortedKeys(d) = [i \in 1 .. Len(d) |-> o[i][1]]
  /\ SameTimes(SortedKeys(d), d) /\ KeysAscend(SortedKeys(d))
  /\ SortedKeys(d) \in Seq(Int) /\ Len(SortedKeys(d)) = Len(d)

\* Sorting keys that carry a tag along: the keys are sorted, the tags moved with
\* them.
LEMMA TaggedSort ==
  ASSUME NEW G, NEW d \in Seq(Int), NEW x \in Seq(G), Len(x) = Len(d),
         NEW p, p = [i \in 1 .. Len(d) |-> <<d[i], x[i]>>], NEW o, o = StableSort(p)
  PROVE  IsSorting(d, x, o)
<1> DEFINE n == Len(d)
           E == Int \X G
           t == [i \in 1 .. n |-> o[i][1]]
<1>1. n \in Nat /\ \A i \in 1 .. n : d[i] \in Int /\ x[i] \in G
  OBVIOUS
<1>2. p \in Seq(E) /\ Len(p) = n /\ \A i \in 1 .. n : p[i] = <<d[i], x[i]>>
  <2>1. p = [i \in 1 .. n |-> <<d[i], x[i]>>]
    OBVIOUS
  <2>2. p \in [1 .. n -> E]
    <3> HIDE DEF n
    <3> QED
      BY <1>1, <2>1
  <2> HIDE DEF E
  <2> QED
    BY <1>1, <2>1, <2>2, FunctionIsSeq
<1>3. Keyed(E)
  BY DEF Keyed
<1> HIDE DEF E, n
<1>4. o \in Seq(E) /\ Rearranged(p, o) /\ Ascending(o)
  BY <1>2, <1>3, StableSortSorts
<1>5. Len(o) = n /\ \A i \in 1 .. n : o[i][1] \in Int
  <2>1. Len(p) = n /\ Rearranged(p, o) /\ o \in Seq(E)
    BY <1>2, <1>4
  <2>2. Len(o) = n
    BY ONLY <2>1 DEF Rearranged
  <2> QED
    BY ONLY <2>1, <2>2 DEF E
<1>6. PICK f \in [1 .. n -> 1 .. n] :
         /\ \A i, j \in 1 .. n : f[i] = f[j] => i = j
         /\ \A j \in 1 .. n : \E i \in 1 .. n : f[i] = j
         /\ \A i \in 1 .. n : o[i] = p[f[i]]
  <2>1. Len(p) = n /\ Rearranged(p, o)
    BY <1>2, <1>4
  <2> QED
    BY ONLY <2>1 DEF Rearranged
<1>7. \A i \in 1 .. n : f[i] \in 1 .. n /\ o[i] = <<d[f[i]], x[f[i]]>>
  <2>1. \A i \in 1 .. n : p[i] = <<d[i], x[i]>>
    BY <1>2
  <2> QED
    BY ONLY <1>6, <2>1
<1>8. t \in Seq(Int) /\ Len(t) = n /\ \A i \in 1 .. n : t[i] = o[i][1]
  <2>1. t \in [1 .. n -> Int] /\ \A i \in 1 .. n : t[i] = o[i][1]
    BY <1>5
  <2> HIDE DEF t
  <2> QED
    BY <1>1, <2>1, FunctionIsSeq
<1> HIDE DEF t
<1>9. KeysAscend(t)
  <2>1. \A i, j \in 1 .. n : i < j => o[i][1] <= o[j][1]
    BY <1>4, <1>5 DEF Ascending
  <2> QED
    BY ONLY <1>8, <2>1 DEF KeysAscend
<1>10. SameTimes(t, d)
  <2>1. ASSUME NEW k PROVE Times(t, k) = Times(d, k)
    <3>1. KeyCount(o, k) = KeyCount(p, k)
      <4>1. p \in Seq(E) /\ o \in Seq(E) /\ Rearranged(p, o)
        BY <1>2, <1>4
      <4> QED
        BY ONLY <4>1, RearrangedCount
    <3>2. {i \in 1 .. Len(o) : o[i][1] = k} = {i \in 1 .. Len(t) : t[i] = k}
      BY <1>5, <1>8
    <3>3. {i \in 1 .. Len(p) : p[i][1] = k} = {i \in 1 .. Len(d) : d[i] = k}
      BY <1>2 DEF n
    <3> QED
      BY <3>1, <3>2, <3>3 DEF KeyCount, Times
  <2> QED
    BY <2>1 DEF SameTimes
<1>11. SortedKeys(d) = t
  BY <1>8, <1>9, <1>10, SortedIs DEF n
<1>12. t = [i \in 1 .. n |-> o[i][1]]
  BY DEF t
<1> QED
  BY <1>5, <1>6, <1>7, <1>8, <1>9, <1>10, <1>11, <1>12 DEF n, IsSorting

\* The sorted keys of any sequence.
LEMMA SortedKeysAre ==
  ASSUME NEW d \in Seq(Int)
  PROVE  /\ SortedKeys(d) \in Seq(Int) /\ Len(SortedKeys(d)) = Len(d)
         /\ KeysAscend(SortedKeys(d)) /\ SameTimes(SortedKeys(d), d)
<1> DEFINE x == [i \in 1 .. Len(d) |-> 0]
           p == [i \in 1 .. Len(d) |-> <<d[i], x[i]>>]
<1>1. x \in Seq({0}) /\ Len(x) = Len(d)
  OBVIOUS
<1>2. p = [i \in 1 .. Len(d) |-> <<d[i], x[i]>>]
  OBVIOUS
<1> HIDE DEF x, p
<1> QED
  <2>1. IsSorting(d, x, StableSort(p))
    BY <1>1, <1>2, TaggedSort
  <2> QED
    BY <2>1 DEF IsSorting

\* Whether or not what comes before the last key was sorted already.
LEMMA SortedAgain ==
  ASSUME NEW d \in Seq(Int), NEW k \in Int
  PROVE  SortedKeys(Append(SortedKeys(d), k)) = SortedKeys(Append(d, k))
<1> DEFINE e == SortedKeys(d)
           t == SortedKeys(Append(e, k))
<1>1. e \in Seq(Int) /\ Len(e) = Len(d) /\ SameTimes(e, d)
  BY SortedKeysAre
<1> HIDE DEF e
<1>2. Append(e, k) \in Seq(Int) /\ Append(d, k) \in Seq(Int) /\ Len(Append(e, k)) = Len(Append(d, k))
  BY <1>1
<1>3. /\ t \in Seq(Int) /\ Len(t) = Len(Append(d, k)) /\ KeysAscend(t) /\ SameTimes(t, Append(e, k))
  BY <1>2, SortedKeysAre
<1>4. SameTimes(Append(e, k), Append(d, k))
  <2>1. ASSUME NEW v PROVE Times(Append(e, k), v) = Times(Append(d, k), v)
    <3>1. Times(e, v) = Times(d, v)
      BY <1>1 DEF SameTimes
    <3> QED
      BY <1>1, <3>1, TimesAppended
  <2> QED
    BY <2>1 DEF SameTimes
<1>5. SameTimes(t, Append(d, k))
  BY <1>3, <1>4 DEF SameTimes
<1> HIDE DEF t
<1>6. SortedKeys(Append(d, k)) = t
  BY <1>2, <1>3, <1>5, SortedIs
<1> QED
  BY <1>6 DEF t, e

-----------------------------------------------------------------------------
\* The nodes a list may take.
LEMMA NodesForIn ==
  ASSUME NEW l \in Lists
  PROVE  /\ NodesFor(l) \subseteq ListNodes
         /\ listFlags.pool => /\ (l - 1) * ListMax + 1 \in Nat /\ l * ListMax = (l - 1) * ListMax + ListMax
                              /\ NodesFor(l) = (l - 1) * ListMax + 1 .. l * ListMax
         /\ ~listFlags.pool => NodesFor(l) = 1 .. HeapNodes
<1>1. l = 1 \/ l = 2
  BY DEF Lists
<1>2. CASE l = 1
  BY <1>2, ListAssumption DEF NodesFor, ListNodes
<1>3. CASE l = 2
  BY <1>3, ListAssumption DEF NodesFor, ListNodes
<1> QED
  BY <1>1, <1>2, <1>3

\* Probing from any index on reaches all of a list's own nodes.
LEMMA ProbeReaches ==
  ASSUME NEW c \in 0 .. ListMax
  PROVE  /\ \A k \in 0 .. ListMax - 1 : (c + k) % ListMax \in 0 .. ListMax - 1
         /\ \A x \in 0 .. ListMax - 1 : \E k \in 0 .. ListMax - 1 : (c + k) % ListMax = x
<1>1. ListMax \in Nat /\ ListMax >= 1
  BY ListNumbers
<1>2. \A k \in 0 .. ListMax - 1 : (c + k) % ListMax \in 0 .. ListMax - 1
  BY <1>1
<1>3. ASSUME NEW x \in 0 .. ListMax - 1
      PROVE  \E k \in 0 .. ListMax - 1 : (c + k) % ListMax = x
  <2>1. CASE x >= c
    <3>1. x - c \in 0 .. ListMax - 1 /\ c + (x - c) = x
      BY <1>1, <2>1
    <3>2. x % ListMax = x
      BY <1>1
    <3> QED
      BY <3>1, <3>2
  <2>2. CASE x < c
    <3>1. x - c + ListMax \in 0 .. ListMax - 1 /\ c + (x - c + ListMax) = x + ListMax
      BY <1>1, <2>2
    <3>2. (x + ListMax) % ListMax = x
      BY <1>1
    <3> QED
      BY <3>1, <3>2
  <2> QED
    BY <1>1, <2>1, <2>2
<1> QED
  BY <1>2, <1>3

\* llist_node_alloc gives a node nobody has, or there is none (allocm_probe,
\* malloc).
LEMMA NodeAllocIs ==
  ASSUME NEW l \in Lists, NEW used \in SUBSET ListNodes, NEW c \in 0 .. ListMax,
         NEW n, n = NodeAlloc(used, l, c)
  PROVE  \/ n = Null /\ NodesFor(l) \subseteq used
         \/ n # Null /\ n \in NodesFor(l) /\ n \in ListNodes /\ n \notin used
<1>1. CASE listFlags.pool
  <2> DEFINE base == (l - 1) * ListMax + 1
             at(k) == base + ((c + k) % ListMax)
             free == {k \in 0 .. ListMax - 1 : at(k) \notin used}
  <2>1. n = IF free = {} THEN Null ELSE at(Least(free))
    BY <1>1, Zenon DEF NodeAlloc, AllocmProbe
  <2>2. base \in Nat /\ NodesFor(l) = base .. base + ListMax - 1 /\ NodesFor(l) \subseteq ListNodes
    <3>1. base \in Nat /\ NodesFor(l) = base .. l * ListMax /\ l * ListMax = base - 1 + ListMax
      <4>1. (l - 1) * ListMax + 1 \in Nat /\ l * ListMax = (l - 1) * ListMax + ListMax
            /\ NodesFor(l) = (l - 1) * ListMax + 1 .. l * ListMax
        BY <1>1, NodesForIn
      <4>2. (l - 1) * ListMax \in Int /\ ListMax \in Int
        BY ListNumbers DEF Lists
      <4> QED
        BY <4>1, <4>2
    <3> HIDE DEF base
    <3>2. base - 1 + ListMax = base + ListMax - 1
      BY <3>1, ListNumbers
    <3> QED
      BY <3>1, <3>2, NodesForIn
  <2> HIDE DEF base
  <2>3. \A k \in 0 .. ListMax - 1 : at(k) \in NodesFor(l)
    BY <2>2, ProbeReaches, ListNumbers
  <2>4. ASSUME NEW m \in NodesFor(l) PROVE \E k \in 0 .. ListMax - 1 : at(k) = m
    <3>1. m - base \in 0 .. ListMax - 1 /\ m \in Int
      BY <2>2, ListNumbers
    <3>2. PICK k \in 0 .. ListMax - 1 : (c + k) % ListMax = m - base
      BY <3>1, ProbeReaches
    <3>3. base + (m - base) = m
      BY <2>2, <3>1
    <3> QED
      BY <3>2, <3>3
  <2> HIDE DEF at
  <2>5. CASE free = {}
    BY <2>1, <2>4, <2>5
  <2>6. CASE free # {}
    <3>1. free \in SUBSET Nat
      OBVIOUS
    <3>2. Least(free) \in free
      <4> HIDE DEF free
      <4> QED
        BY <2>6, <3>1, LeastIs
    <3>3. Least(free) \in 0 .. ListMax - 1 /\ at(Least(free)) \notin used
      BY <3>2
    <3> HIDE DEF free
    <3> QED
      BY <2>1, <2>2, <2>3, <2>6, <3>3, ListNumbers
  <2> QED
    BY <2>5, <2>6
<1>2. CASE ~listFlags.pool
  <2> DEFINE free == (1 .. HeapNodes) \ used
  <2>1. n = IF free = {} THEN Null ELSE Least(free)
    BY <1>2, Zenon DEF NodeAlloc, MallocNode
  <2>2. NodesFor(l) = 1 .. HeapNodes /\ NodesFor(l) \subseteq ListNodes
    BY <1>2, NodesForIn
  <2>3. CASE free = {}
    BY <2>1, <2>2, <2>3
  <2>4. CASE free # {}
    <3>1. free \in SUBSET Nat
      OBVIOUS
    <3>2. Least(free) \in free
      <4> HIDE DEF free
      <4> QED
        BY <2>4, <3>1, LeastIs
    <3> QED
      BY <2>1, <2>2, <2>4, <3>2, ListNumbers
  <2> QED
    BY <2>3, <2>4
<1> QED
  BY <1>1, <1>2

\* A node of a list is in its place.
LEMMA InChain ==
  ASSUME NEW q \in Seq(ListNodes)
  PROVE  /\ Len(q) \in Nat /\ DOMAIN q = 1 .. Len(q)
         /\ ElementsOf(q) \subseteq ListNodes /\ ToSet(q) = ElementsOf(q)
         /\ \A i \in 1 .. Len(q) : q[i] \in ElementsOf(q) /\ q[i] \in ListNodes /\ q[i] # Null
         /\ \A m \in ElementsOf(q) : \E i \in 1 .. Len(q) : q[i] = m
<1>1. Len(q) \in Nat /\ DOMAIN q = 1 .. Len(q) /\ \A i \in 1 .. Len(q) : q[i] \in ListNodes
  OBVIOUS
<1>2. \A i \in 1 .. Len(q) : q[i] # Null
  BY <1>1, ListNumbers
<1>3. ToSet(q) = {q[i] : i \in 1 .. Len(q)} /\ ElementsOf(q) = {q[i] : i \in 1 .. Len(q)}
  BY <1>1, Zenon DEF ElementsOf, ToSet
<1> QED
  BY <1>1, <1>2, <1>3

-----------------------------------------------------------------------------
\* Where only other nodes change, nodes are linked as they were.
LEMMA LinkingKept ==
  ASSUME NEW hp, NEW g, NEW q, Linking(hp, q), \A m \in ElementsOf(q) : g[m] = hp[m]
  PROVE  Linking(g, q) /\ DataOf(g, q) = DataOf(hp, q)
<1>1. q \in Seq(ListNodes) /\ \A i \in 1 .. Len(q) : q[i] \in ElementsOf(q)
  BY DEF Linking, ElementsOf
<1>2. \A i \in 1 .. Len(q) : g[q[i]] = hp[q[i]]
  BY <1>1
<1>3. Linking(g, q)
  BY <1>2 DEF Linking
<1>4. DOMAIN q = 1 .. Len(q)
  BY <1>1
<1> QED
  BY <1>2, <1>3, <1>4 DEF DataOf

\* A new node at the end of a list's nodes.
Longer(s, n, key) ==
  LET last == s.li.last
  IN  State([m \in DOMAIN s.hp |->
               IF m = n THEN NodeCreate(Null, last, key)
               ELSE IF m = last THEN [s.hp[m] EXCEPT !.next = n] ELSE s.hp[m]],
            [s.li EXCEPT !.first = IF last = Null THEN n ELSE @, !.last = n, !.current = @ + 1],
            s.used \cup {n})

\* Longer(s, n, key) is list l with the node n, which holds the key, behind its nodes.
LEMMA LongerKeeps ==
  ASSUME NEW l \in Lists, NEW s, NEW q, Owns(s, l, q), Len(q) < ListMax, NEW key \in ListKeys,
         NEW n \in ListNodes, n \notin s.used, n \in NodesFor(l), NEW t, t = Longer(s, n, key)
  PROVE  /\ Owns(t, l, Append(q, n)) /\ Turns(s, q, t, Append(q, n))
         /\ DataOf(t.hp, Append(q, n)) = Append(DataOf(s.hp, q), key)
         /\ t.li.sorted = s.li.sorted
<1> DEFINE N == Len(q)
           r == Append(q, n)
           last == s.li.last
           hp == [m \in DOMAIN s.hp |->
                    IF m = n THEN NodeCreate(Null, last, key)
                    ELSE IF m = last THEN [s.hp[m] EXCEPT !.next = n] ELSE s.hp[m]]
           li == [s.li EXCEPT !.first = IF last = Null THEN n ELSE @, !.last = n, !.current = @ + 1]
<1>1. /\ s.hp \in [ListNodes -> NodeRecs] /\ s.li \in LinkedLists /\ s.used \subseteq ListNodes
      /\ q \in Seq(ListNodes) /\ N \in Nat
      /\ N < ListMax /\ ListMax \in Nat /\ s.li.current = N
      /\ s.li.first = (IF N = 0 THEN Null ELSE q[1]) /\ last = (IF N = 0 THEN Null ELSE q[N])
      /\ \A i \in 1 .. N : q[i] \in ElementsOf(q) /\ q[i] \in ListNodes /\ q[i] # Null
      /\ ElementsOf(q) \subseteq s.used /\ ElementsOf(q) \subseteq NodesFor(l)
  BY StateParts, ListNumbers, InChain DEF Owns, Chain, Linking
<1>2. /\ \A i, j \in 1 .. N : q[i] = q[j] => i = j
      /\ \A i \in 1 .. N : /\ s.hp[q[i]].next = IF i = N THEN Null ELSE q[i + 1]
                           /\ s.hp[q[i]].prev = IF i = 1 THEN Null ELSE q[i - 1]
                           /\ s.hp[q[i]].data \in ListKeys
  BY DEF Owns, Chain, Linking
<1>3. n # Null /\ \A i \in 1 .. N : q[i] # n
  BY <1>1, ListNumbers
<1> HIDE DEF N
<1>4. /\ r \in Seq(ListNodes) /\ Len(r) = N + 1 /\ r[N + 1] = n
      /\ \A i \in 1 .. N : r[i] = q[i]
  BY <1>1 DEF N
<1> HIDE DEF r, last
<1>5. hp \in [ListNodes -> NodeRecs] /\ li \in LinkedLists
  <2>1. last \in ListNodes \cup {Null}
    BY <1>1
  <2>2. NodeCreate(Null, last, key) \in NodeRecs
    BY <2>1 DEF NodeCreate, NodeRecs
  <2>3. \A m \in ListNodes : s.hp[m] \in NodeRecs /\ [s.hp[m] EXCEPT !.next = n] \in NodeRecs
    BY <1>1 DEF NodeRecs
  <2>4. hp \in [ListNodes -> NodeRecs]
    BY <1>1, <2>2, <2>3
  <2>5. li \in LinkedLists
    <3>1. s.li.first \in ListNodes \cup {Null} /\ s.li.current + 1 \in 0 .. ListMax
      BY <1>1, StateParts
    <3>2. s.li \in LinkedLists
      BY <1>1
    <3> QED
      BY <3>1, <3>2 DEF LinkedLists
  <2> QED
    BY <2>4, <2>5
<1>6. /\ li.current = N + 1 /\ li.last = n /\ li.sorted = s.li.sorted
      /\ li.first = IF N = 0 THEN n ELSE q[1]
  <2>1. /\ li.current = s.li.current + 1 /\ li.last = n /\ li.sorted = s.li.sorted
        /\ li.first = IF last = Null THEN n ELSE s.li.first
    BY <1>1 DEF LinkedLists
  <2>2. N # 0 => N \in 1 .. N
    BY <1>1 DEF N
  <2> QED
    BY <1>1, <2>1, <2>2
<1>7. /\ hp[n].next = Null /\ hp[n].prev = last /\ hp[n].data = key
      /\ \A m \in ListNodes : m # n /\ m # last => hp[m] = s.hp[m]
      /\ \A m \in ListNodes : m # n /\ m = last => /\ hp[m].next = n /\ hp[m].prev = s.hp[m].prev
                                                   /\ hp[m].data = s.hp[m].data
  <2>1. \A m \in ListNodes : hp[m] = IF m = n THEN NodeCreate(Null, last, key)
                                     ELSE IF m = last THEN [s.hp[m] EXCEPT !.next = n] ELSE s.hp[m]
    BY <1>1
  <2>2. \A m \in ListNodes : s.hp[m] \in NodeRecs
    BY <1>1
  <2>3. \A m \in ListNodes : /\ [s.hp[m] EXCEPT !.next = n].next = n
                             /\ [s.hp[m] EXCEPT !.next = n].prev = s.hp[m].prev
                             /\ [s.hp[m] EXCEPT !.next = n].data = s.hp[m].data
    BY <2>2 DEF NodeRecs
  <2>4. NodeCreate(Null, last, key) = [next |-> Null, prev |-> last, data |-> key]
    BY DEF NodeCreate
  <2> HIDE DEF hp
  <2>5. hp[n].next = Null /\ hp[n].prev = last /\ hp[n].data = key
    <3>1. hp[n] = NodeCreate(Null, last, key)
      BY <2>1
    <3> QED
      BY ONLY <2>4, <3>1
  <2>6. \A m \in ListNodes : m # n /\ m # last => hp[m] = s.hp[m]
    BY ONLY <2>1
  <2>7. ASSUME NEW m \in ListNodes, m # n, m = last
        PROVE  hp[m].next = n /\ hp[m].prev = s.hp[m].prev /\ hp[m].data = s.hp[m].data
    <3>1. hp[m] = [s.hp[m] EXCEPT !.next = n]
      BY ONLY <2>1, <2>7, m \in ListNodes
    <3> QED
      BY ONLY <2>3, <3>1, m \in ListNodes
  <2> QED
    BY ONLY <2>5, <2>6, <2>7
<1>8. t = State(hp, li, s.used \cup {n})
  BY Zenon DEF Longer, last
<1> HIDE DEF hp, li
<1>9. t \in ListStates /\ t.hp = hp /\ t.li = li /\ t.used = s.used \cup {n}
  <2>1. s.used \cup {n} \in SUBSET ListNodes
    BY <1>1
  <2> QED
    BY <1>5, <1>8, <2>1, StateParts
<1>10. \A i \in 1 .. N + 1 : hp[r[i]].data = IF i = N + 1 THEN key ELSE s.hp[q[i]].data
  <2>1. ASSUME NEW i \in 1 .. N + 1 PROVE hp[r[i]].data = IF i = N + 1 THEN key ELSE s.hp[q[i]].data
    <3>1. CASE i = N + 1
      BY <1>4, <1>7, <3>1
    <3>2. CASE i # N + 1
      <4>1. i \in 1 .. N
        BY <1>1, <3>2 DEF N
      <4>2. r[i] = q[i] /\ q[i] \in ListNodes /\ q[i] # n
        BY <1>1, <1>3, <1>4, <4>1 DEF N
      <4> QED
        BY <1>7, <3>2, <4>2
    <3> QED
      BY <3>1, <3>2
  <2> QED
    BY <2>1
<1>11. \A i \in 1 .. N + 1 : /\ hp[r[i]].next = IF i = N + 1 THEN Null ELSE r[i + 1]
                             /\ hp[r[i]].prev = IF i = 1 THEN Null ELSE r[i - 1]
  <2>1. ASSUME NEW i \in 1 .. N + 1
        PROVE  /\ hp[r[i]].next = IF i = N + 1 THEN Null ELSE r[i + 1]
               /\ hp[r[i]].prev = IF i = 1 THEN Null ELSE r[i - 1]
    <3>1. CASE i = N + 1
      <4>1. r[i] = n /\ (N = 0 <=> i = 1) /\ (N # 0 => N \in 1 .. N /\ i - 1 = N)
        BY <1>1, <1>4, <3>1 DEF N
      <4>2. last = IF i = 1 THEN Null ELSE r[i - 1]
        BY <1>1, <1>4, <4>1 DEF N
      <4> QED
        BY <1>7, <3>1, <4>1, <4>2
    <3>2. CASE i # N + 1
      <4>1. i \in 1 .. N /\ i \in Nat /\ i + 1 \in 1 .. N + 1 /\ (i # 1 => i - 1 \in 1 .. N)
            /\ (i # N => i + 1 \in 1 .. N) /\ N \in 1 .. N
        BY <1>1, <3>2 DEF N
      <4>2. r[i] = q[i] /\ q[i] \in ListNodes /\ q[i] # n /\ (i # 1 => r[i - 1] = q[i - 1])
        BY <1>1, <1>3, <1>4, <4>1 DEF N
      <4>3. last = q[N]
        BY <1>1, <4>1
      <4>4. (q[i] = last) <=> (i = N)
        BY <1>2, <4>1, <4>3 DEF N
      <4>5. s.hp[q[i]].prev = IF i = 1 THEN Null ELSE q[i - 1]
        BY <1>2, <4>1 DEF N
      <4>6. hp[r[i]].prev = IF i = 1 THEN Null ELSE r[i - 1]
        BY <1>7, <4>2, <4>5
      <4>7. hp[r[i]].next = r[i + 1]
        <5>1. CASE i = N
          BY <1>4, <1>7, <4>2, <4>4, <5>1
        <5>2. CASE i # N
          <6>1. s.hp[q[i]].next = q[i + 1]
            BY <1>2, <4>1, <5>2 DEF N
          <6> QED
            BY <1>4, <1>7, <4>1, <4>2, <4>4, <5>2, <6>1
        <5> QED
          BY <5>1, <5>2
      <4> QED
        BY <3>2, <4>6, <4>7
    <3> QED
      BY <3>1, <3>2
  <2> QED
    BY <2>1
<1>12. \A i, j \in 1 .. N + 1 : r[i] = r[j] => i = j
  <2>1. \A i \in 1 .. N + 1 : i = N + 1 \/ i \in 1 .. N
    BY <1>1 DEF N
  <2>2. \A i \in 1 .. N : r[i] = q[i] /\ r[i] # n
    BY <1>3, <1>4 DEF N
  <2>3. r[N + 1] = n
    BY <1>4
  <2>4. \A i, j \in 1 .. N : r[i] = r[j] => i = j
    BY <1>2, <2>2 DEF N
  <2> HIDE DEF r
  <2> QED
    BY <2>1, <2>2, <2>3, <2>4
<1>13. Linking(hp, r)
  <2>1. \A i \in 1 .. N + 1 : hp[r[i]].data \in ListKeys
    <3>1. \A i \in 1 .. N + 1 : i # N + 1 => i \in 1 .. N
      BY <1>1 DEF N
    <3> QED
      BY <1>2, <1>10, <3>1 DEF N
  <2>2. Len(r) = N + 1 /\ Len(r) <= ListMax /\ r \in Seq(ListNodes)
    BY <1>1, <1>4 DEF N
  <2> QED
    BY <1>11, <1>12, <2>1, <2>2 DEF Linking
<1>14. Chain(hp, li, r)
  <2>1. N + 1 # 0 /\ Len(r) = N + 1
    BY <1>1, <1>4
  <2>2. li.first = r[1]
    <3>1. N = 0 => r[1] = n
      BY <1>4
    <3>2. N # 0 => 1 \in 1 .. N
      BY <1>1
    <3>3. N # 0 => r[1] = q[1]
      BY <1>4, <3>2
    <3> QED
      BY <1>6, <3>1, <3>3
  <2> QED
    BY <1>4, <1>6, <1>13, <2>1, <2>2 DEF Chain
<1>15. ElementsOf(r) = ElementsOf(q) \cup {n}
  <2>1. \A i \in 1 .. N + 1 : i = N + 1 \/ i \in 1 .. N
    BY <1>1 DEF N
  <2>2. N + 1 \in 1 .. N + 1 /\ \A i \in 1 .. N : i \in 1 .. N + 1
    BY <1>1 DEF N
  <2>3. ElementsOf(r) = {r[i] : i \in 1 .. N + 1} /\ ElementsOf(q) = {q[i] : i \in 1 .. N}
    BY <1>4 DEF ElementsOf, N
  <2> QED
    BY <1>4, <2>1, <2>2, <2>3
<1>16. Owns(t, l, r)
  BY <1>1, <1>9, <1>14, <1>15 DEF Owns
<1>17. Turns(s, q, t, r)
  <2>1. \A m \in s.used \ ElementsOf(q) : m \in ListNodes /\ m # n /\ m # last
    <3>1. N # 0 => last \in ElementsOf(q)
      <4>1. N # 0 => N \in 1 .. N
        BY <1>1 DEF N
      <4> QED
        BY <1>1, <4>1
    <3>2. N = 0 => last = Null
      BY <1>1
    <3> QED
      BY <1>1, <3>1, <3>2, ListNumbers
  <2>2. t.used \ ElementsOf(r) = s.used \ ElementsOf(q)
    BY <1>9, <1>15
  <2> QED
    BY <1>7, <1>9, <2>1, <2>2 DEF Turns
<1>18. DataOf(t.hp, r) = Append(DataOf(s.hp, q), key)
  <2> DEFINE d == DataOf(s.hp, q)
             e == DataOf(hp, r)
  <2>1. d \in Seq(ListKeys) /\ Len(d) = N /\ \A i \in 1 .. N : d[i] = s.hp[q[i]].data
    BY ChainData DEF Owns, Chain, N
  <2>2. e \in Seq(ListKeys) /\ Len(e) = N + 1 /\ \A i \in 1 .. N + 1 : e[i] = hp[r[i]].data
    BY <1>4, <1>13, ChainData
  <2> HIDE DEF d, e
  <2>3. \A i \in 1 .. N + 1 : e[i] = IF i = N + 1 THEN key ELSE d[i]
    <3>1. \A i \in 1 .. N + 1 : i # N + 1 => i \in 1 .. N
      BY <1>1 DEF N
    <3> QED
      BY <1>10, <2>1, <2>2, <3>1
  <2>4. e = Append(d, key)
    BY <1>1, <2>1, <2>2, <2>3
  <2> QED
    BY <1>9, <2>4 DEF d, e
<1> QED
  BY <1>6, <1>9, <1>16, <1>17, <1>18 DEF r

-----------------------------------------------------------------------------
\* Nodes linked in both directions, between a node b before them and a node a
\* after them.
FirstOr(q, x) == IF Len(q) = 0 THEN x ELSE q[1]
\* ... and the last one.
LastOr(q, x) == IF Len(q) = 0 THEN x ELSE q[Len(q)]

\* The nodes q are linked to one another, to b before them and to a behind.
Segment(hp, q, b, a) ==
  /\ q \in Seq(ListNodes)
  /\ \A i, j \in 1 .. Len(q) : q[i] = q[j] => i = j
  /\ \A i \in 1 .. Len(q) :
       /\ hp[q[i]].next = IF i = Len(q) THEN a ELSE q[i + 1]
       /\ hp[q[i]].prev = IF i = 1 THEN b ELSE q[i - 1]
       /\ hp[q[i]].data \in ListKeys

\* The nodes of a list are between no others.
LEMMA ChainIs ==
  ASSUME NEW hp, NEW li, NEW q
  PROVE  Chain(hp, li, q) <=> /\ Segment(hp, q, Null, Null) /\ Len(q) <= ListMax /\ li.current = Len(q)
                              /\ li.first = FirstOr(q, Null) /\ li.last = LastOr(q, Null)
BY DEF Chain, Linking, Segment, FirstOr, LastOr

\* Two sequences one after the other.
LEMMA ConcatIs ==
  ASSUME NEW S, NEW p \in Seq(S), NEW q \in Seq(S)
  PROVE  /\ p \o q \in Seq(S) /\ Len(p \o q) = Len(p) + Len(q) /\ Len(p) \in Nat /\ Len(q) \in Nat
         /\ \A i \in 1 .. Len(p) : (p \o q)[i] = p[i]
         /\ \A i \in 1 .. Len(q) : (p \o q)[Len(p) + i] = q[i]
         /\ \A i \in 1 .. Len(p) + Len(q) : i \in 1 .. Len(p) \/ (i > Len(p) /\ i - Len(p) \in 1 .. Len(q))
         /\ ElementsOf(p \o q) = ElementsOf(p) \cup ElementsOf(q)
         /\ \A x : FirstOr(p \o q, x) = FirstOr(p, FirstOr(q, x))
         /\ \A x : LastOr(p \o q, x) = LastOr(q, LastOr(p, x))
<1> DEFINE M == Len(p)
           N == Len(q)
           c == p \o q
<1>1. M \in Nat /\ N \in Nat
  OBVIOUS
<1>2. /\ c \in Seq(S) /\ Len(c) = M + N
      /\ \A i \in 1 .. M + N : c[i] = IF i <= M THEN p[i] ELSE q[i - M]
  BY ConcatProperties
<1>3. ElementsOf(p) = {p[i] : i \in 1 .. M} /\ ElementsOf(q) = {q[i] : i \in 1 .. N}
      /\ ElementsOf(c) = {c[i] : i \in 1 .. M + N}
  BY <1>2 DEF ElementsOf
<1>4. \A x : FirstOr(p, x) = (IF M = 0 THEN x ELSE p[1]) /\ LastOr(p, x) = IF M = 0 THEN x ELSE p[M]
  BY DEF FirstOr, LastOr
<1>5. \A x : FirstOr(q, x) = (IF N = 0 THEN x ELSE q[1]) /\ LastOr(q, x) = IF N = 0 THEN x ELSE q[N]
  BY DEF FirstOr, LastOr
<1>6. \A x : FirstOr(c, x) = (IF M + N = 0 THEN x ELSE c[1]) /\ LastOr(c, x) = IF M + N = 0 THEN x ELSE c[M + N]
  BY <1>2 DEF FirstOr, LastOr
<1> HIDE DEF M, N, c
<1>7. /\ \A i \in 1 .. M : c[i] = p[i]
      /\ \A i \in 1 .. N : c[M + i] = q[i]
      /\ \A i \in 1 .. M + N : i \in 1 .. M \/ (i > M /\ i - M \in 1 .. N)
  <2>1. \A i \in 1 .. M : i \in 1 .. M + N /\ i <= M
    BY <1>1
  <2>2. \A i \in 1 .. N : M + i \in 1 .. M + N /\ ~(M + i <= M) /\ (M + i) - M = i
    BY <1>1
  <2>3. \A i \in 1 .. M + N : i \in 1 .. M \/ (i > M /\ i - M \in 1 .. N)
    BY <1>1
  <2> QED
    BY <1>2, <2>1, <2>2, <2>3
<1>8. ElementsOf(c) = ElementsOf(p) \cup ElementsOf(q)
  <2>1. \A i \in 1 .. M : i \in 1 .. M + N
    BY <1>1
  <2>2. \A i \in 1 .. N : M + i \in 1 .. M + N
    BY <1>1
  <2>3. \A i \in 1 .. M + N : i > M => i = M + (i - M)
    BY <1>1
  <2> QED
    BY <1>3, <1>7, <2>1, <2>2, <2>3
<1>9. \A x : FirstOr(c, x) = FirstOr(p, FirstOr(q, x))
  <2>1. CASE M # 0
    BY <1>1, <1>4, <1>6, <1>7, <2>1
  <2>2. CASE M = 0 /\ N # 0
    <3>1. 1 \in 1 .. N /\ M + 1 = 1 /\ M + N # 0
      BY <1>1, <2>2
    <3>2. c[1] = q[1]
      BY <1>7, <3>1
    <3> QED
      BY <1>4, <1>5, <1>6, <2>2, <3>1, <3>2
  <2>3. CASE M = 0 /\ N = 0
    BY <1>4, <1>5, <1>6, <2>3
  <2> QED
    BY <2>1, <2>2, <2>3
<1>10. \A x : LastOr(c, x) = LastOr(q, LastOr(p, x))
  <2>1. CASE N # 0
    BY <1>1, <1>5, <1>6, <1>7, <2>1
  <2>2. CASE N = 0 /\ M # 0
    <3>1. M \in 1 .. M /\ M + N = M /\ M + N # 0
      BY <1>1, <2>2
    <3>2. c[M + N] = p[M]
      BY <1>7, <3>1
    <3> QED
      BY <1>4, <1>5, <1>6, <2>2, <3>1, <3>2
  <2>3. CASE M = 0 /\ N = 0
    BY <1>4, <1>5, <1>6, <2>3
  <2> QED
    BY <2>1, <2>2, <2>3
<1> QED
  BY <1>1, <1>2, <1>7, <1>8, <1>9, <1>10 DEF M, N, c

\* Linked nodes are two parts that are linked to one another.
LEMMA SegmentJoins ==
  ASSUME NEW hp, NEW p, NEW q, NEW b, NEW a, Segment(hp, p, b, FirstOr(q, a)),
         Segment(hp, q, LastOr(p, b), a), ElementsOf(p) \cap ElementsOf(q) = {}
  PROVE  Segment(hp, p \o q, b, a)
<1> DEFINE M == Len(p)
           N == Len(q)
           c == p \o q
           f == FirstOr(q, a)
           g == LastOr(p, b)
<1>1. /\ p \in Seq(ListNodes) /\ \A i, j \in 1 .. M : p[i] = p[j] => i = j
      /\ \A i \in 1 .. M : /\ hp[p[i]].next = IF i = M THEN f ELSE p[i + 1]
                           /\ hp[p[i]].prev = IF i = 1 THEN b ELSE p[i - 1]
                           /\ hp[p[i]].data \in ListKeys
  BY DEF Segment
<1>2. /\ q \in Seq(ListNodes) /\ \A i, j \in 1 .. N : q[i] = q[j] => i = j
      /\ \A i \in 1 .. N : /\ hp[q[i]].next = IF i = N THEN a ELSE q[i + 1]
                           /\ hp[q[i]].prev = IF i = 1 THEN g ELSE q[i - 1]
                           /\ hp[q[i]].data \in ListKeys
  BY DEF Segment
<1>3. f = (IF N = 0 THEN a ELSE q[1]) /\ g = (IF M = 0 THEN b ELSE p[M])
  BY DEF FirstOr, LastOr
<1>4. /\ c \in Seq(ListNodes) /\ Len(c) = M + N /\ M \in Nat /\ N \in Nat
      /\ \A i \in 1 .. M : c[i] = p[i]
      /\ \A i \in 1 .. N : c[M + i] = q[i]
      /\ \A i \in 1 .. M + N : i \in 1 .. M \/ (i > M /\ i - M \in 1 .. N)
  BY <1>1, <1>2, ConcatIs
<1>5. \A i \in 1 .. M, j \in 1 .. N : p[i] # q[j]
  BY DEF ElementsOf
<1> HIDE DEF M, N, c, f, g
<1>6. \A i \in 1 .. M + N : \/ i \in 1 .. M
                            \/ \E j \in 1 .. N : i = M + j
  BY <1>4
<1>7. \A i, j \in 1 .. M + N : c[i] = c[j] => i = j
  <2> SUFFICES ASSUME NEW i \in 1 .. M + N, NEW j \in 1 .. M + N, c[i] = c[j] PROVE i = j
    OBVIOUS
  <2>1. CASE i \in 1 .. M /\ j \in 1 .. M
    BY <1>1, <1>4, <2>1
  <2>2. CASE i \in 1 .. M /\ \E y \in 1 .. N : j = M + y
    BY <1>4, <1>5, <2>2
  <2>3. CASE j \in 1 .. M /\ \E x \in 1 .. N : i = M + x
    BY <1>4, <1>5, <2>3
  <2>4. CASE (\E x \in 1 .. N : i = M + x) /\ (\E y \in 1 .. N : j = M + y)
    <3>1. PICK x \in 1 .. N, y \in 1 .. N : i = M + x /\ j = M + y
      BY <2>4
    <3>2. c[i] = q[x] /\ c[j] = q[y]
      BY <1>4, <3>1
    <3>3. q[x] = q[y]
      BY <3>2
    <3>4. x = y
      BY <1>2, <3>3
    <3> QED
      BY <3>1, <3>4
  <2> QED
    BY <1>6, <2>1, <2>2, <2>3, <2>4
<1>8. ASSUME NEW i \in 1 .. M
      PROVE  /\ hp[c[i]].next = IF i = M + N THEN a ELSE c[i + 1]
             /\ hp[c[i]].prev = IF i = 1 THEN b ELSE c[i - 1]
             /\ hp[c[i]].data \in ListKeys
  <2>1. c[i] = p[i] /\ i \in Nat /\ i >= 1 /\ i <= M
    BY <1>4
  <2>2. hp[c[i]].prev = IF i = 1 THEN b ELSE c[i - 1]
    <3>1. i # 1 => i - 1 \in 1 .. M
      BY <1>4, <2>1
    <3> QED
      BY <1>1, <1>4, <2>1, <3>1
  <2>3. CASE i = M /\ N = 0
    <3>1. i = M + N
      BY <1>4, <2>3
    <3> QED
      BY <1>1, <1>3, <2>1, <2>2, <2>3, <3>1
  <2>4. CASE i = M /\ N # 0
    <3>1. i # M + N /\ i + 1 = M + 1 /\ 1 \in 1 .. N
      BY <1>4, <2>4
    <3>2. c[i + 1] = q[1]
      BY <1>4, <3>1
    <3> QED
      BY <1>1, <1>3, <2>1, <2>2, <2>4, <3>1, <3>2
  <2>5. CASE i # M
    <3>1. i # M + N /\ i + 1 \in 1 .. M
      BY <1>4, <2>1, <2>5
    <3>2. c[i + 1] = p[i + 1]
      BY <1>4, <3>1
    <3> QED
      BY <1>1, <2>1, <2>2, <2>5, <3>1, <3>2
  <2> QED
    BY <2>3, <2>4, <2>5
<1>9. ASSUME NEW j \in 1 .. N
      PROVE  /\ hp[c[M + j]].next = IF M + j = M + N THEN a ELSE c[(M + j) + 1]
             /\ hp[c[M + j]].prev = IF M + j = 1 THEN b ELSE c[(M + j) - 1]
             /\ hp[c[M + j]].data \in ListKeys
  <2>1. c[M + j] = q[j] /\ j \in Nat /\ j >= 1 /\ j <= N
    BY <1>4
  <2>2. hp[c[M + j]].next = IF M + j = M + N THEN a ELSE c[(M + j) + 1]
    <3>1. (M + j = M + N) <=> (j = N)
      BY <1>4, <2>1
    <3>2. j # N => j + 1 \in 1 .. N /\ (M + j) + 1 = M + (j + 1)
      BY <1>4, <2>1
    <3>3. j # N => c[(M + j) + 1] = q[j + 1]
      BY <1>4, <3>2
    <3> QED
      BY <1>2, <2>1, <3>1, <3>3
  <2>3. CASE j = 1 /\ M = 0
    <3>1. M + j = 1
      BY <2>3
    <3> QED
      BY <1>2, <1>3, <2>1, <2>2, <2>3, <3>1
  <2>4. CASE j = 1 /\ M # 0
    <3>1. M + j # 1 /\ (M + j) - 1 = M /\ M \in 1 .. M
      BY <1>4, <2>4
    <3>2. c[(M + j) - 1] = p[M]
      BY <1>4, <3>1
    <3> QED
      BY <1>2, <1>3, <2>1, <2>2, <2>4, <3>1, <3>2
  <2>5. CASE j # 1
    <3>1. M + j # 1 /\ j - 1 \in 1 .. N /\ (M + j) - 1 = M + (j - 1)
      BY <1>4, <2>1, <2>5
    <3>2. c[(M + j) - 1] = q[j - 1]
      BY <1>4, <3>1
    <3> QED
      BY <1>2, <2>1, <2>2, <2>5, <3>1, <3>2
  <2> QED
    BY <2>3, <2>4, <2>5
<1>10. \A i \in 1 .. M + N : /\ hp[c[i]].next = IF i = M + N THEN a ELSE c[i + 1]
                             /\ hp[c[i]].prev = IF i = 1 THEN b ELSE c[i - 1]
                             /\ hp[c[i]].data \in ListKeys
  BY <1>6, <1>8, <1>9
<1>11. Segment(hp, c, b, a)
  BY <1>4, <1>7, <1>10 DEF Segment
<1> QED
  BY <1>11 DEF c

\* ... and the other way around.
LEMMA SegmentSplits ==
  ASSUME NEW hp, NEW p \in Seq(ListNodes), NEW q \in Seq(ListNodes), NEW b, NEW a, Segment(hp, p \o q, b, a)
  PROVE  /\ Segment(hp, p, b, FirstOr(q, a)) /\ Segment(hp, q, LastOr(p, b), a)
         /\ ElementsOf(p) \cap ElementsOf(q) = {}
<1> DEFINE M == Len(p)
           N == Len(q)
           c == p \o q
           f == FirstOr(q, a)
           g == LastOr(p, b)
<1>1. /\ c \in Seq(ListNodes) /\ Len(c) = M + N /\ M \in Nat /\ N \in Nat
      /\ \A i \in 1 .. M : c[i] = p[i]
      /\ \A i \in 1 .. N : c[M + i] = q[i]
  BY ConcatIs
<1>2. /\ \A i, j \in 1 .. M + N : c[i] = c[j] => i = j
      /\ \A i \in 1 .. M + N : /\ hp[c[i]].next = IF i = M + N THEN a ELSE c[i + 1]
                               /\ hp[c[i]].prev = IF i = 1 THEN b ELSE c[i - 1]
                               /\ hp[c[i]].data \in ListKeys
  BY <1>1 DEF Segment
<1>3. f = (IF N = 0 THEN a ELSE q[1]) /\ g = (IF M = 0 THEN b ELSE p[M])
  BY DEF FirstOr, LastOr
<1>4. (\A i \in 1 .. M, j \in 1 .. N : p[i] # q[j]) => ElementsOf(p) \cap ElementsOf(q) = {}
  BY DEF ElementsOf
<1> HIDE DEF M, N, c, f, g
<1>5. /\ \A i \in 1 .. M : i \in 1 .. M + N
      /\ \A i \in 1 .. N : M + i \in 1 .. M + N
  BY <1>1
<1>6. \A i \in 1 .. M, j \in 1 .. N : p[i] # q[j]
  <2>1. \A i \in 1 .. M, j \in 1 .. N : i # M + j
    BY <1>1
  <2> QED
    BY <1>1, <1>2, <1>5, <2>1
<1>7. \A i, j \in 1 .. M : p[i] = p[j] => i = j
  BY <1>1, <1>2, <1>5
<1>8. \A i, j \in 1 .. N : q[i] = q[j] => i = j
  <2>1. \A i, j \in 1 .. N : M + i = M + j => i = j
    BY <1>1
  <2> QED
    BY <1>1, <1>2, <1>5, <2>1
<1>9. ASSUME NEW i \in 1 .. M
      PROVE  /\ hp[p[i]].next = IF i = M THEN f ELSE p[i + 1]
             /\ hp[p[i]].prev = IF i = 1 THEN b ELSE p[i - 1]
             /\ hp[p[i]].data \in ListKeys
  <2>1. c[i] = p[i] /\ i \in Nat /\ i >= 1 /\ i <= M /\ i \in 1 .. M + N
    BY <1>1, <1>5
  <2>2. hp[p[i]].prev = (IF i = 1 THEN b ELSE p[i - 1]) /\ hp[p[i]].data \in ListKeys
    <3>1. i # 1 => i - 1 \in 1 .. M
      BY <1>1, <2>1
    <3> QED
      BY <1>1, <1>2, <2>1, <3>1
  <2>3. hp[p[i]].next = IF i = M + N THEN a ELSE c[i + 1]
    BY <1>2, <2>1
  <2>4. CASE i = M /\ N = 0
    BY <1>1, <1>3, <2>2, <2>3, <2>4
  <2>5. CASE i = M /\ N # 0
    <3>1. i # M + N /\ i + 1 = M + 1 /\ 1 \in 1 .. N
      BY <1>1, <2>5
    <3>2. c[i + 1] = q[1]
      BY <1>1, <3>1
    <3> QED
      BY <1>3, <2>2, <2>3, <2>5, <3>1, <3>2
  <2>6. CASE i # M
    <3>1. i # M + N /\ i + 1 \in 1 .. M
      BY <1>1, <2>1, <2>6
    <3> QED
      BY <1>1, <2>2, <2>3, <2>6, <3>1
  <2> QED
    BY <2>4, <2>5, <2>6
<1>10. ASSUME NEW j \in 1 .. N
       PROVE  /\ hp[q[j]].next = IF j = N THEN a ELSE q[j + 1]
              /\ hp[q[j]].prev = IF j = 1 THEN g ELSE q[j - 1]
              /\ hp[q[j]].data \in ListKeys
  <2>1. c[M + j] = q[j] /\ j \in Nat /\ j >= 1 /\ j <= N /\ M + j \in 1 .. M + N
    <3>1. c[M + j] = q[j] /\ M + j \in 1 .. M + N
      BY <1>1, <1>5
    <3>2. j \in Nat /\ j >= 1 /\ j <= N
      BY ONLY <1>1, j \in 1 .. N
    <3> QED
      BY <3>1, <3>2
  <2>2. /\ hp[q[j]].next = IF M + j = M + N THEN a ELSE c[(M + j) + 1]
        /\ hp[q[j]].prev = IF M + j = 1 THEN b ELSE c[(M + j) - 1]
        /\ hp[q[j]].data \in ListKeys
    BY <1>2, <2>1
  <2>3. hp[q[j]].next = IF j = N THEN a ELSE q[j + 1]
    <3>1. (M + j = M + N) <=> (j = N)
      BY <1>1, <2>1
    <3>2. j # N => j + 1 \in 1 .. N /\ (M + j) + 1 = M + (j + 1)
      BY <1>1, <2>1
    <3>3. j # N => c[(M + j) + 1] = q[j + 1]
      BY <1>1, <3>2
    <3> QED
      BY <2>2, <3>1, <3>3
  <2>4. CASE j = 1 /\ M = 0
    BY <1>3, <2>2, <2>3, <2>4
  <2>5. CASE j = 1 /\ M # 0
    <3>1. M + j # 1 /\ (M + j) - 1 = M /\ M \in 1 .. M
      BY <1>1, <2>5
    <3>2. c[(M + j) - 1] = p[M]
      BY <1>1, <3>1
    <3> QED
      BY <1>3, <2>2, <2>3, <2>5, <3>1, <3>2
  <2>6. CASE j # 1
    <3>1. M + j # 1 /\ j - 1 \in 1 .. N /\ (M + j) - 1 = M + (j - 1)
      BY <1>1, <2>1, <2>6
    <3>2. c[(M + j) - 1] = q[j - 1]
      BY <1>1, <3>1
    <3> QED
      BY <2>2, <2>3, <2>6, <3>1, <3>2
  <2> QED
    BY <2>4, <2>5, <2>6
<1>11. Segment(hp, p, b, f)
  BY <1>7, <1>9 DEF Segment, M
<1>12. Segment(hp, q, g, a)
  BY <1>8, <1>10 DEF Segment, N
<1> QED
  BY <1>4, <1>6, <1>11, <1>12 DEF f, g

\* Only the pointers at both ends changed.
Moved(hp, g, q, b, a) ==
  \A m \in ElementsOf(q) : /\ g[m].next = IF m = LastOr(q, Null) THEN a ELSE hp[m].next
                           /\ g[m].prev = IF m = FirstOr(q, Null) THEN b ELSE hp[m].prev
                           /\ g[m].data = hp[m].data

\* Then the nodes stay linked.
LEMMA SegmentMoves ==
  ASSUME NEW hp, NEW g, NEW q, NEW b, NEW a, Segment(hp, q, b, a), NEW b1, NEW a1,
         Moved(hp, g, q, b1, a1)
  PROVE  Segment(g, q, b1, a1) /\ DataOf(g, q) = DataOf(hp, q)
<1> DEFINE N == Len(q)
<1>1. /\ q \in Seq(ListNodes) /\ N \in Nat /\ \A i, j \in 1 .. N : q[i] = q[j] => i = j
      /\ \A i \in 1 .. N : /\ hp[q[i]].next = IF i = N THEN a ELSE q[i + 1]
                           /\ hp[q[i]].prev = IF i = 1 THEN b ELSE q[i - 1]
                           /\ hp[q[i]].data \in ListKeys
  BY DEF Segment
<1>2. \A i \in 1 .. N : q[i] \in ElementsOf(q)
  BY DEF ElementsOf
<1>3. N # 0 => LastOr(q, Null) = q[N] /\ FirstOr(q, Null) = q[1]
  BY DEF LastOr, FirstOr
<1> HIDE DEF N
<1>4. ASSUME NEW i \in 1 .. N
      PROVE  /\ g[q[i]].next = IF i = N THEN a1 ELSE q[i + 1]
             /\ g[q[i]].prev = IF i = 1 THEN b1 ELSE q[i - 1]
             /\ g[q[i]].data = hp[q[i]].data
  <2>1. N # 0 /\ 1 \in 1 .. N /\ N \in 1 .. N
    BY <1>1
  <2>2. (q[i] = q[N] <=> i = N) /\ (q[i] = q[1] <=> i = 1)
    BY <1>1, <2>1
  <2>3. /\ g[q[i]].next = IF q[i] = q[N] THEN a1 ELSE hp[q[i]].next
        /\ g[q[i]].prev = IF q[i] = q[1] THEN b1 ELSE hp[q[i]].prev
        /\ g[q[i]].data = hp[q[i]].data
    BY <1>2, <1>3, <2>1 DEF Moved
  <2> QED
    BY <1>1, <2>2, <2>3
<1>5. Segment(g, q, b1, a1)
  BY <1>1, <1>4 DEF Segment, N
<1>6. DataOf(g, q) = DataOf(hp, q)
  <2>1. DOMAIN q = 1 .. N
    BY <1>1 DEF N
  <2> QED
    BY <1>4, <2>1 DEF DataOf
<1> QED
  BY <1>5, <1>6

\* The elements of two parts.
LEMMA DataJoins ==
  ASSUME NEW hp, NEW p \in Seq(ListNodes), NEW q \in Seq(ListNodes)
  PROVE  DataOf(hp, p \o q) = DataOf(hp, p) \o DataOf(hp, q)
<1> DEFINE M == Len(p)
           N == Len(q)
           c == p \o q
           d == DataOf(hp, p)
           e == DataOf(hp, q)
           V == {hp[m].data : m \in ListNodes}
<1>1. /\ c \in Seq(ListNodes) /\ Len(c) = M + N /\ M \in Nat /\ N \in Nat
      /\ DOMAIN p = 1 .. M /\ DOMAIN q = 1 .. N /\ DOMAIN c = 1 .. M + N
      /\ \A i \in 1 .. M : c[i] = p[i] /\ p[i] \in ListNodes
      /\ \A i \in 1 .. N : c[M + i] = q[i] /\ q[i] \in ListNodes
      /\ \A i \in 1 .. M + N : i \in 1 .. M \/ (i > M /\ i - M \in 1 .. N)
  BY ConcatIs
<1> HIDE DEF M, N, c
<1>2. d = [i \in 1 .. M |-> hp[p[i]].data] /\ e = [i \in 1 .. N |-> hp[q[i]].data]
  BY <1>1 DEF DataOf
<1>3. DataOf(hp, c) = [i \in 1 .. M + N |-> hp[c[i]].data]
  BY <1>1 DEF DataOf
<1>4. d \in Seq(V) /\ Len(d) = M
  <2>1. d \in [1 .. M -> V]
    BY <1>1, <1>2
  <2> QED
    BY <1>1, <2>1, FunctionIsSeq
<1>5. e \in Seq(V) /\ Len(e) = N
  <2>1. e \in [1 .. N -> V]
    BY <1>1, <1>2
  <2> QED
    BY <1>1, <2>1, FunctionIsSeq
<1> HIDE DEF d, e, V
<1>6. d \o e = [i \in 1 .. M + N |-> (d \o e)[i]]
  <2> DEFINE x == d \o e
  <2>1. x \in Seq(V) /\ Len(x) = M + N
    BY <1>4, <1>5, ConcatIs
  <2> HIDE DEF x
  <2>2. x = [i \in 1 .. M + N |-> x[i]]
    BY ONLY <2>1
  <2> QED
    BY <2>2 DEF x
<1>7. \A i \in 1 .. M + N : (d \o e)[i] = hp[c[i]].data
  <2> SUFFICES ASSUME NEW i \in 1 .. M + N PROVE (d \o e)[i] = hp[c[i]].data
    OBVIOUS
  <2>1. CASE i \in 1 .. M
    <3>1. (d \o e)[i] = d[i]
      BY <1>4, <1>5, <2>1, ConcatIs
    <3> QED
      BY <1>1, <1>2, <2>1, <3>1
  <2>2. CASE i > M /\ i - M \in 1 .. N
    <3>1. i = M + (i - M)
      BY <1>1
    <3>2. (d \o e)[M + (i - M)] = e[i - M]
      BY <1>4, <1>5, <2>2, ConcatIs
    <3> QED
      BY <1>1, <1>2, <2>2, <3>1, <3>2
  <2> QED
    BY <1>1, <2>1, <2>2
<1>8. d \o e = DataOf(hp, c)
  BY <1>3, <1>6, <1>7
<1> QED
  BY <1>8 DEF c, d, e

-----------------------------------------------------------------------------
\* What a list needs to have the nodes q.
LEMMA OwnsIs ==
  ASSUME NEW s, NEW l \in Lists, NEW q
  PROVE  Owns(s, l, q) <=>
           /\ s \in ListStates /\ Segment(s.hp, q, Null, Null) /\ Len(q) <= ListMax
           /\ s.li.current = Len(q) /\ s.li.first = FirstOr(q, Null) /\ s.li.last = LastOr(q, Null)
           /\ ElementsOf(q) \subseteq s.used /\ ElementsOf(q) \subseteq NodesFor(l)
<1> DEFINE C == Chain(s.hp, s.li, q)
<1>1. Owns(s, l, q) <=> /\ s \in ListStates /\ C
                        /\ ElementsOf(q) \subseteq s.used /\ ElementsOf(q) \subseteq NodesFor(l)
  BY DEF Owns
<1>2. C <=> /\ Segment(s.hp, q, Null, Null) /\ Len(q) <= ListMax /\ s.li.current = Len(q)
            /\ s.li.first = FirstOr(q, Null) /\ s.li.last = LastOr(q, Null)
  BY ChainIs
<1> HIDE DEF C
<1> QED
  BY <1>1, <1>2

\* Two sequences with the same elements in the same places.
LEMMA SameSeq ==
  ASSUME NEW S, NEW s \in Seq(S), NEW t \in Seq(S), Len(s) = Len(t), \A i \in 1 .. Len(s) : s[i] = t[i]
  PROVE  s = t
<1>1. s = [i \in 1 .. Len(s) |-> s[i]] /\ t = [i \in 1 .. Len(t) |-> t[i]]
  OBVIOUS
<1> QED
  BY <1>1

\* A sequence of one.
LEMMA SingleIs ==
  ASSUME NEW S, NEW n \in S
  PROVE  /\ <<n>> \in Seq(S) /\ Len(<<n>>) = 1 /\ <<n>>[1] = n /\ ElementsOf(<<n>>) = {n}
         /\ \A x : FirstOr(<<n>>, x) = n /\ LastOr(<<n>>, x) = n
<1>1. <<n>> \in Seq(S) /\ Len(<<n>>) = 1 /\ <<n>>[1] = n
  OBVIOUS
<1> DEFINE s == <<n>>
<1> HIDE DEF s
<1>2. Len(s) = 1 /\ s[1] = n
  BY <1>1 DEF s
<1>3. ElementsOf(s) = {n}
  <2>1. \A i \in 1 .. Len(s) : i = 1
    BY <1>2
  <2>2. 1 \in 1 .. Len(s)
    BY <1>2
  <2> QED
    BY <1>2, <2>1, <2>2 DEF ElementsOf
<1>4. \A x : FirstOr(s, x) = n /\ LastOr(s, x) = n
  BY <1>2 DEF FirstOr, LastOr
<1> QED
  BY <1>1, <1>3, <1>4 DEF s

\* A node between two others.
LEMMA SingleLinked ==
  ASSUME NEW hp, NEW n \in ListNodes, NEW b, NEW a
  PROVE  /\ Segment(hp, <<n>>, b, a) <=> hp[n].next = a /\ hp[n].prev = b /\ hp[n].data \in ListKeys
         /\ DataOf(hp, <<n>>) = <<hp[n].data>>
<1> DEFINE s == <<n>>
<1>1. s \in Seq(ListNodes) /\ Len(s) = 1 /\ s[1] = n /\ DOMAIN s = 1 .. 1
  BY SingleIs
<1> HIDE DEF s
<1>2. Segment(hp, s, b, a) <=> hp[n].next = a /\ hp[n].prev = b /\ hp[n].data \in ListKeys
  <2>1. \A i \in 1 .. 1 : i = 1
    OBVIOUS
  <2>2. 1 \in 1 .. 1
    OBVIOUS
  <2>3. Segment(hp, s, b, a) <=> \A i \in 1 .. 1 : /\ hp[s[i]].next = IF i = 1 THEN a ELSE s[i + 1]
                                                   /\ hp[s[i]].prev = IF i = 1 THEN b ELSE s[i - 1]
                                                   /\ hp[s[i]].data \in ListKeys
    BY <1>1, <2>1 DEF Segment
  <2> QED
    BY <1>1, <2>1, <2>2, <2>3
<1>3. DataOf(hp, s) = <<hp[n].data>>
  <2>1. DataOf(hp, s) = [i \in 1 .. 1 |-> hp[s[i]].data]
    BY <1>1 DEF DataOf
  <2>2. [i \in 1 .. 1 |-> hp[s[i]].data] = [i \in 1 .. 1 |-> hp[n].data]
    BY <1>1
  <2>3. [i \in 1 .. 1 |-> hp[n].data] = <<hp[n].data>>
    OBVIOUS
  <2> QED
    BY <2>1, <2>2, <2>3
<1> QED
  BY <1>2, <1>3 DEF s

\* The ends of linked nodes.
LEMMA SegmentEnds ==
  ASSUME NEW hp, NEW q, NEW b, NEW a, Segment(hp, q, b, a)
  PROVE  /\ q \in Seq(ListNodes) /\ Null \notin ElementsOf(q) /\ ElementsOf(q) \subseteq ListNodes
         /\ \A m \in ElementsOf(q) : /\ hp[m].data \in ListKeys
                                     /\ m = LastOr(q, Null) => hp[m].next = a
                                     /\ m = FirstOr(q, Null) => hp[m].prev = b
         /\ FirstOr(q, Null) \in ElementsOf(q) \cup {Null} /\ LastOr(q, Null) \in ElementsOf(q) \cup {Null}
         /\ FirstOr(q, Null) = Null <=> LastOr(q, Null) = Null
         /\ FirstOr(q, Null) = Null <=> Len(q) = 0
         /\ \A x : FirstOr(q, x) = (IF FirstOr(q, Null) = Null THEN x ELSE FirstOr(q, Null))
                /\ LastOr(q, x) = (IF LastOr(q, Null) = Null THEN x ELSE LastOr(q, Null))
<1> DEFINE N == Len(q)
<1>1. /\ q \in Seq(ListNodes) /\ N \in Nat
      /\ \A i, j \in 1 .. N : q[i] = q[j] => i = j
      /\ \A i \in 1 .. N : /\ hp[q[i]].next = IF i = N THEN a ELSE q[i + 1]
                           /\ hp[q[i]].prev = IF i = 1 THEN b ELSE q[i - 1]
                           /\ hp[q[i]].data \in ListKeys
                           /\ q[i] \in ListNodes
  BY DEF Segment
<1>2. ElementsOf(q) = {q[i] : i \in 1 .. N}
  BY DEF ElementsOf
<1>3. Null \notin ElementsOf(q) /\ ElementsOf(q) \subseteq ListNodes
  BY <1>1, <1>2, ListNumbers
<1>4. \A x : FirstOr(q, x) = (IF N = 0 THEN x ELSE q[1]) /\ LastOr(q, x) = IF N = 0 THEN x ELSE q[N]
  BY DEF FirstOr, LastOr
<1> HIDE DEF N
<1>5. N # 0 => 1 \in 1 .. N /\ N \in 1 .. N
  BY <1>1
<1>6. N # 0 => q[1] \in ElementsOf(q) /\ q[N] \in ElementsOf(q)
  BY <1>2, <1>5
<1>7. ASSUME NEW m \in ElementsOf(q)
      PROVE  hp[m].data \in ListKeys /\ (m = LastOr(q, Null) => hp[m].next = a)
                                     /\ (m = FirstOr(q, Null) => hp[m].prev = b)
  <2>1. PICK i \in 1 .. N : q[i] = m
    BY <1>2
  <2>2. N # 0
    BY <1>1
  <2> QED
    BY <1>1, <1>4, <1>5, <2>1, <2>2
<1>8. N # 0 => q[1] # Null /\ q[N] # Null
  BY <1>3, <1>6
<1> QED
  BY <1>1, <1>3, <1>4, <1>6, <1>7, <1>8 DEF N

\* The elements of linked nodes.
LEMMA SegmentData ==
  ASSUME NEW hp, NEW q, NEW b, NEW a, Segment(hp, q, b, a)
  PROVE  /\ DataOf(hp, q) \in Seq(ListKeys) /\ Len(DataOf(hp, q)) = Len(q) /\ Len(q) \in Nat
         /\ \A i \in 1 .. Len(q) : DataOf(hp, q)[i] = hp[q[i]].data
<1> DEFINE n == Len(q)
           d == DataOf(hp, q)
<1>1. n \in Nat /\ DOMAIN q = 1 .. n /\ \A i \in 1 .. n : hp[q[i]].data \in ListKeys
  BY DEF Segment
<1> HIDE DEF n
<1>2. d = [i \in 1 .. n |-> hp[q[i]].data]
  BY <1>1 DEF DataOf
<1> HIDE DEF d
<1>3. d \in [1 .. n -> ListKeys] /\ \A i \in 1 .. n : d[i] = hp[q[i]].data
  BY <1>1, <1>2
<1>4. d \in Seq(ListKeys) /\ Len(d) = n
  BY <1>1, <1>3, FunctionIsSeq
<1> QED
  BY <1>1, <1>3, <1>4 DEF d, n

-----------------------------------------------------------------------------
\* A new node in front of a list's nodes.
Preceded(s, n, key) ==
  LET first == s.li.first
  IN  State([m \in DOMAIN s.hp |->
               IF m = n THEN NodeCreate(first, Null, key)
               ELSE IF m = first THEN [s.hp[m] EXCEPT !.prev = n] ELSE s.hp[m]],
            [s.li EXCEPT !.first = n, !.last = IF first = Null THEN n ELSE @, !.current = @ + 1],
            s.used \cup {n})

\* t is list l with the key before those of q.
IsPreceded(s, l, q, key, t, r) ==
  Owns(t, l, r) /\ Turns(s, q, t, r) /\ DataOf(t.hp, r) = <<key>> \o DataOf(s.hp, q)

\* Preceded(s, n, key) is list l with the node n, which holds the key, before its nodes.
LEMMA PrecededKeeps ==
  ASSUME NEW l \in Lists, NEW s, NEW q, Owns(s, l, q), Len(q) < ListMax, NEW key \in ListKeys,
         NEW n \in ListNodes, n \notin s.used, n \in NodesFor(l), NEW t, t = Preceded(s, n, key),
         NEW r, r = <<n>> \o q
  PROVE  IsPreceded(s, l, q, key, t, r)
<1> DEFINE first == s.li.first
           hp == [m \in DOMAIN s.hp |->
                    IF m = n THEN NodeCreate(first, Null, key)
                    ELSE IF m = first THEN [s.hp[m] EXCEPT !.prev = n] ELSE s.hp[m]]
           li == [s.li EXCEPT !.first = n, !.last = IF first = Null THEN n ELSE @, !.current = @ + 1]
<1>1. /\ s \in ListStates /\ Segment(s.hp, q, Null, Null) /\ Len(q) < ListMax /\ Len(q) <= ListMax
      /\ s.li.current = Len(q) /\ first = FirstOr(q, Null) /\ s.li.last = LastOr(q, Null)
      /\ ElementsOf(q) \subseteq s.used /\ ElementsOf(q) \subseteq NodesFor(l)
  BY OwnsIs
<1>2. /\ s.hp \in [ListNodes -> NodeRecs] /\ s.li \in LinkedLists /\ s.used \subseteq ListNodes
      /\ first \in ListNodes \cup {Null} /\ n # Null
  BY <1>1, StateParts, ListNumbers
<1>3. /\ q \in Seq(ListNodes) /\ Null \notin ElementsOf(q) /\ ElementsOf(q) \subseteq ListNodes
      /\ \A m \in ElementsOf(q) : /\ m = LastOr(q, Null) => s.hp[m].next = Null
                                  /\ m = FirstOr(q, Null) => s.hp[m].prev = Null
      /\ FirstOr(q, Null) = Null <=> LastOr(q, Null) = Null
      /\ \A x : LastOr(q, x) = (IF LastOr(q, Null) = Null THEN x ELSE LastOr(q, Null))
      /\ FirstOr(q, Null) \in ElementsOf(q) \cup {Null}
  BY <1>1, SegmentEnds
<1>4. n \notin ElementsOf(q)
  BY <1>1
<1>5. /\ r \in Seq(ListNodes) /\ Len(r) = 1 + Len(q) /\ Len(q) \in Nat
      /\ ElementsOf(r) = {n} \cup ElementsOf(q)
      /\ FirstOr(r, Null) = n /\ LastOr(r, Null) = LastOr(q, n)
  <2> DEFINE one == <<n>>
  <2>1. /\ one \in Seq(ListNodes) /\ Len(one) = 1 /\ ElementsOf(one) = {n}
        /\ \A x : FirstOr(one, x) = n /\ LastOr(one, x) = n
    BY SingleIs
  <2> HIDE DEF one
  <2>2. /\ one \o q \in Seq(ListNodes) /\ Len(one \o q) = Len(one) + Len(q) /\ Len(q) \in Nat
        /\ ElementsOf(one \o q) = ElementsOf(one) \cup ElementsOf(q)
        /\ \A x : FirstOr(one \o q, x) = FirstOr(one, FirstOr(q, x))
        /\ \A x : LastOr(one \o q, x) = LastOr(q, LastOr(one, x))
    <3>1. one \in Seq(ListNodes) /\ q \in Seq(ListNodes)
      BY <1>3, <2>1
    <3> QED
      BY ONLY <3>1, ConcatIs
  <2>3. r = one \o q
    BY DEF one
  <2> QED
    BY <2>1, <2>2, <2>3
<1> HIDE DEF first
<1>6. hp \in [ListNodes -> NodeRecs]
  <2>1. NodeCreate(first, Null, key) \in NodeRecs
    BY <1>2 DEF NodeCreate, NodeRecs
  <2>2. \A m \in ListNodes : s.hp[m] \in NodeRecs /\ [s.hp[m] EXCEPT !.prev = n] \in NodeRecs
    BY <1>2 DEF NodeRecs
  <2> QED
    BY <1>2, <2>1, <2>2
<1>7. /\ li \in LinkedLists /\ li.current = Len(q) + 1 /\ li.first = n /\ li.sorted = s.li.sorted
      /\ li.last = IF first = Null THEN n ELSE s.li.last
  <2>1. Len(q) + 1 \in 0 .. ListMax
    BY <1>1, <1>5, ListNumbers
  <2>2. li \in LinkedLists
    BY <1>1, <1>2, <2>1 DEF LinkedLists
  <2> QED
    BY <1>1, <1>2, <2>2 DEF LinkedLists
<1>8. /\ hp[n].next = first /\ hp[n].prev = Null /\ hp[n].data = key
      /\ \A m \in ListNodes : m # n => /\ hp[m].prev = (IF m = first THEN n ELSE s.hp[m].prev)
                                       /\ hp[m].next = s.hp[m].next /\ hp[m].data = s.hp[m].data
      /\ \A m \in ListNodes : m # n /\ m # first => hp[m] = s.hp[m]
  <2>1. \A m \in ListNodes : hp[m] = IF m = n THEN NodeCreate(first, Null, key)
                                     ELSE IF m = first THEN [s.hp[m] EXCEPT !.prev = n] ELSE s.hp[m]
    BY <1>2
  <2>2. \A m \in ListNodes : s.hp[m] \in NodeRecs
    BY <1>2
  <2>3. \A m \in ListNodes : /\ [s.hp[m] EXCEPT !.prev = n].prev = n
                             /\ [s.hp[m] EXCEPT !.prev = n].next = s.hp[m].next
                             /\ [s.hp[m] EXCEPT !.prev = n].data = s.hp[m].data
    BY <2>2 DEF NodeRecs
  <2>4. NodeCreate(first, Null, key) = [next |-> first, prev |-> Null, data |-> key]
    BY DEF NodeCreate
  <2> HIDE DEF hp
  <2>5. hp[n].next = first /\ hp[n].prev = Null /\ hp[n].data = key
    <3>1. hp[n] = NodeCreate(first, Null, key)
      BY <2>1
    <3> QED
      BY ONLY <2>4, <3>1
  <2>6. \A m \in ListNodes : m # n /\ m # first => hp[m] = s.hp[m]
    BY ONLY <2>1
  <2>7. ASSUME NEW m \in ListNodes, m # n, m = first
        PROVE  hp[m].prev = n /\ hp[m].next = s.hp[m].next /\ hp[m].data = s.hp[m].data
    <3>1. hp[m] = [s.hp[m] EXCEPT !.prev = n]
      BY ONLY <2>1, <2>7, m \in ListNodes
    <3> QED
      BY ONLY <2>3, <3>1, m \in ListNodes
  <2> QED
    BY ONLY <2>5, <2>6, <2>7
<1>9. t = State(hp, li, s.used \cup {n})
  BY Zenon DEF Preceded, first
<1> HIDE DEF hp, li
<1>10. t \in ListStates /\ t.hp = hp /\ t.li = li /\ t.used = s.used \cup {n}
  <2>1. s.used \cup {n} \in SUBSET ListNodes
    BY <1>2
  <2> QED
    BY <1>6, <1>7, <1>9, <2>1, StateParts
<1>11. Segment(hp, q, n, Null) /\ DataOf(hp, q) = DataOf(s.hp, q)
  <2>1. Moved(s.hp, hp, q, n, Null)
    BY <1>1, <1>3, <1>4, <1>8 DEF Moved
  <2>2. Segment(s.hp, q, Null, Null)
    BY <1>1
  <2> QED
    BY ONLY <2>1, <2>2, SegmentMoves
<1>12. Segment(hp, <<n>>, Null, FirstOr(q, Null)) /\ DataOf(hp, <<n>>) = <<key>>
  BY <1>1, <1>8, SingleLinked
<1>13. Segment(hp, r, Null, Null)
  <2>1. LastOr(<<n>>, Null) = n /\ ElementsOf(<<n>>) = {n}
    BY SingleIs
  <2>2. Segment(hp, q, LastOr(<<n>>, Null), Null) /\ ElementsOf(<<n>>) \cap ElementsOf(q) = {}
    BY <1>4, <1>11, <2>1
  <2>3. Segment(hp, <<n>> \o q, Null, Null)
    BY ONLY <1>12, <2>2, SegmentJoins
  <2> QED
    BY <2>3
<1>14. Owns(t, l, r)
  <2>1. li.last = LastOr(r, Null)
    BY <1>1, <1>3, <1>5, <1>7
  <2>2. Len(r) <= ListMax /\ li.current = Len(r)
    BY <1>1, <1>5, <1>7, ListNumbers
  <2>3. ElementsOf(r) \subseteq t.used /\ ElementsOf(r) \subseteq NodesFor(l)
    BY <1>1, <1>5, <1>10
  <2> QED
    BY <1>5, <1>7, <1>10, <1>13, <2>1, <2>2, <2>3, OwnsIs
<1>15. Turns(s, q, t, r)
  <2>1. \A m \in s.used \ ElementsOf(q) : m \in ListNodes /\ m # n /\ m # first
    BY <1>1, <1>2, <1>3, ListNumbers
  <2>2. t.used \ ElementsOf(r) = s.used \ ElementsOf(q)
    BY <1>1, <1>5, <1>10
  <2> QED
    BY <1>8, <1>10, <2>1, <2>2 DEF Turns
<1>16. DataOf(t.hp, r) = <<key>> \o DataOf(s.hp, q)
  <2>1. DataOf(hp, <<n>> \o q) = DataOf(hp, <<n>>) \o DataOf(hp, q)
    BY <1>3, SingleIs, DataJoins
  <2> QED
    BY <1>10, <1>11, <1>12, <2>1
<1> QED
  BY <1>14, <1>15, <1>16 DEF IsPreceded

-----------------------------------------------------------------------------
\* x is what is before index i of s, y what is behind it.
IsCut(S, s, i, x, y) ==
  /\ x \in Seq(S) /\ y \in Seq(S) /\ Len(x) = i - 1 /\ Len(y) = Len(s) - i
  /\ s = (x \o <<s[i]>>) \o y /\ RemoveAt(s, i) = x \o y

\* A sequence is what is before one of its elements, the element and what is
\* behind it.
LEMMA CutAt ==
  ASSUME NEW S, NEW s \in Seq(S), NEW i \in 1 .. Len(s),
         NEW x, x = SubSeq(s, 1, i - 1), NEW y, y = SubSeq(s, i + 1, Len(s))
  PROVE  IsCut(S, s, i, x, y)
<1> DEFINE e == s[i]
           one == <<e>>
           c == (x \o one) \o y
<1>1. x \in Seq(S) /\ Len(x) = i - 1 /\ \A j \in 1 .. i - 1 : x[j] = s[j]
  OBVIOUS
<1>2. y \in Seq(S) /\ Len(y) = Len(s) - i /\ \A j \in 1 .. Len(s) - i : y[j] = s[i + j]
  OBVIOUS
<1>3. one \in Seq(S) /\ Len(one) = 1 /\ one[1] = e
  OBVIOUS
<1> HIDE DEF one
<1>4. /\ x \o one \in Seq(S) /\ Len(x \o one) = i
      /\ \A j \in 1 .. i - 1 : (x \o one)[j] = x[j]
      /\ (x \o one)[i] = e
  <2>1. /\ x \o one \in Seq(S) /\ Len(x \o one) = Len(x) + Len(one)
        /\ \A j \in 1 .. Len(x) : (x \o one)[j] = x[j]
        /\ \A j \in 1 .. Len(one) : (x \o one)[Len(x) + j] = one[j]
    <3>1. x \in Seq(S) /\ one \in Seq(S)
      BY <1>1, <1>3
    <3> QED
      BY ONLY <3>1, ConcatIs
  <2>2. Len(x) + Len(one) = i /\ Len(x) + 1 = i /\ 1 \in 1 .. Len(one) /\ Len(x) = i - 1
    BY <1>1, <1>3
  <2> QED
    BY <1>3, <2>1, <2>2
<1> DEFINE z == x \o one
<1>5. z \in Seq(S) /\ Len(z) = i /\ (\A j \in 1 .. i - 1 : z[j] = x[j]) /\ z[i] = e
  BY <1>4
<1> HIDE DEF z
<1>6. /\ z \o y \in Seq(S) /\ Len(z \o y) = Len(z) + Len(y)
      /\ \A j \in 1 .. Len(z) : (z \o y)[j] = z[j]
      /\ \A j \in 1 .. Len(y) : (z \o y)[Len(z) + j] = y[j]
  <2>1. z \in Seq(S) /\ y \in Seq(S)
    BY <1>2, <1>5
  <2> QED
    BY ONLY <2>1, ConcatIs
<1>7. s = z \o y
  <2> DEFINE w == z \o y
  <2>1. /\ w \in Seq(S) /\ Len(w) = Len(s) /\ \A j \in 1 .. i : w[j] = z[j]
        /\ \A j \in 1 .. Len(s) - i : w[i + j] = y[j]
    <3>1. Len(s) \in Nat /\ i \in Nat /\ i + (Len(s) - i) = Len(s)
      OBVIOUS
    <3>2. Len(z) = i /\ Len(y) = Len(s) - i
      BY <1>2, <1>5
    <3> QED
      BY ONLY <1>6, <3>1, <3>2
  <2> HIDE DEF w
  <2>2. ASSUME NEW j \in 1 .. Len(s) PROVE s[j] = w[j]
    <3>1. CASE j < i
      <4>1. j \in 1 .. i - 1 /\ j \in 1 .. i
        BY <3>1
      <4> QED
        BY ONLY <1>1, <1>5, <2>1, <4>1
    <3>2. CASE j = i
      BY <1>5, <2>1, <3>2
    <3>3. CASE j > i
      <4>1. j - i \in 1 .. Len(s) - i /\ i + (j - i) = j
        BY <3>3
      <4> QED
        BY <1>2, <2>1, <4>1
    <3> QED
      BY <3>1, <3>2, <3>3
  <2>3. s = w
    BY <2>1, <2>2, SameSeq
  <2> QED
    BY <2>3 DEF w
<1>8. RemoveAt(s, i) = x \o y
  BY DEF RemoveAt
<1> QED
  BY <1>1, <1>2, <1>7, <1>8 DEF z, one, e, IsCut

\* The element e between x and y in s.
IsMiddle(S, x, e, y, s) ==
  /\ s \in Seq(S) /\ Len(s) = Len(x) + 1 + Len(y) /\ Len(x) + 1 \in 1 .. Len(s) /\ s[Len(x) + 1] = e
  /\ \A j \in 1 .. Len(x) : s[j] = x[j]
  /\ RemoveAt(s, Len(x) + 1) = x \o y
  /\ x = SubSeq(s, 1, Len(x)) /\ y = SubSeq(s, (Len(x) + 1) + 1, Len(s))

\* Without an element, the parts before and behind it are left.
LEMMA WithoutMiddle ==
  ASSUME NEW S, NEW x \in Seq(S), NEW e \in S, NEW y \in Seq(S), NEW s, s = (x \o <<e>>) \o y
  PROVE  IsMiddle(S, x, e, y, s)
<1> DEFINE one == <<e>>
           z == x \o one
           M == Len(x)
           N == Len(y)
<1>1. M \in Nat /\ N \in Nat
  OBVIOUS
<1>2. one \in Seq(S) /\ Len(one) = 1 /\ one[1] = e
  OBVIOUS
<1> HIDE DEF one
<1>3. z \in Seq(S) /\ Len(z) = M + 1 /\ (\A j \in 1 .. M : z[j] = x[j]) /\ z[M + 1] = e
  <2>1. /\ x \o one \in Seq(S) /\ Len(x \o one) = Len(x) + Len(one)
        /\ \A j \in 1 .. Len(x) : (x \o one)[j] = x[j]
        /\ \A j \in 1 .. Len(one) : (x \o one)[Len(x) + j] = one[j]
    <3>1. x \in Seq(S) /\ one \in Seq(S)
      BY <1>2
    <3> QED
      BY ONLY <3>1, ConcatIs
  <2>2. 1 \in 1 .. Len(one)
    BY <1>2
  <2> QED
    BY <1>2, <2>1, <2>2
<1> HIDE DEF z
<1>4. /\ z \o y \in Seq(S) /\ Len(z \o y) = Len(z) + N
      /\ \A j \in 1 .. Len(z) : (z \o y)[j] = z[j]
      /\ \A j \in 1 .. N : (z \o y)[Len(z) + j] = y[j]
  <2>1. z \in Seq(S) /\ y \in Seq(S)
    BY <1>3
  <2> QED
    BY ONLY <2>1, ConcatIs DEF N
<1>5. s = z \o y
  BY DEF z, one
<1> HIDE DEF M, N
<1>6. /\ s \in Seq(S) /\ Len(s) = M + 1 + N /\ (\A j \in 1 .. M + 1 : s[j] = z[j])
      /\ \A j \in 1 .. N : s[(M + 1) + j] = y[j]
  BY <1>1, <1>3, <1>4, <1>5
<1>7. (\A j \in 1 .. M : s[j] = x[j]) /\ s[M + 1] = e
  <2>1. (\A j \in 1 .. M : j \in 1 .. M + 1) /\ M + 1 \in 1 .. M + 1
    BY <1>1
  <2> QED
    BY <1>3, <1>6, <2>1
<1>8. x = SubSeq(s, 1, M)
  <2> DEFINE w == SubSeq(s, 1, M)
  <2>1. M \in 1 .. Len(s) \/ M = 0
    BY <1>1, <1>6
  <2>2. w \in Seq(S) /\ Len(w) = M /\ \A j \in 1 .. M : w[j] = s[j]
    BY <1>1, <1>6, <2>1
  <2> HIDE DEF w
  <2>3. x = w
    BY <1>7, <2>2, SameSeq DEF M
  <2> QED
    BY <2>3 DEF w
<1>9. y = SubSeq(s, (M + 1) + 1, Len(s))
  <2> DEFINE w == SubSeq(s, (M + 1) + 1, Len(s))
  <2>1. (M + 1) + 1 \in Nat /\ Len(s) \in Nat /\ (M + 1) + 1 >= 1 /\ Len(s) = M + 1 + N
    BY <1>1, <1>6
  <2>2. w \in Seq(S) /\ Len(w) = N /\ \A j \in 1 .. N : w[j] = s[(M + 1) + j]
    BY <1>1, <1>6, <2>1
  <2> HIDE DEF w
  <2>3. y = w
    BY <1>6, <2>2, SameSeq DEF N
  <2> QED
    BY <2>3 DEF w
<1>10. RemoveAt(s, M + 1) = x \o y
  <2>1. (M + 1) - 1 = M
    BY <1>1
  <2>2. RemoveAt(s, M + 1) = SubSeq(s, 1, (M + 1) - 1) \o SubSeq(s, (M + 1) + 1, Len(s))
    BY DEF RemoveAt
  <2> QED
    BY <1>8, <1>9, <2>1, <2>2
<1>11. M + 1 \in 1 .. Len(s)
  BY <1>1, <1>6
<1> QED
  BY <1>6, <1>7, <1>8, <1>9, <1>10, <1>11 DEF M, N, IsMiddle

-----------------------------------------------------------------------------
\* Deleting a list's node leaves the others linked (llist_delete).
LEMMA DeleteKeeps ==
  ASSUME NEW l \in Lists, NEW s, NEW q, Owns(s, l, q), NEW i \in 1 .. Len(q),
         NEW t, t = DeleteFrom(s, q[i])
  PROVE  Reaches(s, l, q, t, RemoveAt(DataOf(s.hp, q), i))
<1> DEFINE v == q[i]
           x == SubSeq(q, 1, i - 1)
           y == SubSeq(q, i + 1, Len(q))
           r == x \o y
           nx == s.hp[v].next
           pv == s.hp[v].prev
           hp == Unlink(s.hp, v)
           li == [s.li EXCEPT !.first = IF @ = v THEN s.hp[v].next ELSE @,
                              !.last  = IF @ = v THEN s.hp[v].prev ELSE @,
                              !.current = @ - 1]
<1>1. /\ s \in ListStates /\ Segment(s.hp, q, Null, Null) /\ Len(q) <= ListMax
      /\ s.li.current = Len(q) /\ s.li.first = FirstOr(q, Null) /\ s.li.last = LastOr(q, Null)
      /\ ElementsOf(q) \subseteq s.used /\ ElementsOf(q) \subseteq NodesFor(l)
  BY OwnsIs
<1>2. /\ s.hp \in [ListNodes -> NodeRecs] /\ s.li \in LinkedLists /\ s.used \subseteq ListNodes
  BY <1>1, StateParts
<1>3. q \in Seq(ListNodes) /\ v \in ListNodes /\ Len(q) \in Nat /\ v # Null
  BY <1>1, ListNumbers DEF Segment
<1>4. /\ x \in Seq(ListNodes) /\ y \in Seq(ListNodes) /\ Len(x) = i - 1 /\ Len(y) = Len(q) - i
      /\ q = (x \o <<v>>) \o y
  <2>1. q \in Seq(ListNodes) /\ i \in 1 .. Len(q) /\ x = SubSeq(q, 1, i - 1) /\ y = SubSeq(q, i + 1, Len(q))
    BY <1>3
  <2> HIDE DEF x, y
  <2>2. IsCut(ListNodes, q, i, x, y)
    BY ONLY <2>1, CutAt
  <2> QED
    BY <2>2 DEF v, IsCut
<1> DEFINE one == <<v>>
           z == x \o one
<1>5. /\ one \in Seq(ListNodes) /\ Len(one) = 1 /\ ElementsOf(one) = {v}
      /\ \A a : FirstOr(one, a) = v /\ LastOr(one, a) = v
  BY <1>3, SingleIs
<1>6. q = z \o y
  BY <1>4
<1> HIDE DEF v, x, y, one, hp, li, nx, pv
<1>7. /\ z \in Seq(ListNodes) /\ ElementsOf(z) = ElementsOf(x) \cup {v}
      /\ \A a : FirstOr(z, a) = FirstOr(x, v)
      /\ \A a : LastOr(z, a) = v
  <2>1. x \in Seq(ListNodes) /\ one \in Seq(ListNodes)
    BY <1>4, <1>5
  <2>2. /\ z \in Seq(ListNodes) /\ ElementsOf(z) = ElementsOf(x) \cup ElementsOf(one)
        /\ \A a : FirstOr(z, a) = FirstOr(x, FirstOr(one, a))
        /\ \A a : LastOr(z, a) = LastOr(one, LastOr(x, a))
    BY ONLY <2>1, ConcatIs
  <2> QED
    BY <1>5, <2>2
<1> HIDE DEF z
<1>8. /\ ElementsOf(q) = ElementsOf(z) \cup ElementsOf(y)
      /\ FirstOr(q, Null) = FirstOr(z, FirstOr(y, Null)) /\ LastOr(q, Null) = LastOr(y, LastOr(z, Null))
  <2>1. z \in Seq(ListNodes) /\ y \in Seq(ListNodes)
    BY <1>4, <1>7
  <2> QED
    BY ONLY <1>6, <2>1, ConcatIs
<1>9. /\ r \in Seq(ListNodes) /\ Len(r) = Len(x) + Len(y) /\ ElementsOf(r) = ElementsOf(x) \cup ElementsOf(y)
      /\ FirstOr(r, Null) = FirstOr(x, FirstOr(y, Null)) /\ LastOr(r, Null) = LastOr(y, LastOr(x, Null))
  <2>1. x \in Seq(ListNodes) /\ y \in Seq(ListNodes)
    BY <1>4
  <2> QED
    BY ONLY <2>1, ConcatIs
<1> HIDE DEF r
<1>10. /\ Segment(s.hp, z, Null, FirstOr(y, Null)) /\ Segment(s.hp, y, LastOr(z, Null), Null)
       /\ ElementsOf(z) \cap ElementsOf(y) = {}
  <2>1. Segment(s.hp, z \o y, Null, Null) /\ z \in Seq(ListNodes) /\ y \in Seq(ListNodes)
    BY <1>1, <1>4, <1>6, <1>7
  <2> QED
    BY ONLY <2>1, SegmentSplits
<1>11. /\ Segment(s.hp, x, Null, v) /\ Segment(s.hp, one, LastOr(x, Null), FirstOr(y, Null))
       /\ ElementsOf(x) \cap {v} = {}
  <2> DEFINE a == FirstOr(y, Null)
  <2>1. Segment(s.hp, x \o one, Null, a) /\ x \in Seq(ListNodes) /\ one \in Seq(ListNodes)
    BY <1>4, <1>5, <1>10 DEF z
  <2> HIDE DEF a
  <2>2. /\ Segment(s.hp, x, Null, FirstOr(one, a)) /\ Segment(s.hp, one, LastOr(x, Null), a)
        /\ ElementsOf(x) \cap ElementsOf(one) = {}
    BY ONLY <2>1, SegmentSplits
  <2> QED
    BY <1>5, <2>2 DEF a
<1>12. nx = FirstOr(y, Null) /\ pv = LastOr(x, Null) /\ s.hp[v].data \in ListKeys /\ DataOf(s.hp, one) = <<s.hp[v].data>>
  BY <1>3, <1>11, SingleLinked DEF one, nx, pv
<1>13. Segment(s.hp, y, v, Null) /\ v \notin ElementsOf(x) /\ v \notin ElementsOf(y)
       /\ ElementsOf(x) \cap ElementsOf(y) = {}
  BY <1>7, <1>10, <1>11
<1>14. /\ ElementsOf(x) \subseteq ListNodes /\ Null \notin ElementsOf(x)
       /\ \A m \in ElementsOf(x) : /\ m = LastOr(x, Null) => s.hp[m].next = v
                                   /\ m = FirstOr(x, Null) => s.hp[m].prev = Null
       /\ FirstOr(x, Null) \in ElementsOf(x) \cup {Null} /\ LastOr(x, Null) \in ElementsOf(x) \cup {Null}
       /\ FirstOr(x, Null) = Null <=> LastOr(x, Null) = Null
       /\ \A a : FirstOr(x, a) = (IF FirstOr(x, Null) = Null THEN a ELSE FirstOr(x, Null))
              /\ LastOr(x, a) = (IF LastOr(x, Null) = Null THEN a ELSE LastOr(x, Null))
  BY <1>11, SegmentEnds
<1>15. /\ ElementsOf(y) \subseteq ListNodes /\ Null \notin ElementsOf(y)
       /\ \A m \in ElementsOf(y) : /\ m = LastOr(y, Null) => s.hp[m].next = Null
                                   /\ m = FirstOr(y, Null) => s.hp[m].prev = v
       /\ FirstOr(y, Null) \in ElementsOf(y) \cup {Null} /\ LastOr(y, Null) \in ElementsOf(y) \cup {Null}
       /\ FirstOr(y, Null) = Null <=> LastOr(y, Null) = Null
       /\ \A a : FirstOr(y, a) = (IF FirstOr(y, Null) = Null THEN a ELSE FirstOr(y, Null))
              /\ LastOr(y, a) = (IF LastOr(y, Null) = Null THEN a ELSE LastOr(y, Null))
  BY <1>13, SegmentEnds
<1>16. /\ hp \in [ListNodes -> NodeRecs]
       /\ \A m \in ListNodes : m # v => /\ hp[m].next = (IF m = pv THEN nx ELSE s.hp[m].next)
                                        /\ m # pv => hp[m].prev = (IF m = nx THEN pv ELSE s.hp[m].prev)
                                        /\ m = pv => hp[m].prev = s.hp[m].prev
                                        /\ hp[m].data = s.hp[m].data
       /\ \A m \in ListNodes : m # v /\ m # pv /\ m # nx => hp[m] = s.hp[m]
  <2>1. hp = [m \in ListNodes |-> IF m = v THEN FreeNode
                                  ELSE IF m = pv THEN [s.hp[m] EXCEPT !.next = nx]
                                  ELSE IF m = nx THEN [s.hp[m] EXCEPT !.prev = pv] ELSE s.hp[m]]
    BY <1>2 DEF hp, Unlink, pv, nx
  <2>2. \A m \in ListNodes : s.hp[m] \in NodeRecs
    BY <1>2
  <2>3. pv \in ListNodes \cup {Null} /\ nx \in ListNodes \cup {Null}
    BY <1>3, <2>2 DEF pv, nx, NodeRecs
  <2>4. FreeNode \in NodeRecs
    BY DEF FreeNode, NodeRecs
  <2>5. \A m \in ListNodes :
          /\ [s.hp[m] EXCEPT !.next = nx] \in NodeRecs /\ [s.hp[m] EXCEPT !.prev = pv] \in NodeRecs
          /\ [s.hp[m] EXCEPT !.next = nx].next = nx /\ [s.hp[m] EXCEPT !.next = nx].prev = s.hp[m].prev
          /\ [s.hp[m] EXCEPT !.next = nx].data = s.hp[m].data
          /\ [s.hp[m] EXCEPT !.prev = pv].next = s.hp[m].next /\ [s.hp[m] EXCEPT !.prev = pv].prev = pv
          /\ [s.hp[m] EXCEPT !.prev = pv].data = s.hp[m].data
    BY ONLY <2>2, <2>3 DEF NodeRecs
  <2>6. hp \in [ListNodes -> NodeRecs]
    BY ONLY <2>1, <2>2, <2>4, <2>5
  <2>7. \A m \in ListNodes : hp[m] = IF m = v THEN FreeNode
                                     ELSE IF m = pv THEN [s.hp[m] EXCEPT !.next = nx]
                                     ELSE IF m = nx THEN [s.hp[m] EXCEPT !.prev = pv] ELSE s.hp[m]
    BY ONLY <2>1
  <2>8. \A m \in ListNodes : m # v /\ m # pv /\ m # nx => hp[m] = s.hp[m]
    BY ONLY <2>7
  <2>9. ASSUME NEW m \in ListNodes, m # v, m = pv
        PROVE  hp[m].next = nx /\ hp[m].prev = s.hp[m].prev /\ hp[m].data = s.hp[m].data
    <3>1. hp[m] = [s.hp[m] EXCEPT !.next = nx]
      BY ONLY <2>7, <2>9, m \in ListNodes
    <3> QED
      BY ONLY <2>5, <3>1, m \in ListNodes
  <2>10. ASSUME NEW m \in ListNodes, m # v, m # pv, m = nx
         PROVE  hp[m].next = s.hp[m].next /\ hp[m].prev = pv /\ hp[m].data = s.hp[m].data
    <3>1. hp[m] = [s.hp[m] EXCEPT !.prev = pv]
      BY ONLY <2>7, <2>10, m \in ListNodes
    <3> QED
      BY ONLY <2>5, <3>1, m \in ListNodes
  <2> QED
    BY ONLY <2>6, <2>8, <2>9, <2>10
<1>17. Segment(hp, x, Null, FirstOr(y, Null)) /\ DataOf(hp, x) = DataOf(s.hp, x)
  <2>1. \A m \in ElementsOf(x) : m # v /\ m # nx /\ m \in ListNodes
    BY <1>12, <1>13, <1>14, <1>15
  <2>2. Moved(s.hp, hp, x, Null, nx)
    BY <1>12, <1>14, <1>16, <2>1 DEF Moved
  <2>3. Segment(s.hp, x, Null, v)
    BY <1>11
  <2>4. Segment(hp, x, Null, nx) /\ DataOf(hp, x) = DataOf(s.hp, x)
    BY ONLY <2>2, <2>3, SegmentMoves
  <2> QED
    BY <1>12, <2>4
<1>18. Segment(hp, y, LastOr(x, Null), Null) /\ DataOf(hp, y) = DataOf(s.hp, y)
  <2>1. \A m \in ElementsOf(y) : m # v /\ m # pv /\ m \in ListNodes
    BY <1>12, <1>13, <1>14, <1>15
  <2>2. Moved(s.hp, hp, y, pv, Null)
    BY <1>12, <1>15, <1>16, <2>1 DEF Moved
  <2>3. Segment(s.hp, y, v, Null)
    BY <1>13
  <2>4. Segment(hp, y, pv, Null) /\ DataOf(hp, y) = DataOf(s.hp, y)
    BY ONLY <2>2, <2>3, SegmentMoves
  <2> QED
    BY <1>12, <2>4
<1>19. Segment(hp, r, Null, Null)
  <2>1. Segment(hp, x \o y, Null, Null)
    BY ONLY <1>13, <1>17, <1>18, SegmentJoins
  <2> QED
    BY <2>1 DEF r
<1>20. /\ li \in LinkedLists /\ li.current = Len(q) - 1 /\ li.first = FirstOr(r, Null) /\ li.last = LastOr(r, Null)
  <2>1. li.first = (IF s.li.first = v THEN nx ELSE s.li.first) /\ li.last = (IF s.li.last = v THEN pv ELSE s.li.last)
        /\ li.current = Len(q) - 1
    BY <1>1, <1>2 DEF li, nx, pv, LinkedLists
  <2>2. s.li.first = FirstOr(x, v) /\ s.li.last = LastOr(y, v)
    BY <1>1, <1>7, <1>8
  <2>3. li.first = FirstOr(r, Null)
    BY <1>9, <1>12, <1>13, <1>14, <2>1, <2>2
  <2>4. li.last = LastOr(r, Null)
    BY <1>9, <1>12, <1>13, <1>15, <2>1, <2>2
  <2>5. li.first \in ListNodes \cup {Null} /\ li.last \in ListNodes \cup {Null} /\ li.current \in 0 .. ListMax
    <3>1. s.li.first \in ListNodes \cup {Null} /\ s.li.last \in ListNodes \cup {Null}
      BY <1>2, StateParts
    <3>2. nx \in ListNodes \cup {Null} /\ pv \in ListNodes \cup {Null}
      BY <1>12, <1>14, <1>15
    <3>3. Len(q) - 1 \in 0 .. ListMax
      BY <1>1, <1>3, ListNumbers
    <3> QED
      BY <2>1, <3>1, <3>2, <3>3
  <2>6. li = [s.li EXCEPT !.first = li.first, !.last = li.last, !.current = li.current]
    BY <1>2 DEF li, LinkedLists
  <2>7. li \in LinkedLists
    BY <1>2, <2>5, <2>6 DEF LinkedLists
  <2> QED
    BY <2>1, <2>3, <2>4, <2>7
<1>21. t = State(hp, li, s.used \ {v})
  BY DEF DeleteFrom, NodeDestroy, hp, li, v
<1>22. t \in ListStates /\ t.hp = hp /\ t.li = li /\ t.used = s.used \ {v}
  <2>1. s.used \ {v} \in SUBSET ListNodes
    BY <1>2
  <2> QED
    BY <1>16, <1>20, <1>21, <2>1, StateParts
<1>23. Owns(t, l, r)
  <2>1. Len(r) <= ListMax /\ li.current = Len(r)
    <3>1. ListMax \in Nat /\ i \in Nat
      BY <1>3, ListNumbers
    <3>2. Len(r) = (i - 1) + (Len(q) - i) /\ li.current = Len(q) - 1 /\ Len(q) <= ListMax /\ Len(q) \in Nat
      BY <1>1, <1>3, <1>4, <1>9, <1>20
    <3> QED
      BY ONLY <3>1, <3>2
  <2>2. ElementsOf(r) \subseteq t.used /\ ElementsOf(r) \subseteq NodesFor(l)
    BY <1>1, <1>7, <1>8, <1>9, <1>13, <1>22
  <2> QED
    BY <1>19, <1>20, <1>22, <2>1, <2>2, OwnsIs
<1>24. Turns(s, q, t, r)
  <2>1. \A m \in s.used \ ElementsOf(q) : m \in ListNodes /\ m # v /\ m # pv /\ m # nx
    BY <1>2, <1>7, <1>8, <1>12, <1>14, <1>15, ListNumbers
  <2>2. t.used \ ElementsOf(r) = s.used \ ElementsOf(q)
    BY <1>7, <1>8, <1>9, <1>13, <1>22
  <2> QED
    BY <1>16, <1>22, <2>1, <2>2 DEF Turns
<1>25. DataOf(t.hp, r) = RemoveAt(DataOf(s.hp, q), i)
  <2> DEFINE dx == DataOf(s.hp, x)
             dy == DataOf(s.hp, y)
             k == s.hp[v].data
  <2>1. DataOf(hp, r) = DataOf(hp, x) \o DataOf(hp, y)
    BY <1>4, DataJoins DEF r
  <2>2. DataOf(s.hp, q) = DataOf(s.hp, z) \o dy /\ DataOf(s.hp, z) = dx \o DataOf(s.hp, one)
    <3>1. DataOf(s.hp, z \o y) = DataOf(s.hp, z) \o dy
      BY <1>4, <1>7, DataJoins
    <3>2. DataOf(s.hp, x \o one) = dx \o DataOf(s.hp, one)
      BY <1>4, <1>5, DataJoins
    <3> QED
      BY <1>6, <3>1, <3>2 DEF z
  <2>3. DataOf(s.hp, q) = (dx \o <<k>>) \o dy
    BY <1>12, <2>2
  <2>4. dx \in Seq(ListKeys) /\ dy \in Seq(ListKeys) /\ Len(dx) = Len(x) /\ k \in ListKeys
    <3>1. Segment(s.hp, x, Null, v) /\ Segment(s.hp, y, v, Null)
      BY <1>11, <1>13
    <3> QED
      BY <1>12, <3>1, SegmentData
  <2> HIDE DEF dx, dy, k
  <2>5. RemoveAt(DataOf(s.hp, q), Len(dx) + 1) = dx \o dy
    <3> DEFINE d == DataOf(s.hp, q)
    <3>1. d = (dx \o <<k>>) \o dy
      BY <2>3
    <3> HIDE DEF d
    <3>2. dx \in Seq(ListKeys) /\ dy \in Seq(ListKeys) /\ k \in ListKeys
      BY <2>4
    <3>3. IsMiddle(ListKeys, dx, k, dy, d)
      BY ONLY <3>1, <3>2, WithoutMiddle
    <3> QED
      BY <3>3 DEF d, IsMiddle
  <2>6. Len(dx) + 1 = i
    BY <1>4, <2>4
  <2> QED
    BY <1>17, <1>18, <1>22, <2>1, <2>5, <2>6 DEF dx, dy
<1> QED
  BY <1>9, <1>23, <1>24, <1>25 DEF Reaches

-----------------------------------------------------------------------------
\* Linking nodes anew in a given order.
LEMMA RelinkedIs ==
  ASSUME NEW hp \in [ListNodes -> NodeRecs], NEW r \in Seq(ListNodes),
         \A i, j \in 1 .. Len(r) : r[i] = r[j] => i = j,
         \A i \in 1 .. Len(r) : hp[r[i]].data \in ListKeys, NEW g, g = Relinked(hp, r)
  PROVE  /\ g \in [ListNodes -> NodeRecs] /\ Segment(g, r, Null, Null)
         /\ DataOf(g, r) = DataOf(hp, r)
         /\ \A m \in ListNodes \ ElementsOf(r) : g[m] = hp[m]
<1> DEFINE N == Len(r)
           at(n) == CHOOSE i \in DOMAIN r : r[i] = n
           new(n, i) == [next |-> IF i = N THEN Null ELSE r[i + 1],
                         prev |-> IF i = 1 THEN Null ELSE r[i - 1], data |-> hp[n].data]
<1>1. /\ N \in Nat /\ DOMAIN r = 1 .. N /\ ElementsOf(r) = {r[i] : i \in 1 .. N}
      /\ \A i \in 1 .. N : r[i] \in ListNodes
  BY DEF ElementsOf
<1>2. DOMAIN hp = ListNodes
  OBVIOUS
<1>3. g = [n \in ListNodes |-> IF \E i \in 1 .. N : r[i] = n THEN new(n, at(n)) ELSE hp[n]]
  BY <1>1, <1>2, Zenon DEF Relinked
<1>4. \A i \in 1 .. N : at(r[i]) = i
  BY <1>1
<1> HIDE DEF N, at
<1>5. ASSUME NEW i \in 1 .. N PROVE g[r[i]] = new(r[i], i)
  <2>1. r[i] \in ListNodes
    BY <1>1
  <2> HIDE DEF new
  <2> QED
    BY <1>3, <1>4, <2>1
<1>6. \A m \in ListNodes : (m \notin ElementsOf(r)) => g[m] = hp[m]
  BY <1>1, <1>3
<1>7. \A i \in 1 .. N : new(r[i], i) \in NodeRecs
  <2> SUFFICES ASSUME NEW i \in 1 .. N PROVE new(r[i], i) \in NodeRecs
    OBVIOUS
  <2>1. i # N => i + 1 \in 1 .. N
    BY <1>1
  <2>2. i # 1 => i - 1 \in 1 .. N
    BY <1>1
  <2>3. hp[r[i]].data \in ListKeys
    BY DEF N
  <2> QED
    BY <1>1, <2>1, <2>2, <2>3 DEF NodeRecs
<1>8. g \in [ListNodes -> NodeRecs]
  <2>1. \A m \in ListNodes : g[m] \in NodeRecs
    <3> SUFFICES ASSUME NEW m \in ListNodes PROVE g[m] \in NodeRecs
      OBVIOUS
    <3>1. CASE m \in ElementsOf(r)
      <4>1. PICK i \in 1 .. N : r[i] = m
        BY <1>1, <3>1
      <4> HIDE DEF new
      <4> QED
        BY <1>5, <1>7, <4>1
    <3>2. CASE m \notin ElementsOf(r)
      BY <1>6, <3>2
    <3> QED
      BY <3>1, <3>2
  <2>2. g = [m \in ListNodes |-> g[m]]
    BY <1>3
  <2> QED
    BY <2>1, <2>2
<1>9. \A i \in 1 .. N : /\ g[r[i]].next = IF i = N THEN Null ELSE r[i + 1]
                        /\ g[r[i]].prev = IF i = 1 THEN Null ELSE r[i - 1]
                        /\ g[r[i]].data = hp[r[i]].data
  <2> SUFFICES ASSUME NEW i \in 1 .. N
               PROVE  /\ g[r[i]].next = IF i = N THEN Null ELSE r[i + 1]
                      /\ g[r[i]].prev = IF i = 1 THEN Null ELSE r[i - 1]
                      /\ g[r[i]].data = hp[r[i]].data
    OBVIOUS
  <2>1. g[r[i]] = [next |-> IF i = N THEN Null ELSE r[i + 1],
                   prev |-> IF i = 1 THEN Null ELSE r[i - 1], data |-> hp[r[i]].data]
    BY <1>5
  <2> QED
    BY ONLY <2>1
<1>10. Segment(g, r, Null, Null)
  BY <1>9 DEF Segment, N
<1>11. DataOf(g, r) = DataOf(hp, r)
  BY <1>1, <1>9 DEF DataOf
<1> QED
  BY <1>6, <1>8, <1>10, <1>11

\* The order of the merge sorts has every node once, and the keys ascend.
LEMMA OrderIs ==
  ASSUME NEW hp, NEW q, NEW b, NEW a, Segment(hp, q, b, a), NEW r, r = StableOrder(hp, q)
  PROVE  /\ r \in Seq(ListNodes) /\ Len(r) = Len(q) /\ ElementsOf(r) = ElementsOf(q)
         /\ \A i, j \in 1 .. Len(r) : r[i] = r[j] => i = j
         /\ \A i \in 1 .. Len(r) : hp[r[i]].data \in ListKeys
         /\ DataOf(hp, r) = SortedKeys(DataOf(hp, q))
<1> DEFINE N == Len(q)
           d == DataOf(hp, q)
           p == [i \in 1 .. Len(d) |-> <<d[i], q[i]>>]
           o == StableSort(p)
<1>1. /\ q \in Seq(ListNodes) /\ N \in Nat /\ DOMAIN q = 1 .. N
      /\ \A i, j \in 1 .. N : q[i] = q[j] => i = j
      /\ \A i \in 1 .. N : q[i] \in ListNodes /\ hp[q[i]].data \in ListKeys
      /\ ElementsOf(q) = {q[i] : i \in 1 .. N}
  BY DEF Segment, ElementsOf
<1>2. d \in Seq(ListKeys) /\ Len(d) = N /\ \A i \in 1 .. N : d[i] = hp[q[i]].data
  BY SegmentData
<1>3. d \in Seq(Int)
  BY <1>2, ListNumbers
<1> HIDE DEF N, d
<1>4. p = [i \in DOMAIN q |-> <<hp[q[i]].data, q[i]>>]
  BY <1>1, <1>2
<1>5. p = [i \in 1 .. Len(d) |-> <<d[i], q[i]>>]
  OBVIOUS
<1> HIDE DEF p
<1>6. r = [i \in 1 .. N |-> o[i][2]]
  BY <1>1, <1>4, Zenon DEF StableOrder
<1>7. /\ \E f \in [1 .. Len(d) -> 1 .. Len(d)] :
              /\ \A i, j \in 1 .. Len(d) : f[i] = f[j] => i = j
              /\ \A j \in 1 .. Len(d) : \E i \in 1 .. Len(d) : f[i] = j
              /\ \A i \in 1 .. Len(d) : o[i] = <<d[f[i]], q[f[i]]>>
      /\ SortedKeys(d) = [i \in 1 .. Len(d) |-> o[i][1]]
  <2>1. q \in Seq(ListNodes) /\ Len(q) = Len(d) /\ o = StableSort(p)
    BY <1>1, <1>2 DEF N
  <2> HIDE DEF o
  <2> QED
    <3>1. IsSorting(d, q, o)
      BY ONLY <1>3, <1>5, <2>1, TaggedSort
    <3> QED
      BY <3>1 DEF IsSorting
<1> HIDE DEF o
<1>8. PICK f \in [1 .. N -> 1 .. N] :
              /\ \A i, j \in 1 .. N : f[i] = f[j] => i = j
              /\ \A j \in 1 .. N : \E i \in 1 .. N : f[i] = j
              /\ \A i \in 1 .. N : o[i] = <<d[f[i]], q[f[i]]>>
  BY <1>2, <1>7
<1>9. \A i \in 1 .. N : f[i] \in 1 .. N /\ o[i][1] = d[f[i]] /\ o[i][2] = q[f[i]]
  <2>1. \A i \in 1 .. N : f[i] \in 1 .. N
    OBVIOUS
  <2> QED
    BY ONLY <1>8, <2>1
<1>10. \A i \in 1 .. N : r[i] = q[f[i]]
  BY <1>6, <1>9
<1>11. r \in Seq(ListNodes) /\ Len(r) = N
  <2>1. r \in [1 .. N -> ListNodes]
    BY <1>1, <1>6, <1>9
  <2> QED
    BY <1>1, <2>1, FunctionIsSeq
<1>12. ElementsOf(r) = {r[i] : i \in 1 .. N}
  BY <1>11 DEF ElementsOf
<1>13. ElementsOf(r) = ElementsOf(q)
  <2>1. \A i \in 1 .. N : r[i] \in ElementsOf(q)
    BY <1>1, <1>9, <1>10
  <2>2. ASSUME NEW j \in 1 .. N PROVE q[j] \in ElementsOf(r)
    <3>1. PICK i \in 1 .. N : f[i] = j
      BY <1>8
    <3> QED
      BY <1>10, <1>12, <3>1
  <2>3. \A m \in ElementsOf(r) : m \in ElementsOf(q)
    BY ONLY <1>12, <2>1
  <2>4. \A m \in ElementsOf(q) : m \in ElementsOf(r)
    BY ONLY <1>1, <2>2
  <2> QED
    BY ONLY <2>3, <2>4
<1>14. \A i, j \in 1 .. N : r[i] = r[j] => i = j
  BY <1>1, <1>8, <1>9, <1>10
<1>15. \A i \in 1 .. N : hp[r[i]].data \in ListKeys
  BY <1>1, <1>9, <1>10
<1>16. DataOf(hp, r) = SortedKeys(d)
  <2>1. DOMAIN r = 1 .. N
    BY <1>11
  <2>2. DataOf(hp, r) = [i \in 1 .. N |-> hp[r[i]].data]
    BY <2>1 DEF DataOf
  <2>3. \A i \in 1 .. N : hp[r[i]].data = o[i][1]
    BY <1>2, <1>9, <1>10
  <2> QED
    BY <1>2, <1>7, <2>2, <2>3
<1> QED
  BY <1>11, <1>13, <1>14, <1>15, <1>16 DEF N, d

\* A sequence of at most one key is sorted.
LEMMA ShortIsSorted ==
  ASSUME NEW d \in Seq(Int), \A i, j \in 1 .. Len(d) : d[i] = d[j]
  PROVE  SortedKeys(d) = d
<1>1. KeysAscend(d)
  <2>1. \A i, j \in 1 .. Len(d) : d[i] \in Int /\ d[j] \in Int /\ d[i] <= d[j]
    OBVIOUS
  <2> QED
    BY <2>1 DEF KeysAscend
<1>2. SameTimes(d, d)
  BY DEF SameTimes
<1> QED
  BY <1>1, <1>2, SortedIs

\* Nothing happens to a list that is left as it is.
LEMMA StaysReached ==
  ASSUME NEW l \in Lists, NEW s, NEW q, Owns(s, l, q)
  PROVE  Reaches(s, l, q, s, DataOf(s.hp, q))
<1>1. q \in Seq(ListNodes)
  BY DEF Owns, Chain, Linking
<1>2. Turns(s, q, s, q)
  BY DEF Turns
<1> QED
  BY <1>1, <1>2 DEF Reaches

\* The keys of a list after llist_sort.
LEMMA SortListKeeps ==
  ASSUME NEW l \in Lists, NEW s, NEW q, Owns(s, l, q), NEW t, t = SortList(s)
  PROVE  Reaches(s, l, q, t, IF s.li.sorted THEN DataOf(s.hp, q) ELSE SortedKeys(DataOf(s.hp, q)))
<1> DEFINE d == DataOf(s.hp, q)
<1>1. /\ s \in ListStates /\ Segment(s.hp, q, Null, Null) /\ Len(q) <= ListMax
      /\ s.li.current = Len(q) /\ s.li.first = FirstOr(q, Null) /\ s.li.last = LastOr(q, Null)
      /\ ElementsOf(q) \subseteq s.used /\ ElementsOf(q) \subseteq NodesFor(l)
  BY OwnsIs
<1>2. /\ s.hp \in [ListNodes -> NodeRecs] /\ s.li \in LinkedLists /\ s.used \subseteq ListNodes
  BY <1>1, StateParts
<1>3. d \in Seq(ListKeys) /\ Len(d) = Len(q) /\ Len(q) \in Nat
  BY <1>1, SegmentData
<1>4. d \in Seq(Int)
  BY <1>3, ListNumbers
<1> HIDE DEF d
<1>5. CASE s.li.sorted
  <2>1. t = s
    BY <1>5 DEF SortList
  <2> QED
    BY <1>5, <2>1, StaysReached DEF d
<1>6. CASE ~s.li.sorted /\ s.li.current <= 1
  <2>1. t = s
    BY <1>6 DEF SortList
  <2>2. \A i, j \in 1 .. Len(d) : i = 1 /\ j = 1
    BY <1>1, <1>3, <1>6
  <2>3. SortedKeys(d) = d
    BY <1>4, <2>2, ShortIsSorted
  <2> QED
    BY <1>6, <2>1, <2>3, StaysReached DEF d
<1>7. CASE ~s.li.sorted /\ ~(s.li.current <= 1)
  <2> DEFINE r == StableOrder(s.hp, q)
             hp == Relinked(s.hp, r)
             li == [s.li EXCEPT !.first = r[1], !.last = r[Len(r)], !.sorted = TRUE]
  <2>1. NodesOf(s.hp, s.li) = q
    BY ChainIsWalked DEF Owns
  <2>2. t = State(hp, li, s.used)
    BY <1>7, <2>1, Zenon DEF SortList
  <2>3. /\ r \in Seq(ListNodes) /\ Len(r) = Len(q) /\ ElementsOf(r) = ElementsOf(q)
        /\ \A i, j \in 1 .. Len(r) : r[i] = r[j] => i = j
        /\ \A i \in 1 .. Len(r) : s.hp[r[i]].data \in ListKeys
        /\ DataOf(s.hp, r) = SortedKeys(d)
    BY <1>1, OrderIs DEF d
  <2> HIDE DEF r
  <2>4. /\ hp \in [ListNodes -> NodeRecs] /\ Segment(hp, r, Null, Null)
        /\ DataOf(hp, r) = DataOf(s.hp, r)
        /\ \A m \in ListNodes \ ElementsOf(r) : hp[m] = s.hp[m]
    BY <1>2, <2>3, RelinkedIs
  <2>5. Len(r) # 0 /\ 1 \in 1 .. Len(r) /\ Len(r) \in 1 .. Len(r)
    BY <1>1, <1>3, <1>7, <2>3
  <2>6. /\ li \in LinkedLists /\ li.current = Len(r)
        /\ li.first = FirstOr(r, Null) /\ li.last = LastOr(r, Null)
    <3>1. r[1] \in ListNodes /\ r[Len(r)] \in ListNodes
      BY <2>3, <2>5
    <3>2. li \in LinkedLists /\ li.current = s.li.current /\ li.first = r[1] /\ li.last = r[Len(r)]
      BY <1>2, <3>1 DEF LinkedLists
    <3> QED
      BY <1>1, <2>3, <2>5, <3>2 DEF FirstOr, LastOr
  <2> HIDE DEF hp, li
  <2>7. t \in ListStates /\ t.hp = hp /\ t.li = li /\ t.used = s.used
    BY <1>2, <2>2, <2>4, <2>6, StateParts
  <2>8. Owns(t, l, r)
    BY <1>1, <2>3, <2>4, <2>6, <2>7, OwnsIs
  <2>9. Turns(s, q, t, r)
    BY <1>2, <2>3, <2>4, <2>7 DEF Turns
  <2> QED
    BY <1>7, <2>3, <2>4, <2>7, <2>8, <2>9 DEF Reaches, d
<1> QED
  BY <1>5, <1>6, <1>7

-----------------------------------------------------------------------------
\* What is reached from what was reached.
LEMMA ReachesOn ==
  ASSUME NEW l, NEW s, NEW q, NEW u, NEW r, Turns(s, q, u, r), NEW t, NEW keys, Reaches(u, l, r, t, keys)
  PROVE  Reaches(s, l, q, t, keys)
<1>1. PICK z \in Seq(ListNodes) : Owns(t, l, z) /\ Turns(u, r, t, z) /\ DataOf(t.hp, z) = keys
  BY DEF Reaches
<1>2. Turns(s, q, t, z)
  BY <1>1 DEF Turns
<1> QED
  BY <1>1, <1>2 DEF Reaches

\* The end of an insertion: with RCSW_DS_SORTED the list is sorted.
LEMMA ResortKeeps ==
  ASSUME NEW l \in Lists, NEW s, NEW q, Owns(s, l, q), NEW t, t = Resort(s)
  PROVE  Reaches(s, l, q, t, MaybeSorted(DataOf(s.hp, q)))
<1>1. CASE ~listFlags.sort
  <2>1. t = s /\ MaybeSorted(DataOf(s.hp, q)) = DataOf(s.hp, q)
    BY <1>1 DEF Resort, MaybeSorted
  <2> QED
    BY <2>1, StaysReached
<1>2. CASE listFlags.sort
  <2> DEFINE u == [s EXCEPT !.li.sorted = FALSE]
             li == [s.li EXCEPT !.sorted = FALSE]
  <2>1. s \in ListStates /\ s.li \in LinkedLists
    BY StateParts DEF Owns
  <2>2. /\ li \in LinkedLists /\ li.sorted = FALSE /\ li.current = s.li.current
        /\ li.first = s.li.first /\ li.last = s.li.last
    BY <2>1 DEF LinkedLists
  <2>3. u \in ListStates /\ u.hp = s.hp /\ u.li = li /\ u.used = s.used
    <3>1. u = [s EXCEPT !.li = li]
      OBVIOUS
    <3> HIDE DEF u, li
    <3> QED
      BY <2>1, <2>2, <3>1 DEF ListStates
  <2>4. t = SortList(u)
    BY <1>2 DEF Resort
  <2> HIDE DEF u, li
  <2>5. Owns(u, l, q)
    BY <2>2, <2>3, OwnsIs
  <2>6. Reaches(u, l, q, t, SortedKeys(DataOf(s.hp, q)))
    <3>1. Reaches(u, l, q, t, IF u.li.sorted THEN DataOf(u.hp, q) ELSE SortedKeys(DataOf(u.hp, q)))
      BY <2>4, <2>5, SortListKeeps
    <3> QED
      BY <2>2, <2>3, <3>1
  <2>7. Turns(s, q, u, q)
    BY <2>3 DEF Turns
  <2>8. MaybeSorted(DataOf(s.hp, q)) = SortedKeys(DataOf(s.hp, q))
    BY <1>2 DEF MaybeSorted
  <2> QED
    BY <2>6, <2>7, <2>8, ReachesOn
<1> QED
  BY <1>1, <1>2

\* llist_append and llist_prepend add an element at their end of the list.
LEMMA AppendKeeps ==
  ASSUME NEW l \in Lists, NEW s, NEW q, Owns(s, l, q), Len(q) < ListMax, NEW key \in ListKeys,
         NodeAlloc(s.used, l, s.li.current) # Null, NEW t, t = AppendTo(s, l, key)
  PROVE  Reaches(s, l, q, t, MaybeSorted(Append(DataOf(s.hp, q), key)))
<1> DEFINE n == NodeAlloc(s.used, l, s.li.current)
           u == Longer(s, n, key)
           r == Append(q, n)
<1>1. s \in ListStates /\ s.li.current = Len(q) /\ s.used \subseteq ListNodes
      /\ Len(q) \in Nat /\ s.li.current \in 0 .. ListMax
  BY StateParts, ListNumbers DEF Owns, Chain, Linking
<1>2. n \in NodesFor(l) /\ n \in ListNodes /\ n \notin s.used
  <2> HIDE DEF n
  <2>1. n # Null /\ n = NodeAlloc(s.used, l, s.li.current) /\ s.used \in SUBSET ListNodes
    BY <1>1 DEF n
  <2> QED
    BY <1>1, <2>1, NodeAllocIs
<1>3. ~(s.li.current = ListMax \/ n = Null)
  BY <1>1, ListNumbers
<1>4. t = Resort(u)
  BY <1>3, Zenon DEF AppendTo, Longer
<1> HIDE DEF n, u, r
<1>5. /\ Owns(u, l, r) /\ Turns(s, q, u, r) /\ DataOf(u.hp, r) = Append(DataOf(s.hp, q), key)
  BY <1>2, LongerKeeps DEF u, r
<1>6. Reaches(u, l, r, t, MaybeSorted(DataOf(u.hp, r)))
  BY <1>4, <1>5, ResortKeeps
<1> QED
  BY <1>5, <1>6, ReachesOn

\* llist_prepend puts the key before the others, and sorts when the list is sorted.
LEMMA PrependKeeps ==
  ASSUME NEW l \in Lists, NEW s, NEW q, Owns(s, l, q), Len(q) < ListMax, NEW key \in ListKeys,
         NodeAlloc(s.used, l, s.li.current) # Null, NEW t, t = PrependTo(s, l, key)
  PROVE  Reaches(s, l, q, t, MaybeSorted(<<key>> \o DataOf(s.hp, q)))
<1> DEFINE n == NodeAlloc(s.used, l, s.li.current)
           u == Preceded(s, n, key)
           r == <<n>> \o q
<1>1. s \in ListStates /\ s.li.current = Len(q) /\ s.used \subseteq ListNodes
      /\ Len(q) \in Nat /\ s.li.current \in 0 .. ListMax
  BY StateParts, ListNumbers DEF Owns, Chain, Linking
<1>2. n \in NodesFor(l) /\ n \in ListNodes /\ n \notin s.used
  <2> HIDE DEF n
  <2>1. n # Null /\ n = NodeAlloc(s.used, l, s.li.current) /\ s.used \in SUBSET ListNodes
    BY <1>1 DEF n
  <2> QED
    BY <1>1, <2>1, NodeAllocIs
<1>3. ~(s.li.current = ListMax \/ n = Null)
  BY <1>1, ListNumbers
<1>4. t = Resort(u)
  BY <1>3, Zenon DEF PrependTo, Preceded
<1> HIDE DEF n, u, r
<1>5. /\ Owns(u, l, r) /\ Turns(s, q, u, r) /\ DataOf(u.hp, r) = <<key>> \o DataOf(s.hp, q)
  <2>1. u = Preceded(s, n, key) /\ r = <<n>> \o q
    BY DEF u, r
  <2>2. IsPreceded(s, l, q, key, u, r)
    BY <1>2, <2>1, PrecededKeeps
  <2> QED
    BY <2>2 DEF IsPreceded
<1>6. Reaches(u, l, r, t, MaybeSorted(DataOf(u.hp, r)))
  BY <1>4, <1>5, ResortKeeps
<1> QED
  BY <1>5, <1>6, ReachesOn

\* The first index with a key.
LEMMA FirstAtIs ==
  ASSUME NEW S, NEW d \in Seq(S), NEW key, Contains(d, key), NEW i, i = FirstAt(d, key)
  PROVE  i \in 1 .. Len(d) /\ d[i] = key /\ \A j \in 1 .. Len(d) : j < i => d[j] # key
<1> DEFINE T == {j \in DOMAIN d : d[j] = key}
<1>1. T \in SUBSET Nat /\ T # {} /\ \A j : j \in T <=> j \in 1 .. Len(d) /\ d[j] = key
  BY DEF Contains
<1>2. i = Least(T)
  BY DEF FirstAt
<1> HIDE DEF T
<1>3. i \in T /\ \A j \in T : i <= j
  BY <1>1, <1>2, LeastIs
<1> QED
  BY <1>1, <1>3

\* llist_remove removes the first element with the key.
LEMMA RemoveFromKeeps ==
  ASSUME NEW l \in Lists, NEW s, NEW q, Owns(s, l, q), NEW key, Contains(DataOf(s.hp, q), key),
         NEW t, t = RemoveFrom(s, key)
  PROVE  Reaches(s, l, q, t, RemoveAt(DataOf(s.hp, q), FirstAt(DataOf(s.hp, q), key)))
<1> DEFINE d == DataOf(s.hp, q)
           i == FirstAt(d, key)
<1>1. NodesOf(s.hp, s.li) = q
  BY ChainIsWalked DEF Owns
<1>2. q \in Seq(ListNodes) /\ d \in Seq(ListKeys) /\ Len(d) = Len(q)
  BY ChainData DEF Owns, Chain, Linking
<1>3. i \in 1 .. Len(q)
  <2> HIDE DEF d
  <2>1. d \in Seq(ListKeys) /\ Contains(d, key)
    BY <1>2 DEF d
  <2>2. i \in 1 .. Len(d)
    BY <2>1, FirstAtIs
  <2> QED
    BY <1>2, <2>2
<1>4. NodeQuery(s.hp, s.li, key) = q[i]
  BY <1>1, Zenon DEF NodeQuery
<1>5. q[i] # Null
  BY <1>2, <1>3, ListNumbers
<1>6. t = DeleteFrom(s, q[i])
  <2> HIDE DEF i
  <2> QED
    BY <1>4, <1>5 DEF RemoveFrom
<1> HIDE DEF d, i
<1>7. Reaches(s, l, q, t, RemoveAt(DataOf(s.hp, q), i))
  BY <1>3, <1>6, DeleteKeeps
<1> QED
  BY <1>7 DEF d, i

\* llist_clear and llist_destroy leave nothing of a list.
LEMMA ClearListKeeps ==
  ASSUME NEW l \in Lists, NEW s, NEW q, Owns(s, l, q), NEW t, t = ClearList(s)
  PROVE  Reaches(s, l, q, t, <<>>)
<1> DEFINE M == ElementsOf(q)
           hp == [m \in ListNodes |-> IF m \in M THEN FreeNode ELSE s.hp[m]]
           li == [s.li EXCEPT !.first = Null, !.last = Null, !.current = 0]
           r == <<>>
<1>1. s \in ListStates /\ q \in Seq(ListNodes) /\ NodesOf(s.hp, s.li) = q /\ ToSet(q) = M
  <2>1. s \in ListStates /\ Chain(s.hp, s.li, q)
    BY Zenon DEF Owns
  <2>2. q \in Seq(ListNodes)
    BY <2>1, Zenon DEF Chain, Linking
  <2>3. NodesOf(s.hp, s.li) = q
    BY ONLY <2>1, ChainIsWalked
  <2>4. ToSet(q) = M
    BY <2>2, InChain, Zenon
  <2> QED
    BY <2>1, <2>2, <2>3, <2>4, Zenon
<1>2. s.hp \in [ListNodes -> NodeRecs] /\ s.li \in LinkedLists /\ s.used \subseteq ListNodes
  BY <1>1, StateParts
<1>3. t = State(hp, li, s.used \ M)
  <2>1. DOMAIN s.hp = ListNodes
    BY <1>2
  <2> QED
    BY <1>1, <2>1, Zenon DEF ClearList, NodeDestroy
<1> HIDE DEF M
<1>4. hp \in [ListNodes -> NodeRecs] /\ \A m \in ListNodes \ M : hp[m] = s.hp[m]
  <2>1. FreeNode \in NodeRecs
    BY DEF FreeNode, NodeRecs
  <2> QED
    BY <1>2, <2>1
<1>5. li \in LinkedLists /\ li.current = 0 /\ li.first = Null /\ li.last = Null
  <2>1. 0 \in 0 .. ListMax
    BY ListNumbers
  <2> QED
    BY <1>2, <2>1 DEF LinkedLists
<1> HIDE DEF hp, li
<1>6. t \in ListStates /\ t.hp = hp /\ t.li = li /\ t.used = s.used \ M
  <2>1. s.used \ M \in SUBSET ListNodes
    BY <1>2
  <2> QED
    BY <1>3, <1>4, <1>5, <2>1, StateParts
<1>7. r \in Seq(ListNodes) /\ Len(r) = 0 /\ ElementsOf(r) = {} /\ DataOf(hp, r) = <<>>
  BY DEF ElementsOf, DataOf
<1> HIDE DEF r
<1>8. Segment(hp, r, Null, Null) /\ FirstOr(r, Null) = Null /\ LastOr(r, Null) = Null
  BY <1>7 DEF Segment, FirstOr, LastOr
<1>9. Owns(t, l, r)
  <2>1. Len(r) <= ListMax /\ t.li.current = Len(r)
    BY <1>5, <1>6, <1>7, ListNumbers
  <2>2. /\ t \in ListStates /\ Segment(t.hp, r, Null, Null)
        /\ t.li.first = FirstOr(r, Null) /\ t.li.last = LastOr(r, Null)
        /\ ElementsOf(r) \subseteq t.used /\ ElementsOf(r) \subseteq NodesFor(l)
    BY <1>5, <1>6, <1>7, <1>8
  <2> QED
    BY <2>1, <2>2, OwnsIs
<1>10. Turns(s, q, t, r)
  BY <1>2, <1>4, <1>6, <1>7 DEF Turns, M
<1> QED
  BY <1>6, <1>7, <1>9, <1>10 DEF Reaches

-----------------------------------------------------------------------------
\* Both lists: list l has the nodes p[l], and they are all that are taken.
TwoLists(hp, ls, used, p) ==
  /\ \A l \in Lists : Owns(State(hp, ls[l], used), l, p[l])
  /\ ElementsOf(p[1]) \cap ElementsOf(p[2]) = {}
  /\ used = ElementsOf(p[1]) \cup ElementsOf(p[2])

\* ... and the lists hold the keys ks.
ListsHoldIn(hp, ls, used, ks, p) ==
  /\ hp \in [ListNodes -> NodeRecs] /\ ls \in [Lists -> LinkedLists] /\ used \in SUBSET ListNodes
  /\ ks \in [Lists -> Seq(ListKeys)] /\ p \in [Lists -> Seq(ListNodes)]
  /\ TwoLists(hp, ls, used, p) /\ \A l \in Lists : DataOf(hp, p[l]) = ks[l]

ListsHold(hp, ls, used, ks) == \E p \in [Lists -> Seq(ListNodes)] : ListsHoldIn(hp, ls, used, ks, p)

\* What is left when list l comes to state t, with the keys.
OneHolds(ls, ks, l, t, keys) ==
  t \in ListStates /\ ListsHold(t.hp, [ls EXCEPT ![l] = t.li], t.used, [ks EXCEPT ![l] = keys])

\* The list that another one is not.
LEMMA OtherList ==
  ASSUME NEW l \in Lists
  PROVE  /\ 3 - l \in Lists /\ 3 - l # l /\ \A k \in Lists : k = l \/ k = 3 - l
         /\ \A p : /\ ElementsOf(p[1]) \cap ElementsOf(p[2]) = ElementsOf(p[l]) \cap ElementsOf(p[3 - l])
                   /\ ElementsOf(p[1]) \cup ElementsOf(p[2]) = ElementsOf(p[l]) \cup ElementsOf(p[3 - l])
<1>1. l = 1 \/ l = 2
  BY DEF Lists
<1>2. CASE l = 1
  BY <1>2 DEF Lists
<1>3. CASE l = 2
  BY <1>3 DEF Lists
<1> QED
  BY <1>1, <1>2, <1>3

\* One list of the two.
LEMMA HoldsOne ==
  ASSUME NEW hp, NEW ls, NEW used, NEW ks, NEW p, ListsHoldIn(hp, ls, used, ks, p), NEW l \in Lists,
         NEW s, s = State(hp, ls[l], used)
  PROVE  /\ Owns(s, l, p[l]) /\ s.hp = hp /\ s.li = ls[l] /\ s.used = used /\ s \in ListStates
         /\ ls[l] \in LinkedLists /\ p[l] \in Seq(ListNodes) /\ ks[l] \in Seq(ListKeys)
         /\ Chain(hp, ls[l], p[l]) /\ Linking(hp, p[l]) /\ NodesOf(hp, ls[l]) = p[l]
         /\ DataOf(hp, p[l]) = ks[l] /\ KeysOf(hp, ls[l]) = ks[l]
         /\ ls[l].current = Len(ks[l]) /\ Len(p[l]) = Len(ks[l]) /\ Len(ks[l]) \in 0 .. ListMax
<1>1. /\ hp \in [ListNodes -> NodeRecs] /\ used \in SUBSET ListNodes /\ ls[l] \in LinkedLists
      /\ p[l] \in Seq(ListNodes) /\ ks[l] \in Seq(ListKeys) /\ DataOf(hp, p[l]) = ks[l]
  BY DEF ListsHoldIn
<1>2. Owns(s, l, p[l])
  BY DEF ListsHoldIn, TwoLists
<1>3. s.hp = hp /\ s.li = ls[l] /\ s.used = used /\ s \in ListStates
  BY <1>1, StateParts
<1>4. Chain(hp, ls[l], p[l]) /\ Linking(hp, p[l])
  BY <1>2, <1>3 DEF Owns, Chain
<1>5. NodesOf(hp, ls[l]) = p[l]
  BY <1>4, ChainIsWalked
<1>6. KeysOf(hp, ls[l]) = ks[l]
  BY <1>1, <1>5 DEF KeysOf
<1>7. Len(p[l]) = Len(ks[l]) /\ Len(p[l]) \in Nat
  BY <1>1, <1>4, ChainData
<1>8. ls[l].current = Len(p[l]) /\ Len(p[l]) <= ListMax
  BY <1>4 DEF Chain, Linking
<1>9. Len(ks[l]) \in 0 .. ListMax
  BY <1>7, <1>8, ListNumbers
<1> QED
  BY <1>1, <1>2, <1>3, <1>4, <1>5, <1>6, <1>7, <1>8, <1>9

\* An operation on one list leaves the other one alone.
LEMMA OneTurns ==
  ASSUME NEW hp, NEW ls, NEW used, NEW ks, NEW p, ListsHoldIn(hp, ls, used, ks, p), NEW l \in Lists,
         NEW s, s = State(hp, ls[l], used), NEW t, NEW keys, Reaches(s, l, p[l], t, keys)
  PROVE  OneHolds(ls, ks, l, t, keys)
<1> DEFINE k == 3 - l
<1>1. k \in Lists /\ k # l /\ \A m \in Lists : m = l \/ m = k
  BY OtherList
<1>2. /\ hp \in [ListNodes -> NodeRecs] /\ ls \in [Lists -> LinkedLists] /\ used \in SUBSET ListNodes
      /\ ks \in [Lists -> Seq(ListKeys)] /\ p \in [Lists -> Seq(ListNodes)]
      /\ TwoLists(hp, ls, used, p) /\ \A m \in Lists : DataOf(hp, p[m]) = ks[m]
  BY DEF ListsHoldIn
<1>3. PICK r \in Seq(ListNodes) : Owns(t, l, r) /\ Turns(s, p[l], t, r) /\ DataOf(t.hp, r) = keys
  BY DEF Reaches
<1> DEFINE g == [p EXCEPT ![l] = r]
           lt == [ls EXCEPT ![l] = t.li]
           kt == [ks EXCEPT ![l] = keys]
           hq == t.hp
           uq == t.used
<1>4. g \in [Lists -> Seq(ListNodes)] /\ g[l] = r /\ g[k] = p[k]
  BY <1>1, <1>2
<1>5. t \in ListStates
  BY <1>3 DEF Owns
<1>6. hq \in [ListNodes -> NodeRecs] /\ t.li \in LinkedLists /\ uq \in SUBSET ListNodes
  BY <1>5, StateParts
<1>7. keys \in Seq(ListKeys)
  BY <1>3, ChainData DEF Owns, Chain
<1>8. /\ lt \in [Lists -> LinkedLists] /\ lt[l] = t.li /\ lt[k] = ls[k]
      /\ kt \in [Lists -> Seq(ListKeys)] /\ kt[l] = keys /\ kt[k] = ks[k]
  BY <1>1, <1>2, <1>6, <1>7
<1>9. s.hp = hp /\ s.li = ls[l] /\ s.used = used
  BY HoldsOne
<1> HIDE DEF g, lt, kt
<1>10. ElementsOf(p[l]) \cap ElementsOf(p[k]) = {} /\ used = ElementsOf(p[l]) \cup ElementsOf(p[k])
  BY <1>2, OtherList DEF TwoLists
<1> HIDE DEF k
<1>11. /\ uq \ ElementsOf(r) = ElementsOf(p[k]) /\ ElementsOf(r) \subseteq uq
       /\ \A m \in ElementsOf(p[k]) : hq[m] = hp[m]
  BY <1>3, <1>9, <1>10 DEF Turns, Owns
<1>12. ElementsOf(r) \cap ElementsOf(p[k]) = {} /\ uq = ElementsOf(r) \cup ElementsOf(p[k])
  BY <1>11
<1>13. Owns(State(hq, lt[l], uq), l, g[l])
  <2>1. State(hq, t.li, uq) = t
    BY <1>5 DEF State, ListStates
  <2> QED
    BY <1>3, <1>4, <1>8, <2>1
<1> HIDE DEF hq, uq
<1>14. Owns(State(hq, lt[k], uq), k, g[k]) /\ DataOf(hq, g[k]) = kt[k]
  <2> DEFINE a == State(hp, ls[k], used)
             b == State(hq, ls[k], uq)
  <2>1. /\ Owns(a, k, p[k]) /\ Chain(hp, ls[k], p[k]) /\ Linking(hp, p[k])
        /\ DataOf(hp, p[k]) = ks[k] /\ ls[k] \in LinkedLists
    BY <1>1, HoldsOne
  <2>2. b \in ListStates /\ b.hp = hq /\ b.li = ls[k] /\ b.used = uq
    BY <1>6, <2>1, StateParts
  <2> HIDE DEF a, b
  <2>3. Linking(hq, p[k]) /\ DataOf(hq, p[k]) = DataOf(hp, p[k])
    <3>1. Linking(hp, p[k]) /\ \A m \in ElementsOf(p[k]) : hq[m] = hp[m]
      BY <1>11, <2>1
    <3> QED
      BY ONLY <3>1, LinkingKept
  <2>4. Chain(hq, ls[k], p[k])
    BY <2>1, <2>3 DEF Chain
  <2>5. ElementsOf(p[k]) \subseteq uq /\ ElementsOf(p[k]) \subseteq NodesFor(k)
    BY <1>12, <2>1 DEF Owns
  <2>6. Owns(b, k, p[k])
    BY <2>2, <2>4, <2>5 DEF Owns
  <2> QED
    BY <1>4, <1>8, <2>1, <2>3, <2>6 DEF b
<1>15. TwoLists(hq, lt, uq, g)
  <2>1. \A m \in Lists : Owns(State(hq, lt[m], uq), m, g[m])
    BY <1>1, <1>13, <1>14
  <2>2. /\ ElementsOf(g[1]) \cap ElementsOf(g[2]) = ElementsOf(g[l]) \cap ElementsOf(g[k])
        /\ ElementsOf(g[1]) \cup ElementsOf(g[2]) = ElementsOf(g[l]) \cup ElementsOf(g[k])
    BY OtherList DEF k
  <2> QED
    BY <1>4, <1>12, <2>1, <2>2 DEF TwoLists
<1>16. \A m \in Lists : DataOf(hq, g[m]) = kt[m]
  BY <1>1, <1>3, <1>4, <1>8, <1>14 DEF hq
<1>17. ListsHoldIn(hq, lt, uq, kt, g)
  BY <1>4, <1>6, <1>8, <1>15, <1>16 DEF ListsHoldIn
<1>18. ListsHold(hq, lt, uq, kt)
  BY <1>4, <1>17 DEF ListsHold
<1> QED
  BY <1>5, <1>18 DEF OneHolds, lt, kt, hq, uq

\* What linked nodes are counts them.
LEMMA NodesCounted ==
  ASSUME NEW hp, NEW q, Linking(hp, q)
  PROVE  IsFiniteSet(ElementsOf(q)) /\ Cardinality(ElementsOf(q)) = Len(q) /\ Len(q) \in Nat
<1> DEFINE S == 1 .. Len(q)
<1>1. q \in [S -> ElementsOf(q)] /\ Len(q) \in Nat
  BY DEF Linking, ElementsOf
<1>2. \A x, y \in S : q[x] = q[y] => x = y
  BY DEF Linking
<1>3. \A y \in ElementsOf(q) : \E x \in S : q[x] = y
  BY DEF ElementsOf
<1>4. IsFiniteSet(S) /\ Cardinality(S) = Len(q)
  <2>1. 1 \in Int /\ Len(q) \in Int /\ (IF 1 > Len(q) THEN 0 ELSE Len(q) - 1 + 1) = Len(q)
    BY <1>1
  <2> QED
    BY <2>1, FS_Interval
<1> HIDE DEF S
<1>5. IsFiniteSet(ElementsOf(q)) /\ Cardinality(ElementsOf(q)) = Cardinality(S)
  BY <1>1, <1>2, <1>3, <1>4, SameNumber
<1> QED
  BY <1>1, <1>4, <1>5

\* The nodes taken are the elements of both lists.
LEMMA HoldsCount ==
  ASSUME NEW hp, NEW ls, NEW used, NEW ks, ListsHold(hp, ls, used, ks)
  PROVE  IsFiniteSet(used) /\ Cardinality(used) = Len(ks[1]) + Len(ks[2])
<1>1. PICK p \in [Lists -> Seq(ListNodes)] : ListsHoldIn(hp, ls, used, ks, p)
  BY DEF ListsHold
<1> DEFINE A == ElementsOf(p[1])
           B == ElementsOf(p[2])
<1>2. 1 \in Lists /\ 2 \in Lists
  BY DEF Lists
<1>3. /\ Linking(hp, p[1]) /\ Linking(hp, p[2]) /\ Len(p[1]) = Len(ks[1]) /\ Len(p[2]) = Len(ks[2])
  BY <1>1, <1>2, HoldsOne
<1>4. IsFiniteSet(A) /\ IsFiniteSet(B) /\ Cardinality(A) = Len(p[1]) /\ Cardinality(B) = Len(p[2])
  BY <1>3, NodesCounted
<1>5. A \cap B = {} /\ used = A \cup B
  BY <1>1 DEF ListsHoldIn, TwoLists
<1> HIDE DEF A, B
<1>6. IsFiniteSet(A \cup B) /\ Cardinality(A \cup B) = Cardinality(A) + Cardinality(B)
  <2>1. Cardinality(A \cap B) = 0
    BY <1>5, FS_EmptySet
  <2>2. Cardinality(A) \in Nat /\ Cardinality(B) \in Nat
    BY <1>4, FS_CardinalityType
  <2>3. IsFiniteSet(A \cup B) /\ Cardinality(A \cup B) = Cardinality(A) + Cardinality(B) - Cardinality(A \cap B)
    BY <1>4, FS_Union
  <2> QED
    BY <2>1, <2>2, <2>3
<1> QED
  BY <1>3, <1>4, <1>5, <1>6

\* A list that is not full gets a node, unless malloc has none.
LEMMA GetsNode ==
  ASSUME NEW hp, NEW ls, NEW used, NEW ks, ListsHold(hp, ls, used, ks), NEW l \in Lists,
         Len(ks[l]) < ListMax, listFlags.pool \/ Cardinality(used) < HeapNodes
  PROVE  NodeAlloc(used, l, ls[l].current) # Null
<1> DEFINE n == NodeAlloc(used, l, ls[l].current)
           k == 3 - l
<1>1. PICK p \in [Lists -> Seq(ListNodes)] : ListsHoldIn(hp, ls, used, ks, p)
  BY DEF ListsHold
<1>2. used \in SUBSET ListNodes /\ ls[l].current \in 0 .. ListMax /\ IsFiniteSet(used)
  <2>1. used \in SUBSET ListNodes
    BY <1>1 DEF ListsHoldIn
  <2>2. ls[l].current \in 0 .. ListMax
    BY <1>1, HoldsOne
  <2> QED
    BY <2>1, <2>2, HoldsCount
<1>3. k \in Lists
  BY OtherList
<1>4. /\ ElementsOf(p[l]) \subseteq NodesFor(l) /\ ElementsOf(p[k]) \subseteq NodesFor(k)
      /\ used = ElementsOf(p[l]) \cup ElementsOf(p[k])
  BY <1>1, <1>3, OtherList DEF ListsHoldIn, TwoLists, Owns
<1>5. IsFiniteSet(ElementsOf(p[l])) /\ Cardinality(ElementsOf(p[l])) = Len(ks[l])
  <2>1. Linking(hp, p[l]) /\ Len(p[l]) = Len(ks[l])
    BY <1>1, HoldsOne
  <2> QED
    BY <2>1, NodesCounted
<1> HIDE DEF n
<1>6. SUFFICES ASSUME NodesFor(l) \subseteq used PROVE FALSE
  BY <1>2, NodeAllocIs DEF n
<1>7. CASE listFlags.pool
  <2>1. NodesFor(l) \cap NodesFor(k) = {}
    <3>1. l = 1 \/ l = 2
      BY DEF Lists
    <3>2. NodesFor(1) = 1 .. ListMax /\ NodesFor(2) = ListMax + 1 .. 2 * ListMax
      BY <1>7, ListNumbers DEF NodesFor
    <3>3. \A x \in 1 .. ListMax, y \in ListMax + 1 .. 2 * ListMax : x # y
      BY ListNumbers
    <3>4. NodesFor(1) \cap NodesFor(2) = {}
      BY <3>2, <3>3
    <3> QED
      BY <3>1, <3>4
  <2>2. NodesFor(l) = ElementsOf(p[l])
    BY <1>4, <1>6, <2>1
  <2>3. Cardinality(NodesFor(l)) = ListMax
    <3> DEFINE base == (l - 1) * ListMax
    <3>1. base + 1 \in Nat /\ l * ListMax = base + ListMax /\ NodesFor(l) = base + 1 .. l * ListMax
      BY <1>7, NodesForIn
    <3>2. base \in Int
      BY ListNumbers DEF Lists
    <3> HIDE DEF base
    <3>3. base + 1 \in Int /\ base + ListMax \in Int /\ NodesFor(l) = base + 1 .. base + ListMax
          /\ base + 1 <= base + ListMax /\ (base + ListMax) - (base + 1) + 1 = ListMax
      BY <3>1, <3>2, ListNumbers
    <3>4. Cardinality(base + 1 .. base + ListMax) =
            IF base + 1 > base + ListMax THEN 0 ELSE (base + ListMax) - (base + 1) + 1
      BY ONLY <3>3, FS_Interval
    <3> QED
      BY <3>2, <3>3, <3>4, ListNumbers
  <2> QED
    BY <1>5, <2>2, <2>3, ListNumbers
<1>8. CASE ~listFlags.pool
  <2>1. 1 .. HeapNodes \subseteq used /\ Cardinality(used) < HeapNodes
    BY <1>6, <1>8, NodesForIn
  <2>2. Cardinality(1 .. HeapNodes) = HeapNodes /\ HeapNodes \in Nat
    BY ListNumbers, FS_Interval
  <2>3. Cardinality(1 .. HeapNodes) <= Cardinality(used) /\ Cardinality(used) \in Nat
    BY <1>2, <2>1, FS_Subset, FS_CardinalityType
  <2> QED
    BY <2>1, <2>2, <2>3
<1> QED
  BY <1>7, <1>8

\* The operations on one of the lists: llist_append, ...
LEMMA HoldsAppended ==
  ASSUME NEW hp, NEW ls, NEW used, NEW ks, ListsHold(hp, ls, used, ks), NEW l \in Lists, NEW key \in ListKeys,
         Len(ks[l]) < ListMax, NodeAlloc(used, l, ls[l].current) # Null,
         NEW t, t = AppendTo(State(hp, ls[l], used), l, key)
  PROVE  OneHolds(ls, ks, l, t, MaybeSorted(Append(ks[l], key)))
<1> DEFINE s == State(hp, ls[l], used)
<1>1. PICK p \in [Lists -> Seq(ListNodes)] : ListsHoldIn(hp, ls, used, ks, p)
  BY DEF ListsHold
<1>2. /\ Owns(s, l, p[l]) /\ s.hp = hp /\ s.li = ls[l] /\ s.used = used
      /\ Len(p[l]) < ListMax /\ DataOf(hp, p[l]) = ks[l] /\ s = State(hp, ls[l], used)
      /\ t = AppendTo(s, l, key)
  BY <1>1, HoldsOne
<1> HIDE DEF s
<1>3. /\ NodeAlloc(s.used, l, s.li.current) # Null /\ Owns(s, l, p[l]) /\ Len(p[l]) < ListMax
      /\ t = AppendTo(s, l, key) /\ l \in Lists /\ key \in ListKeys
  BY <1>2
<1>4. Reaches(s, l, p[l], t, MaybeSorted(Append(DataOf(s.hp, p[l]), key)))
  BY ONLY <1>3, AppendKeeps
<1>5. Reaches(s, l, p[l], t, MaybeSorted(Append(ks[l], key)))
  BY <1>2, <1>4
<1> QED
  BY <1>1, <1>2, <1>5, OneTurns

\* ... llist_prepend, ...
LEMMA HoldsPrepended ==
  ASSUME NEW hp, NEW ls, NEW used, NEW ks, ListsHold(hp, ls, used, ks), NEW l \in Lists, NEW key \in ListKeys,
         Len(ks[l]) < ListMax, NodeAlloc(used, l, ls[l].current) # Null,
         NEW t, t = PrependTo(State(hp, ls[l], used), l, key)
  PROVE  OneHolds(ls, ks, l, t, MaybeSorted(<<key>> \o ks[l]))
<1> DEFINE s == State(hp, ls[l], used)
<1>1. PICK p \in [Lists -> Seq(ListNodes)] : ListsHoldIn(hp, ls, used, ks, p)
  BY DEF ListsHold
<1>2. /\ Owns(s, l, p[l]) /\ s.hp = hp /\ s.li = ls[l] /\ s.used = used
      /\ Len(p[l]) < ListMax /\ DataOf(hp, p[l]) = ks[l] /\ s = State(hp, ls[l], used)
      /\ t = PrependTo(s, l, key)
  BY <1>1, HoldsOne
<1> HIDE DEF s
<1>3. /\ NodeAlloc(s.used, l, s.li.current) # Null /\ Owns(s, l, p[l]) /\ Len(p[l]) < ListMax
      /\ t = PrependTo(s, l, key) /\ l \in Lists /\ key \in ListKeys
  BY <1>2
<1>4. Reaches(s, l, p[l], t, MaybeSorted(<<key>> \o DataOf(s.hp, p[l])))
  BY ONLY <1>3, PrependKeeps
<1>5. Reaches(s, l, p[l], t, MaybeSorted(<<key>> \o ks[l]))
  BY <1>2, <1>4
<1> QED
  BY <1>1, <1>2, <1>5, OneTurns

\* ... llist_delete of its node i, ...
LEMMA HoldsDeleted ==
  ASSUME NEW hp, NEW ls, NEW used, NEW ks, ListsHold(hp, ls, used, ks), NEW l \in Lists, NEW i \in 1 .. Len(ks[l]),
         NEW t, t = DeleteFrom(State(hp, ls[l], used), NodesOf(hp, ls[l])[i])
  PROVE  OneHolds(ls, ks, l, t, RemoveAt(ks[l], i))
<1> DEFINE s == State(hp, ls[l], used)
<1>1. PICK p \in [Lists -> Seq(ListNodes)] : ListsHoldIn(hp, ls, used, ks, p)
  BY DEF ListsHold
<1>2. /\ Owns(s, l, p[l]) /\ s.hp = hp /\ NodesOf(hp, ls[l]) = p[l]
      /\ Len(p[l]) = Len(ks[l]) /\ DataOf(hp, p[l]) = ks[l] /\ s = State(hp, ls[l], used)
  BY <1>1, HoldsOne
<1> HIDE DEF s
<1>3. i \in 1 .. Len(p[l]) /\ t = DeleteFrom(s, p[l][i])
  BY <1>2
<1>4. Reaches(s, l, p[l], t, RemoveAt(DataOf(s.hp, p[l]), i))
  BY <1>2, <1>3, DeleteKeeps
<1>5. Reaches(s, l, p[l], t, RemoveAt(ks[l], i))
  BY <1>2, <1>4
<1> QED
  BY <1>1, <1>2, <1>5, OneTurns

\* ... llist_remove of a key it holds, ...
LEMMA HoldsRemoved ==
  ASSUME NEW hp, NEW ls, NEW used, NEW ks, ListsHold(hp, ls, used, ks), NEW l \in Lists, NEW key,
         Contains(ks[l], key), NEW t, t = RemoveFrom(State(hp, ls[l], used), key)
  PROVE  OneHolds(ls, ks, l, t, RemoveAt(ks[l], FirstAt(ks[l], key)))
<1> DEFINE s == State(hp, ls[l], used)
<1>1. PICK p \in [Lists -> Seq(ListNodes)] : ListsHoldIn(hp, ls, used, ks, p)
  BY DEF ListsHold
<1>2. /\ Owns(s, l, p[l]) /\ s.hp = hp /\ DataOf(hp, p[l]) = ks[l] /\ s = State(hp, ls[l], used)
      /\ t = RemoveFrom(s, key)
  BY <1>1, HoldsOne
<1> HIDE DEF s
<1>3. DataOf(s.hp, p[l]) = ks[l] /\ Contains(DataOf(s.hp, p[l]), key)
  BY <1>2
<1>4. Reaches(s, l, p[l], t, RemoveAt(DataOf(s.hp, p[l]), FirstAt(DataOf(s.hp, p[l]), key)))
  BY <1>2, <1>3, RemoveFromKeeps
<1>5. Reaches(s, l, p[l], t, RemoveAt(ks[l], FirstAt(ks[l], key)))
  BY <1>3, <1>4
<1> QED
  BY <1>1, <1>2, <1>5, OneTurns

\* ... llist_clear ...
LEMMA HoldsCleared ==
  ASSUME NEW hp, NEW ls, NEW used, NEW ks, ListsHold(hp, ls, used, ks), NEW l \in Lists,
         NEW t, t = ClearList(State(hp, ls[l], used))
  PROVE  OneHolds(ls, ks, l, t, <<>>)
<1> DEFINE s == State(hp, ls[l], used)
<1>1. PICK p \in [Lists -> Seq(ListNodes)] : ListsHoldIn(hp, ls, used, ks, p)
  BY DEF ListsHold
<1>2. Owns(s, l, p[l]) /\ s = State(hp, ls[l], used) /\ t = ClearList(s)
  BY <1>1, HoldsOne
<1> HIDE DEF s
<1>3. Reaches(s, l, p[l], t, <<>>)
  BY <1>2, ClearListKeeps
<1> QED
  BY <1>1, <1>2, <1>3, OneTurns

\* ... and llist_sort.
LEMMA HoldsSorted ==
  ASSUME NEW hp, NEW ls, NEW used, NEW ks, ListsHold(hp, ls, used, ks), NEW l \in Lists,
         NEW t, t = SortList(State(hp, ls[l], used))
  PROVE  OneHolds(ls, ks, l, t, IF ls[l].sorted THEN ks[l] ELSE SortedKeys(ks[l]))
<1> DEFINE s == State(hp, ls[l], used)
<1>1. PICK p \in [Lists -> Seq(ListNodes)] : ListsHoldIn(hp, ls, used, ks, p)
  BY DEF ListsHold
<1>2. /\ Owns(s, l, p[l]) /\ s = State(hp, ls[l], used) /\ t = SortList(s)
      /\ s.hp = hp /\ s.li = ls[l] /\ DataOf(hp, p[l]) = ks[l]
  BY <1>1, HoldsOne
<1> HIDE DEF s
<1>3. Reaches(s, l, p[l], t, IF s.li.sorted THEN DataOf(s.hp, p[l]) ELSE SortedKeys(DataOf(s.hp, p[l])))
  BY <1>2, SortListKeeps
<1>4. Reaches(s, l, p[l], t, IF ls[l].sorted THEN ks[l] ELSE SortedKeys(ks[l]))
  BY <1>2, <1>3
<1> QED
  BY <1>1, <1>2, <1>4, OneTurns

\* Lists that hold what they should are intact.
LEMMA HoldsIntact ==
  ASSUME NEW ks, ListsHold(nodes, list, inuse, ks), missorted \/ ks = expected
  PROVE  ListsIntact
<1>1. PICK p \in [Lists -> Seq(ListNodes)] :
         ListsHoldIn(nodes, list, inuse, ks, p)
  BY DEF ListsHold
<1>2. list \in [Lists -> LinkedLists]
  BY <1>1 DEF ListsHoldIn
<1>3. ASSUME NEW l \in Lists
      PROVE  /\ Chain(nodes, list[l], p[l]) /\ NodesOf(nodes, list[l]) = p[l] /\ p[l] \in Seq(ListNodes)
             /\ DataOf(nodes, p[l]) = ks[l] /\ KeysOf(nodes, list[l]) = ks[l]
  BY <1>1, HoldsOne
<1>4. ASSUME NEW l \in Lists PROVE Linked(l)
  <2> DEFINE q == p[l]
  <2>1. /\ Segment(nodes, q, Null, Null) /\ list[l].current = Len(q) /\ q \in Seq(ListNodes)
        /\ list[l].first = FirstOr(q, Null) /\ list[l].last = LastOr(q, Null)
    BY <1>3, ChainIs
  <2>2. NodesOf(nodes, list[l]) = q
    BY <1>1, <1>3
  <2> HIDE DEF q
  <2>3. DOMAIN q = 1 .. Len(q) /\ (q = <<>> <=> Len(q) = 0)
    BY <2>1
  <2>4. \A i \in DOMAIN q : nodes[q[i]].prev = IF i = 1 THEN Null ELSE q[i - 1]
    BY <2>1, <2>3, Zenon DEF Segment
  <2>5. /\ q = <<>> => list[l].first = Null /\ list[l].last = Null
        /\ q # <<>> => list[l].last = q[Len(q)]
    BY <2>1, <2>3 DEF FirstOr, LastOr
  <2>6. list[l] \in LinkedLists
    BY <1>2
  <2> QED
    BY <2>1, <2>2, <2>4, <2>5, <2>6 DEF Linked
<1>5. \A l \in Lists : ToSet(NodesOf(nodes, list[l])) = ElementsOf(p[l])
  BY <1>3, InChain
<1>6. 1 \in Lists /\ 2 \in Lists /\ \A l \in Lists : l = 1 \/ l = 2
  BY DEF Lists
<1>7. inuse = ElementsOf(p[1]) \cup ElementsOf(p[2]) /\ ElementsOf(p[1]) \cap ElementsOf(p[2]) = {}
  BY <1>1 DEF ListsHoldIn, TwoLists
<1>8. inuse = UNION {ToSet(NodesOf(nodes, list[l])) : l \in Lists}
  BY <1>5, <1>6, <1>7
<1>9. ToSet(NodesOf(nodes, list[1])) \cap ToSet(NodesOf(nodes, list[2])) = {}
  BY <1>5, <1>6, <1>7
<1>10. missorted \/ ListsAsAsked
  BY <1>3 DEF ListsAsAsked
<1> QED
  BY <1>4, <1>8, <1>9, <1>10 DEF ListsIntact

-----------------------------------------------------------------------------
\* f counts the elements of s in S, as Selected goes through them.
SelectsBy(s, S, f) ==
  f = [n \in 0 .. Len(s) |->
         IF n = 0 THEN <<>> ELSE IF s[n] \in S THEN Append(f[n - 1], s[n]) ELSE f[n - 1]]

\* What is known of it.
Selects(E, s, S, f) ==
  /\ Selected(s, S) = f[Len(s)] /\ f[0] = <<>>
  /\ \A n \in 1 .. Len(s) : f[n] = IF s[n] \in S THEN Append(f[n - 1], s[n]) ELSE f[n - 1]
  /\ \A n \in 0 .. Len(s) : /\ f[n] \in Seq(E) /\ Len(f[n]) <= n
                            /\ \A i \in 1 .. Len(f[n]) : f[n][i] \in S

\* What is selected is counted.
LEMMA SelectedIs ==
  ASSUME NEW E, NEW s \in Seq(E), NEW S
  PROVE  \E f : Selects(E, s, S, f)
<1> DEFINE N == Len(s)
           I == [n \in 0 .. N |-> {t \in Seq(E) : Len(t) <= n /\ \A i \in 1 .. Len(t) : t[i] \in S}]
           step == [n \in 1 .. N |-> [t \in I[n - 1] |-> IF s[n] \in S THEN Append(t, s[n]) ELSE t]]
           F == CHOOSE f : SelectsBy(s, S, f)
<1>1. N \in Nat /\ \A n \in 1 .. N : s[n] \in E /\ n - 1 \in 0 .. N /\ n \in 0 .. N /\ n # 0
  OBVIOUS
<1>2. \A n \in 0 .. N : I[n] = {t \in Seq(E) : Len(t) <= n /\ \A i \in 1 .. Len(t) : t[i] \in S}
  OBVIOUS
<1> HIDE DEF I
<1>3. <<>> \in I[0]
  <2>1. <<>> \in Seq(E) /\ Len(<<>>) <= 0 /\ 0 \in 0 .. N /\ \A i \in 1 .. Len(<<>>) : FALSE
    BY <1>1
  <2> QED
    BY <1>2, <2>1
<1>4. ASSUME NEW n \in 1 .. N, NEW t \in I[n - 1], NEW u, u = (IF s[n] \in S THEN Append(t, s[n]) ELSE t)
      PROVE  u \in I[n]
  <2>1. t \in Seq(E) /\ Len(t) <= n - 1 /\ \A i \in 1 .. Len(t) : t[i] \in S
    BY <1>1, <1>2
  <2>2. CASE s[n] \in S
    <3>1. u \in Seq(E) /\ Len(u) = Len(t) + 1 /\ \A i \in 1 .. Len(u) : u[i] = IF i <= Len(t) THEN t[i] ELSE s[n]
      BY <1>1, <1>4, <2>1, <2>2
    <3>2. Len(u) <= n
      BY <1>1, <2>1, <3>1
    <3>3. ASSUME NEW i \in 1 .. Len(u)
          PROVE  u[i] \in S
      <4>1. CASE i <= Len(t)
        <5>1. i \in 1 .. Len(t) /\ u[i] = t[i]
          BY <2>1, <3>1, <4>1
        <5> QED
          BY <2>1, <5>1
      <4>2. CASE ~(i <= Len(t))
        BY <2>2, <3>1, <4>2
      <4> QED
        BY <4>1, <4>2
    <3> QED
      BY <1>1, <1>2, <3>1, <3>2, <3>3
  <2>3. CASE s[n] \notin S
    BY <1>1, <1>2, <1>4, <2>1, <2>3
  <2> QED
    BY <2>2, <2>3
<1>5. \A n \in 1 .. N : \A t \in I[n - 1] :
        step[n][t] = (IF s[n] \in S THEN Append(t, s[n]) ELSE t) /\ step[n][t] \in I[n]
  <2> SUFFICES ASSUME NEW n \in 1 .. N, NEW t \in I[n - 1]
               PROVE  step[n][t] = (IF s[n] \in S THEN Append(t, s[n]) ELSE t) /\ step[n][t] \in I[n]
    BY Zenon
  <2>1. step[n][t] = (IF s[n] \in S THEN Append(t, s[n]) ELSE t)
    OBVIOUS
  <2> QED
    BY <1>4, <2>1
<1> HIDE DEF step, N
<1>6. PICK f : CountsIn(f, N, I, <<>>, step)
  BY <1>1, <1>3, <1>5, CountingRunExists, Zenon
<1>7. \A n \in 0 .. N : f[n] = (IF n = 0 THEN <<>> ELSE step[n][f[n - 1]]) /\ f[n] \in I[n]
  <2>1. f = [n \in 0 .. N |-> IF n = 0 THEN <<>> ELSE step[n][f[n - 1]]] /\ \A n \in 0 .. N : f[n] \in I[n]
    BY <1>6, Zenon DEF CountsIn
  <2> QED
    BY <2>1
<1>8. \A n \in 0 .. N : n # 0 => n \in 1 .. N /\ n - 1 \in 0 .. N
  BY <1>1
<1>9. SelectsBy(s, S, f)
  <2>1. f = [n \in 0 .. N |-> f[n]]
    BY <1>6, Zenon DEF CountsIn
  <2>2. \A n \in 0 .. N : f[n] = IF n = 0 THEN <<>> ELSE IF s[n] \in S THEN Append(f[n - 1], s[n]) ELSE f[n - 1]
    BY <1>5, <1>7, <1>8
  <2> QED
    BY <2>1, <2>2 DEF SelectsBy, N
<1>10. SelectsBy(s, S, F)
  BY <1>9
<1>11. Selected(s, S) = F[N]
  BY Zenon DEF Selected, SelectsBy, N
<1> HIDE DEF F
<1>12. \A n \in 0 .. N : F[n] = IF n = 0 THEN <<>> ELSE IF s[n] \in S THEN Append(F[n - 1], s[n]) ELSE F[n - 1]
  BY <1>10 DEF SelectsBy, N
<1>13. 0 \in 0 .. N /\ N \in 0 .. N
  BY <1>1
<1>14. F[0] = <<>> /\ \A n \in 1 .. N : F[n] = IF s[n] \in S THEN Append(F[n - 1], s[n]) ELSE F[n - 1]
  BY <1>1, <1>12, <1>13
<1>15. \A n \in 0 .. N : F[n] \in I[n]
  <2>1. F[0] \in I[0] /\ \A n \in 1 .. N : F[n - 1] \in I[n - 1] => F[n] \in I[n]
    BY <1>3, <1>4, <1>14
  <2> QED
    BY ONLY <1>1, <2>1, StaysIn
<1>16. /\ \A n \in 0 .. N : /\ F[n] \in Seq(E) /\ Len(F[n]) <= n
                            /\ \A i \in 1 .. Len(F[n]) : F[n][i] \in S
  <2> SUFFICES ASSUME NEW n \in 0 .. N
               PROVE  F[n] \in Seq(E) /\ Len(F[n]) <= n /\ \A i \in 1 .. Len(F[n]) : F[n][i] \in S
    BY Zenon
  <2> QED
    BY <1>2, <1>15
<1>17. Selects(E, s, S, F)
  BY <1>11, <1>14, <1>16, Zenon DEF Selects, N
<1> QED
  BY <1>17

\* The keys of a list when the loop of a filter has passed n of them.
LeftAfter(d, f, n) == f[n] \o SubSeq(d, n + 1, Len(d))

\* What is left of a sequence from an index on.
LEMMA RestIs ==
  ASSUME NEW E, NEW d \in Seq(E), NEW n \in 1 .. Len(d)
  PROVE  /\ SubSeq(d, n + 1, Len(d)) \in Seq(E) /\ Len(SubSeq(d, n + 1, Len(d))) = Len(d) - n
         /\ SubSeq(d, n, Len(d)) = <<d[n]>> \o SubSeq(d, n + 1, Len(d))
         /\ SubSeq(d, 1, Len(d)) = d /\ SubSeq(d, Len(d) + 1, Len(d)) = <<>>
<1> DEFINE y == SubSeq(d, n + 1, Len(d))
           r == SubSeq(d, n, Len(d))
           one == <<d[n]>>
           M == Len(d) - n
<1>1. y \in Seq(E) /\ Len(y) = M /\ \A i \in 1 .. M : y[i] = d[n + i]
  OBVIOUS
<1>2. r \in Seq(E) /\ Len(r) = M + 1 /\ \A i \in 1 .. M + 1 : r[i] = d[n + i - 1]
  OBVIOUS
<1>3. one \in Seq(E) /\ Len(one) = 1 /\ one[1] = d[n] /\ M \in Nat /\ n \in Nat
  OBVIOUS
<1>4. SubSeq(d, 1, Len(d)) = d /\ SubSeq(d, Len(d) + 1, Len(d)) = <<>>
  <2>1. /\ SubSeq(d, 1, Len(d)) \in Seq(E) /\ Len(SubSeq(d, 1, Len(d))) = Len(d)
        /\ \A i \in 1 .. Len(d) : SubSeq(d, 1, Len(d))[i] = d[i]
    OBVIOUS
  <2>2. SubSeq(d, 1, Len(d)) = d
    BY <2>1, SameSeq
  <2> QED
    BY <2>2
<1> HIDE DEF y, r, one, M
<1>5. /\ one \o y \in Seq(E) /\ Len(one \o y) = 1 + M
      /\ (one \o y)[1] = d[n]
      /\ \A i \in 1 .. M : (one \o y)[1 + i] = y[i]
  <2>1. one \in Seq(E) /\ y \in Seq(E)
    BY <1>1, <1>3
  <2>2. /\ one \o y \in Seq(E) /\ Len(one \o y) = Len(one) + Len(y)
        /\ \A i \in 1 .. Len(one) : (one \o y)[i] = one[i]
        /\ \A i \in 1 .. Len(y) : (one \o y)[Len(one) + i] = y[i]
    BY ONLY <2>1, ConcatIs
  <2> DEFINE c == one \o y
  <2> HIDE DEF c
  <2>3. /\ c \in Seq(E) /\ Len(c) = Len(one) + Len(y)
        /\ \A i \in 1 .. Len(one) : c[i] = one[i]
        /\ \A i \in 1 .. Len(y) : c[Len(one) + i] = y[i]
    BY <2>2 DEF c
  <2>4. 1 \in 1 .. Len(one)
    BY <1>3
  <2>5. c \in Seq(E) /\ Len(c) = 1 + M /\ c[1] = d[n] /\ \A i \in 1 .. M : c[1 + i] = y[i]
    BY <1>1, <1>3, <2>3, <2>4
  <2> QED
    BY <2>5 DEF c
<1>6. r = one \o y
  <2> DEFINE c == one \o y
  <2>1. c \in Seq(E) /\ Len(c) = 1 + M /\ c[1] = d[n] /\ \A i \in 1 .. M : c[1 + i] = y[i]
    BY <1>5
  <2> HIDE DEF c
  <2>2. Len(r) = Len(c) /\ 1 \in 1 .. M + 1 /\ n + 1 - 1 = n
    BY <1>2, <1>3, <2>1
  <2>3. ASSUME NEW i \in 1 .. Len(r) PROVE r[i] = c[i]
    <3>1. i \in 1 .. M + 1
      BY <1>2
    <3>2. CASE i = 1
      BY <1>2, <2>1, <2>2, <3>2
    <3>3. CASE i # 1
      <4>1. i - 1 \in 1 .. M /\ 1 + (i - 1) = i /\ n + (i - 1) = n + i - 1
        BY <1>3, <3>1, <3>3
      <4> QED
        BY <1>1, <1>2, <2>1, <3>1, <4>1
    <3> QED
      BY <3>2, <3>3
  <2>4. r = c
    BY <1>2, <2>1, <2>2, <2>3, SameSeq
  <2> QED
    BY <2>4 DEF c
<1> QED
  BY <1>1, <1>4, <1>6 DEF y, r, one, M

\* An element joins what is before it as well as what is behind it.
JoinsUp(x, e, y) ==
  x \o (<<e>> \o y) = (x \o <<e>>) \o y /\ Append(x, e) = x \o <<e>>

\* Three sequences can be joined in any order of joining.
LEMMA ConcatJoins ==
  ASSUME NEW E, NEW x \in Seq(E), NEW e \in E, NEW y \in Seq(E)
  PROVE  JoinsUp(x, e, y)
BY DEF JoinsUp

\* What is left of d after each round of a filter.
KeptGo(E, d, key, f) ==
  /\ LeftAfter(d, f, 0) = d /\ LeftAfter(d, f, Len(d)) = Selected(d, E \ {key})
  /\ \A n \in 1 .. Len(d) :
       /\ d[n] # key => LeftAfter(d, f, n) = LeftAfter(d, f, n - 1)
       /\ d[n] = key => /\ Contains(LeftAfter(d, f, n - 1), key)
                        /\ RemoveAt(LeftAfter(d, f, n - 1), FirstAt(LeftAfter(d, f, n - 1), key)) = LeftAfter(d, f, n)
                        /\ Len(LeftAfter(d, f, n)) = Len(LeftAfter(d, f, n - 1)) - 1

\* The loop of a filter leaves the keys alone at one that does not match, and
\* takes out the first match left at one that does.
LEMMA KeptGoes ==
  ASSUME NEW E, NEW d \in Seq(E), NEW key, NEW f, Selects(E, d, E \ {key}, f)
  PROVE  KeptGo(E, d, key, f)
<1> DEFINE N == Len(d)
<1>1. /\ N \in Nat /\ Selected(d, E \ {key}) = f[N] /\ f[0] = <<>>
      /\ \A n \in 1 .. N : f[n] = IF d[n] \in E \ {key} THEN Append(f[n - 1], d[n]) ELSE f[n - 1]
      /\ \A n \in 0 .. N : f[n] \in Seq(E) /\ \A i \in 1 .. Len(f[n]) : f[n][i] \in E \ {key}
  <2>1. N \in Nat
    OBVIOUS
  <2> DEFINE S == E \ {key}
  <2> HIDE DEF S
  <2>2. Selects(E, d, S, f)
    BY DEF S
  <2>3. /\ Selected(d, S) = f[N] /\ f[0] = <<>>
        /\ \A n \in 1 .. N : f[n] = IF d[n] \in S THEN Append(f[n - 1], d[n]) ELSE f[n - 1]
        /\ \A n \in 0 .. N : f[n] \in Seq(E) /\ \A i \in 1 .. Len(f[n]) : f[n][i] \in S
    BY ONLY <2>2, Zenon DEF Selects
  <2> QED
    BY <2>1, <2>3, Zenon DEF S
<1>2. \A n \in 1 .. N : d[n] \in E /\ n - 1 \in 0 .. N /\ n \in 0 .. N
  OBVIOUS
<1>3. \A n \in 0 .. N : SubSeq(d, n + 1, N) \in Seq(E)
  OBVIOUS
<1>4. \A n \in 0 .. N : LeftAfter(d, f, n) \in Seq(E)
  BY <1>1, <1>3 DEF LeftAfter
<1>5. SubSeq(d, 1, N) = d /\ SubSeq(d, N + 1, N) = <<>>
  <2>1. SubSeq(d, 1, N) \in Seq(E) /\ Len(SubSeq(d, 1, N)) = N /\ \A i \in 1 .. N : SubSeq(d, 1, N)[i] = d[i]
    OBVIOUS
  <2>2. SubSeq(d, 1, N) = d
    BY <2>1, SameSeq
  <2> QED
    BY <2>2
<1>6. LeftAfter(d, f, 0) = d /\ LeftAfter(d, f, N) = f[N]
  <2>1. LeftAfter(d, f, 0) = <<>> \o SubSeq(d, 1, N) /\ LeftAfter(d, f, N) = f[N] \o SubSeq(d, N + 1, N)
    BY <1>1 DEF LeftAfter
  <2>2. f[N] \in Seq(E)
    BY <1>1
  <2> HIDE DEF N
  <2>3. LeftAfter(d, f, 0) = <<>> \o d /\ LeftAfter(d, f, N) = f[N] \o <<>>
    BY <1>5, <2>1
  <2> QED
    BY <2>2, <2>3
<1>7. ASSUME NEW n \in 1 .. N
      PROVE  /\ d[n] # key => LeftAfter(d, f, n) = LeftAfter(d, f, n - 1)
             /\ d[n] = key => /\ Contains(LeftAfter(d, f, n - 1), key)
                              /\ RemoveAt(LeftAfter(d, f, n - 1), FirstAt(LeftAfter(d, f, n - 1), key)) = LeftAfter(d, f, n)
                              /\ Len(LeftAfter(d, f, n)) = Len(LeftAfter(d, f, n - 1)) - 1
  <2> DEFINE x == f[n - 1]
             y == SubSeq(d, n + 1, N)
             e == d[n]
             c == LeftAfter(d, f, n - 1)
             g == LeftAfter(d, f, n)
  <2>1. x \in Seq(E) /\ y \in Seq(E) /\ e \in E /\ \A i \in 1 .. Len(x) : x[i] # key
    BY <1>1, <1>2, <1>3
  <2>2. SubSeq(d, n, N) = <<e>> \o y
    BY RestIs
  <2>3. c = x \o SubSeq(d, n, N) /\ g = f[n] \o y
    <3>1. (n - 1) + 1 = n
      OBVIOUS
    <3> QED
      BY <3>1 DEF LeftAfter
  <2>4. f[n] = IF e # key THEN Append(x, e) ELSE x
    BY <1>1, <1>2
  <2> HIDE DEF x, y, e, c, g
  <2>5. c = (x \o <<e>>) \o y /\ Append(x, e) = x \o <<e>>
    <3>1. x \in Seq(E) /\ e \in E /\ y \in Seq(E)
      BY <2>1
    <3>2. x \o (<<e>> \o y) = (x \o <<e>>) \o y /\ Append(x, e) = x \o <<e>>
      <4>1. JoinsUp(x, e, y)
        BY ONLY <3>1, ConcatJoins
      <4> QED
        BY ONLY <4>1, Zenon DEF JoinsUp
    <3>3. c = x \o (<<e>> \o y)
      BY <2>2, <2>3
    <3> QED
      BY ONLY <3>2, <3>3
  <2>6. e # key => g = c
    BY <2>3, <2>4, <2>5
  <2>7. ASSUME e = key
        PROVE  Contains(c, key) /\ RemoveAt(c, FirstAt(c, key)) = g /\ Len(g) = Len(c) - 1
    <3> DEFINE m == Len(x) + 1
    <3>1. IsMiddle(E, x, e, y, c)
      BY <2>1, <2>5, WithoutMiddle
    <3>2. /\ c \in Seq(E) /\ Len(c) = Len(x) + 1 + Len(y) /\ m \in 1 .. Len(c) /\ c[m] = e
          /\ \A j \in 1 .. Len(x) : c[j] = x[j]
          /\ RemoveAt(c, m) = x \o y
      BY <3>1 DEF IsMiddle
    <3>3. g = x \o y
      BY <2>3, <2>4, <2>7
    <3>4. Len(x) \in Nat /\ Len(y) \in Nat /\ Len(x \o y) = Len(x) + Len(y)
      BY <2>1
    <3>5. Contains(c, key)
      BY <2>7, <3>2 DEF Contains
    <3>6. FirstAt(c, key) = m
      <4> DEFINE i == FirstAt(c, key)
      <4>1. i \in 1 .. Len(c) /\ c[i] = key /\ \A j \in 1 .. Len(c) : j < i => c[j] # key
        BY <3>2, <3>5, FirstAtIs
      <4>2. ~(m < i)
        BY <2>7, <3>2, <4>1
      <4>3. ~(i < m)
        <5>1. i < m => i \in 1 .. Len(x)
          BY <3>2, <3>4, <4>1
        <5> QED
          BY <2>1, <3>2, <4>1, <5>1
      <4>4. i \in Int /\ m \in Int
        BY <3>4, <4>1
      <4> HIDE DEF i, m
      <4>5. i = m
        BY <4>2, <4>3, <4>4
      <4> QED
        BY <4>5 DEF i
    <3>7. Len(g) = Len(c) - 1
      BY <3>2, <3>3, <3>4
    <3> QED
      BY <3>2, <3>3, <3>5, <3>6, <3>7
  <2> QED
    BY <2>6, <2>7 DEF x, y, e, c, g
<1> QED
  BY <1>1, <1>6, <1>7 DEF KeptGo

\* The loop of llist_filter2 from state s over the keys d.
FiltersOut(s, d, key, f) ==
  f = [n \in 0 .. Len(d) |->
         IF n = 0 THEN s ELSE IF d[n] = key THEN RemoveFrom(f[n - 1], key) ELSE f[n - 1]]

\* llist_filter2 leaves the keys that do not match.
LEMMA FilterOutKeeps ==
  ASSUME NEW l \in Lists, NEW s, NEW q, Owns(s, l, q), NEW key, NEW t, t = FilterOut(s, key)
  PROVE  Reaches(s, l, q, t, Selected(DataOf(s.hp, q), ListKeys \ {key}))
<1> DEFINE d == DataOf(s.hp, q)
           N == Len(d)
<1>1. d \in Seq(ListKeys) /\ KeysOf(s.hp, s.li) = d /\ N \in Nat
  BY ChainData, ChainIsWalked DEF Owns, Chain, KeysOf
<1>2. Reaches(s, l, q, s, d)
  BY StaysReached
<1> HIDE DEF d
<1>3. PICK k : Selects(ListKeys, d, ListKeys \ {key}, k)
  BY <1>1, SelectedIs
<1>4. /\ LeftAfter(d, k, 0) = d /\ LeftAfter(d, k, N) = Selected(d, ListKeys \ {key})
      /\ \A n \in 1 .. N :
           /\ d[n] # key => LeftAfter(d, k, n) = LeftAfter(d, k, n - 1)
           /\ d[n] = key => /\ Contains(LeftAfter(d, k, n - 1), key)
                            /\ RemoveAt(LeftAfter(d, k, n - 1), FirstAt(LeftAfter(d, k, n - 1), key)) = LeftAfter(d, k, n)
  <2>1. KeptGo(ListKeys, d, key, k)
    BY <1>1, <1>3, KeptGoes
  <2> QED
    BY <2>1 DEF KeptGo
<1> DEFINE I == [n \in 0 .. N |-> {x \in ListStates : Reaches(s, l, q, x, LeftAfter(d, k, n))}]
           step == [n \in 1 .. N |-> [x \in I[n - 1] |-> IF d[n] = key THEN RemoveFrom(x, key) ELSE x]]
           F == CHOOSE f : FiltersOut(s, d, key, f)
<1>5. \A n \in 0 .. N : I[n] = {x \in ListStates : Reaches(s, l, q, x, LeftAfter(d, k, n))}
  OBVIOUS
<1> HIDE DEF I
<1>6. 0 \in 0 .. N /\ N \in 0 .. N /\ \A n \in 1 .. N : n - 1 \in 0 .. N /\ n \in 0 .. N /\ n # 0
  BY <1>1
<1>7. s \in I[0]
  BY <1>2, <1>4, <1>5, <1>6 DEF Owns
<1>8. ASSUME NEW n \in 1 .. N, NEW x \in I[n - 1], NEW u, u = (IF d[n] = key THEN RemoveFrom(x, key) ELSE x)
      PROVE  u \in I[n]
  <2> DEFINE e == LeftAfter(d, k, n - 1)
  <2>1. x \in ListStates /\ Reaches(s, l, q, x, e)
    BY <1>5, <1>6
  <2>2. CASE d[n] = key
    <3>1. PICK r \in Seq(ListNodes) : Owns(x, l, r) /\ Turns(s, q, x, r) /\ DataOf(x.hp, r) = e
      BY <2>1 DEF Reaches
    <3>2. Contains(e, key) /\ RemoveAt(e, FirstAt(e, key)) = LeftAfter(d, k, n)
      BY <1>4, <2>2
    <3> HIDE DEF e
    <3>3. Contains(DataOf(x.hp, r), key) /\ u = RemoveFrom(x, key)
      BY <1>8, <2>2, <3>1, <3>2
    <3>4. Reaches(x, l, r, u, RemoveAt(DataOf(x.hp, r), FirstAt(DataOf(x.hp, r), key)))
      BY <3>1, <3>3, RemoveFromKeeps
    <3>5. Reaches(x, l, r, u, LeftAfter(d, k, n))
      BY <3>1, <3>2, <3>4
    <3>6. Reaches(s, l, q, u, LeftAfter(d, k, n))
      BY <3>1, <3>5, ReachesOn
    <3>7. u \in ListStates
      BY <3>6 DEF Reaches, Owns
    <3> QED
      BY <1>5, <1>6, <3>6, <3>7
  <2>3. CASE d[n] # key
    BY <1>4, <1>5, <1>6, <1>8, <2>1, <2>3
  <2> QED
    BY <2>2, <2>3
<1>9. \A n \in 1 .. N : \A x \in I[n - 1] :
        step[n][x] = (IF d[n] = key THEN RemoveFrom(x, key) ELSE x) /\ step[n][x] \in I[n]
  <2> SUFFICES ASSUME NEW n \in 1 .. N, NEW x \in I[n - 1]
               PROVE  step[n][x] = (IF d[n] = key THEN RemoveFrom(x, key) ELSE x) /\ step[n][x] \in I[n]
    BY Zenon
  <2>1. step[n][x] = (IF d[n] = key THEN RemoveFrom(x, key) ELSE x)
    OBVIOUS
  <2> QED
    BY <1>8, <2>1
<1> HIDE DEF step, N
<1>10. PICK f : CountsIn(f, N, I, s, step)
  BY <1>1, <1>7, <1>9, CountingRunExists, Zenon
<1>11. \A n \in 0 .. N : f[n] = (IF n = 0 THEN s ELSE step[n][f[n - 1]]) /\ f[n] \in I[n]
  <2>1. f = [n \in 0 .. N |-> IF n = 0 THEN s ELSE step[n][f[n - 1]]] /\ \A n \in 0 .. N : f[n] \in I[n]
    BY <1>10, Zenon DEF CountsIn
  <2> QED
    BY <2>1
<1>12. \A n \in 0 .. N : n # 0 => n \in 1 .. N /\ n - 1 \in 0 .. N
  BY <1>1
<1>13. FiltersOut(s, d, key, f)
  <2>1. f = [n \in 0 .. N |-> f[n]]
    BY <1>10, Zenon DEF CountsIn
  <2>2. \A n \in 0 .. N : f[n] = IF n = 0 THEN s ELSE IF d[n] = key THEN RemoveFrom(f[n - 1], key) ELSE f[n - 1]
    BY <1>9, <1>11, <1>12
  <2> QED
    BY <2>1, <2>2 DEF FiltersOut, N
<1>14. FiltersOut(s, d, key, F)
  BY <1>13
<1>15. FilterOut(s, key) = F[N]
  BY <1>1, Zenon DEF FilterOut, FiltersOut, N
<1> HIDE DEF F
<1>16. \A n \in 0 .. N : F[n] = IF n = 0 THEN s ELSE IF d[n] = key THEN RemoveFrom(F[n - 1], key) ELSE F[n - 1]
  BY <1>14 DEF FiltersOut, N
<1>17. F[0] \in I[0] /\ \A n \in 1 .. N : F[n - 1] \in I[n - 1] => F[n] \in I[n]
  BY <1>6, <1>7, <1>8, <1>16
<1>18. \A n \in 0 .. N : F[n] \in I[n]
  BY ONLY <1>1, <1>17, StaysIn
<1>19. Reaches(s, l, q, F[N], LeftAfter(d, k, N))
  BY <1>5, <1>6, <1>18
<1>20. Reaches(s, l, q, t, Selected(d, ListKeys \ {key}))
  BY <1>4, <1>15, <1>19 DEF N
<1> QED
  BY <1>20 DEF d

\* ... on one of two lists.
LEMMA HoldsFiltered ==
  ASSUME NEW hp, NEW ls, NEW used, NEW ks, ListsHold(hp, ls, used, ks), NEW l \in Lists, NEW key,
         NEW t, t = FilterOut(State(hp, ls[l], used), key)
  PROVE  OneHolds(ls, ks, l, t, Selected(ks[l], ListKeys \ {key}))
<1> DEFINE s == State(hp, ls[l], used)
<1>1. PICK p \in [Lists -> Seq(ListNodes)] : ListsHoldIn(hp, ls, used, ks, p)
  BY DEF ListsHold
<1>2. /\ Owns(s, l, p[l]) /\ s.hp = hp /\ DataOf(hp, p[l]) = ks[l] /\ s = State(hp, ls[l], used)
      /\ t = FilterOut(s, key)
  BY <1>1, HoldsOne
<1> HIDE DEF s
<1>3. Reaches(s, l, p[l], t, Selected(DataOf(s.hp, p[l]), ListKeys \ {key}))
  BY <1>2, FilterOutKeeps
<1>4. Reaches(s, l, p[l], t, Selected(ks[l], ListKeys \ {key}))
  BY <1>2, <1>3
<1> QED
  BY <1>1, <1>2, <1>4, OneTurns

\* One operation on a list after another.
LEMMA OneHoldsOn ==
  ASSUME NEW l \in Lists, NEW ls \in [Lists -> LinkedLists], NEW ks \in [Lists -> Seq(ListKeys)],
         NEW li, NEW e, NEW lt, lt = [ls EXCEPT ![l] = li], NEW kt, kt = [ks EXCEPT ![l] = e],
         NEW t, NEW keys, OneHolds(lt, kt, l, t, keys)
  PROVE  OneHolds(ls, ks, l, t, keys)
<1>1. [lt EXCEPT ![l] = t.li] = [ls EXCEPT ![l] = t.li] /\ [kt EXCEPT ![l] = keys] = [ks EXCEPT ![l] = keys]
  OBVIOUS
<1> QED
  BY ONLY <1>1, OneHolds(lt, kt, l, t, keys) DEF OneHolds

\* The parts of lists that hold keys.
LEMMA HoldsIs ==
  ASSUME NEW hp, NEW ls, NEW used, NEW ks, ListsHold(hp, ls, used, ks)
  PROVE  /\ hp \in [ListNodes -> NodeRecs] /\ ls \in [Lists -> LinkedLists] /\ used \in SUBSET ListNodes
         /\ ks \in [Lists -> Seq(ListKeys)]
         /\ \A l \in Lists : /\ ls[l].current = Len(ks[l]) /\ Len(ks[l]) \in 0 .. ListMax
                             /\ KeysOf(hp, ls[l]) = ks[l]
                             /\ State(hp, ls[l], used) \in ListStates
<1>1. PICK p \in [Lists -> Seq(ListNodes)] : ListsHoldIn(hp, ls, used, ks, p)
  BY DEF ListsHold
<1>2. /\ hp \in [ListNodes -> NodeRecs] /\ ls \in [Lists -> LinkedLists] /\ used \in SUBSET ListNodes
      /\ ks \in [Lists -> Seq(ListKeys)]
  BY <1>1 DEF ListsHoldIn
<1>3. ASSUME NEW l \in Lists
      PROVE  /\ ls[l].current = Len(ks[l]) /\ Len(ks[l]) \in 0 .. ListMax
             /\ KeysOf(hp, ls[l]) = ks[l] /\ State(hp, ls[l], used) \in ListStates
  BY <1>1, HoldsOne
<1> QED
  BY <1>2, <1>3

\* A handle of llist_init in place of an empty list.
LEMMA HoldsFresh ==
  ASSUME NEW hp, NEW ls, NEW used, NEW ks, ListsHold(hp, ls, used, ks), NEW l \in Lists, ls[l].current = 0
  PROVE  OneHolds(ls, ks, l, State(hp, EmptyList, used), <<>>)
<1> DEFINE s == State(hp, ls[l], used)
           t == State(hp, EmptyList, used)
<1>1. PICK p \in [Lists -> Seq(ListNodes)] : ListsHoldIn(hp, ls, used, ks, p)
  BY DEF ListsHold
<1>2. /\ Owns(s, l, p[l]) /\ s.hp = hp /\ s.used = used /\ p[l] \in Seq(ListNodes)
      /\ Len(p[l]) = Len(ks[l]) /\ ls[l].current = Len(ks[l]) /\ s = State(hp, ls[l], used)
      /\ Linking(hp, p[l])
  BY <1>1, HoldsOne
<1>3. EmptyList \in LinkedLists /\ EmptyList.current = 0 /\ EmptyList.first = Null /\ EmptyList.last = Null
  BY ListNumbers DEF EmptyList, LinkedLists
<1>4. t \in ListStates /\ t.hp = hp /\ t.li = EmptyList /\ t.used = used
  <2>1. hp \in [ListNodes -> NodeRecs] /\ used \in SUBSET ListNodes
    BY <1>1 DEF ListsHoldIn
  <2> QED
    BY <1>3, <2>1, StateParts
<1> DEFINE q == p[l]
<1>5. q = <<>> /\ ElementsOf(q) = {} /\ Len(q) = 0
  BY <1>2 DEF ElementsOf
<1> HIDE DEF s, t
<1>6. Chain(t.hp, t.li, q)
  BY <1>2, <1>3, <1>4, <1>5 DEF Chain
<1>7. Owns(t, l, q)
  BY <1>4, <1>5, <1>6 DEF Owns
<1>8. Turns(s, q, t, q)
  BY <1>2, <1>4 DEF Turns
<1>9. DataOf(t.hp, q) = <<>>
  BY <1>5 DEF DataOf
<1>10. Reaches(s, l, p[l], t, <<>>)
  BY <1>2, <1>7, <1>8, <1>9 DEF Reaches
<1> QED
  BY <1>1, <1>2, <1>10, OneTurns DEF t

\* The sequence up to an index that is one more.
LEMMA OneLonger ==
  ASSUME NEW E, NEW w \in Seq(E), NEW n \in 1 .. Len(w)
  PROVE  /\ SubSeq(w, 1, n - 1) \in Seq(E) /\ SubSeq(w, 1, n) = Append(SubSeq(w, 1, n - 1), w[n])
         /\ Len(SubSeq(w, 1, n - 1)) = n - 1 /\ Len(SubSeq(w, 1, n)) = n /\ w[n] \in E
<1> DEFINE x == SubSeq(w, 1, n - 1)
           z == SubSeq(w, 1, n)
           a == Append(x, w[n])
<1>1. x \in Seq(E) /\ Len(x) = n - 1 /\ (\A i \in 1 .. n - 1 : x[i] = w[i]) /\ w[n] \in E
  OBVIOUS
<1>2. z \in Seq(E) /\ Len(z) = n /\ \A i \in 1 .. n : z[i] = w[i]
  OBVIOUS
<1> HIDE DEF x, z
<1>3. a \in Seq(E) /\ Len(a) = n /\ \A i \in 1 .. n : a[i] = w[i]
  <2>1. a \in Seq(E) /\ Len(a) = n /\ \A i \in 1 .. n : a[i] = IF i <= n - 1 THEN x[i] ELSE w[n]
    BY <1>1
  <2>2. \A i \in 1 .. n : (i <= n - 1 => i \in 1 .. n - 1) /\ (~(i <= n - 1) => i = n)
    OBVIOUS
  <2> HIDE DEF a
  <2> QED
    BY <1>1, <2>1, <2>2
<1> HIDE DEF a
<1>4. z = a
  BY <1>2, <1>3, SameSeq
<1> QED
  BY <1>1, <1>2, <1>4 DEF x, z, a

\* The loop of a copy from state s over the keys.
CopiesInto(s, l, keys, f) ==
  f = [n \in 0 .. Len(keys) |-> IF n = 0 THEN s ELSE AppendTo(f[n - 1], l, keys[n])]

\* llist_copy2 leaves list l with copies of all keys.
LEMMA HoldsCopied ==
  ASSUME NEW hp, NEW ls, NEW used, NEW ks, ListsHold(hp, ls, used, ks), NEW l \in Lists, ls[l].current = 0,
         NEW w \in Seq(ListKeys), Len(w) <= ListMax, listFlags.pool \/ Cardinality(used) + Len(w) <= HeapNodes,
         NEW t, t = CopyInto(State(hp, EmptyList, used), l, w)
  PROVE  OneHolds(ls, ks, l, t, MaybeSorted(w))
<1> DEFINE N == Len(w)
           s == State(hp, EmptyList, used)
           e(n) == MaybeSorted(SubSeq(w, 1, n))
           I == [n \in 0 .. N |-> {x \in ListStates : OneHolds(ls, ks, l, x, e(n))}]
           step == [n \in 1 .. N |-> [x \in I[n - 1] |-> AppendTo(x, l, w[n])]]
           F == CHOOSE f : CopiesInto(s, l, w, f)
<1>1. /\ N \in Nat /\ 0 \in 0 .. N /\ N \in 0 .. N /\ N <= ListMax
      /\ \A n \in 1 .. N : n - 1 \in 0 .. N /\ n \in 0 .. N /\ n # 0 /\ w[n] \in ListKeys
  OBVIOUS
<1>2. \A n \in 0 .. N : I[n] = {x \in ListStates : OneHolds(ls, ks, l, x, e(n))}
  OBVIOUS
<1>3. ls \in [Lists -> LinkedLists] /\ ks \in [Lists -> Seq(ListKeys)] /\ Len(ks[l]) = 0
  BY HoldsIs
<1> HIDE DEF I
<1>4. s \in I[0]
  <2>1. OneHolds(ls, ks, l, s, <<>>)
    BY HoldsFresh
  <2>2. SubSeq(w, 1, 0) = <<>>
    OBVIOUS
  <2>3. e(0) = <<>>
    <3> DEFINE z == <<>>
    <3>1. z \in Seq(Int) /\ \A i, j \in 1 .. Len(z) : z[i] = z[j]
      OBVIOUS
    <3> HIDE DEF z
    <3>2. SortedKeys(z) = z
      BY ONLY <3>1, ShortIsSorted
    <3>3. e(0) = MaybeSorted(z)
      BY <2>2 DEF z
    <3> HIDE DEF e
    <3>4. e(0) = z
      BY <3>2, <3>3 DEF MaybeSorted
    <3> QED
      BY <3>4 DEF z
  <2> HIDE DEF s
  <2> QED
    BY <1>1, <1>2, <2>1, <2>3 DEF OneHolds
<1> HIDE DEF s
<1>5. ASSUME NEW n \in 1 .. N, NEW x \in I[n - 1], NEW u, u = AppendTo(x, l, w[n])
      PROVE  u \in I[n]
  <2> DEFINE lt == [ls EXCEPT ![l] = x.li]
             kt == [ks EXCEPT ![l] = e(n - 1)]
             d == SubSeq(w, 1, n - 1)
  <2>1. x \in ListStates /\ OneHolds(ls, ks, l, x, e(n - 1))
    BY <1>1, <1>2
  <2>2. ListsHold(x.hp, lt, x.used, kt)
    BY <2>1 DEF OneHolds
  <2>3. /\ d \in Seq(ListKeys) /\ SubSeq(w, 1, n) = Append(d, w[n]) /\ Len(d) = n - 1 /\ w[n] \in ListKeys
    BY <1>1, OneLonger
  <2>4. lt[l] = x.li /\ kt[l] = e(n - 1) /\ \A m \in Lists : m # l => kt[m] = ks[m]
    BY <1>3
  <2>5. State(x.hp, lt[l], x.used) = x
    BY <2>1, <2>4 DEF State, ListStates
  <2>6. d \in Seq(Int) /\ Append(d, w[n]) \in Seq(Int) /\ w[n] \in Int
    <3>1. \A k \in ListKeys : k \in Int
      BY ListNumbers
    <3>2. Append(d, w[n]) \in Seq(ListKeys)
      BY <2>3
    <3> HIDE DEF d
    <3> QED
      BY <2>3, <3>1, <3>2
  <2> DEFINE a == e(n - 1)
             k == w[n]
  <2>7. Len(a) = n - 1 /\ MaybeSorted(Append(a, k)) = e(n) /\ k \in ListKeys
    <3> HIDE DEF d, k
    <3>1. a = MaybeSorted(d) /\ e(n) = MaybeSorted(Append(d, k)) /\ d \in Seq(Int) /\ k \in Int /\ Len(d) = n - 1
      BY <2>3, <2>6 DEF d, k
    <3> HIDE DEF a, e
    <3>2. CASE listFlags.sort
      <4>1. a = SortedKeys(d) /\ e(n) = SortedKeys(Append(d, k))
        BY <3>1, <3>2 DEF MaybeSorted
      <4>2. Len(a) = n - 1 /\ SortedKeys(Append(a, k)) = e(n)
        BY <3>1, <4>1, SortedKeysAre, SortedAgain
      <4> QED
        BY <2>3, <3>2, <4>2 DEF MaybeSorted, k
    <3>3. CASE ~listFlags.sort
      BY <2>3, <3>1, <3>3 DEF MaybeSorted, k
    <3> QED
      BY <3>2, <3>3
  <2> HIDE DEF lt, kt, d, a, e, k
  <2>8. listFlags.pool \/ Cardinality(x.used) < HeapNodes
    <3>1. Cardinality(x.used) = Len(kt[1]) + Len(kt[2]) /\ Cardinality(used) = Len(ks[1]) + Len(ks[2])
      BY <2>2, HoldsCount
    <3>2. \A m \in Lists : Len(kt[m]) \in Nat /\ Len(ks[m]) \in Nat
      BY <2>2, HoldsIs
    <3>3. Len(kt[l]) = n - 1
      BY <2>4, <2>7 DEF a
    <3>4. (l = 1 \/ l = 2) /\ 1 \in Lists /\ 2 \in Lists
      BY DEF Lists
    <3>5. Cardinality(x.used) = Cardinality(used) + (n - 1)
      <4>1. /\ Len(kt[1]) \in Nat /\ Len(kt[2]) \in Nat /\ Len(ks[1]) \in Nat /\ Len(ks[2]) \in Nat
            /\ Len(kt[l]) = n - 1 /\ Len(ks[l]) = 0 /\ \A m \in {1, 2} : m # l => kt[m] = ks[m]
        BY <1>3, <2>4, <3>2, <3>3, <3>4
      <4>2. CASE l = 1
        <5>1. Len(kt[1]) = n - 1 /\ Len(ks[1]) = 0 /\ kt[2] = ks[2]
          BY <4>1, <4>2
        <5> QED
          BY ONLY <3>1, <4>1, <5>1, n \in 1 .. N
      <4>3. CASE l = 2
        <5>1. Len(kt[2]) = n - 1 /\ Len(ks[2]) = 0 /\ kt[1] = ks[1]
          BY <4>1, <4>3
        <5> QED
          BY ONLY <3>1, <4>1, <5>1, n \in 1 .. N
      <4> QED
        BY <3>4, <4>2, <4>3
    <3>6. Cardinality(used) \in Nat /\ n \in 1 .. N /\ HeapNodes \in Nat
      BY HoldsCount, FS_CardinalityType, ListNumbers
    <3> QED
      BY <1>1, <3>5, <3>6
  <2>9. Len(kt[l]) < ListMax
    <3>1. Len(kt[l]) = n - 1
      BY <2>4, <2>7 DEF a
    <3> QED
      BY <1>1, <3>1, ListNumbers
  <2>10. NodeAlloc(x.used, l, lt[l].current) # Null
    BY <2>2, <2>8, <2>9, GetsNode
  <2>11. u = AppendTo(State(x.hp, lt[l], x.used), l, k)
    BY <1>5, <2>5 DEF k
  <2>12. OneHolds(lt, kt, l, u, MaybeSorted(Append(kt[l], k)))
    BY <2>2, <2>7, <2>9, <2>10, <2>11, HoldsAppended
  <2>13. OneHolds(lt, kt, l, u, e(n))
    BY <2>4, <2>7, <2>12 DEF a
  <2>14. OneHolds(ls, ks, l, u, e(n))
    <3> DEFINE b == x.li
               c == e(n)
    <3>1. lt = [ls EXCEPT ![l] = b] /\ kt = [ks EXCEPT ![l] = a]
      BY DEF lt, kt, a
    <3>2. /\ l \in Lists /\ ls \in [Lists -> LinkedLists] /\ ks \in [Lists -> Seq(ListKeys)]
          /\ OneHolds(lt, kt, l, u, c)
      BY <1>3, <2>13
    <3> HIDE DEF b, c
    <3>3. OneHolds(ls, ks, l, u, c)
      BY ONLY <3>1, <3>2, OneHoldsOn
    <3> QED
      BY <3>3 DEF c
  <2> QED
    BY <1>1, <1>2, <2>14 DEF OneHolds
<1>6. \A n \in 1 .. N : \A x \in I[n - 1] : step[n][x] = AppendTo(x, l, w[n]) /\ step[n][x] \in I[n]
  <2> SUFFICES ASSUME NEW n \in 1 .. N, NEW x \in I[n - 1]
               PROVE  step[n][x] = AppendTo(x, l, w[n]) /\ step[n][x] \in I[n]
    BY Zenon
  <2>1. step[n][x] = AppendTo(x, l, w[n])
    OBVIOUS
  <2> QED
    BY <1>5, <2>1
<1> HIDE DEF step, N, e
<1>7. PICK f : CountsIn(f, N, I, s, step)
  BY <1>1, <1>4, <1>6, CountingRunExists, Zenon
<1>8. \A n \in 0 .. N : f[n] = (IF n = 0 THEN s ELSE step[n][f[n - 1]]) /\ f[n] \in I[n]
  <2>1. f = [n \in 0 .. N |-> IF n = 0 THEN s ELSE step[n][f[n - 1]]] /\ \A n \in 0 .. N : f[n] \in I[n]
    BY <1>7, Zenon DEF CountsIn
  <2> QED
    BY <2>1
<1>9. \A n \in 0 .. N : n # 0 => n \in 1 .. N /\ n - 1 \in 0 .. N
  BY <1>1
<1>10. CopiesInto(s, l, w, f)
  <2>1. f = [n \in 0 .. N |-> f[n]]
    BY <1>7, Zenon DEF CountsIn
  <2>2. \A n \in 0 .. N : f[n] = IF n = 0 THEN s ELSE AppendTo(f[n - 1], l, w[n])
    BY <1>6, <1>8, <1>9
  <2> QED
    BY <2>1, <2>2 DEF CopiesInto, N
<1>11. CopiesInto(s, l, w, F)
  BY <1>10
<1>12. t = F[N]
  BY Zenon DEF CopyInto, CopiesInto, N, s
<1> HIDE DEF F
<1>13. \A n \in 0 .. N : F[n] = IF n = 0 THEN s ELSE AppendTo(F[n - 1], l, w[n])
  BY <1>11 DEF CopiesInto, N
<1>14. F[0] \in I[0] /\ \A n \in 1 .. N : F[n - 1] \in I[n - 1] => F[n] \in I[n]
  BY <1>1, <1>4, <1>5, <1>13
<1>15. \A n \in 0 .. N : F[n] \in I[n]
  BY ONLY <1>1, <1>14, StaysIn
<1>16. OneHolds(ls, ks, l, t, e(N))
  BY <1>1, <1>2, <1>12, <1>15
<1>17. SubSeq(w, 1, N) = w
  <2>1. SubSeq(w, 1, N) \in Seq(ListKeys) /\ Len(SubSeq(w, 1, N)) = Len(w) /\ \A i \in 1 .. Len(w) : SubSeq(w, 1, N)[i] = w[i]
    BY DEF N
  <2> QED
    BY <2>1, SameSeq
<1> QED
  BY <1>16, <1>17 DEF e

\* The loop of llist_filter from state s over the keys d of list 1.
Moves(s, d, key, f) ==
  f = [n \in 0 .. Len(d) |->
         IF n = 0 THEN s ELSE IF d[n] = key THEN MoveKey(f[n - 1], key) ELSE f[n - 1]]

\* A state of that loop.
TwoStates == [hp : [ListNodes -> NodeRecs], one : LinkedLists, two : LinkedLists, used : SUBSET ListNodes]

\* Pairs of lists.
LEMMA PairIs ==
  ASSUME NEW S, NEW a \in S, NEW b \in S
  PROVE  /\ <<a, b>> \in [Lists -> S] /\ <<a, b>>[1] = a /\ <<a, b>>[2] = b
         /\ \A c : [<<a, b>> EXCEPT ![1] = c] = <<c, b>> /\ [<<a, b>> EXCEPT ![2] = c] = <<a, c>>
BY DEF Lists

\* A match moves from list 1 to list 2.
LEMMA HoldsMoved ==
  ASSUME NEW x \in TwoStates, NEW a, NEW b, ListsHold(x.hp, <<x.one, x.two>>, x.used, <<a, b>>),
         NEW key \in ListKeys, Contains(a, key), Len(b) < ListMax,
         listFlags.pool \/ Cardinality(x.used) < HeapNodes, NEW y, y = MoveKey(x, key),
         NEW a1, a1 = RemoveAt(a, FirstAt(a, key)), NEW b1, b1 = MaybeSorted(Append(b, key))
  PROVE  y \in TwoStates /\ ListsHold(y.hp, <<y.one, y.two>>, y.used, <<a1, b1>>)
<1> DEFINE ls == <<x.one, x.two>>
           ks == <<a, b>>
           t == AppendTo(State(x.hp, x.two, x.used), 2, key)
           lt == <<x.one, t.li>>
           kt == <<a, b1>>
           u == RemoveFrom(State(t.hp, x.one, t.used), key)
<1>1. x.one \in LinkedLists /\ x.two \in LinkedLists
  BY DEF TwoStates
<1>2. ls[1] = x.one /\ ls[2] = x.two /\ ks[1] = a /\ ks[2] = b /\ 1 \in Lists /\ 2 \in Lists
  BY DEF Lists
<1>3. y = [hp |-> u.hp, one |-> u.li, two |-> t.li, used |-> u.used]
  BY Zenon DEF MoveKey
<1>4. /\ \A c : [ls EXCEPT ![2] = c] = <<x.one, c>>
      /\ \A c : [ks EXCEPT ![2] = c] = <<a, c>>
      /\ \A c : [lt EXCEPT ![1] = c] = <<c, t.li>>
      /\ \A c : [kt EXCEPT ![1] = c] = <<c, b1>>
      /\ lt[1] = x.one /\ kt[1] = a
  OBVIOUS
<1>5. ListsHold(x.hp, ls, x.used, ks)
  OBVIOUS
<1> HIDE DEF ls, ks, lt, kt
<1>6. Len(ks[2]) < ListMax
  BY <1>2
<1>7. NodeAlloc(x.used, 2, ls[2].current) # Null
  BY <1>2, <1>5, <1>6, GetsNode
<1>8. OneHolds(ls, ks, 2, t, b1)
  <2>1. t = AppendTo(State(x.hp, ls[2], x.used), 2, key)
    BY <1>2
  <2> HIDE DEF t
  <2>2. OneHolds(ls, ks, 2, t, MaybeSorted(Append(ks[2], key)))
    BY <1>2, <1>5, <1>6, <1>7, <2>1, HoldsAppended
  <2> QED
    BY <1>2, <2>2
<1> HIDE DEF t
<1>9. t \in ListStates /\ ListsHold(t.hp, lt, t.used, kt)
  BY <1>4, <1>8, Zenon DEF OneHolds, lt, kt
<1>10. OneHolds(lt, kt, 1, u, a1)
  <2>1. u = RemoveFrom(State(t.hp, lt[1], t.used), key) /\ Contains(kt[1], key)
        /\ a1 = RemoveAt(kt[1], FirstAt(kt[1], key))
    BY <1>4
  <2> HIDE DEF u
  <2>2. OneHolds(lt, kt, 1, u, RemoveAt(kt[1], FirstAt(kt[1], key)))
    BY <1>2, <1>9, <2>1, HoldsRemoved
  <2> QED
    BY <2>1, <2>2
<1> HIDE DEF u
<1>11. u \in ListStates /\ ListsHold(u.hp, <<u.li, t.li>>, u.used, <<a1, b1>>)
  BY <1>4, <1>10, Zenon DEF OneHolds
<1>12. /\ u.hp \in [ListNodes -> NodeRecs] /\ u.li \in LinkedLists /\ u.used \in SUBSET ListNodes
       /\ t.li \in LinkedLists
  BY <1>9, <1>11, StateParts
<1>13. y.hp = u.hp /\ y.one = u.li /\ y.two = t.li /\ y.used = u.used /\ y \in TwoStates
  BY <1>3, <1>12 DEF TwoStates
<1> QED
  BY <1>11, <1>13

\* llist_filter moves all matches, whose keys are one key, and no other.
LEMMA HoldsSplit ==
  ASSUME NEW hp, NEW ls, NEW used, NEW ks, ListsHold(hp, ls, used, ks), ls[2].current = 0, NEW key \in ListKeys,
         listFlags.pool \/ Cardinality(used) < HeapNodes,
         NEW s, s = [hp |-> hp, one |-> ls[1], two |-> EmptyList, used |-> used],
         NEW t, t = FilterInto(s, key)
  PROVE  /\ t \in TwoStates
         /\ ListsHold(t.hp, <<t.one, t.two>>, t.used,
                  <<Selected(ks[1], ListKeys \ {key}), Selected(ks[1], {key})>>)
<1> DEFINE d == ks[1]
           N == Len(d)
<1>1. /\ 1 \in Lists /\ 2 \in Lists /\ ls \in [Lists -> LinkedLists] /\ ks \in [Lists -> Seq(ListKeys)]
      /\ d \in Seq(ListKeys) /\ Len(ks[2]) = 0 /\ KeysOf(hp, ls[1]) = d
      /\ N \in Nat /\ N <= ListMax /\ 0 \in 0 .. N /\ N \in 0 .. N
      /\ \A n \in 1 .. N : n - 1 \in 0 .. N /\ n \in 0 .. N /\ n # 0
  <2>1. 1 \in Lists /\ 2 \in Lists
    BY DEF Lists
  <2>2. /\ ls \in [Lists -> LinkedLists] /\ ks \in [Lists -> Seq(ListKeys)]
        /\ d \in Seq(ListKeys) /\ Len(ks[2]) = 0 /\ KeysOf(hp, ls[1]) = d /\ N \in 0 .. ListMax
    BY <2>1, HoldsIs
  <2> QED
    BY <2>1, <2>2, ListNumbers
<1>2. s.hp = hp /\ s.one = ls[1] /\ s.two = EmptyList /\ s.used = used
  OBVIOUS
<1>3. s \in TwoStates /\ ListsHold(s.hp, <<s.one, s.two>>, s.used, <<d, <<>> >>)
  <2> DEFINE u == State(hp, EmptyList, used)
  <2>1. OneHolds(ls, ks, 2, u, <<>>)
    BY <1>1, HoldsFresh
  <2>2. u.hp = hp /\ u.li = EmptyList /\ u.used = used
    BY DEF State
  <2>3. [ls EXCEPT ![2] = EmptyList] = <<ls[1], EmptyList>> /\ [ks EXCEPT ![2] = <<>>] = <<ks[1], <<>> >>
    BY <1>1 DEF Lists
  <2>4. ListsHold(hp, <<ls[1], EmptyList>>, used, <<d, <<>> >>)
    BY <2>1, <2>2, <2>3 DEF OneHolds
  <2>5. s \in TwoStates
    <3>1. hp \in [ListNodes -> NodeRecs] /\ used \in SUBSET ListNodes /\ ls[1] \in LinkedLists
      BY <1>1, HoldsIs
    <3>2. EmptyList \in LinkedLists
      BY ListNumbers DEF EmptyList, LinkedLists
    <3> QED
      BY <3>1, <3>2 DEF TwoStates
  <2> QED
    BY <1>2, <2>4, <2>5
<1>4. PICK k : Selects(ListKeys, d, ListKeys \ {key}, k)
  BY <1>1, SelectedIs
<1>5. PICK g : Selects(ListKeys, d, {key}, g)
  BY <1>1, SelectedIs
<1>6. /\ LeftAfter(d, k, 0) = d /\ LeftAfter(d, k, N) = Selected(d, ListKeys \ {key})
      /\ \A n \in 1 .. N :
           /\ d[n] # key => LeftAfter(d, k, n) = LeftAfter(d, k, n - 1)
           /\ d[n] = key => /\ Contains(LeftAfter(d, k, n - 1), key)
                            /\ RemoveAt(LeftAfter(d, k, n - 1), FirstAt(LeftAfter(d, k, n - 1), key)) = LeftAfter(d, k, n)
                            /\ Len(LeftAfter(d, k, n)) = Len(LeftAfter(d, k, n - 1)) - 1
  <2> HIDE DEF d
  <2>1. KeptGo(ListKeys, d, key, k)
    BY <1>1, <1>4, KeptGoes
  <2> QED
    BY <2>1 DEF KeptGo
<1>7. /\ g[0] = <<>> /\ g[N] = Selected(d, {key})
      /\ \A n \in 1 .. N : g[n] = IF d[n] \in {key} THEN Append(g[n - 1], d[n]) ELSE g[n - 1]
      /\ \A n \in 0 .. N : /\ g[n] \in Seq(ListKeys) /\ Len(g[n]) <= n
                           /\ \A i \in 1 .. Len(g[n]) : g[n][i] \in {key}
  BY <1>5 DEF Selects
<1> DEFINE Ok(n, x) == /\ ListsHold(x.hp, <<x.one, x.two>>, x.used, <<LeftAfter(d, k, n), g[n]>>)
                       /\ Cardinality(x.used) = Cardinality(used)
           I == [n \in 0 .. N |-> {x \in TwoStates : Ok(n, x)}]
           step == [n \in 1 .. N |-> [x \in I[n - 1] |-> IF d[n] = key THEN MoveKey(x, key) ELSE x]]
           F == CHOOSE f : Moves(s, d, key, f)
<1>8. \A n \in 0 .. N : I[n] = {x \in TwoStates : Ok(n, x)}
  OBVIOUS
<1> HIDE DEF I, d, N
<1>9. s \in I[0]
  <2>1. Ok(0, s)
    BY <1>2, <1>3, <1>6, <1>7 DEF d
  <2> QED
    BY <1>1, <1>3, <1>8, <2>1
<1>10. ASSUME NEW n \in 1 .. N, NEW x \in I[n - 1], NEW u, u = (IF d[n] = key THEN MoveKey(x, key) ELSE x)
       PROVE  u \in I[n]
  <2> DEFINE a == LeftAfter(d, k, n - 1)
             b == g[n - 1]
             a1 == LeftAfter(d, k, n)
             b1 == g[n]
  <2>1. x \in TwoStates /\ ListsHold(x.hp, <<x.one, x.two>>, x.used, <<a, b>>) /\ Cardinality(x.used) = Cardinality(used)
    BY <1>1, <1>8
  <2>2. CASE d[n] = key
    <3>1. /\ b \in Seq(ListKeys) /\ Len(b) <= n - 1 /\ (\A i \in 1 .. Len(b) : b[i] = key) /\ b1 = Append(b, key)
      BY <1>1, <1>7, <2>2
    <3>2. Contains(a, key) /\ a1 = RemoveAt(a, FirstAt(a, key)) /\ Len(a1) = Len(a) - 1
      BY <1>6, <2>2
    <3> HIDE DEF a, b, a1, b1
    <3>3. b1 = MaybeSorted(Append(b, key)) /\ Len(b1) = Len(b) + 1
      <4>1. b1 \in Seq(ListKeys) /\ Len(b1) = Len(b) + 1 /\ \A i \in 1 .. Len(b1) : b1[i] = key
        BY <3>1
      <4>2. b1 \in Seq(Int) /\ \A i, j \in 1 .. Len(b1) : b1[i] = b1[j]
        <5>1. \A e \in ListKeys : e \in Int
          BY ListNumbers
        <5> QED
          BY ONLY <4>1, <5>1
      <4>3. SortedKeys(b1) = b1
        BY ONLY <4>2, ShortIsSorted
      <4> QED
        BY <3>1, <4>1, <4>3 DEF MaybeSorted
    <3>4. Len(b) < ListMax
      BY <1>1, <3>1, ListNumbers
    <3>5. listFlags.pool \/ Cardinality(x.used) < HeapNodes
      BY <2>1
    <3>6. u = MoveKey(x, key)
      BY <1>10, <2>2
    <3>7. u \in TwoStates /\ ListsHold(u.hp, <<u.one, u.two>>, u.used, <<a1, b1>>)
      BY ONLY <2>1, <3>2, <3>3, <3>4, <3>5, <3>6, key \in ListKeys, HoldsMoved
    <3>8. Cardinality(u.used) = Cardinality(x.used)
      <4>1. Cardinality(u.used) = Len(a1) + Len(b1) /\ Cardinality(x.used) = Len(a) + Len(b)
        <5>1. Cardinality(u.used) = Len(<<a1, b1>>[1]) + Len(<<a1, b1>>[2])
          BY ONLY <3>7, HoldsCount
        <5>2. Cardinality(x.used) = Len(<<a, b>>[1]) + Len(<<a, b>>[2])
          BY ONLY <2>1, HoldsCount
        <5> QED
          BY <5>1, <5>2
      <4>2. a \in Seq(ListKeys)
        <5>1. <<a, b>> \in [Lists -> Seq(ListKeys)]
          BY ONLY <2>1, HoldsIs
        <5>2. <<a, b>>[1] = a
          OBVIOUS
        <5> QED
          BY ONLY <1>1, <5>1, <5>2
      <4>3. Len(a) \in Nat /\ Len(b) \in Nat
        BY <3>1, <4>2
      <4> QED
        BY ONLY <3>2, <3>3, <4>1, <4>3
    <3> QED
      BY <1>1, <1>8, <2>1, <3>7, <3>8 DEF a1, b1
  <2>3. CASE d[n] # key
    <3>1. a1 = a /\ b1 = b /\ u = x
      BY <1>6, <1>7, <1>10, <2>3
    <3>2. Ok(n, u) /\ u \in TwoStates
      BY <2>1, <3>1
    <3> QED
      BY <1>1, <1>8, <3>2
  <2> QED
    BY <2>2, <2>3
<1>11. \A n \in 1 .. N : \A x \in I[n - 1] :
         step[n][x] = (IF d[n] = key THEN MoveKey(x, key) ELSE x) /\ step[n][x] \in I[n]
  <2> SUFFICES ASSUME NEW n \in 1 .. N, NEW x \in I[n - 1]
               PROVE  step[n][x] = (IF d[n] = key THEN MoveKey(x, key) ELSE x) /\ step[n][x] \in I[n]
    BY Zenon
  <2>1. step[n][x] = (IF d[n] = key THEN MoveKey(x, key) ELSE x)
    OBVIOUS
  <2> QED
    BY <1>10, <2>1
<1> HIDE DEF step
<1>12. PICK f : CountsIn(f, N, I, s, step)
  BY <1>1, <1>9, <1>11, CountingRunExists, Zenon
<1>13. \A n \in 0 .. N : f[n] = (IF n = 0 THEN s ELSE step[n][f[n - 1]]) /\ f[n] \in I[n]
  <2>1. f = [n \in 0 .. N |-> IF n = 0 THEN s ELSE step[n][f[n - 1]]] /\ \A n \in 0 .. N : f[n] \in I[n]
    BY <1>12, Zenon DEF CountsIn
  <2> QED
    BY <2>1
<1>14. \A n \in 0 .. N : n # 0 => n \in 1 .. N /\ n - 1 \in 0 .. N
  BY <1>1
<1>15. Moves(s, d, key, f)
  <2>1. f = [n \in 0 .. N |-> f[n]]
    BY <1>12, Zenon DEF CountsIn
  <2>2. \A n \in 0 .. N : f[n] = IF n = 0 THEN s ELSE IF d[n] = key THEN MoveKey(f[n - 1], key) ELSE f[n - 1]
    BY <1>11, <1>13, <1>14
  <2> QED
    BY <2>1, <2>2 DEF Moves, N
<1>16. Moves(s, d, key, F)
  BY <1>15
<1>17. FilterInto(s, key) = F[N]
  <2>1. KeysOf(s.hp, s.one) = d
    BY <1>1, <1>2
  <2> QED
    BY ONLY <2>1, Zenon DEF FilterInto, Moves, N, F
<1> HIDE DEF F
<1>18. \A n \in 0 .. N : F[n] = IF n = 0 THEN s ELSE IF d[n] = key THEN MoveKey(F[n - 1], key) ELSE F[n - 1]
  BY <1>16 DEF Moves, N
<1>19. F[0] \in I[0] /\ \A n \in 1 .. N : F[n - 1] \in I[n - 1] => F[n] \in I[n]
  BY <1>1, <1>9, <1>10, <1>18
<1>20. \A n \in 0 .. N : F[n] \in I[n]
  BY ONLY <1>1, <1>19, StaysIn
<1>21. t \in TwoStates /\ ListsHold(t.hp, <<t.one, t.two>>, t.used, <<LeftAfter(d, k, N), g[N]>>)
  BY <1>1, <1>8, <1>17, <1>20
<1> QED
  BY <1>6, <1>7, <1>21 DEF d

-----------------------------------------------------------------------------
\* g is hp with the nodes r linked between x and y.
IsSpliced(hp, x, r, y, g, c) ==
  /\ c = (x \o r) \o y /\ g \in [ListNodes -> NodeRecs] /\ Segment(g, c, Null, Null)
  /\ DataOf(g, c) = (DataOf(hp, x) \o DataOf(hp, r)) \o DataOf(hp, y)
  /\ ElementsOf(c) = ElementsOf(x) \cup ElementsOf(r) \cup ElementsOf(y)
  /\ Len(c) = Len(x) + Len(r) + Len(y)
  /\ FirstOr(c, Null) = FirstOr(x, FirstOr(r, Null)) /\ LastOr(c, Null) = LastOr(y, LastOr(r, Null))

\* The nodes and pointers of llist_splice.
SplicedAt(hp, first, last, before, after) ==
  [m \in ListNodes |->
     [next |-> IF m = before THEN first ELSE IF m = last THEN after ELSE hp[m].next,
      prev |-> IF m = after THEN last ELSE IF m = first THEN before ELSE hp[m].prev,
      data |-> hp[m].data]]

\* The pointers llist_splice writes link all nodes.
LEMMA SpliceLinks ==
  ASSUME NEW hp \in [ListNodes -> NodeRecs], NEW x \in Seq(ListNodes), NEW y \in Seq(ListNodes), NEW r,
         Segment(hp, x \o y, Null, Null), Segment(hp, r, Null, Null), Len(r) # 0,
         (ElementsOf(x) \cup ElementsOf(y)) \cap ElementsOf(r) = {},
         NEW g, g = SplicedAt(hp, FirstOr(r, Null), LastOr(r, Null), LastOr(x, Null), FirstOr(y, Null))
  PROVE  IsSpliced(hp, x, r, y, g, (x \o r) \o y)
<1> DEFINE first == FirstOr(r, Null)
           last == LastOr(r, Null)
           before == LastOr(x, Null)
           after == FirstOr(y, Null)
           z == x \o r
           c == z \o y
<1>1. /\ Segment(hp, x, Null, FirstOr(y, Null)) /\ Segment(hp, y, LastOr(x, Null), Null)
      /\ ElementsOf(x) \cap ElementsOf(y) = {}
  BY SegmentSplits
<1>2. /\ Null \notin ElementsOf(x) /\ ElementsOf(x) \subseteq ListNodes
      /\ FirstOr(x, Null) \in ElementsOf(x) \cup {Null} /\ before \in ElementsOf(x) \cup {Null}
      /\ \A m \in ElementsOf(x) : m = FirstOr(x, Null) => hp[m].prev = Null
  BY <1>1, SegmentEnds
<1>3. /\ Null \notin ElementsOf(y) /\ ElementsOf(y) \subseteq ListNodes
      /\ after \in ElementsOf(y) \cup {Null} /\ LastOr(y, Null) \in ElementsOf(y) \cup {Null}
      /\ \A m \in ElementsOf(y) : m = LastOr(y, Null) => hp[m].next = Null
  BY <1>1, SegmentEnds
<1>4. /\ Null \notin ElementsOf(r) /\ ElementsOf(r) \subseteq ListNodes /\ r \in Seq(ListNodes)
      /\ first \in ElementsOf(r) \cup {Null} /\ last \in ElementsOf(r) \cup {Null}
      /\ first # Null /\ last # Null
      /\ \A e : FirstOr(r, e) = first /\ LastOr(r, e) = last
  <2>1. /\ Null \notin ElementsOf(r) /\ ElementsOf(r) \subseteq ListNodes /\ r \in Seq(ListNodes)
        /\ first \in ElementsOf(r) \cup {Null} /\ last \in ElementsOf(r) \cup {Null}
        /\ first = Null <=> last = Null
        /\ first = Null <=> Len(r) = 0
    BY SegmentEnds
  <2>2. \A e : FirstOr(r, e) = first /\ LastOr(r, e) = last
    BY DEF FirstOr, LastOr
  <2> QED
    BY <2>1, <2>2
<1>5. /\ \A m \in ElementsOf(x) : m \notin ElementsOf(r) /\ m \notin ElementsOf(y) /\ m # Null
      /\ \A m \in ElementsOf(r) : m \notin ElementsOf(x) /\ m \notin ElementsOf(y) /\ m # Null
      /\ \A m \in ElementsOf(y) : m \notin ElementsOf(r) /\ m \notin ElementsOf(x) /\ m # Null
  BY <1>1, <1>2, <1>3, <1>4
<1> HIDE DEF first, last, before, after
<1>6. g = [m \in ListNodes |->
            [next |-> IF m = before THEN first ELSE IF m = last THEN after ELSE hp[m].next,
             prev |-> IF m = after THEN last ELSE IF m = first THEN before ELSE hp[m].prev,
             data |-> hp[m].data]]
  BY Zenon DEF SplicedAt, first, last, before, after
<1>7. \A m \in ListNodes :
        /\ g[m].next = IF m = before THEN first ELSE IF m = last THEN after ELSE hp[m].next
        /\ g[m].prev = IF m = after THEN last ELSE IF m = first THEN before ELSE hp[m].prev
        /\ g[m].data = hp[m].data
  BY ONLY <1>6
<1>8. g \in [ListNodes -> NodeRecs]
  <2> DEFINE P == ListNodes \cup {Null}
  <2>1. first \in P /\ last \in P /\ before \in P /\ after \in P
    BY <1>2, <1>3, <1>4
  <2>2. \A m \in ListNodes : hp[m].next \in P /\ hp[m].prev \in P /\ hp[m].data \in ListKeys \cup {Null}
    BY DEF NodeRecs
  <2>3. NodeRecs = [next : P, prev : P, data : ListKeys \cup {Null}]
    BY DEF NodeRecs
  <2> HIDE DEF P
  <2> QED
    BY ONLY <1>6, <2>1, <2>2, <2>3
<1>9. Moved(hp, g, x, Null, first)
  <2> SUFFICES ASSUME NEW m \in ElementsOf(x)
               PROVE  /\ g[m].next = IF m = LastOr(x, Null) THEN first ELSE hp[m].next
                      /\ g[m].prev = IF m = FirstOr(x, Null) THEN Null ELSE hp[m].prev
                      /\ g[m].data = hp[m].data
    BY DEF Moved
  <2>1. m \in ListNodes /\ m # last /\ m # first /\ m # after
    BY <1>2, <1>3, <1>4, <1>5
  <2> QED
    BY <1>2, <1>7, <2>1 DEF before
<1>10. Moved(hp, g, r, before, after)
  <2> SUFFICES ASSUME NEW m \in ElementsOf(r)
               PROVE  /\ g[m].next = IF m = LastOr(r, Null) THEN after ELSE hp[m].next
                      /\ g[m].prev = IF m = FirstOr(r, Null) THEN before ELSE hp[m].prev
                      /\ g[m].data = hp[m].data
    BY DEF Moved
  <2>1. m \in ListNodes /\ m # before /\ m # after
    BY <1>2, <1>3, <1>4, <1>5
  <2> QED
    BY <1>7, <2>1 DEF first, last
<1>11. Moved(hp, g, y, last, Null)
  <2> SUFFICES ASSUME NEW m \in ElementsOf(y)
               PROVE  /\ g[m].next = IF m = LastOr(y, Null) THEN Null ELSE hp[m].next
                      /\ g[m].prev = IF m = FirstOr(y, Null) THEN last ELSE hp[m].prev
                      /\ g[m].data = hp[m].data
    BY DEF Moved
  <2>1. m \in ListNodes /\ m # last /\ m # first /\ m # before
    BY <1>2, <1>3, <1>4, <1>5
  <2> QED
    BY <1>3, <1>7, <2>1 DEF after
<1>12. Segment(g, x, Null, first) /\ DataOf(g, x) = DataOf(hp, x)
  BY <1>1, <1>9, SegmentMoves
<1>13. Segment(g, r, before, after) /\ DataOf(g, r) = DataOf(hp, r)
  BY <1>10, SegmentMoves
<1>14. Segment(g, y, last, Null) /\ DataOf(g, y) = DataOf(hp, y)
  BY <1>1, <1>11, SegmentMoves
<1>15. /\ z \in Seq(ListNodes) /\ Len(z) = Len(x) + Len(r) /\ ElementsOf(z) = ElementsOf(x) \cup ElementsOf(r)
       /\ \A e : FirstOr(z, e) = FirstOr(x, first)
       /\ \A e : LastOr(z, e) = last
  <2>1. x \in Seq(ListNodes) /\ r \in Seq(ListNodes)
    BY <1>4
  <2>2. /\ z \in Seq(ListNodes) /\ Len(z) = Len(x) + Len(r) /\ ElementsOf(z) = ElementsOf(x) \cup ElementsOf(r)
        /\ \A e : FirstOr(z, e) = FirstOr(x, FirstOr(r, e))
        /\ \A e : LastOr(z, e) = LastOr(r, LastOr(x, e))
    BY ONLY <2>1, ConcatIs
  <2> QED
    BY <1>4, <2>2
<1>16. Segment(g, z, Null, after)
  <2>1. FirstOr(r, after) = first /\ LastOr(x, Null) = before
    BY <1>4 DEF before
  <2>2. ElementsOf(x) \cap ElementsOf(r) = {}
    OBVIOUS
  <2>3. Segment(g, x, Null, FirstOr(r, after)) /\ Segment(g, r, LastOr(x, Null), after)
    BY <1>12, <1>13, <2>1
  <2> QED
    BY ONLY <2>2, <2>3, SegmentJoins
<1>17. DataOf(g, z) = DataOf(hp, x) \o DataOf(hp, r)
  <2>1. x \in Seq(ListNodes) /\ r \in Seq(ListNodes)
    BY <1>4
  <2>2. DataOf(g, x \o r) = DataOf(g, x) \o DataOf(g, r)
    BY ONLY <2>1, DataJoins
  <2> QED
    BY <1>12, <1>13, <2>2
<1> HIDE DEF z
<1>18. /\ Len(c) = Len(z) + Len(y) /\ ElementsOf(c) = ElementsOf(z) \cup ElementsOf(y)
       /\ FirstOr(c, Null) = FirstOr(z, FirstOr(y, Null)) /\ LastOr(c, Null) = LastOr(y, LastOr(z, Null))
  <2>1. z \in Seq(ListNodes) /\ y \in Seq(ListNodes)
    BY <1>15
  <2> QED
    BY ONLY <2>1, ConcatIs
<1>19. Segment(g, c, Null, Null)
  <2>1. FirstOr(y, Null) = after /\ LastOr(z, Null) = last
    BY <1>15 DEF after
  <2>2. ElementsOf(z) \cap ElementsOf(y) = {}
    BY <1>1, <1>15
  <2>3. Segment(g, z, Null, FirstOr(y, Null)) /\ Segment(g, y, LastOr(z, Null), Null)
    BY <1>14, <1>16, <2>1
  <2> QED
    BY ONLY <2>2, <2>3, SegmentJoins
<1>20. DataOf(g, c) = DataOf(g, z) \o DataOf(g, y)
  BY <1>15, DataJoins
<1>21. /\ DataOf(g, c) = (DataOf(hp, x) \o DataOf(hp, r)) \o DataOf(hp, y)
       /\ ElementsOf(c) = ElementsOf(x) \cup ElementsOf(r) \cup ElementsOf(y)
       /\ Len(c) = Len(x) + Len(r) + Len(y)
       /\ FirstOr(c, Null) = FirstOr(x, FirstOr(r, Null)) /\ LastOr(c, Null) = LastOr(y, LastOr(r, Null))
  BY <1>14, <1>15, <1>17, <1>18, <1>20 DEF first, last
<1> HIDE DEF c
<1>22. IsSpliced(hp, x, r, y, g, c)
  BY <1>8, <1>19, <1>21 DEF IsSpliced, c, z
<1> QED
  BY <1>22 DEF c, z

\* List 2 between two parts of the nodes of list 1.
LEMMA HoldsJoined ==
  ASSUME NEW hp, NEW ls, NEW used, NEW ks, NEW p, ListsHoldIn(hp, ls, used, ks, p), ~listFlags.pool,
         NEW x \in Seq(ListNodes), NEW y \in Seq(ListNodes), p[1] = x \o y, Len(ks[2]) # 0,
         Len(ks[1]) + Len(ks[2]) <= ListMax,
         NEW g, g = SplicedAt(hp, ls[2].first, ls[2].last, LastOr(x, Null), FirstOr(y, Null)),
         NEW li \in LinkedLists, li.first = FirstOr(x, ls[2].first), li.last = LastOr(y, ls[2].last),
         li.current = ls[1].current + ls[2].current
  PROVE  ListsHold(g, <<li, EmptyList>>, used, <<(DataOf(hp, x) \o ks[2]) \o DataOf(hp, y), <<>> >>)
<1> DEFINE q == p[1]
           r == p[2]
           c == (x \o r) \o y
           t == State(g, li, used)
           v == State(g, EmptyList, used)
           e == (DataOf(hp, x) \o ks[2]) \o DataOf(hp, y)
<1>1. 1 \in Lists /\ 2 \in Lists /\ \A m \in Lists : m = 1 \/ m = 2
  BY DEF Lists
<1>2. ASSUME NEW m \in Lists
      PROVE  /\ Len(p[m]) = Len(ks[m]) /\ ls[m].current = Len(ks[m]) /\ Len(ks[m]) \in Nat
             /\ DataOf(hp, p[m]) = ks[m]
             /\ Segment(hp, p[m], Null, Null) /\ ElementsOf(p[m]) \subseteq used /\ ElementsOf(p[m]) \subseteq NodesFor(m)
             /\ ls[m].first = FirstOr(p[m], Null) /\ ls[m].last = LastOr(p[m], Null)
  <2> DEFINE s == State(hp, ls[m], used)
  <2>1. /\ Owns(s, m, p[m]) /\ s.hp = hp /\ s.li = ls[m] /\ s.used = used
        /\ Len(p[m]) = Len(ks[m]) /\ ls[m].current = Len(ks[m]) /\ Len(ks[m]) \in 0 .. ListMax
        /\ DataOf(hp, p[m]) = ks[m]
    BY HoldsOne
  <2>0. Len(ks[m]) \in Nat
    BY <2>1
  <2> HIDE DEF s
  <2>2. /\ Segment(s.hp, p[m], Null, Null) /\ ElementsOf(p[m]) \subseteq s.used /\ ElementsOf(p[m]) \subseteq NodesFor(m)
        /\ s.li.first = FirstOr(p[m], Null) /\ s.li.last = LastOr(p[m], Null)
    BY <2>1, OwnsIs
  <2> QED
    BY <2>0, <2>1, <2>2
<1>3. /\ Len(q) = Len(ks[1]) /\ ls[1].current = Len(ks[1]) /\ Len(ks[1]) \in Nat
      /\ Len(r) = Len(ks[2]) /\ ls[2].current = Len(ks[2]) /\ Len(ks[2]) \in Nat /\ DataOf(hp, r) = ks[2]
  BY <1>1, <1>2
<1>4. /\ Segment(hp, q, Null, Null) /\ ElementsOf(q) \subseteq used /\ ElementsOf(q) \subseteq NodesFor(1)
  BY <1>1, <1>2
<1>5. /\ Segment(hp, r, Null, Null) /\ ElementsOf(r) \subseteq used /\ ElementsOf(r) \subseteq NodesFor(2)
      /\ ls[2].first = FirstOr(r, Null) /\ ls[2].last = LastOr(r, Null)
  BY <1>1, <1>2
<1>6. /\ hp \in [ListNodes -> NodeRecs] /\ used \in SUBSET ListNodes
      /\ ElementsOf(q) \cap ElementsOf(r) = {} /\ used = ElementsOf(q) \cup ElementsOf(r)
  BY DEF ListsHoldIn, TwoLists
<1>7. ElementsOf(q) = ElementsOf(x) \cup ElementsOf(y) /\ Len(q) = Len(x) + Len(y)
  <2>1. ElementsOf(x \o y) = ElementsOf(x) \cup ElementsOf(y) /\ Len(x \o y) = Len(x) + Len(y)
    BY ConcatIs
  <2> QED
    BY <2>1
<1>8. IsSpliced(hp, x, r, y, g, c)
  <2>1. /\ hp \in [ListNodes -> NodeRecs] /\ x \in Seq(ListNodes) /\ y \in Seq(ListNodes)
        /\ Segment(hp, x \o y, Null, Null) /\ Segment(hp, r, Null, Null) /\ Len(r) # 0
        /\ (ElementsOf(x) \cup ElementsOf(y)) \cap ElementsOf(r) = {}
        /\ g = SplicedAt(hp, FirstOr(r, Null), LastOr(r, Null), LastOr(x, Null), FirstOr(y, Null))
    BY <1>3, <1>4, <1>5, <1>6, <1>7
  <2> HIDE DEF r
  <2> QED
    BY ONLY <2>1, SpliceLinks
<1>9. /\ g \in [ListNodes -> NodeRecs] /\ Segment(g, c, Null, Null) /\ DataOf(g, c) = e
      /\ ElementsOf(c) = ElementsOf(x) \cup ElementsOf(r) \cup ElementsOf(y)
      /\ Len(c) = Len(x) + Len(r) + Len(y)
      /\ FirstOr(c, Null) = li.first /\ LastOr(c, Null) = li.last
  BY <1>3, <1>5, <1>8 DEF IsSpliced
<1> HIDE DEF q, r, c, e
<1>10. ElementsOf(c) = used /\ Len(c) = Len(ks[1]) + Len(ks[2]) /\ li.current = Len(c) /\ Len(c) <= ListMax
  <2>1. Len(x) \in Nat /\ Len(y) \in Nat
    OBVIOUS
  <2>2. ElementsOf(c) = used
    BY <1>6, <1>7, <1>9
  <2>3. Len(c) = Len(ks[1]) + Len(ks[2])
    <3> DEFINE M == Len(ks[1])
               N == Len(ks[2])
    <3>1. /\ Len(c) = Len(x) + Len(r) + Len(y) /\ Len(q) = Len(x) + Len(y) /\ Len(q) = M
          /\ Len(r) = N /\ N \in Nat
      BY <1>3, <1>7, <1>9
    <3> HIDE DEF M, N
    <3>2. Len(c) = M + N
      BY ONLY <2>1, <3>1
    <3> QED
      BY <3>2 DEF M, N
  <2> QED
    BY <1>3, <2>2, <2>3
<1>11. t \in ListStates /\ t.hp = g /\ t.li = li /\ t.used = used
  <2>1. g \in [ListNodes -> NodeRecs] /\ li \in LinkedLists /\ used \in SUBSET ListNodes
    BY <1>6, <1>9
  <2> QED
    BY ONLY <2>1, StateParts
<1>12. EmptyList \in LinkedLists /\ EmptyList.current = 0 /\ EmptyList.first = Null /\ EmptyList.last = Null
  BY ListNumbers DEF EmptyList, LinkedLists
<1>13. v \in ListStates /\ v.hp = g /\ v.li = EmptyList /\ v.used = used
  BY <1>6, <1>9, <1>12, StateParts
<1> HIDE DEF t, v
<1>14. NodesFor(1) = NodesFor(2)
  BY DEF NodesFor
<1>15. Owns(t, 1, c)
  <2>1. ElementsOf(c) \subseteq NodesFor(1)
    BY <1>4, <1>5, <1>6, <1>10, <1>14
  <2>2. /\ t \in ListStates /\ Segment(t.hp, c, Null, Null) /\ Len(c) <= ListMax
        /\ t.li.current = Len(c) /\ t.li.first = FirstOr(c, Null) /\ t.li.last = LastOr(c, Null)
        /\ ElementsOf(c) \subseteq t.used /\ ElementsOf(c) \subseteq NodesFor(1) /\ 1 \in Lists
    BY <1>1, <1>9, <1>10, <1>11, <2>1
  <2> QED
    BY ONLY <2>2, OwnsIs
<1> DEFINE o == <<>>
<1>16. o \in Seq(ListNodes) /\ Len(o) = 0 /\ ElementsOf(o) = {} /\ DataOf(g, o) = <<>> /\ o \in Seq(ListKeys)
  BY DEF ElementsOf, DataOf
<1> HIDE DEF o
<1>17. Owns(v, 2, o)
  <2>1. Chain(v.hp, v.li, o)
    BY <1>12, <1>13, <1>16, ListNumbers DEF Chain, Linking
  <2> QED
    BY <1>13, <1>16, <2>1 DEF Owns
<1>18. c \in Seq(ListNodes) /\ e \in Seq(ListKeys)
  BY <1>9, SegmentData, SegmentEnds
<1> DEFINE lt == <<li, EmptyList>>
           kt == <<e, o>>
           pt == <<c, o>>
<1>19. /\ lt \in [Lists -> LinkedLists] /\ kt \in [Lists -> Seq(ListKeys)] /\ pt \in [Lists -> Seq(ListNodes)]
       /\ lt[1] = li /\ lt[2] = EmptyList /\ kt[1] = e /\ kt[2] = o /\ pt[1] = c /\ pt[2] = o
  <2>1. lt \in [Lists -> LinkedLists] /\ lt[1] = li /\ lt[2] = EmptyList
    BY <1>12, PairIs
  <2>2. kt \in [Lists -> Seq(ListKeys)] /\ kt[1] = e /\ kt[2] = o
    BY <1>16, <1>18, PairIs
  <2>3. pt \in [Lists -> Seq(ListNodes)] /\ pt[1] = c /\ pt[2] = o
    BY <1>16, <1>18, PairIs
  <2> QED
    BY ONLY <2>1, <2>2, <2>3
<1> HIDE DEF lt, kt, pt
<1>20. \A m \in Lists : Owns(State(g, lt[m], used), m, pt[m]) /\ DataOf(g, pt[m]) = kt[m]
  <2>1. Owns(State(g, lt[1], used), 1, pt[1]) /\ DataOf(g, pt[1]) = kt[1]
    BY <1>9, <1>15, <1>19 DEF t
  <2>2. Owns(State(g, lt[2], used), 2, pt[2]) /\ DataOf(g, pt[2]) = kt[2]
    BY <1>16, <1>17, <1>19 DEF v, o
  <2> QED
    BY <1>1, <2>1, <2>2
<1>21. TwoLists(g, lt, used, pt)
  BY <1>10, <1>16, <1>19, <1>20 DEF TwoLists
<1>22. ListsHoldIn(g, lt, used, kt, pt)
  BY <1>6, <1>9, <1>19, <1>20, <1>21 DEF ListsHoldIn
<1>23. ListsHold(g, lt, used, kt)
  BY <1>19, <1>22 DEF ListsHold
<1> QED
  BY <1>23 DEF lt, kt, e, o

\* x and y are q before index i and from it on.
IsParted(S, q, i, x, y) ==
  /\ x \in Seq(S) /\ y \in Seq(S) /\ q = x \o y /\ Len(x) = i - 1 /\ Len(y) = Len(q) - i + 1
  /\ \A j \in 1 .. i - 1 : x[j] = q[j]
  /\ \A j \in 1 .. Len(q) - i + 1 : y[j] = q[i + j - 1]

\* A sequence up to an index and from it on.
LEMMA CutBefore ==
  ASSUME NEW S, NEW q \in Seq(S), NEW i \in 1 .. Len(q),
         NEW x, x = SubSeq(q, 1, i - 1), NEW y, y = SubSeq(q, i, Len(q))
  PROVE  IsParted(S, q, i, x, y)
<1> DEFINE e == q[i]
           w == SubSeq(q, i + 1, Len(q))
<1>1. x \in Seq(S) /\ Len(x) = i - 1 /\ \A j \in 1 .. i - 1 : x[j] = q[j]
  <2>1. i \in Int /\ 1 <= i /\ i - 1 <= Len(q)
    OBVIOUS
  <2>2. SubSeq(q, 1, i - 1) \in Seq(S) /\ Len(SubSeq(q, 1, i - 1)) = i - 1
    BY <2>1
  <2>3. \A j \in 1 .. i - 1 : SubSeq(q, 1, i - 1)[j] = q[j]
    BY <2>1
  <2> QED
    BY <2>2, <2>3
<1>2. /\ y \in Seq(S) /\ Len(y) = Len(q) - i + 1
      /\ \A j \in 1 .. Len(q) - i + 1 : y[j] = q[i + j - 1]
  OBVIOUS
<1>3. e \in S /\ w \in Seq(S)
  OBVIOUS
<1>4. q = (x \o <<e>>) \o w
  <2>1. IsCut(S, q, i, x, w)
    BY CutAt
  <2> QED
    BY <2>1 DEF IsCut
<1>5. y = <<e>> \o w
  BY RestIs
<1> HIDE DEF e, w
<1>6. JoinsUp(x, e, w)
  BY <1>1, <1>3, ConcatJoins
<1>7. q = x \o y
  BY <1>4, <1>5, <1>6 DEF JoinsUp
<1> QED
  BY <1>1, <1>2, <1>7 DEF IsParted

\* The handle of list 1 after llist_splice in front of, or behind, node n.
SplicedList(a, b, n, behind) ==
  [a EXCEPT !.first = IF @ = n THEN b.first ELSE @, !.last = IF behind THEN b.last ELSE @,
            !.current = @ + b.current]

\* llist_splice keeps all elements of both lists.
LEMMA HoldsSpliced ==
  ASSUME NEW hp, NEW ls, NEW used, NEW ks, ListsHold(hp, ls, used, ks), ~listFlags.pool,
         NEW i \in 1 .. Len(ks[1]), Len(ks[2]) # 0, Len(ks[1]) + Len(ks[2]) <= ListMax,
         NEW n, n = NodesOf(hp, ls[1])[i], NEW behind \in BOOLEAN, behind <=> (n = ls[1].last /\ n # ls[1].first),
         NEW before, before = IF behind THEN n ELSE hp[n].prev, NEW after, after = IF behind THEN Null ELSE n,
         NEW g, g = SplicedAt(hp, ls[2].first, ls[2].last, before, after)
  PROVE  ListsHold(g, <<SplicedList(ls[1], ls[2], n, behind), EmptyList>>, used,
               <<IF behind THEN ks[1] \o ks[2]
                 ELSE SubSeq(ks[1], 1, i - 1) \o ks[2] \o SubSeq(ks[1], i, Len(ks[1])), <<>> >>)
<1>1. PICK p \in [Lists -> Seq(ListNodes)] : ListsHoldIn(hp, ls, used, ks, p)
  BY DEF ListsHold
<1> DEFINE q == p[1]
           a == ls[1]
           b == ls[2]
           d == ks[1]
           e == ks[2]
           li == SplicedList(a, b, n, behind)
<1>2. 1 \in Lists /\ 2 \in Lists
  BY DEF Lists
<1>3. /\ Owns(State(hp, a, used), 1, q) /\ a \in LinkedLists /\ Chain(hp, a, q) /\ NodesOf(hp, a) = q
      /\ DataOf(hp, q) = d /\ a.current = Len(d) /\ Len(q) = Len(d) /\ Len(d) \in 0 .. ListMax
      /\ q \in Seq(ListNodes) /\ d \in Seq(ListKeys)
  BY <1>1, <1>2, HoldsOne
<1>4. /\ b \in LinkedLists /\ b.current = Len(e) /\ Len(e) \in 0 .. ListMax /\ e \in Seq(ListKeys)
  BY <1>1, <1>2, HoldsOne
<1>5. /\ Segment(hp, q, Null, Null) /\ a.first = FirstOr(q, Null) /\ a.last = LastOr(q, Null)
  BY <1>3, ChainIs
<1> DEFINE N == Len(q)
<1>6. /\ N \in Nat /\ i \in 1 .. N /\ n = q[i] /\ a.first = q[1] /\ a.last = q[N] /\ 1 \in 1 .. N /\ N \in 1 .. N
      /\ \A j, k \in 1 .. N : q[j] = q[k] => j = k
      /\ \A j \in 1 .. N : hp[q[j]].prev = IF j = 1 THEN Null ELSE q[j - 1]
  <2>1. N \in Nat /\ i \in 1 .. N /\ n = q[i] /\ 1 \in 1 .. N /\ N \in 1 .. N /\ N # 0
    BY <1>3
  <2>2. a.first = q[1] /\ a.last = q[N]
    BY <1>5, <2>1 DEF FirstOr, LastOr
  <2> QED
    BY <1>5, <2>1, <2>2 DEF Segment
<1>7. behind <=> i = N /\ i # 1
  BY <1>6
<1>8. /\ li \in LinkedLists /\ li.current = a.current + b.current
      /\ li.first = (IF a.first = n THEN b.first ELSE a.first)
      /\ li.last = IF behind THEN b.last ELSE a.last
  <2>1. a.current + b.current \in 0 .. ListMax
    <3>1. Len(d) + Len(e) <= ListMax
      OBVIOUS
    <3>2. Len(d) \in Nat /\ Len(e) \in Nat /\ ListMax \in Nat
      BY <1>3, <1>4, ListNumbers
    <3> HIDE DEF d, e
    <3>3. Len(d) + Len(e) \in 0 .. ListMax
      BY ONLY <3>1, <3>2
    <3> QED
      BY <1>3, <1>4, <3>3
  <2>2. /\ a.first \in ListNodes \cup {Null} /\ b.first \in ListNodes \cup {Null}
        /\ a.last \in ListNodes \cup {Null} /\ b.last \in ListNodes \cup {Null}
    BY <1>3, <1>4 DEF LinkedLists
  <2> HIDE DEF a, b
  <2> QED
    BY ONLY <1>3, <2>1, <2>2 DEF SplicedList, LinkedLists
<1> HIDE DEF li, a, b, d, e, q
<1>9. CASE behind
  <2> DEFINE y == <<>>
  <2>1. y \in Seq(ListNodes) /\ Len(y) = 0 /\ q \o y = q /\ DataOf(hp, y) = <<>>
    BY <1>3 DEF DataOf
  <2>2. before = LastOr(q, Null) /\ after = FirstOr(y, Null)
    BY <1>6, <1>7, <1>9, <2>1 DEF LastOr, FirstOr
  <2>3. li.first = FirstOr(q, b.first) /\ li.last = LastOr(y, b.last)
    BY <1>6, <1>7, <1>8, <1>9, <2>1 DEF LastOr, FirstOr
  <2>4. (DataOf(hp, q) \o e) \o DataOf(hp, y) = d \o e
    <3>1. d \o e \in Seq(ListKeys)
      BY <1>3, <1>4
    <3> DEFINE f == d \o e
    <3> HIDE DEF f
    <3>2. f \o <<>> = f
      BY <3>1 DEF f
    <3> QED
      BY <1>3, <2>1, <3>2 DEF f
  <2> HIDE DEF y
  <2>5. ListsHold(g, <<li, EmptyList>>, used, <<(DataOf(hp, q) \o e) \o DataOf(hp, y), <<>> >>)
    <3>1. /\ ListsHoldIn(hp, ls, used, ks, p) /\ ~listFlags.pool /\ q \in Seq(ListNodes) /\ y \in Seq(ListNodes)
          /\ p[1] = q \o y /\ Len(ks[2]) # 0 /\ Len(ks[1]) + Len(ks[2]) <= ListMax
          /\ g = SplicedAt(hp, ls[2].first, ls[2].last, LastOr(q, Null), FirstOr(y, Null))
          /\ li \in LinkedLists /\ li.first = FirstOr(q, ls[2].first) /\ li.last = LastOr(y, ls[2].last)
          /\ li.current = ls[1].current + ls[2].current /\ e = ks[2]
      BY <1>1, <1>3, <1>8, <2>1, <2>2, <2>3 DEF a, b, q, e
    <3> QED
      BY ONLY <3>1, HoldsJoined
  <2> QED
    BY <1>9, <2>4, <2>5 DEF li, a, b, d, e
<1>10. CASE ~behind
  <2> DEFINE x == SubSeq(q, 1, i - 1)
             y == SubSeq(q, i, N)
             dx == SubSeq(d, 1, i - 1)
             dy == SubSeq(d, i, Len(d))
  <2>1. /\ x \in Seq(ListNodes) /\ y \in Seq(ListNodes) /\ q = x \o y /\ Len(x) = i - 1 /\ Len(y) = N - i + 1
        /\ \A j \in 1 .. i - 1 : x[j] = q[j]
        /\ \A j \in 1 .. N - i + 1 : y[j] = q[i + j - 1]
    <3>1. IsParted(ListNodes, q, i, x, y)
      BY <1>3, <1>6, CutBefore
    <3> QED
      BY <3>1 DEF IsParted
  <2>2. /\ dx \in Seq(ListKeys) /\ dy \in Seq(ListKeys) /\ d = dx \o dy /\ Len(dx) = i - 1 /\ Len(dy) = N - i + 1
        /\ \A j \in 1 .. i - 1 : dx[j] = d[j]
        /\ \A j \in 1 .. N - i + 1 : dy[j] = d[i + j - 1]
    <3>1. IsParted(ListKeys, d, i, dx, dy)
      BY <1>3, <1>6, CutBefore
    <3> QED
      BY <1>3, <3>1 DEF IsParted
  <2> HIDE DEF x, y, dx, dy
  <2>3. \A j \in 1 .. N : d[j] = hp[q[j]].data
    BY <1>3, <1>5, SegmentData
  <2>4. DataOf(hp, x) = dx /\ DataOf(hp, y) = dy
    <3>1. Segment(hp, x \o y, Null, Null)
      BY <1>5, <2>1
    <3>2. Segment(hp, x, Null, FirstOr(y, Null)) /\ Segment(hp, y, LastOr(x, Null), Null)
      BY ONLY <2>1, <3>1, SegmentSplits
    <3>3. /\ DataOf(hp, x) \in Seq(ListKeys) /\ Len(DataOf(hp, x)) = i - 1
          /\ \A j \in 1 .. i - 1 : DataOf(hp, x)[j] = hp[x[j]].data
      BY <2>1, <3>2, SegmentData
    <3>4. /\ DataOf(hp, y) \in Seq(ListKeys) /\ Len(DataOf(hp, y)) = N - i + 1
          /\ \A j \in 1 .. N - i + 1 : DataOf(hp, y)[j] = hp[y[j]].data
      BY <2>1, <3>2, SegmentData
    <3>5. \A j \in 1 .. i - 1 : j \in 1 .. N
      BY <1>6
    <3>6. \A j \in 1 .. N - i + 1 : i + j - 1 \in 1 .. N
      BY <1>6
    <3> DEFINE u == DataOf(hp, x)
               v == DataOf(hp, y)
    <3>7. ASSUME NEW j \in 1 .. i - 1 PROVE u[j] = dx[j]
      <4>1. u[j] = hp[x[j]].data /\ x[j] = q[j] /\ dx[j] = d[j]
        BY <2>1, <2>2, <3>3
      <4>2. d[j] = hp[q[j]].data
        BY <2>3, <3>5
      <4> QED
        BY ONLY <4>1, <4>2
    <3>8. ASSUME NEW j \in 1 .. N - i + 1 PROVE v[j] = dy[j]
      <4> DEFINE k == i + j - 1
      <4>1. v[j] = hp[y[j]].data /\ y[j] = q[k] /\ dy[j] = d[k]
        BY <2>1, <2>2, <3>4
      <4>2. d[k] = hp[q[k]].data
        BY <2>3, <3>6
      <4> HIDE DEF k
      <4> QED
        BY ONLY <4>1, <4>2
    <3>9. /\ u \in Seq(ListKeys) /\ v \in Seq(ListKeys) /\ Len(u) = Len(dx) /\ Len(v) = Len(dy)
          /\ (\A j \in 1 .. Len(u) : u[j] = dx[j]) /\ \A j \in 1 .. Len(v) : v[j] = dy[j]
      BY <2>2, <3>3, <3>4, <3>7, <3>8
    <3> HIDE DEF u, v
    <3>10. u = dx /\ v = dy
      BY <2>2, <3>9, SameSeq
    <3> QED
      BY <3>10 DEF u, v
  <2>5. before = LastOr(x, Null) /\ after = FirstOr(y, Null)
    <3>1. after = n /\ Len(y) # 0 /\ y[1] = n
      <4>1. Len(y) # 0 /\ 1 \in 1 .. N - i + 1 /\ i + 1 - 1 = i
        BY <1>6, <2>1
      <4>2. y[1] = q[i]
        BY <2>1, <4>1
      <4> QED
        BY <1>6, <1>10, <4>1, <4>2
    <3>2. before = IF i = 1 THEN Null ELSE q[i - 1]
      BY <1>6, <1>10
    <3>3. CASE i = 1
      BY <2>1, <3>1, <3>2, <3>3 DEF FirstOr, LastOr
    <3>4. CASE i # 1
      <4>1. Len(x) # 0 /\ i - 1 \in 1 .. i - 1
        BY <1>6, <2>1, <3>4
      <4>2. x[Len(x)] = q[i - 1]
        BY <2>1, <4>1
      <4> QED
        BY <3>1, <3>2, <3>4, <4>1, <4>2 DEF FirstOr, LastOr
    <3> QED
      BY <3>3, <3>4
  <2>6. li.first = FirstOr(x, b.first)
    <3>1. CASE i = 1
      BY <1>6, <1>8, <2>1, <3>1 DEF FirstOr
    <3>2. CASE i # 1
      <4>1. Len(x) # 0 /\ 1 \in 1 .. i - 1
        BY <1>6, <2>1, <3>2
      <4>2. x[1] = q[1] /\ q[1] # n
        BY <1>6, <2>1, <3>2, <4>1
      <4> QED
        BY <1>6, <1>8, <4>1, <4>2 DEF FirstOr
    <3> QED
      BY <3>1, <3>2
  <2>7. li.last = LastOr(y, b.last)
    <3>1. Len(y) # 0 /\ Len(y) \in 1 .. N - i + 1 /\ i + Len(y) - 1 = N
      BY <1>6, <2>1
    <3>2. y[Len(y)] = q[N]
      BY <2>1, <3>1
    <3> QED
      BY <1>6, <1>8, <1>10, <3>1, <3>2 DEF LastOr
  <2>8. ListsHold(g, <<li, EmptyList>>, used, <<(DataOf(hp, x) \o e) \o DataOf(hp, y), <<>> >>)
    <3>1. /\ ListsHoldIn(hp, ls, used, ks, p) /\ ~listFlags.pool /\ x \in Seq(ListNodes) /\ y \in Seq(ListNodes)
          /\ p[1] = x \o y /\ Len(ks[2]) # 0 /\ Len(ks[1]) + Len(ks[2]) <= ListMax
          /\ g = SplicedAt(hp, ls[2].first, ls[2].last, LastOr(x, Null), FirstOr(y, Null))
          /\ li \in LinkedLists /\ li.first = FirstOr(x, ls[2].first) /\ li.last = LastOr(y, ls[2].last)
          /\ li.current = ls[1].current + ls[2].current /\ e = ks[2]
      BY <1>1, <1>8, <2>1, <2>5, <2>6, <2>7 DEF a, b, q, e
    <3> QED
      BY ONLY <3>1, HoldsJoined
  <2> QED
    BY <1>10, <2>4, <2>8 DEF li, a, b, d, e, dx, dy
<1> QED
  BY <1>9, <1>10

-----------------------------------------------------------------------------
\* What makes ListsIntact inductive: the nodes that each list has, in order.
ListInv ==
  /\ listFlags \in [pool : BOOLEAN, sort : BOOLEAN] /\ missorted \in BOOLEAN
  /\ \E ks : ListsHold(nodes, list, inuse, ks) /\ (missorted \/ ks = expected)

\* What each list holds after a step.  The flags of a list never change, and the
\* nodes it may take depend on them.
LEMMA FlagsKept ==
  ASSUME NEW kt, ListsHold(nodes', list', inuse', kt), listFlags' = listFlags, ListInv,
         missorted' \in BOOLEAN, missorted' \/ kt = expected'
  PROVE  ListInv'
<1>1. \A l \in Lists : NodesFor(l)' = NodesFor(l)
  BY Zenon DEF NodesFor
<1>2. \A s, q : \A l \in Lists :
        Owns(s, l, q) => /\ s \in ListStates /\ Chain(s.hp, s.li, q)
                         /\ ElementsOf(q) \subseteq s.used /\ ElementsOf(q) \subseteq NodesFor(l)'
  BY <1>1 DEF Owns
<1>3. \E kx : ListsHold(nodes, list, inuse, kx)' /\ (missorted' \/ kx = expected')
  BY <1>2, Zenon DEF ListsHold, ListsHoldIn, TwoLists, Owns
<1> QED
  BY <1>3, Zenon DEF ListInv

\* An operation on one list: the keys it leaves, and those it is expected to.
LEMMA BecomesHolds ==
  ASSUME ListInv, NEW ks, missorted \/ ks = expected, NEW l, NEW t, NEW keys, NEW e,
         OneHolds(list, ks, l, t, keys), Become(l, t), Expect(l, e), listFlags' = listFlags,
         missorted' \in BOOLEAN, missorted => missorted', missorted' \/ e = keys
  PROVE  ListInv'
<1>1. nodes' = t.hp /\ list' = [list EXCEPT ![l] = t.li] /\ inuse' = t.used
  BY DEF Become
<1>2. missorted' \/ [ks EXCEPT ![l] = keys] = expected'
  BY DEF Expect, ExpectBoth
<1>3. ListsHold(nodes', list', inuse', [ks EXCEPT ![l] = keys])
  BY <1>1, Zenon DEF OneHolds
<1> DEFINE kt == [ks EXCEPT ![l] = keys]
<1> HIDE DEF kt
<1>4. ListsHold(nodes', list', inuse', kt) /\ (missorted' \/ kt = expected')
  BY <1>2, <1>3 DEF kt
<1> QED
  BY <1>4, FlagsKept

\* The lists a program starts with.
LEMMA ListInitOk ==
  ASSUME ListInit
  PROVE  ListInv
<1> DEFINE o == <<>>
           p == [l \in Lists |-> o]
<1>1. /\ nodes = [n \in ListNodes |-> FreeNode] /\ list = [l \in Lists |-> EmptyList] /\ inuse = {}
      /\ listFlags \in [pool : BOOLEAN, sort : BOOLEAN] /\ expected = [l \in Lists |-> o]
      /\ missorted = FALSE
  BY DEF ListInit
<1>2. o \in Seq(ListNodes) /\ o \in Seq(ListKeys) /\ Len(o) = 0 /\ ElementsOf(o) = {} /\ DataOf(nodes, o) = o
  BY DEF ElementsOf, DataOf
<1> HIDE DEF o
<1>3. EmptyList \in LinkedLists /\ EmptyList.current = 0 /\ EmptyList.first = Null /\ EmptyList.last = Null
  BY ListNumbers DEF EmptyList, LinkedLists
<1>4. FreeNode \in NodeRecs
  BY DEF FreeNode, NodeRecs
<1>5. /\ nodes \in [ListNodes -> NodeRecs] /\ list \in [Lists -> LinkedLists] /\ inuse \in SUBSET ListNodes
      /\ expected \in [Lists -> Seq(ListKeys)] /\ p \in [Lists -> Seq(ListNodes)]
  BY <1>1, <1>2, <1>3, <1>4
<1>6. \A l \in Lists : p[l] = o /\ expected[l] = o /\ list[l] = EmptyList
  BY <1>1
<1>7. 1 \in Lists /\ 2 \in Lists
  BY DEF Lists
<1> HIDE DEF p
<1>8. ASSUME NEW l \in Lists PROVE Owns(State(nodes, list[l], inuse), l, p[l]) /\ DataOf(nodes, p[l]) = expected[l]
  <2> DEFINE s == State(nodes, EmptyList, inuse)
  <2>1. s \in ListStates /\ s.hp = nodes /\ s.li = EmptyList /\ s.used = inuse
    <3>1. nodes \in [ListNodes -> NodeRecs] /\ EmptyList \in LinkedLists /\ inuse \in SUBSET ListNodes
      BY <1>3, <1>5
    <3> HIDE DEF s
    <3>2. s = State(nodes, EmptyList, inuse)
      BY DEF s
    <3> QED
      BY ONLY <3>1, <3>2, StateParts
  <2> HIDE DEF s
  <2>2. Chain(s.hp, s.li, o)
    BY <1>2, <1>3, <2>1, ListNumbers DEF Chain, Linking
  <2>3. Owns(s, l, o)
    BY <1>2, <2>1, <2>2 DEF Owns
  <2> QED
    BY <1>2, <1>6, <2>3 DEF s
<1>9. TwoLists(nodes, list, inuse, p)
  BY <1>1, <1>2, <1>6, <1>7, <1>8 DEF TwoLists
<1>10. ListsHoldIn(nodes, list, inuse, expected, p)
  BY <1>5, <1>8, <1>9 DEF ListsHoldIn
<1>11. ListsHold(nodes, list, inuse, expected)
  BY <1>5, <1>10 DEF ListsHold
<1> QED
  BY <1>1, <1>11 DEF ListInv

\* Every operation leaves the lists what they are expected to hold.
LEMMA ListStep ==
  ASSUME ListInv, [ListNext]_listVars
  PROVE  ListInv'
<1>1. PICK ks : ListsHold(nodes, list, inuse, ks) /\ (missorted \/ ks = expected)
  BY DEF ListInv
<1>a. missorted \in BOOLEAN
  BY DEF ListInv
<1>2. /\ nodes \in [ListNodes -> NodeRecs] /\ list \in [Lists -> LinkedLists] /\ inuse \in SUBSET ListNodes
      /\ ks \in [Lists -> Seq(ListKeys)]
      /\ \A l \in Lists : /\ list[l].current = Len(ks[l]) /\ Len(ks[l]) \in 0 .. ListMax
                          /\ KeysOf(nodes, list[l]) = ks[l]
  BY <1>1, HoldsIs
<1>3. 1 \in Lists /\ 2 \in Lists
  BY DEF Lists
<1>4. ASSUME NEW l \in Lists, NEW k \in ListKeys, ListAppend(l, k) PROVE ListInv'
  <2> DEFINE t == AppendTo(Here(l), l, k)
             e == MaybeSorted(Append(ks[l], k))
             f == MaybeSorted(Append(expected[l], k))
  <2>1. /\ HasRoom(l) /\ Become(l, t) /\ Expect(l, f) /\ listFlags' = listFlags /\ missorted' = missorted
    BY <1>4 DEF ListAppend
  <2>2. Len(ks[l]) < ListMax /\ NodeAlloc(inuse, l, list[l].current) # Null
    BY <1>2, <2>1, ListNumbers DEF HasRoom, ListIsFull
  <2>3. t = AppendTo(State(nodes, list[l], inuse), l, k)
    BY DEF Here
  <2> HIDE DEF t
  <2>4. OneHolds(list, ks, l, t, e)
    BY <1>1, <2>2, <2>3, HoldsAppended
  <2>9. missorted' \/ f = e
    BY <1>1, <2>1
  <2> HIDE DEF e, f
  <2> QED
    BY <1>1, <1>a, <2>1, <2>4, <2>9, BecomesHolds
<1>5. ASSUME NEW l \in Lists, NEW k \in ListKeys, ListPrepend(l, k) PROVE ListInv'
  <2> DEFINE t == PrependTo(Here(l), l, k)
             e == MaybeSorted(<<k>> \o ks[l])
             f == MaybeSorted(<<k>> \o expected[l])
  <2>1. /\ HasRoom(l) /\ Become(l, t) /\ Expect(l, f) /\ listFlags' = listFlags /\ missorted' = missorted
    BY <1>5 DEF ListPrepend
  <2>2. Len(ks[l]) < ListMax /\ NodeAlloc(inuse, l, list[l].current) # Null
    BY <1>2, <2>1, ListNumbers DEF HasRoom, ListIsFull
  <2>3. t = PrependTo(State(nodes, list[l], inuse), l, k)
    BY DEF Here
  <2> HIDE DEF t
  <2>4. OneHolds(list, ks, l, t, e)
    BY <1>1, <2>2, <2>3, HoldsPrepended
  <2>9. missorted' \/ f = e
    BY <1>1, <2>1
  <2> HIDE DEF e, f
  <2> QED
    BY <1>1, <1>a, <2>1, <2>4, <2>9, BecomesHolds
<1>6. ASSUME NEW l \in Lists, NEW k \in ListKeys, ListRemove(l, k) PROVE ListInv'
  <2> DEFINE t == RemoveFrom(Here(l), k)
             e == RemoveAt(ks[l], FirstAt(ks[l], k))
             f == RemoveAt(expected[l], FirstAt(expected[l], k))
  <2>1. /\ Contains(KeysOf(nodes, list[l]), k) /\ Become(l, t) /\ Expect(l, f) /\ listFlags' = listFlags /\ missorted' = missorted
    BY <1>6 DEF ListRemove
  <2>2. t = RemoveFrom(State(nodes, list[l], inuse), k)
    BY DEF Here
  <2> HIDE DEF t
  <2>3. OneHolds(list, ks, l, t, e)
    BY <1>1, <1>2, <2>1, <2>2, HoldsRemoved
  <2>9. missorted' \/ f = e
    BY <1>1, <2>1
  <2> HIDE DEF e, f
  <2> QED
    BY <1>1, <1>a, <2>1, <2>3, <2>9, BecomesHolds
<1>7. ASSUME NEW l \in Lists, NEW i \in 1 .. ListMax, ListDelete(l, i) PROVE ListInv'
  <2> DEFINE t == DeleteFrom(Here(l), NodesOf(nodes, list[l])[i])
             e == RemoveAt(ks[l], i)
             f == RemoveAt(expected[l], i)
  <2>1. /\ i \in DOMAIN NodesOf(nodes, list[l]) /\ Become(l, t) /\ Expect(l, f) /\ listFlags' = listFlags /\ missorted' = missorted
    BY <1>7 DEF ListDelete
  <2>2. i \in 1 .. Len(ks[l]) /\ t = DeleteFrom(State(nodes, list[l], inuse), NodesOf(nodes, list[l])[i])
    BY <1>2, <2>1 DEF Here, KeysOf, DataOf
  <2> HIDE DEF t
  <2>3. OneHolds(list, ks, l, t, e)
    BY <1>1, <2>2, HoldsDeleted
  <2>9. missorted' \/ f = e
    BY <1>1, <2>1
  <2> HIDE DEF e, f
  <2> QED
    BY <1>1, <1>a, <2>1, <2>3, <2>9, BecomesHolds
<1>8. ASSUME NEW l \in Lists, ListClear(l) PROVE ListInv'
  <2> DEFINE t == ClearList(Here(l))
  <2>1. /\ Become(l, t) /\ Expect(l, <<>>) /\ listFlags' = listFlags /\ missorted' = missorted
    BY <1>8 DEF ListClear
  <2>2. t = ClearList(State(nodes, list[l], inuse))
    BY DEF Here
  <2> HIDE DEF t
  <2>3. OneHolds(list, ks, l, t, <<>>)
    BY <1>1, <2>2, HoldsCleared
  <2> QED
    BY <1>1, <1>a, <2>1, <2>3, BecomesHolds
<1>9. ASSUME NEW l \in Lists, ListSort(l) PROVE ListInv'
  <2> DEFINE t == SortList(Here(l))
             e == IF list[l].sorted THEN ks[l] ELSE SortedKeys(ks[l])
             f == SortedKeys(expected[l])
  <2>1. /\ Become(l, t) /\ Expect(l, f) /\ listFlags' = listFlags
        /\ missorted' = (missorted \/ (list[l].sorted /\ ~KeysAscend(KeysOf(nodes, list[l]))))
    BY <1>9 DEF ListSort
  <2>2. t = SortList(State(nodes, list[l], inuse))
    BY DEF Here
  <2> HIDE DEF t
  <2>3. OneHolds(list, ks, l, t, e)
    BY <1>1, <2>2, HoldsSorted
  <2>4. missorted' \in BOOLEAN /\ (missorted => missorted')
    BY <1>a, <2>1
  <2>5. KeysAscend(ks[l]) => SortedKeys(ks[l]) = ks[l]
    <3>1. ks[l] \in Seq(Int)
      BY <1>2, ListNumbers
    <3> DEFINE d == ks[l]
    <3> HIDE DEF d
    <3>2. d \in Seq(Int) => SameTimes(d, d)
      BY DEF SameTimes
    <3>3. d \in Seq(Int) /\ KeysAscend(d) => SortedKeys(d) = d
      BY <3>2, SortedIs
    <3> QED
      BY <3>1, <3>3 DEF d
  <2>9. missorted' \/ f = e
    <3>1. CASE ~list[l].sorted
      BY <1>1, <2>1, <3>1
    <3>2. CASE list[l].sorted
      BY <1>1, <1>2, <2>1, <2>5, <3>2
    <3> QED
      BY <3>1, <3>2
  <2> HIDE DEF e, f
  <2> QED
    BY <1>1, <2>1, <2>3, <2>4, <2>9, BecomesHolds
<1>10. ASSUME NEW l \in Lists, NEW k \in ListKeys, ListFilter2(l, k) PROVE ListInv'
  <2> DEFINE t == FilterOut(Here(l), k)
             e == Selected(ks[l], ListKeys \ {k})
             f == Selected(expected[l], ListKeys \ {k})
  <2>1. /\ Become(l, t) /\ Expect(l, f) /\ listFlags' = listFlags /\ missorted' = missorted
    BY <1>10 DEF ListFilter2
  <2>2. t = FilterOut(State(nodes, list[l], inuse), k)
    BY DEF Here
  <2> HIDE DEF t
  <2>3. OneHolds(list, ks, l, t, e)
    BY <1>1, <2>2, HoldsFiltered
  <2>9. missorted' \/ f = e
    BY <1>1, <2>1
  <2> HIDE DEF e, f
  <2> QED
    BY <1>1, <1>a, <2>1, <2>3, <2>9, BecomesHolds
<1>11. ASSUME NEW k \in ListKeys \cup {Null}, ListCopy(k) PROVE ListInv'
  <2> DEFINE w == Selected(ks[1], ListKeys \ {k})
             t == CopyInto(State(nodes, EmptyList, inuse), 2, w)
             e == MaybeSorted(w)
             x == MaybeSorted(Selected(expected[1], ListKeys \ {k}))
  <2>1. /\ ListIsEmpty(2)
        /\ listFlags.pool \/ Cardinality(inuse) + Len(w) <= HeapNodes
        /\ Become(2, t) /\ Expect(2, x) /\ listFlags' = listFlags /\ missorted' = missorted
    BY <1>2, <1>3, <1>11 DEF ListCopy
  <2>2. w \in Seq(ListKeys) /\ Len(w) <= ListMax
    <3> DEFINE d == ks[1]
    <3>1. d \in Seq(ListKeys) /\ Len(d) \in Nat /\ Len(d) <= ListMax
      BY <1>2, <1>3, ListNumbers
    <3> HIDE DEF d
    <3>2. PICK f : Selects(ListKeys, d, ListKeys \ {k}, f)
      BY <3>1, SelectedIs
    <3>3. Selected(d, ListKeys \ {k}) = f[Len(d)] /\ f[Len(d)] \in Seq(ListKeys) /\ Len(f[Len(d)]) <= Len(d)
      BY <3>1, <3>2 DEF Selects
    <3> DEFINE v == f[Len(d)]
    <3>4. v \in Seq(ListKeys) /\ Len(v) <= Len(d) /\ w = v
      BY <3>3 DEF d
    <3> HIDE DEF v, w
    <3>5. Len(v) <= ListMax
      BY <3>1, <3>4, ListNumbers
    <3> QED
      BY <3>4, <3>5
  <2>9. missorted' \/ x = e
    BY <1>1, <2>1
  <2> HIDE DEF w
  <2>3. list[2].current = 0
    BY <2>1 DEF ListIsEmpty
  <2>4. OneHolds(list, ks, 2, t, e)
    BY <1>1, <1>3, <2>1, <2>2, <2>3, HoldsCopied
  <2> HIDE DEF e, x, t
  <2> QED
    BY <1>1, <1>a, <2>1, <2>4, <2>9, BecomesHolds
<1>12. ASSUME NEW k \in ListKeys, ListFilter(k) PROVE ListInv'
  <2> DEFINE s == [hp |-> nodes, one |-> list[1], two |-> EmptyList, used |-> inuse]
             t == FilterInto(s, k)
             e == <<Selected(ks[1], ListKeys \ {k}), Selected(ks[1], {k})>>
             f == <<Selected(expected[1], ListKeys \ {k}), Selected(expected[1], {k})>>
  <2>1. /\ ListIsEmpty(2)
        /\ Cardinality(inuse) < HeapNodes
        /\ nodes' = t.hp /\ inuse' = t.used /\ list' = <<t.one, t.two>>
        /\ ExpectBoth(f) /\ listFlags' = listFlags /\ missorted' = missorted
    BY <1>12 DEF ListFilter
  <2>2. list[2].current = 0
    BY <2>1 DEF ListIsEmpty
  <2> HIDE DEF s
  <2>3. ListsHold(t.hp, <<t.one, t.two>>, t.used, e)
    BY <1>1, <2>1, <2>2, HoldsSplit DEF s
  <2>4. missorted' \/ e = expected'
    BY <1>1, <2>1 DEF ExpectBoth
  <2> HIDE DEF e, f, t
  <2>5. ListsHold(nodes', list', inuse', e)
    BY <2>1, <2>3
  <2> QED
    BY <1>a, <2>1, <2>4, <2>5, FlagsKept
<1>13. ASSUME NEW i \in 1 .. list[1].current, ListSplice(i) PROVE ListInv'
  <2> DEFINE a == list[1]
             b == list[2]
             n == NodesOf(nodes, list[1])[i]
             behind == n = a.last /\ n # a.first
             before == IF behind THEN n ELSE nodes[n].prev
             after == IF behind THEN Null ELSE n
             g == SplicedAt(nodes, b.first, b.last, before, after)
             lt == <<SplicedList(a, b, n, behind), EmptyList>>
             kt == <<IF behind THEN ks[1] \o ks[2]
                     ELSE SubSeq(ks[1], 1, i - 1) \o ks[2] \o SubSeq(ks[1], i, Len(ks[1])),
                     <<>> >>
             ft == <<IF behind THEN expected[1] \o expected[2]
                     ELSE SubSeq(expected[1], 1, i - 1) \o expected[2] \o SubSeq(expected[1], i, Len(expected[1])),
                     <<>> >>
  <2>1. /\ ~listFlags.pool /\ ~ListIsEmpty(1) /\ ~ListIsEmpty(2) /\ a.current + b.current <= ListMax
        /\ nodes' = [m \in DOMAIN nodes |->
             [next |-> IF m = before THEN b.first ELSE IF m = b.last THEN after ELSE nodes[m].next,
              prev |-> IF m = after THEN b.last ELSE IF m = b.first THEN before ELSE nodes[m].prev,
              data |-> nodes[m].data]]
        /\ list' = lt /\ ExpectBoth(ft) /\ inuse' = inuse /\ listFlags' = listFlags
        /\ missorted' = missorted
    BY <1>13, Zenon DEF ListSplice, SplicedList
  <2>2. DOMAIN nodes = ListNodes
    BY <1>2
  <2>3. nodes' = g
    BY <2>1, <2>2, Zenon DEF SplicedAt
  <2>4. i \in 1 .. Len(ks[1]) /\ Len(ks[2]) # 0 /\ Len(ks[1]) + Len(ks[2]) <= ListMax
    BY <1>2, <1>3, <2>1 DEF ListIsEmpty
  <2> DEFINE h == nodes
             o == behind
  <2>5. ListsHold(g, lt, inuse, kt)
    <3>1. o \in BOOLEAN /\ (o <=> behind)
      OBVIOUS
    <3> HIDE DEF n
    <3>2. n = NodesOf(nodes, list[1])[i]
      BY DEF n
    <3> QED
      BY ONLY <1>1, <2>1, <2>4, <3>2, HoldsSpliced
  <2>7. missorted' \/ kt = expected'
    <3>1. ~missorted => ft = kt
      BY <1>1, Zenon
    <3> HIDE DEF ft, kt
    <3> QED
      BY <2>1, <3>1 DEF ExpectBoth
  <2> HIDE DEF g, lt, kt
  <2>6. ListsHold(nodes', list', inuse', kt)
    BY <2>1, <2>3, <2>5
  <2> QED
    BY <1>a, <2>1, <2>6, <2>7, FlagsKept
<1>14. ASSUME UNCHANGED listVars PROVE ListInv'
  <2>1. nodes' = nodes /\ list' = list /\ inuse' = inuse /\ listFlags' = listFlags /\ expected' = expected
        /\ missorted' = missorted
    BY <1>14 DEF listVars
  <2>2. ListsHold(nodes', list', inuse', ks) /\ (missorted' \/ ks = expected')
    BY <1>1, <2>1
  <2> QED
    BY <1>a, <2>1, <2>2, FlagsKept
<1> QED
  BY <1>4, <1>5, <1>6, <1>7, <1>8, <1>9, <1>10, <1>11, <1>12, <1>13, <1>14 DEF ListNext

\* Each list is linked through distinct nodes of its own, in both directions,
\* whose keys are those the calls so far put there; the nodes of the lists are
\* all the nodes that are taken.
THEOREM ListInvariant == ListSpec => []ListInv
<1>1. ListInit => ListInv
  BY ListInitOk
<1>2. ListInv /\ [ListNext]_listVars => ListInv'
  BY ListStep
<1> QED
  BY <1>1, <1>2, PTL DEF ListSpec

\* Both lists are intact in both directions, no node is lost or shared, and, unless
\* a sort was skipped, they hold what the calls ask for (llist.c and llist_node.c).
THEOREM ListsKept == ListSpec => []ListsIntact
<1>1. ListInv => ListsIntact
  BY HoldsIntact, Zenon DEF ListInv
<1> QED
  BY <1>1, ListInvariant, PTL

GrindSpec == GrindInit /\ [][GrindNext]_grindVars

-----------------------------------------------------------------------------
\* h has the sums of the first n elements of s, for all n.
SumsTo(h, s) == h = [n \in 0 .. Len(s) |-> IF n = 0 THEN 0 ELSE h[n - 1] + s[n]]

\* There are such sums ...
LEMMA SumsExist ==
  ASSUME NEW s \in Seq(Int)
  PROVE  \E h \in [0 .. Len(s) -> Int] : SumsTo(h, s)
<1> DEFINE Upto(n) == \E h \in [0 .. n -> Int] :
                        \A i \in 0 .. n : h[i] = IF i = 0 THEN 0 ELSE h[i - 1] + s[i]
           T == {n \in 0 .. Len(s) : ~Upto(n)}
<1>1. SUFFICES T = {}
  <2>1. PICK h \in [0 .. Len(s) -> Int] :
               \A i \in 0 .. Len(s) : h[i] = IF i = 0 THEN 0 ELSE h[i - 1] + s[i]
    <3>1. Len(s) \notin T /\ Len(s) \in 0 .. Len(s)
      <4>1. Len(s) \in 0 .. Len(s)
        OBVIOUS
      <4> HIDE DEF T
      <4> QED
        BY <1>1, <4>1
    <3>2. Upto(Len(s))
      <4> HIDE DEF Upto
      <4> QED
        BY <3>1
    <3> QED
      BY <3>2
  <2>2. h = [i \in 0 .. Len(s) |-> IF i = 0 THEN 0 ELSE h[i - 1] + s[i]]
    BY <2>1
  <2> QED
    BY <2>2 DEF SumsTo
<1>2. SUFFICES ASSUME T # {} PROVE FALSE
  OBVIOUS
<1>3. PICK m \in T : \A n \in T : m <= n
  <2> HIDE DEF Upto
  <2>1. T \in SUBSET Nat
    OBVIOUS
  <2> HIDE DEF T
  <2> QED
    BY <1>2, <2>1, LeastNumber
<1>4. m # 0
  <2>1. ASSUME m = 0 PROVE Upto(m)
    <3>1. [i \in 0 .. 0 |-> 0] \in [0 .. m -> Int]
      BY <2>1
    <3>2. \A i \in 0 .. m : [j \in 0 .. 0 |-> 0][i] = IF i = 0 THEN 0 ELSE [j \in 0 .. 0 |-> 0][i - 1] + s[i]
      BY <2>1
    <3> QED
      BY <3>1, <3>2
  <2> QED
    BY <2>1
<1>5. m \in 1 .. Len(s) /\ m - 1 \in 0 .. Len(s) /\ ~(m <= m - 1)
  BY <1>4
<1>6. Upto(m - 1)
  <2> HIDE DEF Upto
  <2> QED
    BY <1>3, <1>5
<1>7. PICK h \in [0 .. m - 1 -> Int] :
             \A i \in 0 .. m - 1 : h[i] = IF i = 0 THEN 0 ELSE h[i - 1] + s[i]
  BY <1>6
<1> DEFINE g == [i \in 0 .. m |-> IF i = m THEN h[m - 1] + s[m] ELSE h[i]]
<1>8. s[m] \in Int /\ h[m - 1] \in Int
  BY <1>5
<1>9. g \in [0 .. m -> Int]
  BY <1>5, <1>8
<1>10. ASSUME NEW i \in 0 .. m
       PROVE  g[i] = IF i = 0 THEN 0 ELSE g[i - 1] + s[i]
  <2>1. CASE i = m
    BY <1>5, <2>1
  <2>2. CASE i # m
    <3>1. i \in 0 .. m - 1 /\ g[i] = h[i] /\ (i # 0 => i - 1 \in 0 .. m /\ i - 1 # m)
      BY <1>5, <2>2
    <3> QED
      BY <1>7, <3>1
  <2> QED
    BY <2>1, <2>2
<1>11. Upto(m)
  <2> HIDE DEF g
  <2> QED
    BY <1>9, <1>10
<1> QED
  BY <1>11

\* ... and no others, so that the recursive definition gives them.
LEMMA TotalIs ==
  ASSUME NEW s \in Seq(Int), NEW h \in [0 .. Len(s) -> Int], SumsTo(h, s)
  PROVE  Total(s) = h[Len(s)]
<1> DEFINE f == CHOOSE g : SumsTo(g, s)
           T == {n \in 0 .. Len(s) : f[n] # h[n]}
<1>1. Total(s) = f[Len(s)]
  BY DEF Total, SumsTo
<1>2. SumsTo(f, s)
  OBVIOUS
<1> HIDE DEF f
<1>3. \A n \in 0 .. Len(s) : /\ f[n] = IF n = 0 THEN 0 ELSE f[n - 1] + s[n]
                             /\ h[n] = IF n = 0 THEN 0 ELSE h[n - 1] + s[n]
  BY <1>2 DEF SumsTo
<1>4. SUFFICES ASSUME T # {} PROVE FALSE
  BY <1>1
<1>5. PICK m \in T : \A n \in T : m <= n
  <2>1. T \in SUBSET Nat
    OBVIOUS
  <2> HIDE DEF T
  <2> QED
    BY <1>4, <2>1, LeastNumber
<1>6. m \in 0 .. Len(s) /\ f[m] # h[m]
  OBVIOUS
<1>7. m # 0
  BY <1>3, <1>6
<1>8. m - 1 \in 0 .. Len(s) /\ ~(m <= m - 1)
  BY <1>6, <1>7
<1>9. f[m - 1] = h[m - 1]
  BY <1>5, <1>8
<1> QED
  BY <1>3, <1>6, <1>7, <1>9

\* The sum of no samples, and of one more.
LEMMA TotalOf ==
  /\ Total(<<>>) = 0
  /\ \A s \in Seq(Int), x \in Int : Total(s) \in Int /\ Total(Append(s, x)) = Total(s) + x
<1>1. Total(<<>>) = 0
  <2>1. <<>> \in Seq(Int) /\ Len(<<>>) = 0
    OBVIOUS
  <2>2. PICK h \in [0 .. Len(<<>>) -> Int] : SumsTo(h, <<>>)
    BY <2>1, SumsExist
  <2>3. h[0] = 0
    BY <2>1, <2>2 DEF SumsTo
  <2> QED
    BY <2>1, <2>2, <2>3, TotalIs
<1>2. ASSUME NEW s \in Seq(Int), NEW x \in Int
      PROVE  Total(s) \in Int /\ Total(Append(s, x)) = Total(s) + x
  <2> DEFINE r == Append(s, x)
             n == Len(s)
  <2>1. r \in Seq(Int) /\ Len(r) = n + 1 /\ r[n + 1] = x /\ n \in Nat
        /\ \A i \in 1 .. n : r[i] = s[i]
    OBVIOUS
  <2> HIDE DEF r
  <2>2. PICK h \in [0 .. Len(r) -> Int] : SumsTo(h, r)
    BY <2>1, SumsExist
  <2>3. \A i \in 0 .. n + 1 : h[i] \in Int /\ h[i] = IF i = 0 THEN 0 ELSE h[i - 1] + r[i]
    BY <2>1, <2>2 DEF SumsTo
  <2> DEFINE g == [i \in 0 .. n |-> h[i]]
  <2>4. g \in [0 .. Len(s) -> Int]
    BY <2>1, <2>3
  <2>5. \A i \in 0 .. n : g[i] = IF i = 0 THEN 0 ELSE g[i - 1] + s[i]
    BY <2>1, <2>3
  <2>6. SumsTo(g, s) /\ g[n] = h[n] /\ h[n] \in Int
    <3>1. g = [i \in 0 .. n |-> g[i]]
      OBVIOUS
    <3>2. g[n] = h[n] /\ h[n] \in Int
      BY <2>1, <2>3
    <3> HIDE DEF g
    <3>3. g = [i \in 0 .. n |-> IF i = 0 THEN 0 ELSE g[i - 1] + s[i]]
      BY <2>5, <3>1
    <3> QED
      BY <3>2, <3>3 DEF SumsTo
  <2>7. Total(s) = h[n]
    <3> HIDE DEF g
    <3> QED
      BY <2>4, <2>6, TotalIs
  <2>8. Total(r) = h[n + 1]
    BY <2>1, <2>2, TotalIs
  <2>9. h[n + 1] = h[n] + x
    <3>1. n + 1 \in 0 .. n + 1 /\ n + 1 # 0 /\ n + 1 - 1 = n
      BY <2>1
    <3>2. h[n + 1] = h[n + 1 - 1] + r[n + 1]
      BY <2>3, <3>1
    <3> QED
      BY <2>1, <3>1, <3>2
  <2> QED
    BY <2>6, <2>7, <2>8, <2>9 DEF r
<1> QED
  BY <1>1, <1>2

\* A part of a longer sequence that ends before its last element, or with it.
LEMMA PartOfLonger ==
  ASSUME NEW s \in Seq(Int), NEW x \in Int, NEW m \in 1 .. Len(s) + 1
  PROVE  /\ SubSeq(Append(s, x), m, Len(s) + 1) = Append(SubSeq(s, m, Len(s)), x)
         /\ \A n \in 0 .. Len(s) : SubSeq(Append(s, x), m, n) = SubSeq(s, m, n)
         /\ SubSeq(s, m, Len(s)) \in Seq(Int)
         /\ SubSeq(s, Len(s) + 1, Len(s)) = <<>>
<1>1. SubSeq(s, m, Len(s)) \in Seq(Int)
  OBVIOUS
<1>2. SubSeq(s, Len(s) + 1, Len(s)) = <<>>
  OBVIOUS
<1>3. ASSUME NEW n \in 0 .. Len(s)
      PROVE  SubSeq(Append(s, x), m, n) = SubSeq(s, m, n)
  OBVIOUS
<1>4. SubSeq(Append(s, x), m, Len(s) + 1) = Append(SubSeq(s, m, Len(s)), x)
  <2> DEFINE a == SubSeq(Append(s, x), m, Len(s) + 1)
             b == Append(SubSeq(s, m, Len(s)), x)
  <2> DEFINE n == Len(s) + 2 - m
  <2>1. a \in Seq(Int) /\ b \in Seq(Int) /\ Len(a) = n /\ Len(b) = n /\ n \in Nat
    OBVIOUS
  <2>2. ASSUME NEW i \in 1 .. n PROVE a[i] = b[i]
    OBVIOUS
  <2> HIDE DEF a, b, n
  <2> QED
    BY <2>1, <2>2, SeqEqual
<1> QED
  BY <1>1, <1>2, <1>3, <1>4

-----------------------------------------------------------------------------
GrindeeRecords ==
  [count : Nat, table : Seq(Int), full : BOOLEAN, accum : Int, active : BOOLEAN,
   start : Int, first : BOOLEAN, samples : Seq(Int), since : Int, carried : Int]

Grinders ==
  [mode : GrindModes, flags : SUBSET GrindFlags, avail : BOOLEAN, in_interval : BOOLEAN,
   interval_start : Int, grindees : [Grindees -> GrindeeRecords]]

\* The samples of datapoint k, and those that wait for the next one.
SamplesOf(it, k) == SubSeq(it.samples, Res * (k - 1) + 1, Res * k)
Waiting(it) == SubSeq(it.samples, Res * Len(it.table) + 1, Len(it.samples))

\* Every datapoint is the average of its own samples, and `accum` the sum of
\* those that wait; what a reset left in `accum` is in whichever comes first.
Sums(it) ==
  /\ \A k \in DOMAIN it.table :
       it.table[k] = (Total(SamplesOf(it, k)) + IF k = 1 THEN it.carried ELSE 0) \div Res
  /\ it.accum = Total(Waiting(it)) + IF it.table = <<>> THEN it.carried ELSE 0

Counts(it) ==
  /\ it.count < Res
  /\ Len(it.samples) = Res * Len(it.table) + it.count
  /\ Len(it.table) <= Datapoints
  /\ it.full <=> Len(it.table) = Datapoints

GrindeeInv(it, mode, now) ==
  /\ Counts(it)
  /\ mode # "count" => Sums(it)
  /\ it.samples # <<>> => it.since <= now

\* What every step of a capture keeps ...
GrinderInv(gr) ==
  gr \in Grinders /\ \A g \in Grindees : GrindeeInv(gr.grindees[g], gr.mode, clock)

\* ... and what its housekeeping establishes.
InInterval(gr) ==
  Cyclic(gr) => \A g \in Grindees :
                  gr.grindees[g].samples # <<>> =>
                    gr.grindees[g].since - gr.interval_start < Interval

GrindInv == clock \in Int /\ GrinderInv(grinder) /\ InInterval(grinder)

-----------------------------------------------------------------------------
\* A grindee that is emptied: what it has accumulated is carried over.
LEMMA Emptied ==
  ASSUME NEW to \in GrindeeRecords, NEW mode, NEW now,
         to.count = 0, to.table = <<>>, to.full = FALSE, to.samples = <<>>,
         to.accum = to.carried
  PROVE  GrindeeInv(to, mode, now)
<1>1. Len(to.table) = 0 /\ Len(to.samples) = 0 /\ DOMAIN to.table = {}
  OBVIOUS
<1>2. Res * 0 + 0 = 0 /\ 0 < Res /\ 0 <= Datapoints /\ Datapoints # 0 /\ Res * 0 + 1 = 1
  BY GrindAssumption
<1>3. Counts(to)
  BY <1>1, <1>2 DEF Counts
<1>4. Waiting(to) = <<>>
  BY <1>1, <1>2 DEF Waiting
<1>5. Sums(to)
  BY <1>1, <1>4, TotalOf DEF Sums, GrindeeRecords
<1> QED
  BY <1>3, <1>5 DEF GrindeeInv

\* grind_reset, and grind_reset_all.
LEMMA ResetKeeps ==
  ASSUME NEW gr, GrinderInv(gr), NEW g \in Grindees
  PROVE  /\ GrinderInv(Reset(gr, g))
         /\ Reset(gr, g).mode = gr.mode /\ Reset(gr, g).flags = gr.flags
         /\ Reset(gr, g).interval_start = gr.interval_start
         /\ Reset(gr, g).grindees[g].samples = <<>> /\ Reset(gr, g).grindees[g].full = FALSE
         /\ \A h \in Grindees : h # g => Reset(gr, g).grindees[h] = gr.grindees[h]
<1> DEFINE old == gr.grindees[g]
           to  == [old EXCEPT !.table = <<>>, !.count = 0, !.full = FALSE,
                 !.first = gr.mode = "period",
                 !.start = IF gr.mode = "period" THEN 0 ELSE @,
                 !.samples = <<>>, !.since = 0, !.carried = old.accum]
           new == Reset(gr, g)
<1>1. gr \in Grinders /\ old \in GrindeeRecords
  BY DEF GrinderInv, Grinders
<1>2. to \in GrindeeRecords
  <2> DEFINE p == gr.mode = "period"
             q == IF p THEN 0 ELSE old.start
  <2>1. to = [old EXCEPT !.table = <<>>, !.count = 0, !.full = FALSE, !.first = p, !.start = q,
                         !.samples = <<>>, !.since = 0, !.carried = old.accum]
    BY <1>1 DEF GrindeeRecords
  <2>2. p \in BOOLEAN /\ q \in Int /\ <<>> \in Seq(Int) /\ 0 \in Nat /\ 0 \in Int
    BY <1>1 DEF GrindeeRecords
  <2> HIDE DEF old, to, p, q
  <2> QED
    BY <1>1, <2>1, <2>2 DEF GrindeeRecords
<1>3. /\ to.count = 0 /\ to.table = <<>> /\ to.full = FALSE /\ to.samples = <<>>
      /\ to.accum = to.carried
  <2> HIDE DEF old
  <2> QED
    BY <1>1 DEF GrindeeRecords
<1>4. new = [gr EXCEPT !.grindees[g] = to]
  BY DEF Reset
<1> HIDE DEF old, to
<1>5. /\ new \in Grinders /\ new.mode = gr.mode /\ new.flags = gr.flags
      /\ new.interval_start = gr.interval_start
      /\ new.grindees[g] = to
      /\ \A h \in Grindees : h # g => new.grindees[h] = gr.grindees[h]
  <2> HIDE DEF new
  <2> QED
    BY <1>1, <1>2, <1>4 DEF Grinders
<1> HIDE DEF new
<1>6. GrindeeInv(to, gr.mode, clock)
  BY <1>1, <1>2, <1>3, Emptied
<1>7. GrinderInv(new)
  BY <1>5, <1>6 DEF GrinderInv
<1> QED
  BY <1>3, <1>5, <1>7 DEF new

\* Emptying all of them at once, which also ends the interval.
LEMMA ResetAllKeeps ==
  ASSUME NEW gr, GrinderInv(gr)
  PROVE  GrinderInv(ResetAll(gr)) /\ InInterval(ResetAll(gr))
<1> DEFINE all == [g \in Grindees |-> Reset(gr, g).grindees[g]]
           new == ResetAll(gr)
<1>1. ASSUME NEW g \in Grindees
      PROVE  /\ Reset(gr, g).grindees[g] \in GrindeeRecords
             /\ GrindeeInv(Reset(gr, g).grindees[g], gr.mode, clock)
             /\ Reset(gr, g).grindees[g].samples = <<>>
  <2>1. GrinderInv(Reset(gr, g)) /\ Reset(gr, g).mode = gr.mode
    BY ResetKeeps
  <2>2. Reset(gr, g).grindees[g].samples = <<>>
    BY ResetKeeps
  <2> QED
    BY <2>1, <2>2 DEF GrinderInv, Grinders
<1>2. gr \in Grinders
  BY DEF GrinderInv
<1>3. new = [gr EXCEPT !.grindees = all, !.in_interval = FALSE]
  BY DEF ResetAll
<1>4. all \in [Grindees -> GrindeeRecords]
  BY <1>1
<1>5. \A g \in Grindees : GrindeeInv(all[g], gr.mode, clock) /\ all[g].samples = <<>>
  BY <1>1
<1> HIDE DEF all, new
<1>6. new \in Grinders /\ new.mode = gr.mode /\ new.grindees = all
  BY <1>2, <1>3, <1>4 DEF Grinders
<1>7. GrinderInv(new) /\ InInterval(new)
  BY <1>5, <1>6 DEF GrinderInv, InInterval
<1> QED
  BY <1>7 DEF new

\* The look at the interval: what is kept was sampled before now, which is
\* before the end.
LEMMA ResetIfOverKeeps ==
  ASSUME NEW gr, GrinderInv(gr), clock \in Int
  PROVE  GrinderInv(ResetIfOver(gr)) /\ InInterval(ResetIfOver(gr))
<1>1. CASE Cyclic(gr) /\ clock - gr.interval_start >= Interval
  <2>1. ResetIfOver(gr) = ResetAll(gr)
    BY <1>1 DEF ResetIfOver
  <2> QED
    BY <2>1, ResetAllKeeps
<1>2. CASE ~(Cyclic(gr) /\ clock - gr.interval_start >= Interval)
  <2>1. ResetIfOver(gr) = gr
    BY <1>2 DEF ResetIfOver
  <2>2. ASSUME Cyclic(gr), NEW g \in Grindees, gr.grindees[g].samples # <<>>
        PROVE  gr.grindees[g].since - gr.interval_start < Interval
    <3>1. gr.interval_start \in Int /\ gr.grindees[g].since \in Int /\ Interval \in Int
      BY GrindAssumption DEF GrinderInv, Grinders, GrindeeRecords
    <3>2. gr.grindees[g].since <= clock
      BY <2>2 DEF GrinderInv, GrindeeInv
    <3>3. ~(clock - gr.interval_start >= Interval)
      BY <1>2, <2>2
    <3> QED
      BY <3>1, <3>2, <3>3
  <2> QED
    BY <2>1, <2>2 DEF InInterval
<1> QED
  BY <1>1, <1>2

-----------------------------------------------------------------------------
\* Where the samples of the datapoints lie.
LEMMA SampleBlocks ==
  ASSUME NEW n \in Nat
  PROVE  /\ Res * n \in Nat /\ Res * (n + 1) = Res * n + Res
         /\ \A k \in 1 .. n : /\ Res * (k - 1) \in Nat /\ Res * k \in Nat
                              /\ Res * (k - 1) <= Res * n /\ Res * k <= Res * n
<1>1. Res \in Nat /\ Res > 0
  BY GrindAssumption
<1>2. Res * n \in Nat /\ Res * (n + 1) = Res * n + Res
  BY <1>1
<1>3. ASSUME NEW k \in 1 .. n
      PROVE  /\ Res * (k - 1) \in Nat /\ Res * k \in Nat
             /\ Res * (k - 1) <= Res * n /\ Res * k <= Res * n
  <2>1. k \in Nat /\ k - 1 \in Nat /\ n - k \in Nat /\ n - (k - 1) \in Nat
    OBVIOUS
  <2>2. Res * (n - k) \in Nat /\ Res * (n - (k - 1)) \in Nat /\ Res * k \in Nat /\ Res * (k - 1) \in Nat
    BY <1>1, <2>1
  <2>3. Res * n = Res * k + Res * (n - k) /\ Res * n = Res * (k - 1) + Res * (n - (k - 1))
    BY <1>1, <2>1
  <2> QED
    BY <1>2, <2>2, <2>3
<1> QED
  BY <1>2, <1>3

\* What a sample changes in what the datapoints are made of.
LEMMA SampleAdded ==
  ASSUME NEW it \in GrindeeRecords, Counts(it), NEW x \in Int,
         NEW one \in GrindeeRecords, one.table = it.table, one.samples = Append(it.samples, x)
  PROVE  /\ Waiting(one) = Append(Waiting(it), x) /\ Waiting(it) \in Seq(Int)
         /\ \A k \in DOMAIN it.table : SamplesOf(one, k) = SamplesOf(it, k)
         /\ Len(one.samples) = Res * Len(it.table) + (it.count + 1)
<1> DEFINE s == it.samples
           n == Len(it.table)
           b == Res * n
<1>1. s \in Seq(Int) /\ n \in Nat /\ it.count \in Nat /\ DOMAIN it.table = 1 .. n
  BY DEF GrindeeRecords
<1>2. b \in Nat /\ Len(s) = b + it.count
  BY <1>1, SampleBlocks DEF Counts
<1>3. Waiting(it) = SubSeq(s, b + 1, Len(s)) /\ Waiting(one) = SubSeq(Append(s, x), b + 1, Len(s) + 1)
  <2>1. Len(Append(s, x)) = Len(s) + 1
    BY <1>1
  <2> QED
    BY <2>1 DEF Waiting
<1>4. \A k \in 1 .. n : /\ SamplesOf(it, k) = SubSeq(s, Res * (k - 1) + 1, Res * k)
                        /\ SamplesOf(one, k) = SubSeq(Append(s, x), Res * (k - 1) + 1, Res * k)
  BY DEF SamplesOf
<1>5. \A k \in 1 .. n : /\ Res * (k - 1) \in Nat /\ Res * k \in Nat
                        /\ Res * (k - 1) <= b /\ Res * k <= b
  BY <1>1, SampleBlocks
<1>6. Len(one.samples) = b + (it.count + 1)
  <2>1. Len(one.samples) = Len(s) + 1
    BY <1>1
  <2> HIDE DEF s, b
  <2> QED
    BY <1>1, <1>2, <2>1
<1> HIDE DEF s, n, b
<1>7. b + 1 \in 1 .. Len(s) + 1
  BY <1>1, <1>2
<1>8. Waiting(one) = Append(Waiting(it), x) /\ Waiting(it) \in Seq(Int)
  BY <1>1, <1>3, <1>7, PartOfLonger
<1>9. ASSUME NEW k \in 1 .. n PROVE SamplesOf(one, k) = SamplesOf(it, k)
  <2> DEFINE l == Res * (k - 1)
             r == Res * k
  <2>1. /\ l \in Nat /\ r \in Nat /\ l <= b /\ r <= b
        /\ SamplesOf(it, k) = SubSeq(s, l + 1, r) /\ SamplesOf(one, k) = SubSeq(Append(s, x), l + 1, r)
    BY <1>4, <1>5
  <2> HIDE DEF l, r
  <2>2. l + 1 \in 1 .. Len(s) + 1 /\ r \in 0 .. Len(s)
    <3>1. Len(s) \in Nat /\ b <= Len(s)
      BY <1>1, <1>2
    <3>2. l \in Nat /\ r \in Nat /\ l <= b /\ r <= b /\ b \in Nat
      BY <1>2, <2>1
    <3> QED
      BY <3>1, <3>2
  <2> QED
    BY <1>1, <2>1, <2>2, PartOfLonger
<1> QED
  BY <1>1, <1>6, <1>8, <1>9 DEF n, b

\* The samples of a datapoint add up to an integer.
LEMMA SamplesAdd ==
  ASSUME NEW it \in GrindeeRecords, Counts(it), NEW k \in DOMAIN it.table
  PROVE  Total(SamplesOf(it, k)) \in Int
<1> DEFINE s == it.samples
           n == Len(it.table)
           l == Res * (k - 1)
           r == Res * k
<1>1. s \in Seq(Int) /\ n \in Nat /\ it.count \in Nat /\ k \in 1 .. n
  BY DEF GrindeeRecords
<1>2. Res * n \in Nat /\ Len(s) = Res * n + it.count
  BY <1>1, SampleBlocks DEF Counts
<1>3. l \in Nat /\ r \in Nat /\ l <= Res * n /\ r <= Res * n
  BY <1>1, SampleBlocks
<1>4. SamplesOf(it, k) = SubSeq(s, l + 1, r)
  BY DEF SamplesOf
<1> HIDE DEF s, l, r
<1>5. l + 1 \in 1 .. Len(s) + 1 /\ r \in 0 .. Len(s)
  BY <1>1, <1>2, <1>3
<1>6. SubSeq(s, l + 1, r) \in Seq(Int)
  <2> DEFINE m == l + 1
  <2>1. Len(s) \in Nat /\ m \in Nat /\ m >= 1 /\ r \in Nat /\ r <= Len(s)
    BY <1>1, <1>5
  <2> HIDE DEF m
  <2>2. \A i \in m .. r : i \in 1 .. Len(s)
    BY <2>1
  <2>3. SubSeq(s, m, r) \in Seq(Int)
    BY <1>1, <2>1, <2>2
  <2> QED
    BY <2>3 DEF m
<1>7. \A t \in Seq(Int), x \in Int : Total(t) \in Int
  BY ONLY TotalOf
<1>8. 0 \in Int
  OBVIOUS
<1> QED
  BY ONLY <1>4, <1>6, <1>7, <1>8

\* A sample that is not the last of a datapoint.
LEMMA OneSample ==
  ASSUME NEW it \in GrindeeRecords, NEW mode, GrindeeInv(it, mode, clock), clock \in Int,
         NEW x \in Int, NEW one \in GrindeeRecords,
         one.table = it.table, one.samples = Append(it.samples, x), one.full = it.full,
         one.count = it.count + 1, one.accum = it.accum + x, one.carried = it.carried,
         one.since <= clock, one.count < Res
  PROVE  GrindeeInv(one, mode, clock)
<1>1. Counts(it)
  BY DEF GrindeeInv
<1>2. /\ Waiting(one) = Append(Waiting(it), x) /\ Waiting(it) \in Seq(Int)
      /\ \A k \in DOMAIN it.table : SamplesOf(one, k) = SamplesOf(it, k)
      /\ Len(one.samples) = Res * Len(it.table) + (it.count + 1)
  BY <1>1, SampleAdded
<1>3. Counts(one)
  BY <1>1, <1>2 DEF Counts
<1>4. ASSUME Sums(it) PROVE Sums(one)
  <2>1. Total(Waiting(one)) = Total(Waiting(it)) + x /\ Total(Waiting(it)) \in Int
    BY <1>2, TotalOf
  <2>2. /\ it.accum = Total(Waiting(it)) + IF it.table = <<>> THEN it.carried ELSE 0
        /\ it.carried \in Int
    BY <1>4 DEF Sums, GrindeeRecords
  <2>3. one.accum = Total(Waiting(one)) + IF one.table = <<>> THEN one.carried ELSE 0
    BY <2>1, <2>2
  <2>4. \A k \in DOMAIN one.table :
          one.table[k] = (Total(SamplesOf(one, k)) + IF k = 1 THEN one.carried ELSE 0) \div Res
    BY <1>2, <1>4 DEF Sums
  <2> QED
    BY <2>3, <2>4 DEF Sums
<1> QED
  BY <1>3, <1>4 DEF GrindeeInv

\* The last one: the datapoint is the average of those that waited.
LEMMA LastSample ==
  ASSUME NEW it \in GrindeeRecords, NEW mode, GrindeeInv(it, mode, clock), clock \in Int,
         ~it.full, NEW x \in Int, NEW v \in Int, NEW two \in GrindeeRecords,
         it.count + 1 = Res, mode # "count" => v = (it.accum + x) \div Res,
         two.table = Append(it.table, v), two.samples = Append(it.samples, x),
         two.full = (Len(it.table) + 1 = Datapoints),
         two.count = 0, two.accum = 0, two.carried = it.carried, two.since <= clock
  PROVE  GrindeeInv(two, mode, clock)
<1> DEFINE one == [two EXCEPT !.table = it.table]
           n == Len(it.table)
<1>1. Counts(it)
  BY DEF GrindeeInv
<1>2. one \in GrindeeRecords /\ one.table = it.table /\ one.samples = Append(it.samples, x)
  BY DEF GrindeeRecords
<1>3. n \in Nat /\ DOMAIN it.table = 1 .. n /\ it.table \in Seq(Int)
  BY DEF GrindeeRecords
<1>4. /\ Len(two.table) = n + 1 /\ DOMAIN two.table = 1 .. n + 1 /\ two.table # <<>>
      /\ \A k \in 1 .. n : two.table[k] = it.table[k]
      /\ two.table[n + 1] = v
  BY <1>3
<1> HIDE DEF one
<1>5. /\ Waiting(one) = Append(Waiting(it), x) /\ Waiting(it) \in Seq(Int)
      /\ \A k \in DOMAIN it.table : SamplesOf(one, k) = SamplesOf(it, k)
      /\ Len(one.samples) = Res * n + (it.count + 1)
  BY <1>1, <1>2, SampleAdded
<1>6. Res * n \in Nat /\ Res * (n + 1) = Res * n + Res /\ Res \in Nat /\ Res > 0
  <2>1. n \in Nat
    BY <1>3
  <2> HIDE DEF n
  <2> QED
    BY ONLY <2>1, SampleBlocks, GrindAssumption
<1>7. Len(two.samples) = Res * (n + 1) /\ Len(one.samples) = Res * (n + 1)
  BY <1>2, <1>5, <1>6
<1>8. Counts(two)
  <2>1. n <= Datapoints /\ n # Datapoints /\ Datapoints \in Nat
    BY <1>1, GrindAssumption DEF Counts
  <2> DEFINE m == Res * (n + 1)
  <2>2. m \in Nat /\ Len(two.samples) = m /\ Len(two.table) = n + 1
    BY <1>4, <1>6, <1>7
  <2>3. Res * Len(two.table) + two.count = m
    <3>1. m + 0 = m
      BY <2>2
    <3> QED
      BY <2>2, <3>1
  <2>4. n + 1 <= Datapoints
    BY <1>3, <2>1
  <2> HIDE DEF m
  <2> QED
    BY <1>6, <2>2, <2>3, <2>4 DEF Counts
<1>9. SamplesOf(two, n + 1) = Waiting(one) /\ \A k \in 1 .. n : SamplesOf(two, k) = SamplesOf(it, k)
  <2>1. n + 1 - 1 = n /\ one.samples = two.samples
    BY <1>2, <1>3
  <2>2. SamplesOf(two, n + 1) = SubSeq(two.samples, Res * n + 1, Res * (n + 1))
    <3> DEFINE y == n + 1
    <3>1. SamplesOf(two, y) = SubSeq(two.samples, Res * (y - 1) + 1, Res * y)
      BY DEF SamplesOf
    <3>2. y - 1 = n
      BY <1>3
    <3> HIDE DEF y
    <3>3. SamplesOf(two, y) = SubSeq(two.samples, Res * n + 1, Res * y)
      BY <3>1, <3>2
    <3> QED
      BY <3>3 DEF y
  <2>3. Waiting(one) = SubSeq(two.samples, Res * n + 1, Res * (n + 1))
    BY <1>2, <1>7, <2>1 DEF Waiting
  <2>4. \A k \in 1 .. n : SamplesOf(two, k) = SamplesOf(one, k)
    BY <2>1 DEF SamplesOf
  <2> QED
    BY <1>3, <1>5, <2>2, <2>3, <2>4
<1>10. Waiting(two) = <<>>
  <2>1. Waiting(two) = SubSeq(two.samples, Len(two.samples) + 1, Len(two.samples))
    BY <1>4, <1>7 DEF Waiting
  <2>2. two.samples \in Seq(Int) /\ 1 \in 1 .. Len(two.samples) + 1
    BY DEF GrindeeRecords
  <2> QED
    BY <2>1, <2>2, PartOfLonger
<1>11. ASSUME Sums(it), mode # "count" PROVE Sums(two)
  <2>1. Total(Waiting(one)) = Total(Waiting(it)) + x /\ Total(Waiting(it)) \in Int
    BY <1>5, TotalOf
  <2>2. /\ it.accum = Total(Waiting(it)) + IF it.table = <<>> THEN it.carried ELSE 0
        /\ it.carried \in Int
    BY <1>11 DEF Sums, GrindeeRecords
  <2>3. it.table = <<>> <=> n + 1 = 1
    BY <1>3
  <2>4. it.accum + x = Total(Waiting(one)) + IF n + 1 = 1 THEN two.carried ELSE 0
    BY <2>1, <2>2, <2>3
  <2>5. two.table[n + 1]
          = (Total(SamplesOf(two, n + 1)) + IF n + 1 = 1 THEN two.carried ELSE 0) \div Res
    BY <1>4, <1>9, <1>11, <2>4
  <2>6. \A k \in 1 .. n :
          two.table[k] = (Total(SamplesOf(two, k)) + IF k = 1 THEN two.carried ELSE 0) \div Res
    BY <1>3, <1>4, <1>9, <1>11 DEF Sums
  <2>7. \A k \in 1 .. n + 1 : k \in 1 .. n \/ k = n + 1
    BY <1>3
  <2>8. \A k \in DOMAIN two.table :
          two.table[k] = (Total(SamplesOf(two, k)) + IF k = 1 THEN two.carried ELSE 0) \div Res
    BY <1>4, <2>5, <2>6, <2>7
  <2>9. two.accum = Total(Waiting(two)) + IF two.table = <<>> THEN two.carried ELSE 0
    BY <1>4, <1>10, TotalOf
  <2> QED
    BY <2>8, <2>9 DEF Sums
<1> QED
  BY <1>8, <1>11 DEF GrindeeInv

-----------------------------------------------------------------------------
\* A grindee replaced by one that is as good.
LEMMA OneReplaced ==
  ASSUME NEW gr, GrinderInv(gr), NEW g \in Grindees, NEW to \in GrindeeRecords,
         GrindeeInv(to, gr.mode, clock), NEW avail \in BOOLEAN
  PROVE  GrinderInv([gr EXCEPT !.grindees[g] = to, !.avail = avail])
<1> DEFINE new == [gr EXCEPT !.grindees[g] = to, !.avail = avail]
<1>1. gr \in Grinders
  BY DEF GrinderInv
<1>2. /\ new \in Grinders /\ new.mode = gr.mode
      /\ \A h \in Grindees : new.grindees[h] = IF h = g THEN to ELSE gr.grindees[h]
  BY <1>1 DEF Grinders
<1> HIDE DEF new
<1>3. GrinderInv(new)
  BY <1>2 DEF GrinderInv
<1> QED
  BY <1>3 DEF new

\* The part the three captures share.
LEMMA AddSampleKeeps ==
  ASSUME NEW gr, GrinderInv(gr), NEW g \in Grindees, ~gr.grindees[g].full, NEW x \in Int,
         clock \in Int
  PROVE  GrinderInv(AddSample(gr, g, x))
<1> DEFINE old == gr.grindees[g]
           since == IF old.samples = <<>> THEN clock ELSE old.since
           one == [old EXCEPT !.accum = @ + x, !.count = @ + 1,
                              !.samples = Append(@, x),
                              !.since = IF old.samples = <<>> THEN clock ELSE @]
           v == IF gr.mode = "count" THEN 1 ELSE one.accum \div Res
           full == Len(one.table) + 1 = Datapoints
           two == [one EXCEPT !.table = Append(@, v), !.count = 0, !.accum = 0, !.full = full]
           new == AddSample(gr, g, x)
<1>1. gr \in Grinders /\ old \in GrindeeRecords /\ GrindeeInv(old, gr.mode, clock) /\ ~old.full
  BY DEF GrinderInv, Grinders
<1>2. gr.avail \in BOOLEAN /\ full \in BOOLEAN
  BY <1>1 DEF Grinders
<1>3. new = IF one.count < Res THEN [gr EXCEPT !.grindees[g] = one]
            ELSE [gr EXCEPT !.grindees[g] = two, !.avail = gr.avail \/ full]
  <2>1. gr \in [mode : GrindModes, flags : SUBSET GrindFlags, avail : BOOLEAN, in_interval : BOOLEAN,
                interval_start : Int, grindees : [Grindees -> GrindeeRecords]]
    BY <1>1 DEF Grinders
  <2> QED
    BY <2>1 DEF AddSample
<1> HIDE DEF new, full
<1>4. since \in Int /\ since <= clock
  BY <1>1 DEF GrindeeInv, GrindeeRecords
<1>5. one = [old EXCEPT !.accum = old.accum + x, !.count = old.count + 1,
                        !.samples = Append(old.samples, x), !.since = since]
  BY <1>1 DEF GrindeeRecords
<1> HIDE DEF old, since, one
<1>6. /\ one \in GrindeeRecords /\ one.table = old.table /\ one.samples = Append(old.samples, x)
      /\ one.full = old.full /\ one.count = old.count + 1 /\ one.accum = old.accum + x
      /\ one.carried = old.carried /\ one.since <= clock
  <2> DEFINE a == old.accum + x
             c == old.count + 1
             r == Append(old.samples, x)
  <2>1. a \in Int /\ c \in Nat /\ r \in Seq(Int)
    BY <1>1 DEF GrindeeRecords
  <2>2. one = [old EXCEPT !.accum = a, !.count = c, !.samples = r, !.since = since]
    BY <1>5
  <2> HIDE DEF a, c, r
  <2>3. /\ one \in GrindeeRecords /\ one.table = old.table /\ one.samples = r
        /\ one.full = old.full /\ one.count = c /\ one.accum = a
        /\ one.carried = old.carried /\ one.since = since
    BY <1>1, <1>4, <2>1, <2>2 DEF GrindeeRecords
  <2> QED
    BY <1>4, <2>3 DEF a, c, r
<1>7. CASE one.count < Res
  <2>1. GrindeeInv(one, gr.mode, clock)
    BY <1>1, <1>6, <1>7, OneSample
  <2>2. GrinderInv([gr EXCEPT !.grindees[g] = one, !.avail = gr.avail])
    BY <1>2, <1>6, <2>1, OneReplaced
  <2>3. [gr EXCEPT !.grindees[g] = one, !.avail = gr.avail] = [gr EXCEPT !.grindees[g] = one]
    BY <1>1 DEF Grinders
  <2> QED
    BY <1>3, <1>7, <2>2, <2>3 DEF new
<1>8. CASE ~(one.count < Res)
  <2>1. old.count + 1 = Res
    <3>1. old.count < Res /\ old.count \in Nat /\ Res \in Nat
      BY <1>1, GrindAssumption DEF GrindeeInv, Counts, GrindeeRecords
    <3> QED
      BY <1>6, <1>8, <3>1
  <2>2. v \in Int /\ (gr.mode # "count" => v = (old.accum + x) \div Res)
    <3>1. one.accum \in Int /\ Res \in Nat \ {0}
      BY <1>6, GrindAssumption DEF GrindeeRecords
    <3>2. one.accum \div Res \in Int
      BY <3>1
    <3> QED
      BY <1>6, <3>2
  <2> HIDE DEF v
  <2>3. /\ two \in GrindeeRecords /\ two.table = Append(old.table, v)
        /\ two.samples = Append(old.samples, x) /\ two.full = full
        /\ two.count = 0 /\ two.accum = 0 /\ two.carried = old.carried /\ two.since <= clock
    <3> DEFINE b == Append(one.table, v)
    <3>1. two = [one EXCEPT !.table = b, !.count = 0, !.accum = 0, !.full = full]
      BY <1>6 DEF GrindeeRecords
    <3>2. b \in Seq(Int) /\ 0 \in Nat /\ 0 \in Int
      BY <1>6, <2>2 DEF GrindeeRecords
    <3>3. b = Append(old.table, v)
      BY <1>6
    <3> HIDE DEF b, two
    <3>4. /\ two \in GrindeeRecords /\ two.table = b /\ two.samples = one.samples
          /\ two.full = full /\ two.count = 0 /\ two.accum = 0 /\ two.carried = one.carried
          /\ two.since = one.since
      BY <1>2, <1>6, <3>1, <3>2 DEF GrindeeRecords
    <3> QED
      BY <1>6, <3>3, <3>4
  <2>4. full = (Len(old.table) + 1 = Datapoints)
    BY <1>6 DEF full
  <2> HIDE DEF two
  <2>5. GrindeeInv(two, gr.mode, clock)
    BY <1>1, <2>1, <2>2, <2>3, <2>4, LastSample
  <2>6. (gr.avail \/ full) \in BOOLEAN
    OBVIOUS
  <2>7. GrinderInv([gr EXCEPT !.grindees[g] = two, !.avail = gr.avail \/ full])
    BY <2>3, <2>5, <2>6, OneReplaced
  <2> QED
    BY <1>3, <1>8, <2>7 DEF new
<1> QED
  BY <1>7, <1>8

\* grind_housekeeping_pre_capture: a full grindee is emptied, an interval
\* begins or ends.
LEMMA PreCaptureKeeps ==
  ASSUME NEW gr, GrinderInv(gr), NEW g \in Grindees, clock \in Int
  PROVE  GrinderInv(PreCapture(gr, g)) /\ InInterval(PreCapture(gr, g))
<1> DEFINE emptied == IF gr.grindees[g].full THEN Reset(gr, g) ELSE gr
           begun == IF "interval" \in gr.flags /\ ~emptied.in_interval
                    THEN [emptied EXCEPT !.interval_start = clock, !.in_interval = TRUE]
                    ELSE emptied
<1>1. GrinderInv(emptied)
  BY ResetKeeps
<1> HIDE DEF emptied
<1>2. GrinderInv(begun)
  <2>1. CASE begun = emptied
    BY <1>1, <2>1
  <2>2. CASE begun = [emptied EXCEPT !.interval_start = clock, !.in_interval = TRUE]
    <3>1. emptied \in Grinders
      BY <1>1 DEF GrinderInv
    <3> HIDE DEF begun
    <3>2. begun \in Grinders /\ begun.mode = emptied.mode /\ begun.grindees = emptied.grindees
      BY <2>2, <3>1 DEF Grinders
    <3> QED
      BY <1>1, <3>2 DEF GrinderInv
  <2> QED
    BY <2>1, <2>2
<1>3. PreCapture(gr, g) = ResetIfOver(begun)
  BY DEF PreCapture, emptied
<1> HIDE DEF begun
<1> QED
  BY <1>2, <1>3, ResetIfOverKeeps

\* grind_report
LEMMA ReportKeeps ==
  ASSUME NEW gr, GrinderInv(gr), NEW g \in Grindees
  PROVE  /\ GrinderInv(Report(gr, g)) /\ Report(gr, g).mode = gr.mode
         /\ InInterval(gr) => InInterval(Report(gr, g))
<1>1. GrinderInv(Reset(gr, g)) /\ Reset(gr, g).mode = gr.mode
  BY ResetKeeps
<1>2. ASSUME InInterval(gr) PROVE InInterval(Reset(gr, g))
  <2> DEFINE new == Reset(gr, g)
  <2>1. /\ new.flags = gr.flags /\ new.interval_start = gr.interval_start
        /\ new.grindees[g].samples = <<>>
        /\ \A h \in Grindees : h # g => new.grindees[h] = gr.grindees[h]
    BY ResetKeeps
  <2> HIDE DEF new
  <2>2. InInterval(new)
    BY <1>2, <2>1 DEF InInterval, Cyclic
  <2> QED
    BY <2>2 DEF new
<1> QED
  BY <1>1, <1>2 DEF Report

\* grind_housekeeping_post_capture
LEMMA PostCaptureKeeps ==
  ASSUME NEW gr, GrinderInv(gr), NEW g \in Grindees, clock \in Int
  PROVE  GrinderInv(PostCapture(gr, g)) /\ InInterval(PostCapture(gr, g))
<1> DEFINE told == IF gr.grindees[g].full /\ "report_auto" \in gr.flags THEN Report(gr, g) ELSE gr
           ended == IF gr.mode = "duration" THEN [told EXCEPT !.grindees[g].active = FALSE] ELSE told
<1>1. GrinderInv(told)
  BY ReportKeeps
<1>2. PostCapture(gr, g) = ResetIfOver(ended)
  BY DEF PostCapture
<1> HIDE DEF told
<1>3. GrinderInv([told EXCEPT !.grindees[g].active = FALSE])
  <2> DEFINE old == told.grindees[g]
             to == [old EXCEPT !.active = FALSE]
  <2>1. told \in Grinders /\ old \in GrindeeRecords /\ GrindeeInv(old, told.mode, clock)
        /\ told.avail \in BOOLEAN
    BY <1>1 DEF GrinderInv, Grinders
  <2>2. [told EXCEPT !.grindees[g].active = FALSE]
          = [told EXCEPT !.grindees[g] = to, !.avail = told.avail]
    BY <2>1 DEF Grinders
  <2> HIDE DEF old
  <2>3. /\ to \in GrindeeRecords /\ to.count = old.count /\ to.table = old.table
        /\ to.full = old.full /\ to.accum = old.accum /\ to.samples = old.samples
        /\ to.since = old.since /\ to.carried = old.carried
    BY <2>1 DEF GrindeeRecords
  <2> HIDE DEF to
  <2>4. GrindeeInv(to, told.mode, clock)
    BY <2>1, <2>3 DEF GrindeeInv, Counts, Sums, Waiting, SamplesOf
  <2>5. GrinderInv([told EXCEPT !.grindees[g] = to, !.avail = told.avail])
    BY <1>1, <2>1, <2>3, <2>4, OneReplaced
  <2> QED
    BY <2>2, <2>5
<1>4. GrinderInv(ended)
  BY <1>1, <1>3
<1> HIDE DEF ended
<1> QED
  BY <1>2, <1>4, ResetIfOverKeeps

\* A capture: its sample, unless the grindee is full, and the housekeeping.
LEMMA CapturedKeeps ==
  ASSUME NEW gr, GrinderInv(gr), NEW g \in Grindees, NEW x \in Int, clock \in Int
  PROVE  GrinderInv(Captured(gr, g, x)) /\ InInterval(Captured(gr, g, x))
<1> DEFINE added == IF gr.grindees[g].full THEN gr ELSE AddSample(gr, g, x)
<1>1. GrinderInv(added)
  BY AddSampleKeeps
<1>2. Captured(gr, g, x) = PostCapture(added, g)
  BY DEF Captured
<1> HIDE DEF added
<1> QED
  BY <1>1, <1>2, PostCaptureKeeps

-----------------------------------------------------------------------------
\* The start of a capture is no part of what is counted.
LEMMA Marked ==
  ASSUME NEW gr, GrinderInv(gr), InInterval(gr), NEW g \in Grindees,
         NEW active \in BOOLEAN, NEW start \in Int, NEW first \in BOOLEAN
  PROVE  LET to  == [gr.grindees[g] EXCEPT !.active = active, !.start = start, !.first = first]
             new == [gr EXCEPT !.grindees[g] = to]
         IN  GrinderInv(new) /\ InInterval(new)
<1> DEFINE old == gr.grindees[g]
           to  == [old EXCEPT !.active = active, !.start = start, !.first = first]
           new == [gr EXCEPT !.grindees[g] = to]
<1>1. gr \in Grinders /\ old \in GrindeeRecords /\ GrindeeInv(old, gr.mode, clock)
  BY DEF GrinderInv, Grinders
<1> HIDE DEF old
<1>2. /\ to \in GrindeeRecords /\ to.count = old.count /\ to.table = old.table
      /\ to.full = old.full /\ to.accum = old.accum /\ to.samples = old.samples
      /\ to.since = old.since /\ to.carried = old.carried
  BY <1>1 DEF GrindeeRecords
<1> HIDE DEF to
<1>3. GrindeeInv(to, gr.mode, clock)
  BY <1>1, <1>2 DEF GrindeeInv, Counts, Sums, Waiting, SamplesOf
<1>4. /\ new \in Grinders /\ new.mode = gr.mode /\ new.flags = gr.flags
      /\ new.interval_start = gr.interval_start
      /\ \A h \in Grindees : new.grindees[h] = IF h = g THEN to ELSE gr.grindees[h]
  BY <1>1, <1>2 DEF Grinders
<1> HIDE DEF new
<1>5. GrinderInv(new)
  BY <1>3, <1>4 DEF GrinderInv
<1>6. InInterval(new)
  <2>1. ASSUME Cyclic(new), NEW h \in Grindees, new.grindees[h].samples # <<>>
        PROVE  new.grindees[h].since - new.interval_start < Interval
    <3>1. Cyclic(gr)
      BY <1>4, <2>1 DEF Cyclic
    <3>2. /\ new.grindees[h].samples = gr.grindees[h].samples
          /\ new.grindees[h].since = gr.grindees[h].since
      BY <1>2, <1>4 DEF old
    <3> QED
      BY <1>4, <2>1, <3>1, <3>2 DEF InInterval
  <2> QED
    BY <2>1 DEF InInterval
<1> QED
  BY <1>5, <1>6 DEF new, to, old

\* grind_capture_start
LEMMA StartKeeps ==
  ASSUME GrindInv, NEW g \in Grindees, GrindStart(g) PROVE GrindInv'
<1> DEFINE gr == PreCapture(grinder, g)
           old == gr.grindees[g]
           active == ~old.active
           start == IF old.active THEN old.start ELSE clock
           to == [old EXCEPT !.active = active, !.start = start]
           marked == [old EXCEPT !.active = active, !.start = start, !.first = old.first]
           new == [gr EXCEPT !.grindees[g] = marked]
<1>1. GrinderInv(gr) /\ InInterval(gr) /\ clock \in Int
  BY PreCaptureKeeps DEF GrindInv
<1>2. grinder' = [gr EXCEPT !.grindees[g] = to] /\ clock' = clock
  BY DEF GrindStart
<1> HIDE DEF gr
<1>3. gr \in Grinders /\ old \in GrindeeRecords
  BY <1>1 DEF GrinderInv, Grinders
<1>4. active \in BOOLEAN /\ start \in Int /\ old.first \in BOOLEAN
  BY <1>1, <1>3 DEF GrindeeRecords
<1>5. grinder' = new
  <2> HIDE DEF old, active, start
  <2>1. to = marked
    BY <1>3 DEF GrindeeRecords
  <2> HIDE DEF to, marked
  <2> QED
    BY <1>2, <2>1
<1>6. GrinderInv(new) /\ InInterval(new)
  <2> HIDE DEF active, start
  <2> QED
    BY <1>1, <1>4, Marked
<1> HIDE DEF new
<1>7. GrinderInv(grinder)' /\ InInterval(grinder)'
  BY <1>2, <1>5, <1>6 DEF GrinderInv, InInterval
<1> QED
  BY <1>1, <1>2, <1>7 DEF GrindInv

\* grind_capture_tick
LEMMA TickKeeps ==
  ASSUME GrindInv, NEW g \in Grindees, GrindTick(g) PROVE GrindInv'
<1> DEFINE gr == PreCapture(grinder, g)
           old == gr.grindees[g]
           to == [old EXCEPT !.start = clock, !.first = FALSE]
           marked == [old EXCEPT !.active = old.active, !.start = clock, !.first = FALSE]
           ticked == [gr EXCEPT !.grindees[g] = to]
           new == [gr EXCEPT !.grindees[g] = marked]
           last == Captured(ticked, g, clock - old.start)
<1>1. GrinderInv(gr) /\ InInterval(gr) /\ clock \in Int
  BY PreCaptureKeeps DEF GrindInv
<1>2. (grinder' = ticked \/ grinder' = last) /\ clock' = clock
  BY DEF GrindTick
<1> HIDE DEF gr
<1>3. gr \in Grinders /\ old \in GrindeeRecords /\ old.active \in BOOLEAN
  BY <1>1 DEF GrinderInv, Grinders, GrindeeRecords
<1>4. ticked = new
  <2> HIDE DEF old
  <2>1. to = marked
    BY <1>3 DEF GrindeeRecords
  <2> HIDE DEF to, marked
  <2> QED
    BY <2>1
<1>5. GrinderInv(new) /\ InInterval(new)
  BY <1>1, <1>3, Marked
<1>6. clock - old.start \in Int
  BY <1>1, <1>3 DEF GrindeeRecords
<1> HIDE DEF new, ticked, old
<1>7. GrinderInv(last) /\ InInterval(last)
  BY <1>1, <1>4, <1>5, <1>6, CapturedKeeps
<1> HIDE DEF last
<1>8. GrinderInv(grinder)' /\ InInterval(grinder)'
  BY <1>2, <1>4, <1>5, <1>7 DEF GrinderInv, InInterval
<1> QED
  BY <1>1, <1>2, <1>8 DEF GrindInv

\* A call that leaves a grinder as good as it was keeps the invariant.
LEMMA GrinderReplaced ==
  ASSUME NEW new, GrinderInv(new), InInterval(new), clock \in Int, grinder' = new, clock' = clock
  PROVE  GrindInv'
BY DEF GrindInv, GrinderInv, InInterval

\* grind_capture_end and grind_capture_count
LEMMA CaptureKeeps ==
  ASSUME GrindInv, NEW g \in Grindees, GrindEnd(g) \/ GrindCount(g) PROVE GrindInv'
<1>1. GrinderInv(grinder) /\ clock \in Int
  BY DEF GrindInv
<1>2. CASE GrindEnd(g)
  <2> DEFINE x == clock - grinder.grindees[g].start
             new == Captured(grinder, g, x)
  <2>1. x \in Int
    BY <1>1 DEF GrinderInv, Grinders, GrindeeRecords
  <2>2. grinder' = new /\ clock' = clock
    BY <1>2 DEF GrindEnd
  <2> HIDE DEF x
  <2>3. GrinderInv(new) /\ InInterval(new)
    BY <1>1, <2>1, CapturedKeeps
  <2> HIDE DEF new
  <2> QED
    BY <1>1, <2>2, <2>3, GrinderReplaced
<1>3. CASE GrindCount(g)
  <2> DEFINE gr == PreCapture(grinder, g)
             new == Captured(gr, g, 0)
  <2>1. GrinderInv(gr)
    BY <1>1, PreCaptureKeeps
  <2>2. grinder' = new /\ clock' = clock
    BY <1>3 DEF GrindCount
  <2> HIDE DEF gr
  <2>3. GrinderInv(new) /\ InInterval(new)
    BY <1>1, <2>1, CapturedKeeps
  <2> HIDE DEF new
  <2> QED
    BY <1>1, <2>2, <2>3, GrinderReplaced
<1> QED
  BY <1>2, <1>3

\* grind_report, grind_reset and grind_reset_all, called by the user.
LEMMA UserKeeps ==
  ASSUME GrindInv, GrindResetAll \/ \E g \in Grindees : GrindReport(g) \/ GrindReset(g)
  PROVE  GrindInv'
<1>1. GrinderInv(grinder) /\ InInterval(grinder) /\ clock \in Int
  BY DEF GrindInv
<1>2. CASE GrindResetAll
  <2>1. grinder' = ResetAll(grinder) /\ clock' = clock
    BY <1>2 DEF GrindResetAll
  <2> QED
    BY <1>1, <2>1, ResetAllKeeps, GrinderReplaced
<1>3. ASSUME NEW g \in Grindees, GrindReport(g) PROVE GrindInv'
  <2>1. grinder' = Report(grinder, g) /\ clock' = clock
    BY <1>3 DEF GrindReport
  <2>2. GrinderInv(Report(grinder, g)) /\ InInterval(Report(grinder, g))
    BY <1>1, ReportKeeps
  <2> QED
    BY <1>1, <2>1, <2>2, GrinderReplaced
<1>4. ASSUME NEW g \in Grindees, GrindReset(g) PROVE GrindInv'
  <2> DEFINE new == Reset(grinder, g)
  <2>1. grinder' = new /\ clock' = clock
    BY <1>4 DEF GrindReset
  <2>2. /\ GrinderInv(new) /\ new.flags = grinder.flags
        /\ new.interval_start = grinder.interval_start
        /\ new.grindees[g].samples = <<>>
        /\ \A h \in Grindees : h # g => new.grindees[h] = grinder.grindees[h]
    BY <1>1, ResetKeeps
  <2> HIDE DEF new
  <2>3. InInterval(new)
    BY <1>1, <2>2 DEF InInterval, Cyclic
  <2> QED
    BY <1>1, <2>1, <2>2, <2>3, GrinderReplaced
<1> QED
  BY <1>2, <1>3, <1>4

\* Whatever the user calls and whenever, every sample counts once, and none in
\* an interval that was over.
THEOREM GrindInvariant == GrindSpec => []GrindInv
<1>1. GrindInit => GrindInv
  <2> SUFFICES ASSUME GrindInit PROVE GrindInv
    OBVIOUS
  <2>1. PICK mode \in GrindModes, flags \in SUBSET GrindFlags, in \in BOOLEAN, at \in {-Interval, 0} :
          grinder = GrindNew(mode, flags, in, at)
    BY DEF GrindInit
  <2>2. clock = 0 /\ at \in Int
    BY GrindAssumption DEF GrindInit
  <2> DEFINE it == NewGrindee(mode)
  <2>3. it \in GrindeeRecords
    BY DEF NewGrindee, GrindeeRecords
  <2>4. /\ it.count = 0 /\ it.table = <<>> /\ it.full = FALSE /\ it.samples = <<>>
        /\ it.accum = it.carried
    BY DEF NewGrindee
  <2>5. grinder = [mode |-> mode, flags |-> flags, avail |-> FALSE,
                   in_interval |-> in, interval_start |-> at, grindees |-> [g \in Grindees |-> it]]
    BY <2>1 DEF GrindNew
  <2> HIDE DEF it
  <2>6. GrindeeInv(it, mode, clock)
    BY <2>3, <2>4, Emptied
  <2>7. grinder \in Grinders
    BY <2>2, <2>3, <2>5 DEF Grinders
  <2>8. \A g \in Grindees : grinder.grindees[g] = it /\ grinder.mode = mode
    BY <2>5
  <2> QED
    BY <2>2, <2>4, <2>6, <2>7, <2>8 DEF GrindInv, GrinderInv, InInterval
<1>2. GrindInv /\ [GrindNext]_grindVars => GrindInv'
  <2> SUFFICES ASSUME GrindInv, [GrindNext]_grindVars PROVE GrindInv'
    OBVIOUS
  <2>1. CASE GrindPass
    <3>1. clock' = clock + 1 /\ grinder' = grinder /\ clock \in Int
      BY <2>1 DEF GrindPass, GrindInv
    <3>2. ASSUME NEW g \in Grindees PROVE GrindeeInv(grinder.grindees[g], grinder.mode, clock + 1)
      <4>1. GrindeeInv(grinder.grindees[g], grinder.mode, clock) /\ grinder.grindees[g].since \in Int
        BY DEF GrindInv, GrinderInv, Grinders, GrindeeRecords
      <4> QED
        BY <3>1, <4>1 DEF GrindeeInv
    <3>3. grinder \in Grinders /\ InInterval(grinder)
      BY DEF GrindInv, GrinderInv
    <3>4. GrinderInv(grinder)'
      BY <3>1, <3>2, <3>3 DEF GrinderInv
    <3>5. InInterval(grinder)'
      BY <3>1, <3>3 DEF InInterval
    <3> QED
      BY <3>1, <3>4, <3>5 DEF GrindInv
  <2>2. CASE UNCHANGED grindVars
    BY <2>2 DEF grindVars, GrindInv, GrinderInv, InInterval
  <2> QED
    BY <2>1, <2>2, StartKeeps, TickKeeps, CaptureKeeps, UserKeeps DEF GrindNext
<1> QED
  BY <1>1, <1>2, PTL DEF GrindSpec

\* Every datapoint is the average of its own samples, but for the first after a
\* reset that left something in `accum`; no sample is counted twice or lost, and
\* with an interval none is kept from after its end
\* (grind_housekeeping_pre_capture, grind_housekeeping_post_capture, the captures
\* and the resets).
THEOREM DatapointsKept == GrindSpec => []GrindDatapoints
<1>1. ASSUME GrindInv PROVE GrindDatapoints
  <2> SUFFICES ASSUME NEW g \in Grindees
               PROVE  LET it == grinder.grindees[g] IN
                      /\ Len(it.samples) = Res * Len(it.table) + it.count
                      /\ it.count < Res
                      /\ it.full <=> Len(it.table) = Datapoints
                      /\ grinder.mode # "count" =>
                           \A k \in DOMAIN it.table : (k = 1 /\ it.carried # 0) \/ IsAverage(it, k)
                      /\ Cyclic(grinder) /\ it.samples # <<>> =>
                           it.since - grinder.interval_start < Interval
    BY DEF GrindDatapoints
  <2> DEFINE it == grinder.grindees[g]
  <2>1. GrindeeInv(it, grinder.mode, clock) /\ InInterval(grinder) /\ it \in GrindeeRecords
    BY <1>1 DEF GrindInv, GrinderInv, Grinders
  <2>2. ASSUME grinder.mode # "count", NEW k \in DOMAIN it.table, ~(k = 1 /\ it.carried # 0)
        PROVE  IsAverage(it, k)
    <3>1. it.table[k] = (Total(SamplesOf(it, k)) + IF k = 1 THEN it.carried ELSE 0) \div Res
      BY <2>1, <2>2 DEF GrindeeInv, Sums
    <3>2. Total(SamplesOf(it, k)) \in Int
      BY <2>1, <2>2, SamplesAdd DEF GrindeeInv
    <3>3. (IF k = 1 THEN it.carried ELSE 0) = 0
      BY <2>2
    <3>4. SamplesOf(it, k) = SubSeq(it.samples, Res * (k - 1) + 1, Res * k)
      BY DEF SamplesOf
    <3> DEFINE t == Total(SamplesOf(it, k))
    <3>5. t + 0 = t
      <4> HIDE DEF t
      <4>1. t \in Int
        BY <3>2 DEF t
      <4> QED
        BY <4>1
    <3>6. it.table[k] = t \div Res
      BY <3>1, <3>3, <3>5
    <3> HIDE DEF it
    <3> QED
      BY <3>4, <3>6 DEF IsAverage
  <2> QED
    BY <2>1, <2>2 DEF GrindeeInv, Counts, InInterval
<1> QED
  BY <1>1, GrindInvariant, PTL

-----------------------------------------------------------------------------
\* The rows of a flat array do not overlap (matrix_access).
LEMMA PlacesApart ==
  ASSUME NEW n \in Nat, NEW u \in 0 .. n - 1, NEW v \in 0 .. n - 1,
         NEW a \in 0 .. n - 1, NEW b \in 0 .. n - 1, n * u + v = n * a + b
  PROVE  u = a /\ v = b
<1>1. ASSUME NEW x \in Nat, NEW y \in Nat, x < y
      PROVE  n * x + n <= n * y
  <2> DEFINE d == y - x - 1
  <2>1. d \in Nat /\ y = x + 1 + d
    BY <1>1
  <2> HIDE DEF d
  <2>2. n * d \in Nat
    BY <2>1
  <2>3. n * y = n * x + n + n * d
    BY <2>1
  <2>4. n * x \in Nat
    OBVIOUS
  <2> QED
    BY <2>2, <2>3, <2>4
<1>2. n * u \in Int /\ n * a \in Int
  OBVIOUS
<1>3. ~(u < a)
  <2>1. SUFFICES ASSUME u < a PROVE FALSE
    OBVIOUS
  <2>2. n * u + n <= n * a
    BY <1>1, <2>1
  <2> DEFINE x == n * u
             y == n * a
  <2> HIDE DEF x, y
  <2>3. x \in Int /\ y \in Int /\ x + n <= y /\ x + v = y + b
    BY <1>2, <2>2 DEF x, y
  <2> QED
    BY <2>3
<1>4. ~(a < u)
  <2>1. SUFFICES ASSUME a < u PROVE FALSE
    OBVIOUS
  <2>2. n * a + n <= n * u
    BY <1>1, <2>1
  <2> DEFINE x == n * u
             y == n * a
  <2> HIDE DEF x, y
  <2>3. x \in Int /\ y \in Int /\ y + n <= x /\ x + v = y + b
    BY <1>2, <2>2 DEF x, y
  <2> QED
    BY <2>3
<1>5. u = a
  BY <1>3, <1>4
<1> QED
  BY <1>2, <1>5

\* They are all within it ...
LEMMA PlaceWithin ==
  ASSUME NEW n \in Nat, NEW u \in 0 .. n - 1, NEW v \in 0 .. n - 1
  PROVE  n * u + v \in 0 .. n * n - 1
<1> DEFINE d == n - u - 1
<1>1. d \in Nat /\ n = u + 1 + d
  OBVIOUS
<1>2. n * d \in Nat /\ n * u \in Nat
  BY <1>1
<1> HIDE DEF d
<1>3. n * n = n * u + n + n * d
  BY <1>1
<1> DEFINE x == n * u
           y == n * d
           z == n * n
<1>4. x \in Nat /\ y \in Nat /\ z = x + n + y
  BY <1>2, <1>3
<1> HIDE DEF x, y, z
<1>5. x + v \in 0 .. z - 1
  BY <1>4
<1> QED
  BY <1>5 DEF x, z

\* ... and there is nothing else in it.
LEMMA PlaceFound ==
  ASSUME NEW n \in Nat, NEW k \in 0 .. n * n - 1
  PROVE  \E u, v \in 0 .. n - 1 : k = n * u + v
<1> DEFINE T == {u \in Nat : k < n * u}
<1>1. n \in T
  BY DEF T
<1>2. PICK w \in T : \A y \in T : w <= y
  <2>1. T \in SUBSET Nat /\ T # {}
    BY <1>1
  <2> HIDE DEF T
  <2> QED
    BY <2>1, LeastNumber
<1>3. w \in Nat /\ k < n * w /\ w <= n
  BY <1>1, <1>2
<1>4. w # 0
  <2>1. n * 0 = 0 /\ k \in Int /\ 0 <= k
    <3>1. n * n \in Int
      OBVIOUS
    <3> QED
      BY <3>1
  <2> QED
    BY <1>3, <2>1
<1> DEFINE u == w - 1
           v == k - n * u
<1>5. u \in 0 .. n - 1 /\ w = u + 1
  BY <1>3, <1>4
<1>6. u \notin T
  <2>1. ~(w <= u)
    BY <1>3, <1>5
  <2> QED
    BY <1>2, <2>1
<1>7. ~(k < n * u)
  BY <1>5, <1>6
<1> HIDE DEF T, u
<1>8. n * w = n * u + n
  BY <1>5
<1>9. n * u \in Int /\ k \in Int
  <2>1. n * n \in Int
    OBVIOUS
  <2> QED
    BY <1>5, <2>1
<1>10. v \in 0 .. n - 1 /\ k = n * u + v
  <2> DEFINE x == n * u
  <2>1. x \in Int /\ ~(k < x) /\ k < x + n
    BY <1>3, <1>7, <1>8, <1>9
  <2> HIDE DEF x
  <2>2. k - x \in 0 .. n - 1 /\ k = x + (k - x)
    BY <1>9, <2>1
  <2> QED
    BY <2>2 DEF x
<1> QED
  BY <1>5, <1>10

\* The loops of a transposition exchange an element left of the diagonal in the
\* rows before i, and before column j of row i.
Passed(i, j, u, v) == v < u /\ (u < i \/ (u = i /\ v < j))

\* Square matrices in a flat array.
Squares(n, V) == [n_rows : {n}, n_cols : {n}, elements : [0 .. n * n - 1 -> V]]

\* An element of a matrix.
LEMMA MatrixAccessIs ==
  ASSUME NEW n \in Nat, NEW V, NEW m \in Squares(n, V), NEW u \in 0 .. n - 1, NEW v \in 0 .. n - 1
  PROVE  MatrixAccess(m, u, v) \in V
<1>1. m.n_cols = n /\ m.elements \in [0 .. n * n - 1 -> V]
  BY DEF Squares
<1>2. n * u + v \in 0 .. n * n - 1
  BY PlaceWithin
<1> QED
  BY <1>1, <1>2 DEF MatrixAccess, MatrixIndex

\* t is the matrix m with w in one place.
MatrixIsPut(n, V, m, u, v, w, t) ==
  /\ t \in Squares(n, V)
  /\ \A a, b \in 0 .. n - 1 : MatrixAccess(t, a, b) = IF a = u /\ b = v THEN w ELSE MatrixAccess(m, a, b)

\* What matrix_set changes, for matrix_access.
LEMMA MatrixSetIs ==
  ASSUME NEW n \in Nat, NEW V, NEW m \in Squares(n, V),
         NEW u \in 0 .. n - 1, NEW v \in 0 .. n - 1, NEW w \in V
  PROVE  MatrixIsPut(n, V, m, u, v, w, MatrixSet(m, u, v, w))
<1> DEFINE N == n * n - 1
           k == n * u + v
           e == m.elements
           t == MatrixSet(m, u, v, w)
<1>1. m.n_rows = n /\ m.n_cols = n /\ e \in [0 .. N -> V]
      /\ m = [n_rows |-> n, n_cols |-> n, elements |-> e]
  BY DEF Squares
<1>2. k \in 0 .. N
  BY PlaceWithin
<1>3. t = [m EXCEPT !.elements[k] = w]
  BY <1>1 DEF MatrixSet, MatrixIndex
<1> HIDE DEF N, k, e, t
<1>4. t = [n_rows |-> n, n_cols |-> n, elements |-> [e EXCEPT ![k] = w]]
  BY <1>1, <1>3 DEF e
<1>5. [e EXCEPT ![k] = w] \in [0 .. N -> V]
  BY <1>1, <1>2
<1>6. t \in Squares(n, V)
  BY <1>4, <1>5 DEF Squares, N
<1>7. ASSUME NEW a \in 0 .. n - 1, NEW b \in 0 .. n - 1
      PROVE  MatrixAccess(t, a, b) = IF a = u /\ b = v THEN w ELSE MatrixAccess(m, a, b)
  <2> DEFINE l == n * a + b
  <2>1. l \in 0 .. N
    BY PlaceWithin DEF N
  <2>2. l = k <=> a = u /\ b = v
    BY PlacesApart DEF k
  <2>3. MatrixAccess(t, a, b) = [e EXCEPT ![k] = w][l] /\ MatrixAccess(m, a, b) = e[l]
    BY <1>1, <1>4 DEF MatrixAccess, MatrixIndex, e
  <2> HIDE DEF l
  <2> QED
    BY <1>1, <2>1, <2>2, <2>3
<1> QED
  BY <1>6, <1>7, Zenon DEF t, MatrixIsPut

\* Two square matrices with the same elements are one.
LEMMA MatrixSame ==
  ASSUME NEW n \in Nat, NEW V, NEW m \in Squares(n, V), NEW t \in Squares(n, V),
         \A u, v \in 0 .. n - 1 : MatrixAccess(m, u, v) = MatrixAccess(t, u, v)
  PROVE  m = t
<1>1. \A x \in {m, t} : /\ x.n_cols = n /\ x.elements \in [0 .. n * n - 1 -> V]
                        /\ x = [n_rows |-> n, n_cols |-> n, elements |-> x.elements]
  BY DEF Squares
<1>2. ASSUME NEW k \in 0 .. n * n - 1 PROVE m.elements[k] = t.elements[k]
  <2>1. PICK u, v \in 0 .. n - 1 : k = n * u + v
    BY PlaceFound
  <2>2. MatrixAccess(m, u, v) = m.elements[k] /\ MatrixAccess(t, u, v) = t.elements[k]
    BY <1>1, <2>1 DEF MatrixAccess, MatrixIndex
  <2> QED
    BY <2>2
<1> DEFINE N == n * n - 1
           e == m.elements
           f == t.elements
<1>3. e \in [0 .. N -> V] /\ f \in [0 .. N -> V] /\ \A k \in 0 .. N : e[k] = f[k]
  BY <1>1, <1>2
<1> HIDE DEF N, e, f
<1>4. e = [k \in 0 .. N |-> e[k]] /\ f = [k \in 0 .. N |-> f[k]]
  BY <1>3
<1>5. e = f
  BY <1>3, <1>4, Zenon
<1> QED
  BY <1>1, <1>5 DEF e, f

\* What an exchange changes.
LEMMA MatrixSwapIs ==
  ASSUME NEW n \in Nat, NEW V, NEW t \in Squares(n, V), NEW i \in 0 .. n - 1, NEW j \in 0 .. n - 1,
         NEW r, r = MatrixSwap(t, i, j)
  PROVE  /\ r \in Squares(n, V)
         /\ \A a, b \in 0 .. n - 1 : MatrixAccess(r, a, b) = IF a = j /\ b = i THEN MatrixAccess(t, i, j)
                                        ELSE IF a = i /\ b = j THEN MatrixAccess(t, j, i) ELSE MatrixAccess(t, a, b)
<1> DEFINE x == MatrixAccess(t, i, j)
           y == MatrixAccess(t, j, i)
           s == MatrixSet(t, i, j, y)
<1>1. x \in V /\ y \in V
  BY MatrixAccessIs
<1> HIDE DEF x, y
<1>2. MatrixIsPut(n, V, t, i, j, y, s)
  BY <1>1, MatrixSetIs
<1> HIDE DEF s
<1>3. r = MatrixSet(s, j, i, x)
  BY DEF MatrixSwap, s, x, y
<1>4. s \in Squares(n, V)
  BY <1>2, Zenon DEF MatrixIsPut
<1>5. MatrixIsPut(n, V, s, j, i, x, r)
  <2>1. n \in Nat /\ s \in Squares(n, V) /\ j \in 0 .. n - 1 /\ i \in 0 .. n - 1 /\ x \in V
    BY <1>1, <1>4
  <2> QED
    BY ONLY <1>3, <2>1, MatrixSetIs
<1> QED
  BY <1>2, <1>5 DEF x, y, MatrixIsPut

\* t is m with the elements exchanged that matrix_transpose has passed at column
\* j of row i.
Turned(m, n, i, j, t) ==
  \A u, v \in 0 .. n - 1 :
    MatrixAccess(t, u, v) = IF Passed(i, j, u, v) \/ Passed(i, j, v, u)
                       THEN MatrixAccess(m, v, u) ELSE MatrixAccess(m, u, v)

\* One more exchange.
LEMMA MatrixSwapTurns ==
  ASSUME NEW n \in Nat, NEW V, NEW m \in Squares(n, V), NEW t \in Squares(n, V),
         NEW i \in 0 .. n - 1, NEW j \in 0 .. i - 1, Turned(m, n, i, j, t),
         NEW r, r = MatrixSwap(t, i, j)
  PROVE  r \in Squares(n, V) /\ Turned(m, n, i, j + 1, r)
<1>1. j \in 0 .. n - 1 /\ i # j /\ i \in Nat /\ j \in Nat /\ j < i
  OBVIOUS
<1>2. /\ r \in Squares(n, V)
      /\ \A a, b \in 0 .. n - 1 : MatrixAccess(r, a, b) = IF a = j /\ b = i THEN MatrixAccess(t, i, j)
                                     ELSE IF a = i /\ b = j THEN MatrixAccess(t, j, i) ELSE MatrixAccess(t, a, b)
  BY <1>1, MatrixSwapIs
<1>3. MatrixAccess(t, i, j) = MatrixAccess(m, i, j) /\ MatrixAccess(t, j, i) = MatrixAccess(m, j, i)
  <2>1. ~Passed(i, j, i, j) /\ ~Passed(i, j, j, i)
    BY <1>1 DEF Passed
  <2> QED
    BY <1>1, <2>1 DEF Turned
<1>4. ASSUME NEW u \in 0 .. n - 1, NEW v \in 0 .. n - 1
      PROVE  MatrixAccess(r, u, v) = IF Passed(i, j + 1, u, v) \/ Passed(i, j + 1, v, u)
                                THEN MatrixAccess(m, v, u) ELSE MatrixAccess(m, u, v)
  <2>1. CASE u = j /\ v = i
    <3>1. Passed(i, j + 1, v, u)
      BY <1>1, <2>1 DEF Passed
    <3> QED
      BY <1>2, <1>3, <2>1, <3>1
  <2>2. CASE u = i /\ v = j
    <3>1. Passed(i, j + 1, u, v)
      BY <1>1, <2>2 DEF Passed
    <3> QED
      BY <1>1, <1>2, <1>3, <2>2, <3>1
  <2>3. CASE ~(u = j /\ v = i) /\ ~(u = i /\ v = j)
    <3>1. (Passed(i, j + 1, u, v) <=> Passed(i, j, u, v)) /\ (Passed(i, j + 1, v, u) <=> Passed(i, j, v, u))
      BY <1>1, <2>3 DEF Passed
    <3>2. MatrixAccess(r, u, v) = MatrixAccess(t, u, v)
      BY <1>2, <2>3
    <3>3. MatrixAccess(t, u, v) = IF Passed(i, j, u, v) \/ Passed(i, j, v, u)
                             THEN MatrixAccess(m, v, u) ELSE MatrixAccess(m, u, v)
      BY DEF Turned
    <3> QED
      BY ONLY <3>1, <3>2, <3>3
  <2> QED
    BY <2>1, <2>2, <2>3
<1> QED
  BY <1>2, <1>4 DEF Turned

TurnsRow(m, i, f) == f = [j \in 0 .. i |-> IF j = 0 THEN m ELSE MatrixSwap(f[j - 1], i, j - 1)]

\* The inner loop.
LEMMA MatrixRowTurns ==
  ASSUME NEW n \in Nat, NEW V, NEW m \in Squares(n, V), NEW t \in Squares(n, V),
         NEW i \in 0 .. n - 1, Turned(m, n, i, 0, t), NEW r, r = MatrixSwapRow(t, i)
  PROVE  r \in Squares(n, V) /\ Turned(m, n, i + 1, 0, r)
<1> DEFINE I == [j \in 0 .. i |-> {x \in Squares(n, V) : Turned(m, n, i, j, x)}]
           step == [j \in 1 .. i |-> [x \in I[j - 1] |-> MatrixSwap(x, i, j - 1)]]
           F == CHOOSE f : TurnsRow(t, i, f)
<1>1. /\ i \in Nat /\ 0 \in 0 .. i /\ i \in 0 .. i
      /\ \A j \in 1 .. i : j - 1 \in 0 .. i - 1 /\ j - 1 \in 0 .. i /\ j \in 0 .. i /\ (j - 1) + 1 = j /\ j # 0
      /\ \A j \in 0 .. i : j # 0 => j \in 1 .. i
  OBVIOUS
<1>2. \A j \in 0 .. i : I[j] = {x \in Squares(n, V) : Turned(m, n, i, j, x)}
  OBVIOUS
<1> HIDE DEF I
<1>3. t \in I[0]
  BY <1>1, <1>2
<1>4. ASSUME NEW j \in 1 .. i, NEW x \in I[j - 1] PROVE MatrixSwap(x, i, j - 1) \in I[j]
  <2> DEFINE k == j - 1
  <2>1. k \in 0 .. i - 1 /\ x \in Squares(n, V) /\ Turned(m, n, i, k, x) /\ k + 1 = j
    BY <1>1, <1>2
  <2> HIDE DEF k
  <2>2. MatrixSwap(x, i, k) \in Squares(n, V) /\ Turned(m, n, i, k + 1, MatrixSwap(x, i, k))
    BY <2>1, MatrixSwapTurns
  <2>3. MatrixSwap(x, i, k) \in I[j]
    BY <1>1, <1>2, <2>1, <2>2
  <2> QED
    BY <2>3 DEF k
<1>5. \A j \in 1 .. i : \A x \in I[j - 1] : step[j][x] = MatrixSwap(x, i, j - 1) /\ step[j][x] \in I[j]
  <2> SUFFICES ASSUME NEW j \in 1 .. i, NEW x \in I[j - 1]
               PROVE  step[j][x] = MatrixSwap(x, i, j - 1) /\ step[j][x] \in I[j]
    BY Zenon
  <2>1. step[j][x] = MatrixSwap(x, i, j - 1)
    BY Zenon
  <2> QED
    BY <1>4, <2>1
<1> HIDE DEF step
<1>6. PICK f : CountsIn(f, i, I, t, step)
  BY <1>1, <1>3, <1>5, CountingRunExists, Zenon
<1>7. /\ f = [j \in 0 .. i |-> IF j = 0 THEN t ELSE step[j][f[j - 1]]]
      /\ \A j \in 0 .. i : f[j] \in I[j]
  BY <1>6, Zenon DEF CountsIn
<1>8. TurnsRow(t, i, f)
  <2>1. \A j \in 0 .. i : (IF j = 0 THEN t ELSE step[j][f[j - 1]]) = IF j = 0 THEN t ELSE MatrixSwap(f[j - 1], i, j - 1)
    BY <1>1, <1>5, <1>7, Zenon
  <2>2. f = [j \in 0 .. i |-> IF j = 0 THEN t ELSE MatrixSwap(f[j - 1], i, j - 1)]
    BY <1>7, <2>1, Zenon
  <2> QED
    BY <2>2, Zenon DEF TurnsRow
<1>9. TurnsRow(t, i, F)
  BY <1>8
<1>10. r = F[i]
  BY Zenon DEF MatrixSwapRow, TurnsRow
<1> HIDE DEF F
<1>11. F[0] = t /\ \A j \in 1 .. i : F[j] = MatrixSwap(F[j - 1], i, j - 1)
  BY <1>1, <1>9 DEF TurnsRow
<1>12. \A j \in 0 .. i : F[j] \in I[j]
  <2>1. F[0] \in I[0] /\ \A j \in 1 .. i : F[j - 1] \in I[j - 1] => F[j] \in I[j]
    BY <1>3, <1>4, <1>11
  <2> QED
    BY ONLY <1>1, <2>1, StaysIn
<1>13. r \in Squares(n, V) /\ Turned(m, n, i, i, r)
  BY <1>1, <1>2, <1>10, <1>12
<1>14. \A u, v \in 0 .. n - 1 : Passed(i, i, u, v) <=> Passed(i + 1, 0, u, v)
  BY <1>1 DEF Passed
<1> QED
  BY <1>13, <1>14 DEF Turned

TurnsAll(m, f) == f = [i \in 0 .. m.n_rows |-> IF i = 0 THEN m ELSE MatrixSwapRow(f[i - 1], i - 1)]

\* matrix_transpose exchanges rows and columns.
LEMMA MatrixTransposed ==
  ASSUME NEW n \in Nat, NEW V, NEW m \in Squares(n, V), NEW r, r = MatrixTranspose(m)
  PROVE  r \in Squares(n, V) /\ \A u, v \in 0 .. n - 1 : MatrixAccess(r, u, v) = MatrixAccess(m, v, u)
<1> DEFINE I == [i \in 0 .. n |-> {x \in Squares(n, V) : Turned(m, n, i, 0, x)}]
           step == [i \in 1 .. n |-> [x \in I[i - 1] |-> MatrixSwapRow(x, i - 1)]]
           F == CHOOSE f : TurnsAll(m, f)
<1>1. /\ 0 \in 0 .. n /\ n \in 0 .. n
      /\ \A i \in 1 .. n : i - 1 \in 0 .. n - 1 /\ i - 1 \in 0 .. n /\ i \in 0 .. n /\ (i - 1) + 1 = i /\ i # 0
      /\ \A i \in 0 .. n : i # 0 => i \in 1 .. n
  OBVIOUS
<1>2. \A i \in 0 .. n : I[i] = {x \in Squares(n, V) : Turned(m, n, i, 0, x)}
  OBVIOUS
<1>3. m.n_rows = n
  BY DEF Squares
<1> HIDE DEF I
<1>4. m \in I[0]
  <2>1. \A u, v \in 0 .. n - 1 : ~Passed(0, 0, u, v)
    BY DEF Passed
  <2>2. Turned(m, n, 0, 0, m)
    BY <2>1 DEF Turned
  <2> QED
    BY <1>1, <1>2, <2>2
<1>5. ASSUME NEW i \in 1 .. n, NEW x \in I[i - 1] PROVE MatrixSwapRow(x, i - 1) \in I[i]
  <2> DEFINE k == i - 1
  <2>1. k \in 0 .. n - 1 /\ x \in Squares(n, V) /\ Turned(m, n, k, 0, x) /\ k + 1 = i
    BY <1>1, <1>2
  <2> HIDE DEF k
  <2>2. MatrixSwapRow(x, k) \in Squares(n, V) /\ Turned(m, n, k + 1, 0, MatrixSwapRow(x, k))
    BY <2>1, MatrixRowTurns
  <2>3. MatrixSwapRow(x, k) \in I[i]
    BY <1>1, <1>2, <2>1, <2>2
  <2> QED
    BY <2>3 DEF k
<1>6. \A i \in 1 .. n : \A x \in I[i - 1] : step[i][x] = MatrixSwapRow(x, i - 1) /\ step[i][x] \in I[i]
  <2> SUFFICES ASSUME NEW i \in 1 .. n, NEW x \in I[i - 1]
               PROVE  step[i][x] = MatrixSwapRow(x, i - 1) /\ step[i][x] \in I[i]
    BY Zenon
  <2>1. step[i][x] = MatrixSwapRow(x, i - 1)
    BY Zenon
  <2> QED
    BY <1>5, <2>1
<1> HIDE DEF step
<1>7. PICK f : CountsIn(f, n, I, m, step)
  BY <1>1, <1>4, <1>6, CountingRunExists, Zenon
<1>8. /\ f = [i \in 0 .. n |-> IF i = 0 THEN m ELSE step[i][f[i - 1]]]
      /\ \A i \in 0 .. n : f[i] \in I[i]
  BY <1>7, Zenon DEF CountsIn
<1>9. TurnsAll(m, f)
  <2>1. \A i \in 0 .. n : (IF i = 0 THEN m ELSE step[i][f[i - 1]]) = IF i = 0 THEN m ELSE MatrixSwapRow(f[i - 1], i - 1)
    BY <1>1, <1>6, <1>8, Zenon
  <2>2. f = [i \in 0 .. n |-> IF i = 0 THEN m ELSE MatrixSwapRow(f[i - 1], i - 1)]
    BY <1>8, <2>1, Zenon
  <2> QED
    BY <1>3, <2>2, Zenon DEF TurnsAll
<1>10. TurnsAll(m, F)
  BY <1>9
<1>11. r = F[n]
  BY <1>3, Zenon DEF MatrixTranspose, TurnsAll
<1> HIDE DEF F
<1>12. F[0] = m /\ \A i \in 1 .. n : F[i] = MatrixSwapRow(F[i - 1], i - 1)
  BY <1>1, <1>3, <1>10 DEF TurnsAll
<1>13. \A i \in 0 .. n : F[i] \in I[i]
  <2>1. F[0] \in I[0] /\ \A i \in 1 .. n : F[i - 1] \in I[i - 1] => F[i] \in I[i]
    BY <1>4, <1>5, <1>12
  <2> QED
    BY ONLY <2>1, StaysIn
<1>14. r \in Squares(n, V) /\ Turned(m, n, n, 0, r)
  BY <1>1, <1>2, <1>11, <1>13
<1>15. ASSUME NEW u \in 0 .. n - 1, NEW v \in 0 .. n - 1
       PROVE  MatrixAccess(r, u, v) = MatrixAccess(m, v, u)
  <2>1. u = v \/ Passed(n, 0, u, v) \/ Passed(n, 0, v, u)
    BY DEF Passed
  <2> QED
    BY <1>14, <2>1 DEF Turned
<1> QED
  BY <1>14, <1>15

-----------------------------------------------------------------------------
\* Matrices that grow, with all rows of one length.
DynRects(r, c, V) == [n_rows : {r}, n_cols : {c}, rows : [1 .. r -> [1 .. c -> V]]]
DynSquares(n, V) == DynRects(n, n, V)

\* t is the matrix m with w in one place.
DynIsPut(r, c, V, m, u, v, w, t) ==
  /\ t \in DynRects(r, c, V)
  /\ \A a \in 0 .. r - 1, b \in 0 .. c - 1 :
       DynAccess(t, a, b) = IF a = u /\ b = v THEN w ELSE DynAccess(m, a, b)

\* What is written to a place.
LEMMA DynPutIs ==
  ASSUME NEW r \in Nat, NEW c \in Nat, NEW V, NEW m \in DynRects(r, c, V),
         NEW u \in 0 .. r - 1, NEW v \in 0 .. c - 1, NEW w \in V,
         NEW t, t = [m EXCEPT !.rows[u + 1][v + 1] = w]
  PROVE  DynIsPut(r, c, V, m, u, v, w, t)
<1> DEFINE q == m.rows
           x == u + 1
           y == v + 1
           z == [q EXCEPT ![x][y] = w]
<1>1. m = [n_rows |-> r, n_cols |-> c, rows |-> q] /\ q \in [1 .. r -> [1 .. c -> V]]
  BY DEF DynRects
<1>2. x \in 1 .. r /\ y \in 1 .. c
  OBVIOUS
<1>3. t = [m EXCEPT !.rows[x][y] = w]
  OBVIOUS
<1> HIDE DEF q, x, y, z
<1>4. t = [n_rows |-> r, n_cols |-> c, rows |-> z]
  <2>1. t = [m EXCEPT !.rows = z]
    BY <1>3 DEF q, z
  <2> QED
    BY ONLY <1>1, <2>1
<1>5. z \in [1 .. r -> [1 .. c -> V]] 
  <2>1. q[x] \in [1 .. c -> V]
    BY <1>1, <1>2
  <2>2. [q[x] EXCEPT ![y] = w] \in [1 .. c -> V]
    BY <2>1
  <2>3. z = [q EXCEPT ![x] = [q[x] EXCEPT ![y] = w]]
    BY DEF z
  <2> QED
    BY <1>1, <1>2, <2>1, <2>2, <2>3
<1>6. t \in DynRects(r, c, V)
  BY ONLY <1>4, <1>5 DEF DynRects
<1>7. ASSUME NEW a \in 0 .. r - 1, NEW b \in 0 .. c - 1
      PROVE  DynAccess(t, a, b) = IF a = u /\ b = v THEN w ELSE DynAccess(m, a, b)
  <2> DEFINE i == a + 1
             j == b + 1
  <2>1. i \in 1 .. r /\ j \in 1 .. c /\ (i = x <=> a = u) /\ (j = y <=> b = v)
    BY DEF x, y
  <2>2. DynAccess(t, a, b) = z[i][j] /\ DynAccess(m, a, b) = q[i][j]
    <3>1. t.rows = z
      BY ONLY <1>4
    <3> QED
      BY <3>1, Zenon DEF DynAccess, q
  <2> HIDE DEF i, j
  <2>3. z[i][j] = IF i = x /\ j = y THEN w ELSE q[i][j]
    <3>1. z = [q EXCEPT ![x] = [q[x] EXCEPT ![y] = w]] /\ q[x] \in [1 .. c -> V] /\ q[i] \in [1 .. c -> V]
      BY <1>1, <1>2, <2>1 DEF z
    <3>2. z[i] = IF i = x THEN [q[x] EXCEPT ![y] = w] ELSE q[i]
      BY <1>1, <2>1, <3>1
    <3> QED
      BY <2>1, <3>1, <3>2
  <2> QED
    BY <2>1, <2>2, <2>3
<1> QED
  BY <1>6, <1>7, Zenon DEF DynIsPut

\* An element of one.
LEMMA DynAccessIs ==
  ASSUME NEW r \in Nat, NEW c \in Nat, NEW V, NEW m \in DynRects(r, c, V), NEW u \in 0 .. r - 1, NEW v \in 0 .. c - 1
  PROVE  DynAccess(m, u, v) \in V
<1>1. m.rows \in [1 .. r -> [1 .. c -> V]] /\ u + 1 \in 1 .. r /\ v + 1 \in 1 .. c
  BY DEF DynRects
<1>2. m.rows[u + 1] \in [1 .. c -> V]
  BY <1>1
<1> QED
  BY <1>1, <1>2 DEF DynAccess

\* What an exchange changes.
LEMMA DynSwapIs ==
  ASSUME NEW n \in Nat, NEW V, NEW t \in DynSquares(n, V), NEW i \in 0 .. n - 1, NEW j \in 0 .. n - 1,
         NEW r, r = DynSwap(t, i, j)
  PROVE  /\ r \in DynSquares(n, V)
         /\ \A a, b \in 0 .. n - 1 : DynAccess(r, a, b) = IF a = j /\ b = i THEN DynAccess(t, i, j)
                                        ELSE IF a = i /\ b = j THEN DynAccess(t, j, i) ELSE DynAccess(t, a, b)
<1> DEFINE x == DynAccess(t, i, j)
           y == DynAccess(t, j, i)
           s == [t EXCEPT !.rows[i + 1][j + 1] = y]
<1>1. x \in V /\ y \in V /\ t \in DynRects(n, n, V)
  BY DynAccessIs DEF DynSquares
<1>2. r = [s EXCEPT !.rows[j + 1][i + 1] = x]
  BY DEF DynSwap
<1> HIDE DEF x, y
<1>3. DynIsPut(n, n, V, t, i, j, y, s)
  BY <1>1, DynPutIs
<1> HIDE DEF s
<1>4. s \in DynRects(n, n, V)
  BY <1>3, Zenon DEF DynIsPut
<1>5. DynIsPut(n, n, V, s, j, i, x, r)
  <2>1. n \in Nat /\ s \in DynRects(n, n, V) /\ j \in 0 .. n - 1 /\ i \in 0 .. n - 1 /\ x \in V
    BY <1>1, <1>4
  <2> QED
    BY ONLY <1>2, <2>1, DynPutIs
<1> QED
  BY <1>3, <1>5 DEF x, y, DynSquares, DynIsPut

\* t is m with the elements exchanged that dyn_matrix_transpose has passed at column
\* j of row i.
DynTurned(m, n, i, j, t) ==
  \A u, v \in 0 .. n - 1 :
    DynAccess(t, u, v) = IF Passed(i, j, u, v) \/ Passed(i, j, v, u)
                       THEN DynAccess(m, v, u) ELSE DynAccess(m, u, v)

\* One more exchange.
LEMMA DynSwapTurns ==
  ASSUME NEW n \in Nat, NEW V, NEW m \in DynSquares(n, V), NEW t \in DynSquares(n, V),
         NEW i \in 0 .. n - 1, NEW j \in 0 .. i - 1, DynTurned(m, n, i, j, t),
         NEW r, r = DynSwap(t, i, j)
  PROVE  r \in DynSquares(n, V) /\ DynTurned(m, n, i, j + 1, r)
<1>1. j \in 0 .. n - 1 /\ i # j /\ i \in Nat /\ j \in Nat /\ j < i
  OBVIOUS
<1>2. /\ r \in DynSquares(n, V)
      /\ \A a, b \in 0 .. n - 1 : DynAccess(r, a, b) = IF a = j /\ b = i THEN DynAccess(t, i, j)
                                     ELSE IF a = i /\ b = j THEN DynAccess(t, j, i) ELSE DynAccess(t, a, b)
  BY <1>1, DynSwapIs
<1>3. DynAccess(t, i, j) = DynAccess(m, i, j) /\ DynAccess(t, j, i) = DynAccess(m, j, i)
  <2>1. ~Passed(i, j, i, j) /\ ~Passed(i, j, j, i)
    BY <1>1 DEF Passed
  <2> QED
    BY <1>1, <2>1 DEF DynTurned
<1>4. ASSUME NEW u \in 0 .. n - 1, NEW v \in 0 .. n - 1
      PROVE  DynAccess(r, u, v) = IF Passed(i, j + 1, u, v) \/ Passed(i, j + 1, v, u)
                                THEN DynAccess(m, v, u) ELSE DynAccess(m, u, v)
  <2>1. CASE u = j /\ v = i
    <3>1. Passed(i, j + 1, v, u)
      BY <1>1, <2>1 DEF Passed
    <3> QED
      BY <1>2, <1>3, <2>1, <3>1
  <2>2. CASE u = i /\ v = j
    <3>1. Passed(i, j + 1, u, v)
      BY <1>1, <2>2 DEF Passed
    <3> QED
      BY <1>1, <1>2, <1>3, <2>2, <3>1
  <2>3. CASE ~(u = j /\ v = i) /\ ~(u = i /\ v = j)
    <3>1. (Passed(i, j + 1, u, v) <=> Passed(i, j, u, v)) /\ (Passed(i, j + 1, v, u) <=> Passed(i, j, v, u))
      BY <1>1, <2>3 DEF Passed
    <3>2. DynAccess(r, u, v) = DynAccess(t, u, v)
      BY <1>2, <2>3
    <3>3. DynAccess(t, u, v) = IF Passed(i, j, u, v) \/ Passed(i, j, v, u)
                             THEN DynAccess(m, v, u) ELSE DynAccess(m, u, v)
      BY DEF DynTurned
    <3> QED
      BY ONLY <3>1, <3>2, <3>3
  <2> QED
    BY <2>1, <2>2, <2>3
<1> QED
  BY <1>2, <1>4 DEF DynTurned

DynTurnsRow(m, i, f) == f = [j \in 0 .. i |-> IF j = 0 THEN m ELSE DynSwap(f[j - 1], i, j - 1)]

\* The inner loop.
LEMMA DynRowTurns ==
  ASSUME NEW n \in Nat, NEW V, NEW m \in DynSquares(n, V), NEW t \in DynSquares(n, V),
         NEW i \in 0 .. n - 1, DynTurned(m, n, i, 0, t), NEW r, r = DynSwapRow(t, i)
  PROVE  r \in DynSquares(n, V) /\ DynTurned(m, n, i + 1, 0, r)
<1> DEFINE I == [j \in 0 .. i |-> {x \in DynSquares(n, V) : DynTurned(m, n, i, j, x)}]
           step == [j \in 1 .. i |-> [x \in I[j - 1] |-> DynSwap(x, i, j - 1)]]
           F == CHOOSE f : DynTurnsRow(t, i, f)
<1>1. /\ i \in Nat /\ 0 \in 0 .. i /\ i \in 0 .. i
      /\ \A j \in 1 .. i : j - 1 \in 0 .. i - 1 /\ j - 1 \in 0 .. i /\ j \in 0 .. i /\ (j - 1) + 1 = j /\ j # 0
      /\ \A j \in 0 .. i : j # 0 => j \in 1 .. i
  OBVIOUS
<1>2. \A j \in 0 .. i : I[j] = {x \in DynSquares(n, V) : DynTurned(m, n, i, j, x)}
  OBVIOUS
<1> HIDE DEF I
<1>3. t \in I[0]
  BY <1>1, <1>2
<1>4. ASSUME NEW j \in 1 .. i, NEW x \in I[j - 1] PROVE DynSwap(x, i, j - 1) \in I[j]
  <2> DEFINE k == j - 1
  <2>1. k \in 0 .. i - 1 /\ x \in DynSquares(n, V) /\ DynTurned(m, n, i, k, x) /\ k + 1 = j
    BY <1>1, <1>2
  <2> HIDE DEF k
  <2>2. DynSwap(x, i, k) \in DynSquares(n, V) /\ DynTurned(m, n, i, k + 1, DynSwap(x, i, k))
    BY <2>1, DynSwapTurns
  <2>3. DynSwap(x, i, k) \in I[j]
    BY <1>1, <1>2, <2>1, <2>2
  <2> QED
    BY <2>3 DEF k
<1>5. \A j \in 1 .. i : \A x \in I[j - 1] : step[j][x] = DynSwap(x, i, j - 1) /\ step[j][x] \in I[j]
  <2> SUFFICES ASSUME NEW j \in 1 .. i, NEW x \in I[j - 1]
               PROVE  step[j][x] = DynSwap(x, i, j - 1) /\ step[j][x] \in I[j]
    BY Zenon
  <2>1. step[j][x] = DynSwap(x, i, j - 1)
    BY Zenon
  <2> QED
    BY <1>4, <2>1
<1> HIDE DEF step
<1>6. PICK f : CountsIn(f, i, I, t, step)
  BY <1>1, <1>3, <1>5, CountingRunExists, Zenon
<1>7. /\ f = [j \in 0 .. i |-> IF j = 0 THEN t ELSE step[j][f[j - 1]]]
      /\ \A j \in 0 .. i : f[j] \in I[j]
  BY <1>6, Zenon DEF CountsIn
<1>8. DynTurnsRow(t, i, f)
  <2>1. \A j \in 0 .. i : (IF j = 0 THEN t ELSE step[j][f[j - 1]]) = IF j = 0 THEN t ELSE DynSwap(f[j - 1], i, j - 1)
    BY <1>1, <1>5, <1>7, Zenon
  <2>2. f = [j \in 0 .. i |-> IF j = 0 THEN t ELSE DynSwap(f[j - 1], i, j - 1)]
    BY <1>7, <2>1, Zenon
  <2> QED
    BY <2>2, Zenon DEF DynTurnsRow
<1>9. DynTurnsRow(t, i, F)
  BY <1>8
<1>10. r = F[i]
  BY Zenon DEF DynSwapRow, DynTurnsRow
<1> HIDE DEF F
<1>11. F[0] = t /\ \A j \in 1 .. i : F[j] = DynSwap(F[j - 1], i, j - 1)
  BY <1>1, <1>9 DEF DynTurnsRow
<1>12. \A j \in 0 .. i : F[j] \in I[j]
  <2>1. F[0] \in I[0] /\ \A j \in 1 .. i : F[j - 1] \in I[j - 1] => F[j] \in I[j]
    BY <1>3, <1>4, <1>11
  <2> QED
    BY ONLY <1>1, <2>1, StaysIn
<1>13. r \in DynSquares(n, V) /\ DynTurned(m, n, i, i, r)
  BY <1>1, <1>2, <1>10, <1>12
<1>14. \A u, v \in 0 .. n - 1 : Passed(i, i, u, v) <=> Passed(i + 1, 0, u, v)
  BY <1>1 DEF Passed
<1> QED
  BY <1>13, <1>14 DEF DynTurned

DynTurnsAll(m, f) == f = [i \in 0 .. m.n_rows |-> IF i = 0 THEN m ELSE DynSwapRow(f[i - 1], i - 1)]

\* dyn_matrix_transpose exchanges rows and columns.
LEMMA DynTransposed ==
  ASSUME NEW n \in Nat, NEW V, NEW m \in DynSquares(n, V), NEW r, r = DynTranspose(m)
  PROVE  r \in DynSquares(n, V) /\ \A u, v \in 0 .. n - 1 : DynAccess(r, u, v) = DynAccess(m, v, u)
<1> DEFINE I == [i \in 0 .. n |-> {x \in DynSquares(n, V) : DynTurned(m, n, i, 0, x)}]
           step == [i \in 1 .. n |-> [x \in I[i - 1] |-> DynSwapRow(x, i - 1)]]
           F == CHOOSE f : DynTurnsAll(m, f)
<1>1. /\ 0 \in 0 .. n /\ n \in 0 .. n
      /\ \A i \in 1 .. n : i - 1 \in 0 .. n - 1 /\ i - 1 \in 0 .. n /\ i \in 0 .. n /\ (i - 1) + 1 = i /\ i # 0
      /\ \A i \in 0 .. n : i # 0 => i \in 1 .. n
  OBVIOUS
<1>2. \A i \in 0 .. n : I[i] = {x \in DynSquares(n, V) : DynTurned(m, n, i, 0, x)}
  OBVIOUS
<1>3. m.n_rows = n
  BY DEF DynSquares, DynRects
<1> HIDE DEF I
<1>4. m \in I[0]
  <2>1. \A u, v \in 0 .. n - 1 : ~Passed(0, 0, u, v)
    BY DEF Passed
  <2>2. DynTurned(m, n, 0, 0, m)
    BY <2>1 DEF DynTurned
  <2> QED
    BY <1>1, <1>2, <2>2
<1>5. ASSUME NEW i \in 1 .. n, NEW x \in I[i - 1] PROVE DynSwapRow(x, i - 1) \in I[i]
  <2> DEFINE k == i - 1
  <2>1. k \in 0 .. n - 1 /\ x \in DynSquares(n, V) /\ DynTurned(m, n, k, 0, x) /\ k + 1 = i
    BY <1>1, <1>2
  <2> HIDE DEF k
  <2>2. DynSwapRow(x, k) \in DynSquares(n, V) /\ DynTurned(m, n, k + 1, 0, DynSwapRow(x, k))
    BY <2>1, DynRowTurns
  <2>3. DynSwapRow(x, k) \in I[i]
    BY <1>1, <1>2, <2>1, <2>2
  <2> QED
    BY <2>3 DEF k
<1>6. \A i \in 1 .. n : \A x \in I[i - 1] : step[i][x] = DynSwapRow(x, i - 1) /\ step[i][x] \in I[i]
  <2> SUFFICES ASSUME NEW i \in 1 .. n, NEW x \in I[i - 1]
               PROVE  step[i][x] = DynSwapRow(x, i - 1) /\ step[i][x] \in I[i]
    BY Zenon
  <2>1. step[i][x] = DynSwapRow(x, i - 1)
    BY Zenon
  <2> QED
    BY <1>5, <2>1
<1> HIDE DEF step
<1>7. PICK f : CountsIn(f, n, I, m, step)
  BY <1>1, <1>4, <1>6, CountingRunExists, Zenon
<1>8. /\ f = [i \in 0 .. n |-> IF i = 0 THEN m ELSE step[i][f[i - 1]]]
      /\ \A i \in 0 .. n : f[i] \in I[i]
  BY <1>7, Zenon DEF CountsIn
<1>9. DynTurnsAll(m, f)
  <2>1. \A i \in 0 .. n : (IF i = 0 THEN m ELSE step[i][f[i - 1]]) = IF i = 0 THEN m ELSE DynSwapRow(f[i - 1], i - 1)
    BY <1>1, <1>6, <1>8, Zenon
  <2>2. f = [i \in 0 .. n |-> IF i = 0 THEN m ELSE DynSwapRow(f[i - 1], i - 1)]
    BY <1>8, <2>1, Zenon
  <2> QED
    BY <1>3, <2>2, Zenon DEF DynTurnsAll
<1>10. DynTurnsAll(m, F)
  BY <1>9
<1>11. r = F[n]
  BY <1>3, Zenon DEF DynTranspose, DynTurnsAll
<1> HIDE DEF F
<1>12. F[0] = m /\ \A i \in 1 .. n : F[i] = DynSwapRow(F[i - 1], i - 1)
  BY <1>1, <1>3, <1>10 DEF DynTurnsAll
<1>13. \A i \in 0 .. n : F[i] \in I[i]
  <2>1. F[0] \in I[0] /\ \A i \in 1 .. n : F[i - 1] \in I[i - 1] => F[i] \in I[i]
    BY <1>4, <1>5, <1>12
  <2> QED
    BY ONLY <2>1, StaysIn
<1>14. r \in DynSquares(n, V) /\ DynTurned(m, n, n, 0, r)
  BY <1>1, <1>2, <1>11, <1>13
<1>15. ASSUME NEW u \in 0 .. n - 1, NEW v \in 0 .. n - 1
       PROVE  DynAccess(r, u, v) = DynAccess(m, v, u)
  <2>1. u = v \/ Passed(n, 0, u, v) \/ Passed(n, 0, v, u)
    BY DEF Passed
  <2> QED
    BY <1>14, <2>1 DEF DynTurned
<1> QED
  BY <1>14, <1>15

-----------------------------------------------------------------------------
\* x is a row of length c with e in its new places.
IsExtended(S, row, c, d, e, x) ==
  x \in [1 .. d -> S] /\ \A i \in 1 .. d : x[i] = IF i <= c THEN row[i] ELSE e

\* A row made longer (darray_resize).
LEMMA ExtendedIs ==
  ASSUME NEW S, NEW c \in Nat, NEW row \in [1 .. c -> S], NEW d \in Nat, c <= d, NEW e \in S
  PROVE  IsExtended(S, row, c, d, e, Extended(row, d, e))
<1> DEFINE N == d - c
           rest == [i \in 1 .. N |-> e]
           x == row \o rest
<1>1. row \in Seq(S) /\ Len(row) = c
  OBVIOUS
<1>2. N \in Nat /\ c + N = d
  OBVIOUS
<1>3. Extended(row, d, e) = x
  BY <1>1 DEF Extended
<1> HIDE DEF N
<1>4. rest \in Seq(S) /\ Len(rest) = N /\ \A i \in 1 .. N : rest[i] = e
  BY <1>2
<1> HIDE DEF rest
<1>5. x \in Seq(S) /\ Len(x) = d /\ \A i \in 1 .. d : x[i] = IF i <= c THEN row[i] ELSE rest[i - c]
  BY <1>1, <1>2, <1>4
<1> HIDE DEF x
<1>6. x \in [1 .. d -> S]
  BY <1>5
<1>7. ASSUME NEW i \in 1 .. d PROVE x[i] = IF i <= c THEN row[i] ELSE e
  <2>1. i <= c \/ i - c \in 1 .. N
    BY <1>2
  <2> QED
    BY <1>4, <1>5, <2>1
<1> QED
  BY <1>3, <1>6, <1>7 DEF IsExtended

\* A new row.
LEMMA FreshRowIs ==
  ASSUME NEW V, Fresh \in V, NEW c \in Nat
  PROVE  FreshRow(c) \in [1 .. c -> V]
<1> DEFINE o == <<>>
<1>1. o \in [1 .. 0 -> V] /\ 0 \in Nat /\ 0 <= c
  OBVIOUS
<1>2. FreshRow(c) = Extended(o, c, Fresh)
  BY DEF FreshRow
<1> HIDE DEF o
<1>3. Extended(o, c, Fresh) \in [1 .. c -> V]
  <2> DEFINE e == Fresh
  <2> HIDE DEF e
  <2>1. 0 \in Nat /\ o \in [1 .. 0 -> V] /\ c \in Nat /\ 0 <= c /\ e \in V
    BY <1>1 DEF e
  <2>2. IsExtended(V, o, 0, c, e, Extended(o, c, e))
    BY ONLY <2>1, ExtendedIs
  <2> QED
    BY <2>2 DEF e, IsExtended
<1> QED
  BY <1>2, <1>3

\* dyn_matrix_init makes a matrix of the size asked for.
LEMMA DynNewIs ==
  ASSUME NEW V, Fresh \in V, NEW r \in Nat, NEW c \in Nat
  PROVE  DynNew(r, c) \in DynRects(r, c, V)
<1> DEFINE o == <<>>
           S == [1 .. c -> V]
           e == FreshRow(c)
<1>1. e \in S
  BY FreshRowIs
<1> HIDE DEF S, e
<1>2. o \in [1 .. 0 -> S] /\ 0 \in Nat /\ 0 <= r
  OBVIOUS
<1>3. DynNew(r, c) = [n_rows |-> r, n_cols |-> c, rows |-> Extended(o, r, e)]
  BY DEF DynNew, e
<1> HIDE DEF o
<1>4. Extended(o, r, e) \in [1 .. r -> S]
  <2>1. IsExtended(S, o, 0, r, e, Extended(o, r, e))
    BY ONLY r \in Nat, <1>1, <1>2, ExtendedIs
  <2> QED
    BY <2>1 DEF IsExtended
<1> QED
  BY <1>3, <1>4 DEF DynRects, S

\* t has what m has, and may be larger.
DynGrown(V, m, r, c, t, r1, c1) ==
  /\ t \in DynRects(r1, c1, V) /\ r <= r1 /\ c <= c1
  /\ \A a \in 0 .. r - 1, b \in 0 .. c - 1 : DynAccess(t, a, b) = DynAccess(m, a, b)

\* More rows, ...
LEMMA RowsGrow ==
  ASSUME NEW V, Fresh \in V, NEW r \in Nat, NEW c \in Nat, NEW m \in DynRects(r, c, V),
         NEW u \in Nat, r <= u,
         NEW t, t = [m EXCEPT !.rows = Extended(@, u, FreshRow(m.n_cols)), !.n_rows = u]
  PROVE  DynGrown(V, m, r, c, t, u, c)
<1> DEFINE q == m.rows
           S == [1 .. c -> V]
           e == FreshRow(c)
           z == Extended(q, u, e)
<1>1. m = [n_rows |-> r, n_cols |-> c, rows |-> q] /\ q \in [1 .. r -> S] /\ m.n_cols = c
  BY DEF DynRects
<1>2. e \in S
  BY FreshRowIs
<1>3. t = [m EXCEPT !.rows = z, !.n_rows = u]
  BY <1>1
<1> HIDE DEF q, S, e
<1>4. z \in [1 .. u -> S] /\ \A i \in 1 .. u : z[i] = IF i <= r THEN q[i] ELSE e
  <2>1. r \in Nat /\ q \in [1 .. r -> S] /\ u \in Nat /\ r <= u /\ e \in S
    BY <1>1, <1>2
  <2>2. IsExtended(S, q, r, u, e, z)
    BY ONLY <2>1, ExtendedIs DEF z
  <2> QED
    BY ONLY <2>2 DEF IsExtended
<1> HIDE DEF z
<1>5. t = [n_rows |-> u, n_cols |-> c, rows |-> z]
  BY ONLY <1>1, <1>3
<1>6. t \in DynRects(u, c, V)
  BY ONLY <1>4, <1>5 DEF DynRects, S
<1>7. ASSUME NEW a \in 0 .. r - 1, NEW b \in 0 .. c - 1 PROVE DynAccess(t, a, b) = DynAccess(m, a, b)
  <2>1. a + 1 \in 1 .. u /\ a + 1 <= r
    OBVIOUS
  <2>2. z[a + 1] = q[a + 1]
    BY <1>4, <2>1
  <2>3. t.rows = z
    BY ONLY <1>5
  <2> QED
    BY <2>2, <2>3, Zenon DEF DynAccess, q
<1>8. c <= c
  OBVIOUS
<1> QED
  BY <1>6, <1>7, <1>8, Zenon DEF DynGrown

\* ... and longer ones.
LEMMA ColsGrow ==
  ASSUME NEW V, Fresh \in V, NEW r \in Nat, NEW c \in Nat, NEW m \in DynRects(r, c, V),
         NEW v \in Nat, c <= v,
         NEW t, t = [m EXCEPT !.rows = [i \in DOMAIN @ |-> Extended(@[i], v, Fresh)], !.n_cols = v]
  PROVE  DynGrown(V, m, r, c, t, r, v)
<1> DEFINE q == m.rows
           z == [i \in 1 .. r |-> Extended(q[i], v, Fresh)]
<1>1. m = [n_rows |-> r, n_cols |-> c, rows |-> q] /\ q \in [1 .. r -> [1 .. c -> V]] /\ DOMAIN q = 1 .. r
  BY DEF DynRects
<1>2. t = [m EXCEPT !.rows = z, !.n_cols = v]
  BY <1>1
<1> HIDE DEF q
<1>3. ASSUME NEW i \in 1 .. r
      PROVE  /\ Extended(q[i], v, Fresh) \in [1 .. v -> V]
             /\ \A j \in 1 .. v : Extended(q[i], v, Fresh)[j] = IF j <= c THEN q[i][j] ELSE Fresh
  <2>1. q[i] \in [1 .. c -> V]
    BY <1>1
  <2> DEFINE e == Fresh
             p == q[i]
  <2> HIDE DEF e, p
  <2>2. c \in Nat /\ p \in [1 .. c -> V] /\ v \in Nat /\ c <= v /\ e \in V
    BY <2>1 DEF e, p
  <2>3. IsExtended(V, p, c, v, e, Extended(p, v, e))
    BY ONLY <2>2, ExtendedIs
  <2> QED
    BY <2>3 DEF e, p, IsExtended
<1>4. z \in [1 .. r -> [1 .. v -> V]] /\ \A i \in 1 .. r : z[i] = Extended(q[i], v, Fresh)
  BY <1>3
<1> HIDE DEF z
<1>5. t = [n_rows |-> r, n_cols |-> v, rows |-> z]
  BY ONLY <1>1, <1>2
<1>6. t \in DynRects(r, v, V)
  BY ONLY <1>4, <1>5 DEF DynRects
<1>7. ASSUME NEW a \in 0 .. r - 1, NEW b \in 0 .. c - 1 PROVE DynAccess(t, a, b) = DynAccess(m, a, b)
  <2>1. a + 1 \in 1 .. r /\ b + 1 \in 1 .. v /\ b + 1 <= c
    OBVIOUS
  <2>2. z[a + 1][b + 1] = q[a + 1][b + 1]
    BY <1>3, <1>4, <2>1
  <2>3. t.rows = z
    BY ONLY <1>5
  <2> QED
    BY <2>2, <2>3, Zenon DEF DynAccess, q
<1>8. r <= r
  OBVIOUS
<1> QED
  BY <1>6, <1>7, <1>8, Zenon DEF DynGrown

\* dyn_matrix_resize only makes a matrix larger, and keeps what is in it.
LEMMA DynResizeIs ==
  ASSUME NEW V, Fresh \in V, NEW r \in Nat, NEW c \in Nat, NEW m \in DynRects(r, c, V),
         NEW u \in Nat, NEW v \in Nat, NEW t, t = DynResize(m, u, v),
         NEW r1, r1 = IF u >= r THEN u ELSE r, NEW c1, c1 = IF v >= c THEN v ELSE c
  PROVE  DynGrown(V, m, r, c, t, r1, c1)
<1> DEFINE taller == IF u >= m.n_rows
                     THEN [m EXCEPT !.rows = Extended(@, u, FreshRow(m.n_cols)), !.n_rows = u] ELSE m
           wider == [taller EXCEPT !.rows = [i \in DOMAIN @ |-> Extended(@[i], v, Fresh)], !.n_cols = v]
<1>1. m.n_rows = r /\ m.n_cols = c
  BY DEF DynRects
<1>2. DynGrown(V, m, r, c, taller, r1, c)
  <2>1. CASE u >= r
    <3>1. taller = [m EXCEPT !.rows = Extended(@, u, FreshRow(m.n_cols)), !.n_rows = u] /\ r <= u /\ r1 = u
      BY <1>1, <2>1
    <3> HIDE DEF taller
    <3> QED
      BY <3>1, RowsGrow
  <2>2. CASE ~(u >= r)
    <3>1. taller = m /\ r1 = r
      BY <1>1, <2>2
    <3> HIDE DEF taller
    <3> QED
      BY <3>1 DEF DynGrown
  <2> QED
    BY <2>1, <2>2
<1>3. t = IF v >= taller.n_cols THEN wider ELSE taller
  BY DEF DynResize
<1> HIDE DEF taller
<1>4. taller \in DynRects(r1, c, V) /\ r <= r1 /\ r1 \in Nat
  BY <1>2 DEF DynGrown
<1>5. taller.n_cols = c
  BY <1>4 DEF DynRects
<1>6. CASE v >= c
  <2>1. t = wider /\ c <= v /\ c1 = v
    BY <1>3, <1>5, <1>6
  <2> HIDE DEF wider
  <2>2. DynGrown(V, taller, r1, c, wider, r1, v)
    BY <1>4, <2>1, ColsGrow DEF wider
  <2>3. \A a \in 0 .. r - 1 : a \in 0 .. r1 - 1
    BY <1>4
  <2> QED
    BY <1>2, <1>4, <2>1, <2>2, <2>3 DEF DynGrown
<1>7. CASE ~(v >= c)
  BY <1>2, <1>3, <1>5, <1>7
<1> QED
  BY <1>6, <1>7

-----------------------------------------------------------------------------
\* What slots may hold.
MatrixValues == Weights \cup {NoEdge, 1, Fresh}

Graphs(V) == [is_directed : BOOLEAN, is_weighted : BOOLEAN, n_edges : Int, matrix : Squares(Vertices, V)]

\* A matrix m has the edges e and no others.
Shows(m, e) ==
  /\ m \in Squares(Vertices, MatrixValues)
  /\ DOMAIN e \subseteq Ends \X Ends /\ IsFiniteSet(DOMAIN e)
  /\ e \in [DOMAIN e -> MatrixValues \ {NoEdge}]
  /\ \A u, v \in Ends : MatrixAccess(m, u, v) = IF <<u, v>> \in DOMAIN e THEN e[<<u, v>>] ELSE NoEdge

\* Every edge is there in both directions, and none is a loop.
BothWays(e) ==
  \A u, v \in Ends : <<u, v>> \in DOMAIN e => u # v /\ <<v, u>> \in DOMAIN e /\ e[<<v, u>>] = e[<<u, v>>]

\* A graph g has the edges e, and counts them.
GraphFits(g, e) ==
  /\ g \in Graphs(MatrixValues) /\ Shows(g.matrix, e)
  /\ g.n_edges = Cardinality(DOMAIN e)
  /\ g.is_directed \/ BothWays(e)

\* g has what f has, and w at p.
HasPut(S, f, p, w, g) ==
  /\ DOMAIN g = DOMAIN f \cup {p} /\ g \in [DOMAIN g -> S]
  /\ g[p] = w /\ \A q \in DOMAIN f : q # p => g[q] = f[q]

\* A ghost with one more place.
LEMMA PuttingIs ==
  ASSUME NEW S, NEW f, f \in [DOMAIN f -> S], NEW p, NEW w \in S
  PROVE  HasPut(S, f, p, w, Putting(f, p, w))
BY DEF Putting, HasPut

\* The elements of a graph's matrix when one is written.
MatrixHasPut(V, m, u, v, w, t) ==
  /\ t \in Squares(Vertices, V)
  /\ \A a, b \in Ends : MatrixAccess(t, a, b) = IF a = u /\ b = v THEN w ELSE MatrixAccess(m, a, b)

\* It is written by matrix_set.
LEMMA GraphSetIs ==
  ASSUME NEW V, NEW m \in Squares(Vertices, V), NEW u \in Ends, NEW v \in Ends, NEW w \in V
  PROVE  MatrixHasPut(V, m, u, v, w, MatrixSet(m, u, v, w))
<1> DEFINE n == Vertices
<1>1. Ends = 0 .. n - 1 /\ n \in Nat
  BY MatrixAssumption DEF Ends
<1>2. m \in Squares(n, V)
  OBVIOUS
<1> HIDE DEF n
<1>3. n \in Nat /\ m \in Squares(n, V) /\ u \in 0 .. n - 1 /\ v \in 0 .. n - 1 /\ w \in V
  BY <1>1, <1>2
<1>4. MatrixIsPut(n, V, m, u, v, w, MatrixSet(m, u, v, w))
  BY ONLY <1>3, MatrixSetIs
<1> QED
  BY <1>1, <1>4, Zenon DEF MatrixHasPut, MatrixIsPut, n

\* A new graph has no edges.
LEMMA GraphNew ==
  ASSUME GraphInit
  PROVE  GraphFits(graph, edges)
<1> DEFINE N == Vertices * Vertices - 1
           z == [i \in 0 .. N |-> NoEdge]
           m == [n_rows |-> Vertices, n_cols |-> Vertices, elements |-> z]
<1>1. graph.matrix = m /\ graph.n_edges = 0 /\ graph.is_directed \in BOOLEAN /\ graph.is_weighted \in BOOLEAN
      /\ graph = [is_directed |-> graph.is_directed, is_weighted |-> graph.is_weighted, n_edges |-> 0, matrix |-> m]
  <2>1. PICK d \in BOOLEAN, w \in BOOLEAN : graph = AdjNew(d, w)
    BY DEF GraphInit
  <2>2. graph = [is_directed |-> d, is_weighted |-> w, n_edges |-> 0, matrix |-> m]
    BY <2>1, Zenon DEF AdjNew, MatrixNew
  <2> HIDE DEF m
  <2> QED
    BY ONLY <2>2
<1>2. z \in [0 .. N -> MatrixValues] /\ \A i \in 0 .. N : z[i] = NoEdge
  BY DEF MatrixValues
<1> HIDE DEF z
<1>3. m \in Squares(Vertices, MatrixValues)
  BY <1>2 DEF Squares
<1>4. \A u, v \in Ends : MatrixAccess(m, u, v) = NoEdge
  <2> SUFFICES ASSUME NEW u \in Ends, NEW v \in Ends PROVE MatrixAccess(m, u, v) = NoEdge
    OBVIOUS
  <2>1. Vertices * u + v \in 0 .. N
    BY MatrixAssumption, PlaceWithin DEF Ends
  <2> QED
    BY <1>2, <2>1 DEF MatrixAccess, MatrixIndex
<1> HIDE DEF m
<1>5. graph \in Graphs(MatrixValues)
  BY <1>1, <1>3 DEF Graphs
<1>6. DOMAIN edges = {} /\ edges \in [DOMAIN edges -> MatrixValues \ {NoEdge}]
  BY DEF GraphInit
<1>7. IsFiniteSet(DOMAIN edges) /\ Cardinality(DOMAIN edges) = 0
  BY <1>6, FS_EmptySet
<1> QED
  BY <1>1, <1>3, <1>4, <1>5, <1>6, <1>7 DEF GraphFits, Shows, BothWays

\* An edge is put in a matrix ...
LEMMA ShowsPut ==
  ASSUME NEW m, NEW e, Shows(m, e), NEW u \in Ends, NEW v \in Ends, NEW x \in MatrixValues \ {NoEdge}
  PROVE  /\ Shows(MatrixSet(m, u, v, x), Putting(e, <<u, v>>, x))
         /\ HasPut(MatrixValues \ {NoEdge}, e, <<u, v>>, x, Putting(e, <<u, v>>, x))
<1> DEFINE p == <<u, v>>
           V == MatrixValues
           t == MatrixSet(m, u, v, x)
           f == Putting(e, p, x)
<1>1. m \in Squares(Vertices, V) /\ e \in [DOMAIN e -> V \ {NoEdge}] /\ IsFiniteSet(DOMAIN e) /\ DOMAIN e \subseteq Ends \X Ends
  BY DEF Shows
<1>2. t \in Squares(Vertices, V) /\ \A a, b \in Ends : MatrixAccess(t, a, b) = IF a = u /\ b = v THEN x ELSE MatrixAccess(m, a, b)
  <2> HIDE DEF V
  <2>1. x \in V
    BY DEF V
  <2>2. MatrixHasPut(V, m, u, v, x, t)
    BY <1>1, <2>1, GraphSetIs
  <2> QED
    BY <2>2, Zenon DEF MatrixHasPut
<1>3. HasPut(V \ {NoEdge}, e, p, x, f)
  BY <1>1, PuttingIs
<1>4. /\ DOMAIN f = DOMAIN e \cup {p} /\ f \in [DOMAIN f -> V \ {NoEdge}]
      /\ f[p] = x /\ \A q \in DOMAIN e : q # p => f[q] = e[q]
  BY <1>3, Zenon DEF HasPut
<1> HIDE DEF f, t, V
<1>5. IsFiniteSet(DOMAIN f) /\ DOMAIN f \subseteq Ends \X Ends
  BY <1>1, <1>4, FS_AddElement
<1>6. ASSUME NEW a \in Ends, NEW b \in Ends
      PROVE  MatrixAccess(t, a, b) = IF <<a, b>> \in DOMAIN f THEN f[<<a, b>>] ELSE NoEdge
  <2>1. MatrixAccess(m, a, b) = IF <<a, b>> \in DOMAIN e THEN e[<<a, b>>] ELSE NoEdge
    BY DEF Shows
  <2>2. CASE a = u /\ b = v
    BY <1>2, <1>4, <2>2
  <2>3. CASE ~(a = u /\ b = v)
    BY <1>2, <1>4, <2>1, <2>3
  <2> QED
    BY <2>2, <2>3
<1> QED
  BY <1>2, <1>3, <1>4, <1>5, <1>6 DEF Shows, f, t, V

\* ... or taken out of it.
LEMMA ShowsCut ==
  ASSUME NEW m, NEW e, Shows(m, e), NEW u \in Ends, NEW v \in Ends,
         NEW f, f = [q \in DOMAIN e \ {<<u, v>>} |-> e[q]]
  PROVE  Shows(MatrixSet(m, u, v, NoEdge), f)
<1> DEFINE p == <<u, v>>
           V == MatrixValues
           t == MatrixSet(m, u, v, NoEdge)
<1>1. m \in Squares(Vertices, V) /\ e \in [DOMAIN e -> V \ {NoEdge}] /\ IsFiniteSet(DOMAIN e) /\ DOMAIN e \subseteq Ends \X Ends
  BY DEF Shows
<1>2. t \in Squares(Vertices, V) /\ \A a, b \in Ends : MatrixAccess(t, a, b) = IF a = u /\ b = v THEN NoEdge ELSE MatrixAccess(m, a, b)
  <2>1. NoEdge \in V
    BY DEF MatrixValues
  <2> DEFINE x == NoEdge
  <2> HIDE DEF V, x
  <2>2. MatrixHasPut(V, m, u, v, x, MatrixSet(m, u, v, x))
    BY <1>1, <2>1, GraphSetIs DEF x
  <2> QED
    BY <2>2, Zenon DEF MatrixHasPut, x
<1>3. DOMAIN f = DOMAIN e \ {p} /\ f \in [DOMAIN f -> V \ {NoEdge}] /\ \A q \in DOMAIN f : f[q] = e[q]
  BY <1>1
<1> HIDE DEF t, V
<1>4. IsFiniteSet(DOMAIN f) /\ DOMAIN f \subseteq Ends \X Ends
  BY <1>1, <1>3, FS_RemoveElement
<1>5. ASSUME NEW a \in Ends, NEW b \in Ends
      PROVE  MatrixAccess(t, a, b) = IF <<a, b>> \in DOMAIN f THEN f[<<a, b>>] ELSE NoEdge
  <2>1. MatrixAccess(m, a, b) = IF <<a, b>> \in DOMAIN e THEN e[<<a, b>>] ELSE NoEdge
    BY DEF Shows
  <2>2. CASE a = u /\ b = v
    BY <1>2, <1>3, <2>2
  <2>3. CASE ~(a = u /\ b = v)
    BY <1>2, <1>3, <2>1, <2>3
  <2> QED
    BY <2>2, <2>3
<1> QED
  BY <1>2, <1>3, <1>4, <1>5 DEF Shows, t, V

\* matrix_transpose turns the edges of a matrix around.
LEMMA ShowsTurned ==
  ASSUME NEW m, NEW e, Shows(m, e),
         NEW f, f = [q \in {<<d[2], d[1]>> : d \in DOMAIN e} |-> e[<<q[2], q[1]>>]]
  PROVE  Shows(MatrixTranspose(m), f) /\ Cardinality(DOMAIN f) = Cardinality(DOMAIN e)
<1> DEFINE V == MatrixValues
           t == MatrixTranspose(m)
           n == Vertices
           E == DOMAIN e
           T == {<<d[2], d[1]>> : d \in E}
           g == [d \in E |-> <<d[2], d[1]>>]
<1>1. m \in Squares(n, V) /\ e \in [E -> V \ {NoEdge}] /\ IsFiniteSet(E) /\ E \subseteq Ends \X Ends
  BY DEF Shows
<1>2. t \in Squares(n, V) /\ \A u, v \in Ends : MatrixAccess(t, u, v) = MatrixAccess(m, v, u)
  <2>1. Ends = 0 .. n - 1 /\ n \in Nat
    BY MatrixAssumption DEF Ends
  <2> HIDE DEF n, V
  <2> QED
    BY <1>1, <2>1, MatrixTransposed
<1> HIDE DEF t, V, n, E
<1>3. \A d \in E : d = <<d[1], d[2]>> /\ d[1] \in Ends /\ d[2] \in Ends
  BY <1>1
<1>4. \A u, v \in Ends : <<u, v>> \in T <=> <<v, u>> \in E
  BY <1>3
<1>5. T \subseteq Ends \X Ends
  BY <1>3
<1>6. DOMAIN f = T /\ \A u, v \in Ends : <<u, v>> \in T => f[<<u, v>>] = e[<<v, u>>]
  BY DEF E
<1>7. g \in Bijection(E, T)
  <2>1. g \in [E -> T] /\ \A d \in E : g[d] = <<d[2], d[1]>>
    OBVIOUS
  <2>2. \A c, d \in E : g[c] = g[d] => c = d
    BY <1>3, <2>1
  <2>3. \A q \in T : \E d \in E : g[d] = q
    BY <2>1
  <2> HIDE DEF g, T
  <2> QED
    BY <2>1, <2>2, <2>3 DEF Bijection, Injection, Surjection, IsInjective
<1>8. IsFiniteSet(T) /\ Cardinality(T) = Cardinality(E)
  <2>1. ExistsBijection(E, T)
    BY <1>7 DEF ExistsBijection
  <2> HIDE DEF T
  <2> QED
    BY <1>1, <2>1, FS_Bijection
<1> HIDE DEF T, g
<1>9. f \in [T -> V \ {NoEdge}]
  <2>1. f = [q \in T |-> e[<<q[2], q[1]>>]]
    BY DEF T, E
  <2>2. ASSUME NEW q \in T PROVE <<q[2], q[1]>> \in E
    <3>1. PICK d \in E : q = <<d[2], d[1]>>
      BY DEF T
    <3>2. <<q[2], q[1]>> = d
      BY <1>3, <3>1
    <3> QED
      BY <3>2
  <2> QED
    BY <1>1, <2>1, <2>2
<1>10. ASSUME NEW u \in Ends, NEW v \in Ends
       PROVE  MatrixAccess(t, u, v) = IF <<u, v>> \in T THEN f[<<u, v>>] ELSE NoEdge
  <2>1. MatrixAccess(m, v, u) = IF <<v, u>> \in E THEN e[<<v, u>>] ELSE NoEdge
    BY DEF Shows, E
  <2> QED
    BY <1>2, <1>4, <1>6, <2>1
<1>11. Shows(t, f)
  BY <1>2, <1>5, <1>6, <1>8, <1>9, <1>10 DEF Shows, V, n
<1> QED
  BY <1>6, <1>8, <1>11 DEF t, E

-----------------------------------------------------------------------------
\* h is the graph g with another matrix and another count.
IsWith(g, m, k, h) == h = [g EXCEPT !.matrix = m, !.n_edges = k]

\* Such a graph.
LEMMA GraphWith ==
  ASSUME NEW V, NEW g \in Graphs(V), NEW m \in Squares(Vertices, V), NEW k \in Int,
         NEW h, IsWith(g, m, k, h)
  PROVE  h \in Graphs(V) /\ h.matrix = m /\ h.n_edges = k /\ h.is_directed = g.is_directed
<1>1. g = [is_directed |-> g.is_directed, is_weighted |-> g.is_weighted, n_edges |-> g.n_edges, matrix |-> g.matrix]
      /\ g.is_directed \in BOOLEAN /\ g.is_weighted \in BOOLEAN
  BY DEF Graphs
<1>2. h = [is_directed |-> g.is_directed, is_weighted |-> g.is_weighted, n_edges |-> k, matrix |-> m]
  <2>1. h = [g EXCEPT !.matrix = m, !.n_edges = k]
    BY DEF IsWith
  <2> QED
    BY ONLY <1>1, <2>1
<1> QED
  BY <1>1, <1>2 DEF Graphs

\* adj_matrix_edge_addd
LEMMA DirectedAdded ==
  ASSUME NEW g, NEW e, GraphFits(g, e), g.is_directed, NEW u \in Ends, NEW v \in Ends, NEW w \in Weights,
         <<u, v>> \notin DOMAIN e, NEW x, x = (IF g.is_weighted THEN w ELSE 1)
  PROVE  GraphFits(EdgeAddD(g, u, v, w), Putting(e, <<u, v>>, x))
<1> DEFINE p == <<u, v>>
           m == MatrixSet(g.matrix, u, v, x)
           h == EdgeAddD(g, u, v, w)
           f == Putting(e, p, x)
           k == g.n_edges + 1
<1>1. g \in Graphs(MatrixValues) /\ g.n_edges \in Int /\ Shows(g.matrix, e) /\ g.n_edges = Cardinality(DOMAIN e)
  BY DEF GraphFits, Graphs
<1>2. x \in MatrixValues \ {NoEdge}
  BY MatrixAssumption DEF MatrixValues, NoEdge
<1>3. IsWith(g, m, k, h)
  BY Zenon DEF EdgeAddD, IsWith
<1> HIDE DEF h
<1>4. Shows(m, f) /\ DOMAIN f = DOMAIN e \cup {p}
  <2>1. Shows(m, f) /\ HasPut(MatrixValues \ {NoEdge}, e, p, x, f)
    BY <1>1, <1>2, ShowsPut
  <2> QED
    BY <2>1, Zenon DEF HasPut
<1> HIDE DEF m, f
<1>5. Cardinality(DOMAIN f) = k /\ k \in Int
  <2>1. IsFiniteSet(DOMAIN e) /\ p \notin DOMAIN e
    BY <1>1 DEF Shows
  <2> HIDE DEF p
  <2>2. Cardinality(DOMAIN e \cup {p}) = Cardinality(DOMAIN e) + 1
    BY <2>1, FS_AddElement
  <2> QED
    BY <1>1, <1>4, <2>2
<1>6. m \in Squares(Vertices, MatrixValues)
  BY <1>4 DEF Shows
<1> HIDE DEF k
<1>7. h \in Graphs(MatrixValues) /\ h.matrix = m /\ h.n_edges = k /\ h.is_directed = g.is_directed
  <2>1. g \in Graphs(MatrixValues) /\ k \in Int
    BY <1>1, <1>5
  <2> DEFINE V == MatrixValues
  <2> HIDE DEF V
  <2>2. g \in Graphs(V) /\ m \in Squares(Vertices, V) /\ k \in Int
    BY <2>1, <1>6 DEF V
  <2>3. h \in Graphs(V) /\ h.matrix = m /\ h.n_edges = k /\ h.is_directed = g.is_directed
    BY ONLY <2>2, <1>3, GraphWith
  <2> QED
    BY <2>3 DEF V
<1> QED
  BY <1>4, <1>5, <1>7 DEF GraphFits, h, f

\* adj_matrix_edge_addu
LEMMA UndirectedAdded ==
  ASSUME NEW g, NEW e, GraphFits(g, e), ~g.is_directed, NEW u \in Ends, NEW v \in Ends, u # v,
         <<u, v>> \notin DOMAIN e
  PROVE  GraphFits(EdgeAddU(g, u, v), Putting(Putting(e, <<u, v>>, 1), <<v, u>>, 1))
<1> DEFINE p == <<u, v>>
           q == <<v, u>>
           m == MatrixSet(g.matrix, u, v, 1)
           t == MatrixSet(m, v, u, 1)
           h == EdgeAddU(g, u, v)
           d == Putting(e, p, 1)
           f == Putting(d, q, 1)
           k == g.n_edges + 2
<1>1. g \in Graphs(MatrixValues) /\ g.n_edges \in Int /\ Shows(g.matrix, e) /\ g.n_edges = Cardinality(DOMAIN e)
      /\ BothWays(e)
  BY DEF GraphFits, Graphs
<1>2. 1 \in MatrixValues \ {NoEdge}
  BY DEF MatrixValues, NoEdge
<1>3. IsWith(g, t, k, h)
  BY Zenon DEF EdgeAddU, IsWith
<1> HIDE DEF h
<1>4. Shows(m, d) /\ DOMAIN d = DOMAIN e \cup {p} /\ d[p] = 1 /\ \A c \in DOMAIN e : c # p => d[c] = e[c]
  <2>1. Shows(m, d) /\ HasPut(MatrixValues \ {NoEdge}, e, p, 1, d)
    BY <1>1, <1>2, ShowsPut
  <2> QED
    BY <2>1, Zenon DEF HasPut
<1> HIDE DEF m, d
<1>5. Shows(t, f) /\ DOMAIN f = DOMAIN d \cup {q} /\ f[q] = 1 /\ \A c \in DOMAIN d : c # q => f[c] = d[c]
  <2>1. Shows(t, f) /\ HasPut(MatrixValues \ {NoEdge}, d, q, 1, f)
    BY <1>2, <1>4, ShowsPut
  <2> QED
    BY <2>1, Zenon DEF HasPut
<1> HIDE DEF t, f
<1>6. p # q /\ q \notin DOMAIN e
  BY <1>1 DEF BothWays
<1>7. Cardinality(DOMAIN f) = k /\ k \in Int
  <2>1. IsFiniteSet(DOMAIN e)
    BY <1>1 DEF Shows
  <2>2. IsFiniteSet(DOMAIN d) /\ Cardinality(DOMAIN d) = g.n_edges + 1
    BY <1>1, <1>4, <2>1, FS_AddElement
  <2> HIDE DEF p, q
  <2>3. q \notin DOMAIN d
    BY <1>4, <1>6
  <2> QED
    BY <1>1, <1>5, <2>2, <2>3, FS_AddElement
<1>8. t \in Squares(Vertices, MatrixValues)
  BY <1>5 DEF Shows
<1> HIDE DEF k
<1>9. h \in Graphs(MatrixValues) /\ h.matrix = t /\ h.n_edges = k /\ h.is_directed = g.is_directed
  <2>1. g \in Graphs(MatrixValues) /\ k \in Int
    BY <1>1, <1>7
  <2> DEFINE V == MatrixValues
  <2> HIDE DEF V
  <2>2. g \in Graphs(V) /\ t \in Squares(Vertices, V) /\ k \in Int
    BY <2>1, <1>8 DEF V
  <2>3. h \in Graphs(V) /\ h.matrix = t /\ h.n_edges = k /\ h.is_directed = g.is_directed
    BY ONLY <2>2, <1>3, GraphWith
  <2> QED
    BY <2>3 DEF V
<1>10. BothWays(f)
  <2> SUFFICES ASSUME NEW a \in Ends, NEW b \in Ends, <<a, b>> \in DOMAIN f
               PROVE  a # b /\ <<b, a>> \in DOMAIN f /\ f[<<b, a>>] = f[<<a, b>>]
    BY DEF BothWays
  <2>1. f[p] = 1 /\ f[q] = 1
    BY <1>4, <1>5, <1>6
  <2>2. CASE <<a, b>> \in {p, q}
    BY <1>4, <1>5, <1>6, <2>1, <2>2
  <2>3. CASE <<a, b>> \notin {p, q}
    <3>1. <<a, b>> \in DOMAIN e /\ <<b, a>> \notin {p, q}
      BY <1>4, <1>5, <2>3
    <3>2. a # b /\ <<b, a>> \in DOMAIN e /\ e[<<b, a>>] = e[<<a, b>>]
      BY <1>1, <3>1 DEF BothWays
    <3> HIDE DEF p, q
    <3> QED
      BY <1>4, <1>5, <2>3, <3>1, <3>2
  <2> QED
    BY <2>2, <2>3
<1> QED
  BY <1>5, <1>7, <1>9, <1>10 DEF GraphFits, h, f, d

-----------------------------------------------------------------------------
\* adj_matrix_edge_remove
LEMMA EdgeRemoved ==
  ASSUME NEW g, NEW e, GraphFits(g, e), NEW u \in Ends, NEW v \in Ends, <<u, v>> \in DOMAIN e,
         NEW f, f = [c \in DOMAIN e \ (IF g.is_directed THEN {<<u, v>>} ELSE {<<u, v>>, <<v, u>>}) |-> e[c]]
  PROVE  GraphFits(EdgeRemove(g, u, v), f)
<1> DEFINE p == <<u, v>>
           q == <<v, u>>
           m == MatrixSet(g.matrix, u, v, NoEdge)
           t == MatrixSet(m, v, u, NoEdge)
           h == EdgeRemove(g, u, v)
           d == [c \in DOMAIN e \ {p} |-> e[c]]
           V == MatrixValues
<1>1. g \in Graphs(V) /\ g.n_edges \in Int /\ g.n_edges = Cardinality(DOMAIN e)
      /\ IsFiniteSet(DOMAIN e) /\ p \in DOMAIN e
  BY DEF GraphFits, Graphs, Shows
<1>2. Shows(g.matrix, e)
  BY DEF GraphFits
<1>3. Shows(m, d) /\ DOMAIN d = DOMAIN e \ {p} /\ \A c \in DOMAIN d : d[c] = e[c]
  <2>1. \A z : z = d => Shows(m, z)
    BY <1>2, ShowsCut
  <2> QED
    BY <2>1
<1> HIDE DEF m, d
<1>4. Cardinality(DOMAIN d) = g.n_edges - 1 /\ IsFiniteSet(DOMAIN d)
  <2> HIDE DEF p
  <2>1. Cardinality(DOMAIN e \ {p}) = Cardinality(DOMAIN e) - 1 /\ IsFiniteSet(DOMAIN e \ {p})
    BY <1>1, FS_RemoveElement
  <2> QED
    BY <1>1, <1>3, <2>1
<1>5. CASE g.is_directed
  <2> DEFINE k == g.n_edges - 1
  <2>1. IsWith(g, m, k, h) /\ k \in Int
    <3>1. h = [g EXCEPT !.matrix = m, !.n_edges = k]
      BY <1>5 DEF EdgeRemove, m
    <3> HIDE DEF h
    <3>2. k \in Int
      BY <1>1
    <3> QED
      BY <3>1, <3>2, Zenon DEF IsWith
  <2>2. f = d
    BY <1>5 DEF d
  <2> HIDE DEF h, k, V
  <2>3. g \in Graphs(V) /\ m \in Squares(Vertices, V) /\ k \in Int
    BY <1>1, <1>3, <2>1 DEF Shows, V
  <2>4. h \in Graphs(V) /\ h.matrix = m /\ h.n_edges = k /\ h.is_directed = g.is_directed
    BY ONLY <2>1, <2>3, GraphWith
  <2> QED
    BY <1>3, <1>4, <1>5, <2>2, <2>4 DEF GraphFits, V, h, k
<1>6. CASE ~g.is_directed
  <2> DEFINE k == g.n_edges - 2
  <2>1. IsWith(g, t, k, h) /\ k \in Int
    <3>1. h = [g EXCEPT !.matrix = t, !.n_edges = k]
      BY <1>6 DEF EdgeRemove, m
    <3> HIDE DEF h
    <3>2. k \in Int
      BY <1>1
    <3> QED
      BY <3>1, <3>2, Zenon DEF IsWith
  <2> HIDE DEF h, k
  <2>2. BothWays(e)
    BY <1>6 DEF GraphFits
  <2>3. p # q /\ q \in DOMAIN e /\ q \in DOMAIN d
    BY <1>1, <1>3, <2>2 DEF BothWays
  <2>4. DOMAIN f = DOMAIN e \ {p, q} /\ \A c \in DOMAIN f : f[c] = e[c]
    BY <1>6
  <2>5. f = [c \in DOMAIN d \ {q} |-> d[c]]
    <3>1. f = [c \in DOMAIN e \ {p, q} |-> e[c]]
      BY <1>6
    <3> HIDE DEF p, q
    <3>2. DOMAIN d \ {q} = DOMAIN e \ {p, q}
      BY <1>3
    <3> QED
      BY <1>3, <3>1, <3>2
  <2>6. Shows(t, f)
    BY <1>3, <2>5, ShowsCut
  <2> HIDE DEF t, V
  <2>7. Cardinality(DOMAIN f) = g.n_edges - 2
    <3> HIDE DEF p, q
    <3>1. DOMAIN f = DOMAIN d \ {q}
      BY <1>3, <2>4
    <3>2. Cardinality(DOMAIN d \ {q}) = Cardinality(DOMAIN d) - 1
      BY <1>4, <2>3, FS_RemoveElement
    <3>3. Cardinality(DOMAIN f) = Cardinality(DOMAIN d) - 1 /\ Cardinality(DOMAIN d) = g.n_edges - 1
      BY <1>4, <3>1, <3>2, Zenon
    <3> QED
      BY ONLY <1>1, <3>3
  <2>8. g \in Graphs(V) /\ t \in Squares(Vertices, V) /\ k \in Int
    BY <1>1, <2>1, <2>6 DEF Shows, V
  <2>9. h \in Graphs(V) /\ h.matrix = t /\ h.n_edges = k /\ h.is_directed = g.is_directed
    BY ONLY <2>1, <2>8, GraphWith
  <2>10. BothWays(f)
    <3> SUFFICES ASSUME NEW a \in Ends, NEW b \in Ends, <<a, b>> \in DOMAIN f
                 PROVE  a # b /\ <<b, a>> \in DOMAIN f /\ f[<<b, a>>] = f[<<a, b>>]
      BY DEF BothWays
    <3>1. <<a, b>> \in DOMAIN e /\ <<b, a>> \notin {p, q}
      BY <2>4
    <3>2. a # b /\ <<b, a>> \in DOMAIN e /\ e[<<b, a>>] = e[<<a, b>>]
      BY <2>2, <3>1 DEF BothWays
    <3> HIDE DEF p, q
    <3> QED
      BY <2>4, <3>1, <3>2
  <2> QED
    BY <2>6, <2>7, <2>9, <2>10 DEF GraphFits, V, h, k
<1> QED
  BY <1>5, <1>6

\* adj_matrix_transpose
LEMMA GraphTurned ==
  ASSUME NEW g, NEW e, GraphFits(g, e),
         NEW f, f = [q \in {<<d[2], d[1]>> : d \in DOMAIN e} |-> e[<<q[2], q[1]>>]],
         NEW h, h = [g EXCEPT !.matrix = MatrixTranspose(@)]
  PROVE  GraphFits(h, f)
<1> DEFINE t == MatrixTranspose(g.matrix)
           V == MatrixValues
<1>1. g \in Graphs(V) /\ g.n_edges = Cardinality(DOMAIN e) /\ Shows(g.matrix, e)
  BY DEF GraphFits
<1>2. Shows(t, f) /\ Cardinality(DOMAIN f) = Cardinality(DOMAIN e)
  BY <1>1, ShowsTurned
<1>3. h = [g EXCEPT !.matrix = t]
  OBVIOUS
<1> HIDE DEF t
<1>4. t \in Squares(Vertices, V)
  BY <1>2 DEF Shows
<1> HIDE DEF V
<1>5. h \in Graphs(V) /\ h.matrix = t /\ h.n_edges = g.n_edges /\ h.is_directed = g.is_directed
  <2>1. g = [is_directed |-> g.is_directed, is_weighted |-> g.is_weighted, n_edges |-> g.n_edges, matrix |-> g.matrix]
        /\ g.is_directed \in BOOLEAN /\ g.is_weighted \in BOOLEAN /\ g.n_edges \in Int
    BY <1>1 DEF Graphs
  <2>2. h = [is_directed |-> g.is_directed, is_weighted |-> g.is_weighted, n_edges |-> g.n_edges, matrix |-> t]
    BY ONLY <1>3, <2>1
  <2> QED
    BY <1>4, <2>1, <2>2 DEF Graphs
<1>6. ASSUME BothWays(e) PROVE BothWays(f)
  <2> DEFINE T == {<<d[2], d[1]>> : d \in DOMAIN e}
  <2>1. \A d \in DOMAIN e : d = <<d[1], d[2]>> /\ d[1] \in Ends /\ d[2] \in Ends
    BY <1>1 DEF Shows
  <2>2. \A a, b \in Ends : <<a, b>> \in T <=> <<b, a>> \in DOMAIN e
    BY <2>1
  <2>3. DOMAIN f = T /\ \A a, b \in Ends : <<a, b>> \in T => f[<<a, b>>] = e[<<b, a>>]
    OBVIOUS
  <2> HIDE DEF T
  <2>4. \A a, b \in Ends : <<a, b>> \in DOMAIN e => a # b /\ <<b, a>> \in DOMAIN e /\ e[<<b, a>>] = e[<<a, b>>]
    BY <1>6 DEF BothWays
  <2>5. ASSUME NEW a \in Ends, NEW b \in Ends, <<a, b>> \in DOMAIN f
        PROVE  a # b /\ <<b, a>> \in DOMAIN f /\ f[<<b, a>>] = f[<<a, b>>]
    <3>1. <<b, a>> \in DOMAIN e /\ f[<<a, b>>] = e[<<b, a>>]
      BY <2>2, <2>3, <2>5
    <3>2. b # a /\ <<a, b>> \in DOMAIN e /\ e[<<a, b>>] = e[<<b, a>>]
      BY <2>4, <3>1
    <3>3. <<b, a>> \in T
      BY <2>2, <3>2
    <3> QED
      BY <2>3, <3>1, <3>2, <3>3
  <2> QED
    BY <2>5 DEF BothWays
<1> QED
  BY <1>1, <1>2, <1>5, <1>6 DEF GraphFits, V

\* Every operation on the graph keeps its edges in its matrix.
LEMMA GraphStep ==
  ASSUME GraphFits(graph, edges), GraphNext
  PROVE  GraphFits(graph', edges')
<1> DEFINE F == GraphFits(graph', edges')
<1>1. ASSUME NEW u \in Ends, NEW v \in Ends, NEW w \in Weights, GraphAdd(u, v, w) PROVE F
  <2>1. <<u, v>> \notin DOMAIN edges
    BY <1>1 DEF GraphAdd
  <2>2. CASE graph.is_directed
    <3> DEFINE x == IF graph.is_weighted THEN w ELSE 1
    <3>1. graph' = EdgeAddD(graph, u, v, w) /\ edges' = Putting(edges, <<u, v>>, x)
      BY <1>1, <2>2 DEF GraphAdd
    <3>2. GraphFits(EdgeAddD(graph, u, v, w), Putting(edges, <<u, v>>, x))
      BY <2>1, <2>2, DirectedAdded
    <3> QED
      BY <3>1, <3>2, Zenon
  <2>3. CASE ~graph.is_directed
    <3>1. graph' = EdgeAddU(graph, u, v) /\ edges' = Putting(Putting(edges, <<u, v>>, 1), <<v, u>>, 1) /\ u # v
      BY <1>1, <2>3 DEF GraphAdd
    <3>2. GraphFits(EdgeAddU(graph, u, v), Putting(Putting(edges, <<u, v>>, 1), <<v, u>>, 1))
      BY <2>1, <2>3, <3>1, UndirectedAdded
    <3> QED
      BY <3>1, <3>2, Zenon
  <2> QED
    BY <2>2, <2>3
<1>2. ASSUME NEW u \in Ends, NEW v \in Ends, GraphRemove(u, v) PROVE F
  <2> DEFINE f == [c \in DOMAIN edges \ (IF graph.is_directed THEN {<<u, v>>} ELSE {<<u, v>>, <<v, u>>}) |-> edges[c]]
  <2>1. <<u, v>> \in DOMAIN edges /\ graph' = EdgeRemove(graph, u, v) /\ edges' = f
    BY <1>2 DEF GraphRemove
  <2>2. \A z : z = f => GraphFits(EdgeRemove(graph, u, v), z)
    BY <2>1, EdgeRemoved
  <2> QED
    BY <2>1, <2>2
<1>3. ASSUME GraphTranspose PROVE F
  <2>1. /\ edges' = [q \in {<<d[2], d[1]>> : d \in DOMAIN edges} |-> edges[<<q[2], q[1]>>]]
        /\ graph' = [graph EXCEPT !.matrix = MatrixTranspose(@)]
    BY <1>3 DEF GraphTranspose
  <2> QED
    BY <2>1, GraphTurned
<1> QED
  BY <1>1, <1>2, <1>3 DEF GraphNext

-----------------------------------------------------------------------------
\* A matrix m of r rows and c columns has what was stored.
DynHolds(r, c, m, s) ==
  /\ m \in DynRects(r, c, MatrixValues)
  /\ DOMAIN s \subseteq (0 .. r - 1) \X (0 .. c - 1)
  /\ \A u \in 0 .. r - 1, v \in 0 .. c - 1 : <<u, v>> \in DOMAIN s => DynAccess(m, u, v) = s[<<u, v>>]

\* A matrix of some size has it.
DynFits(m, s) == \E r, c \in Nat : DynHolds(r, c, m, s)

\* A value is put in its place, ...
LEMMA DynPutHolds ==
  ASSUME NEW r \in Nat, NEW c \in Nat, NEW m, NEW s, DynHolds(r, c, m, s),
         NEW u \in 0 .. r - 1, NEW v \in 0 .. c - 1, NEW w \in MatrixValues,
         NEW t, t = [m EXCEPT !.rows[u + 1][v + 1] = w]
  PROVE  DynHolds(r, c, t, Putting(s, <<u, v>>, w))
<1> DEFINE p == <<u, v>>
           V == MatrixValues
           f == Putting(s, p, w)
<1>1. m \in DynRects(r, c, V) /\ w \in V
  BY DEF DynHolds
<1> HIDE DEF V
<1>2. t \in DynRects(r, c, V) /\ \A a \in 0 .. r - 1, b \in 0 .. c - 1 :
                                   DynAccess(t, a, b) = IF a = u /\ b = v THEN w ELSE DynAccess(m, a, b)
  <2>1. DynIsPut(r, c, V, m, u, v, w, t)
    BY <1>1, DynPutIs
  <2> QED
    BY <2>1, Zenon DEF DynIsPut
<1>3. DOMAIN f = DOMAIN s \cup {p} /\ f[p] = w /\ \A q \in DOMAIN s : q # p => f[q] = s[q]
  BY DEF Putting
<1> HIDE DEF f
<1>4. DOMAIN f \subseteq (0 .. r - 1) \X (0 .. c - 1)
  BY <1>3 DEF DynHolds
<1>5. ASSUME NEW a \in 0 .. r - 1, NEW b \in 0 .. c - 1, <<a, b>> \in DOMAIN f
      PROVE  DynAccess(t, a, b) = f[<<a, b>>]
  <2>1. CASE a = u /\ b = v
    BY <1>2, <1>3, <2>1
  <2>2. CASE ~(a = u /\ b = v)
    <3>1. <<a, b>> \in DOMAIN s /\ <<a, b>> # p
      BY <1>3, <1>5, <2>2
    <3>2. DynAccess(m, a, b) = s[<<a, b>>]
      BY <3>1 DEF DynHolds
    <3> QED
      BY <1>2, <1>3, <2>2, <3>1, <3>2
  <2> QED
    BY <2>1, <2>2
<1> QED
  BY <1>2, <1>4, <1>5 DEF DynHolds, f, V

\* ... stays there when the matrix grows ...
LEMMA DynGrownHolds ==
  ASSUME NEW r \in Nat, NEW c \in Nat, NEW m, NEW s, DynHolds(r, c, m, s),
         NEW t, NEW r1 \in Nat, NEW c1 \in Nat, DynGrown(MatrixValues, m, r, c, t, r1, c1)
  PROVE  DynHolds(r1, c1, t, s)
<1>1. t \in DynRects(r1, c1, MatrixValues) /\ r <= r1 /\ c <= c1
      /\ \A a \in 0 .. r - 1, b \in 0 .. c - 1 : DynAccess(t, a, b) = DynAccess(m, a, b)
  BY Zenon DEF DynGrown
<1>2. DOMAIN s \subseteq (0 .. r - 1) \X (0 .. c - 1)
      /\ \A u \in 0 .. r - 1, v \in 0 .. c - 1 : <<u, v>> \in DOMAIN s => DynAccess(m, u, v) = s[<<u, v>>]
  BY DEF DynHolds
<1>3. DOMAIN s \subseteq (0 .. r1 - 1) \X (0 .. c1 - 1)
  <2>1. (0 .. r - 1) \subseteq 0 .. r1 - 1 /\ (0 .. c - 1) \subseteq 0 .. c1 - 1
    BY <1>1
  <2> QED
    BY <1>2, <2>1
<1>4. ASSUME NEW u, NEW v, <<u, v>> \in DOMAIN s PROVE DynAccess(t, u, v) = s[<<u, v>>]
  <2>1. u \in 0 .. r - 1 /\ v \in 0 .. c - 1
    BY <1>2, <1>4
  <2> QED
    BY <1>1, <1>2, <1>4, <2>1
<1> QED
  BY <1>1, <1>3, <1>4 DEF DynHolds

\* ... and changes places with the one across the diagonal.
LEMMA DynTurnedHolds ==
  ASSUME NEW n \in Nat, NEW m, NEW s, DynHolds(n, n, m, s),
         NEW f, f = [p \in {<<q[2], q[1]>> : q \in DOMAIN s} |-> s[<<p[2], p[1]>>]]
  PROVE  DynHolds(n, n, DynTranspose(m), f)
<1> DEFINE V == MatrixValues
           t == DynTranspose(m)
           S == DOMAIN s
           T == {<<q[2], q[1]>> : q \in S}
<1>1. m \in DynRects(n, n, V) /\ S \subseteq (0 .. n - 1) \X (0 .. n - 1)
      /\ \A u, v \in 0 .. n - 1 : <<u, v>> \in S => DynAccess(m, u, v) = s[<<u, v>>]
  BY DEF DynHolds
<1> HIDE DEF V
<1>2. t \in DynRects(n, n, V) /\ \A u, v \in 0 .. n - 1 : DynAccess(t, u, v) = DynAccess(m, v, u)
  <2>1. m \in DynSquares(n, V)
    BY <1>1, Zenon DEF DynSquares
  <2>2. t \in DynSquares(n, V) /\ \A u, v \in 0 .. n - 1 : DynAccess(t, u, v) = DynAccess(m, v, u)
    BY <2>1, DynTransposed
  <2> QED
    BY <2>2, Zenon DEF DynSquares
<1> HIDE DEF t, S
<1>3. \A q \in S : q = <<q[1], q[2]>> /\ q[1] \in 0 .. n - 1 /\ q[2] \in 0 .. n - 1
  BY <1>1
<1>4. \A u, v \in 0 .. n - 1 : <<u, v>> \in T <=> <<v, u>> \in S
  BY <1>3
<1>5. T \subseteq (0 .. n - 1) \X (0 .. n - 1)
  BY <1>3
<1>6. DOMAIN f = T /\ \A u, v \in 0 .. n - 1 : <<u, v>> \in T => f[<<u, v>>] = s[<<v, u>>]
  BY DEF S
<1> HIDE DEF T
<1>7. ASSUME NEW u \in 0 .. n - 1, NEW v \in 0 .. n - 1, <<u, v>> \in DOMAIN f
      PROVE  DynAccess(t, u, v) = f[<<u, v>>]
  BY <1>1, <1>2, <1>4, <1>6, <1>7
<1> QED
  BY <1>2, <1>5, <1>6, <1>7 DEF DynHolds, V, t

\* dyn_matrix_set
LEMMA DynSetHolds ==
  ASSUME NEW r \in Nat, NEW c \in Nat, NEW m, NEW s, DynHolds(r, c, m, s),
         NEW u \in Nat, NEW v \in Nat, NEW w \in MatrixValues
  PROVE  DynFits(DynSet(m, u, v, w), Putting(s, <<u, v>>, w))
<1> DEFINE V == MatrixValues
           fit == IF u >= m.n_rows \/ v >= m.n_cols THEN DynResize(m, u + 1, v + 1) ELSE m
           t == [fit EXCEPT !.rows[u + 1][v + 1] = w]
           f == Putting(s, <<u, v>>, w)
<1>1. m \in DynRects(r, c, V) /\ m.n_rows = r /\ m.n_cols = c /\ Fresh \in V
  BY DEF DynHolds, DynRects, MatrixValues
<1>2. DynSet(m, u, v, w) = t
  BY DEF DynSet
<1>3. \E r1, c1 \in Nat : DynHolds(r1, c1, fit, s) /\ u \in 0 .. r1 - 1 /\ v \in 0 .. c1 - 1
  <2>1. CASE u >= r \/ v >= c
    <3> DEFINE r1 == IF u + 1 >= r THEN u + 1 ELSE r
               c1 == IF v + 1 >= c THEN v + 1 ELSE c
               x == u + 1
               y == v + 1
    <3>1. r1 \in Nat /\ c1 \in Nat /\ u \in 0 .. r1 - 1 /\ v \in 0 .. c1 - 1
      OBVIOUS
    <3>2. fit = DynResize(m, x, y) /\ x \in Nat /\ y \in Nat
          /\ r1 = (IF x >= r THEN x ELSE r) /\ c1 = (IF y >= c THEN y ELSE c)
      BY <1>1, <2>1
    <3> HIDE DEF V, fit, r1, c1, x, y
    <3>3. DynGrown(V, m, r, c, fit, r1, c1)
      BY ONLY r \in Nat, c \in Nat, <1>1, <3>2, DynResizeIs
    <3>4. DynHolds(r1, c1, fit, s)
      BY <3>1, <3>3, DynGrownHolds DEF V
    <3> QED
      BY <3>1, <3>4
  <2>2. CASE ~(u >= r \/ v >= c)
    <3>1. fit = m /\ u \in 0 .. r - 1 /\ v \in 0 .. c - 1
      BY <1>1, <2>2
    <3> QED
      BY <3>1
  <2> QED
    BY <2>1, <2>2
<1> HIDE DEF fit, f
<1>4. PICK r1 \in Nat, c1 \in Nat : DynHolds(r1, c1, fit, s) /\ u \in 0 .. r1 - 1 /\ v \in 0 .. c1 - 1
  BY <1>3
<1>5. DynHolds(r1, c1, t, f)
  BY <1>4, DynPutHolds DEF f
<1> HIDE DEF t
<1> QED
  BY <1>2, <1>5 DEF DynFits, f

\* Every operation on the matrix keeps what was stored.
LEMMA DynStep ==
  ASSUME DynFits(dyn, stored), DynNext
  PROVE  DynFits(dyn', stored')
<1> DEFINE F == DynFits(dyn', stored')
           V == MatrixValues
<1>1. PICK r \in Nat, c \in Nat : DynHolds(r, c, dyn, stored)
  BY DEF DynFits
<1>2. dyn \in DynRects(r, c, V) /\ dyn.n_rows = r /\ dyn.n_cols = c /\ Fresh \in V /\ 0 \in V /\ Weights \subseteq V
      /\ \A n \in 0 .. MaxSide - 1 : n \in Nat
      /\ \A k \in 1 .. MaxSide : k \in Nat
  BY <1>1, MatrixAssumption DEF DynHolds, DynRects, MatrixValues, NoEdge
<1>3. ASSUME NEW u \in 0 .. MaxSide - 1, NEW v \in 0 .. MaxSide - 1, NEW w \in Weights,
             dyn' = DynSet(dyn, u, v, w), stored' = Putting(stored, <<u, v>>, w)
      PROVE  F
  <2>1. u \in Nat /\ v \in Nat /\ w \in MatrixValues
    BY <1>2
  <2>2. DynFits(DynSet(dyn, u, v, w), Putting(stored, <<u, v>>, w))
    BY <1>1, <2>1, DynSetHolds
  <2> QED
    BY <1>3, <2>2, Zenon
<1>4. ASSUME NEW u \in 0 .. MaxSide - 1, NEW v \in 0 .. MaxSide - 1, u < dyn.n_rows, v < dyn.n_cols,
             dyn' = DynClear(dyn, u, v), stored' = Putting(stored, <<u, v>>, 0)
      PROVE  F
  <2>1. u \in 0 .. r - 1 /\ v \in 0 .. c - 1 /\ 0 \in MatrixValues
    BY <1>2, <1>4
  <2>2. dyn' = [dyn EXCEPT !.rows[u + 1][v + 1] = 0]
    BY <1>4 DEF DynClear
  <2>3. DynHolds(r, c, dyn', Putting(stored, <<u, v>>, 0))
    BY <1>1, <2>1, <2>2, DynPutHolds
  <2> QED
    BY <1>4, <2>3 DEF DynFits
<1>5. ASSUME NEW u \in 1 .. MaxSide, NEW v \in 1 .. MaxSide, dyn' = DynResize(dyn, u, v), stored' = stored
      PROVE  F
  <2> DEFINE r1 == IF u >= r THEN u ELSE r
             c1 == IF v >= c THEN v ELSE c
  <2>1. u \in Nat /\ v \in Nat /\ r1 \in Nat /\ c1 \in Nat
    BY <1>2
  <2> HIDE DEF V
  <2>2. DynGrown(V, dyn, r, c, dyn', r1, c1)
    BY ONLY r \in Nat, c \in Nat, <1>2, <1>5, <2>1, DynResizeIs
  <2> HIDE DEF r1, c1
  <2>3. DynHolds(r1, c1, dyn', stored)
    BY <1>1, <2>1, <2>2, DynGrownHolds DEF V
  <2> QED
    BY <1>5, <2>1, <2>3 DEF DynFits
<1>6. ASSUME dyn.n_rows = dyn.n_cols, dyn' = DynTranspose(dyn),
             stored' = [p \in {<<q[2], q[1]>> : q \in DOMAIN stored} |-> stored[<<p[2], p[1]>>]]
      PROVE  F
  <2>1. c = r
    BY <1>2, <1>6
  <2>2. DynHolds(r, r, dyn, stored)
    BY <1>1, <2>1
  <2>3. DynHolds(r, r, DynTranspose(dyn), stored')
    BY <1>6, <2>2, DynTurnedHolds
  <2> QED
    BY <1>6, <2>3 DEF DynFits
<1> QED
  BY <1>3, <1>4, <1>5, <1>6 DEF DynNext

-----------------------------------------------------------------------------
\* The invariant: the graph's matrix has its edges, the matrix that grows what
\* was stored.
MInv == GraphFits(graph, edges) /\ DynFits(dyn, stored)

\* What the graph's matrix shows.
LEMMA GraphServes ==
  ASSUME GraphFits(graph, edges)
  PROVE  /\ \A u, v \in Ends : EdgeQuery(graph, u, v) <=> <<u, v>> \in DOMAIN edges
         /\ \A e \in DOMAIN edges : MatrixAccess(graph.matrix, e[1], e[2]) = edges[e]
         /\ graph.n_edges = Cardinality(DOMAIN edges)
         /\ ~graph.is_directed => MatrixTranspose(graph.matrix) = graph.matrix
<1> DEFINE m == graph.matrix
           V == MatrixValues
           n == Vertices
           E == DOMAIN edges
<1>1. /\ m \in Squares(n, V) /\ E \subseteq Ends \X Ends /\ edges \in [E -> V \ {NoEdge}]
      /\ \A u, v \in Ends : MatrixAccess(m, u, v) = IF <<u, v>> \in E THEN edges[<<u, v>>] ELSE NoEdge
  BY DEF GraphFits, Shows
<1>2. graph.n_edges = Cardinality(E) /\ (graph.is_directed \/ BothWays(edges))
  BY DEF GraphFits
<1>3. n \in Nat /\ Ends = 0 .. n - 1
  BY MatrixAssumption DEF Ends
<1> HIDE DEF m, V, n, E
<1>4. ASSUME NEW u \in Ends, NEW v \in Ends PROVE EdgeQuery(graph, u, v) <=> <<u, v>> \in E
  BY <1>1 DEF EdgeQuery, m
<1>5. ASSUME NEW e \in E PROVE MatrixAccess(m, e[1], e[2]) = edges[e]
  <2>1. e[1] \in Ends /\ e[2] \in Ends /\ e = <<e[1], e[2]>>
    BY <1>1
  <2> QED
    BY <1>1, <2>1
<1>6. ASSUME BothWays(edges) PROVE MatrixTranspose(m) = m
  <2> DEFINE t == MatrixTranspose(m)
  <2>1. t \in Squares(n, V) /\ \A u, v \in 0 .. n - 1 : MatrixAccess(t, u, v) = MatrixAccess(m, v, u)
    BY <1>1, <1>3, MatrixTransposed
  <2> HIDE DEF t
  <2>2. ASSUME NEW u \in 0 .. n - 1, NEW v \in 0 .. n - 1 PROVE MatrixAccess(t, u, v) = MatrixAccess(m, u, v)
    <3>1. <<u, v>> \in E => <<v, u>> \in E /\ edges[<<v, u>>] = edges[<<u, v>>]
      BY <1>3, <1>6 DEF BothWays, E
    <3>2. <<v, u>> \in E => <<u, v>> \in E
      BY <1>3, <1>6 DEF BothWays, E
    <3>3. MatrixAccess(m, u, v) = IF <<u, v>> \in E THEN edges[<<u, v>>] ELSE NoEdge
      BY <1>1, <1>3
    <3>4. MatrixAccess(m, v, u) = IF <<v, u>> \in E THEN edges[<<v, u>>] ELSE NoEdge
      BY <1>1, <1>3
    <3> QED
      BY <2>1, <3>1, <3>2, <3>3, <3>4
  <2> QED
    BY <1>1, <1>3, <2>1, <2>2, MatrixSame DEF t
<1> QED
  BY <1>2, <1>4, <1>5, <1>6 DEF m, E

\* What the matrix that grows shows.
LEMMA DynServes ==
  ASSUME DynFits(dyn, stored)
  PROVE  /\ Len(dyn.rows) = dyn.n_rows
         /\ \A i \in DOMAIN dyn.rows : Len(dyn.rows[i]) = dyn.n_cols
         /\ \A p \in DOMAIN stored : DynAccess(dyn, p[1], p[2]) = stored[p]
<1> DEFINE V == MatrixValues
           S == DOMAIN stored
           q == dyn.rows
<1>1. PICK r \in Nat, c \in Nat : DynHolds(r, c, dyn, stored)
  BY DEF DynFits
<1>2. /\ dyn \in DynRects(r, c, V) /\ S \subseteq (0 .. r - 1) \X (0 .. c - 1)
      /\ \A u \in 0 .. r - 1, v \in 0 .. c - 1 : <<u, v>> \in S => DynAccess(dyn, u, v) = stored[<<u, v>>]
  BY <1>1 DEF DynHolds
<1>3. dyn.n_rows = r /\ dyn.n_cols = c /\ q \in [1 .. r -> [1 .. c -> V]]
  BY <1>2 DEF DynRects
<1> HIDE DEF V, S, q
<1>4. Len(q) = r /\ DOMAIN q = 1 .. r
  BY <1>3, LenProperties
<1>5. ASSUME NEW i \in 1 .. r PROVE Len(q[i]) = c
  <2>1. q[i] \in [1 .. c -> V]
    BY <1>3
  <2> QED
    BY <2>1, LenProperties
<1>6. ASSUME NEW p \in S PROVE DynAccess(dyn, p[1], p[2]) = stored[p]
  <2>1. p[1] \in 0 .. r - 1 /\ p[2] \in 0 .. c - 1 /\ p = <<p[1], p[2]>>
    BY <1>2
  <2> QED
    BY <1>2, <2>1
<1> QED
  BY <1>3, <1>4, <1>5, <1>6 DEF S, q

\* What is asked of the matrices follows from the invariant.
LEMMA MInvServes ==
  ASSUME MInv
  PROVE  MatricesKeepValues
<1>1. GraphFits(graph, edges) /\ DynFits(dyn, stored)
  BY DEF MInv
<1>2. /\ \A u, v \in Ends : EdgeQuery(graph, u, v) <=> <<u, v>> \in DOMAIN edges
      /\ \A e \in DOMAIN edges : MatrixAccess(graph.matrix, e[1], e[2]) = edges[e]
      /\ graph.n_edges = Cardinality(DOMAIN edges)
      /\ ~graph.is_directed => MatrixTranspose(graph.matrix) = graph.matrix
  BY <1>1, GraphServes
<1>3. /\ Len(dyn.rows) = dyn.n_rows
      /\ \A i \in DOMAIN dyn.rows : Len(dyn.rows[i]) = dyn.n_cols
      /\ \A p \in DOMAIN stored : DynAccess(dyn, p[1], p[2]) = stored[p]
  BY <1>1, DynServes
<1> QED
  BY <1>2, <1>3, Zenon DEF MatricesKeepValues

\* The matrices and the graph start as they should, ...
LEMMA MatrixStart ==
  ASSUME GraphInit, DynInit
  PROVE  MInv
<1>1. GraphFits(graph, edges)
  BY GraphNew
<1>2. DynNew(1, 1) \in DynRects(1, 1, MatrixValues)
  <2> DEFINE V == MatrixValues
  <2>1. Fresh \in V
    BY DEF MatrixValues
  <2> HIDE DEF V
  <2>2. DynNew(1, 1) \in DynRects(1, 1, V)
    BY <2>1, DynNewIs
  <2> QED
    BY <2>2 DEF V
<1>3. DynFits(dyn, stored)
  <2>1. dyn = DynNew(1, 1) /\ DOMAIN stored = {}
    BY DEF DynInit
  <2>2. DynHolds(1, 1, dyn, stored)
    BY <1>2, <2>1 DEF DynHolds
  <2> QED
    BY <2>2 DEF DynFits
<1> QED
  BY <1>1, <1>3 DEF MInv

\* The graph's matrix has its edges and the matrix that grows what was stored,
\* always: adj_matrix.c, matrix.c, dyn_matrix.c.
THEOREM MatrixInvariant == MatrixSpec => []MInv
<1> DEFINE N == (GraphNext /\ UNCHANGED dynVars) \/ (DynNext /\ UNCHANGED graphVars)
           vars == <<graphVars, dynVars>>
<1>1. GraphInit /\ DynInit => MInv
  BY MatrixStart
<1>2. MInv /\ [N]_vars => MInv'
  <2> SUFFICES ASSUME MInv, [N]_vars PROVE MInv'
    OBVIOUS
  <2>1. GraphFits(graph, edges) /\ DynFits(dyn, stored)
    BY DEF MInv
  <2>2. CASE GraphNext /\ UNCHANGED dynVars
    <3>1. GraphFits(graph', edges')
      BY <2>1, <2>2, GraphStep
    <3>2. dyn' = dyn /\ stored' = stored
      BY <2>2 DEF dynVars
    <3> QED
      BY <2>1, <3>1, <3>2, Zenon DEF MInv
  <2>3. CASE DynNext /\ UNCHANGED graphVars
    <3>1. DynFits(dyn', stored')
      BY <2>1, <2>3, DynStep
    <3>2. graph' = graph /\ edges' = edges
      BY <2>3 DEF graphVars
    <3> QED
      BY <2>1, <3>1, <3>2, Zenon DEF MInv
  <2>4. CASE UNCHANGED vars
    <3>1. dyn' = dyn /\ stored' = stored /\ graph' = graph /\ edges' = edges
      BY <2>4 DEF graphVars, dynVars
    <3> QED
      BY <2>1, <3>1, Zenon DEF MInv
  <2> QED
    BY <2>2, <2>3, <2>4
<1> QED
  BY <1>1, <1>2, PTL DEF MatrixSpec

\* A graph has exactly the edges added, reversed and not removed, in both
\* directions when it is undirected, and counts them; a matrix that grows keeps
\* every value set, its rows all of one length, for any number of vertices and
\* any size (adj_matrix.c, matrix.c, dyn_matrix.c).
THEOREM ValuesKept == MatrixSpec => []MatricesKeepValues
<1>1. MInv => MatricesKeepValues
  BY MInvServes
<1> QED
  BY <1>1, MatrixInvariant, PTL

-----------------------------------------------------------------------------
\* The iterators: where an iterator can be, and what its client has seen when
\* it is there.

\* f follows a client from call to call.
VisitsBy(next, start, calls, f) ==
  f = [n \in 0 .. calls |->
         IF n = 0 THEN At(start, <<>>)
         ELSE LET was == f[n - 1]
                  got == next[was.pos]
              IN  IF got.elt = <<>> THEN was ELSE At(got.pos, was.elt \o got.elt)]

\* The i-th position of an iterator is at[i]; c[i] is what a client has seen
\* when the iterator is there, and r when it gets no more.
Passes(E, N, next, at, c, r) ==
  /\ c \in [0 .. N -> Seq(E)]
  /\ \A i \in 0 .. N :
       \/ next[at[i]].elt = <<>> /\ c[i] = r
       \/ /\ next[at[i]].elt \in Seq(E) /\ Len(next[at[i]].elt) = 1
          /\ \E j \in 0 .. N : next[at[i]].pos = at[j] /\ c[j] = c[i] \o next[at[i]].elt

\* The client starts at at[s] and calls often enough.
SeesAll(E, N, next, at, c, r, s, start, calls) ==
  /\ N \in Nat /\ calls \in Nat /\ s \in 0 .. N
  /\ Passes(E, N, next, at, c, r)
  /\ start = at[s] /\ c[s] = <<>>
  /\ \A i \in 0 .. N : Len(c[i]) < calls

\* A client that calls often enough sees all.
LEMMA VisitIs ==
  ASSUME NEW E, NEW N, NEW next, NEW at, NEW c, NEW r, NEW s, NEW start, NEW calls,
         SeesAll(E, N, next, at, c, r, s, start, calls)
  PROVE  Visit(next, start, calls) = r
<1>0. /\ N \in Nat /\ calls \in Nat /\ s \in 0 .. N /\ Passes(E, N, next, at, c, r)
      /\ start = at[s] /\ c[s] = <<>> /\ \A i \in 0 .. N : Len(c[i]) < calls
  BY DEF SeesAll
<1> DEFINE K(n) == {i \in 0 .. N : next[at[i]].elt = <<>> \/ Len(c[i]) = n}
           I == [n \in 0 .. calls |-> {At(at[i], c[i]) : i \in K(n)}]
           Go(x) == IF next[x.pos].elt = <<>> THEN x ELSE At(next[x.pos].pos, x.elt \o next[x.pos].elt)
           step == [n \in 1 .. calls |-> [x \in I[n - 1] |-> Go(x)]]
           init == At(start, <<>>)
           F == CHOOSE f : VisitsBy(next, start, calls, f)
<1>1. c \in [0 .. N -> Seq(E)]
  BY <1>0 DEF Passes
<1>2. \A n \in 0 .. calls : \A x : x \in I[n] <=> \E i \in K(n) : x = At(at[i], c[i])
  OBVIOUS
<1>3. init \in I[0]
  <2>1. s \in K(0)
    BY <1>0, <1>1
  <2> HIDE DEF K, I
  <2>2. init = At(at[s], c[s]) /\ 0 \in 0 .. calls
    BY <1>0
  <2> QED
    BY <1>2, <2>1, <2>2
<1>4. ASSUME NEW n \in 1 .. calls, NEW x \in I[n - 1] PROVE Go(x) \in I[n]
  <2>1. n - 1 \in 0 .. calls /\ n \in 0 .. calls
    BY <1>0
  <2>2. PICK i \in K(n - 1) : x = At(at[i], c[i])
    BY <1>2, <2>1
  <2>3. i \in 0 .. N /\ (next[at[i]].elt = <<>> \/ Len(c[i]) = n - 1) /\ x.pos = at[i] /\ x.elt = c[i]
    BY <2>2 DEF At
  <2>4. CASE next[at[i]].elt = <<>>
    <3>1. Go(x) = x /\ i \in K(n)
      BY <2>3, <2>4
    <3> HIDE DEF Go, K, I
    <3> QED
      BY <1>2, <2>1, <2>2, <3>1
  <2>5. CASE next[at[i]].elt # <<>>
    <3> DEFINE g == next[at[i]]
    <3>1. PICK j \in 0 .. N : g.pos = at[j] /\ c[j] = c[i] \o g.elt /\ g.elt \in Seq(E) /\ Len(g.elt) = 1
      BY <1>0, <2>3, <2>5 DEF Passes
    <3>2. Len(c[j]) = n
      <4>1. c[i] \in Seq(E) /\ Len(c[i]) = n - 1
        BY <1>1, <2>3, <2>5
      <4> DEFINE u == c[i]
                 v == g.elt
      <4>2. u \in Seq(E) /\ v \in Seq(E)
        BY <3>1, <4>1
      <4> HIDE DEF g, u, v
      <4>3. Len(u \o v) = Len(u) + Len(v)
        BY ONLY <4>2
      <4>4. Len(c[i] \o g.elt) = Len(c[i]) + Len(g.elt)
        BY <4>3 DEF u, v
      <4> QED
        BY <3>1, <4>1, <4>4
    <3>3. Go(x) = At(at[j], c[j])
      BY <2>3, <2>5, <3>1
    <3>4. j \in K(n)
      BY <3>2
    <3> HIDE DEF Go, K, I, g
    <3> QED
      BY <1>2, <2>1, <3>3, <3>4
  <2> QED
    BY <2>4, <2>5
<1>5. \A n \in 1 .. calls : \A x \in I[n - 1] : step[n][x] = Go(x) /\ step[n][x] \in I[n]
  <2> SUFFICES ASSUME NEW n \in 1 .. calls, NEW x \in I[n - 1]
               PROVE  step[n][x] = Go(x) /\ step[n][x] \in I[n]
    BY Zenon
  <2>1. step[n][x] = Go(x)
    <3> HIDE DEF Go, I
    <3> QED
      OBVIOUS
  <2> QED
    BY <1>4, <2>1
<1> HIDE DEF step, I, K
<1>6. PICK f : CountsIn(f, calls, I, init, step)
  <2> HIDE DEF init, Go
  <2>1. \A n \in 1 .. calls : \A x \in I[n - 1] : step[n][x] \in I[n]
    BY <1>5, Zenon
  <2> QED
    BY ONLY <1>0, <1>3, <2>1, CountingRunExists
<1>7. /\ f = [n \in 0 .. calls |-> IF n = 0 THEN init ELSE step[n][f[n - 1]]]
      /\ \A n \in 0 .. calls : f[n] \in I[n]
  BY <1>6, Zenon DEF CountsIn
<1>8. VisitsBy(next, start, calls, f)
  <2> HIDE DEF init, Go
  <2>1. \A n \in 0 .. calls : n # 0 => n \in 1 .. calls /\ n - 1 \in 0 .. calls
    BY <1>0
  <2>2. \A n \in 0 .. calls : f[n] = (IF n = 0 THEN init ELSE Go(f[n - 1]))
    BY <1>5, <1>7, <2>1
  <2>3. f = [n \in 0 .. calls |-> f[n]]
    BY <1>7, Zenon
  <2>4. f = [n \in 0 .. calls |-> IF n = 0 THEN init ELSE Go(f[n - 1])]
    BY ONLY <2>2, <2>3, Zenon
  <2> QED
    BY <2>4, Zenon DEF VisitsBy, init, Go
<1>9. VisitsBy(next, start, calls, F)
  <2> HIDE DEF F
  <2>1. \E g : VisitsBy(next, start, calls, g)
    BY <1>8, Zenon
  <2> QED
    BY <2>1, Zenon DEF F
<1>10. Visit(next, start, calls) = F[calls].elt
  BY Zenon DEF Visit, VisitsBy
<1> HIDE DEF F
<1>11. \A n \in 0 .. calls : F[n] \in I[n]
  <2>1. F = [n \in 0 .. calls |-> IF n = 0 THEN init ELSE Go(F[n - 1])]
    BY <1>9, Zenon DEF VisitsBy
  <2> HIDE DEF Go, init
  <2>2. F[0] = init /\ \A n \in 1 .. calls : F[n] = Go(F[n - 1])
    BY <1>0, <2>1
  <2>3. F[0] \in I[0] /\ \A n \in 1 .. calls : F[n - 1] \in I[n - 1] => F[n] \in I[n]
    BY <1>3, <1>4, <2>2
  <2> QED
    BY ONLY <1>0, <2>3, StaysIn
<1>12. PICK i \in K(calls) : F[calls] = At(at[i], c[i])
  <2>1. calls \in 0 .. calls
    BY <1>0
  <2> QED
    BY <1>2, <1>11, <2>1
<1>13. i \in 0 .. N /\ next[at[i]].elt = <<>>
  <2>1. i \in 0 .. N /\ (next[at[i]].elt = <<>> \/ Len(c[i]) = calls)
    BY DEF K
  <2>2. Len(c[i]) < calls /\ Len(c[i]) \in Nat
    BY <1>0, <1>1, <2>1
  <2> QED
    BY <2>1, <2>2
<1>14. c[i] = r
  <2>1. Len(<<>>) = 0
    OBVIOUS
  <2>2. (next[at[i]].elt = <<>> /\ c[i] = r) \/ Len(next[at[i]].elt) = 1
    BY <1>0, <1>13 DEF Passes
  <2>3. next[at[i]].elt = <<>>
    BY <1>13
  <2>4. Len(next[at[i]].elt) = 0
    BY ONLY <2>1, <2>3
  <2> QED
    BY ONLY <2>2, <2>4
<1> QED
  BY <1>10, <1>12, <1>14 DEF At

\* The elements behind the i-th, last first, and the first i elements.
LastPart(d, i) == [k \in 1 .. Len(d) - i |-> d[Len(d) - k + 1]]
FirstPart(d, i) == [k \in 1 .. i |-> d[k]]

LastParts(E, d) ==
  /\ \A i \in 0 .. Len(d) : LastPart(d, i) \in Seq(E) /\ Len(LastPart(d, i)) = Len(d) - i
  /\ \A i \in 1 .. Len(d) : LastPart(d, i - 1) = LastPart(d, i) \o <<d[i]>>
  /\ LastPart(d, Len(d)) = <<>> /\ LastPart(d, 0) = Reverse(d)

FirstParts(E, d) ==
  /\ \A i \in 0 .. Len(d) : FirstPart(d, i) \in Seq(E) /\ Len(FirstPart(d, i)) = i
  /\ \A i \in 1 .. Len(d) : FirstPart(d, i) = FirstPart(d, i - 1) \o <<d[i]>>
  /\ FirstPart(d, 0) = <<>> /\ FirstPart(d, Len(d)) = d

\* One more element at the end of a sequence.
LEMMA OneMore ==
  ASSUME NEW E, NEW s \in Seq(E), NEW t \in Seq(E), Len(t) = Len(s) + 1,
         \A k \in 1 .. Len(s) : t[k] = s[k]
  PROVE  t = s \o <<t[Len(t)]>>
<1> DEFINE n == Len(s)
           e == t[Len(t)]
           u == s \o <<e>>
<1>1. n \in Nat /\ e \in E /\ Len(t) = n + 1 /\ t[n + 1] = e
  <2>1. Len(t) \in 1 .. Len(t)
    OBVIOUS
  <2> QED
    BY <2>1
<1> HIDE DEF e
<1>2. u \in Seq(E) /\ Len(u) = n + 1 /\ u[n + 1] = e /\ \A k \in 1 .. n : u[k] = s[k]
  BY <1>1
<1> HIDE DEF u
<1>3. \A k \in 1 .. Len(t) : t[k] = u[k]
  <2> TAKE k \in 1 .. Len(t)
  <2>1. k = n + 1 \/ k \in 1 .. n
    BY <1>1
  <2> QED
    BY <1>1, <1>2, <2>1
<1>4. t = u
  BY ONLY t \in Seq(E), <1>1, <1>2, <1>3, SameSeq
<1> QED
  BY <1>4 DEF u, e

LEMMA LastPartIs ==
  ASSUME NEW E, NEW d \in Seq(E)
  PROVE  LastParts(E, d)
<1>1. \A i \in 0 .. Len(d) : LastPart(d, i) \in Seq(E) /\ Len(LastPart(d, i)) = Len(d) - i
  BY DEF LastPart
<1>2. \A i \in 1 .. Len(d) : LastPart(d, i - 1) = LastPart(d, i) \o <<d[i]>>
  <2> TAKE i \in 1 .. Len(d)
  <2> DEFINE s == LastPart(d, i)
             t == LastPart(d, i - 1)
  <2>1. i \in 0 .. Len(d) /\ i - 1 \in 0 .. Len(d) /\ Len(d) \in Nat
    OBVIOUS
  <2>2. s \in Seq(E) /\ t \in Seq(E) /\ Len(s) = Len(d) - i /\ Len(t) = Len(s) + 1
    BY <1>1, <2>1
  <2>3. \A k \in 1 .. Len(s) : t[k] = s[k]
    BY <2>1, <2>2 DEF LastPart
  <2>4. t[Len(t)] = d[i]
    BY <2>1, <2>2 DEF LastPart
  <2> HIDE DEF s, t
  <2>5. t = s \o <<t[Len(t)]>>
    BY ONLY <2>2, <2>3, OneMore
  <2>6. t = s \o <<d[i]>>
    BY ONLY <2>4, <2>5
  <2> QED
    BY <2>6 DEF s, t
<1>3. LastPart(d, Len(d)) = <<>>
  <2>1. Len(d) \in 0 .. Len(d)
    OBVIOUS
  <2>2. Len(LastPart(d, Len(d))) = 0 /\ LastPart(d, Len(d)) \in Seq(E)
    BY <1>1, <2>1
  <2> QED
    BY <2>2
<1>4. LastPart(d, 0) = Reverse(d)
  BY DEF LastPart, Reverse
<1> QED
  BY <1>1, <1>2, <1>3, <1>4 DEF LastParts

LEMMA FirstPartIs ==
  ASSUME NEW E, NEW d \in Seq(E)
  PROVE  FirstParts(E, d)
<1>1. \A i \in 0 .. Len(d) : FirstPart(d, i) \in Seq(E) /\ Len(FirstPart(d, i)) = i
  BY DEF FirstPart
<1>2. \A i \in 1 .. Len(d) : FirstPart(d, i) = FirstPart(d, i - 1) \o <<d[i]>>
  <2> TAKE i \in 1 .. Len(d)
  <2> DEFINE s == FirstPart(d, i - 1)
             t == FirstPart(d, i)
  <2>1. i \in 0 .. Len(d) /\ i - 1 \in 0 .. Len(d) /\ Len(d) \in Nat
    OBVIOUS
  <2>2. s \in Seq(E) /\ t \in Seq(E) /\ Len(s) = i - 1 /\ Len(t) = Len(s) + 1 /\ Len(t) = i
    BY <1>1, <2>1
  <2>3. \A k \in 1 .. Len(s) : t[k] = s[k]
    BY <2>1, <2>2 DEF FirstPart
  <2>4. t[Len(t)] = d[i]
    BY <2>1, <2>2 DEF FirstPart
  <2> HIDE DEF s, t
  <2>5. t = s \o <<t[Len(t)]>>
    BY ONLY <2>2, <2>3, OneMore
  <2>6. t = s \o <<d[i]>>
    BY ONLY <2>4, <2>5
  <2> QED
    BY <2>6 DEF s, t
<1>3. FirstPart(d, 0) = <<>>
  <2>1. 0 \in 0 .. Len(d)
    OBVIOUS
  <2>2. Len(FirstPart(d, 0)) = 0 /\ FirstPart(d, 0) \in Seq(E)
    BY <1>1, <2>1
  <2> QED
    BY <2>2
<1>4. FirstPart(d, Len(d)) = d
  <2>1. d = [k \in 1 .. Len(d) |-> d[k]]
    OBVIOUS
  <2> QED
    BY <2>1, Zenon DEF FirstPart
<1> QED
  BY <1>1, <1>2, <1>3, <1>4 DEF FirstParts

\* What a filter selects does not change over elements it does not accept, and
\* grows by the next one it does.
GrowsAt(s, S, f, i) ==
  /\ (\A k \in i + 1 .. Len(s) : s[k] \notin S) => f[i] = f[Len(s)]
  /\ \A m \in i + 1 .. Len(s) :
       s[m] \in S /\ (\A k \in i + 1 .. m - 1 : s[k] \notin S) => f[m] = f[i] \o <<s[m]>>

LEMMA SelectsGrow ==
  ASSUME NEW E, NEW s \in Seq(E), NEW S, NEW f, Selects(E, s, S, f), NEW i \in 0 .. Len(s)
  PROVE  GrowsAt(s, S, f, i)
<1> DEFINE n == Len(s)
<1>1. /\ n \in Nat /\ \A k \in 1 .. n : f[k] = IF s[k] \in S THEN Append(f[k - 1], s[k]) ELSE f[k - 1]
      /\ \A k \in 0 .. n : f[k] \in Seq(E)
  BY DEF Selects
<1>2. ASSUME NEW b \in i .. n, \A k \in i + 1 .. b : s[k] \notin S PROVE f[i] = f[b]
  <2> DEFINE N == b - i
             g == [k \in 0 .. N |-> f[i + k]]
             I == [k \in 0 .. N |-> {f[i]}]
  <2>1. N \in Nat /\ g[0] \in I[0]
    BY <1>1
  <2>2. \A k \in 1 .. N : g[k - 1] \in I[k - 1] => g[k] \in I[k]
    <3> TAKE k \in 1 .. N
    <3>1. /\ i + k \in 1 .. n /\ i + k \in i + 1 .. b /\ i + k - 1 = i + (k - 1)
          /\ k \in 0 .. N /\ k - 1 \in 0 .. N
      BY <1>1
    <3>2. f[i + k] = f[i + (k - 1)]
      BY <1>1, <1>2, <3>1
    <3> QED
      BY <3>1, <3>2
  <2> HIDE DEF g, I, N
  <2>3. \A k \in 0 .. N : g[k] \in I[k]
    BY ONLY <2>1, <2>2, StaysIn
  <2>4. N \in 0 .. N
    BY <2>1
  <2>5. g[N] \in I[N]
    BY <2>3, <2>4
  <2>6. g[N] = f[i + N] /\ I[N] = {f[i]} /\ i + N = b
    BY <2>4, <1>1 DEF g, I, N
  <2> QED
    BY <2>5, <2>6
<1>3. (\A k \in i + 1 .. n : s[k] \notin S) => f[i] = f[n]
  <2>1. n \in i .. n
    BY <1>1
  <2> QED
    BY <1>2, <2>1
<1>4. ASSUME NEW m \in i + 1 .. n, s[m] \in S, \A k \in i + 1 .. m - 1 : s[k] \notin S
      PROVE  f[m] = f[i] \o <<s[m]>>
  <2>1. m - 1 \in i .. n /\ m \in 1 .. n /\ i \in 0 .. n
    BY <1>1
  <2>2. f[m - 1] = f[i]
    BY <1>2, <1>4, <2>1
  <2>3. f[m] = Append(f[i], s[m])
    BY <1>1, <1>4, <2>1, <2>2
  <2>4. f[i] \in Seq(E) /\ s[m] \in E
    BY <1>1, <2>1
  <2> DEFINE x == f[i]
             e == s[m]
  <2>5. x \in Seq(E) /\ e \in E
    BY <2>4
  <2> HIDE DEF x, e
  <2>6. Append(x, e) = x \o <<e>>
    <3>1. JoinsUp(x, e, <<>>)
      BY ONLY <2>5, <<>> \in Seq(E), ConcatJoins
    <3> QED
      BY <3>1, Zenon DEF JoinsUp
  <2> QED
    BY <2>3, <2>6 DEF x, e
<1> QED
  BY <1>3, <1>4 DEF GrowsAt

\* The accepted elements ahead of a position, in each direction, and what a
\* call returns.
AheadOf(a, pos, accept) == {i \in pos .. DaSize(a) - 1 : DaGet(a, i)[1] \in accept}
BehindOf(a, pos, accept) == {i \in 0 .. pos : DaGet(a, i)[1] \in accept}

LEMMA ArrayCall ==
  ASSUME NEW a, NEW pos, NEW accept
  PROVE  /\ NextOfArray(a, pos, TRUE, accept) =
              IF AheadOf(a, pos, accept) = {} THEN At(DaSize(a), <<>>)
              ELSE At(Least(AheadOf(a, pos, accept)) + 1,
                      <<DaGet(a, Least(AheadOf(a, pos, accept)))[1]>>)
         /\ NextOfArray(a, pos, FALSE, accept) =
              IF BehindOf(a, pos, accept) = {} THEN At(-1, <<>>)
              ELSE At(Greatest(BehindOf(a, pos, accept)) - 1,
                      <<DaGet(a, Greatest(BehindOf(a, pos, accept)))[1]>>)
<1> DEFINE A == {i \in pos .. DaSize(a) - 1 : DaGet(a, i)[1] \in accept}
           B == {i \in 0 .. pos : DaGet(a, i)[1] \in accept}
           G(f, S, x) == IF S = {} THEN At(IF f THEN DaSize(a) ELSE -1, <<>>)
                         ELSE At(IF f THEN x + 1 ELSE x - 1, <<DaGet(a, x)[1]>>)
           S(f) == IF f THEN A ELSE B
           X(f) == IF f THEN Least(S(f)) ELSE Greatest(S(f))
<1>1. NextOfArray(a, pos, TRUE, accept) = G(TRUE, S(TRUE), X(TRUE))
  BY Zenon DEF NextOfArray
<1>2. NextOfArray(a, pos, FALSE, accept) = G(FALSE, S(FALSE), X(FALSE))
  BY Zenon DEF NextOfArray
<1> HIDE DEF A, B
<1>3. S(TRUE) = A /\ S(FALSE) = B
  OBVIOUS
<1> HIDE DEF S
<1>4. X(TRUE) = Least(A) /\ X(FALSE) = Greatest(B)
  BY <1>3
<1> HIDE DEF X
<1>5. /\ \A T, x : G(TRUE, T, x) = IF T = {} THEN At(DaSize(a), <<>>) ELSE At(x + 1, <<DaGet(a, x)[1]>>)
      /\ \A T, x : G(FALSE, T, x) = IF T = {} THEN At(-1, <<>>) ELSE At(x - 1, <<DaGet(a, x)[1]>>)
  OBVIOUS
<1> HIDE DEF G
<1>6. /\ NextOfArray(a, pos, TRUE, accept) =
           IF A = {} THEN At(DaSize(a), <<>>) ELSE At(Least(A) + 1, <<DaGet(a, Least(A))[1]>>)
      /\ NextOfArray(a, pos, FALSE, accept) =
           IF B = {} THEN At(-1, <<>>) ELSE At(Greatest(B) - 1, <<DaGet(a, Greatest(B))[1]>>)
  BY <1>1, <1>2, <1>3, <1>4, <1>5, Zenon
<1> QED
  BY <1>6, Zenon DEF A, B, AheadOf, BehindOf

\* An iterator over an array: the position is the number of elements before it,
\* or of the element itself for a backward one.
LEMMA ArrayVisited ==
  ASSUME ArrayInv
  PROVE  /\ VisitArray(darr, FALSE, ArrayKeys) = Reverse(KeySeq(darr))
         /\ \A accept \in SUBSET ArrayKeys :
              VisitArray(darr, TRUE, accept) = Selected(KeySeq(darr), accept)
<1> DEFINE d == KeySeq(darr)
           n == Len(d)
<1>1. /\ darr.elts \in Seq(Elements) /\ d \in Seq(ArrayKeys) /\ n \in Nat /\ DaSize(darr) = n
      /\ \A i \in 0 .. n - 1 : DaGet(darr, i)[1] = d[i + 1]
  <2>1. darr \in DArrays(Elements)
    BY DEF ArrayInv, ArrayOf
  <2>2. darr.elts \in Seq(Elements)
    BY <2>1, ArrayFields
  <2>3. \A i \in 1 .. Len(darr.elts) : darr.elts[i][1] \in ArrayKeys
    BY <2>2 DEF Elements
  <2>4. d = [i \in 1 .. Len(darr.elts) |-> darr.elts[i][1]]
    BY <2>2 DEF KeySeq
  <2> QED
    BY <2>2, <2>3, <2>4 DEF DaSize, DaGet
<1> HIDE DEF d, n
<1>2. VisitArray(darr, FALSE, ArrayKeys) = Reverse(d)
  <2> DEFINE go(p) == NextOfArray(darr, p, FALSE, ArrayKeys)
             next == [p \in -1 .. n |-> go(p)]
             at == [i \in 0 .. n |-> i - 1]
             c == [i \in 0 .. n |-> LastPart(d, i)]
  <2>1. LastParts(ArrayKeys, d)
    BY <1>1, LastPartIs
  <2>2. \A i \in 0 .. n : LastPart(d, i) \in Seq(ArrayKeys) /\ Len(LastPart(d, i)) = n - i
    BY <2>1 DEF LastParts, n
  <2>3. \A i \in 1 .. n : LastPart(d, i - 1) = LastPart(d, i) \o <<d[i]>>
    BY <2>1 DEF LastParts, n
  <2>4. LastPart(d, n) = <<>> /\ LastPart(d, 0) = Reverse(d)
    BY <2>1 DEF LastParts, n
  <2>5. ASSUME NEW i \in 1 .. n PROVE next[i - 1] = At(i - 2, <<d[i]>>)
    <3> DEFINE ahead == BehindOf(darr, i - 1, ArrayKeys)
    <3>1. /\ i - 1 \in 0 .. n - 1 /\ i - 1 \in -1 .. n /\ n - 1 \in Nat /\ d[i] \in ArrayKeys
          /\ (i - 1) + 1 = i /\ (i - 1) - 1 = i - 2
      BY <1>1 DEF n
    <3>2. ahead = 0 .. i - 1
      <4>1. \A k \in 0 .. i - 1 : k \in 0 .. n - 1 /\ k + 1 \in 1 .. n
        BY <1>1
      <4>2. \A k \in 1 .. n : d[k] \in ArrayKeys
        BY <1>1 DEF n
      <4> QED
        BY <1>1, <4>1, <4>2 DEF BehindOf
    <3> HIDE DEF ahead
    <3>3. Greatest(ahead) = i - 1
      <4>1. ahead \in SUBSET (0 .. i - 1) /\ i - 1 \in ahead /\ i - 1 \in Nat
        BY <3>1, <3>2
      <4>2. Greatest(ahead) \in ahead /\ \A y \in ahead : Greatest(ahead) >= y
        BY <4>1, GreatestIs
      <4>3. Greatest(ahead) \in 0 .. i - 1 /\ Greatest(ahead) >= i - 1
        BY <4>1, <4>2
      <4> QED
        BY <4>3
    <3>4. ahead # {}
      <4>1. i - 1 \in ahead
        BY <3>1, <3>2
      <4> QED
        BY <4>1
    <3>5. go(i - 1) = At(Greatest(ahead) - 1, <<DaGet(darr, Greatest(ahead))[1]>>)
      BY <3>4, ArrayCall, Zenon DEF ahead
    <3>6. go(i - 1) = At((i - 1) - 1, <<DaGet(darr, i - 1)[1]>>)
      BY ONLY <3>3, <3>5
    <3> HIDE DEF go
    <3>7. next[i - 1] = go(i - 1)
      BY <3>1
    <3> QED
      BY <1>1, <3>1, <3>6, <3>7
  <2>6. next[-1].elt = <<>>
    <3>1. \A k : k \notin 0 .. -1
      OBVIOUS
    <3>3. {k \in 0 .. -1 : DaGet(darr, k)[1] \in ArrayKeys} = {}
      BY <3>1
    <3>4. go(-1) = At(-1, <<>>)
      BY <3>3, Zenon DEF NextOfArray
    <3> HIDE DEF go
    <3>5. next[-1] = go(-1)
      BY <1>1
    <3> QED
      BY <3>4, <3>5 DEF At
  <2> HIDE DEF next
  <2>7. Passes(ArrayKeys, n, next, at, c, Reverse(d))
    <3>1. c \in [0 .. n -> Seq(ArrayKeys)]
      BY <2>2
    <3>2. ASSUME NEW i \in 0 .. n
          PROVE  \/ next[at[i]].elt = <<>> /\ c[i] = Reverse(d)
                 \/ /\ next[at[i]].elt \in Seq(ArrayKeys) /\ Len(next[at[i]].elt) = 1
                    /\ \E j \in 0 .. n : next[at[i]].pos = at[j] /\ c[j] = c[i] \o next[at[i]].elt
      <4>1. CASE i = 0
        BY <1>1, <2>4, <2>6, <4>1
      <4>2. CASE i # 0
        <5>1. i \in 1 .. n /\ i - 1 \in 0 .. n
          BY <1>1, <4>2
        <5>2. at[i] = i - 1 /\ at[i - 1] = i - 2 /\ c[i] = LastPart(d, i) /\ c[i - 1] = LastPart(d, i - 1)
          BY <5>1
        <5>3. next[at[i]].pos = i - 2 /\ next[at[i]].elt = <<d[i]>>
          <6>1. next[i - 1] = At(i - 2, <<d[i]>>)
            BY <2>5, <5>1
          <6> QED
            BY <5>2, <6>1 DEF At
        <5>4. <<d[i]>> \in Seq(ArrayKeys) /\ Len(<<d[i]>>) = 1
          BY <1>1, <5>1 DEF n
        <5> HIDE DEF at, c
        <5>5. next[at[i]].pos = at[i - 1] /\ c[i - 1] = c[i] \o next[at[i]].elt
          BY <2>3, <5>1, <5>2, <5>3
        <5> QED
          BY <5>1, <5>3, <5>4, <5>5
      <4> QED
        BY <4>1, <4>2
    <3> HIDE DEF at, c
    <3> QED
      BY <3>1, <3>2 DEF Passes
  <2>8. /\ n \in 0 .. n /\ c[n] = <<>> /\ n + 1 \in Nat /\ n - 1 = at[n]
        /\ \A i \in 0 .. n : Len(c[i]) < n + 1
    <3>1. \A i \in 0 .. n : c[i] = LastPart(d, i)
      OBVIOUS
    <3>2. at[n] = n - 1 /\ n \in 0 .. n /\ n + 1 \in Nat
      BY <1>1
    <3> HIDE DEF c, at
    <3>3. \A i \in 0 .. n : Len(c[i]) = n - i
      BY <2>2, <3>1
    <3> QED
      BY <1>1, <2>4, <3>1, <3>2, <3>3
  <2> HIDE DEF at, c
  <2>9. Visit(next, n - 1, n + 1) = Reverse(d)
    <3>1. SeesAll(ArrayKeys, n, next, at, c, Reverse(d), n, n - 1, n + 1)
      BY <1>1, <2>7, <2>8 DEF SeesAll
    <3> QED
      BY <3>1, VisitIs, Zenon
  <2> QED
    BY <1>1, <2>9, Zenon DEF VisitArray, IterStartArray, next
<1>3. ASSUME NEW accept \in SUBSET ArrayKeys PROVE VisitArray(darr, TRUE, accept) = Selected(d, accept)
  <2> DEFINE go(p) == NextOfArray(darr, p, TRUE, accept)
             next == [p \in -1 .. n |-> go(p)]
  <2>1. PICK f : Selects(ArrayKeys, d, accept, f)
    BY <1>1, SelectedIs
  <2> DEFINE at == [i \in 0 .. n |-> i]
             c == [i \in 0 .. n |-> f[i]]
             r == Selected(d, accept)
  <2>2. /\ r = f[n] /\ f[0] = <<>>
        /\ \A i \in 0 .. n : f[i] \in Seq(ArrayKeys) /\ Len(f[i]) <= i
    BY <2>1 DEF Selects, n
  <2> HIDE DEF r
  <2>3. ASSUME NEW i \in 0 .. n
        PROVE  \/ next[i].elt = <<>> /\ f[i] = r
               \/ \E m \in i + 1 .. n : next[i] = At(m, <<d[m]>>) /\ f[m] = f[i] \o <<d[m]>>
    <3> DEFINE ahead == AheadOf(darr, i, accept)
    <3>1. GrowsAt(d, accept, f, i)
      BY <1>1, <2>1, SelectsGrow DEF n
    <3>2. next[i] = go(i)
      <4> HIDE DEF go
      <4> QED
        BY <1>1
    <3>3. \A k \in ahead : k + 1 \in i + 1 .. n /\ d[k + 1] \in accept /\ k \in 0 .. n - 1 /\ k \in Nat
      BY <1>1 DEF AheadOf
    <3>4. \A k \in i + 1 .. n : d[k] \in accept => k - 1 \in ahead
      <4> TAKE k \in i + 1 .. n
      <4>1. k - 1 \in i .. n - 1 /\ k - 1 \in 0 .. n - 1 /\ (k - 1) + 1 = k
        BY <1>1
      <4> QED
        BY <1>1, <4>1 DEF AheadOf
    <3>5. CASE ahead = {}
      <4>1. go(i) = At(DaSize(darr), <<>>)
        BY <3>5, ArrayCall, Zenon
      <4>2. f[i] = f[n]
        BY <3>1, <3>4, <3>5 DEF GrowsAt, n
      <4> HIDE DEF go
      <4>3. next[i].elt = <<>>
        BY <3>2, <4>1 DEF At
      <4> QED
        BY <2>2, <4>2, <4>3
    <3>6. CASE ahead # {}
      <4> DEFINE k == Least(ahead)
      <4>1. go(i) = At(k + 1, <<DaGet(darr, k)[1]>>)
        BY <3>6, ArrayCall, Zenon
      <4> HIDE DEF ahead
      <4>2. ahead \in SUBSET Nat
        BY <3>3
      <4>3. k \in ahead /\ \A y \in ahead : k <= y
        BY <3>6, <4>2, LeastIs
      <4> HIDE DEF k
      <4> DEFINE m == k + 1
      <4>4. m \in i + 1 .. n /\ d[m] \in accept /\ DaGet(darr, k)[1] = d[m] /\ k \in Nat
        BY <1>1, <3>3, <4>3
      <4>5. \A j \in i + 1 .. m - 1 : d[j] \notin accept
        <5> SUFFICES ASSUME NEW j \in i + 1 .. m - 1, d[j] \in accept PROVE FALSE
          OBVIOUS
        <5>1. j \in i + 1 .. n /\ j - 1 < k
          BY <1>1, <4>4
        <5>2. j - 1 \in ahead
          BY <3>4, <5>1
        <5>3. k <= j - 1
          BY <4>3, <5>2
        <5> QED
          BY <4>4, <5>1, <5>3
      <4> HIDE DEF m
      <4>6. f[m] = f[i] \o <<d[m]>>
        BY <3>1, <4>4, <4>5 DEF GrowsAt, n
      <4>7. next[i] = At(m, <<d[m]>>)
        BY <3>2, <4>1, <4>4, Zenon DEF m
      <4> QED
        BY <4>4, <4>6, <4>7
    <3> QED
      BY <3>5, <3>6
  <2> HIDE DEF next
  <2>4. Passes(ArrayKeys, n, next, at, c, r)
    <3>1. c \in [0 .. n -> Seq(ArrayKeys)]
      BY <2>2
    <3>2. ASSUME NEW i \in 0 .. n
          PROVE  \/ next[at[i]].elt = <<>> /\ c[i] = r
                 \/ /\ next[at[i]].elt \in Seq(ArrayKeys) /\ Len(next[at[i]].elt) = 1
                    /\ \E j \in 0 .. n : next[at[i]].pos = at[j] /\ c[j] = c[i] \o next[at[i]].elt
      <4>0. at[i] = i /\ c[i] = f[i]
        OBVIOUS
      <4>1. CASE next[i].elt = <<>> /\ f[i] = r
        BY <4>0, <4>1
      <4>2. CASE \E m \in i + 1 .. n : next[i] = At(m, <<d[m]>>) /\ f[m] = f[i] \o <<d[m]>>
        <5>1. PICK m \in i + 1 .. n : next[i] = At(m, <<d[m]>>) /\ f[m] = f[i] \o <<d[m]>>
          BY <4>2
        <5>2. m \in 0 .. n /\ m \in 1 .. n
          BY <1>1, <5>1
        <5>3. at[m] = m /\ c[m] = f[m]
          BY <5>2
        <5>4. next[i].pos = m /\ next[i].elt = <<d[m]>>
          BY <5>1 DEF At
        <5>5. <<d[m]>> \in Seq(ArrayKeys) /\ Len(<<d[m]>>) = 1
          BY <1>1, <5>2 DEF n
        <5> HIDE DEF at, c
        <5> QED
          BY <4>0, <5>1, <5>2, <5>3, <5>4, <5>5
      <4> QED
        BY <2>3, <4>1, <4>2
    <3> HIDE DEF at, c
    <3> QED
      BY <3>1, <3>2 DEF Passes
  <2>5. /\ 0 \in 0 .. n /\ c[0] = <<>> /\ n + 1 \in Nat /\ 0 = at[0]
        /\ \A i \in 0 .. n : Len(c[i]) < n + 1
    <3>1. \A i \in 0 .. n : c[i] = f[i]
      OBVIOUS
    <3> HIDE DEF c
    <3>2. \A i \in 0 .. n : Len(f[i]) \in Nat
      BY <2>2
    <3> QED
      BY <1>1, <2>2, <3>1, <3>2
  <2> HIDE DEF at, c
  <2>6. Visit(next, 0, n + 1) = r
    <3>1. SeesAll(ArrayKeys, n, next, at, c, r, 0, 0, n + 1)
      BY <1>1, <2>4, <2>5 DEF SeesAll
    <3> QED
      BY <3>1, VisitIs, Zenon
  <2> QED
    BY <1>1, <2>6, Zenon DEF VisitArray, IterStartArray, next, r
<1> QED
  BY <1>2, <1>3, Zenon DEF d

\* The accepted elements of a list from a node on, and what a call returns.
NodesAhead(hp, s, pos, accept) ==
  {i \in DOMAIN s : hp[s[i]].data \in accept /\ \E j \in 1 .. i : s[j] = pos}

LEMMA ListCall ==
  ASSUME NEW hp, NEW li, NEW pos, NEW accept
  PROVE  LET q == NodesOf(hp, li)
             A == NodesAhead(hp, q, pos, accept)
         IN  /\ NextOfList(hp, li, pos, TRUE, accept) =
                  IF A = {} THEN At(pos, <<>>) ELSE At(hp[q[Least(A)]].next, <<hp[q[Least(A)]].data>>)
             /\ NextOfList(hp, li, pos, FALSE, accept) =
                  IF A = {} THEN At(pos, <<>>) ELSE At(hp[q[Least(A)]].prev, <<hp[q[Least(A)]].data>>)
<1> DEFINE B == NodesAhead(hp, NodesOf(hp, li), pos, accept)
           m == hp[NodesOf(hp, li)[Least(B)]]
           G(f) == IF B = {} THEN At(pos, <<>>) ELSE At(IF f THEN m.next ELSE m.prev, <<m.data>>)
<1>1. NextOfList(hp, li, pos, TRUE, accept) = G(TRUE) /\ NextOfList(hp, li, pos, FALSE, accept) = G(FALSE)
  BY Zenon DEF NextOfList, NodesAhead
<1> HIDE DEF B, m
<1>2. /\ G(TRUE) = IF B = {} THEN At(pos, <<>>) ELSE At(m.next, <<m.data>>)
      /\ G(FALSE) = IF B = {} THEN At(pos, <<>>) ELSE At(m.prev, <<m.data>>)
  OBVIOUS
<1> HIDE DEF G
<1> QED
  BY <1>1, <1>2, Zenon DEF B, m

\* An iterator over a list: the position is a node, or Null at the end.
LEMMA ListVisited ==
  ASSUME NEW hp, NEW li, NEW q, NEW ks \in Seq(ListKeys), Chain(hp, li, q), DataOf(hp, q) = ks
  PROVE  /\ VisitList(hp, li, FALSE, ListKeys) = Reverse(ks)
         /\ \A accept \in SUBSET ListKeys : VisitList(hp, li, TRUE, accept) = Selected(ks, accept)
<1> DEFINE n == Len(ks)
<1>1. /\ n \in Nat /\ Len(q) = n /\ DOMAIN q = 1 .. n /\ NodesOf(hp, li) = q /\ li.current = n
      /\ li.first = (IF n = 0 THEN Null ELSE q[1]) /\ li.last = (IF n = 0 THEN Null ELSE q[n])
      /\ \A i \in 1 .. n : q[i] \in ListNodes /\ q[i] # Null
      /\ \A i \in 1 .. n : hp[q[i]].data = ks[i] /\ ks[i] \in ListKeys
      /\ \A i \in 1 .. n : hp[q[i]].next = (IF i = n THEN Null ELSE q[i + 1])
      /\ \A i \in 1 .. n : hp[q[i]].prev = (IF i = 1 THEN Null ELSE q[i - 1])
      /\ \A i, j \in 1 .. n : q[i] = q[j] => i = j
  <2>1. Linking(hp, q) /\ NodesOf(hp, li) = q
    BY ChainIsWalked DEF Chain
  <2>2. Len(q) = n /\ \A i \in 1 .. Len(q) : ks[i] = hp[q[i]].data
    BY <2>1, ChainData
  <2>3. q \in Seq(ListNodes) /\ n \in Nat
    BY <2>1 DEF Linking
  <2>4. DOMAIN q = 1 .. n /\ \A i \in 1 .. n : q[i] \in ListNodes
    BY <2>2, <2>3
  <2>5. \A i \in 1 .. n : q[i] # Null
    BY <2>4, ListNumbers
  <2>6. \A i \in 1 .. n : hp[q[i]].data = ks[i] /\ ks[i] \in ListKeys
    BY <2>2
  <2>7. /\ \A i \in 1 .. n : hp[q[i]].next = (IF i = n THEN Null ELSE q[i + 1])
        /\ \A i \in 1 .. n : hp[q[i]].prev = (IF i = 1 THEN Null ELSE q[i - 1])
        /\ \A i, j \in 1 .. n : q[i] = q[j] => i = j
    <3>1. /\ \A i \in 1 .. Len(q) : /\ hp[q[i]].next = IF i = Len(q) THEN Null ELSE q[i + 1]
                                    /\ hp[q[i]].prev = IF i = 1 THEN Null ELSE q[i - 1]
          /\ \A i, j \in 1 .. Len(q) : q[i] = q[j] => i = j
      BY <2>1, Zenon DEF Linking
    <3>2. Len(q) = n
      BY <2>2
    <3> QED
      BY ONLY <3>1, <3>2
  <2>8. li.current = n /\ li.first = (IF n = 0 THEN Null ELSE q[1]) /\ li.last = (IF n = 0 THEN Null ELSE q[n])
    BY <2>2, Zenon DEF Chain
  <2> QED
    BY <2>1, <2>2, <2>3, <2>4, <2>5, <2>6, <2>7, <2>8, Zenon
<1> HIDE DEF n
<1>1a. NodesOf(hp, li) = q
  BY <1>1
<1>2. \A i \in 1 .. n : \A accept, k :
        k \in NodesAhead(hp, q, q[i], accept) <=> k \in i .. n /\ ks[k] \in accept
  <2> SUFFICES ASSUME NEW i \in 1 .. n, NEW accept, NEW k
               PROVE  k \in NodesAhead(hp, q, q[i], accept) <=> k \in i .. n /\ ks[k] \in accept
    BY Zenon
  <2>1. ASSUME k \in NodesAhead(hp, q, q[i], accept) PROVE k \in i .. n /\ ks[k] \in accept
    <3>1. k \in 1 .. n /\ hp[q[k]].data \in accept /\ \E j \in 1 .. k : q[j] = q[i]
      BY <1>1, <2>1, Zenon DEF NodesAhead
    <3>2. PICK j \in 1 .. k : q[j] = q[i]
      BY <3>1
    <3>3. j \in 1 .. n
      BY <1>1, <3>1, <3>2
    <3>4. j = i
      BY <1>1, <3>2, <3>3
    <3> QED
      BY <1>1, <3>1, <3>2, <3>4
  <2>2. ASSUME k \in i .. n, ks[k] \in accept PROVE k \in NodesAhead(hp, q, q[i], accept)
    <3>1. k \in 1 .. n /\ i \in 1 .. k
      BY <1>1, <2>2
    <3> QED
      BY <1>1, <2>2, <3>1, Zenon DEF NodesAhead
  <2> QED
    BY <2>1, <2>2
<1>3. \A accept : NodesAhead(hp, q, Null, accept) = {}
  <2> SUFFICES ASSUME NEW accept, NEW k \in NodesAhead(hp, q, Null, accept) PROVE FALSE
    BY Zenon
  <2>1. PICK j \in 1 .. k : k \in 1 .. n /\ q[j] = Null
    BY <1>1, Zenon DEF NodesAhead
  <2>2. j \in 1 .. n
    BY <1>1, <2>1
  <2> QED
    BY <1>1, <2>1, <2>2
<1>4. VisitList(hp, li, FALSE, ListKeys) = Reverse(ks)
  <2> DEFINE go(p) == NextOfList(hp, li, p, FALSE, ListKeys)
             next == [p \in ListNodes \cup {Null} |-> go(p)]
             at == [i \in 0 .. n |-> IF i = 0 THEN Null ELSE q[i]]
             c == [i \in 0 .. n |-> LastPart(ks, i)]
  <2>1. LastParts(ListKeys, ks)
    BY LastPartIs
  <2>2. \A i \in 0 .. n : LastPart(ks, i) \in Seq(ListKeys) /\ Len(LastPart(ks, i)) = n - i
    BY <2>1 DEF LastParts, n
  <2>3. \A i \in 1 .. n : LastPart(ks, i - 1) = LastPart(ks, i) \o <<ks[i]>>
    BY <2>1 DEF LastParts, n
  <2>4. LastPart(ks, n) = <<>> /\ LastPart(ks, 0) = Reverse(ks)
    BY <2>1 DEF LastParts, n
  <2>5. ASSUME NEW i \in 1 .. n PROVE next[q[i]].pos = at[i - 1] /\ next[q[i]].elt = <<ks[i]>>
    <3> DEFINE A == NodesAhead(hp, q, q[i], ListKeys)
               m == Least(A)
    <3>1. go(q[i]) = IF A = {} THEN At(q[i], <<>>) ELSE At(hp[q[m]].prev, <<hp[q[m]].data>>)
      BY <1>1a, ListCall, Zenon
    <3>2. \A k : k \in A <=> k \in i .. n /\ ks[k] \in ListKeys
      BY <1>2, Zenon
    <3> HIDE DEF go, A
    <3>3. i \in A /\ A \in SUBSET Nat /\ A # {}
      <4>1. i \in i .. n /\ ks[i] \in ListKeys /\ \A k \in i .. n : k \in Nat
        BY <1>1
      <4> QED
        BY <3>2, <4>1
    <3>4. m \in A /\ \A y \in A : m <= y
      BY <3>3, LeastIs
    <3>5. m = i
      <4>1. m <= i /\ m \in i .. n
        BY <3>2, <3>3, <3>4
      <4> QED
        BY <4>1
    <3>6. hp[q[i]].prev = at[i - 1] /\ hp[q[i]].data = ks[i]
      <4>1. at[i - 1] = IF i - 1 = 0 THEN Null ELSE q[i - 1]
        BY <1>1
      <4>2. i - 1 = 0 <=> i = 1
        OBVIOUS
      <4> HIDE DEF at
      <4> QED
        BY <1>1, <4>1, <4>2
    <3> HIDE DEF m
    <3>7. go(q[i]) = At(at[i - 1], <<ks[i]>>)
      BY <3>1, <3>3, <3>5, <3>6, Zenon
    <3>8. next[q[i]] = go(q[i])
      BY <1>1
    <3>9. next[q[i]] = At(at[i - 1], <<ks[i]>>)
      BY <3>7, <3>8, Zenon
    <3> HIDE DEF next, at
    <3> QED
      BY <3>9 DEF At
  <2>6. next[Null].elt = <<>>
    <3>1. go(Null) = At(Null, <<>>)
      BY <1>1a, <1>3, ListCall, Zenon
    <3> HIDE DEF go
    <3>2. next[Null] = go(Null)
      OBVIOUS
    <3>3. next[Null] = At(Null, <<>>)
      BY <3>1, <3>2, Zenon
    <3> HIDE DEF next
    <3> QED
      BY <3>3 DEF At
  <2>7. /\ \A i \in 0 .. n : c[i] = LastPart(ks, i)
        /\ \A i \in 1 .. n : at[i] = q[i]
        /\ at[0] = Null /\ c \in [0 .. n -> Seq(ListKeys)]
    <3>1. \A i \in 1 .. n : i \in 0 .. n /\ i # 0
      BY <1>1
    <3>2. 0 \in 0 .. n
      BY <1>1
    <3>3. \A i \in 0 .. n : at[i] = IF i = 0 THEN Null ELSE q[i]
      OBVIOUS
    <3>4. (\A i \in 0 .. n : c[i] = LastPart(ks, i)) /\ c \in [0 .. n -> Seq(ListKeys)]
      BY <2>2
    <3> HIDE DEF at, c
    <3> QED
      BY <3>1, <3>2, <3>3, <3>4
  <2> HIDE DEF next, at, c
  <2>8. Passes(ListKeys, n, next, at, c, Reverse(ks))
    <3>1. ASSUME NEW i \in 0 .. n
          PROVE  \/ next[at[i]].elt = <<>> /\ c[i] = Reverse(ks)
                 \/ /\ next[at[i]].elt \in Seq(ListKeys) /\ Len(next[at[i]].elt) = 1
                    /\ \E j \in 0 .. n : next[at[i]].pos = at[j] /\ c[j] = c[i] \o next[at[i]].elt
      <4>1. CASE i = 0
        BY <1>1, <2>4, <2>6, <2>7, <4>1
      <4>2. CASE i # 0
        <5>1. i \in 1 .. n /\ i - 1 \in 0 .. n
          BY <1>1, <4>2
        <5>2. c[i] = LastPart(ks, i) /\ c[i - 1] = LastPart(ks, i - 1) /\ at[i] = q[i]
          BY <2>7, <5>1
        <5>3. next[at[i]].pos = at[i - 1] /\ next[at[i]].elt = <<ks[i]>>
          BY <2>5, <5>1, <5>2
        <5>4. <<ks[i]>> \in Seq(ListKeys) /\ Len(<<ks[i]>>) = 1
          BY <1>1, <5>1
        <5>5. next[at[i]].pos = at[i - 1] /\ c[i - 1] = c[i] \o next[at[i]].elt
          BY <2>3, <5>1, <5>2, <5>3
        <5> QED
          BY <5>1, <5>3, <5>4, <5>5
      <4> QED
        BY <4>1, <4>2
    <3> QED
      BY <2>7, <3>1 DEF Passes
  <2>9. SeesAll(ListKeys, n, next, at, c, Reverse(ks), n, li.last, n + 1)
    <3>1. n \in 0 .. n /\ n + 1 \in Nat /\ li.last = at[n] /\ c[n] = <<>>
      BY <1>1, <2>4, <2>7
    <3>2. \A i \in 0 .. n : Len(c[i]) = n - i
      BY <2>2, <2>7
    <3>3. \A i \in 0 .. n : Len(c[i]) < n + 1
      BY <1>1, <3>2
    <3> QED
      BY <1>1, <2>8, <3>1, <3>3 DEF SeesAll
  <2>10. Visit(next, li.last, n + 1) = Reverse(ks)
    BY <2>9, VisitIs, Zenon
  <2>11. VisitList(hp, li, FALSE, ListKeys) = Visit(next, IF FALSE THEN li.first ELSE li.last, n + 1)
    BY <1>1, Zenon DEF VisitList, IterStartList, next
  <2> QED
    BY <2>10, <2>11
<1>5. ASSUME NEW accept \in SUBSET ListKeys PROVE VisitList(hp, li, TRUE, accept) = Selected(ks, accept)
  <2> DEFINE go(p) == NextOfList(hp, li, p, TRUE, accept)
             next == [p \in ListNodes \cup {Null} |-> go(p)]
             at == [i \in 0 .. n |-> IF i = n THEN Null ELSE q[i + 1]]
             r == Selected(ks, accept)
  <2>1. PICK f : Selects(ListKeys, ks, accept, f)
    BY SelectedIs
  <2> DEFINE c == [i \in 0 .. n |-> f[i]]
  <2>2. /\ r = f[n] /\ f[0] = <<>>
        /\ \A i \in 0 .. n : f[i] \in Seq(ListKeys) /\ Len(f[i]) <= i
    BY <2>1 DEF Selects, n
  <2> HIDE DEF r
  <2>3. /\ \A i \in 0 .. n : at[i] = IF i = n THEN Null ELSE q[i + 1]
        /\ \A i \in 0 .. n : c[i] = f[i]
        /\ c \in [0 .. n -> Seq(ListKeys)]
    BY <2>2
  <2> HIDE DEF at, c
  <2>4. \A i \in 0 .. n : at[i] \in ListNodes \cup {Null}
    <3> TAKE i \in 0 .. n
    <3>1. i # n => i + 1 \in 1 .. n
      BY <1>1
    <3> QED
      BY <1>1, <2>3, <3>1
  <2>5. ASSUME NEW i \in 0 .. n
        PROVE  \/ next[at[i]].elt = <<>> /\ f[i] = r
               \/ \E m \in i + 1 .. n : /\ next[at[i]].pos = at[m] /\ next[at[i]].elt = <<ks[m]>>
                                        /\ f[m] = f[i] \o <<ks[m]>>
    <3> DEFINE A == NodesAhead(hp, q, at[i], accept)
               m == Least(A)
    <3>1. GrowsAt(ks, accept, f, i)
      BY <2>1, SelectsGrow DEF n
    <3>2. go(at[i]) = IF A = {} THEN At(at[i], <<>>) ELSE At(hp[q[m]].next, <<hp[q[m]].data>>)
      BY <1>1a, ListCall, Zenon
    <3>3. \A k : k \in A <=> k \in i + 1 .. n /\ ks[k] \in accept
      <4>1. CASE i = n
        <5>1. A = {}
          BY <1>3, <2>3, <4>1
        <5>2. \A k : k \notin i + 1 .. n
          BY <1>1, <4>1
        <5> QED
          BY <5>1, <5>2
      <4>2. CASE i # n
        <5>1. i + 1 \in 1 .. n /\ at[i] = q[i + 1]
          BY <1>1, <2>3, <4>2
        <5> QED
          BY <1>2, <5>1, Zenon
      <4> QED
        BY <4>1, <4>2
    <3> HIDE DEF go, A
    <3>4. next[at[i]] = go(at[i])
      BY <2>4
    <3> HIDE DEF next
    <3>5. CASE A = {}
      <4>1. next[at[i]] = At(at[i], <<>>)
        BY <3>2, <3>4, <3>5, Zenon
      <4>2. f[i] = f[n]
        BY <3>1, <3>3, <3>5 DEF GrowsAt, n
      <4>3. next[at[i]].elt = <<>>
        BY <4>1 DEF At
      <4> QED
        BY <2>2, <4>2, <4>3
    <3>6. CASE A # {}
      <4>1. A \in SUBSET Nat
        BY <3>3
      <4>2. m \in A /\ \A y \in A : m <= y
        BY <3>6, <4>1, LeastIs
      <4>3. next[at[i]] = At(hp[q[m]].next, <<hp[q[m]].data>>)
        BY <3>2, <3>4, <3>6, Zenon
      <4> HIDE DEF m
      <4>4. m \in i + 1 .. n /\ ks[m] \in accept /\ m \in 1 .. n /\ m \in 0 .. n
        BY <3>3, <4>2
      <4>5. \A j \in i + 1 .. m - 1 : ks[j] \notin accept
        <5> SUFFICES ASSUME NEW j \in i + 1 .. m - 1, ks[j] \in accept PROVE FALSE
          OBVIOUS
        <5>1. j \in i + 1 .. n /\ j < m
          BY <1>1, <4>4
        <5>2. m <= j
          BY <3>3, <4>2, <5>1
        <5> QED
          BY <4>4, <5>1, <5>2
      <4>6. f[m] = f[i] \o <<ks[m]>>
        BY <3>1, <4>4, <4>5 DEF GrowsAt, n
      <4>7. hp[q[m]].next = at[m] /\ hp[q[m]].data = ks[m]
        BY <1>1, <2>3, <4>4
      <4>8. next[at[i]].pos = at[m] /\ next[at[i]].elt = <<ks[m]>>
        BY <4>3, <4>7 DEF At
      <4> QED
        BY <4>4, <4>6, <4>8
    <3> QED
      BY <3>5, <3>6
  <2> HIDE DEF next
  <2>6. Passes(ListKeys, n, next, at, c, r)
    <3>1. ASSUME NEW i \in 0 .. n
          PROVE  \/ next[at[i]].elt = <<>> /\ c[i] = r
                 \/ /\ next[at[i]].elt \in Seq(ListKeys) /\ Len(next[at[i]].elt) = 1
                    /\ \E j \in 0 .. n : next[at[i]].pos = at[j] /\ c[j] = c[i] \o next[at[i]].elt
      <4>1. CASE next[at[i]].elt = <<>> /\ f[i] = r
        BY <2>3, <4>1
      <4>2. CASE \E m \in i + 1 .. n : /\ next[at[i]].pos = at[m] /\ next[at[i]].elt = <<ks[m]>>
                                       /\ f[m] = f[i] \o <<ks[m]>>
        <5>1. PICK m \in i + 1 .. n : /\ next[at[i]].pos = at[m] /\ next[at[i]].elt = <<ks[m]>>
                                      /\ f[m] = f[i] \o <<ks[m]>>
          BY <4>2
        <5>2. m \in 0 .. n /\ m \in 1 .. n
          BY <1>1, <5>1
        <5>3. c[m] = f[m] /\ c[i] = f[i]
          BY <2>3, <5>2
        <5>4. <<ks[m]>> \in Seq(ListKeys) /\ Len(<<ks[m]>>) = 1
          BY <1>1, <5>2
        <5>5. c[m] = c[i] \o next[at[i]].elt
          BY <5>1, <5>3
        <5> QED
          BY <5>1, <5>2, <5>4, <5>5
      <4> QED
        BY <2>5, <4>1, <4>2
    <3> QED
      BY <2>3, <3>1 DEF Passes
  <2>7. SeesAll(ListKeys, n, next, at, c, r, 0, li.first, n + 1)
    <3>1. 0 \in 0 .. n /\ n + 1 \in Nat /\ li.first = at[0] /\ c[0] = <<>>
      BY <1>1, <2>2, <2>3
    <3>2. \A i \in 0 .. n : Len(c[i]) <= i /\ Len(c[i]) \in Nat
      BY <2>2, <2>3
    <3>3. \A i \in 0 .. n : Len(c[i]) < n + 1
      BY <1>1, <3>2
    <3> QED
      BY <1>1, <2>6, <3>1, <3>3 DEF SeesAll
  <2>8. Visit(next, li.first, n + 1) = r
    BY <2>7, VisitIs, Zenon
  <2>9. VisitList(hp, li, TRUE, accept) = Visit(next, IF TRUE THEN li.first ELSE li.last, n + 1)
    BY <1>1, Zenon DEF VisitList, IterStartList, next
  <2> QED
    BY <2>8, <2>9 DEF r
<1> QED
  BY <1>4, <1>5

\* What a call returns for a ring buffer that starts in slot 0 and accepts all.
RearFrom(pos, from) == pos # 0 /\ from = IF pos = -1 THEN 0 ELSE pos

LEMMA RingCall ==
  ASSUME NEW rb, NEW pos, rb.start = 0
  PROVE  /\ pos >= rb.current => NextOfRing(rb, pos, TRUE, Elts) = At(pos, <<>>)
         /\ ~(pos >= rb.current) /\ rb.elements[RingSlot(0 + pos)] \in Elts =>
              NextOfRing(rb, pos, TRUE, Elts) = At(pos + 1, <<rb.elements[RingSlot(0 + pos)]>>)
         /\ pos = 0 => NextOfRing(rb, pos, FALSE, Elts) = At(pos, <<>>)
         /\ \A from, back :
              RearFrom(pos, from) /\ back = (from + rb.current - 1) % rb.current =>
              NextOfRing(rb, pos, FALSE, Elts) = At(back, <<rb.elements[RingSlot(back)]>>)
<1> DEFINE forth == IF pos >= rb.current THEN At(pos, <<>>)
                    ELSE IF rb.elements[RingSlot(rb.start + pos)] \in Elts
                         THEN At(pos + 1, <<rb.elements[RingSlot(rb.start + pos)]>>)
                    ELSE At(rb.current, <<>>)
           back == ((IF pos = -1 THEN rb.start ELSE pos) + rb.current - 1) % rb.current
           rear == IF pos = rb.start THEN At(pos, <<>>) ELSE At(back, <<rb.elements[RingSlot(back)]>>)
           G(f) == IF f THEN forth ELSE rear
<1>1. NextOfRing(rb, pos, TRUE, Elts) = G(TRUE) /\ NextOfRing(rb, pos, FALSE, Elts) = G(FALSE)
  BY Zenon DEF NextOfRing
<1>2. /\ pos >= rb.current => forth = At(pos, <<>>)
      /\ ~(pos >= rb.current) /\ rb.elements[RingSlot(0 + pos)] \in Elts =>
           forth = At(pos + 1, <<rb.elements[RingSlot(0 + pos)]>>)
  BY rb.start = 0, Zenon
<1>3. /\ pos = 0 => rear = At(pos, <<>>)
      /\ \A from, b :
           RearFrom(pos, from) /\ b = (from + rb.current - 1) % rb.current =>
           rear = At(b, <<rb.elements[RingSlot(b)]>>)
  BY rb.start = 0, Zenon DEF RearFrom
<1> HIDE DEF forth, rear
<1>4. G(TRUE) = forth /\ G(FALSE) = rear
  OBVIOUS
<1> HIDE DEF G
<1> QED
  BY <1>1, <1>2, <1>3, <1>4, Zenon

LEMMA WrapsOnce ==
  ASSUME NEW n \in Nat, n >= 1, NEW x \in 0 .. n - 1
  PROVE  x % n = x /\ (x + n) % n = x
OBVIOUS

\* An iterator over a ring buffer that starts in slot 0 and is not empty.
LEMMA RingVisited ==
  ASSUME RingInv, ring.start = 0, ~RingIsEmpty(ring)
  PROVE  VisitRing(ring, TRUE, Elts) = newest /\ VisitRing(ring, FALSE, Elts) = Reverse(newest)
<1> DEFINE n == ring.current
           d == newest
           elt(i) == ring.elements[RingSlot(i)]
<1>1. /\ n \in Nat /\ n >= 1 /\ n <= MaxElts /\ MaxElts \in Nat /\ d \in Seq(Elts) /\ Len(d) = n
      /\ \A i \in 0 .. n - 1 : elt(i) = d[i + 1]
  <2>1. ring \in RingBuffers /\ d \in Seq(Elts) /\ Len(d) = n
    BY DEF RingInv
  <2>2. n \in 0 .. MaxElts /\ MaxElts \in Nat
    BY <2>1, RingFields
  <2>3. n # 0
    BY DEF RingIsEmpty
  <2>4. \A i \in 1 .. n : ring.elements[RingSlot(0 + i - 1)] = d[i]
    BY DEF RingInv
  <2>5. ASSUME NEW i \in 0 .. n - 1 PROVE elt(i) = d[i + 1]
    <3>1. i + 1 \in 1 .. n /\ 0 + (i + 1) - 1 = i
      BY <2>2
    <3> QED
      BY <2>4, <3>1
  <2> QED
    BY <2>1, <2>2, <2>3, <2>5
<1> HIDE DEF n, d, elt
<1>2. VisitRing(ring, TRUE, Elts) = d
  <2> DEFINE go(p) == NextOfRing(ring, p, TRUE, Elts)
             next == [p \in -1 .. MaxElts |-> go(p)]
             at == [i \in 0 .. n |-> i]
             c == [i \in 0 .. n |-> FirstPart(d, i)]
  <2>1. FirstParts(Elts, d)
    BY <1>1, FirstPartIs
  <2>2. \A i \in 0 .. n : FirstPart(d, i) \in Seq(Elts) /\ Len(FirstPart(d, i)) = i
    BY <1>1, <2>1 DEF FirstParts
  <2>3. \A i \in 1 .. n : FirstPart(d, i) = FirstPart(d, i - 1) \o <<d[i]>>
    BY <1>1, <2>1 DEF FirstParts
  <2>4. FirstPart(d, 0) = <<>> /\ FirstPart(d, n) = d
    BY <1>1, <2>1 DEF FirstParts
  <2>5. ASSUME NEW i \in 0 .. n - 1 PROVE next[i].pos = i + 1 /\ next[i].elt = <<d[i + 1]>>
    <3>1. ~(i >= ring.current) /\ 0 + i = i /\ i \in -1 .. MaxElts /\ d[i + 1] \in Elts
      BY <1>1 DEF n
    <3>2. ring.elements[RingSlot(0 + i)] = d[i + 1]
      BY <1>1, <3>1 DEF elt
    <3> DEFINE e == ring.elements[RingSlot(0 + i)]
    <3>2a. e \in Elts /\ e = d[i + 1]
      BY <3>1, <3>2
    <3>2b. go(i) = At(i + 1, <<e>>)
      BY <3>1, <3>2a, RingCall, Zenon
    <3>3. go(i) = At(i + 1, <<d[i + 1]>>)
      <4> HIDE DEF e, go
      <4> QED
        BY <3>2a, <3>2b, Zenon
    <3> HIDE DEF go
    <3>4. next[i] = go(i)
      BY <3>1
    <3>5. next[i] = At(i + 1, <<d[i + 1]>>)
      BY <3>3, <3>4, Zenon
    <3> HIDE DEF next
    <3> QED
      BY <3>5 DEF At
  <2>6. next[n].elt = <<>>
    <3>1. n >= ring.current /\ n \in -1 .. MaxElts
      BY <1>1 DEF n
    <3>2. go(n) = At(n, <<>>)
      BY <3>1, RingCall, Zenon
    <3> HIDE DEF go
    <3>3. next[n] = go(n)
      BY <3>1
    <3>4. next[n] = At(n, <<>>)
      BY <3>2, <3>3, Zenon
    <3> HIDE DEF next
    <3> QED
      BY <3>4 DEF At
  <2>7. /\ \A i \in 0 .. n : at[i] = i /\ c[i] = FirstPart(d, i)
        /\ c \in [0 .. n -> Seq(Elts)]
    BY <2>2
  <2> HIDE DEF next, at, c
  <2>8. Passes(Elts, n, next, at, c, d)
    <3>1. ASSUME NEW i \in 0 .. n
          PROVE  \/ next[at[i]].elt = <<>> /\ c[i] = d
                 \/ /\ next[at[i]].elt \in Seq(Elts) /\ Len(next[at[i]].elt) = 1
                    /\ \E j \in 0 .. n : next[at[i]].pos = at[j] /\ c[j] = c[i] \o next[at[i]].elt
      <4>1. CASE i = n
        BY <1>1, <2>4, <2>6, <2>7, <4>1
      <4>2. CASE i # n
        <5>1. i \in 0 .. n - 1 /\ i + 1 \in 1 .. n /\ i + 1 \in 0 .. n /\ (i + 1) - 1 = i
          BY <1>1, <4>2
        <5>2. at[i] = i /\ at[i + 1] = i + 1 /\ c[i] = FirstPart(d, i) /\ c[i + 1] = FirstPart(d, i + 1)
          BY <2>7, <5>1
        <5>3. next[at[i]].pos = i + 1 /\ next[at[i]].elt = <<d[i + 1]>>
          BY <2>5, <5>1, <5>2
        <5>4. <<d[i + 1]>> \in Seq(Elts) /\ Len(<<d[i + 1]>>) = 1
          BY <1>1, <5>1
        <5>5. next[at[i]].pos = at[i + 1] /\ c[i + 1] = c[i] \o next[at[i]].elt
          BY <2>3, <5>1, <5>2, <5>3
        <5> QED
          BY <5>1, <5>3, <5>4, <5>5
      <4> QED
        BY <4>1, <4>2
    <3> QED
      BY <2>7, <3>1 DEF Passes
  <2>9. SeesAll(Elts, n, next, at, c, d, 0, 0, n + 1)
    <3>1. 0 \in 0 .. n /\ n + 1 \in Nat /\ 0 = at[0] /\ c[0] = <<>>
      BY <1>1, <2>4, <2>7
    <3>2. \A i \in 0 .. n : Len(c[i]) = i
      BY <2>2, <2>7
    <3>3. \A i \in 0 .. n : Len(c[i]) < n + 1
      BY <1>1, <3>2
    <3> QED
      BY <1>1, <2>8, <3>1, <3>3 DEF SeesAll
  <2>10. Visit(next, 0, n + 1) = d
    BY <2>9, VisitIs, Zenon
  <2>11. VisitRing(ring, TRUE, Elts) = Visit(next, IF TRUE THEN ring.start ELSE -1, n + 1)
    BY Zenon DEF VisitRing, IterStartRing, next, n
  <2> QED
    BY <2>10, <2>11
<1>3. VisitRing(ring, FALSE, Elts) = Reverse(d)
  <2> DEFINE go(p) == NextOfRing(ring, p, FALSE, Elts)
             next == [p \in -1 .. MaxElts |-> go(p)]
             at == [i \in 0 .. n |-> IF i = n THEN -1 ELSE i]
             c == [i \in 0 .. n |-> LastPart(d, i)]
  <2>1. LastParts(Elts, d)
    BY <1>1, LastPartIs
  <2>2. \A i \in 0 .. n : LastPart(d, i) \in Seq(Elts) /\ Len(LastPart(d, i)) = n - i
    BY <1>1, <2>1 DEF LastParts
  <2>3. \A i \in 1 .. n : LastPart(d, i - 1) = LastPart(d, i) \o <<d[i]>>
    BY <1>1, <2>1 DEF LastParts
  <2>4. LastPart(d, n) = <<>> /\ LastPart(d, 0) = Reverse(d)
    BY <1>1, <2>1 DEF LastParts
  <2>5. /\ \A i \in 0 .. n : at[i] = IF i = n THEN -1 ELSE i
        /\ \A i \in 0 .. n : c[i] = LastPart(d, i)
        /\ c \in [0 .. n -> Seq(Elts)]
    BY <2>2
  <2> HIDE DEF at, c
  <2>6. ASSUME NEW i \in 1 .. n PROVE next[at[i]].pos = at[i - 1] /\ next[at[i]].elt = <<d[i]>>
    <3> DEFINE p == at[i]
    <3>1. i \in 0 .. n /\ i - 1 \in 0 .. n /\ i - 1 \in 0 .. n - 1 /\ (i - 1) + 1 = i
      BY <1>1
    <3>2. p = (IF i = n THEN -1 ELSE i) /\ at[i - 1] = i - 1
      BY <1>1, <2>5, <3>1
    <3>3. p \in -1 .. MaxElts /\ p # 0
      BY <1>1, <3>2
    <3>4. i - 1 = ((IF p = -1 THEN 0 ELSE p) + n - 1) % n
      <4>1. CASE i = n
        <5>1. (IF p = -1 THEN 0 ELSE p) = 0
          BY <3>2, <4>1
        <5>2. (0 + n - 1) % n = n - 1
          <6>1. 0 + n - 1 = n - 1 /\ n - 1 \in 0 .. n - 1
            BY <1>1
          <6>2. (n - 1) % n = n - 1
            BY <1>1, <6>1, WrapsOnce
          <6> QED
            BY ONLY <6>1, <6>2
        <5> QED
          BY <4>1, <5>1, <5>2
      <4>2. CASE i # n
        <5>1. (IF p = -1 THEN 0 ELSE p) = i
          BY <3>2, <4>2
        <5>2. (i + n - 1) % n = i - 1
          <6>1. i + n - 1 = (i - 1) + n /\ i - 1 \in 0 .. n - 1
            BY <1>1, <3>1
          <6>2. ((i - 1) + n) % n = i - 1
            BY <1>1, <6>1, WrapsOnce
          <6> QED
            BY ONLY <6>1, <6>2
        <5> QED
          BY <5>1, <5>2
      <4> QED
        BY <4>1, <4>2
    <3>5. elt(i - 1) = d[i]
      BY <1>1, <3>1
    <3> HIDE DEF p
    <3> DEFINE b == i - 1
               from == IF p = -1 THEN 0 ELSE p
    <3>6. b = (from + ring.current - 1) % ring.current /\ ring.elements[RingSlot(b)] = d[i]
      BY <3>4, <3>5, Zenon DEF n, elt
    <3> HIDE DEF b
    <3>7. go(p) = At(b, <<d[i]>>)
      <4>0. RearFrom(p, from)
        BY <3>3, Zenon DEF from, RearFrom
      <4> HIDE DEF from
      <4>1. b = (from + ring.current - 1) % ring.current
        BY <3>3, <3>6
      <4>2. go(p) = At(b, <<ring.elements[RingSlot(b)]>>)
        <5>1. \A fr, bk : RearFrom(p, fr) /\ bk = (fr + ring.current - 1) % ring.current =>
                NextOfRing(ring, p, FALSE, Elts) = At(bk, <<ring.elements[RingSlot(bk)]>>)
          BY RingCall, Zenon
        <5> HIDE DEF go
        <5>2. NextOfRing(ring, p, FALSE, Elts) = go(p)
          BY Zenon DEF go
        <5> QED
          BY <4>0, <4>1, <5>1, <5>2, Zenon
      <4> HIDE DEF go
      <4> QED
        BY <3>6, <4>2, Zenon
    <3> HIDE DEF go
    <3>8. next[p] = go(p)
      BY <3>3
    <3>9. next[p] = At(b, <<d[i]>>)
      BY <3>7, <3>8, Zenon
    <3> HIDE DEF next
    <3>10. next[p].pos = b /\ next[p].elt = <<d[i]>>
      BY <3>9 DEF At
    <3> QED
      BY <3>2, <3>10 DEF p, b
  <2>7. next[0].elt = <<>>
    <3>1. go(0) = At(0, <<>>)
      BY RingCall, Zenon
    <3> HIDE DEF go
    <3>2. next[0] = go(0)
      BY <1>1
    <3>3. next[0] = At(0, <<>>)
      BY <3>1, <3>2, Zenon
    <3> HIDE DEF next
    <3> QED
      BY <3>3 DEF At
  <2> HIDE DEF next
  <2>8. Passes(Elts, n, next, at, c, Reverse(d))
    <3>1. ASSUME NEW i \in 0 .. n
          PROVE  \/ next[at[i]].elt = <<>> /\ c[i] = Reverse(d)
                 \/ /\ next[at[i]].elt \in Seq(Elts) /\ Len(next[at[i]].elt) = 1
                    /\ \E j \in 0 .. n : next[at[i]].pos = at[j] /\ c[j] = c[i] \o next[at[i]].elt
      <4>1. CASE i = 0
        <5>1. at[i] = 0 /\ c[i] = Reverse(d)
          BY <1>1, <2>4, <2>5, <4>1
        <5> QED
          BY <2>7, <5>1
      <4>2. CASE i # 0
        <5>1. i \in 1 .. n /\ i - 1 \in 0 .. n
          BY <1>1, <4>2
        <5>2. c[i] = LastPart(d, i) /\ c[i - 1] = LastPart(d, i - 1)
          BY <2>5, <5>1
        <5>3. next[at[i]].pos = at[i - 1] /\ next[at[i]].elt = <<d[i]>>
          BY <2>6, <5>1
        <5>4. <<d[i]>> \in Seq(Elts) /\ Len(<<d[i]>>) = 1
          BY <1>1, <5>1
        <5>5. next[at[i]].pos = at[i - 1] /\ c[i - 1] = c[i] \o next[at[i]].elt
          BY <2>3, <5>1, <5>2, <5>3
        <5> QED
          BY <5>1, <5>3, <5>4, <5>5
      <4> QED
        BY <4>1, <4>2
    <3> QED
      BY <2>5, <3>1 DEF Passes
  <2>9. SeesAll(Elts, n, next, at, c, Reverse(d), n, -1, n + 1)
    <3>1. n \in 0 .. n /\ n + 1 \in Nat /\ -1 = at[n] /\ c[n] = <<>>
      BY <1>1, <2>4, <2>5
    <3>2. \A i \in 0 .. n : Len(c[i]) = n - i
      BY <2>2, <2>5
    <3>3. \A i \in 0 .. n : Len(c[i]) < n + 1
      BY <1>1, <3>2
    <3> QED
      BY <1>1, <2>8, <3>1, <3>3 DEF SeesAll
  <2>10. Visit(next, -1, n + 1) = Reverse(d)
    BY <2>9, VisitIs, Zenon
  <2>11. VisitRing(ring, FALSE, Elts) = Visit(next, IF FALSE THEN ring.start ELSE -1, n + 1)
    BY Zenon DEF VisitRing, IterStartRing, next, n
  <2> QED
    BY <2>10, <2>11
<1> QED
  BY <1>2, <1>3 DEF d

\* The iterators change nothing: what they show follows from what the three
\* structures keep.
LEMMA InvGivesVisits ==
  ArrayInv /\ ListInv /\ RingInv => IterationVisitsAll
<1> SUFFICES ASSUME ArrayInv, ListInv, RingInv PROVE IterationVisitsAll
  OBVIOUS
<1>1. \A l \in Lists :
        /\ VisitList(nodes, list[l], FALSE, ListKeys) = Reverse(KeysOf(nodes, list[l]))
        /\ \A accept \in SUBSET ListKeys :
             VisitList(nodes, list[l], TRUE, accept) = Selected(KeysOf(nodes, list[l]), accept)
  <2> SUFFICES ASSUME NEW l \in Lists
               PROVE  /\ VisitList(nodes, list[l], FALSE, ListKeys) = Reverse(KeysOf(nodes, list[l]))
                      /\ \A accept \in SUBSET ListKeys :
                           VisitList(nodes, list[l], TRUE, accept) = Selected(KeysOf(nodes, list[l]), accept)
    BY Zenon
  <2>0. PICK ks : ListsHold(nodes, list, inuse, ks)
    BY Zenon DEF ListInv
  <2>1. PICK p : ListsHoldIn(nodes, list, inuse, ks, p)
    BY <2>0, Zenon DEF ListsHold
  <2> DEFINE s == State(nodes, list[l], inuse)
  <2>2. ks[l] \in Seq(ListKeys) /\ Chain(nodes, list[l], p[l]) /\ DataOf(nodes, p[l]) = ks[l] /\ KeysOf(nodes, list[l]) = ks[l]
    <3> HIDE DEF s
    <3>1. s = State(nodes, list[l], inuse)
      BY Zenon DEF s
    <3>2. \A t : t = State(nodes, list[l], inuse) =>
              /\ ks[l] \in Seq(ListKeys) /\ Chain(nodes, list[l], p[l])
              /\ DataOf(nodes, p[l]) = ks[l] /\ KeysOf(nodes, list[l]) = ks[l]
      BY <2>1, HoldsOne
    <3> QED
      BY <3>1, <3>2, Zenon
  <2> QED
    BY <2>2, ListVisited, Zenon
<1>2. /\ VisitArray(darr, FALSE, ArrayKeys) = Reverse(KeySeq(darr))
      /\ \A accept \in SUBSET ArrayKeys :
           VisitArray(darr, TRUE, accept) = Selected(KeySeq(darr), accept)
  BY ArrayVisited, Zenon
<1>3. ring.start = 0 /\ ~RingIsEmpty(ring) =>
        VisitRing(ring, TRUE, Elts) = newest /\ VisitRing(ring, FALSE, Elts) = Reverse(newest)
  BY RingVisited, Zenon
<1> QED
  BY <1>1, <1>2, <1>3, Zenon DEF IterationVisitsAll

\* Iterating visits every element once (ds_iter_init, ds_filter_init,
\* ds_iter_next), for arrays, lists and ring buffers of any size and content
\* that their operations can reach.
THEOREM EverythingVisited == DarrSpec /\ ListSpec /\ RingSpec => []IterationVisitsAll
  BY InvGivesVisits, ArrayInvariant, ListInvariant, RingInvariant, PTL
=============================================================================
