------------------------------- MODULE HashMap -------------------------------
(***************************************************************************)
(* The hash map of src/src/ds/hashmap.c: buckets that are dynamic arrays   *)
(* of a fixed size holding hash nodes, and datablocks with an allocation   *)
(* map.  A node is <<key, block>>.  A full bucket makes an add fail, or    *)
(* look for room in the next ones (RCSW_DS_HASHMAP_LINPROB).               *)
(***************************************************************************)
EXTENDS DArray

CONSTANTS
  MapKeys,      \* the keys clients use
  MapPairs,     \* the keys and values they store
  NBuckets,     \* params->n_buckets
  BSize,        \* params->bsize
  HandleSize,   \* sizeof(struct darray): see BucketIndex
  Hash(_)       \* params->hash

NoValue == 0

\* More buckets than the handle of an array has bytes get a wrong index.
ASSUME NBucketsAssumption ==
  /\ NBuckets \in Nat \ {0} /\ BSize \in Nat \ {0}
  /\ HandleSize \in Nat /\ NBuckets <= HandleSize
ASSUME MapKeysAssumption ==
  /\ MapKeys \subseteq Int
  /\ \A k \in MapKeys : Hash(k) \in Nat
  /\ \A p \in MapPairs : p[1] \in MapKeys /\ p[2] # NoValue

Buckets == 0 .. NBuckets - 1
Blocks == 0 .. NBuckets * BSize - 1

VARIABLES
  hmap,    \* struct hashmap: buckets, db_map (the blocks in use), datablocks
  hflags,  \* linprob: RCSW_DS_HASHMAP_LINPROB, sorted: RCSW_DS_SORTED
  dict,    \* ghost: the value of each key, or NoValue
  leaked   \* ghost: blocks in use that no node points at any more

hashVars == <<hmap, hflags, dict, leaked>>

HashMaps ==
  [buckets : [Buckets -> DArrays(MapKeys \X Blocks)], db_map : SUBSET Blocks,
   datablocks : [Blocks -> {p[2] : p \in MapPairs} \cup {NoValue}], n_nodes : Nat]

HashInit ==
  /\ hflags \in [linprob : BOOLEAN, sorted : BOOLEAN]
  /\ hmap = [buckets |-> [b \in Buckets |->
               DaNew(BSize, BSize, IF hflags.sorted THEN "sorted" ELSE "none", TRUE)],
             db_map |-> {}, datablocks |-> [d \in Blocks |-> NoValue], n_nodes |-> 0]
  /\ dict = [k \in MapKeys |-> NoValue] /\ leaked = {}

\* hashmap_query
HomeBucket(key) == Hash(key) % NBuckets
\* hashmap_bucket_index
BucketIndex(b) == b % HandleSize

\* The buckets behind the one with index b, in the order of linear probing.
ProbeOrder(b) == [n \in 1 .. NBuckets - 1 |-> (b + n) % NBuckets]

FirstOf(order, wanted) ==
  LET hits == {n \in DOMAIN order : order[n] \in wanted}
  IN  IF hits = {} THEN -1 ELSE order[Least(hits)]

Holds(m, b, key) == DaQuery(m.buckets[b], <<key, 0>>) # -1

\* Mutant of FindBucket: only the bucket the key hashes to is looked at.
FindBucketHome(m, key) ==
  IF Holds(m, HomeBucket(key), key) THEN HomeBucket(key) ELSE -1

\* The bucket that has the key: the one it hashes to, or with linear probing
\* the first that has it from there on (hashmap_linear_probe).
FindBucket(m, key) ==
  IF Holds(m, HomeBucket(key), key) THEN HomeBucket(key)
  ELSE IF hflags.linprob THEN FirstOf(ProbeOrder(BucketIndex(HomeBucket(key))),
                                      {b \in Buckets : Holds(m, b, key)})
  ELSE -1

\* hashmap_data_get, NoValue for NULL.
DataGet(m, key) ==
  LET b == FindBucket(m, key)
      a == m.buckets[b]
  IN  IF b = -1 THEN NoValue ELSE m.datablocks[DaGet(a, DaQuery(a, <<key, 0>>))[2]]

\* The bucket hashmap_add puts a key into, or -1.
RoomFor(m, key) ==
  LET full(b) == DaIsFull(m.buckets[b])
  IN  IF ~full(HomeBucket(key)) THEN HomeBucket(key)
      ELSE IF hflags.linprob THEN FirstOf(ProbeOrder(BucketIndex(HomeBucket(key))),
                                          {b \in Buckets : ~full(b)})
      ELSE -1

\* hashmap_db_alloc probes from a random index on, so that any free block may
\* be next; hashmap_db_dealloc gives one back.
DbAlloc(m) == Blocks \ m.db_map
DbDealloc(m, d) == [m EXCEPT !.db_map = @ \ {d}, !.datablocks[d] = NoValue]

\* hashmap_add of a key that is in no bucket, or in the very one it would go
\* to: a copy that linear probing put elsewhere is not noticed.  The block is
\* allocated before a duplicate is noticed.
HashAdd(key, value) ==
  LET b == RoomFor(hmap, key)
  IN  /\ b # -1
      /\ dict[key] = NoValue \/ Holds(hmap, b, key)
      /\ \E d \in DbAlloc(hmap) :
           IF Holds(hmap, b, key)
           THEN /\ hmap' = [hmap EXCEPT !.db_map = @ \cup {d}, !.datablocks[d] = value]
                /\ leaked' = leaked \cup {d}
                /\ UNCHANGED <<dict, hflags>>
           ELSE /\ hmap' = [hmap EXCEPT
                     !.db_map = @ \cup {d}, !.datablocks[d] = value, !.n_nodes = @ + 1,
                     !.buckets[b] = DaInsert(@, <<key, d>>, DaSize(@))]
                /\ dict' = [dict EXCEPT ![key] = value]
                /\ UNCHANGED <<leaked, hflags>>

\* hashmap_remove: the block is freed and the node taken out of its bucket.
HashRemove(key) ==
  LET b == FindBucket(hmap, key)
      a == hmap.buckets[b]
      i == DaQuery(a, <<key, 0>>)
  IN  /\ b # -1
      /\ hmap' = [DbDealloc(hmap, DaGet(a, i)[2]) EXCEPT
           !.n_nodes = @ - 1, !.buckets[b] = DaRemove(@, i, TRUE)]
      /\ dict' = [dict EXCEPT ![key] = NoValue]
      /\ UNCHANGED <<leaked, hflags>>

\* hashmap_clear empties the buckets and frees no block.
HashClear ==
  /\ hmap' = [hmap EXCEPT !.buckets = [b \in Buckets |-> DaClear(@[b])]]
  /\ dict' = [k \in MapKeys |-> NoValue]
  /\ leaked' = hmap.db_map
  /\ UNCHANGED hflags

\* hashmap_sort, which hashmap_add also calls every sort_thresh adds to a map
\* with RCSW_DS_SORTED.
HashSort ==
  /\ hmap' = [hmap EXCEPT !.buckets = [b \in Buckets |-> DaSort(@[b])]]
  /\ UNCHANGED <<hflags, dict, leaked>>

\* Without RCSW_DS_SORTED a bucket stays marked sorted when nodes come and go
\* after a sort.  A map is followed up to the first bucket whose mark is untrue:
\* what is not found any more can be added twice.
MarksAreTrue == \A b \in Buckets : MarkIsTrue(hmap.buckets[b])

HashNext ==
  /\ MarksAreTrue
  /\ \/ \E p \in MapPairs : HashAdd(p[1], p[2])
     \/ \E k \in MapKeys : HashRemove(k)
     \/ HashClear \/ HashSort

HashSpec == HashInit /\ [][HashNext]_hashVars

-----------------------------------------------------------------------------
\* What hashmap.h says of hashmap_data_get: it returns the data corresponding to
\* the given key.
MapGivesItsData == \A k \in MapKeys : DataGet(hmap, k) = dict[k]

\* The buckets of a map with RCSW_DS_SORTED stay sorted.  As long as the buckets
\* marked sorted are, every key gives the value it was
\* last added with, and a removed one none, although buckets are sorted (on
\* every add or by hashmap_sort), fill up and spill into others.  A key is in
\* one bucket only, and a block is in use by one node, or leaked (hashmap_add,
\* hashmap_data_get, hashmap_remove, hashmap_sort, hashmap_linear_probe).
MapIsDictionary ==
  /\ hmap \in HashMaps
  /\ hflags.sorted => MarksAreTrue
  /\ MarksAreTrue => MapGivesItsData
  /\ LET nodesIn == UNION {{<<b, i>> : i \in DOMAIN hmap.buckets[b].elts} : b \in Buckets}
         node(n) == hmap.buckets[n[1]].elts[n[2]]
     IN  /\ \A m, n \in nodesIn : m # n => node(m)[1] # node(n)[1] /\ node(m)[2] # node(n)[2]
         /\ hmap.db_map = leaked \cup {node(n)[2] : n \in nodesIn}
         /\ leaked \cap {node(n)[2] : n \in nodesIn} = {}
=============================================================================
