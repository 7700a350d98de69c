---------------------------- MODULE MPoolProofs ----------------------------
(***************************************************************************)
(* Proofs about the memory pool, for any number of chunks, threads and     *)
(* references and any number of interrupted waits: the two lists partition *)
(* the chunks, the counts are exact, the semaphore accounts for the free   *)
(* list, and the pool implements RefPool.                                  *)
(***************************************************************************)
EXTENDS MPool, SequenceTheorems, FiniteSetTheorems, TLAPS

Filling == Requests \cup {"ref_add"}     \* calls that fill their handle
GivingUp == {"release", "ref_remove"}    \* calls that give theirs up
Before == {"lock", "body"}               \* a call that did not have its effect yet

\* What a call relies on until it has its effect.
CallInv(t) ==
  /\ pc[t] = "idle" <=> hnd[t] = NoHandle
  /\ pc[t] = "wait" => op[t] \in Requests
  /\ pc[t] \in Before \cup {"wait"} /\ op[t] \in Filling => refersTo[hnd[t]] = NoChunk
  /\ pc[t] \in Before /\ op[t] \in GivingUp =>
       ptr[t] \in Chunks /\ refersTo[hnd[t]] = ptr[t] /\ owner[hnd[t]] = t
  /\ pc[t] \in Before /\ op[t] = "ref_remove" => ptr[t] \notin bare
  /\ pc[t] \in Before /\ op[t] = "ref_add" =>
       /\ ptr[t] \in Chunks \ bare
       /\ \E g \in Handles : owner[g] = t /\ refersTo[g] = ptr[t]

CallsInv == \A t \in Threads : CallInv(t)

\* A handle is in use by one call, of its owner.
HandlesInv ==
  /\ \A t, u \in Threads : hnd[t] = hnd[u] /\ hnd[t] \in Handles => t = u
  /\ \A t \in Threads :
       hnd[t] \in Handles /\ refersTo[hnd[t]] \in Chunks => owner[hnd[t]] = t

\* A chunk whose count fell behind has one reference left.
BareInv == \A c \in bare : \E h \in Handles : Holders(c) = {h}

\* No list is ever full when a chunk moves to it.
Lengths == Len(free) + Len(alloc) = MaxElts

PoolInv ==
  /\ TypeOK /\ CallsInv /\ HandlesInv /\ BareInv
  /\ Partition /\ Lengths /\ RefsExact /\ TokenAccounting

-----------------------------------------------------------------------------
(* The lists.                                                              *)

\* A list without duplicates loses exactly the chunk that is removed.
LEMMA RemoveFromList ==
  ASSUME NEW l \in Seq(Chunks), Distinct(l), NEW c \in ToSet(l)
  PROVE  /\ ListRemove(l, c) \in Seq(Chunks)
         /\ Len(ListRemove(l, c)) = Len(l) - 1
         /\ Distinct(ListRemove(l, c))
         /\ ToSet(ListRemove(l, c)) = ToSet(l) \ {c}
<1>1. PICK k \in 1 .. Len(l) : l[k] = c
  BY DEF ToSet
<1> DEFINE First(i) == l[i] = c /\ \A j \in 1 .. i - 1 : l[j] # c
           i == CHOOSE i \in 1 .. Len(l) : First(i)
           r == [j \in 1 .. Len(l) - 1 |-> IF j < i THEN l[j] ELSE l[j + 1]]
<1>2. Len(l) \in Nat /\ \A j \in 1 .. Len(l) : l[j] \in Chunks
  BY LenProperties, ElementOfSeq
<1>3. First(k)
  BY <1>1, <1>2 DEF Distinct
<1>4. i \in 1 .. Len(l) /\ l[i] = c
  <2>1. i \in 1 .. Len(l) /\ First(i)
    BY <1>3
  <2> QED
    BY <2>1
<1>5. ListRemove(l, c) = r
  BY DEF ListRemove
<1> HIDE DEF i
<1>6. r \in Seq(Chunks) /\ Len(r) = Len(l) - 1
  <2>1. \A j \in 1 .. Len(l) - 1 : r[j] \in Chunks
    BY <1>2, <1>4
  <2> QED
    BY <2>1, <1>2, <1>4, IsASeq, LenProperties
<1>7. Distinct(r)
  BY <1>2, <1>4, <1>6 DEF Distinct
<1>8. ASSUME NEW x \in ToSet(r) PROVE x \in ToSet(l) \ {c}
  <2>1. PICK j \in 1 .. Len(l) - 1 : x = r[j]
    BY <1>6 DEF ToSet
  <2>2. CASE j < i
    BY <2>1, <2>2, <1>2, <1>4 DEF ToSet, Distinct
  <2>3. CASE ~(j < i)
    BY <2>1, <2>3, <1>2, <1>4 DEF ToSet, Distinct
  <2> QED
    BY <2>2, <2>3
<1>9. ASSUME NEW x \in ToSet(l) \ {c} PROVE x \in ToSet(r)
  <2>1. PICK j \in 1 .. Len(l) : x = l[j]
    BY DEF ToSet
  <2>2. j # i
    BY <2>1, <1>4
  <2>3. CASE j < i
    <3>1. j \in 1 .. Len(l) - 1 /\ r[j] = x
      BY <2>1, <2>3, <1>2, <1>4
    <3> QED
      BY <3>1, <1>6 DEF ToSet
  <2>4. CASE j > i
    <3>1. j - 1 \in 1 .. Len(l) - 1 /\ r[j - 1] = x
      BY <2>1, <2>4, <1>2, <1>4
    <3> QED
      BY <3>1, <1>6 DEF ToSet
  <2> QED
    BY <2>2, <2>3, <2>4, <1>4, <1>2
<1>10. ToSet(r) = ToSet(l) \ {c}
  BY <1>8, <1>9
<1> QED
  BY <1>5, <1>6, <1>7, <1>10

\* A list that is not full gains exactly the chunk that is appended.
LEMMA AppendToList ==
  ASSUME NEW l \in Seq(Chunks), Distinct(l), Len(l) < MaxElts,
         NEW c \in Chunks, c \notin ToSet(l)
  PROVE  /\ ListAppend(l, c) \in Seq(Chunks)
         /\ Len(ListAppend(l, c)) = Len(l) + 1
         /\ Distinct(ListAppend(l, c))
         /\ ToSet(ListAppend(l, c)) = ToSet(l) \cup {c}
<1> DEFINE r == Append(l, c)
<1>1. ListAppend(l, c) = r
  BY DEF ListAppend
<1>2. /\ Len(l) \in Nat /\ r \in Seq(Chunks) /\ Len(r) = Len(l) + 1
      /\ \A j \in 1 .. Len(l) : r[j] = l[j]
      /\ r[Len(l) + 1] = c
  BY AppendProperties, LenProperties
<1> HIDE DEF r
<1>3. \A j \in 1 .. Len(l) : r[j] # c
  BY <1>2 DEF ToSet
<1>4. Distinct(r)
  BY <1>2, <1>3 DEF Distinct
<1>5. ToSet(r) = ToSet(l) \cup {c}
  <2>1. 1 .. Len(r) = 1 .. Len(l) \cup {Len(l) + 1}
    BY <1>2
  <2> QED
    BY <2>1, <1>2 DEF ToSet
<1> QED
  BY <1>1, <1>2, <1>4, <1>5

\* The first chunk of a list that is not empty is on it.
LEMMA HeadOfList ==
  ASSUME NEW l \in Seq(Chunks), l # <<>>
  PROVE  Head(l) \in ToSet(l) /\ Head(l) \in Chunks /\ Len(l) > 0
<1>1. Len(l) \in Nat /\ Len(l) # 0
  BY EmptySeq, LenProperties
<1>2. Head(l) = l[1] /\ 1 \in 1 .. Len(l)
  BY <1>1, HeadTailProperties
<1> QED
  BY <1>1, <1>2, ElementOfSeq DEF ToSet

\* A chunk on a list makes it not empty.
LEMMA MemberOfList ==
  ASSUME NEW l \in Seq(Chunks), NEW c \in ToSet(l) PROVE Len(l) \in Nat /\ Len(l) > 0
BY LenProperties DEF ToSet

-----------------------------------------------------------------------------
(* The handles.                                                            *)

\* The references to a chunk are finitely many.
LEMMA HoldersFinite ==
  ASSUME NEW c
  PROVE  IsFiniteSet(Holders(c)) /\ Cardinality(Holders(c)) \in Nat
BY HandlesAssumption, FS_Subset, FS_CardinalityType DEF Holders

\* A chunk has no reference if and only if their number is 0.
LEMMA HoldersNone ==
  ASSUME NEW c PROVE Cardinality(Holders(c)) = 0 <=> Holders(c) = {}
BY HoldersFinite, FS_EmptySet

\* A handle that is filled adds one reference to its chunk and none to others.
LEMMA FillHandle ==
  ASSUME refersTo \in [Handles -> Chunks \cup {NoChunk}],
         NEW h \in Handles, refersTo[h] = NoChunk, NEW c \in Chunks,
         refersTo' = [refersTo EXCEPT ![h] = c]
  PROVE  /\ Holders(c)' = Holders(c) \cup {h}
         /\ Cardinality(Holders(c))' = Cardinality(Holders(c)) + 1
         /\ \A d \in Chunks \ {c} : Holders(d)' = Holders(d)
<1>1. NoChunk \notin Chunks
  BY MaxEltsAssumption DEF NoChunk, Chunks
<1>2. Holders(c)' = Holders(c) \cup {h} /\ h \notin Holders(c)
  BY <1>1 DEF Holders
<1>3. Cardinality(Holders(c) \cup {h}) = Cardinality(Holders(c)) + 1
  BY <1>2, HoldersFinite, FS_AddElement
<1>4. \A d \in Chunks \ {c} : Holders(d)' = Holders(d)
  BY <1>1 DEF Holders
<1> QED
  BY <1>2, <1>3, <1>4

\* A handle that is cleared takes one reference from its chunk and none from
\* others.
LEMMA ClearHandle ==
  ASSUME refersTo \in [Handles -> Chunks \cup {NoChunk}],
         NEW h \in Handles, NEW c \in Chunks, refersTo[h] = c,
         refersTo' = [refersTo EXCEPT ![h] = NoChunk]
  PROVE  /\ Holders(c)' = Holders(c) \ {h}
         /\ h \in Holders(c)
         /\ Cardinality(Holders(c))' = Cardinality(Holders(c)) - 1
         /\ \A d \in Chunks \ {c} : Holders(d)' = Holders(d)
<1>1. NoChunk \notin Chunks
  BY MaxEltsAssumption DEF NoChunk, Chunks
<1>2. Holders(c)' = Holders(c) \ {h} /\ h \in Holders(c)
  BY <1>1 DEF Holders
<1>3. Cardinality(Holders(c) \ {h}) = Cardinality(Holders(c)) - 1
  BY <1>2, HoldersFinite, FS_RemoveElement
<1>4. \A d \in Chunks \ {c} : Holders(d)' = Holders(d)
  BY <1>1 DEF Holders
<1> QED
  BY <1>2, <1>3, <1>4

\* The threads that account for tokens are finitely many.
LEMMA TokenHoldersFinite ==
  IsFiniteSet(TokenHolders) /\ Cardinality(TokenHolders) \in Nat
BY ThreadsAssumption, FS_Subset, FS_CardinalityType DEF TokenHolders

\* A step of one thread adds it to the threads that account for tokens,
\* takes it away, or leaves them alone.
LEMMA TokensMove ==
  ASSUME TypeOK, NEW t \in Threads, NEW label,
         pc' = [pc EXCEPT ![t] = label],
         \A u \in Threads \ {t} : op'[u] = op[u]
  PROVE  /\ t \notin TokenHolders /\ t \in TokenHolders' =>
              Cardinality(TokenHolders)' = Cardinality(TokenHolders) + 1
         /\ t \in TokenHolders /\ t \notin TokenHolders' =>
              Cardinality(TokenHolders)' = Cardinality(TokenHolders) - 1
         /\ (t \in TokenHolders <=> t \in TokenHolders') =>
              Cardinality(TokenHolders)' = Cardinality(TokenHolders)
<1>1. \A u \in Threads \ {t} : pc'[u] = pc[u] /\ op'[u] = op[u]
  BY DEF TypeOK
<1>2. \A u \in Threads \ {t} : u \in TokenHolders' <=> u \in TokenHolders
  BY <1>1 DEF TokenHolders
<1>3. TokenHolders \in SUBSET Threads /\ TokenHolders' \in SUBSET Threads
  BY DEF TokenHolders
<1>4. ASSUME t \notin TokenHolders, t \in TokenHolders'
      PROVE  Cardinality(TokenHolders)' = Cardinality(TokenHolders) + 1
  <2>1. TokenHolders' = TokenHolders \cup {t}
    BY <1>2, <1>3, <1>4
  <2> QED
    BY <2>1, <1>4, TokenHoldersFinite, FS_AddElement
<1>5. ASSUME t \in TokenHolders, t \notin TokenHolders'
      PROVE  Cardinality(TokenHolders)' = Cardinality(TokenHolders) - 1
  <2>1. TokenHolders' = TokenHolders \ {t}
    BY <1>2, <1>3, <1>5
  <2> QED
    BY <2>1, <1>5, TokenHoldersFinite, FS_RemoveElement
<1>6. ASSUME t \in TokenHolders <=> t \in TokenHolders'
      PROVE  Cardinality(TokenHolders)' = Cardinality(TokenHolders)
  BY <1>2, <1>3, <1>6
<1> QED
  BY <1>4, <1>5, <1>6

-----------------------------------------------------------------------------
(* The lists, the counts and the references: what the four critical        *)
(* sections do to them.                                                    *)

Store == <<free, alloc, refs, refersTo, bare>>

StoreInv == BareInv /\ Partition /\ Lengths /\ RefsExact

\* The calls, the waits and the locking leave the store alone.
LEMMA StoreUntouched == StoreInv /\ UNCHANGED Store => StoreInv'
<1> SUFFICES ASSUME StoreInv, UNCHANGED Store PROVE StoreInv'
  OBVIOUS
<1>1. /\ free' = free /\ alloc' = alloc /\ refs' = refs /\ bare' = bare
      /\ refersTo' = refersTo
  BY DEF Store
<1>2. \A c \in Chunks : Holders(c)' = Holders(c)
  BY <1>1 DEF Holders
<1>3. BareInv'
  BY <1>1 DEF StoreInv, BareInv, Holders
<1>4. Partition' /\ Lengths'
  BY <1>1 DEF StoreInv, Partition, Lengths
<1>5. RefsExact'
  BY <1>1, <1>2 DEF StoreInv, RefsExact
<1> QED
  BY <1>3, <1>4, <1>5 DEF StoreInv

\* What a thread in its critical section relies on.
LEMMA BodyFacts ==
  ASSUME TypeOK, CallsInv, NEW t \in Threads, pc[t] = "body"
  PROVE  /\ hnd[t] \in Handles
         /\ op[t] \in Filling => refersTo[hnd[t]] = NoChunk
         /\ op[t] \in GivingUp =>
              ptr[t] \in Chunks /\ refersTo[hnd[t]] = ptr[t] /\ owner[hnd[t]] = t
BY DEF TypeOK, CallsInv, CallInv, Before

\* mpool_req and mpool_timedreq move the first free chunk, which has no
\* reference, to the allocated list.
LEMMA StoreTake ==
  ASSUME TypeOK, CallsInv, StoreInv, NEW t \in Threads, Take(t)
  PROVE  /\ StoreInv'
         /\ free' \in Seq(Chunks) /\ alloc' \in Seq(Chunks)
         /\ Len(free') = Len(free) - 1 /\ Head(free) \in ToSet(free)
         /\ ToSet(free)' = ToSet(free) \ {Head(free)}
<1> PICK c, h : c = Head(free) /\ h = hnd[t]
  OBVIOUS
<1>1. pc[t] = "body" /\ op[t] \in Filling /\ free # <<>>
  BY DEF Take, Goto, Filling
<1>2. c \in ToSet(free) /\ c \in Chunks /\ Len(free) > 0
  BY <1>1, HeadOfList DEF TypeOK
<1>3. /\ free' = ListRemove(free, c) /\ alloc' = ListAppend(alloc, c)
      /\ refs' = [refs EXCEPT ![c] = @ + 1]
      /\ refersTo' = [refersTo EXCEPT ![h] = c] /\ bare' = bare
  BY DEF Take, Refer
<1>4. h \in Handles /\ refersTo[h] = NoChunk
  BY <1>1, BodyFacts
<1>5. Holders(c) = {} /\ c \notin bare
  BY <1>2 DEF StoreInv, RefsExact, BareInv
<1>6. /\ Holders(c)' = Holders(c) \cup {h}
      /\ Cardinality(Holders(c))' = Cardinality(Holders(c)) + 1
      /\ \A d \in Chunks \ {c} : Holders(d)' = Holders(d)
  BY <1>2, <1>3, <1>4, FillHandle DEF TypeOK
<1>7. /\ free \in Seq(Chunks) /\ Distinct(free) /\ Len(free) \in Nat
      /\ alloc \in Seq(Chunks) /\ Distinct(alloc) /\ Len(alloc) \in Nat
      /\ c \notin ToSet(alloc) /\ Len(alloc) < MaxElts
  BY <1>2, LenProperties, MaxEltsAssumption DEF TypeOK, StoreInv, Partition, Lengths
<1>8. /\ Len(free') = Len(free) - 1 /\ Distinct(free)'
      /\ ToSet(free)' = ToSet(free) \ {c}
  BY <1>2, <1>3, <1>7, RemoveFromList
<1>9. /\ Len(alloc') = Len(alloc) + 1 /\ Distinct(alloc)'
      /\ ToSet(alloc)' = ToSet(alloc) \cup {c}
  BY <1>2, <1>3, <1>7, AppendToList
<1>t. free' \in Seq(Chunks) /\ alloc' \in Seq(Chunks)
  BY <1>2, <1>3, <1>7, RemoveFromList, AppendToList
<1>10. Partition'
  BY <1>2, <1>8, <1>9 DEF StoreInv, Partition
<1>11. Lengths'
  BY <1>7, <1>8, <1>9, MaxEltsAssumption DEF StoreInv, Lengths
<1>12. BareInv'
  <2> SUFFICES ASSUME NEW d \in bare PROVE \E g \in Handles : Holders(d)' = {g}
    BY <1>3 DEF BareInv
  <2>1. d \in Chunks \ {c}
    BY <1>5 DEF TypeOK
  <2> QED
    BY <2>1, <1>6 DEF StoreInv, BareInv
<1>13. RefsExact'
  <2> SUFFICES ASSUME NEW d \in Chunks
               PROVE  /\ refs'[d] = Cardinality(Holders(d))'
                                    - (IF d \in bare' THEN 1 ELSE 0)
                      /\ d \in ToSet(free)' <=> Holders(d)' = {}
    BY DEF RefsExact
  <2>1. CASE d = c
    <3>1. refs'[c] = refs[c] + 1
      BY <1>2, <1>3 DEF TypeOK
    <3>2. refs[c] = Cardinality(Holders(c))
      BY <1>2, <1>5, HoldersFinite DEF StoreInv, RefsExact
    <3> QED
      BY <2>1, <3>1, <3>2, <1>3, <1>5, <1>6, <1>8, HoldersFinite, SMTT(30)
  <2>2. CASE d # c
    <3>1. refs'[d] = refs[d] /\ Holders(d)' = Holders(d)
      BY <2>2, <1>3, <1>6 DEF TypeOK
    <3> QED
      BY <2>2, <3>1, <1>3, <1>8 DEF StoreInv, RefsExact
  <2> QED
    BY <2>1, <2>2
<1> QED
  BY <1>2, <1>t, <1>8, <1>10, <1>11, <1>12, <1>13 DEF StoreInv

\* mpool_ref_add counts the reference it makes.
LEMMA StoreRefAdd ==
  ASSUME TypeOK, CallsInv, StoreInv, NEW t \in Threads, RefAdd(t) PROVE StoreInv'
<1> PICK c, h : c = ptr[t] /\ h = hnd[t]
  OBVIOUS
<1>1. pc[t] = "body" /\ op[t] = "ref_add"
  BY DEF RefAdd, Goto
<1>2. /\ free' = free /\ alloc' = alloc /\ bare' = bare
      /\ refs' = [refs EXCEPT ![c] = @ + 1]
      /\ refersTo' = [refersTo EXCEPT ![h] = c]
  BY DEF RefAdd, Refer
<1>3. h \in Handles /\ refersTo[h] = NoChunk
  BY <1>1, BodyFacts DEF Filling
<1>4. c \in Chunks /\ c \notin bare /\ \E g \in Handles : refersTo[g] = c
  BY <1>1 DEF CallsInv, CallInv, Before
<1>5. /\ Holders(c)' = Holders(c) \cup {h}
      /\ Cardinality(Holders(c))' = Cardinality(Holders(c)) + 1
      /\ \A d \in Chunks \ {c} : Holders(d)' = Holders(d)
  BY <1>2, <1>3, <1>4, FillHandle DEF TypeOK
<1>6. Partition' /\ Lengths'
  BY <1>2 DEF StoreInv, Partition, Lengths
<1>7. BareInv'
  <2> SUFFICES ASSUME NEW d \in bare PROVE \E g \in Handles : Holders(d)' = {g}
    BY <1>2 DEF BareInv
  <2>1. d \in Chunks \ {c}
    BY <1>4 DEF TypeOK
  <2> QED
    BY <2>1, <1>5 DEF StoreInv, BareInv
<1>8. RefsExact'
  <2> SUFFICES ASSUME NEW d \in Chunks
               PROVE  /\ refs'[d] = Cardinality(Holders(d))'
                                    - (IF d \in bare' THEN 1 ELSE 0)
                      /\ d \in ToSet(free)' <=> Holders(d)' = {}
    BY DEF RefsExact
  <2>1. CASE d = c
    <3>1. refs'[c] = refs[c] + 1
      BY <1>4, <1>2 DEF TypeOK
    <3>2. refs[c] = Cardinality(Holders(c))
      BY <1>4, HoldersFinite DEF StoreInv, RefsExact
    <3>3. Holders(c) # {} /\ Holders(c)' # {}
      BY <1>4, <1>5 DEF Holders
    <3>4. c \notin ToSet(free)'
      BY <1>2, <1>4, <3>3 DEF StoreInv, RefsExact
    <3> QED
      BY <2>1, <3>1, <3>2, <3>3, <3>4, <1>2, <1>4, <1>5, HoldersFinite
  <2>2. CASE d # c
    <3>1. refs'[d] = refs[d] /\ Holders(d)' = Holders(d)
      BY <2>2, <1>2, <1>5 DEF TypeOK
    <3> QED
      BY <2>2, <3>1, <1>2 DEF StoreInv, RefsExact
  <2> QED
    BY <2>1, <2>2
<1> QED
  BY <1>6, <1>7, <1>8 DEF StoreInv

\* mpool_release gives a reference up; with the last one the chunk moves to
\* the free list.
LEMMA StoreRelease ==
  ASSUME TypeOK, CallsInv, StoreInv, NEW t \in Threads, Release(t)
  PROVE  /\ StoreInv' /\ free' \in Seq(Chunks) /\ alloc' \in Seq(Chunks)
         /\ \/ /\ pc' = [pc EXCEPT ![t] = "unlock"] /\ free' = free
               /\ Holders(ptr[t]) # {hnd[t]}
            \/ /\ pc' = [pc EXCEPT ![t] = "post"] /\ Len(free') = Len(free) + 1
               /\ Holders(ptr[t]) = {hnd[t]}
               /\ ToSet(free)' = ToSet(free) \cup {ptr[t]}
<1> PICK c, h : c = ptr[t] /\ h = hnd[t]
  OBVIOUS
<1> PICK n : n = IF refs[c] > 0 THEN refs[c] - 1 ELSE 0
  OBVIOUS
<1>1. pc[t] = "body" /\ op[t] \in GivingUp
  BY DEF Release, GivingUp
<1>2. /\ refs' = [refs EXCEPT ![c] = n] /\ bare' = bare \ {c}
      /\ refersTo' = [refersTo EXCEPT ![h] = NoChunk]
      /\ \/ /\ n > 0 /\ pc' = [pc EXCEPT ![t] = "unlock"]
            /\ free' = free /\ alloc' = alloc
         \/ /\ n = 0 /\ pc' = [pc EXCEPT ![t] = "post"]
            /\ alloc' = ListRemove(alloc, c) /\ free' = ListAppend(free, c)
  BY DEF Release, Refer, Goto
<1>3. h \in Handles /\ c \in Chunks /\ refersTo[h] = c
  BY <1>1, BodyFacts
<1>4. /\ Holders(c)' = Holders(c) \ {h} /\ h \in Holders(c)
      /\ Cardinality(Holders(c))' = Cardinality(Holders(c)) - 1
      /\ \A d \in Chunks \ {c} : Holders(d)' = Holders(d)
  BY <1>2, <1>3, ClearHandle DEF TypeOK
<1>5. /\ Cardinality(Holders(c)) \in Nat /\ Cardinality(Holders(c)) > 0
      /\ Cardinality(Holders(c))' = 0 <=> Holders(c) = {h}
  <2>1. Cardinality(Holders(c)) \in Nat /\ Cardinality(Holders(c)) # 0
    BY <1>4, HoldersFinite, HoldersNone
  <2>2. Cardinality(Holders(c) \ {h}) = 0 <=> Holders(c) \ {h} = {}
    BY HoldersFinite, FS_EmptySet, FS_Subset
  <2> QED
    BY <2>1, <2>2, <1>4
<1>6. c \in bare => Cardinality(Holders(c)) = 1
  BY <1>3, FS_Singleton DEF StoreInv, BareInv
<1>7. n = Cardinality(Holders(c))'
  <2>1. refs[c] = Cardinality(Holders(c)) - (IF c \in bare THEN 1 ELSE 0)
    BY <1>3 DEF StoreInv, RefsExact
  <2>2. CASE c \in bare
    BY <2>1, <2>2, <1>4, <1>6
  <2>3. CASE c \notin bare
    BY <2>1, <2>3, <1>4, <1>5
  <2> QED
    BY <2>2, <2>3
<1>n. n \in Nat /\ (n > 0 \/ n = 0)
  <2>1. refs[c] \in Int
    BY <1>3 DEF TypeOK
  <2> QED
    BY <2>1
<1>8. c \notin ToSet(free) /\ c \in ToSet(alloc)
  <2>1. c \notin ToSet(free)
    BY <1>3, <1>4 DEF StoreInv, RefsExact
  <2> QED
    BY <2>1, <1>3 DEF StoreInv, Partition
<1>9. /\ free \in Seq(Chunks) /\ Distinct(free) /\ Len(free) \in Nat
      /\ alloc \in Seq(Chunks) /\ Distinct(alloc) /\ Len(alloc) \in Nat
      /\ Len(free) < MaxElts
  BY <1>8, MemberOfList, LenProperties, MaxEltsAssumption
  DEF TypeOK, StoreInv, Partition, Lengths
<1>10. BareInv'
  <2> SUFFICES ASSUME NEW d \in bare \ {c} PROVE \E g \in Handles : Holders(d)' = {g}
    BY <1>2 DEF BareInv
  <2>1. d \in Chunks \ {c}
    BY DEF TypeOK
  <2> QED
    BY <2>1, <1>4 DEF StoreInv, BareInv
<1>11. \A d \in Chunks :
         refs'[d] = Cardinality(Holders(d))' - (IF d \in bare' THEN 1 ELSE 0)
  <2> SUFFICES ASSUME NEW d \in Chunks
               PROVE  refs'[d] = Cardinality(Holders(d))'
                                   - (IF d \in bare' THEN 1 ELSE 0)
    OBVIOUS
  <2>1. CASE d = c
    <3>1. refs'[c] = n /\ c \notin bare'
      BY <1>3, <1>2 DEF TypeOK
    <3> QED
      BY <2>1, <3>1, <1>7, <1>n
  <2>2. CASE d # c
    <3>1. refs'[d] = refs[d] /\ Holders(d)' = Holders(d)
      BY <2>2, <1>2, <1>4 DEF TypeOK
    <3> QED
      BY <2>2, <3>1, <1>2 DEF StoreInv, RefsExact
  <2> QED
    BY <2>1, <2>2
<1>12. CASE n > 0
  <2>1. pc' = [pc EXCEPT ![t] = "unlock"] /\ free' = free /\ alloc' = alloc
    BY <1>2, <1>12
  <2>2. Partition' /\ Lengths'
    BY <2>1 DEF StoreInv, Partition, Lengths
  <2>3. Holders(c) # {h} /\ Holders(c)' # {}
    <3>1. Cardinality(Holders(c))' # 0
      BY <1>7, <1>12
    <3> QED
      BY <3>1, <1>4, <1>5
  <2>4. \A d \in Chunks : d \in ToSet(free)' <=> Holders(d)' = {}
    BY <2>1, <2>3, <1>4, <1>8 DEF StoreInv, RefsExact
  <2> QED
    BY <2>1, <2>2, <2>3, <2>4, <1>9, <1>10, <1>11 DEF StoreInv, RefsExact
<1>13. CASE n = 0
  <2>1. /\ pc' = [pc EXCEPT ![t] = "post"]
        /\ alloc' = ListRemove(alloc, c) /\ free' = ListAppend(free, c)
    BY <1>2, <1>13
  <2>2. /\ Len(alloc') = Len(alloc) - 1 /\ Distinct(alloc)'
        /\ ToSet(alloc)' = ToSet(alloc) \ {c}
    BY <2>1, <1>8, <1>9, RemoveFromList
  <2>3. /\ Len(free') = Len(free) + 1 /\ Distinct(free)'
        /\ ToSet(free)' = ToSet(free) \cup {c}
    BY <2>1, <1>3, <1>8, <1>9, AppendToList
  <2>t. free' \in Seq(Chunks) /\ alloc' \in Seq(Chunks)
    BY <2>1, <1>3, <1>8, <1>9, RemoveFromList, AppendToList
  <2>4. Partition'
    BY <2>2, <2>3, <1>3, <1>8 DEF StoreInv, Partition
  <2>5. Lengths'
    BY <2>2, <2>3, <1>9, MaxEltsAssumption DEF StoreInv, Lengths
  <2>6. Holders(c) = {h} /\ Holders(c)' = {}
    BY <1>4, <1>5, <1>7, <1>13
  <2>7. \A d \in Chunks : d \in ToSet(free)' <=> Holders(d)' = {}
    BY <2>3, <2>6, <1>4, <1>8 DEF StoreInv, RefsExact
  <2> QED
    BY <2>1, <2>t, <2>3, <2>4, <2>5, <2>6, <2>7, <1>10, <1>11 DEF StoreInv, RefsExact
<1> QED
  BY <1>12, <1>13, <1>n

\* mpool_ref_remove lowers the count and never frees the chunk.
LEMMA StoreRefRemove ==
  ASSUME TypeOK, CallsInv, StoreInv, NEW t \in Threads, RefRemove(t)
  PROVE  StoreInv'
<1> PICK c, h : c = ptr[t] /\ h = hnd[t]
  OBVIOUS
<1>1. pc[t] = "body" /\ op[t] = "ref_remove"
  BY DEF RefRemove, Goto
<1>2. /\ free' = free /\ alloc' = alloc /\ refs' = [refs EXCEPT ![c] = @ - 1]
      /\ \/ /\ Holders(c) = {h} /\ bare' = bare \cup {c}
            /\ refersTo' = refersTo
         \/ /\ Holders(c) # {h} /\ bare' = bare
            /\ refersTo' = [refersTo EXCEPT ![h] = NoChunk]
  BY DEF RefRemove, Refer
<1>3. h \in Handles /\ c \in Chunks /\ refersTo[h] = c /\ c \notin bare
  BY <1>1, BodyFacts DEF GivingUp, CallsInv, CallInv, Before
<1>4. Partition' /\ Lengths'
  BY <1>2 DEF StoreInv, Partition, Lengths
<1>5. /\ refs[c] = Cardinality(Holders(c)) /\ Cardinality(Holders(c)) \in Nat
      /\ refs'[c] = refs[c] - 1
      /\ h \in Holders(c) /\ c \notin ToSet(free)
  <2>1. h \in Holders(c)
    BY <1>3 DEF Holders
  <2> QED
    BY <2>1, <1>2, <1>3, HoldersFinite DEF TypeOK, StoreInv, RefsExact
<1>6. CASE Holders(c) = {h}
  <2>1. bare' = bare \cup {c} /\ refersTo' = refersTo
    BY <1>2, <1>6
  <2>2. \A d \in Chunks : Holders(d)' = Holders(d)
    BY <2>1 DEF Holders
  <2>3. BareInv'
    BY <2>1, <1>3, <1>6 DEF StoreInv, BareInv, Holders
  <2>4. ASSUME NEW d \in Chunks
        PROVE  /\ refs'[d] = Cardinality(Holders(d))'
                             - (IF d \in bare' THEN 1 ELSE 0)
               /\ d \in ToSet(free)' <=> Holders(d)' = {}
    <3>1. CASE d = c
      BY <3>1, <2>1, <2>2, <1>2, <1>5
    <3>2. CASE d # c
      <4>1. refs'[d] = refs[d] /\ (d \in bare' <=> d \in bare)
        BY <3>2, <1>2, <2>1 DEF TypeOK
      <4> QED
        BY <4>1, <2>2, <1>2 DEF StoreInv, RefsExact
    <3> QED
      BY <3>1, <3>2
  <2> QED
    BY <1>4, <2>3, <2>4 DEF StoreInv, RefsExact
<1>7. CASE Holders(c) # {h}
  <2>1. bare' = bare /\ refersTo' = [refersTo EXCEPT ![h] = NoChunk]
    BY <1>2, <1>7
  <2>2. /\ Holders(c)' = Holders(c) \ {h}
        /\ Cardinality(Holders(c))' = Cardinality(Holders(c)) - 1
        /\ \A d \in Chunks \ {c} : Holders(d)' = Holders(d)
    BY <2>1, <1>3, ClearHandle DEF TypeOK
  <2>3. Holders(c)' # {}
    BY <2>2, <1>5, <1>7
  <2>4. BareInv'
    <3> SUFFICES ASSUME NEW d \in bare
                 PROVE  \E g \in Handles : Holders(d)' = {g}
      BY <2>1 DEF BareInv
    <3>1. d \in Chunks \ {c}
      BY <1>3 DEF TypeOK
    <3> QED
      BY <3>1, <2>2 DEF StoreInv, BareInv
  <2>5. ASSUME NEW d \in Chunks
        PROVE  /\ refs'[d] = Cardinality(Holders(d))'
                             - (IF d \in bare' THEN 1 ELSE 0)
               /\ d \in ToSet(free)' <=> Holders(d)' = {}
    <3>1. CASE d = c
      BY <3>1, <2>1, <2>2, <2>3, <1>2, <1>3, <1>5
    <3>2. CASE d # c
      <4>1. refs'[d] = refs[d] /\ Holders(d)' = Holders(d)
        BY <3>2, <1>2, <2>2 DEF TypeOK
      <4> QED
        BY <4>1, <2>1, <1>2 DEF StoreInv, RefsExact
    <3> QED
      BY <3>1, <3>2
  <2> QED
    BY <1>4, <2>4, <2>5 DEF StoreInv, RefsExact
<1> QED
  BY <1>6, <1>7

\* No other step touches the store.
LEMMA StoreNext ==
  TypeOK /\ CallsInv /\ StoreInv /\ [Next]_vars => StoreInv'
<1> SUFFICES ASSUME TypeOK, CallsInv, StoreInv, [Next]_vars PROVE StoreInv'
  OBVIOUS
<1>1. ASSUME UNCHANGED Store PROVE StoreInv'
  BY <1>1, StoreUntouched
<1>2. CASE UNCHANGED vars
  BY <1>2, <1>1 DEF vars, Store
<1>3. ASSUME NEW t \in Threads,
             CallRequest(t) \/ CallRelease(t) \/ CallRefAdd(t) \/ CallRefRemove(t)
      PROVE  StoreInv'
  BY <1>3, <1>1 DEF CallRequest, CallRelease, CallRefAdd, CallRefRemove, Call, Store
<1>4. ASSUME NEW t \in Threads, NEW u \in Threads, Give(t, u) PROVE StoreInv'
  BY <1>4, <1>1 DEF Give, Store
<1>5. ASSUME NEW t \in Threads,
             \/ Interrupted(t) \/ TimedOut(t) \/ Wait(t) \/ Lock(t)
             \/ TakeFromEmpty(t) \/ Post(t) \/ Unlock(t)
      PROVE  StoreInv'
  BY <1>5, <1>1
  DEF Interrupted, TimedOut, Wait, Lock, TakeFromEmpty, Post, Unlock, Store
<1>6. ASSUME NEW t \in Threads,
             Take(t) \/ Release(t) \/ RefAdd(t) \/ RefRemove(t)
      PROVE  StoreInv'
  BY <1>6, StoreTake, StoreRelease, StoreRefAdd, StoreRefRemove
<1> QED
  BY <1>2, <1>3, <1>4, <1>5, <1>6 DEF Next, Step, Body

-----------------------------------------------------------------------------
(* Every variable keeps its type.                                          *)

ListTypes == free \in Seq(Chunks) /\ alloc \in Seq(Chunks)

CountTypes ==
  /\ refs \in [Chunks -> Int]
  /\ slots_avail \in Nat
  /\ mutex \in Threads \cup {NoThread}
  /\ interrupts \in 0 .. MaxInterrupts

CallTypes ==
  /\ pc \in [Threads -> Labels]
  /\ op \in [Threads -> Operations]
  /\ ptr \in [Threads -> Chunks \cup {NoChunk}]
  /\ hnd \in [Threads -> Handles \cup {NoHandle}]
  /\ refersTo \in [Handles -> Chunks \cup {NoChunk}]
  /\ owner \in [Handles -> Threads \cup {NoThread}]
  /\ bare \subseteq Chunks

\* The type invariant in three parts.
LEMMA TypesInParts == TypeOK <=> ListTypes /\ CountTypes /\ CallTypes
BY DEF TypeOK, ListTypes, CountTypes, CallTypes

\* The lists stay lists of chunks.
LEMMA ListTypesNext ==
  TypeOK /\ CallsInv /\ StoreInv /\ [Next]_vars => ListTypes'
<1> SUFFICES ASSUME TypeOK, CallsInv, StoreInv, [Next]_vars PROVE ListTypes'
  OBVIOUS
<1>1. ASSUME UNCHANGED <<free, alloc>> PROVE ListTypes'
  BY <1>1, TypesInParts DEF ListTypes
<1>2. CASE UNCHANGED vars
  BY <1>2, <1>1 DEF vars
<1>3. ASSUME NEW t \in Threads,
             CallRequest(t) \/ CallRelease(t) \/ CallRefAdd(t) \/ CallRefRemove(t)
      PROVE  ListTypes'
  BY <1>3, <1>1 DEF CallRequest, CallRelease, CallRefAdd, CallRefRemove, Call
<1>4. ASSUME NEW t \in Threads, NEW u \in Threads, Give(t, u) PROVE ListTypes'
  BY <1>4, <1>1 DEF Give
<1>5. ASSUME NEW t \in Threads,
             \/ Interrupted(t) \/ TimedOut(t) \/ Wait(t) \/ Lock(t)
             \/ TakeFromEmpty(t) \/ RefAdd(t) \/ RefRemove(t) \/ Post(t) \/ Unlock(t)
      PROVE  ListTypes'
  BY <1>5, <1>1
  DEF Interrupted, TimedOut, Wait, Lock, TakeFromEmpty, RefAdd, RefRemove, Post, Unlock
<1>6. ASSUME NEW t \in Threads, Take(t) PROVE ListTypes'
  BY <1>6, StoreTake DEF ListTypes
<1>7. ASSUME NEW t \in Threads, Release(t) PROVE ListTypes'
  BY <1>7, StoreRelease DEF ListTypes
<1> QED
  BY <1>2, <1>3, <1>4, <1>5, <1>6, <1>7 DEF Next, Step, Body

\* The other variables keep their types.
LEMMA OtherTypesNext ==
  TypeOK /\ CallsInv /\ [Next]_vars => CountTypes' /\ CallTypes'
<1> SUFFICES ASSUME TypeOK, CallsInv, [Next]_vars PROVE CountTypes' /\ CallTypes'
  OBVIOUS
<1> CountTypes /\ CallTypes
  BY TypesInParts
<1> USE DEF Goto, Labels, CountTypes, CallTypes
<1>1. CASE UNCHANGED vars
  BY <1>1 DEF vars
<1>2. ASSUME NEW t \in Threads,
             CallRequest(t) \/ CallRelease(t) \/ CallRefAdd(t) \/ CallRefRemove(t)
      PROVE  CountTypes' /\ CallTypes'
  BY <1>2 DEF CallRequest, CallRelease, CallRefAdd, CallRefRemove, Call,
              Operations, Requests
<1>3. ASSUME NEW t \in Threads, NEW u \in Threads, Give(t, u)
      PROVE  CountTypes' /\ CallTypes'
  BY <1>3 DEF Give
<1>4. ASSUME NEW t \in Threads, Interrupted(t) PROVE CountTypes' /\ CallTypes'
  BY <1>4, MaxInterruptsAssumption DEF Interrupted
<1>5. ASSUME NEW t \in Threads, TimedOut(t) \/ Lock(t) \/ Unlock(t)
      PROVE  CountTypes' /\ CallTypes'
  BY <1>5 DEF TimedOut, Lock, Unlock
<1>6. ASSUME NEW t \in Threads, Wait(t) \/ TakeFromEmpty(t) \/ Post(t)
      PROVE  CountTypes' /\ CallTypes'
  BY <1>6 DEF Wait, TakeFromEmpty, Post
<1>7. ASSUME NEW t \in Threads, Take(t) PROVE CountTypes' /\ CallTypes'
  <2>1. Head(free) \in Chunks
    BY <1>7, HeadOfList DEF TypeOK, Take
  <2>2. PICK c \in Chunks : c = Head(free)
    BY <2>1
  <2>3. /\ refs' = [refs EXCEPT ![c] = @ + 1] /\ ptr' = [ptr EXCEPT ![t] = c]
        /\ refersTo' = [refersTo EXCEPT ![hnd[t]] = c]
        /\ owner' = [owner EXCEPT ![hnd[t]] = t]
        /\ pc' = [pc EXCEPT ![t] = "unlock"]
        /\ op' = op /\ hnd' = hnd /\ bare' = bare
    BY <1>7, <2>2 DEF Take, Refer
  <2>4. refs[c] \in Int
    OBVIOUS
  <2>5. refs' \in [Chunks -> Int]
    BY <2>3, <2>4
  <2>6. CallTypes'
    BY <2>3
  <2> QED
    BY <1>7, <2>5, <2>6 DEF Take
<1>8. ASSUME NEW t \in Threads, Release(t) PROVE CountTypes' /\ CallTypes'
  <2>1. ptr[t] \in Chunks
    BY <1>8, BodyFacts DEF Release, GivingUp
  <2>2. refs[ptr[t]] \in Int
    BY <2>1
  <2>3. PICK n \in Int : refs' = [refs EXCEPT ![ptr[t]] = n]
    <3>1. (IF refs[ptr[t]] > 0 THEN refs[ptr[t]] - 1 ELSE 0) \in Int
      BY <2>2
    <3>2. refs' = [refs EXCEPT ![ptr[t]] =
                     IF refs[ptr[t]] > 0 THEN refs[ptr[t]] - 1 ELSE 0]
      BY <1>8 DEF Release
    <3> QED
      BY <3>1, <3>2
  <2>4. pc' \in [Threads -> Labels] /\ bare' \subseteq Chunks
    BY <1>8 DEF Release
  <2> QED
    BY <1>8, <2>3, <2>4 DEF Release, Refer
<1>9. ASSUME NEW t \in Threads, RefAdd(t) PROVE CountTypes' /\ CallTypes'
  <2>1. ptr[t] \in Chunks
    BY <1>9 DEF RefAdd, CallsInv, CallInv, Before
  <2>2. refs[ptr[t]] \in Int
    BY <2>1
  <2>3. refs' \in [Chunks -> Int]
    BY <1>9, <2>1, <2>2 DEF RefAdd
  <2>4. CallTypes'
    BY <1>9, <2>1 DEF RefAdd, Refer
  <2> QED
    BY <2>3, <2>4, <1>9 DEF RefAdd
<1>10. ASSUME NEW t \in Threads, RefRemove(t) PROVE CountTypes' /\ CallTypes'
  <2>1. ptr[t] \in Chunks
    BY <1>10, BodyFacts DEF RefRemove, GivingUp
  <2> QED
    BY <1>10, <2>1 DEF RefRemove, Refer
<1> QED
  BY <1>1, <1>2, <1>3, <1>4, <1>5, <1>6, <1>7, <1>8, <1>9, <1>10
  DEF Next, Step, Body

-----------------------------------------------------------------------------
(* What a call relies on is not taken away by the steps of others.         *)

Same(u) == pc'[u] = pc[u] /\ op'[u] = op[u] /\ ptr'[u] = ptr[u] /\ hnd'[u] = hnd[u]

\* Two calls have two handles.
LEMMA TwoHandles ==
  ASSUME TypeOK, CallsInv, HandlesInv, NEW t \in Threads, NEW u \in Threads,
         t # u, pc[t] # "idle", pc[u] # "idle"
  PROVE  hnd[t] \in Handles /\ hnd[u] \in Handles /\ hnd[t] # hnd[u]
BY DEF TypeOK, CallsInv, CallInv, HandlesInv

\* A step that leaves the references alone.
LEMMA CallKeptQuietly ==
  ASSUME CallsInv, NEW u \in Threads, Same(u), UNCHANGED <<refersTo, owner, bare>>
  PROVE  CallInv(u)'
BY DEF CallsInv, CallInv, Same

\* A step of another thread that fills its handle.
LEMMA CallKeptByFill ==
  ASSUME TypeOK, CallsInv, HandlesInv, NEW t \in Threads, NEW u \in Threads, t # u,
         pc[t] # "idle", refersTo[hnd[t]] = NoChunk, NEW c \in Chunks,
         Refer(hnd[t], c, t), bare' = bare, Same(u)
  PROVE  CallInv(u)'
<1>1. CASE pc[u] = "idle"
  BY <1>1 DEF CallsInv, CallInv, Same, Before
<1>2. CASE pc[u] # "idle"
  <2>1. hnd[t] \in Handles /\ hnd[u] \in Handles /\ hnd[t] # hnd[u]
    BY <1>2, TwoHandles
  <2>2. refersTo'[hnd[u]] = refersTo[hnd[u]] /\ owner'[hnd[u]] = owner[hnd[u]]
    BY <2>1 DEF Refer, TypeOK
  <2>3. ASSUME NEW g \in Handles, owner[g] = u, refersTo[g] \in Chunks
        PROVE  owner'[g] = u /\ refersTo'[g] = refersTo[g]
    <3>1. g # hnd[t]
      BY <2>3, MaxEltsAssumption DEF NoChunk, Chunks
    <3> QED
      BY <2>3, <3>1 DEF Refer, TypeOK
  <2> QED
    BY <2>2, <2>3 DEF CallsInv, CallInv, Same
<1> QED
  BY <1>1, <1>2

\* A step of another thread that gives its handle up.
LEMMA CallKeptByClear ==
  ASSUME TypeOK, CallsInv, HandlesInv, NEW t \in Threads, NEW u \in Threads, t # u,
         pc[t] # "idle", owner[hnd[t]] = t, Refer(hnd[t], NoChunk, NoThread),
         bare' \subseteq bare, Same(u)
  PROVE  CallInv(u)'
<1>1. CASE pc[u] = "idle"
  BY <1>1 DEF CallsInv, CallInv, Same, Before
<1>2. CASE pc[u] # "idle"
  <2>1. hnd[t] \in Handles /\ hnd[u] \in Handles /\ hnd[t] # hnd[u]
    BY <1>2, TwoHandles
  <2>2. refersTo'[hnd[u]] = refersTo[hnd[u]] /\ owner'[hnd[u]] = owner[hnd[u]]
    BY <2>1 DEF Refer, TypeOK
  <2>3. ASSUME NEW g \in Handles, owner[g] = u
        PROVE  owner'[g] = u /\ refersTo'[g] = refersTo[g]
    BY <2>3 DEF Refer, TypeOK
  <2> QED
    BY <2>2, <2>3 DEF CallsInv, CallInv, Same
<1> QED
  BY <1>1, <1>2

\* mpool_ref_remove of the only reference to a chunk: no other call is about it.
LEMMA CallKeptByBare ==
  ASSUME TypeOK, CallsInv, HandlesInv, NEW t \in Threads, NEW u \in Threads, t # u,
         pc[t] # "idle", owner[hnd[t]] = t, NEW c, Holders(c) = {hnd[t]},
         bare' = bare \cup {c}, UNCHANGED <<refersTo, owner>>, Same(u)
  PROVE  CallInv(u)'
<1>1. CASE pc[u] = "idle"
  BY <1>1 DEF CallsInv, CallInv, Same, Before
<1>2. CASE pc[u] # "idle"
  <2>1. hnd[t] \in Handles /\ hnd[u] \in Handles /\ hnd[t] # hnd[u]
    BY <1>2, TwoHandles
  <2>2. refersTo[hnd[u]] # c
    BY <2>1 DEF Holders
  <2>3. ASSUME NEW g \in Handles, owner[g] = u PROVE refersTo[g] # c
    BY <2>3 DEF Holders
  <2>4. pc[u] \in Before /\ op[u] = "ref_remove" => ptr'[u] \notin bare'
    BY <2>2 DEF CallsInv, CallInv, Same, GivingUp
  <2>5. pc[u] \in Before /\ op[u] = "ref_add" => ptr'[u] \in Chunks \ bare'
    BY <2>3 DEF CallsInv, CallInv, Same
  <2> QED
    BY <2>4, <2>5 DEF CallsInv, CallInv, Same
<1> QED
  BY <1>1, <1>2

\* Every step keeps what the calls rely on.
LEMMA CallsNext ==
  TypeOK /\ CallsInv /\ HandlesInv /\ [Next]_vars => CallsInv'
<1> SUFFICES ASSUME TypeOK, CallsInv, HandlesInv, [Next]_vars, NEW u \in Threads
             PROVE  CallInv(u)'
  BY DEF CallsInv
<1> CallInv(u)
  BY DEF CallsInv
<1> USE DEF Goto
<1>1. CASE UNCHANGED vars
  BY <1>1, CallKeptQuietly DEF vars, Same
<1>2. ASSUME NEW t \in Threads, NEW o \in Operations, NEW c, NEW h \in Handles,
             NEW l, Call(t, o, c, h, l)
      PROVE  /\ u # t => CallInv(u)'
             /\ /\ pc[t] = "idle" /\ pc'[t] = l /\ op'[t] = o /\ ptr'[t] = c
                /\ hnd'[t] = h /\ h # NoHandle
                /\ refersTo' = refersTo /\ owner' = owner /\ bare' = bare
  <2>1. u # t => Same(u)
    BY <1>2 DEF Call, Same, TypeOK
  <2> QED
    BY <1>2, <2>1, CallKeptQuietly, HandlesAssumption DEF Call, Busy, TypeOK
<1>3. ASSUME NEW t \in Threads, CallRequest(t) PROVE CallInv(u)'
  <2>1. PICK o \in Requests, h \in Handles : Fresh(t, h) /\ Call(t, o, NoChunk, h, "wait")
    BY <1>3 DEF CallRequest
  <2>2. o \in Operations
    BY DEF Operations
  <2>3. u = t => CallInv(u)'
    BY <2>1, <2>2, <1>2 DEF CallInv, Fresh, Before
  <2> QED
    BY <2>1, <2>2, <2>3, <1>2
<1>4. ASSUME NEW t \in Threads, CallRelease(t) PROVE CallInv(u)'
  <2>1. PICK h \in Handles : Has(t, h) /\ Call(t, "release", refersTo[h], h, "lock")
    BY <1>4 DEF CallRelease
  <2>2. u = t => CallInv(u)'
    BY <2>1, <1>2 DEF CallInv, Has, Before, Operations, Filling, Requests
  <2> QED
    BY <2>1, <2>2, <1>2 DEF Operations
<1>5. ASSUME NEW t \in Threads, CallRefAdd(t) PROVE CallInv(u)'
  <2>1. PICK g \in Handles, h \in Handles :
          /\ Has(t, g) /\ Fresh(t, h) /\ refersTo[g] \notin bare
          /\ Call(t, "ref_add", refersTo[g], h, "lock")
    BY <1>5 DEF CallRefAdd
  <2>2. u = t => CallInv(u)'
    BY <2>1, <1>2 DEF CallInv, Has, Fresh, Before, Operations, GivingUp
  <2> QED
    BY <2>1, <2>2, <1>2 DEF Operations
<1>6. ASSUME NEW t \in Threads, CallRefRemove(t) PROVE CallInv(u)'
  <2>1. PICK h \in Handles :
          /\ Has(t, h) /\ refersTo[h] \notin bare
          /\ Call(t, "ref_remove", refersTo[h], h, "lock")
    BY <1>6 DEF CallRefRemove
  <2>2. u = t => CallInv(u)'
    BY <2>1, <1>2 DEF CallInv, Has, Before, Operations, Filling, Requests
  <2> QED
    BY <2>1, <2>2, <1>2 DEF Operations
<1>7. ASSUME NEW t \in Threads, NEW v \in Threads, Give(t, v) PROVE CallInv(u)'
  <2>1. PICK h \in Handles :
          pc[t] = "idle" /\ owner[h] = t /\ owner' = [owner EXCEPT ![h] = v]
    BY <1>7 DEF Give, Busy, Has
  <2>2. /\ pc' = pc /\ op' = op /\ ptr' = ptr /\ hnd' = hnd
        /\ refersTo' = refersTo /\ bare' = bare
    BY <1>7 DEF Give
  <2>3. CASE u = t
    BY <2>1, <2>2, <2>3 DEF CallInv, Before
  <2>4. CASE u # t
    <3>1. \A g \in Handles : owner[g] = u => owner'[g] = u
      BY <2>1, <2>4 DEF TypeOK
    <3>2. pc[u] \in Before => hnd[u] \in Handles
      BY DEF CallInv, Before, TypeOK
    <3> QED
      BY <2>2, <3>1, <3>2 DEF CallInv
  <2> QED
    BY <2>3, <2>4
<1>8. ASSUME NEW t \in Threads, Wait(t) \/ Interrupted(t) PROVE CallInv(u)'
  <2>1. /\ pc[t] = "wait" /\ pc' = [pc EXCEPT ![t] = "lock"]
        /\ op' = op /\ ptr' = ptr /\ hnd' = hnd
        /\ refersTo' = refersTo /\ owner' = owner /\ bare' = bare
    BY <1>8 DEF Wait, Interrupted
  <2>2. CASE u = t
    BY <2>1, <2>2 DEF CallInv, TypeOK, Before, Requests, GivingUp, Filling
  <2>3. CASE u # t
    BY <2>1, <2>3, CallKeptQuietly DEF Same, TypeOK
  <2> QED
    BY <2>2, <2>3
<1>9. ASSUME NEW t \in Threads, Lock(t) \/ Post(t) PROVE CallInv(u)'
  <2>1. /\ \/ pc[t] = "lock" /\ pc' = [pc EXCEPT ![t] = "body"]
           \/ pc[t] = "post" /\ pc' = [pc EXCEPT ![t] = "unlock"]
        /\ op' = op /\ ptr' = ptr /\ hnd' = hnd
        /\ refersTo' = refersTo /\ owner' = owner /\ bare' = bare
    BY <1>9 DEF Lock, Post
  <2>2. CASE u = t
    BY <2>1, <2>2 DEF CallInv, TypeOK, Before
  <2>3. CASE u # t
    BY <2>1, <2>3, CallKeptQuietly DEF Same, TypeOK
  <2> QED
    BY <2>2, <2>3
<1>10. ASSUME NEW t \in Threads, TimedOut(t) \/ Unlock(t) PROVE CallInv(u)'
  <2>1. /\ pc' = [pc EXCEPT ![t] = "idle"] /\ hnd' = [hnd EXCEPT ![t] = NoHandle]
        /\ op' = op /\ (ptr' = ptr \/ ptr' = [ptr EXCEPT ![t] = NoChunk])
        /\ refersTo' = refersTo /\ owner' = owner /\ bare' = bare
    BY <1>10 DEF TimedOut, Unlock
  <2>2. CASE u = t
    BY <2>1, <2>2 DEF CallInv, TypeOK, Before
  <2>3. CASE u # t
    BY <2>1, <2>3, CallKeptQuietly DEF Same, TypeOK
  <2> QED
    BY <2>2, <2>3
<1>11. ASSUME NEW t \in Threads, TakeFromEmpty(t) PROVE CallInv(u)'
  <2>1. /\ pc[t] = "body" /\ pc' = [pc EXCEPT ![t] = "crashed"]
        /\ op' = op /\ ptr' = ptr /\ hnd' = hnd
        /\ refersTo' = refersTo /\ owner' = owner /\ bare' = bare
    BY <1>11 DEF TakeFromEmpty
  <2>2. CASE u = t
    BY <2>1, <2>2 DEF CallInv, TypeOK, Before
  <2>3. CASE u # t
    BY <2>1, <2>3, CallKeptQuietly DEF Same, TypeOK
  <2> QED
    BY <2>2, <2>3
<1>12. ASSUME NEW t \in Threads, NEW l \in {"unlock", "post"}, pc[t] = "body",
              pc' = [pc EXCEPT ![t] = l], hnd' = hnd
       PROVE  CallInv(t)'
  BY <1>12 DEF CallInv, CallsInv, Before, TypeOK
<1>13. ASSUME NEW t \in Threads, Take(t) PROVE CallInv(u)'
  <2>1. PICK c \in Chunks : Head(free) = c
    BY <1>13, HeadOfList DEF Take, TypeOK
  <2>2. /\ pc[t] = "body" /\ pc' = [pc EXCEPT ![t] = "unlock"] /\ hnd' = hnd /\ op' = op
        /\ ptr' = [ptr EXCEPT ![t] = c] /\ Refer(hnd[t], c, t) /\ bare' = bare
        /\ op[t] \in Filling
    BY <1>13, <2>1 DEF Take, Filling
  <2>3. refersTo[hnd[t]] = NoChunk
    BY <2>2, BodyFacts
  <2>4. u # t => Same(u)
    BY <2>2 DEF Same, TypeOK
  <2> QED
    BY <2>2, <2>3, <2>4, <1>12, CallKeptByFill
<1>14. ASSUME NEW t \in Threads, RefAdd(t) PROVE CallInv(u)'
  <2>1. /\ pc[t] = "body" /\ pc' = [pc EXCEPT ![t] = "unlock"] /\ hnd' = hnd /\ op' = op
        /\ ptr' = ptr /\ Refer(hnd[t], ptr[t], t) /\ bare' = bare
        /\ op[t] = "ref_add"
    BY <1>14 DEF RefAdd
  <2>2. refersTo[hnd[t]] = NoChunk /\ ptr[t] \in Chunks
    BY <2>1 DEF CallsInv, CallInv, Before, Filling
  <2>3. u # t => Same(u)
    BY <2>1 DEF Same, TypeOK
  <2> QED
    BY <2>1, <2>2, <2>3, <1>12, CallKeptByFill
<1>15. ASSUME NEW t \in Threads, Release(t) PROVE CallInv(u)'
  <2>1. /\ pc[t] = "body" /\ hnd' = hnd /\ op' = op /\ ptr' = ptr
        /\ Refer(hnd[t], NoChunk, NoThread) /\ bare' \subseteq bare
        /\ op[t] \in GivingUp
    BY <1>15 DEF Release, GivingUp
  <2>2. PICK l \in {"unlock", "post"} : pc' = [pc EXCEPT ![t] = l]
    BY <1>15 DEF Release
  <2>3. owner[hnd[t]] = t
    BY <2>1, BodyFacts
  <2>4. u # t => Same(u)
    BY <2>1, <2>2 DEF Same, TypeOK
  <2> QED
    BY <2>1, <2>2, <2>3, <2>4, <1>12, CallKeptByClear
<1>16. ASSUME NEW t \in Threads, RefRemove(t) PROVE CallInv(u)'
  <2>1. /\ pc[t] = "body" /\ hnd' = hnd /\ op' = op /\ ptr' = ptr
        /\ pc' = [pc EXCEPT ![t] = "unlock"] /\ op[t] \in GivingUp
        /\ \/ /\ Holders(ptr[t]) = {hnd[t]} /\ bare' = bare \cup {ptr[t]}
              /\ refersTo' = refersTo /\ owner' = owner
           \/ Refer(hnd[t], NoChunk, NoThread) /\ bare' = bare
    BY <1>16 DEF RefRemove, GivingUp
  <2>2. owner[hnd[t]] = t
    BY <2>1, BodyFacts
  <2>3. u # t => Same(u)
    BY <2>1 DEF Same, TypeOK
  <2> QED
    BY <2>1, <2>2, <2>3, <1>12, CallKeptByClear, CallKeptByBare
<1> QED
  BY <1>1, <1>3, <1>4, <1>5, <1>6, <1>7, <1>8, <1>9, <1>10, <1>11, <1>13, <1>14,
     <1>15, <1>16
  DEF Next, Step, Body

\* A handle that a call uses is used by no other call, and is its caller's.
LEMMA HandlesNext ==
  TypeOK /\ CallsInv /\ HandlesInv /\ [Next]_vars => HandlesInv'
<1> SUFFICES ASSUME TypeOK, CallsInv, HandlesInv, [Next]_vars PROVE HandlesInv'
  OBVIOUS
<1> NoHandle \notin Handles /\ NoChunk \notin Chunks
  BY HandlesAssumption, MaxEltsAssumption DEF NoChunk, Chunks
<1> USE DEF Goto
<1>1. ASSUME UNCHANGED <<hnd, refersTo, owner>> PROVE HandlesInv'
  BY <1>1 DEF HandlesInv
<1>2. CASE UNCHANGED vars
  BY <1>2, <1>1 DEF vars
<1>3. ASSUME NEW t \in Threads, NEW h \in Handles, ~Reserved(h),
             hnd' = [hnd EXCEPT ![t] = h], UNCHANGED <<refersTo, owner>>,
             refersTo[h] \in Chunks => owner[h] = t
      PROVE  HandlesInv'
  BY <1>3 DEF HandlesInv, TypeOK, Reserved
<1>4. ASSUME NEW t \in Threads, NEW h \in Handles, Has(t, h), ~Busy(t)
      PROVE  ~Reserved(h)
  <2> SUFFICES ASSUME NEW u \in Threads, hnd[u] = h PROVE FALSE
    BY DEF Reserved
  <2>1. owner[h] = u
    BY <1>4 DEF Has, HandlesInv
  <2> QED
    BY <2>1, <1>4 DEF Has, Busy, CallsInv, CallInv
<1>5. ASSUME NEW t \in Threads, CallRequest(t) \/ CallRefAdd(t) PROVE HandlesInv'
  <2>1. PICK h \in Handles : /\ Fresh(t, h) /\ hnd' = [hnd EXCEPT ![t] = h]
                             /\ refersTo' = refersTo /\ owner' = owner
    BY <1>5 DEF CallRequest, CallRefAdd, Call
  <2> QED
    BY <2>1, <1>3 DEF Fresh
<1>6. ASSUME NEW t \in Threads, CallRelease(t) \/ CallRefRemove(t) PROVE HandlesInv'
  <2>1. PICK h \in Handles : /\ Has(t, h) /\ ~Busy(t) /\ hnd' = [hnd EXCEPT ![t] = h]
                             /\ refersTo' = refersTo /\ owner' = owner
    BY <1>6 DEF CallRelease, CallRefRemove, Call
  <2> QED
    BY <2>1, <1>3, <1>4 DEF Has
<1>7. ASSUME NEW t \in Threads, NEW v \in Threads, Give(t, v) PROVE HandlesInv'
  <2>1. PICK h \in Handles :
          /\ Has(t, h) /\ ~Busy(t) /\ owner' = [owner EXCEPT ![h] = v]
          /\ refersTo' = refersTo /\ hnd' = hnd
    BY <1>7 DEF Give
  <2>2. \A u \in Threads : hnd[u] # h
    BY <2>1, <1>4 DEF Reserved
  <2> QED
    BY <2>1, <2>2 DEF HandlesInv, TypeOK
<1>8. ASSUME NEW t \in Threads,
             \/ Wait(t) \/ Interrupted(t) \/ Lock(t) \/ Post(t) \/ TakeFromEmpty(t)
      PROVE  HandlesInv'
  BY <1>8, <1>1 DEF Wait, Interrupted, Lock, Post, TakeFromEmpty
<1>9. ASSUME NEW t \in Threads, TimedOut(t) \/ Unlock(t) PROVE HandlesInv'
  <2>1. hnd' = [hnd EXCEPT ![t] = NoHandle] /\ refersTo' = refersTo /\ owner' = owner
    BY <1>9 DEF TimedOut, Unlock
  <2> QED
    BY <2>1 DEF HandlesInv, TypeOK
<1>10. ASSUME NEW t \in Threads, NEW c, NEW v, Refer(hnd[t], c, v), hnd' = hnd,
              hnd[t] \in Handles, c \in Chunks => v = t
       PROVE  HandlesInv'
  BY <1>10 DEF Refer, HandlesInv, TypeOK
<1>11. ASSUME NEW t \in Threads, pc[t] = "body" PROVE hnd[t] \in Handles
  BY <1>11, BodyFacts
<1>12. ASSUME NEW t \in Threads, Take(t) PROVE HandlesInv'
  <2>1. Refer(hnd[t], Head(free), t) /\ hnd' = hnd /\ pc[t] = "body"
    BY <1>12 DEF Take
  <2> QED
    BY <2>1, <1>10, <1>11
<1>13. ASSUME NEW t \in Threads, RefAdd(t) PROVE HandlesInv'
  <2>1. Refer(hnd[t], ptr[t], t) /\ hnd' = hnd /\ pc[t] = "body"
    BY <1>13 DEF RefAdd
  <2> QED
    BY <2>1, <1>10, <1>11
<1>14. ASSUME NEW t \in Threads, Release(t) PROVE HandlesInv'
  <2>1. Refer(hnd[t], NoChunk, NoThread) /\ hnd' = hnd /\ pc[t] = "body"
    BY <1>14 DEF Release
  <2> QED
    BY <2>1, <1>10, <1>11
<1>15. ASSUME NEW t \in Threads, RefRemove(t) PROVE HandlesInv'
  <2>1. /\ hnd' = hnd /\ pc[t] = "body"
        /\ \/ refersTo' = refersTo /\ owner' = owner
           \/ Refer(hnd[t], NoChunk, NoThread)
    BY <1>15 DEF RefRemove
  <2> QED
    BY <2>1, <1>1, <1>10, <1>11
<1> QED
  BY <1>2, <1>5, <1>6, <1>7, <1>8, <1>9, <1>12, <1>13, <1>14, <1>15
  DEF Next, Step, Body

-----------------------------------------------------------------------------
(* The semaphore accounts for the free list.                               *)

\* A step that moves one thread and changes no number.
LEMMA TokensKept ==
  ASSUME TypeOK, TokenAccounting, NEW t \in Threads, NEW l, pc' = [pc EXCEPT ![t] = l],
         \A u \in Threads \ {t} : op'[u] = op[u],
         t \in TokenHolders <=> t \in TokenHolders',
         UNCHANGED <<free, slots_avail, interrupts>>
  PROVE  TokenAccounting'
<1>1. Cardinality(TokenHolders)' = Cardinality(TokenHolders)
  BY TokensMove
<1> QED
  BY <1>1 DEF TokenAccounting

\* Every step changes the two sides of the account by the same amount.
LEMMA TokensNext ==
  /\ TypeOK /\ CallsInv /\ StoreInv /\ TokenAccounting /\ [Next]_vars
  => TokenAccounting'
<1> SUFFICES ASSUME TypeOK, CallsInv, StoreInv, TokenAccounting, [Next]_vars
             PROVE  TokenAccounting'
  OBVIOUS
<1>1. CASE UNCHANGED vars
  BY <1>1 DEF vars, TokenAccounting, TokenHolders
<1>2. ASSUME NEW t \in Threads,
             CallRequest(t) \/ CallRelease(t) \/ CallRefAdd(t) \/ CallRefRemove(t)
      PROVE  TokenAccounting'
  <2>1. PICK o \in Operations, l \in {"wait", "lock"} :
          /\ pc[t] = "idle" /\ pc' = [pc EXCEPT ![t] = l] /\ op' = [op EXCEPT ![t] = o]
          /\ l = "lock" => o \notin Requests
          /\ UNCHANGED <<free, slots_avail, interrupts>>
    BY <1>2 DEF CallRequest, CallRelease, CallRefAdd, CallRefRemove, Call, Busy,
                Operations, Requests
  <2>2. t \notin TokenHolders /\ t \notin TokenHolders'
    BY <2>1 DEF TokenHolders, TypeOK
  <2> QED
    BY <2>1, <2>2, TokensKept DEF TypeOK
<1>3. ASSUME NEW t \in Threads, NEW u \in Threads, Give(t, u) PROVE TokenAccounting'
  BY <1>3 DEF Give, TokenAccounting, TokenHolders
<1>4. ASSUME NEW t \in Threads, Wait(t) \/ Interrupted(t) PROVE TokenAccounting'
  <2>1. /\ pc[t] = "wait" /\ pc' = [pc EXCEPT ![t] = "lock"] /\ op' = op /\ free' = free
        /\ \/ slots_avail' = slots_avail - 1 /\ interrupts' = interrupts
           \/ slots_avail' = slots_avail /\ interrupts' = interrupts + 1
    BY <1>4 DEF Wait, Interrupted, Goto
  <2>2. op[t] \in Requests
    BY <2>1 DEF CallsInv, CallInv
  <2>3. t \notin TokenHolders /\ t \in TokenHolders'
    BY <2>1, <2>2 DEF TokenHolders, TypeOK
  <2>4. Cardinality(TokenHolders)' = Cardinality(TokenHolders) + 1
    BY <2>1, <2>3, TokensMove
  <2>5. Len(free) \in Nat /\ slots_avail \in Nat /\ interrupts \in Nat
    BY LenProperties, MaxInterruptsAssumption DEF TypeOK
  <2> QED
    BY <2>1, <2>4, <2>5, TokenHoldersFinite DEF TokenAccounting
<1>5. ASSUME NEW t \in Threads, TimedOut(t) \/ Lock(t) \/ TakeFromEmpty(t) \/ Unlock(t)
      PROVE  TokenAccounting'
  <2>1. /\ op' = op /\ UNCHANGED <<free, slots_avail, interrupts>>
        /\ \/ pc[t] = "wait" /\ pc' = [pc EXCEPT ![t] = "idle"]
           \/ pc[t] = "lock" /\ pc' = [pc EXCEPT ![t] = "body"]
           \/ pc[t] = "body" /\ op[t] \in Requests /\ pc' = [pc EXCEPT ![t] = "crashed"]
           \/ pc[t] = "unlock" /\ pc' = [pc EXCEPT ![t] = "idle"]
    BY <1>5 DEF TimedOut, Lock, TakeFromEmpty, Unlock, Goto
  <2>2. t \in TokenHolders <=> t \in TokenHolders'
    BY <2>1 DEF TokenHolders, TypeOK
  <2> QED
    BY <2>1, <2>2, TokensKept
<1>6. ASSUME NEW t \in Threads, Take(t) PROVE TokenAccounting'
  <2>1. /\ pc[t] = "body" /\ op[t] \in Requests /\ pc' = [pc EXCEPT ![t] = "unlock"]
        /\ op' = op /\ slots_avail' = slots_avail /\ interrupts' = interrupts
    BY <1>6 DEF Take, Goto
  <2>2. t \in TokenHolders /\ t \notin TokenHolders'
    BY <2>1 DEF TokenHolders, TypeOK
  <2>3. Cardinality(TokenHolders)' = Cardinality(TokenHolders) - 1
    BY <2>1, <2>2, TokensMove
  <2>4. Len(free') = Len(free) - 1
    BY <1>6, StoreTake
  <2>5. Len(free) \in Nat /\ slots_avail \in Nat /\ interrupts \in Nat
    BY LenProperties, MaxInterruptsAssumption DEF TypeOK
  <2> QED
    BY <2>1, <2>3, <2>4, <2>5, TokenHoldersFinite DEF TokenAccounting
<1>7. ASSUME NEW t \in Threads, Release(t) PROVE TokenAccounting'
  <2>1. /\ pc[t] = "body" /\ op[t] \notin Requests /\ op' = op
        /\ slots_avail' = slots_avail /\ interrupts' = interrupts
    BY <1>7 DEF Release, Requests
  <2>2. CASE pc' = [pc EXCEPT ![t] = "unlock"] /\ free' = free
    <3>1. t \in TokenHolders <=> t \in TokenHolders'
      BY <2>1, <2>2 DEF TokenHolders, TypeOK
    <3> QED
      BY <2>1, <2>2, <3>1, TokensKept
  <2>3. CASE pc' = [pc EXCEPT ![t] = "post"] /\ Len(free') = Len(free) + 1
    <3>1. t \notin TokenHolders /\ t \in TokenHolders'
      BY <2>1, <2>3 DEF TokenHolders, TypeOK
    <3>2. Cardinality(TokenHolders)' = Cardinality(TokenHolders) + 1
      BY <2>1, <2>3, <3>1, TokensMove
    <3>3. Len(free) \in Nat /\ slots_avail \in Nat /\ interrupts \in Nat
      BY LenProperties, MaxInterruptsAssumption DEF TypeOK
    <3> QED
      BY <2>1, <2>3, <3>2, <3>3, TokenHoldersFinite DEF TokenAccounting
  <2> QED
    BY <1>7, <2>2, <2>3, StoreRelease
<1>8. ASSUME NEW t \in Threads, RefAdd(t) \/ RefRemove(t) PROVE TokenAccounting'
  <2>1. /\ pc[t] = "body" /\ op[t] \notin Requests /\ pc' = [pc EXCEPT ![t] = "unlock"]
        /\ op' = op /\ UNCHANGED <<free, slots_avail, interrupts>>
    BY <1>8 DEF RefAdd, RefRemove, Requests, Goto
  <2>2. t \in TokenHolders <=> t \in TokenHolders'
    BY <2>1 DEF TokenHolders, TypeOK
  <2> QED
    BY <2>1, <2>2, TokensKept
<1>9. ASSUME NEW t \in Threads, Post(t) PROVE TokenAccounting'
  <2>1. /\ pc[t] = "post" /\ pc' = [pc EXCEPT ![t] = "unlock"] /\ op' = op
        /\ free' = free /\ slots_avail' = slots_avail + 1 /\ interrupts' = interrupts
    BY <1>9 DEF Post, Goto
  <2>2. t \in TokenHolders /\ t \notin TokenHolders'
    BY <2>1 DEF TokenHolders, TypeOK
  <2>3. Cardinality(TokenHolders)' = Cardinality(TokenHolders) - 1
    BY <2>1, <2>2, TokensMove
  <2>4. Len(free) \in Nat /\ slots_avail \in Nat /\ interrupts \in Nat
    BY LenProperties, MaxInterruptsAssumption DEF TypeOK
  <2> QED
    BY <2>1, <2>3, <2>4, TokenHoldersFinite DEF TokenAccounting
<1> QED
  BY <1>1, <1>2, <1>3, <1>4, <1>5, <1>6, <1>7, <1>8, <1>9 DEF Next, Step, Body

-----------------------------------------------------------------------------
(* The invariant, and what it implies.                                     *)

\* mpool_init establishes the invariant.
LEMMA PoolInvInit == Init => PoolInv
<1> SUFFICES ASSUME Init PROVE PoolInv
  OBVIOUS
<1> NoHandle \notin Handles /\ NoChunk \notin Chunks
  BY HandlesAssumption, MaxEltsAssumption DEF NoChunk, Chunks
<1>1. /\ free \in Seq(Chunks) /\ Len(free) = MaxElts
      /\ \A i \in 1 .. MaxElts : free[i] = i - 1
  <2>1. free = [i \in 1 .. MaxElts |-> i - 1]
    BY DEF Init
  <2>2. \A i \in 1 .. MaxElts : i - 1 \in Chunks
    BY MaxEltsAssumption DEF Chunks
  <2> QED
    BY <2>1, <2>2, IsASeq, LenProperties, MaxEltsAssumption
<1>2. alloc \in Seq(Chunks) /\ Len(alloc) = 0
  BY EmptySeq DEF Init
<1>3. Distinct(free) /\ ToSet(free) = Chunks
  <2>1. Distinct(free)
    BY <1>1, MaxEltsAssumption DEF Distinct
  <2>2. ASSUME NEW c \in Chunks PROVE c \in ToSet(free)
    <3>1. c + 1 \in 1 .. MaxElts /\ free[c + 1] = c
      BY <1>1, MaxEltsAssumption DEF Chunks
    <3> QED
      BY <3>1, <1>1 DEF ToSet
  <2>3. ToSet(free) \subseteq Chunks
    BY <1>1, MaxEltsAssumption DEF ToSet, Chunks
  <2> QED
    BY <2>1, <2>2, <2>3
<1>4. Distinct(alloc) /\ ToSet(alloc) = {}
  BY <1>2 DEF Distinct, ToSet
<1>5. Partition /\ Lengths
  BY <1>1, <1>2, <1>3, <1>4, MaxEltsAssumption DEF Partition, Lengths
<1>6. CountTypes /\ CallTypes
  BY MaxEltsAssumption, MaxInterruptsAssumption
  DEF Init, CountTypes, CallTypes, Labels, Operations, Requests
<1>7. TypeOK
  BY <1>1, <1>2, <1>6, TypesInParts DEF ListTypes
<1>8. CallsInv /\ HandlesInv /\ BareInv
  BY DEF Init, CallsInv, CallInv, HandlesInv, BareInv, Before
<1>9. RefsExact
  <2>1. \A c \in Chunks : Holders(c) = {} /\ refs[c] = 0 /\ c \notin bare
    BY DEF Init, Holders
  <2>2. \A c \in Chunks : Cardinality(Holders(c)) = 0
    BY <2>1, FS_EmptySet
  <2> QED
    BY <2>1, <2>2, <1>3 DEF RefsExact
<1>10. TokenAccounting
  <2>1. TokenHolders = {}
    BY DEF Init, TokenHolders
  <2>2. Cardinality(TokenHolders) = 0
    BY <2>1, FS_EmptySet
  <2> QED
    BY <2>2, <1>1, MaxEltsAssumption DEF Init, TokenAccounting
<1> QED
  BY <1>5, <1>7, <1>8, <1>9, <1>10 DEF PoolInv

\* Every step preserves it.
LEMMA PoolInvNext == PoolInv /\ [Next]_vars => PoolInv'
<1> SUFFICES ASSUME PoolInv, [Next]_vars PROVE PoolInv'
  OBVIOUS
<1>1. TypeOK /\ CallsInv /\ HandlesInv /\ StoreInv /\ TokenAccounting
  BY DEF PoolInv, StoreInv
<1>2. StoreInv'
  BY <1>1, StoreNext
<1>3. TypeOK'
  <2>1. ListTypes' /\ CountTypes' /\ CallTypes'
    BY <1>1, ListTypesNext, OtherTypesNext
  <2> QED
    BY <2>1 DEF TypeOK, ListTypes, CountTypes, CallTypes
<1>4. CallsInv' /\ HandlesInv' /\ TokenAccounting'
  BY <1>1, CallsNext, HandlesNext, TokensNext
<1> QED
  BY <1>2, <1>3, <1>4 DEF PoolInv, StoreInv

\* PoolInv holds in every reachable state, whatever requests, releases,
\* reference operations, interrupts and timeouts interleave.
LEMMA PoolInvariance == Spec => []PoolInv
BY PoolInvInit, PoolInvNext, PTL DEF Spec

\* Every reachable state of the pool is well typed.
THEOREM PoolTypes == Spec => []TypeOK
<1>1. PoolInv => TypeOK
  BY DEF PoolInv
<1> QED
  BY <1>1, PoolInvariance, PTL

\* The free and the allocated list of mpool.c hold every chunk exactly once
\* in every reachable state.
THEOREM PoolPartition == Spec => []Partition
<1>1. PoolInv => Partition
  BY DEF PoolInv
<1> QED
  BY <1>1, PoolInvariance, PTL

\* The counts the_pool->refs are the numbers of references, and the free
\* chunks are those nobody refers to, in every reachable state.
THEOREM PoolRefs == Spec => []RefsExact
<1>1. PoolInv => RefsExact
  BY DEF PoolInv
<1> QED
  BY <1>1, PoolInvariance, PTL

\* slots_avail accounts for the free list in every reachable state, one too
\* high for every wait of mpool_req that was interrupted.
THEOREM PoolTokens == Spec => []TokenAccounting
<1>1. PoolInv => TokenAccounting
  BY DEF PoolInv
<1> QED
  BY <1>1, PoolInvariance, PTL

-----------------------------------------------------------------------------
(* The pool implements the abstract pool.                                  *)

\* Every step is a grant, a share, a drop, or invisible.
LEMMA PoolStep == PoolInv /\ [Next]_vars => [Pool!Next]_Pool!vars
<1> SUFFICES ASSUME PoolInv, [Next]_vars PROVE [Pool!Next]_Pool!vars
  OBVIOUS
<1> TypeOK /\ CallsInv /\ StoreInv
  BY DEF PoolInv, StoreInv
<1>1. ASSUME UNCHANGED <<free, refersTo>> PROVE [Pool!Next]_Pool!vars
  BY <1>1 DEF Pool!vars, ToSet
<1>2. CASE UNCHANGED vars
  BY <1>2, <1>1 DEF vars
<1>3. ASSUME NEW t \in Threads,
             CallRequest(t) \/ CallRelease(t) \/ CallRefAdd(t) \/ CallRefRemove(t)
      PROVE  [Pool!Next]_Pool!vars
  BY <1>3, <1>1 DEF CallRequest, CallRelease, CallRefAdd, CallRefRemove, Call
<1>4. ASSUME NEW t \in Threads, NEW u \in Threads, Give(t, u)
      PROVE  [Pool!Next]_Pool!vars
  BY <1>4, <1>1 DEF Give
<1>5. ASSUME NEW t \in Threads,
             \/ Interrupted(t) \/ TimedOut(t) \/ Wait(t) \/ Lock(t)
             \/ TakeFromEmpty(t) \/ Post(t) \/ Unlock(t)
      PROVE  [Pool!Next]_Pool!vars
  BY <1>5, <1>1 DEF Interrupted, TimedOut, Wait, Lock, TakeFromEmpty, Post, Unlock
<1>6. ASSUME NEW t \in Threads, Take(t) PROVE [Pool!Next]_Pool!vars
  <2>1. PICK c \in Chunks : c = Head(free)
    BY <1>6, HeadOfList DEF Take, TypeOK
  <2>2. PICK h \in Handles : h = hnd[t]
    BY <1>6, BodyFacts DEF Take, Goto
  <2>3. refersTo[h] = NoChunk /\ refersTo' = [refersTo EXCEPT ![h] = c]
    BY <1>6, <2>1, <2>2, BodyFacts DEF Take, Goto, Refer, Filling
  <2>4. c \in ToSet(free) /\ ToSet(free)' = ToSet(free) \ {c}
    BY <1>6, <2>1, StoreTake
  <2>5. Pool!Grant(h, c)
    BY <2>3, <2>4 DEF Pool!Grant
  <2> QED
    BY <2>5 DEF Pool!Next
<1>7. ASSUME NEW t \in Threads, RefAdd(t) PROVE [Pool!Next]_Pool!vars
  <2>1. pc[t] = "body" /\ op[t] = "ref_add"
    BY <1>7 DEF RefAdd, Goto
  <2>2. PICK h \in Handles : h = hnd[t] /\ refersTo[h] = NoChunk
    BY <2>1, BodyFacts DEF Filling
  <2>3. PICK c \in Chunks : c = ptr[t] /\ \E g \in Handles : refersTo[g] = c
    BY <2>1 DEF CallsInv, CallInv, Before
  <2>4. refersTo' = [refersTo EXCEPT ![h] = c] /\ free' = free
    BY <1>7, <2>2, <2>3 DEF RefAdd, Refer
  <2>5. Pool!Share(h, c)
    BY <2>2, <2>3, <2>4 DEF Pool!Share, ToSet
  <2> QED
    BY <2>5 DEF Pool!Next
<1>8. ASSUME NEW t \in Threads, Release(t) PROVE [Pool!Next]_Pool!vars
  <2>1. PICK h \in Handles, c \in Chunks :
          /\ h = hnd[t] /\ c = ptr[t] /\ refersTo[h] = c
          /\ refersTo' = [refersTo EXCEPT ![h] = NoChunk]
    BY <1>8, BodyFacts DEF Release, Refer, GivingUp
  <2>2. h \in Holders(c)
    BY <2>1 DEF Holders
  <2>3. CASE Holders(c) = {h}
    <3>1. ToSet(free)' = ToSet(free) \cup {c}
      BY <1>8, <2>1, <2>3, StoreRelease
    <3>2. ~ \E g \in Handles \ {h} : refersTo[g] = c
      BY <2>3 DEF Holders
    <3>3. Pool!Drop(h, c)
      BY <2>1, <3>1, <3>2 DEF Pool!Drop
    <3> QED
      BY <3>3 DEF Pool!Next
  <2>4. CASE Holders(c) # {h}
    <3>1. free' = free
      BY <1>8, <2>1, <2>4, StoreRelease
    <3>2. \E g \in Handles \ {h} : refersTo[g] = c
      BY <2>2, <2>4 DEF Holders
    <3>3. Pool!Drop(h, c)
      BY <2>1, <3>1, <3>2 DEF Pool!Drop, ToSet
    <3> QED
      BY <3>3 DEF Pool!Next
  <2> QED
    BY <2>3, <2>4
<1>9. ASSUME NEW t \in Threads, RefRemove(t) PROVE [Pool!Next]_Pool!vars
  <2>1. PICK h \in Handles, c \in Chunks :
          h = hnd[t] /\ c = ptr[t] /\ refersTo[h] = c
    BY <1>9, BodyFacts DEF RefRemove, Goto, GivingUp
  <2>2. h \in Holders(c)
    BY <2>1 DEF Holders
  <2>3. CASE Holders(c) = {h}
    BY <1>9, <1>1, <2>1, <2>3 DEF RefRemove
  <2>4. CASE Holders(c) # {h}
    <3>1. free' = free /\ refersTo' = [refersTo EXCEPT ![h] = NoChunk]
      BY <1>9, <2>1, <2>4 DEF RefRemove, Refer
    <3>2. \E g \in Handles \ {h} : refersTo[g] = c
      BY <2>2, <2>4 DEF Holders
    <3>3. Pool!Drop(h, c)
      BY <2>1, <3>1, <3>2 DEF Pool!Drop, ToSet
    <3> QED
      BY <3>3 DEF Pool!Next
  <2> QED
    BY <2>3, <2>4
<1> QED
  BY <1>2, <1>3, <1>4, <1>5, <1>6, <1>7, <1>8, <1>9 DEF Next, Step, Body

\* The memory pool implements the reference-counted pool of RefPool: a chunk
\* is handed out only while nobody refers to it and freed only with the last
\* reference, interrupted waits included.
THEOREM PoolImplementation == Spec => ImplementsPool
<1>1. Init => Pool!Init
  <2> SUFFICES ASSUME Init PROVE Pool!Init
    OBVIOUS
  <2>1. ToSet(free) = Chunks
    <3>1. Partition /\ RefsExact /\ \A c \in Chunks : Holders(c) = {}
      BY PoolInvInit, MaxEltsAssumption DEF PoolInv, Init, Holders, NoChunk, Chunks
    <3> QED
      BY <3>1 DEF Partition, RefsExact
  <2> QED
    BY <2>1 DEF Init, Pool!Init
<1> QED
  BY <1>1, PoolStep, PoolInvariance, PTL DEF Spec, ImplementsPool, Pool!Spec
=============================================================================
