--------------------------- MODULE ContainerProofs ---------------------------
(***************************************************************************)
(* Proofs about the containers, of any size and with any elements or keys: *)
(*   - the plain ring buffer, the raw FIFO, and the multi-FIFO when at     *)
(*     most one interrupt calls multififo_add in the middle of an          *)
(*     operation;                                                          *)
(*   - what a stable sort and the binary search of module Order do;        *)
(*   - the hash map, which is a dictionary;                                *)
(*   - the dynamic array, which holds what was put in and not taken out;   *)
(*   - the binary heap, which is in order and whose top is the best key.   *)
(***************************************************************************)
EXTENDS Ring, RawFifo, MultiFifo, HashMap, BinHeap, WellFoundedInduction, FunctionTheorems,
        FiniteSetTheorems, SequenceTheorems, TLAPS

\* The plain ring buffer.  It agrees with what was put in, slot by slot.
RingInv ==
  /\ ring \in RingBuffers /\ newest \in Seq(Elts) /\ cleared \in BOOLEAN
  /\ Len(newest) = ring.current
  /\ \A i \in 1 .. ring.current : ring.elements[RingSlot(ring.start + i - 1)] = newest[i]

\* An index less than twice the size of the array is reduced by subtraction.
LEMMA SlotOf ==
  ASSUME NEW i \in Nat, i < MaxElts + MaxElts
  PROVE  /\ RingSlot(i) = IF i < MaxElts THEN i ELSE i - MaxElts
         /\ RingSlot(i) \in Slots
BY MaxEltsAssumption DEF RingSlot, Slots

\* The fields of a buffer.
LEMMA RingFields ==
  ASSUME NEW rb \in RingBuffers
  PROVE  /\ rb.start \in 0 .. MaxElts - 1 /\ rb.current \in 0 .. MaxElts /\ MaxElts \in Nat \ {0}
         /\ rb.elements \in [Slots -> Elts \cup {Unset}]
BY MaxEltsAssumption DEF RingBuffers, Slots

\* Elements that are in the buffer at once are in different slots, and behind
\* the last of them there is a slot of none unless the buffer is full; then it
\* is the slot of the oldest.
LEMMA SlotsDiffer ==
  ASSUME NEW start \in 0 .. MaxElts - 1, NEW i \in 0 .. MaxElts, NEW j \in 0 .. MaxElts - 1
  PROVE  RingSlot(start + i) = RingSlot(start + j) <=> IF i = MaxElts THEN j = 0 ELSE i = j
<1> DEFINE a == start + i
           b == start + j
<1>1. MaxElts \in Nat \ {0}
  BY MaxEltsAssumption
<1>2. a \in Nat /\ b \in Nat /\ a < MaxElts + MaxElts /\ b < MaxElts + MaxElts
  BY <1>1
<1> HIDE DEF a, b
<1>3. /\ RingSlot(a) = IF a < MaxElts THEN a ELSE a - MaxElts
      /\ RingSlot(b) = IF b < MaxElts THEN b ELSE b - MaxElts
  BY <1>2, SlotOf
<1> QED
  BY <1>1, <1>3 DEF a, b

\* Counting from the next slot is counting one further.
LEMMA SlotAfter ==
  ASSUME NEW start \in 0 .. MaxElts - 1, NEW i \in 0 .. MaxElts - 1
  PROVE  RingSlot(RingSlot(start + 1) + i) = RingSlot(start + (i + 1))
<1>1. MaxElts \in Nat \ {0}
  BY MaxEltsAssumption
<1> DEFINE next == RingSlot(start + 1)
           a == next + i
           b == start + (i + 1)
<1>2. next = IF start + 1 < MaxElts THEN start + 1 ELSE 0
  <2> DEFINE one == start + 1
  <2>1. one \in Nat /\ one < MaxElts + MaxElts
    BY <1>1
  <2> HIDE DEF one
  <2>2. RingSlot(one) = IF one < MaxElts THEN one ELSE one - MaxElts
    BY <2>1, SlotOf
  <2> QED
    BY <1>1, <2>2 DEF one
<1> HIDE DEF next
<1>3. a \in Nat /\ b \in Nat /\ a < MaxElts + MaxElts /\ b < MaxElts + MaxElts
  BY <1>1, <1>2
<1> HIDE DEF a, b
<1>4. /\ RingSlot(a) = IF a < MaxElts THEN a ELSE a - MaxElts
      /\ RingSlot(b) = IF b < MaxElts THEN b ELSE b - MaxElts
  BY <1>3, SlotOf
<1>5. RingSlot(a) = RingSlot(b)
  BY <1>1, <1>2, <1>4 DEF a, b
<1> QED
  BY <1>5 DEF a, b, next

\* rbuffer_add puts the element behind the others; a full buffer loses its
\* oldest one.
LEMMA PutKeeps == ASSUME RingInv, NEW e \in Elts, RingPut(e) PROVE RingInv'
<1> DEFINE M == MaxElts
           s == ring.start
           n == ring.current
           slot == RingSlot(s + n)
<1>1. /\ s \in 0 .. M - 1 /\ n \in 0 .. M /\ M \in Nat \ {0}
      /\ ring.elements \in [Slots -> Elts \cup {Unset}]
      /\ newest \in Seq(Elts) /\ Len(newest) = n
      /\ \A i \in 1 .. n : ring.elements[RingSlot(s + i - 1)] = newest[i]
  BY RingFields DEF RingInv
<1>2. slot \in Slots /\ RingSlot(s + 1) \in Slots
  <2>1. s + n \in Nat /\ s + n < M + M /\ s + 1 \in Nat /\ s + 1 < M + M
    BY <1>1
  <2> QED
    BY <2>1, SlotOf
<1>3. /\ ring'.start = IF n = M THEN RingSlot(s + 1) ELSE s
      /\ ring'.current = IF n = M THEN n ELSE n + 1
      /\ ring'.elements = [ring.elements EXCEPT ![slot] = e]
      /\ ring' = [start |-> ring'.start, current |-> ring'.current, elements |-> ring'.elements]
      /\ newest' = Append(IF n = M THEN Tail(newest) ELSE newest, e) /\ cleared' = cleared
  BY <1>1 DEF RingPut, RingAdd, RingIsFull
<1> HIDE DEF M, s, n, slot
<1>4. ring' \in RingBuffers
  <2>1. ring'.elements \in [Slots -> Elts \cup {Unset}]
    BY <1>1, <1>2, <1>3
  <2>2. ring'.start \in Slots /\ ring'.current \in 0 .. MaxElts
    BY <1>1, <1>2, <1>3 DEF Slots, M
  <2> QED
    BY <1>3, <2>1, <2>2 DEF RingBuffers
<1>5. CASE n # M
  <2>1. /\ newest' \in Seq(Elts) /\ Len(newest') = n + 1 /\ newest'[n + 1] = e
        /\ \A i \in 1 .. n : newest'[i] = newest[i]
    BY <1>1, <1>3, <1>5
  <2>2. ASSUME NEW i \in 1 .. n + 1 PROVE ring'.elements[RingSlot(s + i - 1)] = newest'[i]
    <3>1. RingSlot(s + n) = RingSlot(s + (i - 1)) <=> n = i - 1
      <4>1. i - 1 \in 0 .. MaxElts - 1 /\ n \in 0 .. MaxElts /\ n # MaxElts
        BY <1>1, <1>5 DEF M
      <4> QED
        BY <1>1, <4>1, SlotsDiffer DEF M
    <3>2. RingSlot(s + (i - 1)) \in Slots /\ s + i - 1 = s + (i - 1)
      <4>1. s + (i - 1) \in Nat /\ s + (i - 1) < M + M /\ s + i - 1 = s + (i - 1)
        BY <1>1, <1>5
      <4> QED
        BY <4>1, SlotOf DEF M
    <3>3. CASE i = n + 1
      BY <1>1, <1>3, <2>1, <3>1, <3>2, <3>3 DEF slot
    <3>4. CASE i # n + 1
      <4>1. i \in 1 .. n /\ n # i - 1
        BY <1>1, <3>4
      <4>2. ring'.elements[RingSlot(s + (i - 1))] = ring.elements[RingSlot(s + (i - 1))]
        BY <1>1, <1>3, <3>1, <3>2, <4>1 DEF slot
      <4> QED
        BY <1>1, <2>1, <3>2, <4>1, <4>2
    <3> QED
      BY <3>3, <3>4
  <2> QED
    BY <1>3, <1>4, <1>5, <2>1, <2>2 DEF RingInv
<1>6. CASE n = M
  <2>1. newest # <<>>
    BY <1>1, <1>6
  <2>2. /\ Tail(newest) \in Seq(Elts) /\ Len(Tail(newest)) = n - 1
        /\ \A i \in 1 .. n - 1 : Tail(newest)[i] = newest[i + 1]
    BY <1>1, <2>1
  <2>3. /\ newest' \in Seq(Elts) /\ Len(newest') = n /\ newest'[n] = e
        /\ \A i \in 1 .. n - 1 : newest'[i] = newest[i + 1]
    BY <1>1, <1>3, <1>6, <2>2
  <2>4. ASSUME NEW i \in 1 .. n
        PROVE  ring'.elements[RingSlot(RingSlot(s + 1) + i - 1)] = newest'[i]
    <3>1. /\ RingSlot(RingSlot(s + 1) + (i - 1)) = RingSlot(s + i)
          /\ RingSlot(s + 1) + i - 1 = RingSlot(s + 1) + (i - 1)
      <4>1. i - 1 \in 0 .. MaxElts - 1 /\ (i - 1) + 1 = i /\ RingSlot(s + 1) \in Nat
        BY <1>1, <1>2, <1>6 DEF M, Slots
      <4> QED
        BY <1>1, <4>1, SlotAfter DEF M
    <3>2. RingSlot(s + i) \in Slots
      <4>1. s + i \in Nat /\ s + i < M + M
        BY <1>1, <1>6
      <4> QED
        BY <4>1, SlotOf DEF M
    <3>3. CASE i = n
      BY <1>1, <1>3, <2>3, <3>1, <3>2, <3>3 DEF slot
    <3>4. CASE i # n
      <4>1. RingSlot(s + n) # RingSlot(s + i)
        <5>1. /\ s \in 0 .. MaxElts - 1 /\ i \in 0 .. MaxElts - 1 /\ n \in 0 .. MaxElts
              /\ n = MaxElts /\ i # 0
          BY <1>1, <1>6, <3>4 DEF M
        <5>2. RingSlot(s + n) = RingSlot(s + i) <=> IF n = MaxElts THEN i = 0 ELSE n = i
          BY <5>1, SlotsDiffer
        <5> QED
          BY <5>1, <5>2
      <4>2. ring.elements[RingSlot(s + i)] = newest[i + 1]
        <5>1. i + 1 \in 1 .. n /\ s + (i + 1) - 1 = s + i
          BY <1>1, <1>6, <3>4
        <5> QED
          BY <1>1, <5>1
      <4>3. newest'[i] = newest[i + 1]
        <5>1. i \in 1 .. n - 1
          BY <1>1, <1>6, <3>4
        <5> QED
          BY <2>3, <5>1
      <4> QED
        BY <1>1, <1>3, <3>1, <3>2, <4>1, <4>2, <4>3 DEF slot
    <3> QED
      BY <3>3, <3>4
  <2> QED
    BY <1>3, <1>4, <1>6, <2>3, <2>4 DEF RingInv
<1> QED
  BY <1>5, <1>6

\* rbuffer_remove takes the oldest element.
LEMMA TakeKeeps == ASSUME RingInv, RingTake PROVE RingInv'
<1> DEFINE M == MaxElts
           s == ring.start
           n == ring.current
<1>1. /\ s \in 0 .. M - 1 /\ n \in 1 .. M /\ M \in Nat \ {0}
      /\ ring.elements \in [Slots -> Elts \cup {Unset}]
      /\ newest \in Seq(Elts) /\ Len(newest) = n
      /\ \A i \in 1 .. n : ring.elements[RingSlot(s + i - 1)] = newest[i]
  BY RingFields DEF RingInv, RingTake, RingIsEmpty
<1>2. RingSlot(s + 1) \in Slots
  <2>1. s + 1 \in Nat /\ s + 1 < M + M
    BY <1>1
  <2> QED
    BY <2>1, SlotOf
<1>3. /\ ring' = [start |-> RingSlot(s + 1), current |-> n - 1, elements |-> ring.elements]
      /\ newest' = Tail(newest) /\ cleared' = cleared
  BY DEF RingTake, RingRemove
<1>4. newest # <<>>
  BY <1>1
<1>5. /\ newest' \in Seq(Elts) /\ Len(newest') = n - 1
      /\ \A i \in 1 .. n - 1 : newest'[i] = newest[i + 1]
  BY <1>1, <1>3, <1>4
<1> HIDE DEF M, s, n
<1>6. ASSUME NEW i \in 1 .. n - 1
      PROVE  ring.elements[RingSlot(RingSlot(s + 1) + i - 1)] = newest'[i]
  <2>1. i - 1 \in 0 .. MaxElts - 1 /\ (i - 1) + 1 = i /\ RingSlot(s + 1) \in Nat
    BY <1>1, <1>2 DEF M, Slots
  <2>2. RingSlot(RingSlot(s + 1) + (i - 1)) = RingSlot(s + i)
    BY <1>1, <2>1, SlotAfter DEF M
  <2>3. RingSlot(s + 1) + i - 1 = RingSlot(s + 1) + (i - 1)
    BY <2>1
  <2>4. i + 1 \in 1 .. n /\ s + (i + 1) - 1 = s + i
    BY <1>1
  <2> QED
    BY <1>1, <1>5, <2>2, <2>3, <2>4
<1>7. ring' \in RingBuffers
  <2>1. n - 1 \in 0 .. MaxElts
    BY <1>1 DEF M
  <2> QED
    BY <1>1, <1>2, <1>3, <2>1 DEF RingBuffers
<1> QED
  BY <1>3, <1>5, <1>6, <1>7 DEF RingInv

\* Whatever was put in, overwritten, removed or cleared, the buffer agrees with
\* what it should hold.
THEOREM RingInvariant == RingSpec => []RingInv
<1>1. RingInit => RingInv
  <2>1. EmptyRing \in RingBuffers /\ EmptyRing.current = 0
    BY MaxEltsAssumption DEF EmptyRing, RingBuffers, Slots
  <2>2. Len(<<>>) = 0 /\ <<>> \in Seq(Elts)
    OBVIOUS
  <2>3. SUFFICES ASSUME RingInit PROVE RingInv
    OBVIOUS
  <2>4. ring \in RingBuffers /\ ring.current = 0
    BY <2>1, <2>3 DEF RingInit
  <2>5. newest \in Seq(Elts) /\ Len(newest) = 0 /\ cleared \in BOOLEAN
    BY <2>2, <2>3 DEF RingInit
  <2>6. \A i \in 1 .. ring.current :
          ring.elements[RingSlot(ring.start + i - 1)] = newest[i]
    BY <2>4
  <2> QED
    BY <2>4, <2>5, <2>6 DEF RingInv
<1>2. ASSUME RingInv, [RingNext]_ringVars PROVE RingInv'
  <2>1. CASE UNCHANGED ringVars
    BY <1>2, <2>1 DEF RingInv, ringVars
  <2>2. ASSUME NEW e \in Elts, RingPut(e) PROVE RingInv'
    BY <1>2, <2>2, PutKeeps
  <2>3. CASE RingTake
    BY <1>2, <2>3, TakeKeeps
  <2>4. CASE RingWipe
    <3>1. ring' \in RingBuffers /\ ring'.current = 0
      BY <1>2, <2>4, MaxEltsAssumption, RingFields
      DEF RingInv, RingWipe, RingClear, RingBuffers, Slots
    <3> QED
      BY <2>4, <3>1 DEF RingInv, RingWipe
  <2> QED
    BY <1>2, <2>1, <2>2, <2>3, <2>4 DEF RingNext
<1> QED
  BY <1>1, <1>2, PTL DEF RingSpec

\* rbuffer_map visits the newest elements in the order they came, and
\* rbuffer_index_query finds the oldest copy of one of them first.
THEOREM NewestHeld == RingSpec => []RingHoldsNewest
<1>1. ASSUME RingInv PROVE RingHoldsNewest
  <2> DEFINE s == ring.start
             n == ring.current
  <2>1. /\ s \in 0 .. MaxElts - 1 /\ n \in 0 .. MaxElts /\ MaxElts \in Nat \ {0}
        /\ newest \in Seq(Elts) /\ Len(newest) = n
        /\ \A i \in 1 .. n : ring.elements[RingSlot(s + i - 1)] = newest[i]
    BY <1>1, RingFields DEF RingInv
  <2>2. RingContents(ring) = newest
    <3>1. newest = [i \in 1 .. n |-> newest[i]]
      BY <2>1
    <3> QED
      BY <2>1, <3>1 DEF RingContents
  <2>3. ASSUME NEW i \in DOMAIN newest, \A j \in 1 .. i - 1 : newest[j] # newest[i]
        PROVE  RingIndexQuery(ring, newest[i]) = RingSlot(s + i - 1)
    <3> DEFINE at(k) == RingSlot(s + k)
               hits == {k \in Slots : ring.elements[at(k)] = newest[i]}
               first == CHOOSE k \in hits : \A l \in hits : k <= l
    <3>1. i \in 1 .. n /\ i - 1 \in Slots /\ Slots \subseteq Int
      BY <2>1 DEF Slots
    <3>2. i - 1 \in hits
      <4>1. s + (i - 1) = s + i - 1
        BY <2>1, <3>1
      <4> QED
        BY <2>1, <3>1, <4>1
    <3>3. ASSUME NEW l \in hits PROVE i - 1 <= l
      <4>1. SUFFICES ASSUME l < i - 1 PROVE FALSE
        BY <3>1
      <4>2. l + 1 \in 1 .. i - 1 /\ l + 1 \in 1 .. n /\ s + (l + 1) - 1 = s + l
        BY <2>1, <3>1, <4>1 DEF Slots
      <4>3. ring.elements[RingSlot(s + l)] = newest[l + 1]
        BY <2>1, <4>2
      <4> QED
        BY <2>3, <4>2, <4>3
    <3>4. first = i - 1
      <4>1. hits \subseteq Int
        BY <3>1
      <4> HIDE DEF hits
      <4>2. \A l \in hits : i - 1 <= l
        BY <3>3
      <4>3. first \in hits /\ \A l \in hits : first <= l
        BY <3>2, <4>2
      <4>4. first <= i - 1 /\ i - 1 <= first
        BY <3>2, <4>2, <4>3
      <4> HIDE DEF first
      <4> QED
        BY <3>1, <4>1, <4>3, <4>4
    <3>5. RingIndexQuery(ring, newest[i]) = at(first)
      <4>1. hits # {}
        BY <3>2
      <4> QED
        BY <4>1 DEF RingIndexQuery
    <3>6. s + (i - 1) = s + i - 1
      BY <2>1, <3>1
    <3> QED
      BY <3>4, <3>5, <3>6
  <2> QED
    BY <2>2, <2>3 DEF RingHoldsNewest
<1> QED
  BY <1>1, RingInvariant, PTL

-----------------------------------------------------------------------------
\* The raw FIFO: the fields of its structure.
RawFifos == [to_i : 0 .. RawMax - 1, from_i : 0 .. RawMax - 1,
             elements : [0 .. RawMax - 1 -> RawElts \cup {RawJunk}]]

\* The slots from the read index to the write index hold what was enqueued and
\* not yet dequeued ...
RawGood ==
  /\ raw \in RawFifos /\ queued \in Seq(RawElts)
  /\ RawSize(raw) = Len(queued)
  /\ \A i \in 1 .. Len(queued) : raw.elements[(raw.from_i + i - 1) % RawMax] = queued[i]

\* ... when the elements are bytes, until a call asks for another number of them
\* than fits or is there.
RawInv == RawBytes /\ ~rawRaised => RawGood

\* Indices and distances are off the array by less than its size.
LEMMA RawSlotOf ==
  ASSUME NEW a \in Int, -RawMax <= a, a < RawMax + RawMax
  PROVE  /\ a % RawMax = IF a < 0 THEN a + RawMax ELSE IF a < RawMax THEN a ELSE a - RawMax
         /\ a % RawMax \in 0 .. RawMax - 1
BY RawMaxAssumption

\* How many elements there are says how far apart the indices are.
LEMMA RawIndices ==
  ASSUME NEW f \in RawFifos
  PROVE  /\ f.to_i \in 0 .. RawMax - 1 /\ f.from_i \in 0 .. RawMax - 1
         /\ f.elements \in [0 .. RawMax - 1 -> RawElts \cup {RawJunk}]
         /\ RawMax \in Nat \ {0} /\ RawSize(f) \in 0 .. RawMax - 1
         /\ f.to_i = IF f.from_i + RawSize(f) < RawMax THEN f.from_i + RawSize(f)
                                                       ELSE f.from_i + RawSize(f) - RawMax
BY RawMaxAssumption DEF RawFifos, RawSize

\* How far a slot is behind the write index.
RawPut(f, p) == (p - f.to_i) % RawMax

\* rawfifo_enq, asked for all the room there is, writes the slots that are less
\* than the room behind the write index, each with its own byte.
LEMMA RawEnqBytes ==
  ASSUME RawBytes, NEW f \in RawFifos, NEW s \in Seq(RawElts), Len(s) = RawFree(f)
  PROVE  RawEnq(f, s, RawFree(f)) =
           [f EXCEPT !.to_i = (f.to_i + RawFree(f)) % RawMax,
                     !.elements = [p \in 0 .. RawMax - 1 |->
                        IF RawPut(f, p) < RawFree(f) THEN s[RawPut(f, p) + 1] ELSE f.elements[p]]]
<1> DEFINE M == RawMax
           to == f.to_i
           free == RawFree(f)
           put(p) == RawPut(f, p)
           slot(i) == PtrAlign * ((to + i) % M)
           copies(p) == {i \in 0 .. free - 1 : p - slot(i) \in 0 .. RawEltSize - 1}
           last(p) == Greatest(copies(p))
           src(x) == IF x < Len(s) THEN s[x + 1] ELSE RawJunk
<1>1. /\ to \in 0 .. M - 1 /\ M \in Nat \ {0} /\ free \in 0 .. M - 1 /\ DOMAIN f.elements = 0 .. M - 1
      /\ RawEltSize = 1 /\ PtrAlign = 1
  <2>1. RawSize(f) \in 0 .. RawMax - 1 /\ RawMax \in Nat \ {0} /\ f.to_i \in 0 .. RawMax - 1
    BY RawIndices
  <2>2. DOMAIN f.elements = 0 .. RawMax - 1
    BY RawIndices
  <2>3. free = RawMax - RawSize(f) - 1
    BY DEF RawFree
  <2> HIDE DEF free
  <2> QED
    BY <2>1, <2>2, <2>3 DEF RawBytes
<1>2. RawEnq(f, s, free) =
        [f EXCEPT !.to_i = (@ + free) % M,
                  !.elements = [p \in DOMAIN @ |->
                     IF copies(p) = {} THEN @[p] ELSE src(last(p) + (p - slot(last(p))))]]
  <2>1. Larger(free, free) = free
    BY <1>1 DEF Larger
  <2> HIDE DEF free
  <2>2. RawFree(f) = free
    BY DEF free
  <2> QED
    BY <2>1, <2>2 DEF RawEnq
<1> HIDE DEF M, to, free
<1>3. ASSUME NEW p \in 0 .. M - 1
      PROVE  put(p) \in 0 .. M - 1 /\ put(p) = IF p < to THEN p - to + M ELSE p - to
  <2> DEFINE a == p - to
  <2>1. a \in Int /\ -RawMax <= a /\ a < RawMax + RawMax
    BY <1>1 DEF M
  <2> HIDE DEF a
  <2>2. /\ a % M = IF a < 0 THEN a + M ELSE IF a < M THEN a ELSE a - M
        /\ a % M \in 0 .. M - 1
    BY <2>1, RawSlotOf DEF M
  <2>3. (a < 0) = (p < to) /\ a < M
    BY <1>1 DEF a
  <2> QED
    BY <2>2, <2>3 DEF a, RawPut, M, to
<1>4. ASSUME NEW i \in 0 .. M - 1
      PROVE  slot(i) \in 0 .. M - 1 /\ slot(i) = IF to + i < M THEN to + i ELSE to + i - M
  <2> DEFINE a == to + i
  <2>1. a \in Int /\ -RawMax <= a /\ a < RawMax + RawMax /\ ~(a < 0)
    BY <1>1 DEF M
  <2> HIDE DEF a
  <2>2. /\ a % M = IF a < M THEN a ELSE a - M
        /\ a % M \in 0 .. M - 1
    BY <2>1, RawSlotOf DEF M
  <2>3. PtrAlign * (a % M) = a % M
    BY <1>1, <2>2
  <2>4. slot(i) = a % M
    BY <2>3 DEF a
  <2>5. a = to + i
    BY DEF a
  <2> DEFINE x == slot(i)
             y == a % M
  <2>6. x = y /\ y = (IF a < M THEN a ELSE a - M) /\ y \in 0 .. M - 1
    BY <2>2, <2>4
  <2> HIDE DEF x, y, slot
  <2>7. x \in 0 .. M - 1 /\ x = IF to + i < M THEN to + i ELSE to + i - M
    BY <1>1, <2>5, <2>6
  <2> QED
    BY <2>7 DEF x
<1>5. \A p \in 0 .. M - 1, i \in 0 .. M - 1 : p - slot(i) \in 0 .. RawEltSize - 1 <=> i = put(p)
  <2> SUFFICES ASSUME NEW p \in 0 .. M - 1, NEW i \in 0 .. M - 1
               PROVE  p - slot(i) \in 0 .. RawEltSize - 1 <=> i = put(p)
    OBVIOUS
  <2> DEFINE x == slot(i)
             y == put(p)
  <2>1. /\ x \in 0 .. M - 1 /\ x = IF to + i < M THEN to + i ELSE to + i - M
        /\ y \in 0 .. M - 1 /\ y = IF p < to THEN p - to + M ELSE p - to
    BY <1>3, <1>4
  <2> HIDE DEF x, y, put, slot
  <2>2. p - x \in 0 .. 0 <=> p = x
    BY <2>1
  <2>3. p = x <=> i = y
    BY <1>1, <2>1
  <2> QED
    BY <1>1, <2>2, <2>3 DEF x, y
<1>6. ASSUME NEW p \in 0 .. M - 1
      PROVE  /\ put(p) < free => copies(p) = {put(p)}
             /\ ~(put(p) < free) => copies(p) = {}
  <2>1. put(p) \in 0 .. M - 1
    BY <1>3
  <2>2. \A i \in 0 .. free - 1 : i \in 0 .. M - 1
    BY <1>1
  <2>3. \A i \in 0 .. free - 1 : p - slot(i) \in 0 .. RawEltSize - 1 <=> i = put(p)
    <3> HIDE DEF slot, put
    <3> QED
      BY <1>5, <2>2
  <2> HIDE DEF slot, put
  <2> QED
    BY <1>1, <2>1, <2>3
<1>7. ASSUME NEW p \in 0 .. M - 1
      PROVE  (IF copies(p) = {} THEN f.elements[p] ELSE src(last(p) + (p - slot(last(p)))))
               = IF put(p) < free THEN s[put(p) + 1] ELSE f.elements[p]
  <2>1. CASE put(p) < free
    <3>1. put(p) \in 0 .. M - 1 /\ copies(p) = {put(p)}
      BY <1>3, <1>6, <2>1
    <3>2. last(p) = put(p)
      <4> HIDE DEF put, copies
      <4>1. put(p) >= put(p)
        BY <3>1
      <4> QED
        BY <3>1, <4>1 DEF Greatest
    <3>3. slot(put(p)) = p
      <4> DEFINE y == put(p)
      <4>1. y \in 0 .. M - 1 /\ y = IF p < to THEN p - to + M ELSE p - to
        BY <1>3
      <4> HIDE DEF y, put
      <4>2. slot(y) = IF to + y < M THEN to + y ELSE to + y - M
        BY <1>4, <4>1
      <4> HIDE DEF slot
      <4>3. slot(y) = p
        BY <1>1, <4>1, <4>2
      <4> QED
        BY <4>3 DEF y
    <3>4. put(p) + (p - slot(put(p))) = put(p)
      <4> HIDE DEF put, slot
      <4> QED
        BY <3>1, <3>3
    <3>5. src(put(p)) = s[put(p) + 1]
      BY <2>1 DEF free
    <3>6. copies(p) # {}
      <4> HIDE DEF copies
      <4> QED
        BY <3>1
    <3> HIDE DEF copies, src, last, slot, put
    <3> QED
      BY <2>1, <3>2, <3>4, <3>5, <3>6
  <2>2. CASE ~(put(p) < free)
    <3>1. copies(p) = {}
      BY <1>6, <2>2
    <3> HIDE DEF copies, src, last, slot, put
    <3> QED
      BY <2>2, <3>1
  <2> QED
    BY <2>1, <2>2
<1> DEFINE was(p) == IF copies(p) = {} THEN f.elements[p] ELSE src(last(p) + (p - slot(last(p))))
           is(p) == IF put(p) < free THEN s[put(p) + 1] ELSE f.elements[p]
<1>8. [p \in DOMAIN f.elements |-> was(p)] = [p \in 0 .. M - 1 |-> is(p)]
  <2> HIDE DEF copies, src, last, slot, put
  <2>1. \A p \in 0 .. M - 1 : was(p) = is(p)
    BY <1>7
  <2> HIDE DEF was, is
  <2> QED
    BY <1>1, <2>1
<1>9. RawEnq(f, s, free) =
        [f EXCEPT !.to_i = (to + free) % M, !.elements = [p \in DOMAIN f.elements |-> was(p)]]
  <2>1. f = [f EXCEPT !.to_i = f.to_i]
    BY DEF RawFifos
  <2> HIDE DEF copies, src, last, slot, put
  <2> QED
    BY <1>2, <2>1 DEF to, RawFifos
<1>10. RawEnq(f, s, free) =
         [f EXCEPT !.to_i = (to + free) % M, !.elements = [p \in 0 .. M - 1 |-> is(p)]]
  <2> HIDE DEF was, is
  <2> QED
    BY <1>8, <1>9
<1> QED
  BY <1>10 DEF M, to, free

\* rawfifo_enq, asked for all the room there is, puts the elements behind the
\* others and leaves those alone.
LEMMA RawFillKeeps ==
  ASSUME RawBytes, RawGood, NEW k \in 0 .. RawMax, RawFill(k), k = RawFree(raw)
  PROVE  RawGood'
<1> DEFINE M == RawMax
           n == Len(queued)
           from == raw.from_i
           to == raw.to_i
           free == RawFree(raw)
           old == raw.elements
<1>1. /\ to \in 0 .. M - 1 /\ from \in 0 .. M - 1 /\ old \in [0 .. M - 1 -> RawElts \cup {RawJunk}]
      /\ M \in Nat \ {0} /\ n \in 0 .. M - 1 /\ free = M - n - 1
      /\ to = IF from + n < M THEN from + n ELSE from + n - M
      /\ queued \in Seq(RawElts)
      /\ \A i \in 1 .. n : old[(from + i - 1) % M] = queued[i]
  BY RawIndices DEF RawGood, RawFree
<1>2. PICK s \in [1 .. free -> RawElts] : raw' = RawEnq(raw, s, free) /\ queued' = queued \o s
  <2>1. RawEltSize * k = k /\ Smaller(k, RawFree(raw)) = k
    BY <1>1 DEF RawBytes, Smaller
  <2>2. PICK s \in [1 .. k -> RawElts] : /\ raw' = RawEnq(raw, s, k)
                                         /\ queued' = queued \o SubSeq(s, 1, k)
    BY <2>1 DEF RawFill
  <2>3. SubSeq(s, 1, k) = s
    BY <2>2
  <2> QED
    BY <2>2, <2>3
<1>3. s \in Seq(RawElts) /\ Len(s) = free
  <2>1. free \in Nat
    BY <1>1
  <2> HIDE DEF free
  <2> QED
    BY <1>2, <2>1
<1> DEFINE put(i) == RawPut(raw, i)
           new == [i \in 0 .. M - 1 |-> IF put(i) < free THEN s[put(i) + 1] ELSE old[i]]
<1>5. raw' = [raw EXCEPT !.to_i = (to + free) % M, !.elements = new]
  <2>1. raw \in RawFifos
    BY DEF RawGood
  <2> QED
    BY ONLY RawBytes, <1>2, <1>3, <2>1, RawEnqBytes
<1>6. /\ raw' = [to_i |-> (to + free) % M, from_i |-> from, elements |-> new]
      /\ raw'.to_i = (to + free) % M /\ raw'.from_i = from /\ raw'.elements = new
  BY <1>5 DEF RawGood, RawFifos
<1> HIDE DEF M, n, from, to, free, old
<1>7. ASSUME NEW i \in 0 .. M - 1
      PROVE  put(i) \in 0 .. M - 1 /\ put(i) = IF i < to THEN i - to + M ELSE i - to
  <2> DEFINE a == i - to
  <2>1. a \in Int /\ -RawMax <= a /\ a < RawMax + RawMax
    BY <1>1 DEF M
  <2> HIDE DEF a
  <2>2. /\ a % M = IF a < 0 THEN a + M ELSE IF a < M THEN a ELSE a - M
        /\ a % M \in 0 .. M - 1
    BY <2>1, RawSlotOf DEF M
  <2>3. (a < 0) = (i < to) /\ a < M
    BY <1>1 DEF a
  <2> QED
    BY <2>2, <2>3 DEF a, RawPut, M, to
<1>8. new \in [0 .. M - 1 -> RawElts \cup {RawJunk}]
  <2>1. ASSUME NEW i \in 0 .. M - 1, put(i) < free PROVE s[put(i) + 1] \in RawElts
    <3> DEFINE x == put(i)
    <3>1. x \in 0 .. M - 1 /\ x < free /\ free \in Int
      BY <1>1, <1>7, <2>1
    <3> HIDE DEF x
    <3>2. x + 1 \in 1 .. free
      BY <1>1, <3>1
    <3> QED
      BY <1>2, <3>2 DEF x
  <2> HIDE DEF put
  <2> QED
    BY <1>1, <2>1
<1> DEFINE sum == to + free
           end == sum % M
<1>9. end \in 0 .. M - 1 /\ end = IF to + free < M THEN to + free ELSE to + free - M
  <2>1. sum \in Int /\ -RawMax <= sum /\ sum < RawMax + RawMax /\ ~(sum < 0)
    BY <1>1 DEF M
  <2> HIDE DEF sum
  <2>2. sum % M \in 0 .. M - 1 /\ sum % M = IF sum < M THEN sum ELSE sum - M
    BY <2>1, RawSlotOf DEF M
  <2>3. sum = to + free
    BY DEF sum
  <2>4. end = sum % M
    OBVIOUS
  <2> HIDE DEF put, new, end
  <2> QED
    BY <1>1, <2>2, <2>3, <2>4
<1> HIDE DEF end, new
<1>10. /\ queued' \in Seq(RawElts) /\ Len(queued') = M - 1
       /\ \A i \in 1 .. M - 1 : queued'[i] = IF i <= n THEN queued[i] ELSE s[i - n]
  <2>1. n + free = M - 1
    BY <1>1
  <2> QED
    BY <1>1, <1>2, <1>3, <2>1 DEF n
<1>11. ASSUME NEW i \in 1 .. M - 1 PROVE new[(from + i - 1) % M] = queued'[i]
  <2> DEFINE a == from + i - 1
             slot == a % M
  <2>1. a \in Int /\ -RawMax <= a /\ a < RawMax + RawMax /\ ~(a < 0)
    BY <1>1 DEF M
  <2> HIDE DEF a
  <2>2. slot \in 0 .. M - 1 /\ slot = IF a < M THEN a ELSE a - M
    BY <2>1, RawSlotOf DEF M
  <2> HIDE DEF slot
  <2>3. put(slot) = IF slot < to THEN slot - to + M ELSE slot - to
    BY <1>7, <2>2
  <2> DEFINE d == put(slot)
  <2>4. new[slot] = IF d < free THEN s[d + 1] ELSE old[slot]
    BY <2>2 DEF new
  <2> HIDE DEF d
  <2>5. CASE i <= n
    <3>1. ~(d < free)
      BY <1>1, <2>2, <2>3, <2>5 DEF a, d
    <3>2. old[slot] = queued[i]
      BY <1>1, <2>5 DEF slot, a
    <3> QED
      BY <1>10, <2>4, <2>5, <3>1, <3>2 DEF slot, a
  <2>6. CASE ~(i <= n)
    <3>1. d < free /\ d + 1 = i - n
      BY <1>1, <2>2, <2>3, <2>6 DEF a, d
    <3> QED
      BY <1>10, <2>4, <2>6, <3>1 DEF slot, a
  <2> QED
    BY <2>5, <2>6
<1>12. raw' \in RawFifos
  BY <1>1, <1>6, <1>8, <1>9 DEF RawFifos, M, end
<1>13. RawSize(raw)' = M - 1
  <2>1. RawSize(raw)' = IF end >= from THEN end - from ELSE end + (M - from)
    BY <1>6 DEF RawSize, M, end
  <2>2. end \in Int /\ end = IF to + free < M THEN to + free ELSE to + free - M
    BY <1>9 DEF end
  <2> QED
    BY <1>1, <2>1, <2>2
<1> QED
  BY <1>6, <1>10, <1>11, <1>12, <1>13 DEF RawGood, M, end

\* rawfifo_deq, asked for all there is, and rawfifo_clear leave an empty FIFO.
LEMMA RawEmptied ==
  ASSUME RawGood, raw' = [raw EXCEPT !.from_i = raw'.from_i, !.to_i = raw'.to_i],
         raw'.from_i = raw'.to_i, raw'.from_i \in 0 .. RawMax - 1, queued' = <<>>
  PROVE  RawGood'
<1>1. raw' \in RawFifos
  BY RawIndices DEF RawGood, RawFifos
<1>2. RawSize(raw)' = 0
  BY DEF RawSize
<1>3. queued' \in Seq(RawElts) /\ Len(queued') = 0
  OBVIOUS
<1> QED
  BY <1>1, <1>2, <1>3 DEF RawGood

\* Wherever the indices are, the slots between them hold what was enqueued.
THEOREM RawInvariant == RawSpec => []RawInv
<1>1. RawInit => RawInv
  <2>1. SUFFICES ASSUME RawInit, RawBytes PROVE RawGood
    BY DEF RawInv
  <2>2. raw \in RawFifos /\ RawSize(raw) = 0
    <3>1. RawSpace = 0 .. RawMax - 1
      BY <2>1, RawMaxAssumption DEF RawBytes, RawSpace
    <3> QED
      BY <2>1, <3>1, RawMaxAssumption DEF RawInit, RawFifos, RawSize
  <2>3. queued \in Seq(RawElts) /\ Len(queued) = 0
    BY <2>1 DEF RawInit
  <2> QED
    BY <2>2, <2>3 DEF RawGood
<1>2. ASSUME RawInv, [RawNext]_rawVars PROVE RawInv'
  <2>1. CASE UNCHANGED rawVars
    BY <1>2, <2>1 DEF RawInv, RawGood, RawBytes, rawVars, RawSize
  <2>2. ASSUME RawBytes, ~rawRaised, RawGood, NEW k \in 0 .. RawMax, RawFill(k), ~rawRaised'
        PROVE  RawGood'
    <3>1. k = RawFree(raw)
      BY <2>2 DEF RawFill
    <3> QED
      BY ONLY <2>2, <3>1, RawFillKeeps
  <2>3. ASSUME RawBytes, ~rawRaised, RawGood, NEW k \in 0 .. RawMax, RawDrain(k), ~rawRaised'
        PROVE  RawGood'
    <3> DEFINE n == RawSize(raw)
               a == raw.from_i + n
    <3>1. /\ raw \in RawFifos /\ raw.to_i \in 0 .. RawMax - 1 /\ raw.from_i \in 0 .. RawMax - 1
          /\ RawMax \in Nat \ {0} /\ n \in 0 .. RawMax - 1
          /\ raw.to_i = IF a < RawMax THEN a ELSE a - RawMax
      BY <2>3, RawIndices DEF RawGood
    <3>2. a \in Int /\ -RawMax <= a /\ a < RawMax + RawMax /\ ~(a < 0)
      BY <3>1
    <3>3. raw' = [raw EXCEPT !.from_i = a % RawMax] /\ queued' = <<>>
      <4>1. k = n
        BY <2>3 DEF RawDrain
      <4>2. Larger(n, k) = n /\ RawEltSize * Smaller(k, n) + 1 = n + 1
        BY <2>3, <3>1, <4>1 DEF Larger, Smaller, RawBytes
      <4>3. n = Len(queued) /\ queued \in Seq(RawElts)
        BY <2>3 DEF RawGood
      <4>4. SubSeq(queued, n + 1, n) = <<>>
        BY <4>3
      <4>5. raw' = [raw EXCEPT !.from_i = (@ + n) % RawMax]
        BY <2>3, <4>2 DEF RawDrain, RawDeq
      <4>6. queued' = SubSeq(queued, n + 1, n)
        <5>1. queued' = SubSeq(queued, RawEltSize * Smaller(k, n) + 1, Len(queued))
          BY <2>3 DEF RawDrain
        <5> HIDE DEF n
        <5> QED
          BY <4>2, <4>3, <5>1
      <4> QED
        BY <4>4, <4>5, <4>6
    <3> HIDE DEF a, n
    <3>4. a % RawMax = raw.to_i
      BY <3>1, <3>2, RawSlotOf
    <3>5. /\ raw' = [raw EXCEPT !.from_i = raw.to_i, !.to_i = raw.to_i]
          /\ raw'.from_i = raw.to_i /\ raw'.to_i = raw.to_i
      BY <3>1, <3>3, <3>4 DEF RawFifos
    <3> QED
      BY <2>3, <3>1, <3>3, <3>5, RawEmptied
  <2>4. ASSUME RawBytes, RawGood, RawClear PROVE RawGood'
    <3>1. /\ raw \in RawFifos /\ raw.from_i \in 0 .. RawMax - 1
      BY <2>4, RawIndices DEF RawGood
    <3>2. /\ raw' = [raw EXCEPT !.from_i = raw.from_i, !.to_i = raw.from_i] /\ queued' = <<>>
          /\ raw'.from_i = raw.from_i /\ raw'.to_i = raw.from_i
      BY <2>4, <3>1 DEF RawClear, RawFifos
    <3> QED
      BY <2>4, <3>1, <3>2, RawEmptied
  <2>5. CASE RawNext
    <3>1. SUFFICES ASSUME RawBytes, ~rawRaised' PROVE RawGood'
      BY DEF RawInv, RawBytes
    <3>2. ~rawRaised /\ RawGood
      BY <1>2, <2>5, <3>1 DEF RawNext, RawInv
    <3> QED
      BY <2>2, <2>3, <2>4, <2>5, <3>1, <3>2 DEF RawNext
  <2> QED
    BY <1>2, <2>1, <2>5
<1> QED
  BY <1>1, <1>2, PTL DEF RawSpec

\* Taking everything out gives what was enqueued, in order, and the size and
\* the free room add up to the capacity (rawfifo_deq, rawfifo_size).
THEOREM RawOrderKept == RawSpec => []RawFifoKeepsOrder
<1>1. ASSUME RawInv, RawBytes, ~rawRaised
      PROVE  /\ RawSize(raw) = Len(queued)
             /\ RawSize(raw) + RawFree(raw) = RawMax - 1
             /\ RawDeq(raw, Len(queued)).elts = queued
  <2> DEFINE n == Len(queued)
             at(i) == raw.elements[(raw.from_i + i - 1) % RawMax]
  <2>1. /\ n \in Nat /\ RawSize(raw) = n /\ RawMax \in Nat \ {0} /\ queued \in Seq(RawElts)
        /\ \A i \in 1 .. n : at(i) = queued[i]
    BY <1>1, RawIndices DEF RawInv, RawGood
  <2>2. RawSize(raw) + RawFree(raw) = RawMax - 1
    BY <2>1 DEF RawFree
  <2>3. RawDeq(raw, n).elts = [i \in 1 .. n |-> at(i)]
    <3>1. Larger(RawSize(raw), n) = n
      BY <2>1 DEF Larger
    <3>2. RawDeq(raw, n).elts = RawTaken(raw, n)
      BY <3>1 DEF RawDeq
    <3> DEFINE last(x) == Smaller(x, n - 1)
               byte(x) == raw.elements[PtrAlign * ((raw.from_i + last(x)) % RawMax) + (x - last(x))]
               got(x) == IF x < n + RawEltSize THEN byte(x - 1) ELSE RawJunk
    <3>3. RawTaken(raw, n) = [x \in 1 .. RawEltSize * n |-> got(x)]
      BY DEF RawTaken
    <3>4. RawEltSize * n = n /\ RawEltSize = 1 /\ PtrAlign = 1
      BY <1>1, <2>1 DEF RawBytes
    <3>5. ASSUME NEW x \in 1 .. n PROVE got(x) = at(x)
      <4>1. x - 1 \in Int /\ last(x - 1) = x - 1 /\ x < n + RawEltSize
        BY <2>1, <3>4 DEF Smaller
      <4> DEFINE a == raw.from_i + (x - 1)
      <4>2. a \in Int /\ a = raw.from_i + x - 1 /\ a % RawMax \in Int
        <5>1. raw.from_i \in 0 .. RawMax - 1 /\ RawSize(raw) \in 0 .. RawMax - 1
          BY <1>1, RawIndices DEF RawInv, RawGood
        <5>2. a \in Int /\ a = raw.from_i + x - 1 /\ -RawMax <= a /\ a < RawMax + RawMax
          BY <2>1, <5>1
        <5> HIDE DEF a
        <5>3. a % RawMax \in 0 .. RawMax - 1
          BY <5>2, RawSlotOf
        <5> QED
          BY <5>2, <5>3
      <4>3. PtrAlign * (a % RawMax) + (x - 1 - last(x - 1)) = a % RawMax
        <5> HIDE DEF a, last
        <5> QED
          BY <3>4, <4>1, <4>2
      <4>4. byte(x - 1) = at(x)
        BY <4>1, <4>2, <4>3
      <4> QED
        BY <4>1, <4>4
    <3> HIDE DEF n, at, got
    <3> QED
      BY <3>2, <3>3, <3>4, <3>5
  <2>4. [i \in 1 .. n |-> at(i)] = [i \in 1 .. n |-> queued[i]]
    <3> HIDE DEF at
    <3> QED
      BY <2>1
  <2>5. queued = [i \in 1 .. n |-> queued[i]]
    BY <2>1
  <2> QED
    BY <2>1, <2>2, <2>3, <2>4, <2>5
<1>2. RawInv => RawFifoKeepsOrder
  BY <1>1 DEF RawFifoKeepsOrder
<1> QED
  BY <1>2, RawInvariant, PTL

-----------------------------------------------------------------------------
\* The multi-FIFO.  The children that have pieces of the packet in front left:
BusyKids == {i \in Children : mf.kids[i] # <<>>}

\* They hold its last pieces, and the mask knows them.
KidsInv ==
  \A i \in BusyKids :
    /\ mf.root # <<>> /\ i \in mf.front_refmask
    /\ IsTailOf(mf.kids[i], PiecesOf(mf.root[1], i))

\* A child that has none left handed all of them out, unless no child got any
\* of this packet yet.
ServedInv ==
  /\ mfServed \in [Children -> Nat]
  /\ (mfPc = "idle" /\ mf.root # <<>>) => \A i \in Children \ BusyKids : mfServed[i] = Pieces[i]
  /\ BusyKids # {} => \A i \in Children \ BusyKids : mfServed[i] = Pieces[i]
  /\ \A i \in Children : Pieces[i] = 0 => mfServed[i] = 0

\* An operation holds the lock until it is done or the only interrupt clears
\* it, and a packet that was just removed has left no pieces behind.
LockInv ==
  /\ mfPc \in {"idle", "added", "removed"} /\ mfIntruders \in {0, 1}
  /\ mfPc = "idle" => ~mf.locked /\ mfIntruders = 0
  /\ mfPc # "idle" => mf.locked \/ mfIntruders = 1
  /\ mfPc = "removed" => BusyKids = {} /\ mfServed = NothingServed

MfInv ==
  /\ mf \in MultiFifos /\ KidsInv /\ ServedInv /\ LockInv /\ FrontFinished

\* What the hypotheses of the theorem say: at most one interrupt adds while an
\* operation is under way.  With two, MultiFifoServesFront does not hold.
OneIntruder == MaxIntruders \in {0, 1}

\* The children are numbered from 1.
LEMMA Kids ==
  /\ Children = 1 .. Len(Pieces) /\ Len(Pieces) \in Nat
  /\ \A i \in Children : Pieces[i] \in Nat
  /\ Cardinality(Children) = Len(Pieces)
<1>1. Children = 1 .. Len(Pieces) /\ Len(Pieces) \in Nat /\ \A i \in Children : Pieces[i] \in Nat
  BY MultiFifoAssumption DEF Children
<1>2. Cardinality(1 .. Len(Pieces)) = Len(Pieces)
  BY <1>1, FS_Interval
<1> QED
  BY <1>1, <1>2

\* The pieces of a packet, and what is left of them.
LEMMA PiecesFacts ==
  ASSUME NEW i \in Children, NEW p \in Packets
  PROVE  /\ PiecesOf(p, i) \in Seq(Packets \X Nat) /\ Len(PiecesOf(p, i)) = Pieces[i]
         /\ \A j \in 1 .. Pieces[i] : PiecesOf(p, i)[j] = <<p, j>>
         /\ Pieces[i] = 0 <=> PiecesOf(p, i) = <<>>
         /\ IsTailOf(PiecesOf(p, i), PiecesOf(p, i))
<1>1. Pieces[i] \in Nat
  BY Kids
<1> DEFINE n == Pieces[i]
           t == PiecesOf(p, i)
<1>2. t = [j \in 1 .. n |-> <<p, j>>]
  BY DEF PiecesOf
<1> HIDE DEF n, t
<1>3. t \in Seq(Packets \X Nat) /\ Len(t) = n /\ \A j \in 1 .. n : t[j] = <<p, j>>
  <2>1. n \in Nat
    BY <1>1 DEF n
  <2>2. \A j \in 1 .. n : <<p, j>> \in Packets \X Nat
    OBVIOUS
  <2> QED
    BY <1>2, <2>1, <2>2
<1>4. (n = 0) <=> (t = <<>>)
  BY <1>1, <1>3 DEF n
<1>5. IsTailOf(t, t)
  <2>1. SubSeq(t, 1, n) = t
    BY <1>1, <1>3 DEF n
  <2>2. Len(t) - Len(t) + 1 = 1 /\ Len(t) <= Len(t)
    BY <1>1, <1>3 DEF n
  <2> QED
    BY <1>3, <2>1, <2>2 DEF IsTailOf
<1> QED
  BY <1>3, <1>4, <1>5 DEF n, t

\* A child hands the pieces out in order.
LEMMA NextPiece ==
  ASSUME NEW i \in Children, NEW p \in Packets, NEW s \in Seq(Packets \X Nat), s # <<>>,
         IsTailOf(s, PiecesOf(p, i))
  PROVE  /\ s[1][2] \in Nat /\ Tail(s) \in Seq(Packets \X Nat)
         /\ Tail(s) = <<>> => s[1][2] = Pieces[i]
         /\ IsTailOf(Tail(s), PiecesOf(p, i)) /\ Pieces[i] # 0
<1> DEFINE n == Pieces[i]
           t == PiecesOf(p, i)
           k == Len(s)
<1>1. /\ n \in Nat /\ t \in Seq(Packets \X Nat) /\ Len(t) = n
      /\ \A j \in 1 .. n : t[j] = <<p, j>>
  BY Kids, PiecesFacts
<1>2. k \in 1 .. n /\ s = SubSeq(t, n - k + 1, n)
  <2>1. k \in Nat /\ k # 0
    OBVIOUS
  <2>2. k <= Len(t) /\ s = SubSeq(t, Len(t) - k + 1, Len(t))
    BY DEF IsTailOf
  <2> HIDE DEF n, t, k
  <2> QED
    BY <1>1, <2>1, <2>2
<1> HIDE DEF n, t, k
<1>3. \A j \in 1 .. k : s[j] = <<p, n - k + j>>
  <2>1. ASSUME NEW j \in 1 .. k PROVE s[j] = <<p, n - k + j>>
    <3>1. n - k + j \in 1 .. n /\ n - k + 1 \in 1 .. n /\ n - k + 1 + j - 1 = n - k + j
      BY <1>1, <1>2
    <3>2. s[j] = t[n - k + j]
      <4> DEFINE lo == n - k + 1
      <4>1. /\ lo \in Int /\ n \in Int /\ j \in 1 .. n - lo + 1 /\ lo + j - 1 = n - k + j
            /\ s = SubSeq(t, lo, n) /\ \A q \in lo .. n : t[q] \in Packets \X Nat
        BY <1>1, <1>2
      <4> HIDE DEF lo
      <4> QED
        BY <4>1, SubSeqProperties
    <3> QED
      BY <1>1, <3>1, <3>2
  <2> QED
    BY <2>1
<1>4. s[1] = <<p, n - k + 1>> /\ s[1][2] = n - k + 1
  <2>1. 1 \in 1 .. k
    BY <1>1, <1>2
  <2>2. s[1] = <<p, n - k + 1>>
    BY <1>3, <2>1
  <2> QED
    BY ONLY <2>2
<1>5. Len(Tail(s)) = k - 1 /\ Tail(s) \in Seq(Packets \X Nat)
  BY DEF k
<1>6. IsTailOf(Tail(s), t)
  <2> DEFINE a == n - (k - 1) + 1
             r == SubSeq(t, a, n)
  <2>1. a \in Int /\ n - a + 1 = k - 1 /\ a \in 1 .. n + 1
    BY <1>1, <1>2
  <2> HIDE DEF a
  <2>2. \A j \in a .. n : t[j] \in Packets \X Nat
    BY <1>1, <2>1
  <2>3. /\ r \in Seq(Packets \X Nat) /\ Len(r) = IF a <= n THEN n - a + 1 ELSE 0
        /\ \A j \in 1 .. n - a + 1 : r[j] = t[a + j - 1]
    BY <1>1, <2>1, <2>2, SubSeqProperties
  <2> HIDE DEF r
  <2>4. /\ r \in Seq(Packets \X Nat) /\ Len(r) = k - 1
        /\ \A j \in 1 .. k - 1 : r[j] = t[a + j - 1]
    BY <1>1, <1>2, <2>1, <2>3
  <2>5. ASSUME NEW j \in 1 .. k - 1 PROVE Tail(s)[j] = r[j]
    <3>1. Tail(s)[j] = s[j + 1] /\ j + 1 \in 1 .. k
      BY <1>2, <1>5 DEF k
    <3>2. s[j + 1] = <<p, n - k + (j + 1)>>
      BY <1>3, <3>1
    <3>3. a + j - 1 = n - k + (j + 1) /\ n - k + (j + 1) \in 1 .. n
      BY <1>1, <1>2 DEF a
    <3>4. r[j] = t[n - k + (j + 1)]
      BY <2>4, <3>3
    <3> QED
      BY <1>1, <3>1, <3>2, <3>3, <3>4
  <2>6. Tail(s) = r
    BY <1>5, <2>4, <2>5, SeqEqual
  <2>7. Len(Tail(s)) <= Len(t)
    BY <1>1, <1>2, <1>5
  <2>8. Tail(s) = SubSeq(t, Len(t) - Len(Tail(s)) + 1, Len(t))
    BY <1>1, <1>5, <2>6 DEF r, a
  <2> QED
    BY <2>7, <2>8 DEF IsTailOf
<1>7. Tail(s) = <<>> => s[1][2] = n
  <2> DEFINE rest == Tail(s)
  <2>1. rest \in Seq(Packets \X Nat) /\ Len(rest) = k - 1
    BY <1>5
  <2> HIDE DEF rest
  <2>2. rest = <<>> => k = 1
    BY <1>1, <1>2, <2>1
  <2>3. rest = <<>> => s[1][2] = n
    BY <1>1, <1>4, <2>2
  <2> QED
    BY <2>3 DEF rest
<1>8. s[1][2] \in Nat
  <2>1. n - k + 1 \in Nat
    BY <1>1, <1>2
  <2> QED
    BY <1>4, <2>1
<1>9. n # 0
  BY <1>1, <1>2
<1> QED
  BY <1>5, <1>6, <1>7, <1>8, <1>9 DEF n, t

\* The fields of a multi-FIFO.
LEMMA MfFields ==
  ASSUME NEW f \in MultiFifos
  PROVE  /\ f.root \in Seq(Packets) /\ f.kids \in [Children -> Seq(Packets \X Nat)]
         /\ f.front_refmask \in SUBSET Children /\ f.locked \in BOOLEAN
         /\ f = [root |-> f.root, kids |-> f.kids, front_refmask |-> f.front_refmask,
                 locked |-> f.locked]
         /\ f.root # <<>> => f.root[1] \in Packets
BY DEF MultiFifos

\* multififo_children_status_update leaves the children that are busy in the
\* mask, and only those.
LEMMA Updated ==
  ASSUME mf \in MultiFifos, KidsInv
  PROVE  /\ StatusUpdate(mf) = [mf EXCEPT !.front_refmask = BusyKids]
         /\ StatusUpdate(mf) \in MultiFifos /\ StatusUpdate(mf).front_refmask = BusyKids
         /\ StatusUpdate(mf).root = mf.root /\ StatusUpdate(mf).kids = mf.kids
<1>1. {i \in mf.front_refmask : mf.kids[i] # <<>>} = BusyKids
  BY MfFields DEF KidsInv, BusyKids
<1>2. StatusUpdate(mf) = [mf EXCEPT !.front_refmask = BusyKids]
  BY <1>1 DEF StatusUpdate
<1>3. BusyKids \in SUBSET Children
  BY DEF BusyKids
<1> HIDE DEF BusyKids
<1> QED
  BY <1>2, <1>3 DEF MultiFifos

\* multififo_children_feed, when no child has anything left, gives every child
\* its pieces of the packet in front.
LEMMA FeedGives ==
  ASSUME NEW f \in MultiFifos, f.root # <<>>, \A i \in Children : f.kids[i] = <<>>
  PROVE  Feed(f) = [root |-> f.root, kids |-> [i \in Children |-> PiecesOf(f.root[1], i)],
                    front_refmask |-> {i \in Children : Pieces[i] > 0}, locked |-> f.locked]
<1> DEFINE p == f.root[1]
           N == Len(Pieces)
           room(i) == Pieces[i] - Len(f.kids[i])
           fed == {i \in 1 .. N : room(i) > 0}
           kids == [i \in Children |->
                      IF i \in fed THEN f.kids[i] \o SubSeq(PiecesOf(p, i), 1, room(i))
                      ELSE f.kids[i]]
<1>1. p \in Packets /\ N \in Nat /\ Children = 1 .. N
  BY MfFields, Kids
<1>2. Feed(f) = [f EXCEPT !.kids = kids, !.front_refmask = fed]
  <2>1. {i \in Children : f.kids[i] # <<>>} = {} /\ Cardinality(Children) = N /\ ~MfIsEmpty(f)
    BY Kids DEF MfIsEmpty
  <2>2. f.kids = [i \in Children |-> f.kids[i]] /\ DOMAIN f.kids = Children
    BY MfFields
  <2> QED
    BY <2>1, <2>2 DEF Feed
<1>3. ASSUME NEW i \in Children
      PROVE  Pieces[i] \in Nat /\ room(i) = Pieces[i] /\ kids[i] = PiecesOf(p, i)
  <2> DEFINE t == PiecesOf(p, i)
  <2>1. Pieces[i] \in Nat /\ room(i) = Pieces[i]
    <3>1. Len(<<>>) = 0
      OBVIOUS
    <3> QED
      BY <3>1, Kids
  <2>2. /\ t \in Seq(Packets \X Nat) /\ Len(t) = Pieces[i] /\ (Pieces[i] = 0 <=> t = <<>>)
    BY <1>1, PiecesFacts
  <2>3. kids[i] = IF Pieces[i] > 0 THEN <<>> \o SubSeq(t, 1, Pieces[i]) ELSE <<>>
    BY <1>1, <2>1
  <2> HIDE DEF t, kids
  <2>4. SubSeq(t, 1, Pieces[i]) = t /\ <<>> \o t = t
    BY <2>1, <2>2
  <2>5. ~(Pieces[i] > 0) <=> Pieces[i] = 0
    BY <2>1
  <2> QED
    BY <2>1, <2>2, <2>3, <2>4, <2>5 DEF t
<1>4. fed = {i \in Children : Pieces[i] > 0}
  <2> HIDE DEF kids
  <2> QED
    BY <1>1, <1>3
<1>5. kids = [i \in Children |-> PiecesOf(p, i)]
  <2>1. kids = [i \in Children |-> kids[i]]
    OBVIOUS
  <2> HIDE DEF kids
  <2>2. \A i \in Children : kids[i] = PiecesOf(p, i)
    BY <1>3
  <2> QED
    BY <2>1, <2>2
<1> HIDE DEF fed, kids
<1> QED
  BY <1>2, <1>4, <1>5, MfFields

\* Setting the lock of a multi-FIFO given by its fields.
LEMMA SetLock ==
  ASSUME NEW a, NEW b, NEW c, NEW d, NEW e, NEW f,
         f = [root |-> a, kids |-> b, front_refmask |-> c, locked |-> d]
  PROVE  [f EXCEPT !.locked = e] = [root |-> a, kids |-> b, front_refmask |-> c, locked |-> e]
OBVIOUS

\* ... and then the lock is given back.
LEMMA FeedUnlocks ==
  ASSUME NEW f \in MultiFifos, f.root # <<>>, \A i \in Children : f.kids[i] = <<>>
  PROVE  [Feed(f) EXCEPT !.locked = FALSE] =
           [root |-> f.root, kids |-> [i \in Children |-> PiecesOf(f.root[1], i)],
            front_refmask |-> {i \in Children : Pieces[i] > 0}, locked |-> FALSE]
<1> DEFINE root == f.root
           kids == [i \in Children |-> PiecesOf(f.root[1], i)]
           mask == {i \in Children : Pieces[i] > 0}
           lock == f.locked
           fed == Feed(f)
<1>1. fed = [root |-> root, kids |-> kids, front_refmask |-> mask, locked |-> lock]
  BY FeedGives
<1> DEFINE no == FALSE
<1>2. no = FALSE
  OBVIOUS
<1> HIDE DEF root, kids, mask, lock, fed, no
<1>3. [fed EXCEPT !.locked = no] =
        [root |-> root, kids |-> kids, front_refmask |-> mask, locked |-> no]
  BY <1>1, SetLock
<1>4. [fed EXCEPT !.locked = FALSE] =
        [root |-> root, kids |-> kids, front_refmask |-> mask, locked |-> FALSE]
  BY <1>2, <1>3, Zenon
<1> QED
  BY <1>4 DEF root, kids, mask, fed

\* Once the children are fed the operation is over.
LEMMA FedKeeps ==
  ASSUME MfInv, mf.root # <<>>,
         mf' = [root |-> mf.root, kids |-> [i \in Children |-> PiecesOf(mf.root[1], i)],
                front_refmask |-> {i \in Children : Pieces[i] > 0}, locked |-> FALSE],
         mfPc' = "idle", mfIntruders' = 0, UNCHANGED <<mfServed, mfEarly>>
  PROVE  MfInv'
<1> DEFINE p == mf.root[1]
<1>1. p \in Packets /\ mf.root \in Seq(Packets)
  BY MfFields DEF MfInv
<1>2. /\ mf'.root = mf.root /\ \A i \in Children : mf'.kids[i] = PiecesOf(p, i)
      /\ mf'.front_refmask = {i \in Children : Pieces[i] > 0} /\ mf'.locked = FALSE
  OBVIOUS
<1> HIDE DEF p
<1>3. mf' \in MultiFifos
  <2>1. [i \in Children |-> PiecesOf(p, i)] \in [Children -> Seq(Packets \X Nat)]
    BY <1>1, PiecesFacts
  <2> QED
    BY <1>1, <2>1 DEF MultiFifos, p
<1>4. BusyKids' = {i \in Children : Pieces[i] # 0}
  BY <1>1, <1>2, PiecesFacts DEF BusyKids
<1>5. KidsInv'
  <2>1. SUFFICES ASSUME NEW i \in BusyKids'
                 PROVE  /\ mf'.root # <<>> /\ i \in mf'.front_refmask
                        /\ IsTailOf(mf'.kids[i], PiecesOf(mf'.root[1], i))
    BY DEF KidsInv
  <2>2. i \in Children /\ Pieces[i] # 0 /\ Pieces[i] \in Nat
    BY <1>4, Kids
  <2>3. IsTailOf(PiecesOf(p, i), PiecesOf(p, i))
    BY <1>1, <2>2, PiecesFacts
  <2> QED
    BY <1>2, <2>2, <2>3 DEF p
<1>6. ServedInv'
  BY <1>4 DEF MfInv, ServedInv
<1> QED
  BY <1>2, <1>3, <1>5, <1>6 DEF MfInv, LockInv, FrontFinished

\* A step that leaves the packets and the pieces alone, and the busy children
\* in the mask, keeps what is said of them.
LEMMA SameKids ==
  ASSUME MfInv, mf' \in MultiFifos, mf'.kids = mf.kids, BusyKids \subseteq mf'.front_refmask,
         mf'.root = mf.root \/ \E p \in Packets : mf'.root = Append(mf.root, p)
  PROVE  KidsInv' /\ BusyKids' = BusyKids
<1>1. BusyKids' = BusyKids
  BY DEF BusyKids
<1>2. mf.root # <<>> => mf'.root # <<>> /\ mf'.root[1] = mf.root[1]
  BY MfFields DEF MfInv
<1> QED
  BY <1>1, <1>2 DEF KidsInv, MfInv

\* multififo_add puts a packet behind the others and takes the lock.
LEMMA AddBeginKeeps == ASSUME MfInv, NEW q \in Packets, MfAddBegin(q) PROVE MfInv'
<1>1. /\ mf' = [mf EXCEPT !.root = Append(@, q), !.locked = TRUE] /\ mfPc = "idle"
      /\ mfPc' = "added" /\ UNCHANGED <<mfServed, mfEarly, mfIntruders>>
  BY DEF MfAddBegin
<1>2. mf \in MultiFifos /\ KidsInv
  BY DEF MfInv
<1>3. Append(mf.root, q) \in Seq(Packets)
  BY <1>2, MfFields
<1>4. /\ mf' \in MultiFifos /\ mf'.kids = mf.kids /\ mf'.front_refmask = mf.front_refmask
      /\ mf'.root = Append(mf.root, q) /\ mf'.locked = TRUE
  BY <1>1, <1>2, <1>3 DEF MultiFifos
<1>5. BusyKids \subseteq mf'.front_refmask
  BY <1>2, <1>4 DEF KidsInv
<1>6. KidsInv' /\ BusyKids' = BusyKids
  BY <1>4, <1>5, SameKids
<1>7. ServedInv'
  BY <1>1, <1>6 DEF MfInv, ServedInv
<1>8. LockInv'
  BY <1>1, <1>4 DEF MfInv, LockInv
<1> QED
  BY <1>1, <1>4, <1>6, <1>7, <1>8 DEF MfInv, FrontFinished

\* ... and feeds the children when none is busy.
LEMMA AddEndKeeps == ASSUME MfInv, MfAddEnd PROVE MfInv'
<1> DEFINE g == StatusUpdate(mf)
<1>1. mf \in MultiFifos /\ KidsInv
  BY DEF MfInv
<1>2. /\ g = [mf EXCEPT !.front_refmask = BusyKids] /\ g \in MultiFifos
      /\ g.front_refmask = BusyKids /\ g.root = mf.root /\ g.kids = mf.kids
  BY <1>1, Updated
<1>3. /\ mfPc = "added" /\ mfPc' = "idle" /\ mfIntruders' = 0 /\ UNCHANGED <<mfServed, mfEarly>>
      /\ mf' = [IF g.front_refmask = {} THEN Feed(g) ELSE g EXCEPT !.locked = FALSE]
  BY DEF MfAddEnd, Settle
<1> HIDE DEF g
<1>4. CASE BusyKids = {} /\ mf.root # <<>>
  <2>1. \A i \in Children : g.kids[i] = <<>>
    BY <1>2, <1>4 DEF BusyKids
  <2>2. [Feed(g) EXCEPT !.locked = FALSE] =
          [root |-> g.root, kids |-> [i \in Children |-> PiecesOf(g.root[1], i)],
           front_refmask |-> {i \in Children : Pieces[i] > 0}, locked |-> FALSE]
    BY <1>2, <1>4, <2>1, FeedUnlocks
  <2>3. mf' = [Feed(g) EXCEPT !.locked = FALSE]
    BY <1>2, <1>3, <1>4
  <2>4. mf' = [root |-> mf.root, kids |-> [i \in Children |-> PiecesOf(mf.root[1], i)],
               front_refmask |-> {i \in Children : Pieces[i] > 0}, locked |-> FALSE]
    BY <1>2, <2>2, <2>3
  <2> QED
    BY <1>3, <1>4, <2>4, FedKeeps
<1>5. CASE ~(BusyKids = {} /\ mf.root # <<>>)
  <2>1. mf' = [g EXCEPT !.locked = FALSE]
    BY <1>2, <1>3, <1>5 DEF Feed, MfIsEmpty
  <2>2. /\ mf' \in MultiFifos /\ mf'.root = mf.root /\ mf'.kids = mf.kids
        /\ mf'.front_refmask = BusyKids /\ mf'.locked = FALSE
    BY <1>2, <2>1 DEF MultiFifos
  <2>3. KidsInv' /\ BusyKids' = BusyKids
    BY <2>2, SameKids
  <2>4. ServedInv'
    BY <1>3, <1>5, <2>2, <2>3 DEF MfInv, ServedInv
  <2>5. LockInv'
    BY <1>3, <2>2 DEF LockInv
  <2> QED
    BY <1>3, <2>2, <2>3, <2>4, <2>5 DEF MfInv, FrontFinished
<1> QED
  BY <1>4, <1>5

\* multififo_remove fails while a child is busy.
LEMMA RemoveBusyKeeps == ASSUME MfInv, MfRemoveBusy PROVE MfInv'
<1>1. mf \in MultiFifos /\ KidsInv
  BY DEF MfInv
<1>2. /\ mf' = StatusUpdate(mf) /\ mf' = [mf EXCEPT !.front_refmask = BusyKids]
      /\ UNCHANGED <<mfPc, mfServed, mfEarly, mfIntruders>>
  BY <1>1, Updated DEF MfRemoveBusy
<1>3. /\ mf' \in MultiFifos /\ mf'.root = mf.root /\ mf'.kids = mf.kids
      /\ mf'.front_refmask = BusyKids /\ mf'.locked = mf.locked
  BY <1>1, <1>2, Updated DEF MultiFifos
<1>4. KidsInv' /\ BusyKids' = BusyKids
  BY <1>3, SameKids
<1> QED
  BY <1>2, <1>3, <1>4 DEF MfInv, ServedInv, LockInv, FrontFinished

\* When none is, all pieces of the packet in front were handed out: it may go.
LEMMA RemoveBeginKeeps == ASSUME MfInv, MfRemoveBegin PROVE MfInv'
<1>1. mf \in MultiFifos /\ KidsInv
  BY DEF MfInv
<1>2. /\ mfPc = "idle" /\ BusyKids = {} /\ mf.root # <<>>
      /\ mf' = [[mf EXCEPT !.front_refmask = BusyKids] EXCEPT !.root = Tail(@), !.locked = TRUE]
      /\ mfPc' = "removed" /\ mfServed' = NothingServed /\ mfIntruders' = mfIntruders
      /\ mfEarly' = (mfEarly \/ mfServed # Pieces)
  BY <1>1, Updated DEF MfRemoveBegin, MfIsEmpty
<1>3. Tail(mf.root) \in Seq(Packets)
  BY <1>1, <1>2, MfFields
<1>4. mf' \in MultiFifos /\ mf'.kids = mf.kids /\ mf'.locked = TRUE
  BY <1>1, <1>2, <1>3 DEF MultiFifos
<1>5. BusyKids' = {}
  BY <1>2, <1>4 DEF BusyKids
<1>6. mfServed = Pieces
  <2>1. \A i \in Children : mfServed[i] = Pieces[i]
    BY <1>2 DEF MfInv, ServedInv
  <2>2. mfServed = [i \in Children |-> mfServed[i]] /\ Pieces = [i \in Children |-> Pieces[i]]
    BY MultiFifoAssumption DEF MfInv, ServedInv, Children
  <2> QED
    BY <2>1, <2>2
<1>7. ServedInv'
  <2>1. NothingServed \in [Children -> Nat] /\ \A i \in Children : NothingServed[i] = 0
    BY DEF NothingServed
  <2> QED
    BY <1>2, <1>5, <2>1 DEF ServedInv
<1>8. LockInv'
  BY <1>2, <1>4, <1>5 DEF MfInv, LockInv
<1>9. FrontFinished'
  BY <1>2, <1>6 DEF MfInv, FrontFinished
<1> QED
  BY <1>4, <1>5, <1>7, <1>8, <1>9 DEF MfInv, KidsInv

\* Then the children get the pieces of the next packet, if there is one.
LEMMA RemoveEndKeeps == ASSUME MfInv, MfRemoveEnd PROVE MfInv'
<1>1. /\ mfPc = "removed" /\ mfPc' = "idle" /\ mfIntruders' = 0 /\ UNCHANGED <<mfServed, mfEarly>>
      /\ mf' = [Feed(mf) EXCEPT !.locked = FALSE]
  BY DEF MfRemoveEnd
<1>2. mf \in MultiFifos /\ BusyKids = {} /\ \A i \in Children : mf.kids[i] = <<>>
  BY <1>1 DEF MfInv, LockInv, BusyKids
<1>3. CASE mf.root # <<>>
  <2>1. mf' = [root |-> mf.root, kids |-> [i \in Children |-> PiecesOf(mf.root[1], i)],
               front_refmask |-> {i \in Children : Pieces[i] > 0}, locked |-> FALSE]
    BY <1>1, <1>2, <1>3, FeedUnlocks
  <2> QED
    BY <1>1, <1>3, <2>1, FedKeeps
<1>4. CASE mf.root = <<>>
  <2>1. mf' = [mf EXCEPT !.locked = FALSE]
    BY <1>1, <1>4 DEF Feed, MfIsEmpty
  <2>2. /\ mf' \in MultiFifos /\ mf'.root = <<>> /\ mf'.kids = mf.kids /\ mf'.locked = FALSE
    BY <1>2, <1>4, <2>1 DEF MultiFifos
  <2>3. BusyKids' = {}
    BY <1>2, <2>2 DEF BusyKids
  <2> QED
    BY <1>1, <2>2, <2>3 DEF MfInv, KidsInv, ServedInv, LockInv, FrontFinished
<1> QED
  BY <1>3, <1>4

\* multififo_clear empties everything.
LEMMA ClearKeeps == ASSUME MfInv, MfClear PROVE MfInv'
<1>1. /\ mf' = EmptyMultiFifo /\ mfServed' = NothingServed /\ mfPc = "idle"
      /\ UNCHANGED <<mfPc, mfEarly, mfIntruders>>
  BY DEF MfClear
<1>2. /\ mf' \in MultiFifos /\ mf'.root = <<>> /\ mf'.locked = FALSE
      /\ \A i \in Children : mf'.kids[i] = <<>>
  <2>1. [i \in Children |-> <<>>] \in [Children -> Seq(Packets \X Nat)]
    OBVIOUS
  <2> QED
    BY <1>1, <2>1 DEF EmptyMultiFifo, MultiFifos
<1>3. BusyKids' = {}
  BY <1>2 DEF BusyKids
<1>4. NothingServed \in [Children -> Nat] /\ \A i \in Children : NothingServed[i] = 0
  BY DEF NothingServed
<1> QED
  BY <1>1, <1>2, <1>3, <1>4 DEF MfInv, KidsInv, ServedInv, LockInv, FrontFinished

\* A child hands a piece out: when it was the last one, all were handed out.
LEMMA PullKeeps == ASSUME MfInv, NEW i \in Children, MfPull(i) PROVE MfInv'
<1> DEFINE s == mf.kids[i]
           p == mf.root[1]
<1>1. /\ mf \in MultiFifos /\ i \in BusyKids /\ s # <<>>
      /\ mf' = [mf EXCEPT !.kids[i] = Tail(@)] /\ mfServed' = [mfServed EXCEPT ![i] = s[1][2]]
      /\ UNCHANGED <<mfPc, mfEarly, mfIntruders>>
  BY DEF MfPull, MfInv, BusyKids
<1>2. s \in Seq(Packets \X Nat) /\ mf.root # <<>> /\ p \in Packets /\ IsTailOf(s, PiecesOf(p, i))
  BY <1>1, MfFields DEF MfInv, KidsInv
<1>3. /\ s[1][2] \in Nat /\ Tail(s) \in Seq(Packets \X Nat)
      /\ Tail(s) = <<>> => s[1][2] = Pieces[i]
      /\ IsTailOf(Tail(s), PiecesOf(p, i)) /\ Pieces[i] # 0
  BY <1>1, <1>2, NextPiece
<1> DEFINE t == Tail(s)
           n == s[1][2]
<1>4. /\ mf.kids \in [Children -> Seq(Packets \X Nat)]
      /\ mf' = [mf EXCEPT !.kids = [mf.kids EXCEPT ![i] = t]]
  BY <1>1, MfFields
<1> HIDE DEF t, n
<1>5. mf' \in MultiFifos
  <2>1. [mf.kids EXCEPT ![i] = t] \in [Children -> Seq(Packets \X Nat)]
    BY <1>3, <1>4 DEF t
  <2> QED
    BY <1>1, <1>4, <2>1 DEF MultiFifos
<1>6. /\ mf'.root = mf.root /\ mf'.front_refmask = mf.front_refmask /\ mf'.locked = mf.locked
      /\ mf'.kids[i] = t /\ \A k \in Children \ {i} : mf'.kids[k] = mf.kids[k]
  BY <1>1, <1>4 DEF MultiFifos
<1>7. /\ mfServed' \in [Children -> Nat] /\ mfServed'[i] = n
      /\ \A k \in Children \ {i} : mfServed'[k] = mfServed[k]
  BY <1>1, <1>3 DEF MfInv, ServedInv, n
<1>8. BusyKids' = IF t = <<>> THEN BusyKids \ {i} ELSE BusyKids
  BY <1>1, <1>6 DEF BusyKids
<1>9. KidsInv'
  <2>1. SUFFICES ASSUME NEW k \in BusyKids'
                 PROVE  /\ mf'.root # <<>> /\ k \in mf'.front_refmask
                        /\ IsTailOf(mf'.kids[k], PiecesOf(mf'.root[1], k))
    BY DEF KidsInv
  <2>2. k \in BusyKids /\ k \in Children
    BY <1>8 DEF BusyKids
  <2>3. /\ mf.root # <<>> /\ k \in mf.front_refmask
        /\ IsTailOf(mf.kids[k], PiecesOf(mf.root[1], k))
    BY <2>2 DEF MfInv, KidsInv
  <2>4. CASE k = i
    BY <1>3, <1>6, <2>3, <2>4 DEF t
  <2>5. CASE k # i
    BY <1>6, <2>2, <2>3, <2>5
  <2> QED
    BY <2>4, <2>5
<1>10. \A k \in Children \ BusyKids' : mfServed'[k] = Pieces[k]
  <2>1. SUFFICES ASSUME NEW k \in Children \ BusyKids' PROVE mfServed'[k] = Pieces[k]
    OBVIOUS
  <2>2. CASE k = i
    <3>1. t = <<>>
      BY <1>1, <1>8, <2>2
    <3> QED
      BY <1>3, <1>7, <2>2, <3>1 DEF t, n
  <2>3. CASE k # i
    <3>1. k \notin BusyKids
      BY <1>8, <2>3
    <3>2. mfServed[k] = Pieces[k]
      BY <1>1, <3>1 DEF MfInv, ServedInv
    <3> QED
      BY <1>7, <2>3, <3>2
  <2> QED
    BY <2>2, <2>3
<1>11. ServedInv'
  <2>1. \A k \in Children : Pieces[k] = 0 => mfServed'[k] = 0
    BY <1>3, <1>7 DEF MfInv, ServedInv
  <2> QED
    BY <1>7, <1>10, <2>1 DEF ServedInv
<1>12. LockInv'
  BY <1>1, <1>6, <1>8 DEF MfInv, LockInv
<1> QED
  BY <1>1, <1>5, <1>9, <1>11, <1>12 DEF MfInv, FrontFinished

\* The only interrupt that adds in the middle of an operation finds it locked,
\* and clears the lock.
LEMMA IntrudeKeeps == ASSUME OneIntruder, MfInv, NEW q \in Packets, MfIntrude(q) PROVE MfInv'
<1>1. mf \in MultiFifos /\ KidsInv /\ mfPc # "idle" /\ mfIntruders = 0 /\ mf.locked
  BY DEF OneIntruder, MfInv, LockInv, MfIntrude
<1>2. /\ mf' = [mf EXCEPT !.locked = FALSE] /\ mfIntruders' = 1
      /\ UNCHANGED <<mfPc, mfServed, mfEarly>>
  BY <1>1 DEF MfIntrude
<1>3. /\ mf' \in MultiFifos /\ mf'.root = mf.root /\ mf'.kids = mf.kids
      /\ mf'.front_refmask = mf.front_refmask
  BY <1>1, <1>2 DEF MultiFifos
<1>4. BusyKids \subseteq mf'.front_refmask
  BY <1>1, <1>3 DEF KidsInv
<1>5. KidsInv' /\ BusyKids' = BusyKids
  BY <1>3, <1>4, SameKids
<1>6. ServedInv' /\ LockInv'
  BY <1>1, <1>2, <1>3, <1>5 DEF MfInv, ServedInv, LockInv
<1> QED
  BY <1>2, <1>3, <1>5, <1>6 DEF MfInv, FrontFinished

\* What the children hold and what they handed out agree with the packet in
\* front in every state.
THEOREM MultiFifoInvariant == ASSUME OneIntruder PROVE MfSpec => []MfInv
<1>1. MfInit => MfInv
  <2>1. SUFFICES ASSUME MfInit PROVE MfInv
    OBVIOUS
  <2>2. /\ mf \in MultiFifos /\ mf.root = <<>> /\ mf.locked = FALSE
        /\ \A i \in Children : mf.kids[i] = <<>>
    <3>1. [i \in Children |-> <<>>] \in [Children -> Seq(Packets \X Nat)]
      OBVIOUS
    <3> QED
      BY <2>1, <3>1 DEF MfInit, EmptyMultiFifo, MultiFifos
  <2>3. BusyKids = {}
    BY <2>2 DEF BusyKids
  <2>4. NothingServed \in [Children -> Nat] /\ \A i \in Children : NothingServed[i] = 0
    BY DEF NothingServed
  <2> QED
    BY <2>1, <2>2, <2>3, <2>4 DEF MfInit, MfInv, KidsInv, ServedInv, LockInv, FrontFinished
<1>2. ASSUME MfInv, [MfNext]_mfVars PROVE MfInv'
  <2>1. CASE UNCHANGED mfVars
    BY <1>2, <2>1
    DEF MfInv, KidsInv, ServedInv, LockInv, FrontFinished, BusyKids, mfVars
  <2>2. ASSUME NEW q \in Packets, MfAddBegin(q) PROVE MfInv'
    BY <1>2, <2>2, AddBeginKeeps
  <2>3. ASSUME NEW q \in Packets, MfIntrude(q) PROVE MfInv'
    BY <1>2, <2>3, IntrudeKeeps
  <2>4. CASE MfAddEnd
    BY <1>2, <2>4, AddEndKeeps
  <2>5. CASE MfRemoveBusy
    BY <1>2, <2>5, RemoveBusyKeeps
  <2>6. CASE MfRemoveBegin
    BY <1>2, <2>6, RemoveBeginKeeps
  <2>7. CASE MfRemoveEnd
    BY <1>2, <2>7, RemoveEndKeeps
  <2>8. CASE MfClear
    BY <1>2, <2>8, ClearKeeps
  <2>9. ASSUME NEW i \in Children, MfPull(i) PROVE MfInv'
    BY <1>2, <2>9, PullKeeps
  <2> QED
    BY <1>2, <2>1, <2>2, <2>3, <2>4, <2>5, <2>6, <2>7, <2>8, <2>9 DEF MfNext
<1> QED
  BY <1>1, <1>2, PTL DEF MfSpec

\* A child only ever holds the last pieces of the packet in front, and a packet
\* leaves only after every child handed out all of its pieces, when no more
\* than one interrupt adds in the middle of an operation (multififo_add,
\* multififo_remove, multififo_children_feed).
THEOREM FrontServed == ASSUME OneIntruder PROVE MfSpec => []MultiFifoServesFront
<1>1. ASSUME MfInv PROVE MultiFifoServesFront
  BY <1>1 DEF MfInv, KidsInv, BusyKids, MultiFifoServesFront, MfIsEmpty
<1> QED
  BY <1>1, MultiFifoInvariant, PTL

-----------------------------------------------------------------------------
\* A set of natural numbers has a least one; this stands in for induction.
LEMMA LeastNumber ==
  ASSUME NEW T \in SUBSET Nat, T # {}
  PROVE  \E x \in T : \A y \in T : x <= y
<1> DEFINE R == {p \in Nat \X Nat : p[1] < p[2]}
<1>1. IsWellFoundedOn(R, Nat)
  BY NatLessThanWellFounded DEF OpToRel
<1>2. \A x, y \in Nat : <<y, x>> \in R <=> y < x
  OBVIOUS
<1> HIDE DEF R
<1>3. PICK x \in T : \A y \in T : <<y, x>> \notin R
  BY <1>1, WFMin
<1>4. \A y \in T : x \in Nat /\ y \in Nat /\ ~(y < x)
  BY <1>2, <1>3
<1> QED
  BY <1>4

\* The least of a set of numbers, by its definition.
LEMMA LeastIs ==
  ASSUME NEW T \in SUBSET Nat, T # {}
  PROVE  Least(T) \in T /\ \A y \in T : Least(T) <= y
  BY LeastNumber DEF Least

\* A finite set of numbers that is not empty has a greatest one.
LEMMA GreatestIs ==
  ASSUME NEW n \in Nat, NEW T \in SUBSET (0 .. n), T # {}
  PROVE  Greatest(T) \in T /\ \A y \in T : Greatest(T) >= y
<1> DEFINE U == {x \in 0 .. n : \A y \in T : y <= x}
<1>1. U \in SUBSET Nat /\ n \in U
  OBVIOUS
<1>2. PICK m \in U : \A x \in U : m <= x
  <2> HIDE DEF U
  <2> QED
    BY <1>1, LeastNumber
<1>3. m \in T
  <2>1. SUFFICES ASSUME m \notin T PROVE FALSE
    OBVIOUS
  <2>2. m # 0 /\ \A y \in T : y <= m - 1
    <3>1. m \in 0 .. n /\ \A y \in T : y \in 0 .. n /\ y <= m /\ y # m
      BY <1>2, <2>1
    <3>2. PICK z \in T : TRUE
      OBVIOUS
    <3>3. z \in 0 .. n /\ z <= m /\ z # m
      BY <3>1, <3>2
    <3> QED
      BY <3>1, <3>3
  <2>3. m - 1 \in U /\ ~(m <= m - 1)
    BY <2>2
  <2> QED
    BY <1>2, <2>3
<1>4. \A y \in T : m >= y
  BY <1>2
<1> QED
  BY <1>3, <1>4 DEF Greatest

\* A function over 1 .. n is a sequence of length n.
LEMMA FunctionIsSeq ==
  ASSUME NEW S, NEW n \in Nat, NEW f \in [1 .. n -> S]
  PROVE  f \in Seq(S) /\ Len(f) = n
  OBVIOUS

-----------------------------------------------------------------------------
\* Elements whose keys can be compared.
Keyed(E) == \A e \in E : e[1] \in Int

\* The order a stable sort leaves: by keys, and equal ones by their places.
Before(s, i, j) == s[i][1] < s[j][1] \/ (s[i][1] = s[j][1] /\ i < j)
Ahead(s, i) == {j \in DOMAIN s : Before(s, j, i)}
PlaceOf(s, k) == CHOOSE i \in DOMAIN s : Cardinality(Ahead(s, i)) = k - 1

\* The two ways to write the comparison agree.
LEMMA StableSortIs ==
  ASSUME NEW E, Keyed(E), NEW s \in Seq(E)
  PROVE  StableSort(s) = [k \in DOMAIN s |-> s[PlaceOf(s, k)]]
<1>1. \A i \in DOMAIN s : s[i] \in E /\ s[i][1] \in Int
  BY DEF Keyed
<1>2. \A i, j \in DOMAIN s :
        (Cmp(s[i], s[j]) < 0 \/ (Cmp(s[i], s[j]) = 0 /\ i < j)) <=> Before(s, i, j)
  BY <1>1 DEF Cmp, Before
<1>3. \A i \in DOMAIN s :
        {j \in DOMAIN s : Cmp(s[j], s[i]) < 0 \/ (Cmp(s[j], s[i]) = 0 /\ j < i)} = Ahead(s, i)
  BY <1>2, Zenon DEF Ahead
<1>4. \A k : (CHOOSE i \in DOMAIN s :
          Cardinality({j \in DOMAIN s : Cmp(s[j], s[i]) < 0 \/ (Cmp(s[j], s[i]) = 0 /\ j < i)}) = k - 1)
        = PlaceOf(s, k)
  BY <1>3, Zenon DEF PlaceOf
<1> DEFINE at(k) == CHOOSE i \in DOMAIN s :
             Cardinality({j \in DOMAIN s : Cmp(s[j], s[i]) < 0 \/ (Cmp(s[j], s[i]) = 0 /\ j < i)}) = k - 1
<1>5. StableSort(s) = [k \in DOMAIN s |-> s[at(k)]]
  BY DEF StableSort
<1>6. \A k : at(k) = PlaceOf(s, k)
  BY <1>4, Zenon
<1> HIDE DEF at
<1> QED
  BY <1>5, <1>6

\* How many elements are ahead of one tells its place apart from the others,
\* and every number below the length is the number of one of them.
LEMMA AheadCounts ==
  ASSUME NEW E, Keyed(E), NEW s \in Seq(E)
  PROVE  /\ \A i \in 1 .. Len(s) : Cardinality(Ahead(s, i)) \in 0 .. Len(s) - 1
         /\ \A i, j \in 1 .. Len(s) :
              Before(s, i, j) <=> Cardinality(Ahead(s, i)) < Cardinality(Ahead(s, j))
         /\ \A k \in 1 .. Len(s) : \E i \in 1 .. Len(s) : Cardinality(Ahead(s, i)) = k - 1
<1> DEFINE n == Len(s)
           rank == [i \in 1 .. n |-> Cardinality(Ahead(s, i)) + 1]
<1>1. n \in Nat /\ DOMAIN s = 1 .. n /\ \A i \in 1 .. n : s[i][1] \in Int
  BY DEF Keyed
<1>2. /\ IsFiniteSet(1 .. n) /\ Cardinality(1 .. n) = n
  <2> HIDE DEF n
  <2>1. n \in Nat /\ n \in Int /\ 1 \in Int
    BY <1>1
  <2>2. IsFiniteSet(1 .. n) /\ Cardinality(1 .. n) = IF 1 > n THEN 0 ELSE n - 1 + 1
    BY ONLY <2>1, FS_Interval
  <2> QED
    BY <2>1, <2>2
<1>3. \A i, j \in 1 .. n : i # j => (Before(s, i, j) <=> ~Before(s, j, i))
  BY <1>1 DEF Before
<1>4. \A i \in 1 .. n : ~Before(s, i, i)
  BY <1>1 DEF Before
<1>5. \A i, j, l \in 1 .. n : Before(s, l, i) /\ Before(s, i, j) => Before(s, l, j)
  BY <1>1 DEF Before
<1>6. \A i \in 1 .. n : Ahead(s, i) \subseteq 1 .. n /\ i \notin Ahead(s, i)
  BY <1>1, <1>4 DEF Ahead
<1> HIDE DEF n
<1>7. ASSUME NEW i \in 1 .. n PROVE IsFiniteSet(Ahead(s, i)) /\ Cardinality(Ahead(s, i)) \in 0 .. n - 1
  <2>1. /\ IsFiniteSet((1 .. n) \ {i}) /\ Cardinality((1 .. n) \ {i}) = n - 1
    BY <1>2, FS_RemoveElement
  <2>2. Ahead(s, i) \in SUBSET ((1 .. n) \ {i})
    BY <1>6
  <2>3. IsFiniteSet(Ahead(s, i)) /\ Cardinality(Ahead(s, i)) <= n - 1
    BY <2>1, <2>2, FS_Subset
  <2>4. Cardinality(Ahead(s, i)) \in Nat
    BY <2>3, FS_CardinalityType
  <2> QED
    BY <2>3, <2>4, <1>1
<1>8. ASSUME NEW i \in 1 .. n, NEW j \in 1 .. n, Before(s, i, j)
      PROVE  Cardinality(Ahead(s, i)) < Cardinality(Ahead(s, j))
  <2>1. Ahead(s, i) \in SUBSET Ahead(s, j) /\ i \in Ahead(s, j) /\ i \notin Ahead(s, i)
    BY <1>1, <1>5, <1>6, <1>8 DEF Ahead
  <2>2. /\ Cardinality(Ahead(s, i)) <= Cardinality(Ahead(s, j))
        /\ Cardinality(Ahead(s, i)) = Cardinality(Ahead(s, j)) => Ahead(s, i) = Ahead(s, j)
    BY <1>7, <2>1, FS_Subset
  <2>3. Cardinality(Ahead(s, i)) \in 0 .. n - 1 /\ Cardinality(Ahead(s, j)) \in 0 .. n - 1
    BY <1>7
  <2>4. Cardinality(Ahead(s, i)) # Cardinality(Ahead(s, j))
    BY <2>1, <2>2
  <2> QED
    BY <2>2, <2>3, <2>4
<1>9. \A i, j \in 1 .. n : Before(s, i, j) <=> Cardinality(Ahead(s, i)) < Cardinality(Ahead(s, j))
  <2>1. SUFFICES ASSUME NEW i \in 1 .. n, NEW j \in 1 .. n,
                        Cardinality(Ahead(s, i)) < Cardinality(Ahead(s, j)), ~Before(s, i, j)
                 PROVE  FALSE
    BY <1>8
  <2>2. Cardinality(Ahead(s, i)) \in 0 .. n - 1 /\ Cardinality(Ahead(s, j)) \in 0 .. n - 1
    BY <1>7
  <2>3. i # j
    BY <2>1, <2>2
  <2>4. Cardinality(Ahead(s, j)) < Cardinality(Ahead(s, i))
    BY <1>3, <1>8, <2>1, <2>3
  <2> QED
    BY <2>1, <2>2, <2>4
<1>10. rank \in [1 .. n -> 1 .. n] /\ \A i, j \in 1 .. n : rank[i] = rank[j] => i = j
  <2>1. \A i \in 1 .. n : rank[i] = Cardinality(Ahead(s, i)) + 1 /\ Cardinality(Ahead(s, i)) + 1 \in 1 .. n
    BY <1>1, <1>7
  <2>2. \A i, j \in 1 .. n : i # j => Cardinality(Ahead(s, i)) # Cardinality(Ahead(s, j))
    <3>1. SUFFICES ASSUME NEW i \in 1 .. n, NEW j \in 1 .. n, i # j
                   PROVE  Cardinality(Ahead(s, i)) # Cardinality(Ahead(s, j))
      OBVIOUS
    <3>2. Cardinality(Ahead(s, i)) \in 0 .. n - 1 /\ Cardinality(Ahead(s, j)) \in 0 .. n - 1
      BY <1>7
    <3>3. Before(s, i, j) \/ Before(s, j, i)
      BY <1>3, <3>1
    <3>4. Cardinality(Ahead(s, i)) < Cardinality(Ahead(s, j)) \/ Cardinality(Ahead(s, j)) < Cardinality(Ahead(s, i))
      BY <1>9, <3>3
    <3> QED
      BY <3>2, <3>4
  <2>3. rank \in [1 .. n -> 1 .. n]
    BY <2>1
  <2>4. SUFFICES ASSUME NEW i \in 1 .. n, NEW j \in 1 .. n, rank[i] = rank[j] PROVE i = j
    BY <2>3
  <2> HIDE DEF rank
  <2>5. Cardinality(Ahead(s, i)) + 1 = Cardinality(Ahead(s, j)) + 1
    BY <2>1, <2>4
  <2>6. Cardinality(Ahead(s, i)) \in 0 .. n - 1 /\ Cardinality(Ahead(s, j)) \in 0 .. n - 1
    BY <1>7
  <2>7. Cardinality(Ahead(s, i)) = Cardinality(Ahead(s, j))
    BY <1>1, <2>5, <2>6
  <2> QED
    BY <2>2, <2>7
<1>11. \A k \in 1 .. n : \E i \in 1 .. n : rank[i] = k
  <2> HIDE DEF rank
  <2>1. rank \in Injection(1 .. n, 1 .. n)
    BY <1>10, Fun_IsInj
  <2>2. rank \in Surjection(1 .. n, 1 .. n)
    BY <2>1, <1>2, FS_Injection
  <2> QED
    BY <2>2 DEF Surjection
<1>12. \A k \in 1 .. n : \E i \in 1 .. n : Cardinality(Ahead(s, i)) = k - 1
  <2>1. SUFFICES ASSUME NEW k \in 1 .. n PROVE \E i \in 1 .. n : Cardinality(Ahead(s, i)) = k - 1
    OBVIOUS
  <2>2. PICK i \in 1 .. n : rank[i] = k
    BY <1>11
  <2>3. Cardinality(Ahead(s, i)) + 1 = k /\ Cardinality(Ahead(s, i)) \in 0 .. n - 1
    BY <1>7, <2>2
  <2> QED
    BY <2>3, <1>1
<1> QED
  BY <1>7, <1>9, <1>12 DEF n

\* t has the elements of s, each in a place of its own.
Rearranged(s, t) ==
  /\ Len(t) = Len(s)
  /\ \E p \in [1 .. Len(s) -> 1 .. Len(s)] :
       /\ \A i, j \in 1 .. Len(s) : p[i] = p[j] => i = j
       /\ \A j \in 1 .. Len(s) : \E i \in 1 .. Len(s) : p[i] = j
       /\ \A i \in 1 .. Len(s) : t[i] = s[p[i]]

\* A stable sort rearranges a sequence so that it ascends.
LEMMA StableSortSorts ==
  ASSUME NEW E, Keyed(E), NEW s \in Seq(E)
  PROVE  StableSort(s) \in Seq(E) /\ Rearranged(s, StableSort(s)) /\ Ascending(StableSort(s))
<1> DEFINE n == Len(s)
           p == [k \in 1 .. n |-> PlaceOf(s, k)]
           t == StableSort(s)
<1>1. n \in Nat /\ DOMAIN s = 1 .. n /\ \A i \in 1 .. n : s[i] \in E /\ s[i][1] \in Int
  BY DEF Keyed
<1>2. \A i \in 1 .. n : Cardinality(Ahead(s, i)) \in 0 .. n - 1
  BY AheadCounts
<1>3. \A k \in 1 .. n : PlaceOf(s, k) \in 1 .. n /\ Cardinality(Ahead(s, PlaceOf(s, k))) = k - 1
  <2>1. \A k \in 1 .. n : \E i \in 1 .. n : Cardinality(Ahead(s, i)) = k - 1
    BY AheadCounts
  <2> QED
    BY <1>1, <2>1 DEF PlaceOf
<1>4. p \in [1 .. n -> 1 .. n] /\ \A k \in 1 .. n : Cardinality(Ahead(s, p[k])) = k - 1
  BY <1>3
<1>5. \A i, j \in 1 .. n : p[i] = p[j] => i = j
  <2> HIDE DEF p, n
  <2>1. SUFFICES ASSUME NEW i \in 1 .. n, NEW j \in 1 .. n, p[i] = p[j] PROVE i = j
    OBVIOUS
  <2>2. Cardinality(Ahead(s, p[i])) = i - 1 /\ Cardinality(Ahead(s, p[j])) = j - 1
    BY <1>4
  <2>3. i - 1 = j - 1
    BY <2>1, <2>2
  <2> QED
    BY <1>1, <2>3
<1>6. \A j \in 1 .. n : \E i \in 1 .. n : p[i] = j
  <2> HIDE DEF p
  <2>1. IsFiniteSet(1 .. n)
    BY <1>1, FS_Interval
  <2>2. p \in Injection(1 .. n, 1 .. n)
    BY <1>4, <1>5, Fun_IsInj
  <2>3. p \in Surjection(1 .. n, 1 .. n)
    BY <2>1, <2>2, FS_Injection
  <2> QED
    BY <2>3 DEF Surjection
<1>7. t = [k \in 1 .. n |-> s[p[k]]]
  <2>1. t = [k \in DOMAIN s |-> s[PlaceOf(s, k)]]
    BY StableSortIs
  <2>2. \A k \in 1 .. n : p[k] = PlaceOf(s, k)
    OBVIOUS
  <2> HIDE DEF p, n, t
  <2> QED
    BY <1>1, <2>1, <2>2
<1>8. t \in [1 .. n -> E] /\ \A k \in 1 .. n : t[k] = s[p[k]]
  <2> HIDE DEF t, p, n
  <2> QED
    BY <1>1, <1>4, <1>7
<1>9. t \in Seq(E) /\ Len(t) = n
  <2> HIDE DEF t
  <2> QED
    BY <1>1, <1>8, FunctionIsSeq
<1>10. Rearranged(s, t)
  <2> HIDE DEF t, p
  <2> QED
    BY <1>4, <1>5, <1>6, <1>8, <1>9 DEF Rearranged
<1>11. ASSUME NEW i \in 1 .. n, NEW j \in 1 .. n, i < j PROVE t[i][1] <= t[j][1]
  <2>1. Cardinality(Ahead(s, p[i])) = i - 1 /\ Cardinality(Ahead(s, p[j])) = j - 1
    BY <1>4
  <2>2. p[i] \in 1 .. n /\ p[j] \in 1 .. n
    BY <1>4
  <2> HIDE DEF p, n, t
  <2>3. i - 1 < j - 1
    BY <1>1, <1>11
  <2>4. Before(s, p[i], p[j])
    BY <2>1, <2>2, <2>3, AheadCounts DEF n
  <2>5. s[p[i]][1] \in Int /\ s[p[j]][1] \in Int
    BY <1>1, <2>2
  <2>6. s[p[i]][1] <= s[p[j]][1]
    BY <2>4, <2>5 DEF Before
  <2> QED
    BY <1>8, <2>6
<1>12. Ascending(t)
  <2> HIDE DEF t
  <2> QED
    BY <1>9, <1>11 DEF Ascending
<1> QED
  BY <1>9, <1>10, <1>12

-----------------------------------------------------------------------------
\* One call of the search, and what a search over parts of a range is.
SearchStep(a, e, f, r) ==
  LET mid == (r[1] + r[2]) \div 2
      c   == Cmp(e, a[mid])
  IN  IF r[1] > r[2] THEN -1
      ELSE IF c = 0 THEN mid
      ELSE IF c < 0 THEN IF r[1] = mid THEN -1 ELSE f[<<r[1], mid - 1>>]
      ELSE IF r[2] = mid THEN -1 ELSE f[<<mid + 1, r[2]>>]

Parts(low, high) == (low .. high + 1) \X (low - 1 .. high)
ShortParts(low, high, n) == {r \in Parts(low, high) : r[2] - r[1] < n}
Searches(a, e, f, D) == f = [r \in D |-> SearchStep(a, e, f, r)]

\* The middle of a range and the two ranges beside it, which are shorter.
LEMMA Halves ==
  ASSUME NEW low \in Int, NEW high \in Int, NEW r \in Parts(low, high), r[1] <= r[2]
  PROVE  LET mid == (r[1] + r[2]) \div 2
         IN  /\ mid \in r[1] .. r[2] /\ mid \in low .. high
             /\ <<r[1], mid - 1>> \in Parts(low, high) /\ mid - 1 - r[1] < r[2] - r[1]
             /\ <<mid + 1, r[2]>> \in Parts(low, high) /\ r[2] - (mid + 1) < r[2] - r[1]
<1> DEFINE x == r[1]
           y == r[2]
           mid == (x + y) \div 2
<1>1. x \in low .. high + 1 /\ y \in low - 1 .. high /\ x <= y
  BY DEF Parts
<1>2. mid \in Int /\ x <= mid /\ mid <= y
  <2> HIDE DEF x, y
  <2> QED
    BY <1>1
<1> HIDE DEF mid
<1>3. mid \in low .. high /\ mid - 1 \in low - 1 .. high /\ mid + 1 \in low .. high + 1
  <2> HIDE DEF x, y
  <2> QED
    BY <1>1, <1>2
<1>4. mid \in x .. y /\ mid - 1 - x < y - x /\ y - (mid + 1) < y - x
  <2> HIDE DEF x, y
  <2> QED
    BY <1>1, <1>2
<1>5. <<x, mid - 1>> \in Parts(low, high) /\ <<mid + 1, y>> \in Parts(low, high)
  <2> HIDE DEF x, y
  <2> QED
    BY <1>1, <1>3 DEF Parts
<1> QED
  BY <1>3, <1>4, <1>5 DEF mid

\* A call looks at shorter ranges only.
LEMMA StepLooksAtShorter ==
  ASSUME NEW a, NEW e, NEW low \in Int, NEW high \in Int, NEW r \in Parts(low, high), NEW f, NEW g,
         \A q \in Parts(low, high) : q[2] - q[1] < r[2] - r[1] => f[q] = g[q]
  PROVE  SearchStep(a, e, f, r) = SearchStep(a, e, g, r)
<1>1. CASE r[1] > r[2]
  BY <1>1 DEF SearchStep
<1>2. CASE ~(r[1] > r[2])
  <2> DEFINE mid == (r[1] + r[2]) \div 2
             left == <<r[1], mid - 1>>
             right == <<mid + 1, r[2]>>
  <2>1. r[1] <= r[2]
    BY <1>2 DEF Parts
  <2>2. /\ left \in Parts(low, high) /\ mid - 1 - r[1] < r[2] - r[1]
        /\ right \in Parts(low, high) /\ r[2] - (mid + 1) < r[2] - r[1]
    BY <2>1, Halves
  <2>3. left[1] = r[1] /\ left[2] = mid - 1 /\ right[1] = mid + 1 /\ right[2] = r[2]
    OBVIOUS
  <2> HIDE DEF mid, left, right
  <2>4. f[left] = g[left] /\ f[right] = g[right]
    BY <2>2, <2>3
  <2> QED
    BY <2>4, Zenon DEF SearchStep, mid, left, right
<1> QED
  BY <1>1, <1>2

\* There is a function that follows the calls of the search.
LEMMA SearchExists ==
  ASSUME NEW a, NEW e, NEW low \in Int, NEW high \in Int
  PROVE  \E f : Searches(a, e, f, Parts(low, high))
<1> DEFINE Short(n) == ShortParts(low, high, n)
           Has(n) == \E f : Searches(a, e, f, Short(n))
           T == {n \in Nat : ~Has(n)}
<1>1. SUFFICES T = {}
  <2>1. PICK n \in Nat : \A r \in Parts(low, high) : r[2] - r[1] < n
    <3>1. CASE high - low + 1 \in Nat
      <4>1. \A r \in Parts(low, high) : r[2] - r[1] < high - low + 1
        BY DEF Parts
      <4> QED
        BY <3>1, <4>1
    <3>2. CASE high - low + 1 \notin Nat
      <4>1. \A r \in Parts(low, high) : r[2] - r[1] < 0
        BY <3>2 DEF Parts
      <4> QED
        BY <4>1
    <3> QED
      BY <3>1, <3>2
  <2>2. Short(n) = Parts(low, high)
    BY <2>1 DEF ShortParts
  <2>3. Has(n)
    <3> HIDE DEF Has
    <3> QED
      BY <1>1, <2>1
  <2> QED
    BY <2>2, <2>3
<1>2. SUFFICES ASSUME T # {} PROVE FALSE
  OBVIOUS
<1>3. PICK m \in T : \A n \in T : m <= n
  <2> HIDE DEF Has
  <2>1. T \in SUBSET Nat
    OBVIOUS
  <2> HIDE DEF T
  <2> QED
    BY <1>2, <2>1, LeastNumber
<1>4. m # 0
  <2>1. \A r \in Short(0) : \A f : SearchStep(a, e, f, r) = -1
    <3>1. \A r \in Short(0) : r[1] > r[2]
      BY DEF ShortParts, Parts
    <3> QED
      BY <3>1 DEF SearchStep
  <2>2. Searches(a, e, [r \in Short(0) |-> -1], Short(0))
    <3> DEFINE f == [r \in Short(0) |-> -1]
    <3>1. \A r \in Short(0) : SearchStep(a, e, f, r) = -1
      BY <2>1
    <3> HIDE DEF Short
    <3>2. f = [r \in Short(0) |-> SearchStep(a, e, f, r)]
      BY <3>1
    <3> QED
      BY <3>2 DEF Searches
  <2>3. Has(0)
    BY <2>2
  <2> HIDE DEF Has
  <2> QED
    BY <2>3
<1>5. m \in Nat /\ m - 1 \in Nat /\ ~(m <= m - 1) /\ ~Has(m)
  <2> HIDE DEF Has
  <2> QED
    BY <1>4
<1>6. Has(m - 1)
  <2> HIDE DEF Has
  <2> QED
    BY <1>3, <1>5
<1>7. PICK f : Searches(a, e, f, Short(m - 1))
  BY <1>6
<1> DEFINE g == [r \in Short(m) |-> SearchStep(a, e, f, r)]
<1>8. \A r \in Short(m - 1) : r \in Short(m) /\ f[r] = SearchStep(a, e, f, r)
  <2>1. \A r \in Short(m - 1) : f[r] = SearchStep(a, e, f, r)
    <3> HIDE DEF Short
    <3>1. f = [r \in Short(m - 1) |-> SearchStep(a, e, f, r)]
      BY <1>7 DEF Searches
    <3> QED
      BY <3>1
  <2>2. \A r \in Short(m - 1) : r \in Short(m)
    BY <1>5 DEF ShortParts, Parts
  <2> QED
    BY <2>1, <2>2
<1>9. \A r \in Short(m - 1) : f[r] = g[r]
  BY <1>8
<1>10. ASSUME NEW r \in Short(m)
       PROVE  SearchStep(a, e, f, r) = SearchStep(a, e, g, r)
  <2>1. r \in Parts(low, high) /\ r[2] - r[1] < m
    BY DEF ShortParts
  <2>2. ASSUME NEW q \in Parts(low, high), q[2] - q[1] < r[2] - r[1] PROVE f[q] = g[q]
    <3>1. q[2] - q[1] < m - 1
      BY <1>5, <2>1, <2>2 DEF Parts
    <3>2. q \in Short(m - 1)
      BY <3>1 DEF ShortParts
    <3> HIDE DEF Short, g
    <3> QED
      BY <1>9, <3>2
  <2> HIDE DEF g
  <2> QED
    BY <2>1, <2>2, StepLooksAtShorter
<1>11. Searches(a, e, g, Short(m))
  <2> HIDE DEF Short
  <2>1. g = [r \in Short(m) |-> SearchStep(a, e, g, r)]
    <3> DEFINE h == [r \in Short(m) |-> SearchStep(a, e, g, r)]
    <3>1. \A r \in Short(m) : g[r] = h[r]
      BY <1>10
    <3> QED
      BY <3>1
  <2> HIDE DEF g
  <2> QED
    BY <2>1 DEF Searches
<1>12. Has(m)
  <2> HIDE DEF Short, g
  <2> QED
    BY <1>11
<1> QED
  BY <1>5, <1>12

\* The index of an element with the key of e, or -1 when none has it.
Finds(a, e, low, high, i) ==
  IF \E j \in low .. high : a[j][1] = e[1] THEN i \in low .. high /\ a[i][1] = e[1] ELSE i = -1

\* In an ascending array the search finds an element with the key it looks for,
\* if there is one (bsearch_rec).
LEMMA SearchFinds ==
  ASSUME NEW a, NEW e, e[1] \in Int, NEW low \in Int, NEW high \in Int, low <= high + 1,
         \A i \in low .. high : a[i][1] \in Int,
         \A i, j \in low .. high : i < j => a[i][1] <= a[j][1]
  PROVE  Finds(a, e, low, high, BSearchRec(a, e, low, high))
<1> DEFINE f == CHOOSE g : Searches(a, e, g, Parts(low, high))
           Wrong(m) == \E r \in Parts(low, high) :
                         r[1] <= r[2] /\ r[2] - r[1] = m /\ ~Finds(a, e, r[1], r[2], f[r])
           T == {m \in Nat : Wrong(m)}
<1>1. BSearchRec(a, e, low, high) = f[<<low, high>>]
  BY Zenon DEF BSearchRec, Searches, SearchStep, Parts
<1>2. Searches(a, e, f, Parts(low, high))
  BY SearchExists
<1> HIDE DEF f
<1>3. \A r \in Parts(low, high) : f[r] = SearchStep(a, e, f, r)
  <2>1. f = [r \in Parts(low, high) |-> SearchStep(a, e, f, r)]
    BY <1>2 DEF Searches
  <2> QED
    BY <2>1
<1>4. ASSUME NEW r \in Parts(low, high), ~(r[1] <= r[2]) PROVE Finds(a, e, r[1], r[2], f[r])
  <2>1. r[1] > r[2] /\ r[1] .. r[2] = {}
    BY <1>4 DEF Parts
  <2>2. f[r] = -1
    BY <1>3, <2>1 DEF SearchStep
  <2> QED
    BY <2>1, <2>2 DEF Finds
<1>5. T = {}
  <2>1. SUFFICES ASSUME T # {} PROVE FALSE
    OBVIOUS
  <2>2. PICK m \in T : \A n \in T : m <= n
    <3> HIDE DEF Wrong
    <3>1. T \in SUBSET Nat
      OBVIOUS
    <3> HIDE DEF T
    <3> QED
      BY <2>1, <3>1, LeastNumber
  <2>3. PICK r \in Parts(low, high) : r[1] <= r[2] /\ r[2] - r[1] = m /\ ~Finds(a, e, r[1], r[2], f[r])
    OBVIOUS
  <2>4. ASSUME NEW q \in Parts(low, high), q[2] - q[1] < r[2] - r[1]
        PROVE  Finds(a, e, q[1], q[2], f[q])
    <3>1. CASE ~(q[1] <= q[2])
      BY <1>4, <3>1
    <3>2. CASE q[1] <= q[2]
      <4>1. q[2] - q[1] \in Nat /\ ~(m <= q[2] - q[1])
        BY <2>3, <2>4, <3>2 DEF Parts
      <4>2. ~Wrong(q[2] - q[1])
        <5> HIDE DEF Wrong
        <5> QED
          BY <2>2, <4>1
      <4> QED
        BY <3>2, <4>2
    <3> QED
      BY <3>1, <3>2
  <2> DEFINE x == r[1]
             y == r[2]
             mid == (x + y) \div 2
             left == <<x, mid - 1>>
             right == <<mid + 1, y>>
  <2>5. /\ mid \in x .. y /\ mid \in low .. high
        /\ left \in Parts(low, high) /\ mid - 1 - x < y - x
        /\ right \in Parts(low, high) /\ y - (mid + 1) < y - x
    BY <2>3, Halves
  <2>6. x \in Int /\ y \in Int /\ x <= y /\ low <= x /\ y <= high
    BY <2>3 DEF Parts
  <2>7. left[1] = x /\ left[2] = mid - 1 /\ right[1] = mid + 1 /\ right[2] = y
    OBVIOUS
  <2>8. f[r] = IF Cmp(e, a[mid]) = 0 THEN mid
               ELSE IF Cmp(e, a[mid]) < 0 THEN IF x = mid THEN -1 ELSE f[left]
               ELSE IF y = mid THEN -1 ELSE f[right]
    <3>1. ~(x > y)
      BY <2>6
    <3> HIDE DEF f
    <3> QED
      BY <1>3, <3>1, Zenon DEF SearchStep
  <2>9. ~Finds(a, e, x, y, f[r])
    BY <2>3
  <2> HIDE DEF x, y, mid, left, right, T, Wrong
  <2>10. Finds(a, e, x, mid - 1, f[left]) /\ Finds(a, e, mid + 1, y, f[right])
    BY <2>4, <2>5, <2>7 DEF x, y
  <2>11. mid \in Int /\ x <= mid /\ mid <= y /\ a[mid][1] \in Int
    BY <2>5, <2>6
  <2>12. \A j \in x .. y : j \in low .. high /\ a[j][1] \in Int
    BY <2>6
  <2>13. CASE Cmp(e, a[mid]) = 0
    <3>1. f[r] = mid /\ a[mid][1] = e[1]
      BY <2>8, <2>11, <2>13 DEF Cmp
    <3> QED
      BY <2>9, <3>1, <2>5 DEF Finds
  <2>14. CASE Cmp(e, a[mid]) # 0 /\ Cmp(e, a[mid]) < 0
    <3>1. e[1] < a[mid][1]
      BY <2>11, <2>14 DEF Cmp
    <3>2. \A j \in x .. y : a[j][1] = e[1] => j \in x .. mid - 1
      <4>1. SUFFICES ASSUME NEW j \in x .. y, a[j][1] = e[1], ~(j < mid) PROVE FALSE
        BY <2>6, <2>11
      <4>2. j = mid \/ (mid < j /\ a[mid][1] <= a[j][1])
        BY <2>5, <2>11, <2>12, <4>1
      <4> QED
        BY <2>11, <2>12, <3>1, <4>1, <4>2
    <3>3. \A j \in x .. mid - 1 : j \in x .. y
      BY <2>6, <2>11
    <3>4. CASE x = mid
      <4>1. f[r] = -1 /\ x .. mid - 1 = {}
        BY <2>6, <2>8, <2>14, <3>4
      <4> QED
        BY <2>9, <3>2, <4>1 DEF Finds
    <3>5. CASE x # mid
      <4>1. f[r] = f[left]
        BY <2>8, <2>14, <3>5
      <4> QED
        BY <2>9, <2>10, <3>2, <3>3, <4>1 DEF Finds
    <3> QED
      BY <3>4, <3>5
  <2>15. CASE Cmp(e, a[mid]) # 0 /\ ~(Cmp(e, a[mid]) < 0)
    <3>1. a[mid][1] < e[1]
      BY <2>11, <2>15 DEF Cmp
    <3>2. \A j \in x .. y : a[j][1] = e[1] => j \in mid + 1 .. y
      <4>1. SUFFICES ASSUME NEW j \in x .. y, a[j][1] = e[1], ~(mid < j) PROVE FALSE
        BY <2>6, <2>11
      <4>2. j = mid \/ (j < mid /\ a[j][1] <= a[mid][1])
        BY <2>5, <2>11, <2>12, <4>1
      <4> QED
        BY <2>11, <2>12, <3>1, <4>1, <4>2
    <3>3. \A j \in mid + 1 .. y : j \in x .. y
      BY <2>6, <2>11
    <3>4. CASE y = mid
      <4>1. f[r] = -1 /\ mid + 1 .. y = {}
        BY <2>6, <2>8, <2>15, <3>4
      <4> QED
        BY <2>9, <3>2, <4>1 DEF Finds
    <3>5. CASE y # mid
      <4>1. f[r] = f[right]
        BY <2>8, <2>15, <3>5
      <4> QED
        BY <2>9, <2>10, <3>2, <3>3, <4>1 DEF Finds
    <3> QED
      BY <3>4, <3>5
  <2> QED
    BY <2>13, <2>14, <2>15
<1> DEFINE r == <<low, high>>
<1>6. r[1] = low /\ r[2] = high /\ r \in Parts(low, high)
  BY DEF Parts
<1>7. Finds(a, e, r[1], r[2], f[r])
  <2> HIDE DEF r
  <2>1. CASE ~(r[1] <= r[2])
    BY <1>4, <1>6, <2>1
  <2>2. CASE r[1] <= r[2]
    <3>1. r[2] - r[1] \in Nat
      BY <1>6, <2>2
    <3>2. ~Wrong(r[2] - r[1])
      <4> HIDE DEF Wrong
      <4> QED
        BY <1>5, <3>1
    <3> QED
      BY <1>6, <2>2, <3>2
  <2> QED
    BY <2>1, <2>2
<1> HIDE DEF r
<1>8. BSearchRec(a, e, low, high) = f[r]
  BY <1>1 DEF r
<1> QED
  BY <1>6, <1>7, <1>8

-----------------------------------------------------------------------------
ElementsOf(s) == {s[i] : i \in 1 .. Len(s)}

\* t is s with e at index k, ...
IsInserted(E, s, k, e, t) ==
  /\ t \in Seq(E) /\ Len(t) = Len(s) + 1
  /\ \A i \in 1 .. Len(s) + 1 : t[i] = IF i < k THEN s[i] ELSE IF i = k THEN e ELSE s[i - 1]

\* ... or without what is at index i.
IsRemoved(E, s, i, t) ==
  /\ t \in Seq(E) /\ Len(t) = Len(s) - 1
  /\ \A j \in 1 .. Len(s) - 1 : t[j] = IF j < i THEN s[j] ELSE s[j + 1]

\* Insertion at an index moves what is behind it up.
LEMMA InsertedAt ==
  ASSUME NEW E, NEW s \in Seq(E), NEW e \in E, NEW k \in 1 .. Len(s) + 1, NEW t, t = InsertAt(s, k, e)
  PROVE  IsInserted(E, s, k, e, t)
<1> DEFINE n == Len(s)
           l == SubSeq(s, 1, k - 1)
           m == <<e>>
           r == SubSeq(s, k, n)
<1>0. n \in Nat
  OBVIOUS
<1>1. l \in Seq(E) /\ Len(l) = k - 1 /\ \A j \in 1 .. k - 1 : l[j] = s[j]
  OBVIOUS
<1>2. r \in Seq(E) /\ Len(r) = n - k + 1 /\ \A j \in 1 .. n - k + 1 : r[j] = s[j + k - 1]
  OBVIOUS
<1>3. t = (l \o m) \o r
  BY DEF InsertAt
<1>4. m \in Seq(E) /\ Len(m) = 1 /\ m[1] = e
  OBVIOUS
<1> HIDE DEF l, r, m, n
<1> DEFINE h == l \o m
<1>5. h \in Seq(E) /\ Len(h) = k /\ \A j \in 1 .. k : h[j] = IF j < k THEN s[j] ELSE e
  <2>1. /\ h \in Seq(E) /\ Len(h) = Len(l) + Len(m)
        /\ \A j \in 1 .. Len(l) + Len(m) : h[j] = IF j <= Len(l) THEN l[j] ELSE m[j - Len(l)]
    BY <1>1, <1>4, ConcatProperties
  <2>2. Len(l) + Len(m) = k
    BY <1>1, <1>4
  <2> QED
    BY <1>1, <1>4, <2>1, <2>2
<1>9. t = h \o r
  BY <1>3
<1> HIDE DEF h
<1>6. /\ t \in Seq(E) /\ Len(t) = Len(h) + Len(r)
      /\ \A j \in 1 .. Len(h) + Len(r) : t[j] = IF j <= Len(h) THEN h[j] ELSE r[j - Len(h)]
  <2>1. h \in Seq(E) /\ r \in Seq(E)
    BY <1>2, <1>5
  <2>2. /\ h \o r \in Seq(E) /\ Len(h \o r) = Len(h) + Len(r)
        /\ \A j \in 1 .. Len(h) + Len(r) : (h \o r)[j] = IF j <= Len(h) THEN h[j] ELSE r[j - Len(h)]
    BY <2>1, ConcatProperties
  <2> QED
    BY <1>9, <2>2
<1>7. Len(h) + Len(r) = n + 1 /\ k \in 1 .. n + 1
  BY <1>0, <1>2, <1>5 DEF n
<1>8. ASSUME NEW j \in 1 .. n + 1
      PROVE  t[j] = IF j < k THEN s[j] ELSE IF j = k THEN e ELSE s[j - 1]
  <2>1. CASE j <= k
    BY <1>5, <1>6, <1>7, <2>1
  <2>2. CASE ~(j <= k)
    <3>1. j - k \in 1 .. n - k + 1 /\ j - k + k - 1 = j - 1
      BY <1>0, <1>7, <2>2
    <3>2. t[j] = r[j - k]
      BY <1>5, <1>6, <1>7, <2>2
    <3> QED
      BY <1>0, <1>2, <1>7, <2>2, <3>1, <3>2
  <2> QED
    BY <1>0, <1>7, <2>1, <2>2
<1> QED
  BY <1>6, <1>7, <1>8 DEF n, IsInserted

\* Insertion behind the last element moves none.
LEMMA AppendedAt ==
  ASSUME NEW E, NEW s \in Seq(E), NEW e \in E, NEW k \in 1 .. Len(s) + 1, k > Len(s),
         NEW t, t = InsertAt(s, k, e)
  PROVE  /\ t \in Seq(E) /\ Len(t) = Len(s) + 1 /\ t[k] = e
         /\ \A i \in 1 .. Len(s) : t[i] = s[i]
<1>1. /\ t \in Seq(E) /\ Len(t) = Len(s) + 1
      /\ \A i \in 1 .. Len(s) + 1 : t[i] = IF i < k THEN s[i] ELSE IF i = k THEN e ELSE s[i - 1]
  <2>1. IsInserted(E, s, k, e, t)
    BY InsertedAt
  <2> QED
    BY <2>1 DEF IsInserted
<1>2. \A i \in 1 .. Len(s) : t[i] = s[i]
  BY <1>1
<1>3. t[k] = e
  BY <1>1
<1> QED
  BY <1>1, <1>2, <1>3

\* Taking an element out and closing the gap.
LEMMA RemovedAt ==
  ASSUME NEW E, NEW s \in Seq(E), NEW i \in 1 .. Len(s), NEW t, t = RemoveAt(s, i)
  PROVE  IsRemoved(E, s, i, t)
<1> DEFINE l == SubSeq(s, 1, i - 1)
           r == SubSeq(s, i + 1, Len(s))
<1>1. l \in Seq(E) /\ Len(l) = i - 1 /\ \A j \in 1 .. i - 1 : l[j] = s[j]
  OBVIOUS
<1>2. r \in Seq(E) /\ Len(r) = Len(s) - i /\ \A j \in 1 .. Len(s) - i : r[j] = s[j + i]
  OBVIOUS
<1>3. RemoveAt(s, i) = l \o r
  BY DEF RemoveAt
<1> HIDE DEF l, r
<1>4. /\ l \o r \in Seq(E) /\ Len(l \o r) = Len(s) - 1
      /\ \A j \in 1 .. Len(s) - 1 : (l \o r)[j] = IF j <= i - 1 THEN l[j] ELSE r[j - (i - 1)]
  <2>1. /\ l \o r \in Seq(E) /\ Len(l \o r) = Len(l) + Len(r)
        /\ \A j \in 1 .. Len(l) + Len(r) : (l \o r)[j] = IF j <= Len(l) THEN l[j] ELSE r[j - Len(l)]
    BY <1>1, <1>2, ConcatProperties
  <2>2. Len(l) + Len(r) = Len(s) - 1 /\ Len(l) = i - 1
    BY <1>1, <1>2
  <2> QED
    BY <2>1, <2>2
<1>5. \A j \in 1 .. Len(s) - 1 : (l \o r)[j] = IF j < i THEN s[j] ELSE s[j + 1]
  BY <1>1, <1>2, <1>4
<1> QED
  BY <1>3, <1>4, <1>5 DEF IsRemoved

\* Taking an element out and putting the last one in its place.
LEMMA FilledAt ==
  ASSUME NEW E, NEW s \in Seq(E), NEW i \in 1 .. Len(s), NEW t,
         t = Front([s EXCEPT ![i] = Last(s)])
  PROVE  /\ t \in Seq(E) /\ Len(t) = Len(s) - 1
         /\ \A j \in 1 .. Len(s) - 1 : t[j] = IF j = i THEN s[Len(s)] ELSE s[j]
<1> DEFINE u == [s EXCEPT ![i] = Last(s)]
<1>1. Last(s) = s[Len(s)] /\ s[Len(s)] \in E
  BY DEF Last
<1>2. u \in Seq(E) /\ Len(u) = Len(s) /\ \A j \in 1 .. Len(s) : u[j] = IF j = i THEN s[Len(s)] ELSE s[j]
  BY <1>1, ExceptSeq
<1> HIDE DEF u
<1>3. /\ SubSeq(u, 1, Len(s) - 1) \in Seq(E) /\ Len(SubSeq(u, 1, Len(s) - 1)) = Len(s) - 1
      /\ \A j \in 1 .. Len(s) - 1 : SubSeq(u, 1, Len(s) - 1)[j] = u[j]
  BY <1>2
<1> QED
  BY <1>2, <1>3 DEF Front, u

\* What does not depend on the order of the elements is kept by rearranging them.
LEMMA RearrangedKeeps ==
  ASSUME NEW E, NEW s \in Seq(E), NEW t \in Seq(E), Rearranged(s, t)
  PROVE  ElementsOf(t) = ElementsOf(s)
<1>1. PICK p \in [1 .. Len(s) -> 1 .. Len(s)] :
       /\ \A j \in 1 .. Len(s) : \E i \in 1 .. Len(s) : p[i] = j
       /\ \A i \in 1 .. Len(s) : t[i] = s[p[i]]
  BY DEF Rearranged
<1>2. Len(t) = Len(s)
  BY DEF Rearranged
<1>3. \A x \in ElementsOf(t) : x \in ElementsOf(s)
  <2>1. SUFFICES ASSUME NEW i \in 1 .. Len(t) PROVE \E j \in 1 .. Len(s) : s[j] = t[i]
    BY DEF ElementsOf
  <2>2. p[i] \in 1 .. Len(s) /\ t[i] = s[p[i]]
    BY <1>1, <1>2
  <2> QED
    BY <2>2
<1>4. \A x \in ElementsOf(s) : x \in ElementsOf(t)
  <2>1. SUFFICES ASSUME NEW j \in 1 .. Len(s) PROVE \E i \in 1 .. Len(t) : t[i] = s[j]
    BY DEF ElementsOf
  <2> QED
    BY <1>1, <1>2
<1> QED
  BY <1>3, <1>4

-----------------------------------------------------------------------------
\* No two nodes have the same key or the same block.
Apart(s) == \A i, j \in 1 .. Len(s) : s[i][1] = s[j][1] \/ s[i][2] = s[j][2] => i = j

Nodes == MapKeys \X Blocks

\* A bucket of a map that keeps its buckets sorted, or does not.  What is marked
\* sorted ascends in a map that keeps them sorted; in another the mark may be
\* untrue after hashmap_sort.
BucketOk(a, srt) ==
  /\ a \in DArrays(Nodes)
  /\ a.noalloc /\ a.capacity = BSize /\ a.max_elts = BSize
  /\ Len(a.elts) <= BSize
  /\ a.order = (IF srt THEN "sorted" ELSE "none")
  /\ srt /\ a.sorted => Ascending(a.elts)
  /\ Apart(a.elts)

\* The fields of an array.
LEMMA ArrayFields ==
  ASSUME NEW E, NEW a \in DArrays(E)
  PROVE  /\ a.elts \in Seq(E) /\ a.capacity \in Nat /\ a.alloc \in Nat /\ a.max_elts \in Int
         /\ a.sorted \in BOOLEAN /\ a.noalloc \in BOOLEAN
         /\ \A s \in Seq(E) : /\ [a EXCEPT !.elts = s] \in DArrays(E)
                               /\ [a EXCEPT !.elts = s].elts = s
                               /\ [a EXCEPT !.elts = s].capacity = a.capacity
                               /\ [a EXCEPT !.elts = s].alloc = a.alloc
                               /\ [a EXCEPT !.elts = s].max_elts = a.max_elts
                               /\ [a EXCEPT !.elts = s].sorted = a.sorted
                               /\ [a EXCEPT !.elts = s].order = a.order
                               /\ [a EXCEPT !.elts = s].noalloc = a.noalloc
  BY DEF DArrays

\* Keys of nodes are compared as integers.
LEMMA NodesKeyed == Keyed(Nodes) /\ BSize \in Nat \ {0} /\ NBuckets \in Nat \ {0}
  BY MapKeysAssumption, NBucketsAssumption DEF Keyed, Nodes

\* Rearranging a bucket leaves its nodes apart.
LEMMA RearrangedApart ==
  ASSUME NEW s \in Seq(Nodes), NEW t \in Seq(Nodes), Rearranged(s, t), Apart(s)
  PROVE  Apart(t)
<1>1. PICK p \in [1 .. Len(s) -> 1 .. Len(s)] :
       /\ \A i, j \in 1 .. Len(s) : p[i] = p[j] => i = j
       /\ \A i \in 1 .. Len(s) : t[i] = s[p[i]]
  BY DEF Rearranged
<1>2. Len(t) = Len(s)
  BY DEF Rearranged
<1>3. SUFFICES ASSUME NEW i \in 1 .. Len(s), NEW j \in 1 .. Len(s), t[i][1] = t[j][1] \/ t[i][2] = t[j][2]
               PROVE  i = j
  BY <1>2 DEF Apart
<1>4. p[i] = p[j]
  <2>1. p[i] \in 1 .. Len(s) /\ p[j] \in 1 .. Len(s) /\ t[i] = s[p[i]] /\ t[j] = s[p[j]]
    BY <1>1
  <2>2. s[p[i]][1] = s[p[j]][1] \/ s[p[i]][2] = s[p[j]][2]
    BY <1>3, <2>1
  <2> QED
    BY <2>1, <2>2 DEF Apart
<1> QED
  BY <1>1, <1>4

\* Sorting a bucket keeps its nodes.
LEMMA BucketSorted ==
  ASSUME NEW srt \in BOOLEAN, NEW a, BucketOk(a, srt)
  PROVE  BucketOk(DaSort(a), srt) /\ ElementsOf(DaSort(a).elts) = ElementsOf(a.elts)
                                 /\ Len(DaSort(a).elts) = Len(a.elts)
<1>1. CASE DaSize(a) <= 1 \/ a.sorted
  BY <1>1 DEF DaSort
<1>2. CASE ~(DaSize(a) <= 1 \/ a.sorted)
  <2> DEFINE t == StableSort(a.elts)
             b == [a EXCEPT !.elts = t]
  <2>1. a \in DArrays(Nodes) /\ a.elts \in Seq(Nodes)
    BY ArrayFields DEF BucketOk
  <2>2. t \in Seq(Nodes) /\ Rearranged(a.elts, t) /\ Ascending(t)
    BY <2>1, NodesKeyed, StableSortSorts
  <2>3. DaSort(a) = [a EXCEPT !.elts = t, !.sorted = TRUE]
    BY <1>2 DEF DaSort
  <2> HIDE DEF t
  <2>4. /\ DaSort(a) \in DArrays(Nodes) /\ DaSort(a).elts = t /\ DaSort(a).sorted
        /\ DaSort(a).noalloc = a.noalloc /\ DaSort(a).capacity = a.capacity
        /\ DaSort(a).max_elts = a.max_elts /\ DaSort(a).order = a.order
    BY <2>1, <2>2, <2>3 DEF DArrays
  <2>5. Apart(t) /\ ElementsOf(t) = ElementsOf(a.elts) /\ Len(t) = Len(a.elts)
    <3>1. Apart(a.elts)
      BY DEF BucketOk
    <3>2. Apart(t)
      BY <2>1, <2>2, <3>1, RearrangedApart
    <3>3. ElementsOf(t) = ElementsOf(a.elts)
      BY <2>1, <2>2, RearrangedKeeps
    <3>4. Len(t) = Len(a.elts)
      BY <2>2 DEF Rearranged
    <3> QED
      BY <3>2, <3>3, <3>4
  <2> QED
    BY <2>2, <2>4, <2>5 DEF BucketOk
<1> QED
  BY <1>1, <1>2

\* A node with a new key and a new block goes into a bucket with room.
LEMMA BucketInserted ==
  ASSUME NEW srt \in BOOLEAN, NEW a, BucketOk(a, srt), NEW e \in Nodes, ~DaIsFull(a),
         \A x \in ElementsOf(a.elts) : x[1] # e[1] /\ x[2] # e[2]
  PROVE  /\ BucketOk(DaInsert(a, e, DaSize(a)), srt)
         /\ ElementsOf(DaInsert(a, e, DaSize(a)).elts) = ElementsOf(a.elts) \cup {e}
<1> DEFINE n == Len(a.elts)
           t == InsertAt(a.elts, n + 1, e)
           put == [a EXCEPT !.elts = t]
<1>1. a \in DArrays(Nodes) /\ a.elts \in Seq(Nodes) /\ n \in Nat /\ n < a.capacity /\ n < BSize
  <2>1. a \in DArrays(Nodes) /\ n <= BSize /\ n # BSize /\ a.capacity = BSize
    BY DEF BucketOk, DaIsFull, DaSize
  <2>2. a.elts \in Seq(Nodes) /\ n \in Nat
    BY <2>1, ArrayFields
  <2> QED
    BY <2>1, <2>2, NodesKeyed
<1>2. /\ t \in Seq(Nodes) /\ Len(t) = n + 1 /\ t[n + 1] = e
      /\ \A i \in 1 .. n : t[i] = a.elts[i]
  <2> DEFINE s == a.elts
             k == n + 1
  <2>1. s \in Seq(Nodes) /\ n = Len(s) /\ k \in 1 .. Len(s) + 1 /\ k > Len(s) /\ t = InsertAt(s, k, e)
    BY <1>1
  <2> HIDE DEF s, t, n, put, k
  <2>2. /\ t \in Seq(Nodes) /\ Len(t) = Len(s) + 1 /\ t[k] = e
        /\ \A i \in 1 .. Len(s) : t[i] = s[i]
    <3>1. /\ s \in Seq(Nodes) /\ e \in Nodes /\ k \in 1 .. Len(s) + 1 /\ k > Len(s)
          /\ t = InsertAt(s, k, e)
      BY <2>1
    <3> QED
      BY ONLY <3>1, AppendedAt
  <2> QED
    BY <2>1, <2>2 DEF s, k
<1>3. Placed(a, e, DaSize(a)) = t
  BY DEF Placed, DaSize
<1>4. DaInsert(a, e, DaSize(a)) = IF a.order = "sorted" THEN DaSort([put EXCEPT !.sorted = FALSE]) ELSE put
  BY <1>1, <1>3 DEF DaInsert, DaSize
<1>5. ElementsOf(t) = ElementsOf(a.elts) \cup {e}
  <2> HIDE DEF t
  <2>1. \A x \in ElementsOf(t) : x \in ElementsOf(a.elts) \cup {e}
    BY <1>1, <1>2 DEF ElementsOf
  <2>2. \A x \in ElementsOf(a.elts) \cup {e} : x \in ElementsOf(t)
    <3>1. e \in ElementsOf(t)
      BY <1>1, <1>2 DEF ElementsOf
    <3>2. ASSUME NEW i \in 1 .. n PROVE a.elts[i] \in ElementsOf(t)
      BY <1>1, <1>2 DEF ElementsOf
    <3> QED
      BY <3>1, <3>2 DEF ElementsOf
  <2> QED
    BY <2>1, <2>2
<1>6. Apart(t)
  <2> HIDE DEF t
  <2>1. Apart(a.elts)
    BY DEF BucketOk
  <2>2. \A i \in 1 .. n : a.elts[i][1] # e[1] /\ a.elts[i][2] # e[2]
    BY DEF ElementsOf
  <2>3. SUFFICES ASSUME NEW i \in 1 .. n + 1, NEW j \in 1 .. n + 1, t[i][1] = t[j][1] \/ t[i][2] = t[j][2]
                 PROVE  i = j
    BY <1>2 DEF Apart
  <2> HIDE DEF n
  <2>4. CASE i \in 1 .. n /\ j \in 1 .. n
    BY <1>2, <2>1, <2>3, <2>4 DEF Apart, n
  <2>5. CASE i = n + 1 /\ j \in 1 .. n
    BY <1>2, <2>2, <2>3, <2>5
  <2>6. CASE i \in 1 .. n /\ j = n + 1
    BY <1>2, <2>2, <2>3, <2>6
  <2> QED
    BY <1>1, <2>4, <2>5, <2>6
<1> HIDE DEF t
<1>7. CASE a.order = "sorted"
  <2> DEFINE c == [put EXCEPT !.sorted = FALSE]
  <2>1. /\ c \in DArrays(Nodes) /\ c.elts = t /\ c.sorted = FALSE
        /\ c.noalloc = a.noalloc /\ c.capacity = a.capacity
        /\ c.max_elts = a.max_elts /\ c.order = a.order
    BY <1>1, <1>2 DEF DArrays
  <2> HIDE DEF c
  <2>2. BucketOk(c, srt) /\ srt
    BY <1>1, <1>2, <1>6, <1>7, <2>1, NodesKeyed DEF BucketOk
  <2>3. DaInsert(a, e, DaSize(a)) = DaSort(c)
    BY <1>4, <1>7 DEF c
  <2> QED
    BY <1>5, <2>1, <2>2, <2>3, BucketSorted
<1>8. CASE a.order # "sorted"
  <2>1. DaInsert(a, e, DaSize(a)) = put
    BY <1>4, <1>8
  <2>2. /\ put \in DArrays(Nodes) /\ put.elts = t /\ put.sorted = a.sorted
        /\ put.noalloc = a.noalloc /\ put.capacity = a.capacity
        /\ put.max_elts = a.max_elts /\ put.order = a.order
    BY <1>1, <1>2, ArrayFields
  <2> HIDE DEF put
  <2>3. ~srt
    BY <1>8 DEF BucketOk
  <2> QED
    BY <1>1, <1>2, <1>5, <1>6, <2>1, <2>2, <2>3, NodesKeyed DEF BucketOk
<1> QED
  BY <1>7, <1>8

\* The elements but for one, whichever way its place is filled.
LEMMA ElementsWithout ==
  ASSUME NEW s \in Seq(Nodes), Apart(s), NEW i \in 1 .. Len(s), NEW t \in Seq(Nodes),
         \/ t = RemoveAt(s, i)
         \/ t = Front([s EXCEPT ![i] = Last(s)])
  PROVE  /\ Len(t) = Len(s) - 1 /\ Apart(t)
         /\ ElementsOf(t) = ElementsOf(s) \ {s[i]}
<1> DEFINE n == Len(s)
           from(j) == IF t = RemoveAt(s, i) THEN IF j < i THEN j ELSE j + 1
                      ELSE IF j = i THEN n ELSE j
<1>1. n \in Nat /\ i \in 1 .. n
  OBVIOUS
<1>2. Len(t) = n - 1 /\ \A j \in 1 .. n - 1 : t[j] = s[from(j)]
  <2>1. CASE t = RemoveAt(s, i)
    <3>1. IsRemoved(Nodes, s, i, t)
      BY <2>1, RemovedAt
    <3> QED
      BY <2>1, <3>1 DEF IsRemoved
  <2>2. CASE t # RemoveAt(s, i)
    BY <2>2, FilledAt
  <2> QED
    BY <2>1, <2>2
<1> HIDE DEF n
<1>3. \A j \in 1 .. n - 1 : from(j) \in 1 .. n /\ from(j) # i
  BY <1>1
<1>4. \A j, k \in 1 .. n - 1 : from(j) = from(k) => j = k
  BY <1>1
<1>5. \A k \in 1 .. n : k # i => \E j \in 1 .. n - 1 : from(j) = k
  <2>1. SUFFICES ASSUME NEW k \in 1 .. n, k # i PROVE \E j \in 1 .. n - 1 : from(j) = k
    OBVIOUS
  <2>2. CASE t = RemoveAt(s, i)
    <3>1. CASE k < i
      BY <1>1, <2>2, <3>1
    <3>2. CASE ~(k < i)
      <4>1. k - 1 \in 1 .. n - 1 /\ ~(k - 1 < i) /\ k - 1 + 1 = k
        BY <1>1, <2>1, <3>2
      <4> QED
        BY <2>2, <4>1
    <3> QED
      BY <3>1, <3>2
  <2>3. CASE t # RemoveAt(s, i)
    <3>1. CASE k = n
      <4>1. i \in 1 .. n - 1
        BY <1>1, <2>1, <3>1
      <4> QED
        BY <2>3, <3>1, <4>1
    <3>2. CASE k # n
      <4>1. k \in 1 .. n - 1
        BY <1>1, <2>1, <3>2
      <4> QED
        BY <2>1, <2>3, <4>1
    <3> QED
      BY <3>1, <3>2
  <2> QED
    BY <2>2, <2>3
<1> HIDE DEF from
<1>6. Apart(t)
  <2>1. SUFFICES ASSUME NEW j \in 1 .. n - 1, NEW k \in 1 .. n - 1, t[j][1] = t[k][1] \/ t[j][2] = t[k][2]
                 PROVE  j = k
    BY <1>2 DEF Apart
  <2>2. from(j) \in 1 .. n /\ from(k) \in 1 .. n /\ t[j] = s[from(j)] /\ t[k] = s[from(k)]
    BY <1>2, <1>3
  <2>3. from(j) = from(k)
    BY <2>1, <2>2 DEF Apart, n
  <2> QED
    BY <1>4, <2>3
<1>7. \A x \in ElementsOf(t) : x \in ElementsOf(s) \ {s[i]}
  <2>1. SUFFICES ASSUME NEW j \in 1 .. n - 1 PROVE t[j] \in ElementsOf(s) /\ t[j] # s[i]
    BY <1>2 DEF ElementsOf
  <2>2. from(j) \in 1 .. n /\ from(j) # i /\ t[j] = s[from(j)]
    BY <1>2, <1>3
  <2>3. s[from(j)] # s[i]
    BY <1>1, <2>2 DEF Apart, n
  <2> QED
    BY <2>2, <2>3 DEF ElementsOf, n
<1>8. \A x \in ElementsOf(s) \ {s[i]} : x \in ElementsOf(t)
  <2>1. SUFFICES ASSUME NEW k \in 1 .. n, s[k] # s[i] PROVE s[k] \in ElementsOf(t)
    BY DEF ElementsOf, n
  <2>2. PICK j \in 1 .. n - 1 : from(j) = k
    BY <1>5, <2>1
  <2>3. t[j] = s[k] /\ j \in 1 .. Len(t)
    BY <1>2, <2>2
  <2> QED
    BY <2>3 DEF ElementsOf
<1> QED
  BY <1>2, <1>6, <1>7, <1>8 DEF n

\* Taking a node out of a bucket leaves the others, in order if they were.
LEMMA BucketRemoved ==
  ASSUME NEW srt \in BOOLEAN, NEW a, BucketOk(a, srt), NEW i \in 0 .. DaSize(a) - 1
  PROVE  /\ BucketOk(DaRemove(a, i, TRUE), srt)
         /\ ElementsOf(DaRemove(a, i, TRUE).elts) = ElementsOf(a.elts) \ {a.elts[i + 1]}
<1> DEFINE s == a.elts
           t == IF a.order = "sorted" THEN RemoveAt(s, i + 1)
                ELSE Front([s EXCEPT ![i + 1] = Last(s)])
<1>1. a \in DArrays(Nodes) /\ s \in Seq(Nodes) /\ Len(s) \in Nat /\ i + 1 \in 1 .. Len(s) /\ Apart(s)
  BY ArrayFields DEF BucketOk, DaSize
<1>2. DaRemove(a, i, TRUE) = [a EXCEPT !.elts = t]
  <2>1. a.noalloc
    BY DEF BucketOk
  <2>2. DaRemove(a, i, TRUE) =
          (IF ~DaIsEmpty([a EXCEPT !.elts = t]) /\ 4 * Len(t) <= a.capacity /\ ~a.noalloc
           THEN DaShrink([a EXCEPT !.elts = t], a.capacity \div 2, TRUE) ELSE [a EXCEPT !.elts = t])
    BY DEF DaRemove
  <2> QED
    BY <2>1, <2>2, Zenon
<1>3. t \in Seq(Nodes)
  <2> DEFINE k == i + 1
  <2>1. k \in 1 .. Len(s)
    BY <1>1
  <2> HIDE DEF k, s
  <2>2. RemoveAt(s, k) \in Seq(Nodes) /\ Front([s EXCEPT ![k] = Last(s)]) \in Seq(Nodes)
    <3>1. IsRemoved(Nodes, s, k, RemoveAt(s, k))
      BY <1>1, <2>1, RemovedAt
    <3> QED
      BY <1>1, <2>1, <3>1, FilledAt DEF IsRemoved
  <2> QED
    BY <2>2 DEF k
<1>4. /\ Len(t) = Len(s) - 1 /\ Apart(t)
      /\ ElementsOf(t) = ElementsOf(s) \ {s[i + 1]}
  <2> DEFINE k == i + 1
  <2>1. k \in 1 .. Len(s) /\ (t = RemoveAt(s, k) \/ t = Front([s EXCEPT ![k] = Last(s)]))
    BY <1>1
  <2> HIDE DEF k, s, t
  <2>2. /\ Len(t) = Len(s) - 1 /\ Apart(t)
        /\ ElementsOf(t) = ElementsOf(s) \ {s[k]}
    BY <1>1, <1>3, <2>1, ElementsWithout
  <2> QED
    BY <2>2 DEF k
<1>5. srt /\ a.sorted => Ascending(t)
  <2>1. SUFFICES ASSUME srt, a.sorted PROVE Ascending(t)
    OBVIOUS
  <2>2. Ascending(s) /\ t = RemoveAt(s, i + 1)
    BY <2>1 DEF BucketOk
  <2> DEFINE k == i + 1
  <2>3. k \in 1 .. Len(s) /\ t = RemoveAt(s, k)
    BY <1>1, <2>2
  <2> HIDE DEF k, s, t
  <2>4. Len(t) = Len(s) - 1 /\ \A j \in 1 .. Len(s) - 1 : t[j] = IF j < k THEN s[j] ELSE s[j + 1]
    <3>1. s \in Seq(Nodes)
      BY <1>1
    <3>2. IsRemoved(Nodes, s, k, t)
      BY <2>3, <3>1, RemovedAt
    <3> QED
      BY <3>2 DEF IsRemoved
  <2>5. SUFFICES ASSUME NEW x \in 1 .. Len(s) - 1, NEW y \in 1 .. Len(s) - 1, x < y PROVE t[x][1] <= t[y][1]
    BY <2>4 DEF Ascending
  <2> DEFINE u == IF x < k THEN x ELSE x + 1
             v == IF y < k THEN y ELSE y + 1
  <2>6. u \in 1 .. Len(s) /\ v \in 1 .. Len(s) /\ u < v
    BY <1>1, <2>3, <2>5
  <2>7. t[x] = s[u] /\ t[y] = s[v]
    BY <2>4
  <2> HIDE DEF u, v
  <2> QED
    BY <2>2, <2>6, <2>7 DEF Ascending
<1>6. Len(t) <= BSize
  <2>1. Len(s) <= BSize
    BY DEF BucketOk
  <2> QED
    BY <1>1, <1>4, <2>1, NodesKeyed
<1> HIDE DEF t
<1> DEFINE b == [a EXCEPT !.elts = t]
<1>7. /\ b \in DArrays(Nodes) /\ b.elts = t /\ b.sorted = a.sorted
      /\ b.noalloc = a.noalloc /\ b.capacity = a.capacity
      /\ b.max_elts = a.max_elts /\ b.order = a.order
  BY <1>1, <1>3, ArrayFields
<1> HIDE DEF b
<1>8. BucketOk(b, srt)
  BY <1>4, <1>5, <1>6, <1>7 DEF BucketOk
<1> QED
  BY <1>2, <1>4, <1>7, <1>8 DEF b

\* A cleared bucket has no nodes.
LEMMA BucketCleared ==
  ASSUME NEW srt \in BOOLEAN, NEW a, BucketOk(a, srt)
  PROVE  BucketOk(DaClear(a), srt) /\ ElementsOf(DaClear(a).elts) = {}
<1>1. a \in DArrays(Nodes) /\ <<>> \in Seq(Nodes) /\ Len(<<>>) = 0
  BY DEF BucketOk
<1> DEFINE b == DaClear(a)
<1>2. /\ b \in DArrays(Nodes) /\ b.elts = <<>> /\ b.sorted = a.sorted
      /\ b.noalloc = a.noalloc /\ b.capacity = a.capacity
      /\ b.max_elts = a.max_elts /\ b.order = a.order
  BY <1>1 DEF DaClear, DArrays
<1> HIDE DEF b
<1>3. Ascending(<<>>) /\ Apart(<<>>) /\ ElementsOf(<<>>) = {}
  BY <1>1 DEF Ascending, Apart, ElementsOf
<1>4. BucketOk(b, srt)
  BY <1>1, <1>2, <1>3, NodesKeyed DEF BucketOk
<1> QED
  BY <1>2, <1>3, <1>4 DEF b

\* A query finds an element with a key, by binary search or by a scan, if the
\* array has one and is not wrongly marked sorted (darray_idx_query).
LEMMA ArrayQuery ==
  ASSUME NEW E, Keyed(E), NEW a \in DArrays(E), MarkIsTrue(a), NEW k \in Int, NEW q, q = DaQuery(a, <<k, 0>>)
  PROVE  \/ q = -1 /\ \A x \in ElementsOf(a.elts) : x[1] # k
         \/ q \in 0 .. DaSize(a) - 1 /\ a.elts[q + 1] \in ElementsOf(a.elts) /\ a.elts[q + 1][1] = k
<1> DEFINE n == DaSize(a)
           s == a.elts
           e == <<k, 0>>
           f == [i \in 0 .. n - 1 |-> DaGet(a, i)]
<1>1. /\ s \in Seq(E) /\ n = Len(s) /\ n \in Nat
      /\ \A i \in 1 .. n : s[i] \in ElementsOf(s) /\ s[i][1] \in Int
      /\ k \in Int /\ e[1] = k
  <2>1. s \in Seq(E) /\ n = Len(s) /\ n \in Nat
    BY ArrayFields DEF DaSize
  <2>2. \A i \in 1 .. n : s[i] \in ElementsOf(s)
    BY <2>1 DEF ElementsOf
  <2>3. \A i \in 1 .. n : s[i][1] \in Int
    BY <2>1 DEF Keyed
  <2> QED
    BY <2>1, <2>2, <2>3
<1>2. \A i \in 0 .. n - 1 : DaGet(a, i) = s[i + 1] /\ i + 1 \in 1 .. n
  BY <1>1 DEF DaGet
<1>3. \A x \in ElementsOf(s) : \E i \in 0 .. n - 1 : x = s[i + 1]
  <2>1. SUFFICES ASSUME NEW j \in 1 .. n PROVE \E i \in 0 .. n - 1 : s[j] = s[i + 1]
    BY <1>1 DEF ElementsOf
  <2>2. j - 1 \in 0 .. n - 1 /\ j - 1 + 1 = j
    BY <1>1
  <2> QED
    BY <2>2
<1>4. SUFFICES \/ q = -1 /\ \A i \in 0 .. n - 1 : s[i + 1][1] # k
               \/ q \in 0 .. n - 1 /\ s[q + 1][1] = k
  <2> HIDE DEF n, s
  <2> QED
    BY <1>1, <1>2, <1>3 DEF n, s
<1>5. CASE a.sorted
  <2>1. q = BSearchRec(f, e, 0, n - 1)
    BY <1>5 DEF DaQuery
  <2>2. \A i \in 0 .. n - 1 : f[i] = s[i + 1] /\ f[i][1] \in Int
    BY <1>1, <1>2
  <2>3. Ascending(s)
    BY <1>5 DEF MarkIsTrue
  <2> HIDE DEF f, s, n, e
  <2>4. \A i, j \in 0 .. n - 1 : i < j => f[i][1] <= f[j][1]
    <3>1. SUFFICES ASSUME NEW i \in 0 .. n - 1, NEW j \in 0 .. n - 1, i < j PROVE f[i][1] <= f[j][1]
      OBVIOUS
    <3>2. i + 1 \in 1 .. n /\ j + 1 \in 1 .. n /\ i + 1 < j + 1
      BY <1>1, <3>1
    <3>3. s[i + 1][1] <= s[j + 1][1]
      BY <1>1, <2>3, <3>2 DEF Ascending
    <3> QED
      BY <2>2, <3>3
  <2> DEFINE h == n - 1
  <2>5. h \in Int /\ 0 <= h + 1 /\ 0 \in Int
    BY <1>1
  <2>6. /\ \A i \in 0 .. h : f[i][1] \in Int
        /\ \A i, j \in 0 .. h : i < j => f[i][1] <= f[j][1]
        /\ q = BSearchRec(f, e, 0, h) /\ e[1] \in Int
    BY <1>1, <2>1, <2>2, <2>4
  <2> HIDE DEF h
  <2>7. Finds(f, e, 0, h, q)
    BY <2>5, <2>6, SearchFinds
  <2> QED
    BY <1>1, <2>2, <2>7 DEF Finds, h
<1>6. CASE ~a.sorted
  <2> DEFINE hits == {i \in 0 .. n - 1 : Cmp(e, DaGet(a, i)) = 0}
  <2>1. q = IF hits = {} THEN -1 ELSE Greatest(hits)
    BY <1>6 DEF DaQuery
  <2>2. \A i \in 0 .. n - 1 : i \in hits <=> s[i + 1][1] = k
    <3> HIDE DEF n, s, e
    <3>1. \A i \in 0 .. n - 1 : Cmp(e, DaGet(a, i)) = k - s[i + 1][1] /\ s[i + 1][1] \in Int
      BY <1>1, <1>2 DEF Cmp
    <3> QED
      BY <1>1, <3>1
  <2>3. hits \subseteq 0 .. n - 1
    OBVIOUS
  <2> HIDE DEF hits, n, s, e
  <2>4. CASE hits = {}
    BY <2>1, <2>2, <2>4
  <2>5. CASE hits # {}
    <3>1. hits \in SUBSET (0 .. n)
      BY <1>1, <2>3
    <3>2. q \in hits
      BY <1>1, <2>1, <2>5, <3>1, GreatestIs
    <3> QED
      BY <2>2, <2>3, <3>2
  <2> QED
    BY <2>4, <2>5
<1> QED
  BY <1>5, <1>6

\* So does a query of a bucket.
LEMMA BucketQuery ==
  ASSUME NEW srt \in BOOLEAN, NEW a, BucketOk(a, srt), MarkIsTrue(a), NEW k \in MapKeys, NEW q, q = DaQuery(a, <<k, 0>>)
  PROVE  \/ q = -1 /\ \A x \in ElementsOf(a.elts) : x[1] # k
         \/ q \in 0 .. DaSize(a) - 1 /\ a.elts[q + 1] \in ElementsOf(a.elts) /\ a.elts[q + 1][1] = k
<1>1. Keyed(Nodes) /\ a \in DArrays(Nodes) /\ MarkIsTrue(a) /\ k \in Int
  BY NodesKeyed, MapKeysAssumption DEF BucketOk
<1> QED
  BY <1>1, ArrayQuery

-----------------------------------------------------------------------------
\* The nodes in each bucket, as sets.
NodesIn(m) == [b \in Buckets |-> ElementsOf(m.buckets[b].elts)]

\* How the nodes, the blocks and what the map should hold belong together.
NodesFit(nodes, db, data, should, lost, linprob) ==
  /\ \A b, c \in Buckets : \A x \in nodes[b], y \in nodes[c] :
       x[1] = y[1] \/ x[2] = y[2] => b = c /\ x = y
  /\ lost \subseteq db
  /\ \A b \in Buckets : \A x \in nodes[b] :
       /\ x[2] \in db /\ x[2] \notin lost
       /\ should[x[1]] = data[x[2]] /\ should[x[1]] # NoValue
       /\ linprob \/ b = HomeBucket(x[1])
  /\ \A d \in db : d \in lost \/ \E b \in Buckets : \E x \in nodes[b] : x[2] = d
  /\ \A k \in MapKeys : should[k] # NoValue => \E b \in Buckets : \E x \in nodes[b] : x[1] = k

Values == {p[2] : p \in MapPairs} \cup {NoValue}

\* Of the nodes counted some may be gone: hashmap_clear does not reset n_nodes.
HashInv ==
  /\ hmap \in HashMaps
  /\ hflags \in [linprob : BOOLEAN, sorted : BOOLEAN]
  /\ dict \in [MapKeys -> Values]
  /\ \A b \in Buckets : BucketOk(hmap.buckets[b], hflags.sorted)
  /\ NodesFit(NodesIn(hmap), hmap.db_map, hmap.datablocks, dict, leaked, hflags.linprob)
  /\ IsFiniteSet(hmap.db_map \ leaked) /\ Cardinality(hmap.db_map \ leaked) <= hmap.n_nodes

\* The fields of a map.
LEMMA MapFields ==
  ASSUME NEW m \in HashMaps
  PROVE  /\ m.buckets \in [Buckets -> DArrays(Nodes)] /\ m.db_map \in SUBSET Blocks
         /\ m.datablocks \in [Blocks -> Values] /\ m.n_nodes \in Nat
  BY DEF HashMaps, Nodes, Values

\* A map is its four fields.
LEMMA MapOf ==
  ASSUME NEW bs \in [Buckets -> DArrays(Nodes)], NEW db \in SUBSET Blocks,
         NEW data \in [Blocks -> Values], NEW n \in Nat,
         NEW m, m = [buckets |-> bs, db_map |-> db, datablocks |-> data, n_nodes |-> n]
  PROVE  /\ m \in HashMaps /\ m.buckets = bs /\ m.db_map = db /\ m.datablocks = data /\ m.n_nodes = n
  BY DEF HashMaps, Nodes, Values

\* The bucket a key hashes to is one of them, and its index is its place.
LEMMA Home ==
  ASSUME NEW k \in MapKeys
  PROVE  HomeBucket(k) \in Buckets /\ BucketIndex(HomeBucket(k)) = HomeBucket(k)
<1>1. NBuckets \in Nat \ {0} /\ HandleSize \in Nat /\ NBuckets <= HandleSize /\ Hash(k) \in Nat
  BY NBucketsAssumption, MapKeysAssumption
<1> DEFINE h == Hash(k)
           b == h % NBuckets
<1>2. b \in 0 .. NBuckets - 1
  <2> HIDE DEF h
  <2> QED
    BY <1>1 DEF h
<1> HIDE DEF b
<1>3. b % HandleSize = b
  BY <1>1, <1>2
<1> QED
  BY <1>2, <1>3 DEF HomeBucket, BucketIndex, Buckets, b

\* Probing from a bucket on visits every other one.
LEMMA ProbesAll ==
  ASSUME NEW b \in Buckets
  PROVE  /\ DOMAIN ProbeOrder(b) = 1 .. NBuckets - 1
         /\ \A n \in 1 .. NBuckets - 1 : ProbeOrder(b)[n] \in Buckets
         /\ \A c \in Buckets : c # b => \E n \in 1 .. NBuckets - 1 : ProbeOrder(b)[n] = c
<1>1. NBuckets \in Nat \ {0} /\ b \in 0 .. NBuckets - 1
  BY NBucketsAssumption DEF Buckets
<1>2. \A n \in 1 .. NBuckets - 1 : ProbeOrder(b)[n] = (b + n) % NBuckets
  BY DEF ProbeOrder
<1>3. \A n \in 1 .. NBuckets - 1 : (b + n) % NBuckets \in 0 .. NBuckets - 1
  BY <1>1
<1>4. ASSUME NEW c \in 0 .. NBuckets - 1, c # b
      PROVE  \E n \in 1 .. NBuckets - 1 : (b + n) % NBuckets = c
  <2>1. CASE c > b
    <3>1. c - b \in 1 .. NBuckets - 1 /\ b + (c - b) = c
      BY <1>1, <2>1
    <3>2. c % NBuckets = c
      BY <1>1
    <3> QED
      BY <3>1, <3>2
  <2>2. CASE ~(c > b)
    <3>1. c - b + NBuckets \in 1 .. NBuckets - 1 /\ b + (c - b + NBuckets) = c + NBuckets
      BY <1>1, <1>4, <2>2
    <3>2. (c + NBuckets) % NBuckets = c
      BY <1>1
    <3> QED
      BY <3>1, <3>2
  <2> QED
    BY <2>1, <2>2
<1> QED
  BY <1>2, <1>3, <1>4 DEF Buckets, ProbeOrder

\* Linear probing finds a wanted bucket if another one than the first is wanted.
LEMMA FirstOfIs ==
  ASSUME NEW b \in Buckets, NEW wanted, NEW c, c = FirstOf(ProbeOrder(b), wanted)
  PROVE  \/ c = -1 /\ \A d \in Buckets : d # b => d \notin wanted
         \/ c \in Buckets /\ c \in wanted
<1> DEFINE order == ProbeOrder(b)
           hits == {n \in DOMAIN order : order[n] \in wanted}
<1>1. c = IF hits = {} THEN -1 ELSE order[Least(hits)]
  BY Zenon DEF FirstOf
<1>2. DOMAIN order = 1 .. NBuckets - 1
  BY ProbesAll
<1>3. CASE hits = {}
  <2>1. \A n \in 1 .. NBuckets - 1 : order[n] \notin wanted
    BY <1>2, <1>3
  <2> HIDE DEF order
  <2>2. ASSUME NEW d \in Buckets, d # b PROVE d \notin wanted
    BY <2>1, <2>2, ProbesAll DEF order
  <2> HIDE DEF hits
  <2> QED
    BY <1>1, <1>3, <2>2
<1>4. CASE hits # {}
  <2>1. hits \in SUBSET Nat
    BY <1>2
  <2>2. Least(hits) \in hits
    <3> HIDE DEF hits
    <3> QED
      BY <1>4, <2>1, LeastIs
  <2>3. Least(hits) \in 1 .. NBuckets - 1 /\ order[Least(hits)] \in wanted
    <3> DEFINE l == Least(hits)
    <3>1. l \in hits
      BY <2>2
    <3> HIDE DEF l
    <3>2. l \in 1 .. NBuckets - 1 /\ order[l] \in wanted
      BY <1>2, <3>1
    <3> QED
      BY <3>2 DEF l
  <2> HIDE DEF hits
  <2> QED
    BY <1>1, <1>4, <2>3, ProbesAll
<1> QED
  BY <1>3, <1>4

\* While the buckets marked sorted are, the one that has a key is found, wherever
\* it is (hashmap_query, hashmap_linear_probe); what the query in it gives is the
\* node.
LEMMA BucketFound ==
  ASSUME HashInv, MarksAreTrue, NEW k \in MapKeys, NEW b, b = FindBucket(hmap, k),
         NEW q, q = DaQuery(hmap.buckets[b], <<k, 0>>)
  PROVE  \/ b = -1 /\ \A c \in Buckets : \A x \in NodesIn(hmap)[c] : x[1] # k
         \/ /\ b \in Buckets /\ q \in 0 .. DaSize(hmap.buckets[b]) - 1
            /\ hmap.buckets[b].elts[q + 1] \in NodesIn(hmap)[b]
            /\ hmap.buckets[b].elts[q + 1][1] = k
<1> DEFINE h == HomeBucket(k)
<1>1. h \in Buckets /\ BucketIndex(h) = h
  BY Home
<1>2. \A c \in Buckets : ~Holds(hmap, c, k) => \A x \in NodesIn(hmap)[c] : x[1] # k
  <2>1. SUFFICES ASSUME NEW c \in Buckets, ~Holds(hmap, c, k) PROVE \A x \in NodesIn(hmap)[c] : x[1] # k
    OBVIOUS
  <2> DEFINE a == hmap.buckets[c]
             z == DaQuery(a, <<k, 0>>)
             srt == hflags.sorted
  <2>2. /\ BucketOk(a, srt) /\ srt \in BOOLEAN /\ z = -1 /\ NodesIn(hmap)[c] = ElementsOf(a.elts)
        /\ MarkIsTrue(a)
    BY <2>1 DEF HashInv, Holds, NodesIn, MarksAreTrue
  <2>3. z = DaQuery(a, <<k, 0>>)
    OBVIOUS
  <2> HIDE DEF a, z, srt
  <2>4. \A x \in ElementsOf(a.elts) : x[1] # k
    BY <2>2, <2>3, BucketQuery
  <2> QED
    BY <2>2, <2>4
<1>3. ASSUME b \in Buckets, Holds(hmap, b, k)
      PROVE  /\ q \in 0 .. DaSize(hmap.buckets[b]) - 1
             /\ hmap.buckets[b].elts[q + 1] \in NodesIn(hmap)[b]
             /\ hmap.buckets[b].elts[q + 1][1] = k
  <2> DEFINE a == hmap.buckets[b]
             srt == hflags.sorted
  <2>1. /\ BucketOk(a, srt) /\ srt \in BOOLEAN /\ q # -1 /\ NodesIn(hmap)[b] = ElementsOf(a.elts)
        /\ MarkIsTrue(a)
    BY <1>3 DEF HashInv, Holds, NodesIn, MarksAreTrue
  <2>2. q = DaQuery(a, <<k, 0>>)
    OBVIOUS
  <2> HIDE DEF a, srt
  <2>3. q \in 0 .. DaSize(a) - 1 /\ a.elts[q + 1] \in ElementsOf(a.elts) /\ a.elts[q + 1][1] = k
    BY <2>1, <2>2, BucketQuery
  <2> QED
    BY <2>1, <2>3 DEF a
<1>4. CASE Holds(hmap, h, k)
  <2>1. b = h
    BY <1>4, Zenon DEF FindBucket
  <2> QED
    BY <1>1, <1>3, <1>4, <2>1
<1>5. CASE ~Holds(hmap, h, k) /\ hflags.linprob
  <2> DEFINE W == {c \in Buckets : Holds(hmap, c, k)}
  <2>1. b = FirstOf(ProbeOrder(h), W)
    <3>1. b = FirstOf(ProbeOrder(BucketIndex(h)), W)
      BY <1>5, Zenon DEF FindBucket
    <3> QED
      BY <1>1, <3>1
  <2>2. W = {c \in Buckets : Holds(hmap, c, k)}
    OBVIOUS
  <2> HIDE DEF W, h
  <2>3. \/ b = -1 /\ \A d \in Buckets : d # h => d \notin W
        \/ b \in Buckets /\ b \in W
    BY <1>1, <2>1, FirstOfIs
  <2> QED
    BY <1>2, <1>3, <1>5, <2>2, <2>3
<1>6. CASE ~Holds(hmap, h, k) /\ ~hflags.linprob
  <2>1. b = -1
    BY <1>6, Zenon DEF FindBucket
  <2>2. \A c \in Buckets : \A x \in NodesIn(hmap)[c] : x[1] = k => c = h
    BY <1>6 DEF HashInv, NodesFit
  <2> QED
    BY <1>1, <1>2, <1>6, <2>1, <2>2
<1> QED
  BY <1>4, <1>5, <1>6

\* hashmap_add finds a bucket with room, which without linear probing is the
\* one the key hashes to.
LEMMA RoomFound ==
  ASSUME HashInv, NEW k \in MapKeys, NEW b, b = RoomFor(hmap, k), b # -1
  PROVE  /\ b \in Buckets /\ ~DaIsFull(hmap.buckets[b])
         /\ hflags.linprob \/ b = HomeBucket(k)
<1> DEFINE h == HomeBucket(k)
           W == {c \in Buckets : ~DaIsFull(hmap.buckets[c])}
<1>1. h \in Buckets /\ BucketIndex(h) = h
  BY Home
<1>2. b = IF ~DaIsFull(hmap.buckets[h]) THEN h
          ELSE IF hflags.linprob THEN FirstOf(ProbeOrder(BucketIndex(h)), W) ELSE -1
  BY Zenon DEF RoomFor
<1>3. CASE ~DaIsFull(hmap.buckets[h])
  BY <1>1, <1>2, <1>3
<1>4. CASE DaIsFull(hmap.buckets[h])
  <2>1. hflags.linprob /\ b = FirstOf(ProbeOrder(h), W)
    BY <1>1, <1>2, <1>4
  <2>2. \A c \in W : ~DaIsFull(hmap.buckets[c])
    OBVIOUS
  <2> HIDE DEF W, h
  <2>3. b \in Buckets /\ b \in W
    BY <1>1, <2>1, FirstOfIs
  <2> QED
    BY <2>1, <2>2, <2>3
<1> QED
  BY <1>3, <1>4

\* The lookup gives what the map should hold.
LEMMA GetIs ==
  ASSUME HashInv, MarksAreTrue, NEW k \in MapKeys
  PROVE  DataGet(hmap, k) = dict[k]
<1> DEFINE b == FindBucket(hmap, k)
           q == DaQuery(hmap.buckets[b], <<k, 0>>)
           x == hmap.buckets[b].elts[q + 1]
<1>1. \/ b = -1 /\ \A c \in Buckets : \A y \in NodesIn(hmap)[c] : y[1] # k
      \/ b \in Buckets /\ x \in NodesIn(hmap)[b] /\ x[1] = k
  BY BucketFound
<1>2. DataGet(hmap, k) = IF b = -1 THEN NoValue ELSE hmap.datablocks[x[2]]
  BY Zenon DEF DataGet, DaGet
<1> HIDE DEF b, x
<1>3. CASE b = -1
  <2>1. ~(b \in Buckets)
    BY <1>3, NBucketsAssumption DEF Buckets
  <2>2. dict[k] = NoValue
    BY <1>1, <2>1 DEF HashInv, NodesFit
  <2> QED
    BY <1>2, <1>3, <2>2
<1>4. CASE b # -1
  <2>1. b \in Buckets /\ x \in NodesIn(hmap)[b] /\ x[1] = k
    BY <1>1, <1>4
  <2>2. dict[x[1]] = hmap.datablocks[x[2]]
    BY <2>1 DEF HashInv, NodesFit
  <2> QED
    BY <1>2, <1>4, <2>1, <2>2
<1> QED
  BY <1>3, <1>4

\* The invariant says what the runs check.
LEMMA InvGivesDictionary == HashInv => MapIsDictionary
<1>1. SUFFICES ASSUME HashInv PROVE MapIsDictionary
  OBVIOUS
<1> DEFINE at == UNION {{<<b, i>> : i \in DOMAIN hmap.buckets[b].elts} : b \in Buckets}
           node(n) == hmap.buckets[n[1]].elts[n[2]]
           blocks == {node(n)[2] : n \in at}
<1>2. ASSUME NEW b \in Buckets
      PROVE  /\ DOMAIN hmap.buckets[b].elts = 1 .. Len(hmap.buckets[b].elts)
             /\ NodesIn(hmap)[b] = ElementsOf(hmap.buckets[b].elts)
             /\ Apart(hmap.buckets[b].elts)
  <2>1. BucketOk(hmap.buckets[b], hflags.sorted)
    BY <1>1 DEF HashInv
  <2>2. hmap.buckets[b].elts \in Seq(Nodes) /\ Apart(hmap.buckets[b].elts)
    BY <2>1, ArrayFields DEF BucketOk
  <2> QED
    BY <2>2 DEF NodesIn
<1>3. \A n \in at : /\ n[1] \in Buckets /\ n[2] \in 1 .. Len(hmap.buckets[n[1]].elts)
                    /\ n = <<n[1], n[2]>> /\ node(n) \in NodesIn(hmap)[n[1]]
  BY <1>2 DEF ElementsOf
<1>4. \A b \in Buckets : \A x \in NodesIn(hmap)[b] : \E n \in at : node(n) = x
  <2>1. SUFFICES ASSUME NEW b \in Buckets, NEW i \in 1 .. Len(hmap.buckets[b].elts)
                 PROVE  \E n \in at : node(n) = hmap.buckets[b].elts[i]
    <3> HIDE DEF at, node
    <3> QED
      BY <1>2 DEF ElementsOf
  <2>2. <<b, i>> \in at /\ node(<<b, i>>) = hmap.buckets[b].elts[i]
    BY <1>2
  <2> HIDE DEF at, node
  <2> QED
    BY <2>2
<1>5. ASSUME NEW m \in at, NEW n \in at, m # n
      PROVE  node(m)[1] # node(n)[1] /\ node(m)[2] # node(n)[2]
  <2>1. /\ m[1] \in Buckets /\ m[2] \in 1 .. Len(hmap.buckets[m[1]].elts) /\ m = <<m[1], m[2]>>
        /\ n[1] \in Buckets /\ n[2] \in 1 .. Len(hmap.buckets[n[1]].elts) /\ n = <<n[1], n[2]>>
        /\ node(m) \in NodesIn(hmap)[m[1]] /\ node(n) \in NodesIn(hmap)[n[1]]
    BY <1>3
  <2>2. CASE m[1] = n[1]
    <3>1. m[2] # n[2]
      BY <1>5, <2>1, <2>2
    <3>2. Apart(hmap.buckets[m[1]].elts)
      BY <1>2, <2>1
    <3> QED
      BY <2>1, <2>2, <3>1, <3>2 DEF Apart
  <2>3. CASE m[1] # n[1]
    <3> HIDE DEF at, node
    <3> QED
      BY <1>1, <2>1, <2>3 DEF HashInv, NodesFit
  <2> QED
    BY <2>2, <2>3
<1> HIDE DEF at, node
<1>6. hmap.db_map = leaked \cup blocks /\ leaked \cap blocks = {}
  <2>1. \A n \in at : node(n)[2] \in hmap.db_map /\ node(n)[2] \notin leaked
    BY <1>1, <1>3 DEF HashInv, NodesFit
  <2>2. \A d \in hmap.db_map : d \in leaked \/ d \in blocks
    BY <1>1, <1>4 DEF HashInv, NodesFit
  <2>3. leaked \subseteq hmap.db_map
    BY <1>1 DEF HashInv, NodesFit
  <2> QED
    BY <2>1, <2>2, <2>3
<1>7. hmap \in HashMaps /\ (MarksAreTrue => MapGivesItsData)
  BY <1>1, GetIs DEF HashInv, MapGivesItsData
<1>8. hflags.sorted => MarksAreTrue
  BY <1>1 DEF HashInv, MarksAreTrue, MarkIsTrue, BucketOk
<1> QED
  BY <1>5, <1>6, <1>7, <1>8, Zenon DEF MapIsDictionary, at, node

\* A map of which one bucket changed.
LEMMA OneBucket ==
  ASSUME HashInv, NEW b \in Buckets, NEW a, BucketOk(a, hflags.sorted)
  PROVE  LET bs == [hmap.buckets EXCEPT ![b] = a]
         IN  /\ bs \in [Buckets -> DArrays(Nodes)]
             /\ \A c \in Buckets : BucketOk(bs[c], hflags.sorted)
             /\ [c \in Buckets |-> ElementsOf(bs[c].elts)] = [NodesIn(hmap) EXCEPT ![b] = ElementsOf(a.elts)]
<1>1. hmap.buckets \in [Buckets -> DArrays(Nodes)]
  BY MapFields DEF HashInv
<1>2. a \in DArrays(Nodes)
  BY DEF BucketOk
<1>3. \A c \in Buckets : BucketOk(hmap.buckets[c], hflags.sorted)
  BY DEF HashInv
<1> DEFINE bs == [hmap.buckets EXCEPT ![b] = a]
<1>4. bs \in [Buckets -> DArrays(Nodes)] /\ \A c \in Buckets : bs[c] = IF c = b THEN a ELSE hmap.buckets[c]
  BY <1>1, <1>2
<1> HIDE DEF bs
<1>5. \A c \in Buckets : BucketOk(bs[c], hflags.sorted)
  BY <1>3, <1>4
<1>6. [c \in Buckets |-> ElementsOf(bs[c].elts)] = [NodesIn(hmap) EXCEPT ![b] = ElementsOf(a.elts)]
  BY <1>4 DEF NodesIn
<1> QED
  BY <1>4, <1>5, <1>6 DEF bs

\* A node with a new key and a free block goes into a bucket.
LEMMA FitsAdded ==
  ASSUME NEW nodes \in [Buckets -> SUBSET Nodes], NEW db \in SUBSET Blocks, NEW data \in [Blocks -> Values],
         NEW should \in [MapKeys -> Values], NEW lost, NEW lp,
         NodesFit(nodes, db, data, should, lost, lp),
         NEW b \in Buckets, NEW d \in Blocks \ db, NEW k \in MapKeys, NEW v, should[k] = NoValue, v # NoValue,
         lp \/ b = HomeBucket(k)
  PROVE  NodesFit([nodes EXCEPT ![b] = nodes[b] \cup {<<k, d>>}], db \cup {d}, [data EXCEPT ![d] = v],
                  [should EXCEPT ![k] = v], lost, lp)
<1> DEFINE ns == [nodes EXCEPT ![b] = nodes[b] \cup {<<k, d>>}]
           ds == [data EXCEPT ![d] = v]
           sh == [should EXCEPT ![k] = v]
           new == <<k, d>>
<1>1. /\ \A c \in Buckets : ns[c] = IF c = b THEN nodes[c] \cup {new} ELSE nodes[c]
      /\ \A e \in Blocks : ds[e] = IF e = d THEN v ELSE data[e]
      /\ \A j \in MapKeys : sh[j] = IF j = k THEN v ELSE should[j]
      /\ new[1] = k /\ new[2] = d
  OBVIOUS
<1> HIDE DEF ns, ds, sh, new
<1>2. \A c \in Buckets : \A x \in nodes[c] : /\ x[1] \in MapKeys /\ x[2] \in Blocks
                                           /\ x[1] # k /\ x[2] # d
                                           /\ should[x[1]] = data[x[2]] /\ should[x[1]] # NoValue
  <2>1. \A c \in Buckets : \A x \in nodes[c] : x \in Nodes
    OBVIOUS
  <2>2. \A x \in Nodes : x[1] \in MapKeys /\ x[2] \in Blocks
    BY DEF Nodes
  <2> QED
    BY <2>1, <2>2 DEF NodesFit
<1>3. \A c \in Buckets : \A x \in ns[c] : x \in nodes[c] \/ (c = b /\ x = new)
  <2>1. SUFFICES ASSUME NEW c \in Buckets, NEW x \in ns[c], x \notin nodes[c] PROVE c = b /\ x = new
    OBVIOUS
  <2>2. ns[c] = IF c = b THEN nodes[c] \cup {new} ELSE nodes[c]
    BY <1>1
  <2> QED
    BY <2>1, <2>2
<1>4. \A c \in Buckets : \A x \in nodes[c] : x \in ns[c]
  BY <1>1
<1>5. new \in ns[b]
  BY <1>1
<1>6. ASSUME NEW c \in Buckets, NEW e \in Buckets, NEW x \in ns[c], NEW y \in ns[e], x[1] = y[1] \/ x[2] = y[2]
      PROVE  c = e /\ x = y
  <2>1. CASE x \in nodes[c] /\ y \in nodes[e]
    BY <1>6, <2>1 DEF NodesFit
  <2>2. CASE x \notin nodes[c] \/ y \notin nodes[e]
    BY <1>1, <1>2, <1>3, <1>6, <2>2
  <2> QED
    BY <2>1, <2>2
<1>7. lost \subseteq db \cup {d}
  BY DEF NodesFit
<1>8. ASSUME NEW c \in Buckets, NEW x \in ns[c]
      PROVE  /\ x[2] \in db \cup {d} /\ x[2] \notin lost
             /\ sh[x[1]] = ds[x[2]] /\ sh[x[1]] # NoValue
             /\ lp \/ c = HomeBucket(x[1])
  <2>1. CASE x \in nodes[c]
    <3>1. x[2] \in db /\ x[2] \notin lost /\ (lp \/ c = HomeBucket(x[1]))
      BY <2>1 DEF NodesFit
    <3>2. sh[x[1]] = should[x[1]] /\ ds[x[2]] = data[x[2]]
      BY <1>1, <1>2, <2>1
    <3> QED
      BY <1>2, <2>1, <3>1, <3>2
  <2>2. CASE c = b /\ x = new
    <3>1. d \notin lost
      BY DEF NodesFit
    <3>2. sh[k] = v /\ ds[d] = v
      BY <1>1
    <3> QED
      BY <1>1, <2>2, <3>1, <3>2
  <2> QED
    BY <1>3, <2>1, <2>2
<1>9. ASSUME NEW e \in db \cup {d}
      PROVE  e \in lost \/ \E c \in Buckets : \E x \in ns[c] : x[2] = e
  <2>1. CASE e = d
    BY <1>1, <1>5, <2>1
  <2>2. CASE e \in db
    <3>1. e \in lost \/ \E c \in Buckets : \E x \in nodes[c] : x[2] = e
      BY <2>2 DEF NodesFit
    <3> QED
      BY <1>4, <3>1
  <2> QED
    BY <2>1, <2>2
<1>10. ASSUME NEW j \in MapKeys, sh[j] # NoValue
       PROVE  \E c \in Buckets : \E x \in ns[c] : x[1] = j
  <2>1. CASE j = k
    BY <1>1, <1>5, <2>1
  <2>2. CASE j # k
    <3>1. should[j] # NoValue
      BY <1>1, <1>10, <2>2
    <3>2. \E c \in Buckets : \E x \in nodes[c] : x[1] = j
      BY <3>1 DEF NodesFit
    <3> QED
      BY <1>4, <3>2
  <2> QED
    BY <2>1, <2>2
<1> DEFINE dd == db \cup {d}
<1>11. NodesFit(ns, dd, ds, sh, lost, lp)
  <2>1. \A e \in dd : e \in lost \/ \E c \in Buckets : \E x \in ns[c] : x[2] = e
    BY <1>9
  <2>2. lost \subseteq dd /\ \A c \in Buckets : \A x \in ns[c] :
           /\ x[2] \in dd /\ x[2] \notin lost
           /\ sh[x[1]] = ds[x[2]] /\ sh[x[1]] # NoValue
           /\ lp \/ c = HomeBucket(x[1])
    BY <1>7, <1>8
  <2> HIDE DEF dd
  <2>3. \A c, e \in Buckets : \A x \in ns[c], y \in ns[e] : x[1] = y[1] \/ x[2] = y[2] => c = e /\ x = y
    BY <1>6
  <2>4. \A j \in MapKeys : sh[j] # NoValue => \E c \in Buckets : \E x \in ns[c] : x[1] = j
    BY <1>10
  <2> QED
    BY <2>1, <2>2, <2>3, <2>4 DEF NodesFit
<1> QED
  BY <1>11 DEF ns, ds, sh, new

\* A free block is taken and lost.
LEMMA FitsLost ==
  ASSUME NEW nodes \in [Buckets -> SUBSET Nodes], NEW db \in SUBSET Blocks, NEW data \in [Blocks -> Values],
         NEW should, NEW lost, NEW lp, NodesFit(nodes, db, data, should, lost, lp),
         NEW d \in Blocks \ db, NEW v
  PROVE  NodesFit(nodes, db \cup {d}, [data EXCEPT ![d] = v], should, lost \cup {d}, lp)
<1> DEFINE ds == [data EXCEPT ![d] = v]
<1>1. \A c \in Buckets : \A x \in nodes[c] : x[2] # d /\ x[2] \in Blocks
  BY DEF NodesFit, Nodes
<1>2. \A e \in Blocks : e # d => ds[e] = data[e]
  OBVIOUS
<1> HIDE DEF ds
<1>3. \A c \in Buckets : \A x \in nodes[c] :
           /\ x[2] \in db \cup {d} /\ x[2] \notin lost \cup {d}
           /\ should[x[1]] = ds[x[2]] /\ should[x[1]] # NoValue
           /\ lp \/ c = HomeBucket(x[1])
  BY <1>1, <1>2 DEF NodesFit
<1>4. \A e \in db \cup {d} : e \in lost \cup {d} \/ \E c \in Buckets : \E x \in nodes[c] : x[2] = e
  BY DEF NodesFit
<1>5. lost \cup {d} \subseteq db \cup {d}
  BY DEF NodesFit
<1> DEFINE dd == db \cup {d}
           ld == lost \cup {d}
<1>6. NodesFit(nodes, dd, ds, should, ld, lp)
  <2> HIDE DEF dd, ld
  <2>1. /\ \A b, c \in Buckets : \A x \in nodes[b], y \in nodes[c] :
             x[1] = y[1] \/ x[2] = y[2] => b = c /\ x = y
        /\ \A k \in MapKeys : should[k] # NoValue => \E b \in Buckets : \E x \in nodes[b] : x[1] = k
    BY DEF NodesFit
  <2> QED
    BY <1>3, <1>4, <1>5, <2>1 DEF NodesFit, dd, ld
<1> QED
  BY <1>6 DEF ds

\* A node is taken out of its bucket, and its block is free again.
LEMMA FitsRemoved ==
  ASSUME NEW nodes \in [Buckets -> SUBSET Nodes], NEW db \in SUBSET Blocks, NEW data \in [Blocks -> Values],
         NEW should \in [MapKeys -> Values], NEW lost, NEW lp,
         NodesFit(nodes, db, data, should, lost, lp),
         NEW b \in Buckets, NEW z \in nodes[b], NEW k, k = z[1], NEW d, d = z[2]
  PROVE  NodesFit([nodes EXCEPT ![b] = nodes[b] \ {z}], db \ {d}, [data EXCEPT ![d] = NoValue],
                  [should EXCEPT ![k] = NoValue], lost, lp)
<1> DEFINE ns == [nodes EXCEPT ![b] = nodes[b] \ {z}]
           ds == [data EXCEPT ![d] = NoValue]
           sh == [should EXCEPT ![k] = NoValue]
           dd == db \ {d}
<1>1. /\ \A c \in Buckets : ns[c] = IF c = b THEN nodes[c] \ {z} ELSE nodes[c]
      /\ \A e \in Blocks : ds[e] = IF e = d THEN NoValue ELSE data[e]
      /\ \A j \in MapKeys : sh[j] = IF j = k THEN NoValue ELSE should[j]
      /\ \A e : e \in dd <=> e \in db /\ e # d
  OBVIOUS
<1> HIDE DEF ns, ds, sh, dd
<1>2. \A c \in Buckets : \A x \in nodes[c] : x[1] \in MapKeys /\ x[2] \in Blocks
  BY DEF Nodes
<1>3. \A c \in Buckets : \A x \in ns[c] : x \in nodes[c] /\ ~(c = b /\ x = z)
  <2>1. SUFFICES ASSUME NEW c \in Buckets, NEW x \in ns[c] PROVE x \in nodes[c] /\ ~(c = b /\ x = z)
    OBVIOUS
  <2>2. ns[c] = IF c = b THEN nodes[c] \ {z} ELSE nodes[c]
    BY <1>1
  <2> QED
    BY <2>1, <2>2
<1>4. \A c \in Buckets : \A x \in nodes[c] : ~(c = b /\ x = z) => x \in ns[c]
  <2>1. SUFFICES ASSUME NEW c \in Buckets, NEW x \in nodes[c], ~(c = b /\ x = z) PROVE x \in ns[c]
    OBVIOUS
  <2>2. ns[c] = IF c = b THEN nodes[c] \ {z} ELSE nodes[c]
    BY <1>1
  <2> QED
    BY <2>1, <2>2
<1>5. \A c \in Buckets : \A x \in ns[c] : x[1] # k /\ x[2] # d
  BY <1>3 DEF NodesFit
<1>6. ASSUME NEW c \in Buckets, NEW e \in Buckets, NEW x \in ns[c], NEW y \in ns[e], x[1] = y[1] \/ x[2] = y[2]
      PROVE  c = e /\ x = y
  BY <1>3, <1>6 DEF NodesFit
<1>7. lost \subseteq dd
  <2>1. lost \subseteq db /\ d \notin lost
    BY DEF NodesFit
  <2> QED
    BY <1>1, <2>1
<1>8. ASSUME NEW c \in Buckets, NEW x \in ns[c]
      PROVE  /\ x[2] \in dd /\ x[2] \notin lost
             /\ sh[x[1]] = ds[x[2]] /\ sh[x[1]] # NoValue
             /\ lp \/ c = HomeBucket(x[1])
  <2>1. x \in nodes[c] /\ x[1] # k /\ x[2] # d
    BY <1>3, <1>5
  <2>2. /\ x[2] \in db /\ x[2] \notin lost
        /\ should[x[1]] = data[x[2]] /\ should[x[1]] # NoValue
        /\ lp \/ c = HomeBucket(x[1])
    BY <2>1 DEF NodesFit
  <2>3. sh[x[1]] = should[x[1]] /\ ds[x[2]] = data[x[2]]
    BY <1>1, <1>2, <2>1
  <2> QED
    BY <1>1, <2>1, <2>2, <2>3
<1>9. ASSUME NEW e \in dd
      PROVE  e \in lost \/ \E c \in Buckets : \E x \in ns[c] : x[2] = e
  <2>1. e \in db /\ e # d
    BY <1>1
  <2>2. SUFFICES ASSUME e \notin lost PROVE \E c \in Buckets : \E x \in ns[c] : x[2] = e
    OBVIOUS
  <2>5. PICK c \in Buckets : \E x \in nodes[c] : x[2] = e
    BY <2>1, <2>2 DEF NodesFit
  <2>3. PICK x \in nodes[c] : x[2] = e
    BY <2>5
  <2>4. x \in ns[c]
    BY <1>4, <2>1, <2>3
  <2> QED
    BY <2>3, <2>4
<1>10. ASSUME NEW j \in MapKeys, sh[j] # NoValue
       PROVE  \E c \in Buckets : \E x \in ns[c] : x[1] = j
  <2>1. j # k /\ should[j] # NoValue
    BY <1>1, <1>10
  <2>4. PICK c \in Buckets : \E x \in nodes[c] : x[1] = j
    BY <2>1 DEF NodesFit
  <2>2. PICK x \in nodes[c] : x[1] = j
    BY <2>4
  <2>3. x \in ns[c]
    BY <1>4, <2>1, <2>2
  <2> QED
    BY <2>2, <2>3
<1>11. NodesFit(ns, dd, ds, sh, lost, lp)
  BY <1>6, <1>7, <1>8, <1>9, <1>10 DEF NodesFit
<1> QED
  BY <1>11 DEF ns, ds, sh, dd

\* What makes a step keep the invariant.
LEMMA NextInv ==
  ASSUME HashInv, NEW bs \in [Buckets -> DArrays(Nodes)], NEW db \in SUBSET Blocks,
         NEW data \in [Blocks -> Values], NEW n \in Nat, NEW sh \in [MapKeys -> Values], NEW lost,
         NEW ns, ns = [c \in Buckets |-> ElementsOf(bs[c].elts)],
         \A c \in Buckets : BucketOk(bs[c], hflags.sorted),
         NodesFit(ns, db, data, sh, lost, hflags.linprob),
         IsFiniteSet(db \ lost), Cardinality(db \ lost) <= n,
         hmap' = [buckets |-> bs, db_map |-> db, datablocks |-> data, n_nodes |-> n],
         dict' = sh, leaked' = lost, hflags' = hflags
  PROVE  HashInv'
<1>1. hmap' \in HashMaps /\ hmap'.buckets = bs /\ hmap'.db_map = db /\ hmap'.datablocks = data /\ hmap'.n_nodes = n
  <2>1. [buckets |-> bs, db_map |-> db, datablocks |-> data, n_nodes |-> n] \in HashMaps
    BY DEF HashMaps, Nodes, Values
  <2> QED
    BY <2>1
<1>2. NodesIn(hmap)' = ns
  BY <1>1 DEF NodesIn
<1>3. hflags' \in [linprob : BOOLEAN, sorted : BOOLEAN] /\ dict' \in [MapKeys -> Values]
  BY DEF HashInv
<1>4. \A b \in Buckets : BucketOk(hmap'.buckets[b], hflags'.sorted)
  BY <1>1
<1>5. NodesFit(NodesIn(hmap)', hmap'.db_map, hmap'.datablocks, dict', leaked', hflags'.linprob)
  BY <1>1, <1>2
<1>6. IsFiniteSet(hmap'.db_map \ leaked') /\ Cardinality(hmap'.db_map \ leaked') <= hmap'.n_nodes
  BY <1>1
<1> QED
  BY <1>1, <1>3, <1>4, <1>5, <1>6 DEF HashInv

\* A map whose blocks change keeps its other fields.
LEMMA BlocksChanged ==
  ASSUME NEW A, NEW B, NEW C, NEW D,
         NEW m \in [buckets : A, db_map : B, datablocks : C, n_nodes : D], NEW db, NEW data
  PROVE  [m EXCEPT !.db_map = db, !.datablocks = data]
           = [buckets |-> m.buckets, db_map |-> db, datablocks |-> data, n_nodes |-> m.n_nodes]
<1> DEFINE p == [m EXCEPT !.db_map = db]
           q == [p EXCEPT !.datablocks = data]
<1>1. p \in [buckets : A, db_map : {db}, datablocks : C, n_nodes : D]
      /\ p.buckets = m.buckets /\ p.n_nodes = m.n_nodes
  OBVIOUS
<1>2. q = [m EXCEPT !.db_map = db, !.datablocks = data]
  OBVIOUS
<1>3. q = [buckets |-> p.buckets, db_map |-> p.db_map, datablocks |-> data, n_nodes |-> p.n_nodes]
  <2> HIDE DEF p
  <2> QED
    BY <1>1
<1>4. p.db_map = db
  BY <1>1
<1> HIDE DEF p, q
<1> QED
  BY <1>1, <1>2, <1>3, <1>4

\* A map whose four fields change, at once or in two steps, is those fields.
LEMMA AllChanged ==
  ASSUME NEW A, NEW B, NEW C, NEW D,
         NEW m \in [buckets : A, db_map : B, datablocks : C, n_nodes : D],
         NEW bs, NEW db, NEW data, NEW n
  PROVE  /\ [m EXCEPT !.db_map = db, !.datablocks = data, !.n_nodes = n, !.buckets = bs]
              = [buckets |-> bs, db_map |-> db, datablocks |-> data, n_nodes |-> n]
         /\ [[m EXCEPT !.db_map = db, !.datablocks = data] EXCEPT !.n_nodes = n, !.buckets = bs]
              = [buckets |-> bs, db_map |-> db, datablocks |-> data, n_nodes |-> n]
<1> DEFINE o == [m EXCEPT !.db_map = db]
           p == [o EXCEPT !.datablocks = data]
           q == [p EXCEPT !.n_nodes = n]
           r == [q EXCEPT !.buckets = bs]
<1>1. o \in [buckets : A, db_map : {db}, datablocks : C, n_nodes : D]
  OBVIOUS
<1>2. p \in [buckets : A, db_map : {db}, datablocks : {data}, n_nodes : D]
  <2> HIDE DEF o
  <2> QED
    BY <1>1
<1>3. q \in [buckets : A, db_map : {db}, datablocks : {data}, n_nodes : {n}]
  <2> HIDE DEF p
  <2> QED
    BY <1>2
<1>4. r = [buckets |-> bs, db_map |-> q.db_map, datablocks |-> q.datablocks, n_nodes |-> q.n_nodes]
  <2> HIDE DEF q
  <2> QED
    BY <1>3
<1>5. q.db_map = db /\ q.datablocks = data /\ q.n_nodes = n
  <2> HIDE DEF q
  <2> QED
    BY <1>3
<1>6. /\ [m EXCEPT !.db_map = db, !.datablocks = data, !.n_nodes = n, !.buckets = bs] = r
      /\ [[m EXCEPT !.db_map = db, !.datablocks = data] EXCEPT !.n_nodes = n, !.buckets = bs] = r
  OBVIOUS
<1> HIDE DEF q, r
<1> QED
  BY <1>4, <1>5, <1>6

\* A map whose buckets change keeps its other fields.
LEMMA BucketsChanged ==
  ASSUME NEW A, NEW B, NEW C, NEW D,
         NEW m \in [buckets : A, db_map : B, datablocks : C, n_nodes : D], NEW bs
  PROVE  [m EXCEPT !.buckets = bs]
           = [buckets |-> bs, db_map |-> m.db_map, datablocks |-> m.datablocks, n_nodes |-> m.n_nodes]
  OBVIOUS

\* What the invariant gives, field by field.
LEMMA InvFields ==
  ASSUME HashInv
  PROVE  /\ hmap \in HashMaps /\ hmap.buckets \in [Buckets -> DArrays(Nodes)] /\ hmap.db_map \in SUBSET Blocks
         /\ hmap.datablocks \in [Blocks -> Values] /\ hmap.n_nodes \in Nat
         /\ NodesIn(hmap) \in [Buckets -> SUBSET Nodes]
         /\ NodesIn(hmap) = [c \in Buckets |-> ElementsOf(hmap.buckets[c].elts)]
         /\ \A c \in Buckets : BucketOk(hmap.buckets[c], hflags.sorted)
         /\ hflags.sorted \in BOOLEAN /\ hflags.linprob \in BOOLEAN
         /\ dict \in [MapKeys -> Values]
<1>1. /\ hmap \in HashMaps /\ hmap.buckets \in [Buckets -> DArrays(Nodes)] /\ hmap.db_map \in SUBSET Blocks
      /\ hmap.datablocks \in [Blocks -> Values] /\ hmap.n_nodes \in Nat
  BY MapFields DEF HashInv
<1>2. \A c \in Buckets : ElementsOf(hmap.buckets[c].elts) \in SUBSET Nodes
  <2>1. SUFFICES ASSUME NEW c \in Buckets PROVE ElementsOf(hmap.buckets[c].elts) \in SUBSET Nodes
    OBVIOUS
  <2>2. hmap.buckets[c].elts \in Seq(Nodes)
    BY <1>1, ArrayFields
  <2> QED
    BY <2>2 DEF ElementsOf
<1>3. NodesIn(hmap) \in [Buckets -> SUBSET Nodes] /\ NodesIn(hmap) = [c \in Buckets |-> ElementsOf(hmap.buckets[c].elts)]
  BY <1>2 DEF NodesIn
<1> QED
  BY <1>1, <1>3 DEF HashInv

\* Adding: a duplicate costs a block, a new key gets a node.
LEMMA AddKeepsMap ==
  ASSUME HashInv, NEW p \in MapPairs, HashAdd(p[1], p[2])
  PROVE  HashInv'
<1> DEFINE k == p[1]
           v == p[2]
           b == RoomFor(hmap, k)
           srt == hflags.sorted
           a == hmap.buckets[b]
           old == hmap
           nodes == NodesIn(hmap)
<1>1. k \in MapKeys /\ v \in Values /\ v # NoValue
  BY MapKeysAssumption DEF Values
<1>2. b # -1 /\ (dict[k] = NoValue \/ Holds(hmap, b, k)) /\ UNCHANGED hflags
  BY DEF HashAdd
<1>3. b \in Buckets /\ ~DaIsFull(a) /\ (hflags.linprob \/ b = HomeBucket(k))
  BY <1>1, <1>2, RoomFound
<1>4. PICK d \in DbAlloc(hmap) :
        IF Holds(hmap, b, k)
        THEN /\ hmap' = [hmap EXCEPT !.db_map = @ \cup {d}, !.datablocks[d] = v]
             /\ leaked' = leaked \cup {d}
             /\ UNCHANGED <<dict, hflags>>
        ELSE /\ hmap' = [hmap EXCEPT
                  !.db_map = @ \cup {d}, !.datablocks[d] = v, !.n_nodes = @ + 1,
                  !.buckets[b] = DaInsert(@, <<k, d>>, DaSize(@))]
             /\ dict' = [dict EXCEPT ![k] = v]
             /\ UNCHANGED <<leaked, hflags>>
  BY Zenon DEF HashAdd
<1>5. d \in Blocks \ hmap.db_map
  BY DEF DbAlloc
<1>6. NodesFit(nodes, hmap.db_map, hmap.datablocks, dict, leaked, hflags.linprob)
  BY DEF HashInv
<1>7. IsFiniteSet(hmap.db_map \ leaked) /\ Cardinality(hmap.db_map \ leaked) <= hmap.n_nodes
  BY DEF HashInv
<1> DEFINE db == hmap.db_map \cup {d}
           data == [hmap.datablocks EXCEPT ![d] = v]
<1>8. db \in SUBSET Blocks /\ data \in [Blocks -> Values]
  BY <1>1, <1>5, InvFields
<1>9. CASE Holds(hmap, b, k)
  <2> DEFINE lost == leaked \cup {d}
  <2>1. NodesFit(nodes, db, data, dict, lost, hflags.linprob)
    <3>1. nodes \in [Buckets -> SUBSET Nodes] /\ hmap.db_map \in SUBSET Blocks /\ hmap.datablocks \in [Blocks -> Values]
      BY InvFields
    <3> HIDE DEF nodes, v
    <3> QED
      BY <1>5, <1>6, <3>1, FitsLost
  <2>2. hmap' = [buckets |-> hmap.buckets, db_map |-> db, datablocks |-> data, n_nodes |-> hmap.n_nodes]
    <3>1. hmap' = [hmap EXCEPT !.db_map = db, !.datablocks = data]
      BY <1>4, <1>9
    <3>2. hmap \in HashMaps
      BY InvFields
    <3> HIDE DEF db, data
    <3> QED
      BY <3>1, <3>2, BlocksChanged DEF HashMaps
  <2>3. db \ lost = hmap.db_map \ leaked
    BY <1>5
  <2>4. IsFiniteSet(db \ lost) /\ Cardinality(db \ lost) <= hmap.n_nodes
    <3> HIDE DEF db, lost
    <3> QED
      BY <1>7, <2>3
  <2>5. dict' = dict /\ leaked' = lost /\ hflags' = hflags
    BY <1>4, <1>9
  <2> HIDE DEF db, data, lost, nodes
  <2>6. nodes = [c \in Buckets |-> ElementsOf(hmap.buckets[c].elts)]
    BY InvFields DEF nodes
  <2> QED
    BY <1>8, <2>1, <2>2, <2>4, <2>5, <2>6, InvFields, NextInv
<1>10. CASE ~Holds(hmap, b, k)
  <2> DEFINE e == <<k, d>>
             c == DaInsert(a, e, DaSize(a))
             bs == [hmap.buckets EXCEPT ![b] = c]
             sh == [dict EXCEPT ![k] = v]
             ns == [nodes EXCEPT ![b] = nodes[b] \cup {e}]
             n == hmap.n_nodes + 1
  <2>1. dict[k] = NoValue
    BY <1>2, <1>10
  <2>2. NodesFit(ns, db, data, sh, leaked, hflags.linprob)
    <3>1. nodes \in [Buckets -> SUBSET Nodes] /\ hmap.db_map \in SUBSET Blocks
          /\ hmap.datablocks \in [Blocks -> Values] /\ dict \in [MapKeys -> Values]
      BY InvFields
    <3> HIDE DEF nodes, v, k, b
    <3> QED
      BY <1>1, <1>3, <1>5, <1>6, <2>1, <3>1, FitsAdded
  <2>3. BucketOk(c, srt) /\ ElementsOf(c.elts) = nodes[b] \cup {e}
    <3>1. BucketOk(a, srt) /\ srt \in BOOLEAN /\ nodes[b] = ElementsOf(a.elts)
      BY <1>3, InvFields
    <3>2. e \in Nodes
      BY <1>1, <1>5 DEF Nodes
    <3>3. \A x \in nodes[b] : x[1] # k /\ x[2] # d
      BY <1>3, <1>5, <1>6, <2>1 DEF NodesFit
    <3>4. e[1] = k /\ e[2] = d
      OBVIOUS
    <3>6. c = DaInsert(a, e, DaSize(a))
      OBVIOUS
    <3> HIDE DEF a, e, nodes, b, srt, c
    <3>5. \A x \in ElementsOf(a.elts) : x[1] # e[1] /\ x[2] # e[2]
      BY <3>1, <3>3, <3>4
    <3>7. /\ BucketOk(DaInsert(a, e, DaSize(a)), srt)
          /\ ElementsOf(DaInsert(a, e, DaSize(a)).elts) = ElementsOf(a.elts) \cup {e}
      BY <1>3, <3>1, <3>2, <3>5, BucketInserted
    <3> QED
      BY <3>1, <3>6, <3>7
  <2>4. /\ bs \in [Buckets -> DArrays(Nodes)]
        /\ \A x \in Buckets : BucketOk(bs[x], srt)
        /\ ns = [x \in Buckets |-> ElementsOf(bs[x].elts)]
    <3> HIDE DEF c, b, e
    <3> QED
      BY <1>3, <2>3, OneBucket
  <2>5. hmap' = [buckets |-> bs, db_map |-> db, datablocks |-> data, n_nodes |-> n]
    <3>1. hmap' = [hmap EXCEPT !.db_map = db, !.datablocks = data, !.n_nodes = n, !.buckets = bs]
      BY <1>4, <1>10
    <3>2. hmap \in HashMaps
      BY InvFields
    <3> HIDE DEF db, data, n, bs
    <3> QED
      BY <3>1, <3>2, AllChanged DEF HashMaps
  <2>6. n \in Nat /\ hmap.n_nodes \in Nat
    BY InvFields
  <2>7. IsFiniteSet(db \ leaked) /\ Cardinality(db \ leaked) <= n
    <3> DEFINE S == hmap.db_map \ leaked
    <3>1. db \ leaked = S \cup {d} \/ db \ leaked = S
      OBVIOUS
    <3>2. IsFiniteSet(S) /\ Cardinality(S) <= hmap.n_nodes /\ Cardinality(S) \in Nat
      BY <1>7, FS_CardinalityType
    <3> HIDE DEF S, db
    <3>3. IsFiniteSet(S \cup {d}) /\ Cardinality(S \cup {d}) <= Cardinality(S) + 1
      <4>1. IsFiniteSet(S \cup {d})
            /\ Cardinality(S \cup {d}) = IF d \in S THEN Cardinality(S) ELSE Cardinality(S) + 1
        BY <3>2, FS_AddElement
      <4>2. Cardinality(S \cup {d}) = Cardinality(S) \/ Cardinality(S \cup {d}) = Cardinality(S) + 1
        BY <4>1
      <4> QED
        BY <3>2, <4>1, <4>2
    <3>4. Cardinality(S \cup {d}) \in Nat
      BY <3>3, FS_CardinalityType
    <3>5. n = hmap.n_nodes + 1
      OBVIOUS
    <3> HIDE DEF n
    <3>6. Cardinality(S) <= n /\ Cardinality(S \cup {d}) <= n
      BY <2>6, <3>2, <3>3, <3>4, <3>5
    <3> QED
      BY <3>1, <3>2, <3>3, <3>6
  <2>8. dict' = sh /\ leaked' = leaked /\ hflags' = hflags
    BY <1>4, <1>10
  <2>9. sh \in [MapKeys -> Values]
    BY <1>1, InvFields
  <2> HIDE DEF db, data, bs, sh, ns, n, nodes
  <2> QED
    BY <1>8, <2>2, <2>4, <2>5, <2>6, <2>7, <2>8, <2>9, NextInv
<1> QED
  BY <1>9, <1>10

\* Removing: the node leaves its bucket and its block is free.
LEMMA RemoveKeepsMap ==
  ASSUME HashInv, MarksAreTrue, NEW k \in MapKeys, HashRemove(k)
  PROVE  HashInv'
<1> DEFINE b == FindBucket(hmap, k)
           a == hmap.buckets[b]
           q == DaQuery(a, <<k, 0>>)
           z == a.elts[q + 1]
           d == z[2]
           srt == hflags.sorted
           nodes == NodesIn(hmap)
           c == DaRemove(a, q, TRUE)
           bs == [hmap.buckets EXCEPT ![b] = c]
           db == hmap.db_map \ {d}
           data == [hmap.datablocks EXCEPT ![d] = NoValue]
           sh == [dict EXCEPT ![k] = NoValue]
           ns == [nodes EXCEPT ![b] = nodes[b] \ {z}]
           n == hmap.n_nodes - 1
<1>1. b # -1 /\ dict' = sh /\ leaked' = leaked /\ hflags' = hflags
  BY Zenon DEF HashRemove
<1>2. b \in Buckets /\ q \in 0 .. DaSize(a) - 1 /\ z \in nodes[b] /\ z[1] = k
  BY <1>1, BucketFound
<1>3. hmap' = [[hmap EXCEPT !.db_map = db, !.datablocks = data] EXCEPT !.n_nodes = n, !.buckets = bs]
  <2>1. hmap' = [DbDealloc(hmap, DaGet(a, q)[2]) EXCEPT !.n_nodes = @ - 1, !.buckets[b] = DaRemove(@, q, TRUE)]
    BY Zenon DEF HashRemove
  <2>2. DaGet(a, q)[2] = d
    BY Zenon DEF DaGet
  <2>3. DbDealloc(hmap, d) = [hmap EXCEPT !.db_map = db, !.datablocks = data]
    BY DEF DbDealloc
  <2> DEFINE m == [hmap EXCEPT !.db_map = db, !.datablocks = data]
  <2>4. m.n_nodes = hmap.n_nodes /\ m.buckets = hmap.buckets
    BY InvFields DEF HashMaps
  <2>5. hmap' = [m EXCEPT !.n_nodes = @ - 1, !.buckets[b] = DaRemove(@, q, TRUE)]
    BY <2>1, <2>2, <2>3
  <2> HIDE DEF m
  <2>6. hmap' = [m EXCEPT !.n_nodes = m.n_nodes - 1, !.buckets = [m.buckets EXCEPT ![b] = DaRemove(m.buckets[b], q, TRUE)]]
    BY <2>5
  <2>7. hmap' = [m EXCEPT !.n_nodes = n, !.buckets = bs]
    BY <2>4, <2>6
  <2> QED
    BY <2>7 DEF m
<1>4. NodesFit(nodes, hmap.db_map, hmap.datablocks, dict, leaked, hflags.linprob)
  BY DEF HashInv
<1>5. z \in Nodes /\ d \in Blocks
  <2>1. nodes[b] \in SUBSET Nodes
    BY <1>2, InvFields
  <2>2. z \in Nodes
    <3> HIDE DEF z, nodes, b
    <3> QED
      BY <1>2, <2>1
  <2> HIDE DEF z
  <2> QED
    BY <2>2 DEF Nodes
<1>6. d \in hmap.db_map /\ d \notin leaked
  <2> HIDE DEF z, nodes, b
  <2> QED
    BY <1>2, <1>4 DEF NodesFit
<1>7. NodesFit(ns, db, data, sh, leaked, hflags.linprob)
  <2>1. nodes \in [Buckets -> SUBSET Nodes] /\ hmap.db_map \in SUBSET Blocks
        /\ hmap.datablocks \in [Blocks -> Values] /\ dict \in [MapKeys -> Values]
    BY InvFields
  <2>2. d = z[2] /\ z[1] = k
    BY <1>2
  <2> HIDE DEF nodes, b, z, d
  <2> QED
    BY <1>2, <1>4, <2>1, <2>2, FitsRemoved
<1>8. BucketOk(c, srt) /\ ElementsOf(c.elts) = nodes[b] \ {z}
  <2>1. BucketOk(a, srt) /\ srt \in BOOLEAN /\ nodes[b] = ElementsOf(a.elts)
    BY <1>2, InvFields
  <2>2. z = a.elts[q + 1] /\ c = DaRemove(a, q, TRUE)
    OBVIOUS
  <2> HIDE DEF a, nodes, b, srt, q, c, z
  <2> QED
    <3>1. q \in 0 .. DaSize(a) - 1
      BY <1>2
    <3>2. /\ BucketOk(DaRemove(a, q, TRUE), srt)
          /\ ElementsOf(DaRemove(a, q, TRUE).elts) = ElementsOf(a.elts) \ {a.elts[q + 1]}
      BY <2>1, <3>1, BucketRemoved
    <3> QED
      BY <2>1, <2>2, <3>2
<1>9. /\ bs \in [Buckets -> DArrays(Nodes)]
      /\ \A x \in Buckets : BucketOk(bs[x], srt)
      /\ ns = [x \in Buckets |-> ElementsOf(bs[x].elts)]
  <2> HIDE DEF c, b, z
  <2> QED
    BY <1>2, <1>8, OneBucket
<1>10. IsFiniteSet(db \ leaked) /\ Cardinality(db \ leaked) <= n /\ n \in Nat
  <2> DEFINE S == hmap.db_map \ leaked
  <2>1. db \ leaked = S \ {d} /\ d \in S
    BY <1>6
  <2>2. IsFiniteSet(S) /\ Cardinality(S) <= hmap.n_nodes /\ hmap.n_nodes \in Nat
    BY InvFields DEF HashInv
  <2> HIDE DEF S, db, d
  <2>3. Cardinality(S) \in Nat /\ IsFiniteSet(S \ {d}) /\ Cardinality(S \ {d}) = Cardinality(S) - 1
    BY <2>1, <2>2, FS_RemoveElement, FS_CardinalityType
  <2>4. Cardinality(S \ {d}) \in Nat
    BY <2>3, FS_CardinalityType
  <2> QED
    BY <2>1, <2>2, <2>3, <2>4
<1>11. db \in SUBSET Blocks /\ data \in [Blocks -> Values] /\ sh \in [MapKeys -> Values]
  <2>1. NoValue \in Values
    BY DEF Values
  <2> HIDE DEF d
  <2> QED
    BY <2>1, InvFields
<1>12. hmap' = [buckets |-> bs, db_map |-> db, datablocks |-> data, n_nodes |-> n]
  <2>1. hmap \in HashMaps
    BY InvFields
  <2> HIDE DEF bs, db, data, n
  <2> QED
    BY <1>3, <2>1, AllChanged DEF HashMaps
<1> HIDE DEF bs, db, data, n, ns, sh
<1> QED
  BY <1>1, <1>7, <1>9, <1>10, <1>11, <1>12, NextInv

\* Clearing: no nodes, and every block in use is lost.
LEMMA ClearKeepsMap ==
  ASSUME HashInv, HashClear
  PROVE  HashInv'
<1> DEFINE bs == [b \in Buckets |-> DaClear(hmap.buckets[b])]
           sh == [k \in MapKeys |-> NoValue]
           db == hmap.db_map
           data == hmap.datablocks
           n == hmap.n_nodes
           ns == [b \in Buckets |-> {}]
<1>1. hmap' = [hmap EXCEPT !.buckets = bs] /\ dict' = sh /\ leaked' = db /\ hflags' = hflags
  BY DEF HashClear
<1>2. \A b \in Buckets : /\ BucketOk(bs[b], hflags.sorted) /\ bs[b] \in DArrays(Nodes)
                         /\ ElementsOf(bs[b].elts) = {}
  <2>1. SUFFICES ASSUME NEW b \in Buckets
                 PROVE  /\ BucketOk(bs[b], hflags.sorted) /\ bs[b] \in DArrays(Nodes)
                        /\ ElementsOf(bs[b].elts) = {}
    OBVIOUS
  <2> DEFINE a == hmap.buckets[b]
             srt == hflags.sorted
  <2>2. BucketOk(a, srt) /\ srt \in BOOLEAN /\ bs[b] = DaClear(a)
    BY InvFields
  <2> HIDE DEF a, bs
  <2>3. BucketOk(DaClear(a), srt) /\ ElementsOf(DaClear(a).elts) = {}
    BY <2>2, BucketCleared
  <2> QED
    BY <2>2, <2>3 DEF BucketOk
<1>3. bs \in [Buckets -> DArrays(Nodes)] /\ ns = [b \in Buckets |-> ElementsOf(bs[b].elts)]
  BY <1>2
<1>4. NodesFit(ns, db, data, sh, db, hflags.linprob)
  <2>1. \A b \in Buckets : ns[b] = {}
    OBVIOUS
  <2>2. \A k \in MapKeys : sh[k] = NoValue
    OBVIOUS
  <2> HIDE DEF ns, sh, db, data
  <2> QED
    BY <2>1, <2>2 DEF NodesFit
<1>5. IsFiniteSet(db \ db) /\ Cardinality(db \ db) <= n
  <2>1. db \ db = {} /\ n \in Nat
    BY InvFields
  <2> QED
    BY <2>1, FS_EmptySet
<1>6. hmap' = [buckets |-> bs, db_map |-> db, datablocks |-> data, n_nodes |-> n]
  <2>1. hmap \in HashMaps
    BY InvFields
  <2> HIDE DEF bs
  <2> QED
    BY <1>1, <2>1, BucketsChanged DEF HashMaps
<1>7. db \in SUBSET Blocks /\ data \in [Blocks -> Values] /\ sh \in [MapKeys -> Values] /\ n \in Nat
  <2>1. NoValue \in Values
    BY DEF Values
  <2> QED
    BY <2>1, InvFields
<1> HIDE DEF bs, sh, db, data, n, ns
<1> QED
  BY <1>1, <1>2, <1>3, <1>4, <1>5, <1>6, <1>7, NextInv

\* Sorting: the same nodes in every bucket.
LEMMA SortKeepsMap ==
  ASSUME HashInv, HashSort
  PROVE  HashInv'
<1> DEFINE bs == [b \in Buckets |-> DaSort(hmap.buckets[b])]
           db == hmap.db_map
           data == hmap.datablocks
           n == hmap.n_nodes
           ns == NodesIn(hmap)
<1>1. hmap' = [hmap EXCEPT !.buckets = bs] /\ dict' = dict /\ leaked' = leaked /\ hflags' = hflags
  BY DEF HashSort
<1>2. \A b \in Buckets : /\ BucketOk(bs[b], hflags.sorted) /\ bs[b] \in DArrays(Nodes)
                         /\ ElementsOf(bs[b].elts) = ns[b]
  <2>1. SUFFICES ASSUME NEW b \in Buckets
                 PROVE  /\ BucketOk(bs[b], hflags.sorted) /\ bs[b] \in DArrays(Nodes)
                        /\ ElementsOf(bs[b].elts) = ns[b]
    OBVIOUS
  <2> DEFINE a == hmap.buckets[b]
             srt == hflags.sorted
  <2>2. BucketOk(a, srt) /\ srt \in BOOLEAN /\ bs[b] = DaSort(a) /\ ns[b] = ElementsOf(a.elts)
    BY <1>1, InvFields
  <2> HIDE DEF a, bs, ns, srt
  <2>3. BucketOk(DaSort(a), srt) /\ ElementsOf(DaSort(a).elts) = ElementsOf(a.elts)
    BY <2>2, BucketSorted
  <2> QED
    BY <2>2, <2>3 DEF BucketOk, srt
<1>3. bs \in [Buckets -> DArrays(Nodes)] /\ ns = [b \in Buckets |-> ElementsOf(bs[b].elts)]
  <2>1. ns = [b \in Buckets |-> ns[b]]
    BY InvFields
  <2>2. bs \in [Buckets -> DArrays(Nodes)]
    BY <1>2
  <2> HIDE DEF bs, ns
  <2>3. [b \in Buckets |-> ns[b]] = [b \in Buckets |-> ElementsOf(bs[b].elts)]
    BY <1>2
  <2> QED
    BY <2>1, <2>2, <2>3
<1>4. NodesFit(ns, db, data, dict, leaked, hflags.linprob)
  BY DEF HashInv
<1>5. IsFiniteSet(db \ leaked) /\ Cardinality(db \ leaked) <= n
  BY DEF HashInv
<1>6. hmap' = [buckets |-> bs, db_map |-> db, datablocks |-> data, n_nodes |-> n]
  <2>1. hmap \in HashMaps
    BY InvFields
  <2> HIDE DEF bs
  <2> QED
    BY <1>1, <2>1, BucketsChanged DEF HashMaps
<1>7. db \in SUBSET Blocks /\ data \in [Blocks -> Values] /\ dict \in [MapKeys -> Values] /\ n \in Nat
  BY InvFields
<1> HIDE DEF bs, db, data, n, ns
<1> QED
  BY <1>1, <1>2, <1>3, <1>4, <1>5, <1>6, <1>7, NextInv

\* The nodes, the blocks, and what was added and not removed agree in every
\* state of the map, with linear probing or without, with RCSW_DS_SORTED or
\* without, and after hashmap_sort too, up to the first bucket that is marked
\* sorted and is not.
THEOREM MapInvariant == HashSpec => []HashInv
<1>1. HashInit => HashInv
  <2>1. SUFFICES ASSUME HashInit PROVE HashInv
    OBVIOUS
  <2> DEFINE new == DaNew(BSize, BSize, IF hflags.sorted THEN "sorted" ELSE "none", TRUE)
             bs == [b \in Buckets |-> new]
             data == [d \in Blocks |-> NoValue]
  <2>2. /\ hmap = [buckets |-> bs, db_map |-> {}, datablocks |-> data, n_nodes |-> 0]
        /\ hflags \in [linprob : BOOLEAN, sorted : BOOLEAN]
        /\ dict = [k \in MapKeys |-> NoValue] /\ leaked = {}
    BY <2>1 DEF HashInit
  <2>3. BucketOk(new, hflags.sorted) /\ new \in DArrays(Nodes) /\ ElementsOf(new.elts) = {}
    <3>1. /\ new.elts = <<>> /\ new.capacity = BSize /\ new.alloc = BSize /\ new.max_elts = BSize
          /\ new.sorted = FALSE /\ new.noalloc = TRUE
          /\ new.order = IF hflags.sorted THEN "sorted" ELSE "none"
      BY DEF DaNew
    <3>2. new \in DArrays(Nodes)
      BY NodesKeyed DEF DaNew, DArrays
    <3>3. <<>> \in Seq(Nodes) /\ Len(<<>>) = 0
      OBVIOUS
    <3>4. Apart(<<>>) /\ ElementsOf(<<>>) = {}
      BY <3>3 DEF Apart, ElementsOf
    <3> HIDE DEF new
    <3> QED
      BY <3>1, <3>2, <3>3, <3>4, NodesKeyed DEF BucketOk
  <2> HIDE DEF new
  <2>4. NoValue \in Values
    BY DEF Values
  <2>5. bs \in [Buckets -> DArrays(Nodes)] /\ {} \in SUBSET Blocks /\ data \in [Blocks -> Values]
    BY <2>3, <2>4
  <2>6. \A b \in Buckets : bs[b] = new
    OBVIOUS
  <2> HIDE DEF bs, data
  <2>7. /\ hmap \in HashMaps /\ hmap.buckets = bs /\ hmap.db_map = {} /\ hmap.n_nodes = 0
    BY <2>2, <2>5, MapOf
  <2>8. \A b \in Buckets : NodesIn(hmap)[b] = {} /\ BucketOk(hmap.buckets[b], hflags.sorted)
    BY <2>3, <2>6, <2>7 DEF NodesIn
  <2>9. NodesFit(NodesIn(hmap), hmap.db_map, hmap.datablocks, dict, leaked, hflags.linprob)
    <3>1. \A k \in MapKeys : dict[k] = NoValue
      BY <2>2
    <3> QED
      BY <2>2, <2>7, <2>8, <3>1 DEF NodesFit
  <2>10. IsFiniteSet(hmap.db_map \ leaked) /\ Cardinality(hmap.db_map \ leaked) <= hmap.n_nodes
    <3>1. hmap.db_map \ leaked = {}
      BY <2>2, <2>7
    <3> QED
      BY <2>7, <3>1, FS_EmptySet
  <2>11. dict \in [MapKeys -> Values]
    BY <2>2, <2>4
  <2> QED
    BY <2>2, <2>7, <2>8, <2>9, <2>10, <2>11 DEF HashInv
<1>2. HashInv /\ [HashNext]_hashVars => HashInv'
  <2>1. SUFFICES ASSUME HashInv, [HashNext]_hashVars PROVE HashInv'
    OBVIOUS
  <2> DEFINE step == \/ \E p \in MapPairs : HashAdd(p[1], p[2])
                     \/ \E k \in MapKeys : HashRemove(k)
                     \/ HashClear \/ HashSort
  <2>2. CASE UNCHANGED hashVars
    BY <2>1, <2>2 DEF hashVars, HashInv, NodesIn
  <2>3. ASSUME NEW p \in MapPairs, HashAdd(p[1], p[2]) PROVE HashInv'
    BY <2>1, <2>3, AddKeepsMap
  <2>4. ASSUME MarksAreTrue, NEW k \in MapKeys, HashRemove(k) PROVE HashInv'
    BY <2>1, <2>4, RemoveKeepsMap
  <2>5. CASE HashClear
    BY <2>1, <2>5, ClearKeepsMap
  <2>6. CASE HashSort
    BY <2>1, <2>6, SortKeepsMap
  <2>7. UNCHANGED hashVars \/ (MarksAreTrue /\ step)
    BY <2>1, Zenon DEF HashNext
  <2> QED
    BY <2>2, <2>3, <2>4, <2>5, <2>6, <2>7
<1> QED
  BY <1>1, <1>2, PTL DEF HashSpec

\* The buckets of a map with RCSW_DS_SORTED are always truly sorted.  While the
\* buckets marked sorted are, every key gives the value it was last added with,
\* and a removed one none, although buckets are sorted, fill up and spill into
\* others; a key is in one bucket only, and a block is in use by one node, or
\* leaked (hashmap_add, hashmap_data_get, hashmap_remove, hashmap_linear_probe).
THEOREM DictionaryKept == HashSpec => []MapIsDictionary
<1>1. HashInv => MapIsDictionary
  BY InvGivesDictionary
<1> QED
  BY <1>1, MapInvariant, PTL

-----------------------------------------------------------------------------
\* What holds of the first of numbered values, and of each that follows one it
\* holds of, holds of all of them.
LEMMA StaysIn ==
  ASSUME NEW N \in Nat, NEW I, NEW f, f[0] \in I[0],
         \A n \in 1 .. N : f[n - 1] \in I[n - 1] => f[n] \in I[n]
  PROVE  \A n \in 0 .. N : f[n] \in I[n]
<1> DEFINE T == {n \in 0 .. N : f[n] \notin I[n]}
<1>1. SUFFICES ASSUME T # {} PROVE FALSE
  OBVIOUS
<1>2. T \in SUBSET Nat
  OBVIOUS
<1>3. PICK m \in T : \A n \in T : m <= n
  <2> HIDE DEF T
  <2> QED
    BY <1>1, <1>2, LeastNumber
<1>4. m \in 1 .. N /\ m - 1 \in 0 .. N /\ ~(m <= m - 1)
  OBVIOUS
<1>5. f[m - 1] \in I[m - 1]
  BY <1>3, <1>4
<1> QED
  BY <1>4, <1>5

RunsIn(f, N, I, init, step) ==
  /\ f = [n \in 0 .. N |-> IF n = 0 THEN init ELSE step[f[n - 1]]]
  /\ \A n \in 0 .. N : f[n] \in I[n]

\* A loop that does a step on the result of the one before: there is a function
\* from the number of steps done to what is reached.
LEMMA RunExists ==
  ASSUME NEW N \in Nat, NEW I, NEW init \in I[0], NEW step,
         \A n \in 1 .. N : \A x \in I[n - 1] : step[x] \in I[n]
  PROVE  \E f : RunsIn(f, N, I, init, step)
<1> DEFINE Goes(f, m) == f = [n \in 0 .. m |-> IF n = 0 THEN init ELSE step[f[n - 1]]]
           Has(m) == \E f : Goes(f, m)
           T == {m \in 0 .. N : ~Has(m)}
<1>1. T = {}
  <2>1. SUFFICES ASSUME T # {} PROVE FALSE
    OBVIOUS
  <2>2. T \in SUBSET Nat
    <3> HIDE DEF Has
    <3> QED
      OBVIOUS
  <2>3. PICK m \in T : \A n \in T : m <= n
    <3> HIDE DEF T
    <3> QED
      BY <2>1, <2>2, LeastNumber
  <2>4. m \in 0 .. N /\ ~Has(m)
    <3> HIDE DEF Has
    <3> QED
      OBVIOUS
  <2>5. m # 0
    <3> DEFINE f == [n \in 0 .. 0 |-> init]
    <3>1. \A n \in 0 .. 0 : n = 0
      OBVIOUS
    <3>2. f = [n \in 0 .. 0 |-> IF n = 0 THEN init ELSE step[f[n - 1]]]
      BY <3>1
    <3> HIDE DEF f
    <3>3. Has(0)
      BY <3>2
    <3> HIDE DEF Has
    <3> QED
      BY <2>4, <3>3
  <2>6. m - 1 \in 0 .. N /\ ~(m <= m - 1)
    BY <2>4, <2>5
  <2>7. Has(m - 1)
    <3> HIDE DEF Has
    <3> QED
      BY <2>3, <2>6
  <2>8. PICK f : Goes(f, m - 1)
    BY <2>7
  <2> DEFINE g == [n \in 0 .. m |-> IF n = 0 THEN init ELSE step[f[n - 1]]]
  <2>9. \A n \in 0 .. m - 1 : g[n] = f[n]
    <3>1. \A n \in 0 .. m - 1 : f[n] = IF n = 0 THEN init ELSE step[f[n - 1]]
      BY <2>8
    <3>2. \A n \in 0 .. m - 1 : n \in 0 .. m
      BY <2>4
    <3> QED
      BY <3>1, <3>2
  <2>10. \A n \in 0 .. m : n # 0 => n - 1 \in 0 .. m - 1
    BY <2>4
  <2>11. \A n \in 0 .. m : g[n] = IF n = 0 THEN init ELSE step[g[n - 1]]
    <3> DEFINE h == [n \in 0 .. m |-> IF n = 0 THEN init ELSE step[f[n - 1]]]
    <3>1. \A n \in 0 .. m : g[n] = IF n = 0 THEN init ELSE step[f[n - 1]]
      OBVIOUS
    <3> HIDE DEF g
    <3> QED
      BY <2>9, <2>10, <3>1
  <2>12. g = [n \in 0 .. m |-> g[n]]
    OBVIOUS
  <2> HIDE DEF g
  <2>13. g = [n \in 0 .. m |-> IF n = 0 THEN init ELSE step[g[n - 1]]]
    BY <2>11, <2>12
  <2> QED
    BY <2>4, <2>13
<1>2. N \in 0 .. N
  OBVIOUS
<1>3. Has(N)
  <2> HIDE DEF Has
  <2> QED
    BY <1>1, <1>2
<1>4. PICK f : Goes(f, N)
  BY <1>3
<1>5. f[0] = init /\ \A n \in 1 .. N : f[n] = step[f[n - 1]]
  <2>1. \A n \in 0 .. N : f[n] = IF n = 0 THEN init ELSE step[f[n - 1]]
    BY <1>4
  <2>2. 0 \in 0 .. N /\ \A n \in 1 .. N : n \in 0 .. N /\ n # 0
    OBVIOUS
  <2> QED
    BY <2>1, <2>2
<1>6. \A n \in 1 .. N : f[n - 1] \in I[n - 1] => f[n] \in I[n]
  BY <1>5
<1>7. \A n \in 0 .. N : f[n] \in I[n]
  BY <1>5, <1>6, StaysIn
<1> QED
  BY <1>4, <1>7 DEF RunsIn

-----------------------------------------------------------------------------
\* The places of the elements with a key.
PlacesOf(s, k) == {i \in 1 .. Len(s) : s[i][1] = k}

\* Places are finitely many.
LEMMA CountIsNumber ==
  ASSUME NEW E, NEW s \in Seq(E), NEW k
  PROVE  /\ KeyCount(s, k) = Cardinality(PlacesOf(s, k)) /\ KeyCount(s, k) \in Nat
         /\ IsFiniteSet(PlacesOf(s, k))
         /\ KeyCount(s, k) = 0 <=> \A i \in 1 .. Len(s) : s[i][1] # k
<1>1. IsFiniteSet(1 .. Len(s))
  BY FS_Interval
<1>2. PlacesOf(s, k) \in SUBSET (1 .. Len(s))
  BY DEF PlacesOf
<1>3. IsFiniteSet(PlacesOf(s, k))
  BY <1>1, <1>2, FS_Subset
<1>4. KeyCount(s, k) = Cardinality(PlacesOf(s, k))
  BY Zenon DEF KeyCount, PlacesOf
<1>5. PlacesOf(s, k) = {} <=> \A i \in 1 .. Len(s) : s[i][1] # k
  BY DEF PlacesOf
<1> QED
  BY <1>3, <1>4, <1>5, FS_CardinalityType, FS_EmptySet

\* Two sets whose elements correspond have the same number of them.
LEMMA SameNumber ==
  ASSUME NEW S, IsFiniteSet(S), NEW T, NEW p \in [S -> T],
         \A x, y \in S : p[x] = p[y] => x = y, \A y \in T : \E x \in S : p[x] = y
  PROVE  IsFiniteSet(T) /\ Cardinality(T) = Cardinality(S)
<1>1. p \in Injection(S, T)
  BY Fun_IsInj
<1>2. p \in Surjection(S, T)
  BY DEF Surjection
<1> QED
  BY <1>1, <1>2, FS_Surjection

\* t has the elements of s and one more, e.
Gains(s, t, e) ==
  /\ Len(t) = Len(s) + 1
  /\ \E p \in [1 .. Len(s) -> 1 .. Len(t)] : \E j \in 1 .. Len(t) :
       /\ \A x, y \in 1 .. Len(s) : p[x] = p[y] => x = y
       /\ \A x \in 1 .. Len(s) : p[x] # j
       /\ \A y \in 1 .. Len(t) : y # j => \E x \in 1 .. Len(s) : p[x] = y
       /\ \A x \in 1 .. Len(s) : t[p[x]] = s[x]
       /\ t[j] = e

\* Then it has one more with the key of e.
LEMMA GainsCount ==
  ASSUME NEW E, NEW s \in Seq(E), NEW t \in Seq(E), NEW e, Gains(s, t, e), NEW k
  PROVE  /\ KeyCount(s, k) \in Nat /\ KeyCount(t, k) \in Nat
         /\ KeyCount(t, k) = IF e[1] = k THEN KeyCount(s, k) + 1 ELSE KeyCount(s, k)
<1> DEFINE n == Len(s)
           S == PlacesOf(s, k)
           T == PlacesOf(t, k)
<1>1. Len(t) = n + 1
  BY DEF Gains
<1>2. PICK p \in [1 .. n -> 1 .. Len(t)] : \E j \in 1 .. Len(t) :
       /\ \A x, y \in 1 .. n : p[x] = p[y] => x = y
       /\ \A x \in 1 .. n : p[x] # j
       /\ \A y \in 1 .. Len(t) : y # j => \E x \in 1 .. n : p[x] = y
       /\ \A x \in 1 .. n : t[p[x]] = s[x]
       /\ t[j] = e
  BY DEF Gains
<1>3. PICK j \in 1 .. Len(t) :
       /\ \A x, y \in 1 .. n : p[x] = p[y] => x = y
       /\ \A x \in 1 .. n : p[x] # j
       /\ \A y \in 1 .. Len(t) : y # j => \E x \in 1 .. n : p[x] = y
       /\ \A x \in 1 .. n : t[p[x]] = s[x]
       /\ t[j] = e
  BY <1>2
<1> HIDE DEF n
<1>4. /\ S \subseteq 1 .. n /\ \A x \in 1 .. n : x \in S <=> s[x][1] = k
      /\ T \subseteq 1 .. Len(t) /\ \A x \in 1 .. Len(t) : x \in T <=> t[x][1] = k
  BY DEF PlacesOf, n
<1>5. /\ IsFiniteSet(S) /\ KeyCount(s, k) = Cardinality(S) /\ KeyCount(s, k) \in Nat
      /\ IsFiniteSet(T) /\ KeyCount(t, k) = Cardinality(T) /\ KeyCount(t, k) \in Nat
  BY CountIsNumber
<1> DEFINE q == [x \in S |-> p[x]]
<1> HIDE DEF S, T
<1>6. q \in [S -> T \ {j}]
  <2>1. ASSUME NEW x \in S PROVE p[x] \in T \ {j}
    <3>1. x \in 1 .. n /\ s[x][1] = k
      BY <1>4
    <3>2. p[x] \in 1 .. Len(t) /\ p[x] # j /\ t[p[x]] = s[x]
      BY <1>3, <3>1
    <3>3. t[p[x]][1] = k
      BY <3>1, <3>2
    <3> QED
      BY <1>4, <3>2, <3>3
  <2> QED
    BY <2>1
<1>7. \A x, y \in S : q[x] = q[y] => x = y
  BY <1>3, <1>4
<1>8. \A y \in T \ {j} : \E x \in S : q[x] = y
  <2>1. SUFFICES ASSUME NEW y \in T \ {j} PROVE \E x \in S : q[x] = y
    OBVIOUS
  <2>2. PICK x \in 1 .. n : p[x] = y
    BY <1>3, <1>4
  <2>3. s[x] = t[y] /\ t[y][1] = k
    BY <1>3, <1>4, <2>2
  <2>4. x \in S
    BY <1>4, <2>3
  <2> QED
    BY <2>2, <2>4
<1> HIDE DEF q
<1>9. Cardinality(T \ {j}) = Cardinality(S)
  BY <1>5, <1>6, <1>7, <1>8, SameNumber
<1>10. Cardinality(T \ {j}) = IF j \in T THEN Cardinality(T) - 1 ELSE Cardinality(T)
  BY <1>5, FS_RemoveElement
<1>11. j \in T <=> e[1] = k
  BY <1>3, <1>4
<1> QED
  BY <1>5, <1>9, <1>10, <1>11

\* Rearranging changes no number of elements with a key.
LEMMA RearrangedCount ==
  ASSUME NEW E, NEW s \in Seq(E), NEW t \in Seq(E), Rearranged(s, t), NEW k
  PROVE  KeyCount(t, k) = KeyCount(s, k)
<1> DEFINE n == Len(s)
           S == PlacesOf(t, k)
           T == PlacesOf(s, k)
<1>1. PICK p \in [1 .. n -> 1 .. n] :
       /\ \A i, j \in 1 .. n : p[i] = p[j] => i = j
       /\ \A j \in 1 .. n : \E i \in 1 .. n : p[i] = j
       /\ \A i \in 1 .. n : t[i] = s[p[i]]
  BY DEF Rearranged
<1>2. Len(t) = n
  BY DEF Rearranged
<1>3. /\ S \subseteq 1 .. n /\ \A x \in 1 .. n : x \in S <=> t[x][1] = k
      /\ T \subseteq 1 .. n /\ \A x \in 1 .. n : x \in T <=> s[x][1] = k
  BY <1>2 DEF PlacesOf
<1>4. IsFiniteSet(S) /\ KeyCount(t, k) = Cardinality(S) /\ KeyCount(s, k) = Cardinality(T)
  BY CountIsNumber
<1> DEFINE q == [x \in S |-> p[x]]
<1> HIDE DEF S, T, n
<1>5. q \in [S -> T]
  <2>1. ASSUME NEW x \in S PROVE p[x] \in T
    <3>1. x \in 1 .. n /\ t[x][1] = k
      BY <1>3
    <3>2. p[x] \in 1 .. n /\ s[p[x]] = t[x]
      BY <1>1, <3>1
    <3>3. s[p[x]][1] = k
      BY <3>1, <3>2
    <3> QED
      BY <1>3, <3>2, <3>3
  <2> QED
    BY <2>1
<1>7. \A x, y \in S : q[x] = q[y] => x = y
  BY <1>1, <1>3
<1>6. \A y \in T : \E x \in S : q[x] = y
  <2>1. SUFFICES ASSUME NEW y \in T PROVE \E x \in S : q[x] = y
    OBVIOUS
  <2>2. PICK x \in 1 .. n : p[x] = y
    <3>1. y \in 1 .. n
      BY <1>3
    <3> QED
      BY <1>1, <3>1
  <2>3. x \in S
    <3>1. t[x] = s[y] /\ s[y][1] = k
      BY <1>1, <1>3, <2>2
    <3> QED
      BY <1>3, <3>1
  <2> QED
    BY <2>2, <2>3
<1> HIDE DEF q
<1> QED
  BY <1>4, <1>5, <1>6, <1>7, SameNumber

-----------------------------------------------------------------------------
\* Insertion at an index adds the element.
LEMMA InsertedGains ==
  ASSUME NEW E, NEW s \in Seq(E), NEW e \in E, NEW k \in 1 .. Len(s) + 1, NEW t, t = InsertAt(s, k, e)
  PROVE  t \in Seq(E) /\ Gains(s, t, e)
<1>0. /\ t \in Seq(E) /\ Len(t) = Len(s) + 1
      /\ \A i \in 1 .. Len(s) + 1 : t[i] = IF i < k THEN s[i] ELSE IF i = k THEN e ELSE s[i - 1]
  <2>1. IsInserted(E, s, k, e, t)
    BY InsertedAt
  <2> QED
    BY <2>1 DEF IsInserted
<1> DEFINE n == Len(s)
           p == [i \in 1 .. n |-> IF i < k THEN i ELSE i + 1]
<1>1. /\ t \in Seq(E) /\ Len(t) = n + 1
      /\ \A i \in 1 .. n + 1 : t[i] = IF i < k THEN s[i] ELSE IF i = k THEN e ELSE s[i - 1]
  BY <1>0
<1>2. n \in Nat /\ k \in 1 .. n + 1
  OBVIOUS
<1> HIDE DEF n
<1>3. p \in [1 .. n -> 1 .. n + 1]
  BY <1>2
<1>4. \A x, y \in 1 .. n : p[x] = p[y] => x = y
  BY <1>2
<1>5. \A x \in 1 .. n : p[x] # k
  BY <1>2
<1>6. \A y \in 1 .. n + 1 : y # k => \E x \in 1 .. n : p[x] = y
  <2>1. SUFFICES ASSUME NEW y \in 1 .. n + 1, y # k PROVE \E x \in 1 .. n : p[x] = y
    OBVIOUS
  <2>2. CASE y < k
    <3>1. y \in 1 .. n /\ p[y] = y
      BY <1>2, <2>2
    <3> QED
      BY <3>1
  <2>3. CASE y > k
    <3>1. y - 1 \in 1 .. n /\ ~(y - 1 < k) /\ y - 1 + 1 = y
      BY <1>2, <2>3
    <3>2. p[y - 1] = y
      BY <3>1
    <3> QED
      BY <3>1, <3>2
  <2> QED
    BY <1>2, <2>1, <2>2, <2>3
<1>7. \A x \in 1 .. n : t[p[x]] = s[x]
  <2>1. SUFFICES ASSUME NEW x \in 1 .. n PROVE t[p[x]] = s[x]
    OBVIOUS
  <2>2. CASE x < k
    BY <1>1, <1>2, <2>2
  <2>3. CASE ~(x < k)
    <3>1. p[x] = x + 1 /\ x + 1 \in 1 .. n + 1 /\ ~(x + 1 < k) /\ x + 1 # k /\ x + 1 - 1 = x
      BY <1>2, <2>3
    <3> HIDE DEF p
    <3> QED
      BY <1>1, <3>1
  <2> QED
    BY <2>2, <2>3
<1>8. t[k] = e
  BY <1>1, <1>2
<1> HIDE DEF p
<1>9. /\ Len(t) = Len(s) + 1 /\ p \in [1 .. Len(s) -> 1 .. Len(t)] /\ k \in 1 .. Len(t)
      /\ \A x, y \in 1 .. Len(s) : p[x] = p[y] => x = y
      /\ \A x \in 1 .. Len(s) : p[x] # k
      /\ \A y \in 1 .. Len(t) : y # k => \E x \in 1 .. Len(s) : p[x] = y
      /\ \A x \in 1 .. Len(s) : t[p[x]] = s[x]
      /\ t[k] = e
  BY <1>1, <1>2, <1>3, <1>4, <1>5, <1>6, <1>7, <1>8 DEF n
<1> QED
  BY <1>1, <1>9 DEF Gains

\* So does putting it in a place and what was there at the end.
LEMMA SwappedGains ==
  ASSUME NEW E, NEW s \in Seq(E), NEW e \in E, NEW k \in 1 .. Len(s), NEW t,
         t = Append([s EXCEPT ![k] = e], s[k])
  PROVE  t \in Seq(E) /\ Gains(s, t, e)
<1> DEFINE n == Len(s)
           u == [s EXCEPT ![k] = e]
           m == n + 1
           p == [i \in 1 .. n |-> IF i = k THEN m ELSE i]
<1>1. n \in Nat /\ k \in 1 .. n /\ m = n + 1 /\ s[k] \in E
  OBVIOUS
<1>2. u \in Seq(E) /\ Len(u) = n /\ \A i \in 1 .. n : u[i] = IF i = k THEN e ELSE s[i]
  OBVIOUS
<1>3. /\ t \in Seq(E) /\ Len(t) = m /\ t[m] = s[k]
      /\ \A i \in 1 .. n : t[i] = IF i = k THEN e ELSE s[i]
  <2> HIDE DEF u
  <2>1. t = Append(u, s[k])
    BY DEF u
  <2>2. t \in Seq(E) /\ Len(t) = Len(u) + 1 /\ t[Len(u) + 1] = s[k] /\ \A i \in 1 .. Len(u) : t[i] = u[i]
    BY <1>1, <1>2, <2>1
  <2> QED
    BY <1>2, <2>2
<1> HIDE DEF n, m, u
<1>4. p \in [1 .. n -> 1 .. m]
  BY <1>1
<1>5. \A x, y \in 1 .. n : p[x] = p[y] => x = y
  BY <1>1
<1>6. \A x \in 1 .. n : p[x] # k
  BY <1>1
<1>7. \A y \in 1 .. m : y # k => \E x \in 1 .. n : p[x] = y
  <2>1. SUFFICES ASSUME NEW y \in 1 .. m, y # k PROVE \E x \in 1 .. n : p[x] = y
    OBVIOUS
  <2>2. CASE y = m
    BY <1>1, <2>2
  <2>3. CASE y # m
    <3>1. y \in 1 .. n /\ p[y] = y
      BY <1>1, <2>1, <2>3
    <3> QED
      BY <3>1
  <2> QED
    BY <2>2, <2>3
<1>8. \A x \in 1 .. n : t[p[x]] = s[x]
  BY <1>1, <1>3
<1>9. t[k] = e
  BY <1>1, <1>3
<1> HIDE DEF p
<1>10. /\ Len(t) = Len(s) + 1 /\ p \in [1 .. Len(s) -> 1 .. Len(t)] /\ k \in 1 .. Len(t)
       /\ \A x, y \in 1 .. Len(s) : p[x] = p[y] => x = y
       /\ \A x \in 1 .. Len(s) : p[x] # k
       /\ \A y \in 1 .. Len(t) : y # k => \E x \in 1 .. Len(s) : p[x] = y
       /\ \A x \in 1 .. Len(s) : t[p[x]] = s[x]
       /\ t[k] = e
  <2>1. n = Len(s) /\ m = Len(t) /\ k \in 1 .. m /\ Len(t) = Len(s) + 1
    BY <1>1, <1>3 DEF n
  <2> QED
    BY <1>4, <1>5, <1>6, <1>7, <1>8, <1>9, <2>1
<1> QED
  BY <1>3, <1>10 DEF Gains

\* What is left when an element is taken out, whichever way its place is
\* filled, is everything but that element, and nothing ahead of it moves.
LEMMA RemovedLoses ==
  ASSUME NEW E, NEW s \in Seq(E), NEW k \in 1 .. Len(s), NEW t,
         t = RemoveAt(s, k) \/ t = Front([s EXCEPT ![k] = Last(s)])
  PROVE  t \in Seq(E) /\ Gains(t, s, s[k]) /\ \A i \in 1 .. k - 1 : t[i] = s[i]
<1> DEFINE n == Len(s)
           gap == t = RemoveAt(s, k)
           p == [j \in 1 .. n - 1 |-> IF gap THEN IF j < k THEN j ELSE j + 1
                                      ELSE IF j = k THEN n ELSE j]
<1>1. n \in Nat /\ k \in 1 .. n
  OBVIOUS
<1>2. t \in Seq(E) /\ Len(t) = n - 1
  <2>1. t = RemoveAt(s, k) => IsRemoved(E, s, k, t)
    BY RemovedAt
  <2> QED
    BY <2>1, FilledAt DEF IsRemoved
<1>3. /\ gap => \A j \in 1 .. n - 1 : t[j] = IF j < k THEN s[j] ELSE s[j + 1]
      /\ ~gap => \A j \in 1 .. n - 1 : t[j] = IF j = k THEN s[n] ELSE s[j]
  <2> HIDE DEF p
  <2>1. CASE gap
    <3>1. IsRemoved(E, s, k, t)
      BY <2>1, RemovedAt
    <3> QED
      BY <2>1, <3>1 DEF IsRemoved
  <2>2. CASE ~gap
    <3>1. t = Front([s EXCEPT ![k] = Last(s)])
      BY <2>2
    <3> HIDE DEF gap
    <3>2. \A j \in 1 .. Len(s) - 1 : t[j] = IF j = k THEN s[Len(s)] ELSE s[j]
      BY <3>1, FilledAt
    <3> QED
      BY <2>2, <3>2
  <2> QED
    BY <2>1, <2>2
<1> HIDE DEF n, gap
<1>4. p \in [1 .. n - 1 -> 1 .. n]
  BY <1>1
<1>5. \A x, y \in 1 .. n - 1 : p[x] = p[y] => x = y
  BY <1>1
<1>6. \A x \in 1 .. n - 1 : p[x] # k
  BY <1>1
<1>7. \A y \in 1 .. n : y # k => \E x \in 1 .. n - 1 : p[x] = y
  <2>1. SUFFICES ASSUME NEW y \in 1 .. n, y # k PROVE \E x \in 1 .. n - 1 : p[x] = y
    OBVIOUS
  <2>2. CASE gap /\ y > k
    <3>1. y - 1 \in 1 .. n - 1 /\ ~(y - 1 < k) /\ y - 1 + 1 = y
      BY <1>1, <2>2
    <3>2. p[y - 1] = y
      BY <2>2, <3>1
    <3> QED
      BY <3>1, <3>2
  <2>3. CASE gap /\ y < k
    <3>1. y \in 1 .. n - 1 /\ p[y] = y
      BY <1>1, <2>3
    <3> QED
      BY <3>1
  <2>4. CASE ~gap /\ y = n
    <3>1. k \in 1 .. n - 1 /\ p[k] = y
      BY <1>1, <2>1, <2>4
    <3> QED
      BY <3>1
  <2>5. CASE ~gap /\ y # n
    <3>1. y \in 1 .. n - 1 /\ p[y] = y
      BY <1>1, <2>1, <2>5
    <3> QED
      BY <3>1
  <2>6. y > k \/ y < k
    BY <1>1, <2>1
  <2> QED
    BY <2>2, <2>3, <2>4, <2>5, <2>6
<1>8. \A x \in 1 .. n - 1 : s[p[x]] = t[x]
  BY <1>1, <1>3
<1>9. \A i \in 1 .. k - 1 : t[i] = s[i]
  BY <1>1, <1>3
<1> HIDE DEF p
<1>10. /\ Len(s) = Len(t) + 1 /\ p \in [1 .. Len(t) -> 1 .. Len(s)] /\ k \in 1 .. Len(s)
       /\ \A x, y \in 1 .. Len(t) : p[x] = p[y] => x = y
       /\ \A x \in 1 .. Len(t) : p[x] # k
       /\ \A y \in 1 .. Len(s) : y # k => \E x \in 1 .. Len(t) : p[x] = y
       /\ \A x \in 1 .. Len(t) : s[p[x]] = t[x]
  <2>1. n = Len(s) /\ n - 1 = Len(t) /\ Len(s) = Len(t) + 1
    BY <1>1, <1>2 DEF n
  <2> QED
    BY <1>1, <1>4, <1>5, <1>6, <1>7, <1>8, <2>1
<1>11. Gains(t, s, s[k])
  BY <1>10 DEF Gains
<1> QED
  BY <1>2, <1>9, <1>11

-----------------------------------------------------------------------------
Elements == ArrayKeys \X {0}

\* An array no larger than what is allocated, and in order if it is kept so.
ArrayOf(a, E) ==
  /\ a \in DArrays(E)
  /\ Len(a.elts) <= a.capacity /\ a.capacity <= a.alloc
  /\ a.order = "sorted" => Ascending(a.elts)

\* Keys of elements are compared as integers.
LEMMA ElementsKeyed ==
  /\ Keyed(Elements)
  /\ \A e \in Elements : e[1] \in ArrayKeys
  /\ \A k \in ArrayKeys : <<k, 0>> \in Elements /\ <<k, 0>>[1] = k
  BY DArrayAssumption DEF Elements, Keyed

\* Sorting an array keeps how many elements have each key.
LEMMA SortKeeps ==
  ASSUME NEW E, Keyed(E), NEW a \in DArrays(E), Len(a.elts) <= a.capacity, a.capacity <= a.alloc,
         NEW b, b = DaSort(a), a.sorted => Ascending(a.elts) \/ a.order # "sorted"
  PROVE  /\ ArrayOf(b, E) /\ Len(b.elts) = Len(a.elts)
         /\ b.noalloc = a.noalloc /\ b.order = a.order /\ b.max_elts = a.max_elts
         /\ b.capacity = a.capacity /\ b.alloc = a.alloc
         /\ \A k : KeyCount(b.elts, k) = KeyCount(a.elts, k)
         /\ ElementsOf(b.elts) = ElementsOf(a.elts)
<1>1. /\ a.elts \in Seq(E) /\ a.capacity \in Nat /\ a.alloc \in Nat
      /\ a.sorted \in BOOLEAN /\ Len(a.elts) \in Nat
  BY ArrayFields
<1>2. CASE a.sorted
  BY <1>2 DEF DaSort, ArrayOf
<1>3. CASE ~a.sorted /\ DaSize(a) <= 1
  <2>1. b = a /\ Len(a.elts) <= 1
    BY <1>3 DEF DaSort, DaSize
  <2>2. Ascending(a.elts)
    BY <1>1, <2>1 DEF Ascending
  <2> QED
    BY <2>1, <2>2 DEF ArrayOf
<1>4. CASE ~a.sorted /\ ~(DaSize(a) <= 1)
  <2> DEFINE t == StableSort(a.elts)
  <2>1. t \in Seq(E) /\ Rearranged(a.elts, t) /\ Ascending(t)
    BY <1>1, StableSortSorts
  <2>2. b = [a EXCEPT !.elts = t, !.sorted = TRUE]
    BY <1>4 DEF DaSort
  <2> HIDE DEF t
  <2>3. /\ b \in DArrays(E) /\ b.elts = t /\ b.noalloc = a.noalloc /\ b.order = a.order
        /\ b.max_elts = a.max_elts /\ b.capacity = a.capacity /\ b.alloc = a.alloc
    BY <2>1, <2>2 DEF DArrays
  <2>4. Len(t) = Len(a.elts)
    BY <2>1 DEF Rearranged
  <2>5. \A k : KeyCount(t, k) = KeyCount(a.elts, k)
    BY <1>1, <2>1, RearrangedCount
  <2>6. ElementsOf(t) = ElementsOf(a.elts)
    BY <1>1, <2>1, RearrangedKeeps
  <2>7. ArrayOf(b, E)
    BY <2>1, <2>3, <2>4 DEF ArrayOf
  <2> QED
    BY <2>3, <2>4, <2>5, <2>6, <2>7
<1> QED
  BY <1>2, <1>3, <1>4

\* What is gained is among the elements afterwards.
LEMMA GainsElements ==
  ASSUME NEW E, NEW s \in Seq(E), NEW t \in Seq(E), NEW e, Gains(s, t, e)
  PROVE  ElementsOf(t) = ElementsOf(s) \cup {e}
<1>1. PICK p \in [1 .. Len(s) -> 1 .. Len(t)] : \E j \in 1 .. Len(t) :
       /\ \A y \in 1 .. Len(t) : y # j => \E x \in 1 .. Len(s) : p[x] = y
       /\ \A x \in 1 .. Len(s) : t[p[x]] = s[x]
       /\ t[j] = e
  BY DEF Gains
<1>2. PICK j \in 1 .. Len(t) :
       /\ \A y \in 1 .. Len(t) : y # j => \E x \in 1 .. Len(s) : p[x] = y
       /\ \A x \in 1 .. Len(s) : t[p[x]] = s[x]
       /\ t[j] = e
  BY <1>1
<1>3. ASSUME NEW y \in 1 .. Len(t) PROVE t[y] \in ElementsOf(s) \cup {e}
  <2>1. CASE y = j
    BY <1>2, <2>1
  <2>2. CASE y # j
    <3>1. PICK x \in 1 .. Len(s) : p[x] = y
      BY <1>2, <2>2
    <3>2. t[y] = s[x]
      BY <1>2, <3>1
    <3> QED
      BY <3>2 DEF ElementsOf
  <2> QED
    BY <2>1, <2>2
<1>4. ASSUME NEW x \in 1 .. Len(s) PROVE s[x] \in ElementsOf(t)
  <2>1. p[x] \in 1 .. Len(t) /\ t[p[x]] = s[x]
    BY <1>2
  <2> QED
    BY <2>1 DEF ElementsOf
<1>5. e \in ElementsOf(t)
  BY <1>2 DEF ElementsOf
<1>6. \A z \in ElementsOf(t) : z \in ElementsOf(s) \cup {e}
  BY <1>3 DEF ElementsOf
<1>7. \A z \in ElementsOf(s) : z \in ElementsOf(t)
  BY <1>4 DEF ElementsOf
<1> QED
  BY <1>5, <1>6, <1>7

\* Where an element is put there is one more.
LEMMA PlacedGains ==
  ASSUME NEW E, NEW a \in DArrays(E), NEW e \in E, NEW i \in 0 .. DaSize(a),
         NEW t, t = Placed(a, e, i)
  PROVE  t \in Seq(E) /\ Gains(a.elts, t, e)
<1> DEFINE s == a.elts
           k == i + 1
<1>1. s \in Seq(E) /\ Len(s) \in Nat /\ DaSize(a) = Len(s)
  BY ArrayFields DEF DaSize
<1>2. k \in 1 .. Len(s) + 1 /\ (i # DaSize(a) => k \in 1 .. Len(s))
  BY <1>1
<1>3. CASE a.order = "ordered" \/ i = DaSize(a)
  <2>1. t = InsertAt(s, k, e)
    BY <1>3 DEF Placed
  <2> HIDE DEF s, k
  <2>2. t \in Seq(E) /\ Gains(s, t, e)
    BY <1>1, <1>2, <2>1, InsertedGains
  <2> QED
    BY <2>2 DEF s
<1>4. CASE ~(a.order = "ordered" \/ i = DaSize(a))
  <2>1. t = Append([s EXCEPT ![k] = e], s[k])
    BY <1>4 DEF Placed
  <2>2. k \in 1 .. Len(s)
    BY <1>2, <1>4
  <2> HIDE DEF s, k
  <2>3. t \in Seq(E) /\ Gains(s, t, e)
    BY <1>1, <2>1, <2>2, SwappedGains
  <2> QED
    BY <2>3 DEF s
<1> QED
  BY <1>3, <1>4

\* The larger of two numbers.
LEMMA LargerIs ==
  ASSUME NEW x \in Nat, NEW y \in Nat
  PROVE  Greatest({x, y}) \in Nat /\ Greatest({x, y}) >= x /\ Greatest({x, y}) >= y
<1>1. {x, y} \in SUBSET (0 .. x + y) /\ {x, y} # {} /\ x + y \in Nat
  OBVIOUS
<1>2. Greatest({x, y}) \in {x, y} /\ \A z \in {x, y} : Greatest({x, y}) >= z
  BY <1>1, GreatestIs
<1> QED
  BY <1>2

\* Making room for one more element.
LEMMA GrownHasRoom ==
  ASSUME NEW E, NEW a, ArrayOf(a, E), a.capacity > DaSize(a) \/ ~a.noalloc,
         NEW b, b = IF DaSize(a) < a.capacity THEN a
                    ELSE DaExtend(a, Greatest({2 * a.capacity, 1}), TRUE)
  PROVE  /\ b \in DArrays(E) /\ b.elts = a.elts /\ b.noalloc = a.noalloc /\ b.order = a.order
         /\ b.max_elts = a.max_elts /\ b.sorted = a.sorted
         /\ DaSize(a) + 1 <= b.capacity /\ b.capacity <= b.alloc
<1>1. /\ a \in DArrays(E) /\ a.elts \in Seq(E) /\ DaSize(a) = Len(a.elts) /\ DaSize(a) \in Nat
      /\ a.capacity \in Nat /\ a.alloc \in Nat /\ DaSize(a) <= a.capacity /\ a.capacity <= a.alloc
      /\ a.sorted \in BOOLEAN
  BY ArrayFields DEF ArrayOf, DaSize
<1>2. CASE DaSize(a) < a.capacity
  BY <1>1, <1>2
<1>3. CASE ~(DaSize(a) < a.capacity)
  <2> DEFINE c == Greatest({2 * a.capacity, 1})
  <2>1. c \in Nat /\ c >= 2 * a.capacity /\ c >= 1
    BY <1>1, LargerIs
  <2>2. b = [a EXCEPT !.capacity = c, !.alloc = c]
    BY <1>1, <1>3 DEF DaExtend
  <2> HIDE DEF c
  <2>3. /\ b \in DArrays(E) /\ b.elts = a.elts /\ b.capacity = c /\ b.alloc = c /\ b.sorted = a.sorted
        /\ b.max_elts = a.max_elts /\ b.order = a.order /\ b.noalloc = a.noalloc
    BY <1>1, <2>1, <2>2 DEF DArrays
  <2>4. DaSize(a) = a.capacity /\ DaSize(a) + 1 <= c
    BY <1>1, <1>3, <2>1
  <2>5. b.capacity = c /\ b.alloc = c
    BY <2>3
  <2>6. c <= c
    BY <2>1
  <2>7. DaSize(a) + 1 <= b.capacity /\ b.capacity <= b.alloc
    BY ONLY <2>4, <2>5, <2>6
  <2> QED
    BY <2>3, <2>7
<1> QED
  BY <1>2, <1>3

\* An insertion adds the element, and the array is in order if it is kept so.
LEMMA InsertKeeps ==
  ASSUME NEW E, Keyed(E), NEW a, ArrayOf(a, E), NEW e \in E, NEW i \in 0 .. DaSize(a),
         a.capacity > DaSize(a) \/ ~a.noalloc, NEW b, b = DaInsert(a, e, i)
  PROVE  /\ ArrayOf(b, E) /\ DaSize(b) = DaSize(a) + 1
         /\ b.noalloc = a.noalloc /\ b.order = a.order /\ b.max_elts = a.max_elts
         /\ a.order # "sorted" => b.elts = Placed(a, e, i)
         /\ \A k : /\ KeyCount(a.elts, k) \in Nat
                   /\ KeyCount(b.elts, k) = IF e[1] = k THEN KeyCount(a.elts, k) + 1 ELSE KeyCount(a.elts, k)
         /\ ElementsOf(b.elts) = ElementsOf(a.elts) \cup {e}
<1> DEFINE grown == IF DaSize(a) < a.capacity THEN a
                    ELSE DaExtend(a, Greatest({2 * a.capacity, 1}), TRUE)
           t == Placed(a, e, i)
           put == [grown EXCEPT !.elts = t]
           unmarked == [put EXCEPT !.sorted = FALSE]
<1>1. b = IF a.order = "sorted" THEN DaSort(unmarked) ELSE put
  BY Zenon DEF DaInsert
<1>2. a \in DArrays(E) /\ a.elts \in Seq(E) /\ DaSize(a) = Len(a.elts) /\ DaSize(a) \in Nat
  BY ArrayFields DEF ArrayOf, DaSize
<1>3. t \in Seq(E) /\ Gains(a.elts, t, e)
  BY <1>2, PlacedGains
<1>4. Len(t) = DaSize(a) + 1
  BY <1>2, <1>3 DEF Gains
<1>5. /\ grown \in DArrays(E) /\ grown.noalloc = a.noalloc /\ grown.order = a.order /\ grown.max_elts = a.max_elts
      /\ DaSize(a) + 1 <= grown.capacity /\ grown.capacity <= grown.alloc
  BY GrownHasRoom
<1> HIDE DEF grown, t
<1>6. /\ put \in DArrays(E) /\ put.elts = t /\ put.noalloc = a.noalloc /\ put.order = a.order
      /\ put.capacity = grown.capacity /\ put.alloc = grown.alloc /\ put.max_elts = a.max_elts
  BY <1>3, <1>5, ArrayFields
<1> HIDE DEF put
<1>7. /\ unmarked \in DArrays(E) /\ unmarked.elts = t /\ unmarked.noalloc = a.noalloc /\ unmarked.order = a.order
      /\ unmarked.max_elts = a.max_elts /\ unmarked.capacity = grown.capacity /\ unmarked.alloc = grown.alloc /\ unmarked.sorted = FALSE
  BY <1>6 DEF DArrays
<1> HIDE DEF unmarked
<1>8. \A k : /\ KeyCount(a.elts, k) \in Nat
             /\ KeyCount(t, k) = IF e[1] = k THEN KeyCount(a.elts, k) + 1 ELSE KeyCount(a.elts, k)
  BY <1>2, <1>3, GainsCount
<1>9. ElementsOf(t) = ElementsOf(a.elts) \cup {e}
  BY <1>2, <1>3, GainsElements
<1>10. CASE a.order = "sorted"
  <2>1. b = DaSort(unmarked)
    BY <1>1, <1>10
  <2>2. Len(unmarked.elts) <= unmarked.capacity /\ unmarked.capacity <= unmarked.alloc
    BY <1>4, <1>5, <1>7
  <2>3. /\ ArrayOf(b, E) /\ Len(b.elts) = Len(unmarked.elts) /\ b.noalloc = unmarked.noalloc
        /\ b.order = unmarked.order /\ b.max_elts = unmarked.max_elts
        /\ \A k : KeyCount(b.elts, k) = KeyCount(unmarked.elts, k)
        /\ ElementsOf(b.elts) = ElementsOf(unmarked.elts)
    BY <1>7, <2>1, <2>2, SortKeeps
  <2> QED
    BY <1>4, <1>7, <1>8, <1>9, <1>10, <2>3 DEF DaSize
<1>11. CASE a.order # "sorted"
  <2>1. b = put
    BY <1>1, <1>11
  <2>2. ArrayOf(b, E)
    BY <1>4, <1>5, <1>6, <1>11, <2>1 DEF ArrayOf
  <2> QED
    BY <1>4, <1>6, <1>8, <1>9, <2>1, <2>2 DEF DaSize, t
<1> QED
  BY <1>10, <1>11

\* A shrinking that leaves room for one more keeps every element.
LEMMA ShrinkKeeps ==
  ASSUME NEW E, NEW a \in DArrays(E), a.capacity <= a.alloc, Len(a.elts) <= a.capacity,
         NEW size \in Nat, size > Len(a.elts), size <= a.capacity, NEW ok \in BOOLEAN,
         NEW b, b = DaShrink(a, size, ok)
  PROVE  /\ b \in DArrays(E) /\ b.elts = a.elts /\ b.order = a.order /\ b.noalloc = a.noalloc
         /\ b.sorted = a.sorted /\ b.max_elts = a.max_elts /\ Len(b.elts) <= b.capacity /\ b.capacity <= b.alloc
<1>1. a.elts \in Seq(E) /\ Len(a.elts) \in Nat /\ a.sorted \in BOOLEAN /\ a.capacity \in Nat
  BY ArrayFields
<1>2. size # 0
  BY <1>1
<1>3. CASE a.noalloc \/ ~ok
  BY <1>2, <1>3 DEF DaShrink
<1>4. CASE ~(a.noalloc \/ ~ok)
  <2> DEFINE s == SubSeq(a.elts, 1, IF Len(a.elts) < size THEN Len(a.elts) ELSE size - 1)
  <2>1. s = a.elts
    <3>1. s = SubSeq(a.elts, 1, Len(a.elts))
      OBVIOUS
    <3> QED
      BY <1>1, <3>1
  <2>2. b = [a EXCEPT !.capacity = size, !.alloc = size, !.elts = s]
    BY <1>2, <1>4 DEF DaShrink
  <2> DEFINE r == [a EXCEPT !.capacity = size, !.alloc = size]
  <2>3. b = [r EXCEPT !.elts = s]
    BY <2>2
  <2>4. /\ b \in DArrays(E) /\ b.elts = a.elts /\ b.capacity = size /\ b.alloc = size
        /\ b.sorted = a.sorted /\ b.order = a.order /\ b.noalloc = a.noalloc /\ b.max_elts = a.max_elts
    <3> HIDE DEF s
    <3>1. /\ r \in DArrays(E) /\ r.capacity = size /\ r.alloc = size
          /\ r.max_elts = a.max_elts /\ r.sorted = a.sorted /\ r.order = a.order /\ r.noalloc = a.noalloc
      BY DEF DArrays
    <3> HIDE DEF r
    <3> QED
      BY <1>1, <2>1, <2>3, <3>1, ArrayFields
  <2> QED
    BY <1>1, <2>4
<1> QED
  BY <1>3, <1>4

\* b is a without element i: one fewer, none ahead of it has moved, the others
\* are in order if they were, and nothing else but the capacity differs.
Removed(a, i, b, E) ==
  /\ ArrayOf(b, E) /\ DaSize(b) = DaSize(a) - 1
  /\ b.noalloc = a.noalloc /\ b.order = a.order /\ b.max_elts = a.max_elts
  /\ a.order # "sorted" => b.elts = Front([a.elts EXCEPT ![i + 1] = Last(a.elts)])
  /\ a.elts[i + 1] \in E
  /\ Gains(b.elts, a.elts, a.elts[i + 1])
  /\ \A j \in 1 .. i : b.elts[j] = a.elts[j]

\* That is what a removal makes of an array (darray_remove).
LEMMA RemoveKeeps ==
  ASSUME NEW E, Keyed(E), NEW a, ArrayOf(a, E), NEW i \in 0 .. DaSize(a) - 1, NEW ok \in BOOLEAN,
         NEW b, b = DaRemove(a, i, ok)
  PROVE  Removed(a, i, b, E)
<1> DEFINE s == a.elts
           k == i + 1
           t == IF a.order = "sorted" THEN RemoveAt(s, k) ELSE Front([s EXCEPT ![k] = Last(s)])
           left == [a EXCEPT !.elts = t]
<1>1. a \in DArrays(E) /\ s \in Seq(E) /\ DaSize(a) = Len(s) /\ Len(s) \in Nat
      /\ a.capacity \in Nat /\ a.alloc \in Nat /\ Len(s) <= a.capacity /\ a.capacity <= a.alloc
  BY ArrayFields DEF ArrayOf, DaSize
<1>2. k \in 1 .. Len(s) /\ i = k - 1 /\ (t = RemoveAt(s, k) \/ t = Front([s EXCEPT ![k] = Last(s)]))
  BY <1>1
<1>3. t \in Seq(E) /\ Gains(t, s, s[k]) /\ \A j \in 1 .. k - 1 : t[j] = s[j]
  <2> HIDE DEF t, s, k
  <2>1. /\ s \in Seq(E) /\ k \in 1 .. Len(s)
        /\ t = RemoveAt(s, k) \/ t = Front([s EXCEPT ![k] = Last(s)])
    BY <1>1, <1>2
  <2> QED
    BY <2>1, RemovedLoses
<1>4. Len(s) = Len(t) + 1 /\ Len(t) \in Nat
  <2> HIDE DEF t
  <2> QED
    BY <1>3 DEF Gains
<1>5. a.order = "sorted" => Ascending(t)
  <2>1. SUFFICES ASSUME a.order = "sorted" PROVE Ascending(t)
    OBVIOUS
  <2>2. Ascending(s) /\ t = RemoveAt(s, k)
    BY <2>1 DEF ArrayOf
  <2> HIDE DEF t, s, k
  <2>3. \A j \in 1 .. Len(s) - 1 : t[j] = IF j < k THEN s[j] ELSE s[j + 1]
    <3>1. s \in Seq(E) /\ k \in 1 .. Len(s) /\ t = RemoveAt(s, k)
      BY <1>1, <1>2, <2>2
    <3>2. IsRemoved(E, s, k, t)
      BY <3>1, RemovedAt
    <3> QED
      BY <3>2 DEF IsRemoved
  <2>4. SUFFICES ASSUME NEW x \in 1 .. Len(s) - 1, NEW y \in 1 .. Len(s) - 1, x < y
                 PROVE  t[x][1] <= t[y][1]
    BY <1>4 DEF Ascending
  <2> DEFINE u == IF x < k THEN x ELSE x + 1
             v == IF y < k THEN y ELSE y + 1
  <2>5. u \in 1 .. Len(s) /\ v \in 1 .. Len(s) /\ u < v
    BY <1>1, <1>2, <2>4
  <2>6. t[x] = s[u] /\ t[y] = s[v]
    BY <2>3
  <2> HIDE DEF u, v
  <2> QED
    BY <2>2, <2>5, <2>6 DEF Ascending
<1>6. b = IF ~DaIsEmpty(left) /\ 4 * Len(t) <= a.capacity /\ ~a.noalloc
          THEN DaShrink(left, a.capacity \div 2, ok) ELSE left
  BY Zenon DEF DaRemove
<1> HIDE DEF t, s, k
<1>7. /\ left \in DArrays(E) /\ left.elts = t /\ left.order = a.order /\ left.noalloc = a.noalloc
      /\ left.capacity = a.capacity /\ left.alloc = a.alloc /\ left.max_elts = a.max_elts
  BY <1>1, <1>3, ArrayFields
<1> HIDE DEF left
<1>8. /\ b \in DArrays(E) /\ b.elts = t /\ b.order = a.order /\ b.noalloc = a.noalloc
      /\ b.max_elts = a.max_elts /\ Len(b.elts) <= b.capacity /\ b.capacity <= b.alloc
  <2>1. CASE ~DaIsEmpty(left) /\ 4 * Len(t) <= a.capacity /\ ~a.noalloc
    <3> DEFINE size == a.capacity \div 2
    <3>1. b = DaShrink(left, size, ok)
      BY <1>6, <2>1
    <3>2. Len(t) # 0
      BY <1>7, <2>1 DEF DaIsEmpty, DaSize
    <3>3. size \in Nat /\ size > Len(t) /\ size <= a.capacity
      BY <1>1, <1>4, <2>1, <3>2
    <3> HIDE DEF size
    <3>4. /\ b \in DArrays(E) /\ b.elts = left.elts /\ b.order = left.order
          /\ b.noalloc = left.noalloc /\ b.max_elts = left.max_elts /\ Len(b.elts) <= b.capacity /\ b.capacity <= b.alloc
      <4>1. left.capacity <= left.alloc /\ Len(left.elts) <= left.capacity /\ size > Len(left.elts) /\ size <= left.capacity
        BY <1>1, <1>4, <1>7, <3>3
      <4> QED
        BY <1>7, <3>1, <3>3, <4>1, ShrinkKeeps
    <3> QED
      BY <1>7, <3>4
  <2>2. CASE ~(~DaIsEmpty(left) /\ 4 * Len(t) <= a.capacity /\ ~a.noalloc)
    BY <1>1, <1>4, <1>6, <1>7, <2>2
  <2> QED
    BY <2>1, <2>2
<1>9. ArrayOf(b, E)
  BY <1>5, <1>8 DEF ArrayOf
<1>10. DaSize(b) = DaSize(a) - 1
  BY <1>1, <1>4, <1>8 DEF DaSize
<1>11. s[k] \in E
  BY <1>1, <1>2
<1>12. a.order # "sorted" => b.elts = Front([a.elts EXCEPT ![i + 1] = Last(a.elts)])
  BY <1>8 DEF t, s, k
<1> QED
  BY <1>2, <1>3, <1>8, <1>9, <1>10, <1>11, <1>12 DEF Removed, s, k

-----------------------------------------------------------------------------
FilterStates == [arr : DArrays(Elements), i : Nat, out : DArrays(Elements)]

\* After n of the steps of a filter: as many elements are left to look at as
\* there are steps; those looked at and left have other keys; what was taken
\* out and what is still in make up what the array had.
FilterOk(a, key, n, st) ==
  /\ ArrayOf(st.arr, Elements) /\ ArrayOf(st.out, Elements) /\ ~st.out.noalloc
  /\ st.i + (DaSize(a) - n) = DaSize(st.arr)
  /\ \A j \in 1 .. st.i : st.arr.elts[j][1] # key
  /\ \A x \in ElementsOf(st.out.elts) : x[1] = key
  /\ \A k \in ArrayKeys : k # key => KeyCount(st.arr.elts, k) = KeyCount(a.elts, k)
  /\ KeyCount(st.arr.elts, key) + DaSize(st.out) = KeyCount(a.elts, key)

\* It is so before the first step.
LEMMA FilterStarts ==
  ASSUME NEW a, ArrayOf(a, Elements), NEW key \in ArrayKeys, NEW st,
         st = [arr |-> a, i |-> 0, out |-> DaNew(0, a.max_elts, a.order, FALSE)]
  PROVE  st \in FilterStates /\ FilterOk(a, key, 0, st)
<1> DEFINE out == DaNew(0, a.max_elts, a.order, FALSE)
<1>1. /\ a \in DArrays(Elements) /\ a.elts \in Seq(Elements) /\ DaSize(a) = Len(a.elts) /\ DaSize(a) \in Nat
      /\ a.max_elts \in Int
  BY ArrayFields DEF ArrayOf, DaSize
<1>2. /\ out \in DArrays(Elements) /\ out.elts = <<>> /\ out.capacity = 0 /\ out.alloc = 0 /\ ~out.noalloc
  BY <1>1 DEF DaNew, DArrays
<1> HIDE DEF out
<1>3. st.arr = a /\ st.i = 0 /\ st.out = out /\ st \in FilterStates
  BY <1>1, <1>2 DEF FilterStates, out
<1>4. Len(out.elts) = 0 /\ DaSize(out) = 0 /\ ElementsOf(out.elts) = {}
  BY <1>2 DEF DaSize, ElementsOf
<1>5. ArrayOf(out, Elements)
  BY <1>2, <1>4 DEF ArrayOf, Ascending
<1>6. KeyCount(a.elts, key) \in Nat
  BY <1>1, CountIsNumber
<1>7. \A j \in 1 .. 0 : FALSE
  OBVIOUS
<1>8. st.i + (DaSize(a) - 0) = DaSize(st.arr)
  BY <1>1, <1>3
<1>9. KeyCount(st.arr.elts, key) + DaSize(st.out) = KeyCount(a.elts, key)
  <2> DEFINE c == KeyCount(a.elts, key)
  <2>1. c + 0 = c
    BY <1>6
  <2> HIDE DEF c
  <2>2. KeyCount(st.arr.elts, key) = c /\ DaSize(st.out) = 0
    BY <1>3, <1>4 DEF c
  <2> QED
    BY <2>1, <2>2 DEF c
<1> QED
  BY <1>2, <1>3, <1>4, <1>5, <1>7, <1>8, <1>9 DEF FilterOk

\* And every step keeps it so.
LEMMA FilterSteps ==
  ASSUME NEW a, ArrayOf(a, Elements), NEW key \in ArrayKeys, NEW n \in 1 .. DaSize(a),
         NEW st \in FilterStates, FilterOk(a, key, n - 1, st), NEW nx, nx = FilterStep(st, key)
  PROVE  nx \in FilterStates /\ FilterOk(a, key, n, nx)
<1> DEFINE e == st.arr.elts[st.i + 1]
<1>1. /\ ArrayOf(st.arr, Elements) /\ ArrayOf(st.out, Elements) /\ st.out.noalloc = FALSE /\ st.i \in Nat
      /\ st.arr \in DArrays(Elements) /\ st.out \in DArrays(Elements)
      /\ st.arr.elts \in Seq(Elements) /\ DaSize(st.arr) = Len(st.arr.elts)
      /\ st.out.elts \in Seq(Elements) /\ DaSize(st.out) = Len(st.out.elts)
      /\ DaSize(a) \in Nat
  <2>1. a.elts \in Seq(Elements)
    BY ArrayFields DEF ArrayOf
  <2>2. st.arr \in DArrays(Elements) /\ st.out \in DArrays(Elements) /\ st.i \in Nat
    BY DEF FilterStates
  <2>3. st.out.noalloc = FALSE
    BY <2>2, ArrayFields DEF FilterOk
  <2> QED
    BY <2>1, <2>2, <2>3, ArrayFields DEF FilterOk, DaSize
<1>2. st.i + (DaSize(a) - (n - 1)) = DaSize(st.arr)
  BY DEF FilterOk
<1>3. st.i \in 0 .. DaSize(st.arr) - 1 /\ DaSize(st.arr) \in Nat
  <2> DEFINE x == DaSize(a)
             y == DaSize(st.arr)
             z == st.i
  <2>1. x \in Nat /\ y \in Nat /\ z \in Nat /\ n \in 1 .. x /\ z + (x - (n - 1)) = y
    BY <1>1, <1>2
  <2> HIDE DEF x, y, z
  <2>2. z \in 0 .. y - 1 /\ y \in Nat
    BY <2>1
  <2> QED
    BY <2>2 DEF x, y, z
<1>8. st.i + (DaSize(a) - n) = DaSize(st.arr) - 1 /\ st.i + 1 + (DaSize(a) - n) = DaSize(st.arr)
  <2> DEFINE x == DaSize(a)
             y == DaSize(st.arr)
             z == st.i
  <2>1. x \in Nat /\ y \in Nat /\ z \in Nat /\ n \in Nat /\ z + (x - (n - 1)) = y
    BY <1>1, <1>2, <1>3
  <2> HIDE DEF x, y, z
  <2>2. z + (x - n) = y - 1 /\ z + 1 + (x - n) = y
    BY <2>1
  <2> QED
    BY <2>2 DEF x, y, z
<1>4. DaGet(st.arr, st.i) = e
  BY DEF DaGet
<1>5. \A k : KeyCount(st.arr.elts, k) \in Nat /\ KeyCount(st.out.elts, k) \in Nat
  BY <1>1, CountIsNumber
<1>6. CASE e[1] = key
  <2> DEFINE arr == DaRemove(st.arr, st.i, TRUE)
             out == DaInsert(st.out, e, DaSize(st.out))
  <2>1. nx = [arr |-> arr, i |-> st.i, out |-> out]
    BY <1>4, <1>6 DEF FilterStep
  <2>2. /\ ArrayOf(arr, Elements) /\ DaSize(arr) = DaSize(st.arr) - 1
        /\ e \in Elements /\ Gains(arr.elts, st.arr.elts, e)
        /\ \A j \in 1 .. st.i : arr.elts[j] = st.arr.elts[j]
    <3> DEFINE b == st.arr
               i == st.i
               ok == TRUE
    <3>1. /\ Keyed(Elements) /\ ArrayOf(b, Elements) /\ i \in 0 .. DaSize(b) - 1 /\ ok \in BOOLEAN
          /\ arr = DaRemove(b, i, ok)
      BY <1>1, <1>3, ElementsKeyed
    <3> HIDE DEF b, i, arr, ok
    <3>2. Removed(b, i, arr, Elements)
      BY ONLY <3>1, RemoveKeeps
    <3> QED
      BY <3>2 DEF Removed, b, i
  <2>3. DaSize(st.out) \in 0 .. DaSize(st.out)
    BY <1>1
  <2>4. /\ ArrayOf(out, Elements) /\ DaSize(out) = DaSize(st.out) + 1 /\ out.noalloc = st.out.noalloc
        /\ ElementsOf(out.elts) = ElementsOf(st.out.elts) \cup {e}
    <3> DEFINE o == st.out
               m == DaSize(o)
    <3>1. ArrayOf(o, Elements) /\ e \in Elements /\ m \in 0 .. DaSize(o) /\ ~o.noalloc /\ out = DaInsert(o, e, m)
      BY <1>1, <2>2, <2>3
    <3> HIDE DEF out, e, o, m
    <3>2. /\ ArrayOf(out, Elements) /\ DaSize(out) = DaSize(o) + 1 /\ out.noalloc = o.noalloc
          /\ ElementsOf(out.elts) = ElementsOf(o.elts) \cup {e}
      BY <3>1, ElementsKeyed, InsertKeeps
    <3> QED
      BY <3>2 DEF o
  <2>5. arr \in DArrays(Elements) /\ arr.elts \in Seq(Elements) /\ out \in DArrays(Elements)
    BY <2>2, <2>4, ArrayFields DEF ArrayOf
  <2> HIDE DEF arr, out, e
  <2>6. nx \in FilterStates /\ nx.arr = arr /\ nx.i = st.i /\ nx.out = out
    BY <1>1, <2>1, <2>5 DEF FilterStates
  <2>7. \A k : /\ KeyCount(arr.elts, k) \in Nat
               /\ KeyCount(st.arr.elts, k) = IF e[1] = k THEN KeyCount(arr.elts, k) + 1 ELSE KeyCount(arr.elts, k)
    BY <1>1, <2>2, <2>5, GainsCount
  <2>8. st.i + (DaSize(a) - n) = DaSize(arr)
    BY <1>8, <2>2
  <2>9. \A j \in 1 .. st.i : arr.elts[j][1] # key
    BY <2>2 DEF FilterOk
  <2>10. \A x \in ElementsOf(out.elts) : x[1] = key
    BY <1>6, <2>4 DEF FilterOk
  <2>11. \A k \in ArrayKeys : k # key => KeyCount(arr.elts, k) = KeyCount(a.elts, k)
    BY <1>6, <2>7 DEF FilterOk
  <2>12. KeyCount(arr.elts, key) + DaSize(out) = KeyCount(a.elts, key)
    <3>1. KeyCount(st.arr.elts, key) + DaSize(st.out) = KeyCount(a.elts, key)
      BY DEF FilterOk
    <3>2. KeyCount(st.arr.elts, key) = KeyCount(arr.elts, key) + 1 /\ KeyCount(arr.elts, key) \in Nat
      BY <1>6, <2>7
    <3>3. DaSize(st.out) \in Nat
      BY <1>1
    <3> QED
      BY <2>4, <3>1, <3>2, <3>3
  <2>13. ~out.noalloc
    BY <1>1, <2>4
  <2> QED
    BY <2>2, <2>4, <2>6, <2>8, <2>9, <2>10, <2>11, <2>12, <2>13 DEF FilterOk
<1>7. CASE e[1] # key
  <2>1. nx = [st EXCEPT !.i = @ + 1]
    BY <1>4, <1>7 DEF FilterStep
  <2>2. nx \in FilterStates /\ nx.arr = st.arr /\ nx.i = st.i + 1 /\ nx.out = st.out
    BY <1>1, <2>1 DEF FilterStates
  <2>3. \A j \in 1 .. st.i + 1 : st.arr.elts[j][1] # key
    <3>1. \A j \in 1 .. st.i + 1 : j \in 1 .. st.i \/ j = st.i + 1
      BY <1>1
    <3> QED
      BY <1>7, <3>1 DEF FilterOk
  <2>4. st.i + 1 + (DaSize(a) - n) = DaSize(st.arr)
    BY <1>8
  <2> QED
    BY <2>2, <2>3, <2>4 DEF FilterOk
<1> QED
  BY <1>6, <1>7

FilterInit(a) == [arr |-> a, i |-> 0, out |-> DaNew(0, a.max_elts, a.order, FALSE)]
Filters(a, key, f) ==
  f = [n \in 0 .. DaSize(a) |-> IF n = 0 THEN FilterInit(a) ELSE FilterStep(f[n - 1], key)]

\* A filter looks at every element, and takes out all with the key and no other
\* (darray_filter).
LEMMA FilterKeeps ==
  ASSUME NEW a, ArrayOf(a, Elements), NEW key \in ArrayKeys
  PROVE  /\ ArrayOf(DaFilter(a, key).arr, Elements)
         /\ \A k \in ArrayKeys : KeyCount(DaFilter(a, key).arr.elts, k) =
                                   IF k = key THEN 0 ELSE KeyCount(a.elts, k)
         /\ DaSize(DaFilter(a, key).out) = KeyCount(a.elts, key)
         /\ \A i \in DOMAIN DaFilter(a, key).out.elts : DaFilter(a, key).out.elts[i][1] = key
<1> DEFINE N == DaSize(a)
           I == [n \in 0 .. N |-> {st \in FilterStates : FilterOk(a, key, n, st)}]
           init == FilterInit(a)
           step == [st \in FilterStates |-> FilterStep(st, key)]
           F == CHOOSE f : Filters(a, key, f)
<1>1. DaFilter(a, key) = F[N]
  BY Zenon DEF DaFilter, Filters, FilterInit
<1>2. N \in Nat
  BY ArrayFields DEF ArrayOf, DaSize
<1>3. init \in I[0]
  <2>1. init \in FilterStates /\ FilterOk(a, key, 0, init)
    BY FilterStarts DEF FilterInit
  <2>2. 0 \in 0 .. N
    BY <1>2
  <2> HIDE DEF init, N
  <2> QED
    BY <2>1, <2>2
<1>4. \A n \in 0 .. N : I[n] = {st \in FilterStates : FilterOk(a, key, n, st)}
  OBVIOUS
<1>5. ASSUME NEW n \in 1 .. N, NEW st \in I[n - 1] PROVE FilterStep(st, key) \in I[n]
  <2>1. n \in 0 .. N /\ n - 1 \in 0 .. N /\ n \in 1 .. DaSize(a)
    BY <1>2
  <2>2. st \in FilterStates /\ FilterOk(a, key, n - 1, st)
    BY <1>4, <2>1
  <2>3. FilterStep(st, key) \in FilterStates /\ FilterOk(a, key, n, FilterStep(st, key))
    BY <2>1, <2>2, FilterSteps
  <2> QED
    BY <1>4, <2>1, <2>3
<1>6. \A n \in 1 .. N : \A st \in I[n - 1] : st \in FilterStates /\ step[st] = FilterStep(st, key)
  <2>1. SUFFICES ASSUME NEW n \in 1 .. N, NEW st \in I[n - 1] PROVE st \in FilterStates
    OBVIOUS
  <2>2. n - 1 \in 0 .. N
    BY <1>2
  <2> QED
    BY <1>4, <2>2
<1> HIDE DEF I, N, F, step, init
<1>7. \A n \in 1 .. N : \A st \in I[n - 1] : step[st] \in I[n]
  BY <1>5, <1>6
<1>8. PICK f : RunsIn(f, N, I, init, step)
  BY <1>2, <1>3, <1>7, RunExists, Zenon
<1>9. Filters(a, key, f)
  <2>1. \A n \in 0 .. N : n # 0 => n \in 1 .. N /\ n - 1 \in 0 .. N
    BY <1>2
  <2>2. \A n \in 0 .. N : n # 0 => step[f[n - 1]] = FilterStep(f[n - 1], key)
    BY <1>6, <1>8, <2>1 DEF RunsIn
  <2>3. [n \in 0 .. N |-> IF n = 0 THEN init ELSE step[f[n - 1]]]
          = [n \in 0 .. N |-> IF n = 0 THEN init ELSE FilterStep(f[n - 1], key)]
    BY <2>2
  <2> QED
    BY <1>8, <2>3 DEF RunsIn, Filters, N, init
<1>10. Filters(a, key, F)
  BY <1>9 DEF F
<1>11. F[0] = init /\ \A n \in 1 .. N : F[n] = FilterStep(F[n - 1], key)
  <2>1. F = [n \in 0 .. N |-> IF n = 0 THEN init ELSE FilterStep(F[n - 1], key)]
    BY <1>10 DEF Filters, N, init
  <2>2. \A n \in 0 .. N : F[n] = IF n = 0 THEN init ELSE FilterStep(F[n - 1], key)
    BY <2>1
  <2>3. 0 \in 0 .. N /\ \A n \in 1 .. N : n \in 0 .. N /\ n # 0
    BY <1>2
  <2> QED
    BY <2>2, <2>3
<1>12. F[0] \in I[0] /\ \A n \in 1 .. N : F[n - 1] \in I[n - 1] => F[n] \in I[n]
  BY <1>3, <1>5, <1>11
<1>13. \A n \in 0 .. N : F[n] \in I[n]
  BY <1>2, <1>12, StaysIn
<1> DEFINE r == F[N]
<1>14. r \in FilterStates /\ FilterOk(a, key, N, r)
  BY <1>2, <1>4, <1>13
<1> HIDE DEF r
<1>15. r.arr.elts \in Seq(Elements) /\ r.out.elts \in Seq(Elements) /\ r.i \in Nat
  BY <1>14, ArrayFields DEF FilterStates
<1>16. r.i = Len(r.arr.elts)
  BY <1>2, <1>14, <1>15 DEF FilterOk, DaSize, N
<1>17. KeyCount(r.arr.elts, key) = 0
  BY <1>14, <1>15, <1>16, CountIsNumber DEF FilterOk
<1>18. DaSize(r.out) \in Nat
  BY <1>15 DEF DaSize
<1>19. DaSize(r.out) = KeyCount(a.elts, key)
  BY <1>14, <1>17, <1>18 DEF FilterOk
<1>20. \A i \in DOMAIN r.out.elts : r.out.elts[i][1] = key
  <2>1. \A i \in DOMAIN r.out.elts : r.out.elts[i] \in ElementsOf(r.out.elts)
    BY <1>15 DEF ElementsOf
  <2> QED
    BY <1>14, <2>1 DEF FilterOk
<1> QED
  BY <1>1, <1>14, <1>17, <1>19, <1>20 DEF FilterOk, r

-----------------------------------------------------------------------------
\* An array without elements has no key.
LEMMA EmptyHasNoKeys ==
  ASSUME NEW a \in DArrays(Elements), a.elts = <<>>, a.capacity <= a.alloc
  PROVE  ArrayOf(a, Elements) /\ \A k \in ArrayKeys : KeyCount(a.elts, k) = NoKeys[k]
<1>1. a.elts \in Seq(Elements) /\ Len(a.elts) = 0 /\ a.capacity \in Nat
  BY ArrayFields
<1>2. ArrayOf(a, Elements)
  BY <1>1 DEF ArrayOf, Ascending
<1>3. ASSUME NEW k \in ArrayKeys PROVE KeyCount(a.elts, k) = 0
  <2> DEFINE s == a.elts
  <2>1. s \in Seq(Elements) /\ \A i \in 1 .. Len(s) : s[i][1] # k
    BY <1>1
  <2> HIDE DEF s
  <2>2. KeyCount(s, k) = 0
    BY <2>1, CountIsNumber
  <2> QED
    BY <2>2 DEF s
<1> QED
  BY <1>2, <1>3 DEF NoKeys

\* Taking out all elements changes nothing else.
LEMMA EmptiedFields ==
  ASSUME NEW a \in DArrays(Elements), NEW b, b = [a EXCEPT !.elts = <<>>]
  PROVE  b \in DArrays(Elements) /\ b.elts = <<>> /\ b.capacity = a.capacity /\ b.alloc = a.alloc
<1> DEFINE s == <<>>
<1>1. s \in Seq(Elements) /\ b = [a EXCEPT !.elts = s]
  OBVIOUS
<1> HIDE DEF s
<1>2. b \in DArrays(Elements) /\ b.elts = s /\ b.capacity = a.capacity /\ b.alloc = a.alloc
  BY <1>1 DEF DArrays
<1> QED
  BY <1>2 DEF s

\* A larger capacity changes nothing else.
LEMMA ExtendKeeps ==
  ASSUME NEW a, ArrayOf(a, Elements), NEW size \in Nat, size > a.capacity, NEW b, b = DaExtend(a, size, TRUE)
  PROVE  ArrayOf(b, Elements) /\ b.elts = a.elts
<1>1. /\ a \in DArrays(Elements) /\ Len(a.elts) \in Nat /\ a.capacity \in Nat
      /\ Len(a.elts) <= a.capacity
  BY ArrayFields DEF ArrayOf
<1>2. CASE a.noalloc
  BY <1>2 DEF DaExtend
<1>3. CASE ~a.noalloc
  <2>1. b = [a EXCEPT !.capacity = size, !.alloc = size]
    BY <1>3 DEF DaExtend
  <2>2. /\ b \in DArrays(Elements) /\ b.elts = a.elts /\ b.order = a.order
        /\ b.capacity = size /\ b.alloc = size
    BY <1>1, <2>1 DEF DArrays
  <2>3. Len(a.elts) <= size /\ size <= size
    BY <1>1
  <2> QED
    BY <2>2, <2>3 DEF ArrayOf
<1> QED
  BY <1>2, <1>3

\* A resize keeps the elements, unless it is to nothing (darray_resize).
LEMMA ResizeKeeps ==
  ASSUME NEW a, ArrayOf(a, Elements), NEW size \in Nat, size > DaSize(a) \/ size = 0,
         NEW b, b = DaResize(a, size, TRUE)
  PROVE  /\ ArrayOf(b, Elements)
         /\ size = 0 => \A k \in ArrayKeys : KeyCount(b.elts, k) = NoKeys[k]
         /\ size # 0 => b.elts = a.elts
<1>1. /\ a \in DArrays(Elements) /\ a.elts \in Seq(Elements) /\ Len(a.elts) \in Nat /\ DaSize(a) = Len(a.elts)
      /\ a.capacity \in Nat /\ a.alloc \in Nat /\ Len(a.elts) <= a.capacity /\ a.capacity <= a.alloc
  BY ArrayFields DEF ArrayOf, DaSize
<1>2. CASE size > a.capacity
  <2>1. b = DaExtend(a, size, TRUE)
    BY <1>2, Zenon DEF DaResize
  <2>2. size # 0
    BY <1>1, <1>2
  <2> QED
    BY <1>2, <2>1, <2>2, ExtendKeeps
<1>3. CASE size = a.capacity
  <2>0. ~(size > a.capacity) /\ ~(size < a.capacity)
    BY <1>1, <1>3
  <2>1. b = a
    BY <2>0, Zenon DEF DaResize
  <2>2. size = 0 => a.elts = <<>>
    BY <1>1, <1>3
  <2> QED
    BY <1>1, <2>1, <2>2, EmptyHasNoKeys
<1>4. CASE size < a.capacity
  <2>0. ~(size > a.capacity)
    BY <1>1, <1>4
  <2>1. b = DaShrink(a, size, TRUE)
    BY <1>4, <2>0, Zenon DEF DaResize
  <2>2. CASE size = 0
    <3>1. b = [a EXCEPT !.capacity = 0, !.elts = <<>>]
      BY <2>1, <2>2 DEF DaShrink
    <3> DEFINE c == [a EXCEPT !.capacity = 0]
    <3>4. c \in DArrays(Elements) /\ c.capacity = 0 /\ c.alloc = a.alloc /\ c.alloc \in Nat
      BY <1>1 DEF DArrays
    <3>5. b = [c EXCEPT !.elts = <<>>]
      BY <3>1
    <3> HIDE DEF c
    <3>2. b \in DArrays(Elements) /\ b.elts = <<>> /\ b.capacity = 0 /\ b.alloc = c.alloc
      BY <3>4, <3>5, EmptiedFields
    <3>6. b.alloc \in Nat
      BY <3>2, <3>4
    <3>7. b.capacity = 0
      BY <3>2, <3>4
    <3>3. b.capacity <= b.alloc
      BY ONLY <3>6, <3>7
    <3> QED
      BY <2>2, <3>2, <3>3, EmptyHasNoKeys
  <2>3. CASE size # 0
    <3>1. size > Len(a.elts) /\ size <= a.capacity
      BY <1>1, <1>4, <2>3
    <3>2. /\ b \in DArrays(Elements) /\ b.elts = a.elts /\ b.order = a.order
          /\ Len(b.elts) <= b.capacity /\ b.capacity <= b.alloc
      <4> DEFINE ok == TRUE
      <4>1. /\ a \in DArrays(Elements) /\ a.capacity <= a.alloc /\ Len(a.elts) <= a.capacity
            /\ size \in Nat /\ size > Len(a.elts) /\ size <= a.capacity
            /\ ok \in BOOLEAN /\ b = DaShrink(a, size, ok)
        BY <1>1, <2>1, <3>1
      <4> HIDE DEF ok
      <4> QED
        BY ONLY <4>1, ShrinkKeeps
    <3>3. ArrayOf(b, Elements)
      BY <3>2 DEF ArrayOf
    <3> QED
      BY <2>3, <3>2, <3>3
  <2> QED
    BY <2>2, <2>3
<1>5. size > a.capacity \/ size = a.capacity \/ size < a.capacity
  BY <1>1
<1> QED
  BY <1>2, <1>3, <1>4, <1>5, Zenon

\* What the array in use relies on.
ArrayInv ==
  /\ darr \in DArrays(Elements) /\ Len(darr.elts) <= darr.alloc
  /\ darrLoose \in BOOLEAN /\ (darrLoose \/ ArrayOf(darr, Elements))
  /\ darrKeys \in [ArrayKeys -> Nat]
  /\ \A k \in ArrayKeys : KeyCount(darr.elts, k) = darrKeys[k]

\* No array has more elements than slots.
LEMMA ElementsHaveSlots ==
  ASSUME NEW E, NEW a, ArrayOf(a, E)
  PROVE  a \in DArrays(E) /\ Len(a.elts) <= a.alloc
<1>1. a \in DArrays(E) /\ Len(a.elts) <= a.capacity /\ a.capacity <= a.alloc
  BY DEF ArrayOf
<1>2. Len(a.elts) \in Nat /\ a.capacity \in Nat /\ a.alloc \in Nat
  BY <1>1, ArrayFields
<1> QED
  BY <1>1, <1>2

\* Every operation of the array in use keeps what it relies on.
LEMMA DarrStep ==
  ASSUME ArrayInv, DarrNext
  PROVE  ArrayInv'
<1>0. ~darrLoose
  BY DEF DarrNext
<1>1. /\ ArrayOf(darr, Elements) /\ darr \in DArrays(Elements) /\ darr.elts \in Seq(Elements)
      /\ DaSize(darr) = Len(darr.elts) /\ DaSize(darr) \in Nat /\ darr.noalloc \in BOOLEAN
      /\ darr.capacity \in Nat /\ darr.alloc \in Nat
      /\ Len(darr.elts) <= darr.capacity /\ darr.capacity <= darr.alloc
      /\ darrKeys \in [ArrayKeys -> Nat]
      /\ \A k \in ArrayKeys : KeyCount(darr.elts, k) = darrKeys[k]
  BY <1>0, ArrayFields DEF ArrayInv, ArrayOf, DaSize
<1>2. darrLoose' \in BOOLEAN
  BY <1>0, Zenon DEF DarrNext, DarrInsert, DarrExtendFails, DarrRemove, DarrResize, DarrSort,
       DarrClear, DarrFilter, ArrayInv
<1>3. NoKeys \in [ArrayKeys -> Nat]
  BY DEF NoKeys
<1>4. ASSUME NEW k \in ArrayKeys, NEW i \in 0 .. ArrayMax, DarrInsert(k, i)
      PROVE  /\ ArrayOf(darr', Elements) /\ darrKeys' \in [ArrayKeys -> Nat]
             /\ \A l \in ArrayKeys : KeyCount(darr'.elts, l) = darrKeys'[l]
  <2>1. /\ i \in 0 .. DaSize(darr) /\ (darr.capacity > DaSize(darr) \/ ~darr.noalloc)
        /\ darr' = DaInsert(darr, <<k, 0>>, i) /\ darrKeys' = [darrKeys EXCEPT ![k] = @ + 1]
    BY <1>1, <1>4, DArrayAssumption DEF DarrInsert, DaInsertOk
  <2> DEFINE e == <<k, 0>>
  <2>2. e \in Elements /\ e[1] = k
    BY ElementsKeyed
  <2> HIDE DEF e
  <2>3. /\ ArrayOf(darr', Elements)
        /\ \A l : /\ KeyCount(darr.elts, l) \in Nat
                  /\ KeyCount(darr'.elts, l) =
                       IF e[1] = l THEN KeyCount(darr.elts, l) + 1 ELSE KeyCount(darr.elts, l)
    <3> DEFINE a == darr
               b == darr'
    <3>1. /\ ArrayOf(a, Elements) /\ e \in Elements /\ i \in 0 .. DaSize(a)
          /\ (a.capacity > DaSize(a) \/ ~a.noalloc) /\ b = DaInsert(a, e, i)
      BY <1>1, <2>1, <2>2 DEF e
    <3> HIDE DEF a, b
    <3>2. /\ ArrayOf(b, Elements)
          /\ \A l : /\ KeyCount(a.elts, l) \in Nat
                    /\ KeyCount(b.elts, l) = IF e[1] = l THEN KeyCount(a.elts, l) + 1 ELSE KeyCount(a.elts, l)
      BY ONLY <3>1, ElementsKeyed, InsertKeeps
    <3> QED
      BY <3>2, Zenon DEF a, b
  <2>4. \A l \in ArrayKeys : darrKeys'[l] = IF l = k THEN darrKeys[l] + 1 ELSE darrKeys[l]
    BY <1>1, <2>1
  <2>5. darrKeys' \in [ArrayKeys -> Nat]
    BY <1>1, <2>1
  <2>6. \A l \in ArrayKeys : KeyCount(darr'.elts, l) = darrKeys'[l]
    <3> DEFINE n(l) == KeyCount(darr.elts, l)
               m(l) == KeyCount(darr'.elts, l)
    <3>1. \A l \in ArrayKeys : n(l) = darrKeys[l] /\ m(l) = IF l = k THEN n(l) + 1 ELSE n(l)
      BY <1>1, <2>2, <2>3, Zenon
    <3> HIDE DEF n, m
    <3>2. \A l \in ArrayKeys : m(l) = darrKeys'[l]
      BY <2>4, <3>1
    <3> QED
      BY <3>2 DEF m
  <2> QED
    BY <2>3, <2>5, <2>6
<1>5. ASSUME NEW i \in 0 .. ArrayMax - 1, NEW ok \in BOOLEAN, DarrRemove(i, ok)
      PROVE  /\ ArrayOf(darr', Elements) /\ darrKeys' \in [ArrayKeys -> Nat]
             /\ \A l \in ArrayKeys : KeyCount(darr'.elts, l) = darrKeys'[l]
  <2> DEFINE e == darr.elts[i + 1]
  <2>1. /\ i \in 0 .. DaSize(darr) - 1 /\ darr' = DaRemove(darr, i, ok)
        /\ darrKeys' = [darrKeys EXCEPT ![e[1]] = @ - 1]
    BY <1>1, <1>5, DArrayAssumption DEF DarrRemove, DaGet
  <2>2. ArrayOf(darr', Elements) /\ e \in Elements /\ Gains(darr'.elts, darr.elts, e)
    BY <1>1, <2>1, ElementsKeyed, RemoveKeeps DEF Removed
  <2>3. darr'.elts \in Seq(Elements)
    BY <2>2, ArrayFields DEF ArrayOf
  <2>4. e[1] \in ArrayKeys
    BY <2>2, ElementsKeyed
  <2> HIDE DEF e
  <2>5. \A l : /\ KeyCount(darr'.elts, l) \in Nat
               /\ KeyCount(darr.elts, l) = IF e[1] = l THEN KeyCount(darr'.elts, l) + 1
                                           ELSE KeyCount(darr'.elts, l)
    BY <1>1, <2>2, <2>3, GainsCount
  <2>8. \A l \in ArrayKeys : darrKeys'[l] = IF l = e[1] THEN darrKeys[l] - 1 ELSE darrKeys[l]
    BY <1>1, <2>1, <2>4
  <2>6. \A l \in ArrayKeys : KeyCount(darr'.elts, l) = darrKeys'[l]
    <3> DEFINE n(l) == KeyCount(darr.elts, l)
               m(l) == KeyCount(darr'.elts, l)
    <3>1. \A l \in ArrayKeys : n(l) = darrKeys[l]
      BY <1>1, Zenon
    <3>2. \A l \in ArrayKeys : m(l) \in Nat /\ n(l) = IF e[1] = l THEN m(l) + 1 ELSE m(l)
      BY <2>5, Zenon
    <3> HIDE DEF n, m
    <3>3. \A l \in ArrayKeys : m(l) = darrKeys'[l]
      BY <2>8, <3>1, <3>2
    <3> QED
      BY <3>3 DEF m
  <2>7. darrKeys' \in [ArrayKeys -> Nat]
    <3>1. darrKeys' = [l \in ArrayKeys |-> darrKeys'[l]]
      BY <1>1, <2>1
    <3> QED
      BY <2>5, <2>6, <3>1
  <2> QED
    BY <2>2, <2>6, <2>7
<1>6. ASSUME NEW n \in 0 .. MaxCapacity, DarrResize(n)
      PROVE  /\ ArrayOf(darr', Elements) /\ darrKeys' \in [ArrayKeys -> Nat]
             /\ \A l \in ArrayKeys : KeyCount(darr'.elts, l) = darrKeys'[l]
  <2>1. /\ n \in Nat /\ (n > DaSize(darr) \/ n = 0) /\ darr' = DaResize(darr, n, TRUE)
        /\ darrKeys' = IF n = 0 THEN NoKeys ELSE darrKeys
    BY <1>6, DArrayAssumption DEF DarrResize
  <2>2. /\ ArrayOf(darr', Elements)
        /\ n = 0 => \A k \in ArrayKeys : KeyCount(darr'.elts, k) = NoKeys[k]
        /\ n # 0 => darr'.elts = darr.elts
    <3> DEFINE a == darr
               b == darr'
    <3>1. /\ ArrayOf(a, Elements) /\ n \in Nat /\ (n > DaSize(a) \/ n = 0) /\ b = DaResize(a, n, TRUE)
      BY <1>1, <2>1
    <3> HIDE DEF a, b
    <3>2. /\ ArrayOf(b, Elements)
          /\ n = 0 => \A k \in ArrayKeys : KeyCount(b.elts, k) = NoKeys[k]
          /\ n # 0 => b.elts = a.elts
      BY ONLY <3>1, ResizeKeeps
    <3> QED
      BY <3>2 DEF a, b
  <2> QED
    BY <1>1, <1>3, <2>1, <2>2
<1>7. ASSUME DarrSort
      PROVE  /\ ArrayOf(darr', Elements) /\ darrKeys' \in [ArrayKeys -> Nat]
             /\ \A l \in ArrayKeys : KeyCount(darr'.elts, l) = darrKeys'[l]
  <2>1. darr' = DaSort(darr) /\ darrKeys' = darrKeys
    BY <1>7 DEF DarrSort
  <2>2. darr.sorted => Ascending(darr.elts) \/ darr.order # "sorted"
    BY <1>1 DEF ArrayOf
  <2>3. ArrayOf(darr', Elements) /\ \A k : KeyCount(darr'.elts, k) = KeyCount(darr.elts, k)
    <3> DEFINE a == darr
               b == darr'
    <3>1. /\ a \in DArrays(Elements) /\ Len(a.elts) <= a.capacity /\ a.capacity <= a.alloc
          /\ b = DaSort(a) /\ (a.sorted => Ascending(a.elts) \/ a.order # "sorted")
      BY <1>1, <2>1, <2>2
    <3> HIDE DEF a, b
    <3>2. ArrayOf(b, Elements) /\ \A k : KeyCount(b.elts, k) = KeyCount(a.elts, k)
      BY ONLY <3>1, ElementsKeyed, SortKeeps
    <3> QED
      BY <3>2 DEF a, b
  <2> QED
    BY <1>1, <2>1, <2>3
<1>8. ASSUME DarrClear
      PROVE  /\ ArrayOf(darr', Elements) /\ darrKeys' \in [ArrayKeys -> Nat]
             /\ \A l \in ArrayKeys : KeyCount(darr'.elts, l) = darrKeys'[l]
  <2>1. darr' = [darr EXCEPT !.elts = <<>>] /\ darrKeys' = NoKeys
    BY <1>8 DEF DarrClear, DaClear
  <2>3. /\ darr' \in DArrays(Elements) /\ darr'.elts = <<>>
        /\ darr'.capacity = darr.capacity /\ darr'.alloc = darr.alloc
    <3> DEFINE a == darr
               b == darr'
    <3>1. a \in DArrays(Elements) /\ b = [a EXCEPT !.elts = <<>>]
      BY <1>1, <2>1
    <3> HIDE DEF a, b
    <3>2. b \in DArrays(Elements) /\ b.elts = <<>> /\ b.capacity = a.capacity /\ b.alloc = a.alloc
      BY <3>1, EmptiedFields
    <3> QED
      BY <3>2 DEF a, b
  <2>4. darr'.capacity <= darr'.alloc
    BY <1>1, <2>3
  <2> QED
    BY <1>3, <2>1, <2>3, <2>4, EmptyHasNoKeys
<1>9. ASSUME NEW k \in ArrayKeys, DarrFilter(k)
      PROVE  /\ ArrayOf(darr', Elements) /\ darrKeys' \in [ArrayKeys -> Nat]
             /\ \A l \in ArrayKeys : KeyCount(darr'.elts, l) = darrKeys'[l]
  <2>1. darr' = DaFilter(darr, k).arr /\ darrKeys' = [darrKeys EXCEPT ![k] = 0]
    BY <1>9 DEF DarrFilter
  <2>2. /\ ArrayOf(darr', Elements)
        /\ \A l \in ArrayKeys : KeyCount(darr'.elts, l) = IF l = k THEN 0 ELSE KeyCount(darr.elts, l)
    BY <1>1, <2>1, FilterKeeps
  <2> QED
    BY <1>1, <2>1, <2>2
<1>10. ASSUME NEW n \in Int, DarrExtendFails(n)
       PROVE  ArrayInv'
  <2>1. /\ darr' = DaExtend(darr, n, FALSE) /\ darrLoose' = TRUE /\ darrKeys' = darrKeys
        /\ ~darr.noalloc /\ n > darr.capacity
    BY <1>10 DEF DarrExtendFails
  <2>2. darr' = [darr EXCEPT !.capacity = n, !.alloc = darr.alloc] /\ n \in Nat
    <3>1. n \in Nat
      BY <1>1, <2>1
    <3> QED
      BY <2>1, <3>1, Zenon DEF DaExtend
  <2>3. darr' \in DArrays(Elements) /\ darr'.elts = darr.elts /\ darr'.alloc = darr.alloc
    BY <1>1, <2>2 DEF DArrays
  <2> QED
    BY <1>1, <2>1, <2>3 DEF ArrayInv
<1>11. \/ \E n \in Int : DarrExtendFails(n)
       \/ \E k \in ArrayKeys, i \in 0 .. ArrayMax : DarrInsert(k, i)
       \/ \E i \in 0 .. ArrayMax - 1, ok \in BOOLEAN : DarrRemove(i, ok)
       \/ \E n \in 0 .. MaxCapacity : DarrResize(n)
       \/ DarrSort \/ DarrClear
       \/ \E k \in ArrayKeys : DarrFilter(k)
  <2>1. \A n \in 1 .. Greatest({2 * darr.capacity, MaxCapacity, 1}) : n \in Int
    OBVIOUS
  <2> QED
    BY <2>1, Zenon DEF DarrNext
<1>12. \/ /\ ArrayOf(darr', Elements) /\ darrKeys' \in [ArrayKeys -> Nat]
          /\ \A l \in ArrayKeys : KeyCount(darr'.elts, l) = darrKeys'[l]
       \/ ArrayInv'
  BY <1>4, <1>5, <1>6, <1>7, <1>8, <1>9, <1>10, <1>11, Zenon
<1>13. CASE /\ ArrayOf(darr', Elements) /\ darrKeys' \in [ArrayKeys -> Nat]
            /\ \A l \in ArrayKeys : KeyCount(darr'.elts, l) = darrKeys'[l]
  <2>1. darr' \in DArrays(Elements) /\ Len(darr'.elts) <= darr'.alloc
    BY <1>13, ElementsHaveSlots
  <2> QED
    BY <1>2, <1>13, <2>1, Zenon DEF ArrayInv
<1> QED
  BY <1>12, <1>13

\* The dynamic array always holds as many elements with each key as were put in
\* and not taken out, in no more slots than were allocated, and, until an
\* extension fails, in order if it is kept so (darray_insert, darray_remove,
\* darray_resize, darray_sort, darray_clear, darray_filter).
THEOREM ArrayInvariant == DarrSpec => []ArrayInv
<1>1. DarrInit => ArrayInv
  <2>1. SUFFICES ASSUME DarrInit PROVE ArrayInv
    OBVIOUS
  <2>2. PICK size \in 0 .. 1, max \in {-1, ArrayMax}, order \in {"none", "ordered", "sorted"}, noalloc \in BOOLEAN :
          darr = DaNew(size, max, order, noalloc) /\ (noalloc => max = ArrayMax)
    <3>1. CASE darr = DaNew(0, ArrayMax, "sorted", TRUE)
      <4>1. 0 \in 0 .. 1
        OBVIOUS
      <4> QED
        BY <3>1, <4>1
    <3>2. CASE darr # DaNew(0, ArrayMax, "sorted", TRUE)
      <4>1. PICK size \in 0 .. 1, max \in {-1, ArrayMax}, order \in {"none", "ordered", "sorted"} :
              darr = DaNew(size, max, order, FALSE)
        BY <2>1, <3>2, Zenon DEF DarrInit
      <4> QED
        BY <4>1
    <3> QED
      BY <3>1, <3>2
  <2> DEFINE slots == IF noalloc THEN max ELSE size
  <2>3. slots \in Nat /\ max \in Int
    BY <2>2, DArrayAssumption
  <2>4. darr = [elts |-> <<>>, capacity |-> slots, alloc |-> slots, max_elts |-> max,
                sorted |-> FALSE, order |-> order, noalloc |-> noalloc]
    BY <2>2 DEF DaNew
  <2> HIDE DEF slots
  <2>5. darr \in DArrays(Elements) /\ darr.elts = <<>> /\ darr.capacity = slots /\ darr.alloc = slots
    BY <2>3, <2>4 DEF DArrays
  <2>6. darr.capacity <= darr.alloc
    BY <2>3, <2>5
  <2>7. ArrayOf(darr, Elements) /\ \A k \in ArrayKeys : KeyCount(darr.elts, k) = NoKeys[k]
    BY <2>5, <2>6, EmptyHasNoKeys
  <2> QED
    BY <2>1, <2>7, ElementsHaveSlots DEF DarrInit, ArrayInv, NoKeys
<1>2. ArrayInv /\ [DarrNext]_darrVars => ArrayInv'
  <2>1. ASSUME ArrayInv, UNCHANGED darrVars PROVE ArrayInv'
    BY <2>1 DEF darrVars, ArrayInv
  <2> QED
    BY <2>1, DarrStep
<1> QED
  BY <1>1, <1>2, PTL DEF DarrSpec

\* So a query finds every key that is in the array and no other, where the mark
\* is not stale; what a filter takes out is all with its key; and a copy has
\* the elements of the original.
LEMMA InvGivesElements == ArrayInv => ArrayHoldsElements
<1>0. SUFFICES ASSUME ArrayInv, ~darrLoose PROVE ArrayHoldsElements
  BY DEF ArrayInv, ArrayHoldsElements, Elements, DaSize
<1>1. ArrayInv /\ ArrayOf(darr, Elements) /\ Len(darr.elts) <= darr.alloc
  BY <1>0 DEF ArrayInv
<1>2. /\ ArrayOf(darr, Elements) /\ darr \in DArrays(Elements) /\ darr.elts \in Seq(Elements)
      /\ DaSize(darr) = Len(darr.elts) /\ DaSize(darr) \in Nat
      /\ \A k \in ArrayKeys : KeyCount(darr.elts, k) = darrKeys[k] /\ darrKeys[k] \in Nat
  BY <1>1, ArrayFields DEF ArrayInv, ArrayOf, DaSize
<1>3. ASSUME MarkIsTrue(darr), NEW k \in ArrayKeys, NEW q, q = DaQuery(darr, <<k, 0>>)
      PROVE  IF darrKeys[k] > 0 THEN q \in 0 .. DaSize(darr) - 1 /\ DaGet(darr, q)[1] = k ELSE q = -1
  <2>1. Keyed(Elements) /\ k \in Int
    BY ElementsKeyed, DArrayAssumption
  <2>2. \/ q = -1 /\ \A x \in ElementsOf(darr.elts) : x[1] # k
        \/ q \in 0 .. DaSize(darr) - 1 /\ darr.elts[q + 1] \in ElementsOf(darr.elts) /\ darr.elts[q + 1][1] = k
    BY <1>2, <1>3, <2>1, ArrayQuery
  <2>3. KeyCount(darr.elts, k) = 0 <=> \A i \in 1 .. Len(darr.elts) : darr.elts[i][1] # k
    BY <1>2, CountIsNumber
  <2>4. CASE q = -1 /\ \A x \in ElementsOf(darr.elts) : x[1] # k
    <3>1. \A i \in 1 .. Len(darr.elts) : darr.elts[i][1] # k
      BY <2>4 DEF ElementsOf
    <3> QED
      BY <1>2, <2>3, <2>4, <3>1
  <2>5. CASE q \in 0 .. DaSize(darr) - 1 /\ darr.elts[q + 1][1] = k
    <3>1. q + 1 \in 1 .. Len(darr.elts)
      BY <1>2, <2>5
    <3>2. darrKeys[k] # 0
      BY <1>2, <2>3, <2>5, <3>1
    <3> QED
      BY <1>2, <2>5, <3>2 DEF DaGet
  <2> QED
    BY <2>2, <2>4, <2>5
<1>4. ASSUME NEW k \in ArrayKeys
      PROVE  /\ DaSize(DaFilter(darr, k).out) = darrKeys[k]
             /\ \A i \in DOMAIN DaFilter(darr, k).out.elts : DaFilter(darr, k).out.elts[i][1] = k
  BY <1>2, FilterKeeps
<1>5. KeySeq(DaCopy(darr)) = KeySeq(darr)
  <2>1. DaCopy(darr).elts = darr.elts
    BY DEF DaCopy, DaNew
  <2> QED
    BY <2>1 DEF KeySeq
<1>6. darr \in DArrays(ArrayKeys \X {0})
  BY <1>2 DEF Elements
<1>7. DaSize(darr) <= darr.capacity /\ darr.capacity <= darr.alloc /\ (darr.order = "sorted" => Ascending(darr.elts))
  BY <1>2 DEF ArrayOf
<1>8. \A k \in ArrayKeys : KeyCount(darr.elts, k) = darrKeys[k]
  BY <1>2
<1>9. MarkIsTrue(darr) =>
        \A k \in ArrayKeys :
          LET i == DaQuery(darr, <<k, 0>>)
          IN  IF darrKeys[k] > 0 THEN i \in 0 .. DaSize(darr) - 1 /\ DaGet(darr, i)[1] = k
              ELSE i = -1
  <2>1. SUFFICES ASSUME MarkIsTrue(darr), NEW k \in ArrayKeys
                 PROVE  LET i == DaQuery(darr, <<k, 0>>)
                        IN  IF darrKeys[k] > 0 THEN i \in 0 .. DaSize(darr) - 1 /\ DaGet(darr, i)[1] = k
                            ELSE i = -1
    BY Zenon
  <2> DEFINE q == DaQuery(darr, <<k, 0>>)
  <2>2. IF darrKeys[k] > 0 THEN q \in 0 .. DaSize(darr) - 1 /\ DaGet(darr, q)[1] = k ELSE q = -1
    BY <1>3, <2>1
  <2> QED
    BY <2>2
<1>10. \A k \in ArrayKeys :
         LET out == DaFilter(darr, k).out
         IN  DaSize(out) = darrKeys[k] /\ \A i \in DOMAIN out.elts : out.elts[i][1] = k
  BY <1>4, Zenon
<1>11. DaSize(darr) <= darr.alloc
  BY <1>1 DEF DaSize
<1> QED
  BY <1>5, <1>6, <1>7, <1>8, <1>9, <1>10, <1>11, Zenon DEF ArrayHoldsElements

\* The dynamic array holds what was put in and not taken out, and, until an
\* extension fails, its queries, filters and copies agree with that.
THEOREM ElementsKept == DarrSpec => []ArrayHoldsElements
  BY ArrayInvariant, InvGivesElements, PTL

-----------------------------------------------------------------------------
\* The binary heap: an array with a scratch slot and the elements behind it.
HeapElts == (HeapKeys \X {0}) \cup {Scratch}

HeapOk(h) ==
  /\ h \in BinHeaps(HeapElts) /\ ArrayOf(h.arr, HeapElts)
  /\ h.arr.order = "none" /\ h.arr.noalloc = FALSE /\ h.arr.max_elts = HeapMax + 1
  /\ DaSize(h.arr) >= 1 /\ h.arr.elts[1] = Scratch
  /\ \A i \in 1 .. HeapSize(h) : HeapKey(h, i) \in HeapKeys

\* Its keys are compared as integers.
LEMMA HeapKeyed ==
  /\ Keyed(HeapElts) /\ Scratch \in HeapElts /\ Scratch[1] = 0
  /\ \A k \in HeapKeys : k \in Int /\ <<k, 0>> \in HeapElts /\ <<k, 0>>[1] = k
<1>1. \A k \in HeapKeys : k \in Int
  BY HeapAssumption
<1>2. \A k \in HeapKeys : <<k, 0>> \in HeapElts /\ <<k, 0>>[1] = k
  BY DEF HeapElts
<1>3. Scratch \in HeapElts /\ Scratch[1] = 0
  BY DEF HeapElts, Scratch
<1>4. \A e \in HeapElts : e[1] \in Int
  <2>1. \A e \in HeapKeys \X {0} : e[1] \in HeapKeys
    OBVIOUS
  <2> QED
    BY <1>1, <1>3, <2>1 DEF HeapElts
<1> QED
  BY <1>1, <1>2, <1>3, <1>4 DEF Keyed

\* What a heap is made of.
LEMMA HeapFields ==
  ASSUME NEW h, HeapOk(h)
  PROVE  /\ h.min \in BOOLEAN /\ h.arr \in DArrays(HeapElts) /\ h.arr.elts \in Seq(HeapElts)
         /\ HeapSize(h) \in Nat /\ Len(h.arr.elts) = HeapSize(h) + 1 /\ DaSize(h.arr) = HeapSize(h) + 1
         /\ h.arr.elts[1] = Scratch
         /\ \A i \in 1 .. HeapSize(h) : HeapKey(h, i) = h.arr.elts[i + 1][1] /\ HeapKey(h, i) \in Int
<1>1. h.min \in BOOLEAN /\ h.arr \in DArrays(HeapElts) /\ h.arr.elts[1] = Scratch /\ DaSize(h.arr) >= 1
  BY DEF HeapOk, BinHeaps
<1>2. h.arr.elts \in Seq(HeapElts)
  BY <1>1, ArrayFields
<1> DEFINE n == Len(h.arr.elts)
<1>3. DaSize(h.arr) = n /\ HeapSize(h) = n - 1 /\ n \in Nat /\ n >= 1
  BY <1>1, <1>2 DEF DaSize, HeapSize
<1>4. \A i \in 1 .. HeapSize(h) : HeapKey(h, i) = h.arr.elts[i + 1][1] /\ HeapKey(h, i) \in Int
  BY HeapKeyed DEF HeapKey, DaGet, HeapOk
<1> HIDE DEF n
<1>5. HeapSize(h) \in Nat /\ n = HeapSize(h) + 1
  BY <1>3
<1> QED
  BY <1>1, <1>2, <1>3, <1>4, <1>5 DEF n

\* A heap with another array.
LEMMA HeapWith ==
  ASSUME NEW E, NEW h \in BinHeaps(E), NEW b \in DArrays(E), NEW g, g = [h EXCEPT !.arr = b]
  PROVE  g \in BinHeaps(E) /\ g.arr = b /\ g.min = h.min
BY DEF BinHeaps

SetTo(a, i, e, b, E) ==
  /\ ArrayOf(b, E) /\ Len(b.elts) = Len(a.elts)
  /\ b.noalloc = a.noalloc /\ b.order = a.order /\ b.max_elts = a.max_elts
  /\ b.elts = [a.elts EXCEPT ![i + 1] = e]
  /\ \A x \in 1 .. Len(a.elts) : b.elts[x] = IF x = i + 1 THEN e ELSE a.elts[x]

\* Setting an element changes that element (darray_data_set).
LEMMA SetIs ==
  ASSUME NEW E, NEW a, ArrayOf(a, E), a.order # "sorted", NEW i \in 0 .. DaSize(a) - 1, NEW e \in E,
         NEW b, b = DaSet(a, i, e)
  PROVE  SetTo(a, i, e, b, E)
<1> DEFINE s == a.elts
           t == [s EXCEPT ![i + 1] = e]
<1>1. /\ a \in DArrays(E) /\ s \in Seq(E) /\ DaSize(a) = Len(s) /\ Len(s) \in Nat
      /\ a.capacity \in Nat /\ a.alloc \in Nat /\ Len(s) <= a.capacity /\ a.capacity <= a.alloc
  BY ArrayFields DEF ArrayOf, DaSize
<1>2. b = [a EXCEPT !.elts = t]
  BY <1>1 DEF DaSet
<1>3. t \in Seq(E) /\ Len(t) = Len(s) /\ \A x \in 1 .. Len(s) : t[x] = IF x = i + 1 THEN e ELSE s[x]
  BY <1>1
<1> HIDE DEF t
<1>4. /\ b \in DArrays(E) /\ b.elts = t /\ b.noalloc = a.noalloc /\ b.order = a.order
      /\ b.max_elts = a.max_elts /\ b.capacity = a.capacity /\ b.alloc = a.alloc
  BY <1>1, <1>2, <1>3, ArrayFields
<1>5. Len(t) <= a.capacity
  BY <1>1, <1>3
<1>6. ArrayOf(b, E)
  BY <1>1, <1>4, <1>5 DEF ArrayOf
<1> QED
  BY <1>3, <1>4, <1>6 DEF SetTo, t

\* A heap with as many elements, and as many with each key.
Kept(h, g) ==
  /\ HeapOk(g) /\ HeapSize(g) = HeapSize(h) /\ g.min = h.min
  /\ \A k : KeyCount(g.arr.elts, k) = KeyCount(h.arr.elts, k)

\* Exchanging two elements changes nothing else (binheap_swap).
LEMMA SwapKeeps ==
  ASSUME NEW h, HeapOk(h), NEW i \in 1 .. HeapSize(h), NEW j \in 1 .. HeapSize(h), i # j,
         NEW g, g = HeapSwap(h, i, j)
  PROVE  /\ Kept(h, g)
         /\ \A x \in 1 .. HeapSize(h) : HeapKey(g, x) = IF x = i THEN HeapKey(h, j)
                                                        ELSE IF x = j THEN HeapKey(h, i) ELSE HeapKey(h, x)
<1> DEFINE a == h.arr
           s == a.elts
           n == HeapSize(h)
           b == DaSet(a, i, DaGet(a, j))
           c == DaSet(b, j, DaGet(a, i))
           t == c.elts
<1>1. /\ h \in BinHeaps(HeapElts) /\ ArrayOf(a, HeapElts) /\ a.order = "none" /\ s \in Seq(HeapElts)
      /\ n \in Nat /\ Len(s) = n + 1 /\ DaSize(a) = n + 1 /\ s[1] = Scratch
      /\ \A x \in 1 .. n : HeapKey(h, x) = s[x + 1][1] /\ HeapKey(h, x) \in HeapKeys
  BY HeapFields DEF HeapOk
<1>2. /\ i \in 0 .. DaSize(a) - 1 /\ j \in 0 .. DaSize(a) - 1 /\ i \in 1 .. n /\ j \in 1 .. n
      /\ i + 1 \in 1 .. Len(s) /\ j + 1 \in 1 .. Len(s)
  <2>1. i \in 1 .. n /\ j \in 1 .. n
    OBVIOUS
  <2> DEFINE l == Len(s)
             m == DaSize(a)
  <2>2. l = n + 1 /\ m = n + 1 /\ n \in Nat
    BY <1>1
  <2> HIDE DEF n, l, m
  <2>3. /\ i \in 0 .. m - 1 /\ j \in 0 .. m - 1 /\ i + 1 \in 1 .. l /\ j + 1 \in 1 .. l
    BY <2>1, <2>2
  <2> QED
    BY <2>1, <2>3 DEF l, m
<1>3. /\ DaGet(a, j) = s[j + 1] /\ DaGet(a, i) = s[i + 1]
      /\ DaGet(a, j) \in HeapElts /\ DaGet(a, i) \in HeapElts
  <2>1. s[j + 1] \in HeapElts /\ s[i + 1] \in HeapElts
    <3> HIDE DEF s, n
    <3> QED
      BY <1>1, <1>2
  <2> QED
    BY <2>1 DEF DaGet
<1>4. g = [h EXCEPT !.arr = c]
  <2>1. i # 0 /\ j # 0
    BY <1>2
  <2> QED
    BY <2>1 DEF HeapSwap
<1> HIDE DEF n
<1>5. /\ ArrayOf(b, HeapElts) /\ Len(b.elts) = Len(s) /\ b.order = a.order
      /\ b.noalloc = a.noalloc /\ b.max_elts = a.max_elts
      /\ \A x \in 1 .. Len(s) : b.elts[x] = IF x = i + 1 THEN s[j + 1] ELSE s[x]
  <2> DEFINE e == DaGet(a, j)
  <2>1. ArrayOf(a, HeapElts) /\ a.order # "sorted" /\ i \in 0 .. DaSize(a) - 1 /\ e \in HeapElts /\ b = DaSet(a, i, e)
    BY <1>1, <1>2, <1>3
  <2> HIDE DEF a, b, e
  <2>2. SetTo(a, i, e, b, HeapElts)
    BY ONLY <2>1, SetIs
  <2> QED
    BY <1>3, <2>2 DEF SetTo, e
<1>6. /\ ArrayOf(c, HeapElts) /\ Len(t) = Len(s) /\ c.order = a.order
      /\ c.noalloc = a.noalloc /\ c.max_elts = a.max_elts
      /\ \A x \in 1 .. Len(s) : t[x] = IF x = j + 1 THEN s[i + 1] ELSE IF x = i + 1 THEN s[j + 1] ELSE s[x]
  <2> DEFINE e == DaGet(a, i)
  <2>1. DaSize(b) = DaSize(a)
    BY <1>5 DEF DaSize
  <2>2. ArrayOf(b, HeapElts) /\ b.order # "sorted" /\ j \in 0 .. DaSize(b) - 1 /\ e \in HeapElts /\ c = DaSet(b, j, e)
    BY <1>1, <1>2, <1>3, <1>5, <2>1
  <2> HIDE DEF a, b, c, e
  <2>3. SetTo(b, j, e, c, HeapElts)
    BY ONLY <2>2, SetIs
  <2> QED
    BY <1>3, <1>5, <2>3 DEF SetTo, e
<1> HIDE DEF a, b, c
<1>7. c \in DArrays(HeapElts) /\ t \in Seq(HeapElts) /\ g \in BinHeaps(HeapElts) /\ g.arr = c /\ g.min = h.min
  <2>1. c \in DArrays(HeapElts)
    BY <1>6 DEF ArrayOf
  <2>2. t \in Seq(HeapElts)
    BY <2>1, ArrayFields
  <2> QED
    BY <1>1, <1>4, <2>1, <2>2, HeapWith
<1>8. HeapSize(g) = n /\ DaSize(c) = n + 1
  BY <1>1, <1>6, <1>7 DEF HeapSize, DaSize
<1>9. \A x \in 1 .. n : HeapKey(g, x) = IF x = i THEN HeapKey(h, j)
                                        ELSE IF x = j THEN HeapKey(h, i) ELSE HeapKey(h, x)
  <2>1. SUFFICES ASSUME NEW x \in 1 .. n
                 PROVE  t[x + 1][1] = IF x = i THEN s[j + 1][1] ELSE IF x = j THEN s[i + 1][1] ELSE s[x + 1][1]
    <3>1. \A x \in 1 .. n : HeapKey(g, x) = t[x + 1][1]
      BY <1>7 DEF HeapKey, DaGet
    <3> QED
      BY <1>1, <1>2, <3>1
  <2> DEFINE y == x + 1
             u == i + 1
             v == j + 1
  <2>2. y \in 1 .. Len(s) /\ (y = u <=> x = i) /\ (y = v <=> x = j)
    BY <1>1, <1>2
  <2>3. t[y] = IF y = v THEN s[u] ELSE IF y = u THEN s[v] ELSE s[y]
    BY <1>6, <2>2
  <2> HIDE DEF y, u, v
  <2>4. t[y][1] = IF x = i THEN s[v][1] ELSE IF x = j THEN s[u][1] ELSE s[y][1]
    BY <2>2, <2>3
  <2> QED
    BY <2>4 DEF y, u, v
<1>10. \A x \in 1 .. n : HeapKey(g, x) \in HeapKeys
  BY <1>1, <1>2, <1>9
<1>11. t[1] = Scratch
  BY <1>1, <1>2, <1>6
<1>12. HeapOk(g)
  <2>1. DaSize(g.arr) >= 1
    BY <1>1, <1>7, <1>8
  <2> QED
    BY <1>6, <1>7, <1>8, <1>10, <1>11, <2>1 DEF HeapOk, a
<1>13. Rearranged(s, t)
  <2> DEFINE u == i + 1
             v == j + 1
             m == Len(s)
             p == [x \in 1 .. m |-> IF x = u THEN v ELSE IF x = v THEN u ELSE x]
  <2>1. u \in 1 .. m /\ v \in 1 .. m /\ u # v /\ Len(t) = m
    BY <1>2, <1>6
  <2>2. \A x \in 1 .. m : t[x] = IF x = v THEN s[u] ELSE IF x = u THEN s[v] ELSE s[x]
    BY <1>6
  <2> HIDE DEF u, v, m
  <2>3. p \in [1 .. m -> 1 .. m]
    BY <2>1
  <2>4. \A x \in 1 .. m : p[p[x]] = x /\ p[x] \in 1 .. m
    BY <2>1
  <2>5. \A x \in 1 .. m : t[x] = s[p[x]]
    BY <2>1, <2>2
  <2> HIDE DEF p
  <2>6. \A x, y \in 1 .. m : p[x] = p[y] => x = y
    BY <2>4
  <2>7. \A y \in 1 .. m : \E x \in 1 .. m : p[x] = y
    BY <2>4
  <2> QED
    BY <2>1, <2>3, <2>5, <2>6, <2>7 DEF Rearranged, m
<1>14. \A k : KeyCount(t, k) = KeyCount(s, k)
  BY <1>1, <1>7, <1>13, RearrangedCount
<1> QED
  BY <1>7, <1>8, <1>9, <1>12, <1>14 DEF Kept, n, a

-----------------------------------------------------------------------------
\* Which of two keys has the higher priority.
Better(min, x, y) == IF min THEN x < y ELSE x > y

\* That is an order in which any two keys that differ can be compared.
LEMMA BetterOrders ==
  ASSUME NEW min, NEW x \in Int, NEW y \in Int, NEW z \in Int
  PROVE  /\ ~Better(min, x, x)
         /\ Better(min, x, y) => ~Better(min, y, x)
         /\ ~Better(min, x, y) /\ ~Better(min, y, z) => ~Better(min, x, z)
         /\ ~Better(min, x, y) /\ ~Better(min, y, x) => x = y
BY DEF Better

\* So two elements are compared.
LEMMA AboveIs == ASSUME NEW h, NEW i, NEW j
                 PROVE  Above(h, i, j) <=> Better(h.min, HeapKey(h, i), HeapKey(h, j))
BY DEF Above, Better

\* Parents and children in numbers.
LEMMA Parent ==
  ASSUME NEW j \in Nat
  PROVE  /\ j \div 2 \in Nat /\ (j >= 2 => j \div 2 >= 1) /\ (j >= 1 => j \div 2 < j)
         /\ j \div 2 <= j
         /\ \A m \in Nat : j \div 2 = m <=> j = 2 * m \/ j = 2 * m + 1
OBVIOUS

\* In order below the parents from lo on.
OrderedFrom(h, lo) ==
  \A j \in 2 .. HeapSize(h) : j \div 2 >= lo => ~Better(h.min, HeapKey(h, j), HeapKey(h, j \div 2))

\* In order but for element i, which may belong further up ...
OrderedButUp(h, i) ==
  \A j \in 2 .. HeapSize(h) :
    /\ j # i => ~Better(h.min, HeapKey(h, j), HeapKey(h, j \div 2))
    /\ j \div 2 = i /\ i >= 2 => ~Better(h.min, HeapKey(h, j), HeapKey(h, i \div 2))

\* ... or further down.
OrderedButDown(h, lo, i) ==
  \A j \in 2 .. HeapSize(h) :
    /\ j \div 2 >= lo /\ j \div 2 # i => ~Better(h.min, HeapKey(h, j), HeapKey(h, j \div 2))
    /\ j \div 2 = i /\ i \div 2 >= lo => ~Better(h.min, HeapKey(h, j), HeapKey(h, i \div 2))

SiftStates == [h : BinHeaps(HeapElts), i : Nat]

\* After n rounds of sifting element i0 of a heap up.
UpOk(h0, i0, n, st) ==
  /\ Kept(h0, st.h)
  /\ st.i \in 1 .. HeapSize(h0)
  /\ OrderedButUp(st.h, st.i)
  /\ st.i + n <= i0 \/ OrderedFrom(st.h, 1)

\* A round moves the element up or finds that it is where it belongs.
LEMMA SiftUpSteps ==
  ASSUME NEW h0, NEW i0 \in Nat, NEW n \in Nat, NEW st \in SiftStates, UpOk(h0, i0, n, st),
         NEW nx, nx = SiftUpStep(st)
  PROVE  nx \in SiftStates /\ UpOk(h0, i0, n + 1, nx)
<1> DEFINE h == st.h
           i == st.i
           N == HeapSize(h)
           K(x) == HeapKey(h, x)
           min == h.min
           up == i \div 2
<1>1. /\ HeapOk(h) /\ N \in Nat /\ HeapSize(h0) = N /\ i \in 1 .. N
      /\ \A x \in 1 .. N : K(x) \in Int
      /\ h \in BinHeaps(HeapElts)
  <2>1. HeapOk(h) /\ HeapSize(h0) = N /\ i \in 1 .. N
    BY DEF UpOk, Kept
  <2> QED
    BY <2>1, HeapFields DEF HeapOk
<1>2. \A j \in 2 .. N : j # i => ~Better(min, K(j), K(j \div 2))
  BY DEF UpOk, OrderedButUp
<1>3. \A j \in 2 .. N : j \div 2 = i /\ i >= 2 => ~Better(min, K(j), K(up))
  BY DEF UpOk, OrderedButUp
<1>4. Above(h, i, up) <=> Better(min, K(i), K(up))
  BY AboveIs
<1>5. CASE i <= 1 \/ ~Above(h, i, up)
  <2>1. nx = st
    BY <1>5 DEF SiftUpStep
  <2>2. OrderedFrom(h, 1)
    <3> SUFFICES ASSUME NEW j \in 2 .. N PROVE ~Better(min, K(j), K(j \div 2))
      BY DEF OrderedFrom
    <3>1. CASE j # i
      BY <1>2, <3>1
    <3>2. CASE j = i
      <4>1. ~(i <= 1)
        BY <1>1, <3>2
      <4> QED
        BY <1>4, <1>5, <3>2, <4>1
    <3> QED
      BY <3>1, <3>2
  <2> QED
    BY <2>1, <2>2 DEF UpOk
<1>6. CASE ~(i <= 1 \/ ~Above(h, i, up))
  <2> DEFINE g == HeapSwap(h, i, up)
             L(x) == HeapKey(g, x)
  <2>1. nx = [h |-> g, i |-> up]
    BY <1>6 DEF SiftUpStep
  <2>2. up \in 1 .. N /\ up < i /\ i >= 2 /\ up \in Nat /\ i \in Nat
    <3>1. i \in Nat /\ i >= 2
      BY <1>1, <1>6
    <3> HIDE DEF i
    <3> QED
      BY <1>1, <3>1, Parent
  <2>3. Better(min, K(i), K(up))
    BY <1>4, <1>6
  <2>4. /\ Kept(h, g)
        /\ \A x \in 1 .. N : L(x) = IF x = i THEN K(up) ELSE IF x = up THEN K(i) ELSE K(x)
    <3> HIDE DEF h, i, up, g
    <3>1. HeapOk(h) /\ i \in 1 .. HeapSize(h) /\ up \in 1 .. HeapSize(h) /\ i # up /\ g = HeapSwap(h, i, up)
      BY <1>1, <2>2 DEF g
    <3> QED
      BY <3>1, SwapKeeps
  <2>5. nx.h = g /\ nx.i = up /\ nx \in SiftStates
    <3>1. g \in BinHeaps(HeapElts)
      BY <2>4 DEF Kept, HeapOk
    <3> QED
      BY <2>1, <2>2, <3>1 DEF SiftStates
  <2>6. HeapSize(g) = N /\ g.min = min
    BY <2>4 DEF Kept
  <2>7. Kept(h0, g)
    BY <2>4 DEF UpOk, Kept
  <2> HIDE DEF h, i, g, N, K, L, min, up
  <2>8. \A j \in 2 .. N : /\ j \div 2 \in 1 .. N /\ j \in 1 .. N
                          /\ K(j) \in Int /\ K(j \div 2) \in Int
    <3>1. SUFFICES ASSUME NEW j \in 2 .. N PROVE j \div 2 \in 1 .. N /\ j \in 1 .. N
      BY <1>1
    <3> QED
      BY <1>1, Parent
  <2>9. K(i) \in Int /\ K(up) \in Int /\ up = i \div 2
    BY <1>1, <2>2 DEF up
  <2>10. OrderedButUp(g, up)
    <3>1. ASSUME NEW j \in 2 .. N, j # up PROVE ~Better(min, L(j), L(j \div 2))
      <4> DEFINE q == j \div 2
      <4>1. j \in 1 .. N /\ q \in 1 .. N /\ K(j) \in Int /\ K(q) \in Int /\ q < j
        <5>1. q < j
          BY <1>1, Parent
        <5> QED
          BY <2>8, <5>1
      <4>2. j # i => ~Better(min, K(j), K(q))
        BY <1>2
      <4>3. j = i => q = up
        BY <2>9
      <4>4. q = i => ~Better(min, K(j), K(up))
        BY <1>3, <2>2
      <4> HIDE DEF q
      <4>5. CASE j = i
        <5>1. L(j) = K(up) /\ L(q) = K(i)
          BY <2>2, <2>4, <4>1, <4>3, <4>5
        <5> QED
          BY <2>3, <2>9, <5>1, BetterOrders DEF q
      <4>6. CASE j # i /\ q = i
        <5>1. L(j) = K(j) /\ L(q) = K(up)
          BY <2>4, <3>1, <4>1, <4>6
        <5> QED
          BY <4>4, <4>6, <5>1 DEF q
      <4>7. CASE j # i /\ q = up
        <5>1. L(j) = K(j) /\ L(q) = K(i)
          BY <2>2, <2>4, <3>1, <4>1, <4>7
        <5>2. ~Better(min, K(up), K(i))
          BY <2>3, <2>9, BetterOrders
        <5>3. ~Better(min, K(j), K(i))
          BY <2>9, <4>1, <4>2, <4>7, <5>2, BetterOrders
        <5> QED
          BY <5>1, <5>3 DEF q
      <4>8. CASE j # i /\ q # i /\ q # up
        <5>1. L(j) = K(j) /\ L(q) = K(q)
          BY <2>4, <3>1, <4>1, <4>8
        <5> QED
          BY <4>2, <4>8, <5>1 DEF q
      <4> QED
        BY <4>5, <4>6, <4>7, <4>8
    <3>2. ASSUME NEW j \in 2 .. N, j \div 2 = up, up >= 2 PROVE ~Better(min, L(j), L(up \div 2))
      <4> DEFINE q == up \div 2
      <4>1. j \in 1 .. N /\ K(j) \in Int /\ up \in 2 .. N
        BY <2>2, <2>8, <3>2
      <4>2. q \in 1 .. N /\ K(q) \in Int /\ q < up
        <5>1. q < up
          BY <2>2, Parent
        <5> QED
          BY <2>8, <4>1, <5>1
      <4>3. ~Better(min, K(up), K(q))
        BY <1>2, <2>2, <4>1
      <4>4. j # up
        BY <1>1, <3>2, Parent
      <4> HIDE DEF q
      <4>5. L(q) = K(q)
        BY <2>2, <2>4, <4>2
      <4>6. CASE j = i
        <5>1. L(j) = K(up)
          BY <2>4, <4>1, <4>6
        <5> QED
          BY <4>3, <4>5, <5>1 DEF q
      <4>7. CASE j # i
        <5>1. L(j) = K(j)
          BY <2>4, <4>1, <4>4, <4>7
        <5>2. ~Better(min, K(j), K(up))
          BY <1>2, <3>2, <4>7
        <5>3. ~Better(min, K(j), K(q))
          BY <2>9, <4>1, <4>2, <4>3, <5>2, BetterOrders
        <5> QED
          BY <4>5, <5>1, <5>3 DEF q
      <4> QED
        BY <4>6, <4>7
    <3> QED
      BY <2>6, <3>1, <3>2 DEF OrderedButUp, L
  <2>11. up + (n + 1) <= i0
    <3>1. i + n <= i0
      <4>1. i \in 2 .. N
        BY <1>1, <2>2
      <4>2. ~OrderedFrom(h, 1)
        <5>1. up >= 1
          BY <2>2
        <5> QED
          BY <2>3, <4>1, <5>1 DEF OrderedFrom, N, K, min, up
      <4> QED
        BY <4>2 DEF UpOk, h, i
    <3> QED
      BY <2>2, <3>1
  <2> QED
    BY <1>1, <2>2, <2>5, <2>7, <2>10, <2>11 DEF UpOk
<1> QED
  BY <1>5, <1>6

SiftsUp(h, i, f) == f = [n \in 0 .. i |-> IF n = 0 THEN [h |-> h, i |-> i] ELSE SiftUpStep(f[n - 1])]

\* Sifting up puts a heap in order that was in order but for the element that is
\* sifted, and keeps what is in it (binheap_sift_up).
LEMMA SiftUpOrders ==
  ASSUME NEW h, HeapOk(h), NEW i \in 1 .. HeapSize(h), OrderedButUp(h, i), NEW g, g = SiftUp(h, i)
  PROVE  Kept(h, g) /\ OrderedFrom(g, 1)
<1> DEFINE I == [n \in 0 .. i |-> {st \in SiftStates : UpOk(h, i, n, st)}]
           init == [h |-> h, i |-> i]
           step == [st \in SiftStates |-> SiftUpStep(st)]
           F == CHOOSE f : SiftsUp(h, i, f)
<1>1. SiftUp(h, i) = F[i].h
  BY Zenon DEF SiftUp, SiftsUp
<1>2. i \in Nat /\ i # 0 /\ h \in BinHeaps(HeapElts)
  BY HeapFields DEF HeapOk
<1>3. \A n \in 0 .. i : I[n] = {st \in SiftStates : UpOk(h, i, n, st)}
  OBVIOUS
<1>4. init \in I[0]
  <2>1. init \in SiftStates /\ init.h = h /\ init.i = i
    BY <1>2 DEF SiftStates
  <2>2. Kept(h, h)
    BY DEF Kept
  <2>3. i + 0 <= i
    BY <1>2
  <2>4. UpOk(h, i, 0, init)
    BY <2>1, <2>2, <2>3 DEF UpOk
  <2>5. 0 \in 0 .. i
    BY <1>2
  <2> HIDE DEF init
  <2> QED
    BY <2>1, <2>4, <2>5
<1>5. ASSUME NEW n \in 1 .. i, NEW st \in I[n - 1] PROVE st \in SiftStates /\ SiftUpStep(st) \in I[n]
  <2>1. n \in 0 .. i /\ n - 1 \in 0 .. i /\ n - 1 \in Nat /\ (n - 1) + 1 = n
    BY <1>2
  <2>2. st \in SiftStates /\ UpOk(h, i, n - 1, st)
    BY <1>3, <2>1
  <2>3. SiftUpStep(st) \in SiftStates /\ UpOk(h, i, n, SiftUpStep(st))
    <3> DEFINE m == n - 1
    <3>1. m \in Nat /\ UpOk(h, i, m, st) /\ m + 1 = n
      BY <2>1, <2>2
    <3> HIDE DEF m
    <3>2. SiftUpStep(st) \in SiftStates /\ UpOk(h, i, m + 1, SiftUpStep(st))
      BY <1>2, <2>2, <3>1, SiftUpSteps
    <3> QED
      BY <3>1, <3>2
  <2> QED
    BY <1>3, <2>1, <2>2, <2>3
<1> HIDE DEF I, F, init
<1>6. \A n \in 1 .. i : \A st \in I[n - 1] : step[st] = SiftUpStep(st)
  BY <1>5
<1> HIDE DEF step
<1>7. \A n \in 1 .. i : \A st \in I[n - 1] : step[st] \in I[n]
  BY <1>5, <1>6
<1>8. PICK f : RunsIn(f, i, I, init, step)
  BY <1>2, <1>4, <1>7, RunExists, Zenon
<1>9. SiftsUp(h, i, f)
  <2>1. \A n \in 0 .. i : n # 0 => n \in 1 .. i /\ n - 1 \in 0 .. i
    BY <1>2
  <2>2. \A n \in 0 .. i : n # 0 => step[f[n - 1]] = SiftUpStep(f[n - 1])
    BY <1>6, <1>8, <2>1 DEF RunsIn
  <2>3. [n \in 0 .. i |-> IF n = 0 THEN init ELSE step[f[n - 1]]]
          = [n \in 0 .. i |-> IF n = 0 THEN init ELSE SiftUpStep(f[n - 1])]
    BY <2>2
  <2> QED
    BY <1>8, <2>3 DEF RunsIn, SiftsUp, init
<1>10. SiftsUp(h, i, F)
  BY <1>9 DEF F
<1>11. F[0] = init /\ \A n \in 1 .. i : F[n] = SiftUpStep(F[n - 1])
  <2>1. F = [n \in 0 .. i |-> IF n = 0 THEN init ELSE SiftUpStep(F[n - 1])]
    BY <1>10 DEF SiftsUp, init
  <2>2. \A n \in 0 .. i : F[n] = IF n = 0 THEN init ELSE SiftUpStep(F[n - 1])
    BY <2>1
  <2>3. 0 \in 0 .. i /\ \A n \in 1 .. i : n \in 0 .. i /\ n # 0
    BY <1>2
  <2> QED
    BY <2>2, <2>3
<1>12. F[0] \in I[0] /\ \A n \in 1 .. i : F[n - 1] \in I[n - 1] => F[n] \in I[n]
  BY <1>4, <1>5, <1>11
<1>13. \A n \in 0 .. i : F[n] \in I[n]
  BY <1>2, <1>12, StaysIn
<1> DEFINE r == F[i]
<1>14. UpOk(h, i, i, r)
  BY <1>2, <1>3, <1>13
<1> HIDE DEF r
<1>15. ~(r.i + i <= i)
  <2>1. r.i \in 1 .. HeapSize(h)
    BY <1>14 DEF UpOk
  <2> QED
    BY <1>2, <2>1
<1> QED
  BY <1>1, <1>14, <1>15 DEF UpOk, r

-----------------------------------------------------------------------------
\* After n rounds of sifting an element down below the parents from lo on.
DownOk(h0, lo, n, st) ==
  /\ Kept(h0, st.h)
  /\ st.i \in Nat /\ st.i >= lo
  /\ OrderedButDown(st.h, lo, st.i)
  /\ st.i >= lo + n \/ OrderedFrom(st.h, lo)

\* The child that is looked at: none is above the element, or one is, and is not
\* below the other.
LEMMA BestChildIs ==
  ASSUME NEW h, HeapOk(h), NEW m \in Nat, m >= 1, NEW best, best = BestChild(h, m)
  PROVE  /\ best = m => \A j \in 2 .. HeapSize(h) : j \div 2 = m => ~Better(h.min, HeapKey(h, j), HeapKey(h, m))
         /\ best # m => /\ best \in 2 .. HeapSize(h) /\ best \div 2 = m
                        /\ Better(h.min, HeapKey(h, best), HeapKey(h, m))
                        /\ \A j \in 2 .. HeapSize(h) :
                             j \div 2 = m => ~Better(h.min, HeapKey(h, j), HeapKey(h, best))
<1> DEFINE N == HeapSize(h)
           K(x) == HeapKey(h, x)
           min == h.min
           l == 2 * m
           r == 2 * m + 1
           left == IF l <= N /\ Better(min, K(l), K(m)) THEN l ELSE m
<1>1. N \in Nat /\ \A x \in 1 .. N : K(x) \in Int
  BY HeapFields
<1>2. LeftChild(h, m) = left
  BY AboveIs DEF LeftChild
<1>3. best = IF r <= N /\ Better(min, K(r), K(left)) THEN r ELSE left
  <2>1. Above(h, r, left) <=> Better(min, K(r), K(left))
    BY AboveIs
  <2> HIDE DEF left, K
  <2> QED
    BY <1>2, <2>1 DEF BestChild
<1>4. \A j \in 2 .. N : j \div 2 = m <=> j = l \/ j = r
  BY <1>1, Parent
<1>5. l \in Nat /\ r \in Nat /\ l >= 2 /\ r >= 2 /\ l # m /\ r # m /\ l # r /\ m < l /\ m < r /\ r = l + 1
  OBVIOUS
<1> HIDE DEF N, K, min, l, r
<1>6. (l <= N => m \in 1 .. N /\ l \in 1 .. N /\ l \in 2 .. N) /\ (r <= N => r \in 1 .. N /\ r \in 2 .. N /\ l <= N)
  BY <1>1, <1>5
<1>7. CASE best = m
  <2>1. left = m /\ ~(r <= N /\ Better(min, K(r), K(m))) /\ ~(l <= N /\ Better(min, K(l), K(m)))
    BY <1>3, <1>5, <1>7
  <2>2. ASSUME NEW j \in 2 .. N, j \div 2 = m PROVE ~Better(min, K(j), K(m))
    <3>1. j <= N /\ (j = l \/ j = r)
      BY <1>1, <1>4, <2>2
    <3> QED
      BY <2>1, <3>1
  <2> QED
    BY <1>7, <2>2 DEF N, K, min
<1>8. CASE best # m
  <2>1. best \in {l, r} /\ best <= N
    BY <1>3, <1>8
  <2>2. best \in 2 .. N /\ best \div 2 = m
    BY <1>1, <1>4, <1>6, <2>1
  <2>3. l <= N /\ m \in 1 .. N
    BY <1>6, <2>1
  <2>4. K(m) \in Int /\ K(l) \in Int /\ (r <= N => K(r) \in Int)
    BY <1>1, <1>6, <2>3
  <2>5. CASE best = l
    <3>1. left = l /\ Better(min, K(l), K(m)) /\ ~(r <= N /\ Better(min, K(r), K(l)))
      BY <1>3, <1>5, <2>5, <1>8
    <3>2. ASSUME NEW j \in 2 .. N, j \div 2 = m PROVE ~Better(min, K(j), K(l))
      <4>1. j <= N /\ (j = l \/ j = r)
        BY <1>1, <1>4, <3>2
      <4>2. ~Better(min, K(l), K(l))
        BY <2>4, BetterOrders
      <4> QED
        BY <3>1, <4>1, <4>2
    <3> QED
      BY <1>8, <2>2, <2>5, <3>1, <3>2 DEF N, K, min
  <2>6. CASE best = r
    <3>1. r <= N /\ Better(min, K(r), K(left)) /\ K(r) \in Int
      BY <1>3, <1>5, <1>6, <2>4, <2>6
    <3>2. Better(min, K(r), K(m)) /\ ~Better(min, K(l), K(r))
      <4>1. CASE left = l
        <5>1. Better(min, K(l), K(m)) /\ Better(min, K(r), K(l))
          BY <1>5, <3>1, <4>1
        <5> QED
          BY <2>4, <3>1, <5>1 DEF Better
      <4>2. CASE left = m
        <5>1. ~Better(min, K(l), K(m)) /\ Better(min, K(r), K(m))
          BY <1>5, <2>3, <3>1, <4>2
        <5> QED
          BY <2>4, <3>1, <5>1 DEF Better
      <4> QED
        BY <4>1, <4>2
    <3>3. ASSUME NEW j \in 2 .. N, j \div 2 = m PROVE ~Better(min, K(j), K(r))
      <4>1. j = l \/ j = r
        BY <1>4, <3>3
      <4>2. ~Better(min, K(r), K(r))
        BY <3>1, BetterOrders
      <4> QED
        BY <3>2, <4>1, <4>2
    <3> QED
      BY <1>8, <2>2, <2>6, <3>2, <3>3 DEF N, K, min
  <2> QED
    BY <2>1, <2>5, <2>6
<1> QED
  BY <1>7, <1>8

\* A round moves the element down or finds that it is where it belongs.
LEMMA SiftDownSteps ==
  ASSUME NEW h0, NEW lo \in Nat, lo >= 1, NEW n \in Nat, NEW st \in SiftStates, DownOk(h0, lo, n, st),
         NEW nx, nx = SiftDownStep(st)
  PROVE  nx \in SiftStates /\ DownOk(h0, lo, n + 1, nx)
<1> DEFINE h == st.h
           i == st.i
           N == HeapSize(h)
           K(x) == HeapKey(h, x)
           min == h.min
           best == BestChild(h, i)
<1>1. /\ HeapOk(h) /\ N \in Nat /\ HeapSize(h0) = N /\ i \in Nat /\ i >= lo /\ i >= 1
      /\ \A x \in 1 .. N : K(x) \in Int
      /\ h \in BinHeaps(HeapElts)
  <2>1. HeapOk(h) /\ HeapSize(h0) = N /\ i \in Nat /\ i >= lo
    BY DEF DownOk, Kept
  <2>2. i >= 1
    <3> HIDE DEF i
    <3> QED
      BY <2>1
  <2> QED
    BY <2>1, <2>2, HeapFields DEF HeapOk
<1>2. \A j \in 2 .. N : j \div 2 >= lo /\ j \div 2 # i => ~Better(min, K(j), K(j \div 2))
  BY DEF DownOk, OrderedButDown
<1>3. \A j \in 2 .. N : j \div 2 = i /\ i \div 2 >= lo => ~Better(min, K(j), K(i \div 2))
  BY DEF DownOk, OrderedButDown
<1>4. /\ best = i => \A j \in 2 .. N : j \div 2 = i => ~Better(min, K(j), K(i))
      /\ best # i => /\ best \in 2 .. N /\ best \div 2 = i /\ Better(min, K(best), K(i))
                     /\ \A j \in 2 .. N : j \div 2 = i => ~Better(min, K(j), K(best))
  <2> HIDE DEF h, i, best
  <2>1. HeapOk(h) /\ i \in Nat /\ i >= 1 /\ best = BestChild(h, i)
    BY <1>1 DEF best
  <2> QED
    BY <2>1, BestChildIs
<1>5. CASE best = i
  <2>1. nx = st
    BY <1>5 DEF SiftDownStep
  <2>2. OrderedFrom(h, lo)
    BY <1>2, <1>4, <1>5 DEF OrderedFrom
  <2> QED
    BY <2>1, <2>2 DEF DownOk
<1>6. CASE best # i
  <2> DEFINE g == HeapSwap(h, i, best)
             L(x) == HeapKey(g, x)
  <2>1. nx = [h |-> g, i |-> best]
    BY <1>6 DEF SiftDownStep
  <2> HIDE DEF best
  <2>2. /\ best \in 2 .. N /\ best \in 1 .. N /\ best \in Nat /\ best \div 2 = i /\ i < best /\ i \in 1 .. N
        /\ Better(min, K(best), K(i)) /\ \A j \in 2 .. N : j \div 2 = i => ~Better(min, K(j), K(best))
    <3>1. best \in 2 .. N /\ best \div 2 = i
      BY <1>4, <1>6
    <3>2. best \in Nat /\ best >= 1 /\ best <= N
      BY <1>1, <3>1
    <3> HIDE DEF i, N, K, min
    <3>3. i < best
      BY <3>1, <3>2, Parent
    <3> QED
      BY <1>1, <1>4, <1>6, <3>1, <3>2, <3>3
  <2>3. /\ Kept(h, g)
        /\ \A x \in 1 .. N : L(x) = IF x = i THEN K(best) ELSE IF x = best THEN K(i) ELSE K(x)
    <3> HIDE DEF h, i, g
    <3>1. HeapOk(h) /\ i \in 1 .. HeapSize(h) /\ best \in 1 .. HeapSize(h) /\ i # best /\ g = HeapSwap(h, i, best)
      BY <1>1, <1>6, <2>2 DEF g
    <3> QED
      BY <3>1, SwapKeeps
  <2>4. nx.h = g /\ nx.i = best /\ nx \in SiftStates
    <3>1. g \in BinHeaps(HeapElts)
      BY <2>3 DEF Kept, HeapOk
    <3> QED
      BY <2>1, <2>2, <3>1 DEF SiftStates
  <2>5. HeapSize(g) = N /\ g.min = min
    BY <2>3 DEF Kept
  <2>6. Kept(h0, g)
    BY <2>3 DEF DownOk, Kept
  <2> HIDE DEF h, i, g, N, K, L, min
  <2>7. \A j \in 2 .. N : /\ j \div 2 \in 1 .. N /\ j \in 1 .. N /\ j \div 2 < j /\ j \div 2 # j
    <3>1. SUFFICES ASSUME NEW j \in 2 .. N PROVE j \div 2 \in 1 .. N /\ j \in 1 .. N /\ j \div 2 < j
      BY <1>1
    <3> QED
      BY <1>1, Parent
  <2>8. K(i) \in Int /\ K(best) \in Int
    BY <1>1, <2>2
  <2>9. OrderedButDown(g, lo, best)
    <3>1. ASSUME NEW j \in 2 .. N, j \div 2 >= lo, j \div 2 # best PROVE ~Better(min, L(j), L(j \div 2))
      <4> DEFINE q == j \div 2
      <4>1. j \in 1 .. N /\ q \in 1 .. N /\ q # j
        BY <2>7
      <4>2. q # i => ~Better(min, K(j), K(q))
        BY <1>2, <3>1
      <4>3. q = i => ~Better(min, K(j), K(best))
        BY <2>2
      <4>4. j = i => ~Better(min, K(best), K(q))
        BY <1>3, <2>2, <3>1
      <4>5. j = best => q = i
        BY <2>2
      <4>6. q # best
        BY <3>1
      <4> HIDE DEF q
      <4>7. CASE q = i /\ j = best
        <5>1. L(j) = K(i) /\ L(q) = K(best)
          BY <2>2, <2>3, <4>1, <4>7
        <5> QED
          BY <2>2, <2>8, <5>1, BetterOrders DEF q
      <4>8. CASE q = i /\ j # best
        <5>1. L(j) = K(j) /\ L(q) = K(best)
          BY <2>2, <2>3, <4>1, <4>8
        <5> QED
          BY <4>3, <4>8, <5>1 DEF q
      <4>9. CASE q # i /\ j = i
        <5>1. L(j) = K(best) /\ L(q) = K(q)
          BY <2>2, <2>3, <4>1, <4>6, <4>9
        <5> QED
          BY <4>4, <4>9, <5>1 DEF q
      <4>10. CASE q # i /\ j # i
        <5>1. L(j) = K(j) /\ L(q) = K(q)
          BY <2>3, <4>1, <4>5, <4>6, <4>10
        <5> QED
          BY <4>2, <4>10, <5>1 DEF q
      <4> QED
        BY <4>7, <4>8, <4>9, <4>10
    <3>2. ASSUME NEW j \in 2 .. N, j \div 2 = best PROVE ~Better(min, L(j), L(best \div 2))
      <4>1. j \in 1 .. N /\ j # best /\ best < j
        BY <2>7, <3>2
      <4>2. j # i /\ best >= lo /\ best # i
        BY <1>1, <2>2, <4>1
      <4>3. L(j) = K(j) /\ L(i) = K(best)
        BY <2>2, <2>3, <4>1, <4>2
      <4>4. ~Better(min, K(j), K(best))
        BY <1>2, <3>2, <4>2
      <4> QED
        BY <2>2, <4>3, <4>4
    <3> QED
      BY <2>5, <3>1, <3>2 DEF OrderedButDown, L
  <2>10. best >= lo + (n + 1)
    <3>1. i >= lo + n
      <4>1. ~OrderedFrom(h, lo)
        BY <1>1, <2>2 DEF OrderedFrom, N, K, min
      <4> QED
        BY <4>1 DEF DownOk, h, i
    <3> QED
      BY <1>1, <2>2, <3>1
  <2>11. best >= lo
    BY <1>1, <2>2
  <2> QED
    BY <2>2, <2>4, <2>6, <2>9, <2>10, <2>11 DEF DownOk
<1> QED
  BY <1>5, <1>6

SiftsDown(h, m, f) ==
  f = [n \in 0 .. HeapSize(h) |-> IF n = 0 THEN [h |-> h, i |-> m] ELSE SiftDownStep(f[n - 1])]

\* Sifting down puts the elements below an element in order, when those further
\* down were, and keeps what is in the heap (binheap_sift_down).
LEMMA SiftDownOrders ==
  ASSUME NEW h, HeapOk(h), NEW m \in Nat, m >= 1, OrderedButDown(h, m, m), NEW g, g = SiftDown(h, m)
  PROVE  Kept(h, g) /\ OrderedFrom(g, m)
<1> DEFINE N == HeapSize(h)
           I == [n \in 0 .. N |-> {st \in SiftStates : DownOk(h, m, n, st)}]
           init == [h |-> h, i |-> m]
           step == [st \in SiftStates |-> SiftDownStep(st)]
           F == CHOOSE f : SiftsDown(h, m, f)
<1>1. SiftDown(h, m) = F[N].h
  BY Zenon DEF SiftDown, SiftsDown
<1>2. N \in Nat /\ h \in BinHeaps(HeapElts)
  BY HeapFields DEF HeapOk
<1>3. DownOk(h, m, 0, init) /\ init \in SiftStates
  <2>1. init \in SiftStates /\ init.h = h /\ init.i = m
    BY <1>2 DEF SiftStates
  <2>2. Kept(h, h)
    BY DEF Kept
  <2>3. m >= m + 0 /\ m >= m
    OBVIOUS
  <2> QED
    BY <2>1, <2>2, <2>3 DEF DownOk
<1>4. \A f : SiftsDown(h, m, f) <=> f = [n \in 0 .. N |-> IF n = 0 THEN init ELSE SiftDownStep(f[n - 1])]
  BY DEF SiftsDown
<1> HIDE DEF N
<1>5. \A n \in 0 .. N : I[n] = {st \in SiftStates : DownOk(h, m, n, st)}
  OBVIOUS
<1>6. init \in I[0]
  <2>1. 0 \in 0 .. N
    BY <1>2
  <2> HIDE DEF init
  <2> QED
    BY <1>3, <2>1
<1>7. ASSUME NEW n \in 1 .. N, NEW st \in I[n - 1] PROVE st \in SiftStates /\ SiftDownStep(st) \in I[n]
  <2>1. n \in 0 .. N /\ n - 1 \in 0 .. N /\ n - 1 \in Nat /\ (n - 1) + 1 = n
    BY <1>2
  <2>2. st \in SiftStates /\ DownOk(h, m, n - 1, st)
    BY <1>5, <2>1
  <2>3. SiftDownStep(st) \in SiftStates /\ DownOk(h, m, n, SiftDownStep(st))
    <3> DEFINE k == n - 1
    <3>1. k \in Nat /\ DownOk(h, m, k, st) /\ k + 1 = n
      BY <2>1, <2>2
    <3> HIDE DEF k
    <3>2. SiftDownStep(st) \in SiftStates /\ DownOk(h, m, k + 1, SiftDownStep(st))
      BY <2>2, <3>1, SiftDownSteps
    <3> QED
      BY <3>1, <3>2
  <2> QED
    BY <1>5, <2>1, <2>2, <2>3
<1> HIDE DEF I, F, init
<1>8. \A n \in 1 .. N : \A st \in I[n - 1] : step[st] = SiftDownStep(st)
  BY <1>7
<1> HIDE DEF step
<1>9. \A n \in 1 .. N : \A st \in I[n - 1] : step[st] \in I[n]
  BY <1>7, <1>8
<1>10. PICK f : RunsIn(f, N, I, init, step)
  BY <1>2, <1>6, <1>9, RunExists, Zenon
<1>11. SiftsDown(h, m, f)
  <2>1. \A n \in 0 .. N : n # 0 => n \in 1 .. N /\ n - 1 \in 0 .. N
    BY <1>2
  <2>2. \A n \in 0 .. N : n # 0 => step[f[n - 1]] = SiftDownStep(f[n - 1])
    BY <1>8, <1>10, <2>1 DEF RunsIn
  <2>3. [n \in 0 .. N |-> IF n = 0 THEN init ELSE step[f[n - 1]]]
          = [n \in 0 .. N |-> IF n = 0 THEN init ELSE SiftDownStep(f[n - 1])]
    BY <2>2
  <2> QED
    BY <1>10, <1>4, <2>3 DEF RunsIn
<1>12. SiftsDown(h, m, F)
  BY <1>11 DEF F
<1>13. F[0] = init /\ \A n \in 1 .. N : F[n] = SiftDownStep(F[n - 1])
  <2>1. F = [n \in 0 .. N |-> IF n = 0 THEN init ELSE SiftDownStep(F[n - 1])]
    BY <1>12, <1>4
  <2>2. \A n \in 0 .. N : F[n] = IF n = 0 THEN init ELSE SiftDownStep(F[n - 1])
    BY <2>1
  <2>3. 0 \in 0 .. N /\ \A n \in 1 .. N : n \in 0 .. N /\ n # 0
    BY <1>2
  <2> QED
    BY <2>2, <2>3
<1>14. F[0] \in I[0] /\ \A n \in 1 .. N : F[n - 1] \in I[n - 1] => F[n] \in I[n]
  BY <1>6, <1>7, <1>13
<1>15. \A n \in 0 .. N : F[n] \in I[n]
  BY <1>2, <1>14, StaysIn
<1> DEFINE r == F[N]
<1>16. DownOk(h, m, N, r)
  BY <1>2, <1>5, <1>15
<1>17. g = r.h
  BY <1>1
<1> HIDE DEF r
<1>18. OrderedFrom(r.h, m)
  <2>1. CASE ~(r.i >= m + N)
    BY <1>16, <2>1 DEF DownOk
  <2>2. CASE r.i >= m + N
    <3>1. r.i \in Nat /\ HeapSize(r.h) = N
      BY <1>16 DEF DownOk, Kept, N
    <3>2. \A j \in 2 .. N : j \div 2 # r.i
      BY <1>2, <2>2, <3>1
    <3> QED
      BY <1>16, <3>1, <3>2 DEF DownOk, OrderedButDown, OrderedFrom
  <2> QED
    BY <2>1, <2>2
<1> QED
  BY <1>16, <1>17, <1>18 DEF DownOk

-----------------------------------------------------------------------------
\* How many elements of a heap have a key.
HeapCount(h, k) == KeyCount(Tail(h.arr.elts), k)

\* A sequence is its tail and its first element.
LEMMA TailGains ==
  ASSUME NEW E, NEW s \in Seq(E), s # <<>>, NEW t, t = Tail(s)
  PROVE  /\ t \in Seq(E) /\ Len(t) = Len(s) - 1 /\ \A x \in 1 .. Len(t) : t[x] = s[x + 1]
         /\ Gains(t, s, s[1])
<1> DEFINE n == Len(s)
           m == Len(t)
           p == [x \in 1 .. m |-> x + 1]
<1>1. t \in Seq(E) /\ n \in Nat /\ m = n - 1 /\ n >= 1 /\ m \in Nat /\ \A x \in 1 .. m : t[x] = s[x + 1]
  OBVIOUS
<1> HIDE DEF n, m
<1>2. p \in [1 .. m -> 1 .. n]
  BY <1>1
<1>3. /\ \A x, y \in 1 .. m : p[x] = p[y] => x = y
      /\ \A x \in 1 .. m : p[x] # 1 /\ p[x] = x + 1
  BY <1>1
<1>4. \A y \in 1 .. n : y # 1 => \E x \in 1 .. m : p[x] = y
  <2>1. \A y \in 1 .. n : y # 1 => y - 1 \in 1 .. m /\ p[y - 1] = y
    BY <1>1
  <2> QED
    BY <2>1
<1>5. \A x \in 1 .. m : s[p[x]] = t[x]
  BY <1>1, <1>3
<1> HIDE DEF p
<1>6. 1 \in 1 .. n /\ n = m + 1
  BY <1>1
<1>7. Gains(t, s, s[1])
  <2> DEFINE j == 1
  <2>1. /\ p \in [1 .. m -> 1 .. n] /\ j \in 1 .. n /\ n = m + 1
        /\ \A x, y \in 1 .. m : p[x] = p[y] => x = y
        /\ \A x \in 1 .. m : p[x] # j
        /\ \A y \in 1 .. n : y # j => \E x \in 1 .. m : p[x] = y
        /\ \A x \in 1 .. m : s[p[x]] = t[x]
        /\ s[j] = s[1]
    BY <1>2, <1>3, <1>4, <1>5, <1>6
  <2> HIDE DEF j
  <2>2. \E f \in [1 .. m -> 1 .. n] : \E i \in 1 .. n :
          /\ \A x, y \in 1 .. m : f[x] = f[y] => x = y
          /\ \A x \in 1 .. m : f[x] # i
          /\ \A y \in 1 .. n : y # i => \E x \in 1 .. m : f[x] = y
          /\ \A x \in 1 .. m : s[f[x]] = t[x]
          /\ s[i] = s[1]
    BY ONLY <2>1, Zenon
  <2> QED
    BY ONLY <2>1, <2>2, Zenon DEF Gains, n, m
<1> QED
  BY <1>1, <1>7 DEF n, m

\* Counting the scratch slot as well makes a difference for its key only.
LEMMA HeapCountIs ==
  ASSUME NEW h, HeapOk(h), NEW k
  PROVE  /\ HeapCount(h, k) \in Nat
         /\ KeyCount(h.arr.elts, k) = IF k = 0 THEN HeapCount(h, k) + 1 ELSE HeapCount(h, k)
         /\ HeapCount(h, k) > 0 <=> \E x \in 1 .. HeapSize(h) : HeapKey(h, x) = k
<1> DEFINE s == h.arr.elts
           t == Tail(s)
           n == HeapSize(h)
           c == HeapCount(h, k)
<1>1. /\ s \in Seq(HeapElts) /\ Len(s) = n + 1 /\ n \in Nat /\ s[1] = Scratch
      /\ \A x \in 1 .. n : HeapKey(h, x) = s[x + 1][1]
  BY HeapFields
<1> HIDE DEF s, n
<1>2. s # <<>>
  BY <1>1
<1>3. t \in Seq(HeapElts) /\ Len(t) = n /\ Gains(t, s, Scratch) /\ \A x \in 1 .. n : t[x] = s[x + 1]
  <2>1. t \in Seq(HeapElts) /\ Len(t) = Len(s) - 1 /\ Gains(t, s, s[1]) /\ \A x \in 1 .. Len(t) : t[x] = s[x + 1]
    BY <1>1, <1>2, TailGains
  <2>2. Len(t) = n
    BY <1>1, <2>1
  <2> QED
    BY <1>1, <2>1, <2>2
<1> HIDE DEF t
<1>4. c = KeyCount(t, k)
  BY DEF HeapCount, t, s
<1>5. c \in Nat /\ KeyCount(s, k) = IF Scratch[1] = k THEN c + 1 ELSE c
  BY <1>1, <1>3, <1>4, GainsCount
<1>6. c = 0 <=> \A x \in 1 .. n : t[x][1] # k
  BY <1>3, <1>4, CountIsNumber
<1> HIDE DEF c
<1>7. c > 0 <=> ~(c = 0)
  BY <1>5
<1>8. c > 0 <=> \E x \in 1 .. n : HeapKey(h, x) = k
  BY <1>1, <1>3, <1>6, <1>7
<1> QED
  BY <1>5, <1>8, HeapKeyed DEF c, s, n

\* So if the whole arrays have as many elements with a key, the heaps have.
LEMMA KeptCount ==
  ASSUME NEW h, HeapOk(h), NEW g, Kept(h, g), NEW k
  PROVE  HeapCount(g, k) = HeapCount(h, k)
<1>1. HeapOk(g) /\ KeyCount(g.arr.elts, k) = KeyCount(h.arr.elts, k)
  BY DEF Kept
<1> DEFINE c == HeapCount(h, k)
           d == HeapCount(g, k)
           x == KeyCount(g.arr.elts, k)
<1>2. c \in Nat /\ d \in Nat /\ x = (IF k = 0 THEN c + 1 ELSE c) /\ x = (IF k = 0 THEN d + 1 ELSE d)
  BY <1>1, HeapCountIs
<1> HIDE DEF c, d, x
<1>3. c = d
  BY <1>2
<1> QED
  BY <1>3 DEF c, d

\* In a heap in order no element has a higher priority than the first.
LEMMA TopIsBest ==
  ASSUME NEW h, HeapOk(h), OrderedFrom(h, 1), NEW x \in 1 .. HeapSize(h)
  PROVE  ~Better(h.min, HeapKey(h, x), HeapKey(h, 1))
<1> DEFINE N == HeapSize(h)
           K(y) == HeapKey(h, y)
           min == h.min
           T == {y \in 1 .. N : Better(min, K(y), K(1))}
<1>1. N \in Nat /\ \A y \in 1 .. N : K(y) \in Int
  BY HeapFields
<1>2. \A j \in 2 .. N : j \div 2 >= 1 => ~Better(min, K(j), K(j \div 2))
  BY DEF OrderedFrom
<1>3. SUFFICES ASSUME T # {} PROVE FALSE
  OBVIOUS
<1> HIDE DEF N, K, min
<1>4. \A y : y \in T <=> y \in 1 .. N /\ Better(min, K(y), K(1))
  OBVIOUS
<1>5. T \in SUBSET Nat
  OBVIOUS
<1> HIDE DEF T
<1>6. PICK m \in T : \A y \in T : m <= y
  BY <1>3, <1>5, LeastNumber
<1>7. m \in 1 .. N /\ Better(min, K(m), K(1)) /\ m \in Nat
  BY <1>4, <1>5, <1>6
<1>8. 1 \in 1 .. N /\ K(1) \in Int
  BY <1>1, <1>7
<1>9. m # 1
  BY <1>7, <1>8, BetterOrders
<1>10. m \in 2 .. N
  BY <1>1, <1>7, <1>9
<1> DEFINE q == m \div 2
<1>11. q \in 1 .. N /\ q < m /\ q >= 1 /\ q \in Nat
  BY <1>1, <1>10, Parent
<1>12. ~Better(min, K(m), K(q))
  BY <1>2, <1>10, <1>11
<1> HIDE DEF q
<1>13. q \notin T
  BY <1>6, <1>7, <1>11
<1>14. ~Better(min, K(q), K(1))
  BY <1>4, <1>11, <1>13
<1> QED
  BY <1>1, <1>7, <1>8, <1>11, <1>12, <1>14, BetterOrders

\* The best of a set of keys.
LEMMA BestIs ==
  ASSUME NEW min, NEW T \in SUBSET Int, NEW p \in T, \A k \in T : ~Better(min, k, p)
  PROVE  (IF min THEN Least(T) ELSE Greatest(T)) = p
<1>1. CASE min
  <2>1. \A k \in T : p <= k
    BY <1>1 DEF Better
  <2>2. Least(T) \in T /\ \A k \in T : Least(T) <= k
    BY <2>1 DEF Least
  <2>3. Least(T) = p
    <3> DEFINE l == Least(T)
    <3> HIDE DEF l
    <3>1. l \in Int /\ p \in Int /\ l <= p /\ p <= l
      BY <2>1, <2>2 DEF l
    <3> QED
      BY <3>1 DEF l
  <2> QED
    BY <1>1, <2>3
<1>2. CASE ~min
  <2>1. \A k \in T : p >= k
    BY <1>2 DEF Better
  <2>2. Greatest(T) \in T /\ \A k \in T : Greatest(T) >= k
    BY <2>1 DEF Greatest
  <2>3. Greatest(T) = p
    <3> DEFINE l == Greatest(T)
    <3> HIDE DEF l
    <3>1. l \in Int /\ p \in Int /\ l <= p /\ p <= l
      BY <2>1, <2>2 DEF l
    <3> QED
      BY <3>1 DEF l
  <2> QED
    BY <1>2, <2>3
<1> QED
  BY <1>1, <1>2

-----------------------------------------------------------------------------
\* h with an element that has key k at index i; what was there is now at the end.
PutAt(h, i, k, g) ==
  /\ HeapOk(g) /\ g.min = h.min /\ HeapSize(g) = HeapSize(h) + 1
  /\ HeapKey(g, i) = k
  /\ \A x \in 1 .. HeapSize(h) : x # i => HeapKey(g, x) = HeapKey(h, x)
  /\ \A l : HeapCount(g, l) = IF l = k THEN HeapCount(h, l) + 1 ELSE HeapCount(h, l)

\* That is what darray_insert does to the array of a heap.
LEMMA HeapPut ==
  ASSUME NEW h, HeapOk(h), NEW k \in HeapKeys, NEW i \in 1 .. HeapSize(h) + 1,
         NEW g, g = [h EXCEPT !.arr = DaInsert(@, <<k, 0>>, i)]
  PROVE  PutAt(h, i, k, g)
<1> DEFINE a == h.arr
           s == a.elts
           N == HeapSize(h)
           e == <<k, 0>>
           b == DaInsert(a, e, i)
           t == b.elts
<1>1. /\ h \in BinHeaps(HeapElts) /\ ArrayOf(a, HeapElts) /\ a.order = "none" /\ a.noalloc = FALSE
      /\ a.max_elts = HeapMax + 1 /\ s \in Seq(HeapElts)
      /\ N \in Nat /\ Len(s) = N + 1 /\ DaSize(a) = N + 1 /\ s[1] = Scratch
      /\ \A x \in 1 .. N : HeapKey(h, x) = s[x + 1][1] /\ HeapKey(h, x) \in HeapKeys
  BY HeapFields DEF HeapOk
<1>2. e \in HeapElts /\ e[1] = k /\ Keyed(HeapElts)
  BY HeapKeyed
<1>3. g = [h EXCEPT !.arr = b]
  OBVIOUS
<1> HIDE DEF N, e
<1>4. i \in 0 .. DaSize(a) /\ i \in Nat /\ i >= 1 /\ i <= N + 1
  <2> DEFINE m == DaSize(a)
  <2>1. m = N + 1
    BY <1>1
  <2> HIDE DEF m
  <2>2. i \in 0 .. m /\ i \in Nat /\ i >= 1 /\ i <= N + 1
    <3>1. i \in 1 .. N + 1
      BY DEF N
    <3> QED
      BY <1>1, <2>1, <3>1
  <2> QED
    BY <2>2 DEF m
<1>5. /\ ArrayOf(b, HeapElts) /\ DaSize(b) = DaSize(a) + 1
      /\ b.noalloc = a.noalloc /\ b.order = a.order /\ b.max_elts = a.max_elts
      /\ t = Placed(a, e, i)
      /\ \A l : /\ KeyCount(a.elts, l) \in Nat
                /\ KeyCount(t, l) = IF e[1] = l THEN KeyCount(a.elts, l) + 1 ELSE KeyCount(a.elts, l)
  <2>1. ArrayOf(a, HeapElts) /\ e \in HeapElts /\ i \in 0 .. DaSize(a) /\ Keyed(HeapElts)
        /\ (a.capacity > DaSize(a) \/ ~a.noalloc) /\ b = DaInsert(a, e, i) /\ a.order # "sorted"
    BY <1>1, <1>2, <1>4
  <2> HIDE DEF a, b
  <2> QED
    BY ONLY <2>1, InsertKeeps
<1> HIDE DEF a, b
<1>6. /\ b \in DArrays(HeapElts) /\ t \in Seq(HeapElts)
      /\ g \in BinHeaps(HeapElts) /\ g.arr = b /\ g.min = h.min
  <2>1. b \in DArrays(HeapElts)
    BY <1>5 DEF ArrayOf
  <2>2. t \in Seq(HeapElts)
    BY <2>1, ArrayFields
  <2>3. h \in BinHeaps(HeapElts) /\ g = [h EXCEPT !.arr = b]
    BY <1>1, <1>3
  <2>4. g \in BinHeaps(HeapElts) /\ g.arr = b /\ g.min = h.min
    BY ONLY <2>1, <2>3, HeapWith
  <2> QED
    BY <2>1, <2>2, <2>4
<1>7. DaSize(b) = N + 2 /\ Len(t) = N + 2 /\ HeapSize(g) = N + 1 /\ DaSize(g.arr) = N + 2
  BY <1>1, <1>5, <1>6 DEF HeapSize, DaSize
<1>8. /\ t[i + 1] = e /\ \A x \in 1 .. N + 1 : x # i + 1 => t[x] = s[x]
      /\ i <= N => t[N + 2] = s[i + 1]
  <2>1. CASE i = N + 1
    <3>1. t = InsertAt(s, i + 1, e)
      <4>1. i = DaSize(a)
        BY <1>1, <2>1
      <4> QED
        BY <1>5, <4>1 DEF Placed
    <3> DEFINE y == i + 1
    <3>2. y \in 1 .. Len(s) + 1 /\ y > Len(s)
      BY <1>1, <2>1
    <3> HIDE DEF y
    <3>3. t[y] = e /\ \A x \in 1 .. Len(s) : t[x] = s[x]
      BY <1>1, <1>2, <3>1, <3>2, AppendedAt DEF y
    <3> QED
      BY <1>1, <1>4, <2>1, <3>3 DEF y
  <2>2. CASE i # N + 1
    <3> DEFINE y == i + 1
               r == [s EXCEPT ![y] = e]
    <3>1. t = Append(r, s[y])
      <4>1. ~(a.order = "ordered" \/ i = DaSize(a))
        BY <1>1, <2>2
      <4> QED
        BY <1>5, <4>1 DEF Placed
    <3>2. y \in 1 .. N + 1 /\ i <= N
      BY <1>1, <1>4, <2>2
    <3> HIDE DEF y
    <3>3. r \in Seq(HeapElts) /\ Len(r) = N + 1 /\ \A x \in 1 .. N + 1 : r[x] = IF x = y THEN e ELSE s[x]
      <4>1. s \in Seq(HeapElts) /\ Len(s) = N + 1 /\ e \in HeapElts /\ N \in Nat /\ y \in 1 .. N + 1
        BY <1>1, <1>2, <3>2
      <4>2. r = [s EXCEPT ![y] = e]
        OBVIOUS
      <4> HIDE DEF s, r
      <4> QED
        BY ONLY <4>1, <4>2
    <3> HIDE DEF r
    <3>4. t[N + 2] = s[y] /\ \A x \in 1 .. N + 1 : t[x] = r[x]
      <4>1. N + 2 = Len(r) + 1
        BY <1>1, <3>3
      <4> QED
        BY <3>1, <3>3, <4>1
    <3>5. t[y] = e /\ t[N + 2] = s[y] /\ \A x \in 1 .. N + 1 : x # y => t[x] = s[x]
      BY <3>2, <3>3, <3>4
    <3> QED
      BY <3>5 DEF y
  <2> QED
    BY <2>1, <2>2
<1>9. \A x \in 1 .. N + 1 : HeapKey(g, x) = t[x + 1][1]
  BY <1>6 DEF HeapKey, DaGet
<1>10. HeapKey(g, i) = k /\ \A x \in 1 .. N : x # i => HeapKey(g, x) = HeapKey(h, x)
  <2>1. i \in 1 .. N + 1
    BY <1>1, <1>4
  <2>2. ASSUME NEW x \in 1 .. N, x # i PROVE HeapKey(g, x) = HeapKey(h, x)
    <3> DEFINE y == x + 1
    <3>1. y \in 1 .. N + 1 /\ y # i + 1 /\ x \in 1 .. N + 1
      <4>1. N \in Nat /\ i \in Nat /\ x \in 1 .. N /\ x # i
        BY <1>1, <1>4, <2>2
      <4> QED
        BY ONLY <4>1
    <3> HIDE DEF y
    <3>2. t[y] = s[y]
      BY <1>8, <3>1
    <3> QED
      BY <1>1, <1>9, <3>1, <3>2 DEF y
  <2> QED
    BY <1>2, <1>8, <1>9, <2>1, <2>2
<1>11. \A x \in 1 .. N + 1 : HeapKey(g, x) \in HeapKeys
  <2> SUFFICES ASSUME NEW x \in 1 .. N + 1 PROVE HeapKey(g, x) \in HeapKeys
    OBVIOUS
  <2>1. CASE x = i
    BY <1>10, <2>1
  <2>2. CASE x # i /\ x <= N
    <3>1. x \in 1 .. N
      BY <1>1, <2>2
    <3> QED
      BY <1>1, <1>10, <2>2, <3>1
  <2>3. CASE x # i /\ ~(x <= N)
    <3>1. x = N + 1 /\ i <= N /\ i \in 1 .. N /\ x + 1 = N + 2
      BY <1>1, <1>4, <2>3
    <3>2. HeapKey(g, x) = s[i + 1][1]
      BY <1>8, <1>9, <3>1
    <3> QED
      BY <1>1, <3>1, <3>2
  <2> QED
    BY <2>1, <2>2, <2>3
<1>12. t[1] = Scratch
  <2>1. 1 \in 1 .. N + 1 /\ 1 # i + 1
    BY <1>1, <1>4
  <2> QED
    BY <1>1, <1>8, <2>1
<1>13. HeapOk(g)
  <2>1. DaSize(g.arr) >= 1
    BY <1>1, <1>7
  <2> QED
    BY <1>1, <1>5, <1>6, <1>7, <1>11, <1>12, <2>1 DEF HeapOk
<1>14. ASSUME NEW l PROVE HeapCount(g, l) = IF l = k THEN HeapCount(h, l) + 1 ELSE HeapCount(h, l)
  <2> DEFINE c == HeapCount(h, l)
             d == HeapCount(g, l)
             x == KeyCount(s, l)
             y == KeyCount(t, l)
  <2>1. c \in Nat /\ x = IF l = 0 THEN c + 1 ELSE c
    BY HeapCountIs DEF a
  <2>2. d \in Nat /\ y = IF l = 0 THEN d + 1 ELSE d
    BY <1>6, <1>13, HeapCountIs
  <2>3. x \in Nat /\ y = IF l = k THEN x + 1 ELSE x
    BY <1>2, <1>5
  <2> HIDE DEF c, d, x, y
  <2>4. d = IF l = k THEN c + 1 ELSE c
    BY <2>1, <2>2, <2>3
  <2> QED
    BY <2>4 DEF c, d
<1> QED
  BY <1>6, <1>7, <1>10, <1>13, <1>14 DEF PutAt, N

\* Inserting adds the key and keeps the order (binheap_insert).
LEMMA HeapInsertKeeps ==
  ASSUME NEW h, HeapOk(h), OrderedFrom(h, 1), NEW k \in HeapKeys, NEW g, g = HeapInsert(h, k)
  PROVE  /\ HeapOk(g) /\ g.min = h.min /\ HeapSize(g) = HeapSize(h) + 1 /\ OrderedFrom(g, 1)
         /\ \A l : HeapCount(g, l) = IF l = k THEN HeapCount(h, l) + 1 ELSE HeapCount(h, l)
<1> DEFINE N == HeapSize(h)
           min == h.min
           i == DaSize(h.arr)
           put == [h EXCEPT !.arr = DaInsert(@, <<k, 0>>, DaSize(@))]
<1>1. N \in Nat /\ i = N + 1 /\ put = [h EXCEPT !.arr = DaInsert(@, <<k, 0>>, i)]
  BY HeapFields
<1>2. PutAt(h, i, k, put)
  <2>1. i \in 1 .. N + 1
    BY <1>1
  <2> HIDE DEF i, put
  <2> QED
    BY <1>1, <2>1, HeapPut
<1>3. g = SiftUp(put, HeapSize(put))
  BY DEF HeapInsert
<1> HIDE DEF i, put
<1>4. /\ HeapOk(put) /\ put.min = min /\ HeapSize(put) = N + 1 /\ HeapKey(put, i) = k
      /\ \A x \in 1 .. N : x # i => HeapKey(put, x) = HeapKey(h, x)
      /\ \A l : HeapCount(put, l) = IF l = k THEN HeapCount(h, l) + 1 ELSE HeapCount(h, l)
  BY <1>2 DEF PutAt
<1>5. \A j \in 2 .. N : ~Better(min, HeapKey(h, j), HeapKey(h, j \div 2))
  <2> SUFFICES ASSUME NEW j \in 2 .. N PROVE j \div 2 >= 1
    BY DEF OrderedFrom
  <2> QED
    BY <1>1, Parent
<1> HIDE DEF N, min
<1>6. OrderedButUp(put, i)
  <2>1. ASSUME NEW j \in 2 .. N + 1, j # i PROVE ~Better(min, HeapKey(put, j), HeapKey(put, j \div 2))
    <3> DEFINE q == j \div 2
    <3>1. j \in 2 .. N /\ j \in 1 .. N /\ j \in Nat /\ j >= 2
      BY <1>1, <2>1
    <3>2. q < j /\ q >= 1 /\ q \in Nat
      BY <3>1, Parent
    <3>4. ~Better(min, HeapKey(h, j), HeapKey(h, q))
      BY <1>5, <3>1
    <3> HIDE DEF q
    <3>3. q \in 1 .. N /\ q # i
      BY <1>1, <3>1, <3>2
    <3> QED
      BY <1>4, <2>1, <3>1, <3>3, <3>4 DEF q
  <2>2. \A j \in 2 .. N + 1 : j \div 2 # i
    <3> SUFFICES ASSUME NEW j \in 2 .. N + 1 PROVE j \div 2 < N + 1
      BY <1>1
    <3> QED
      BY <1>1, Parent
  <2> QED
    BY <1>4, <2>1, <2>2 DEF OrderedButUp
<1>7. Kept(put, g) /\ OrderedFrom(g, 1)
  <2>1. i \in 1 .. HeapSize(put) /\ g = SiftUp(put, i)
    BY <1>1, <1>3, <1>4
  <2> QED
    BY <1>4, <1>6, <2>1, SiftUpOrders
<1>8. HeapOk(g) /\ g.min = min /\ HeapSize(g) = N + 1 /\ \A l : HeapCount(g, l) = HeapCount(put, l)
  <2>1. \A l : HeapCount(g, l) = HeapCount(put, l)
    BY <1>4, <1>7, KeptCount
  <2> QED
    BY <1>4, <1>7, <2>1 DEF Kept
<1> QED
  BY <1>4, <1>7, <1>8 DEF N, min

-----------------------------------------------------------------------------
\* Extraction takes out the first element, which leaves the others in order, in
\* an array that may have shrunk (binheap_extract).
LEMMA HeapExtractKeeps ==
  ASSUME NEW h, HeapOk(h), OrderedFrom(h, 1), HeapSize(h) >= 1, NEW g, g = HeapExtract(h)
  PROVE  /\ HeapOk(g) /\ g.min = h.min /\ HeapSize(g) = HeapSize(h) - 1 /\ OrderedFrom(g, 1)
         /\ \A l : HeapCount(h, l) = IF l = HeapKey(h, 1) THEN HeapCount(g, l) + 1 ELSE HeapCount(g, l)
<1> DEFINE a == h.arr
           s == a.elts
           N == HeapSize(h)
           min == h.min
           last == DaGet(a, DaSize(a) - 1)
           b == DaSet(a, 1, last)
           ok == TRUE
           z == DaSize(a) - 1
           c == DaRemove(b, z, ok)
           t == c.elts
           mid == [h EXCEPT !.arr = c]
           K(x) == HeapKey(h, x)
           L(x) == HeapKey(mid, x)
<1>1. /\ h \in BinHeaps(HeapElts) /\ ArrayOf(a, HeapElts) /\ a.order = "none" /\ a.noalloc = FALSE
      /\ a.max_elts = HeapMax + 1 /\ s \in Seq(HeapElts)
      /\ N \in Nat /\ N >= 1 /\ Len(s) = N + 1 /\ DaSize(a) = N + 1 /\ s[1] = Scratch
      /\ \A x \in 1 .. N : K(x) = s[x + 1][1] /\ K(x) \in HeapKeys /\ K(x) \in Int
  BY HeapFields DEF HeapOk
<1>2. g = SiftDown(mid, 1)
  BY DEF HeapExtract, LastToTop
<1>3. ok \in BOOLEAN /\ z = N /\ mid = [h EXCEPT !.arr = c]
  <2>1. z = N
    <3> DEFINE m == DaSize(a)
    <3>1. m = N + 1 /\ N \in Nat
      BY <1>1
    <3> HIDE DEF m, N
    <3>2. m - 1 = N
      BY <3>1
    <3> QED
      BY <3>2 DEF m
  <2> QED
    BY <2>1
<1> HIDE DEF mid, ok
<1>4. last = s[N + 1] /\ last \in HeapElts
  <2>1. last = s[z + 1]
    BY DEF DaGet
  <2> HIDE DEF z, last, s, N
  <2>2. N + 1 \in 1 .. Len(s)
    BY <1>1
  <2> QED
    BY <1>1, <1>3, <2>1, <2>2
<1> HIDE DEF N, last, z
<1>5. /\ ArrayOf(b, HeapElts) /\ Len(b.elts) = N + 1
      /\ b.noalloc = a.noalloc /\ b.order = a.order /\ b.max_elts = a.max_elts
      /\ \A x \in 1 .. N + 1 : b.elts[x] = IF x = 2 THEN last ELSE s[x]
  <2> DEFINE i == 1
  <2>1. i \in 0 .. DaSize(a) - 1
    BY <1>1, <1>3 DEF z
  <2>2. ArrayOf(a, HeapElts) /\ a.order # "sorted" /\ last \in HeapElts /\ b = DaSet(a, i, last)
    BY <1>1, <1>4
  <2>3. i + 1 = 2
    OBVIOUS
  <2> HIDE DEF a, b, i
  <2>4. SetTo(a, i, last, b, HeapElts)
    BY ONLY <2>1, <2>2, SetIs
  <2> QED
    BY <1>1, <2>3, <2>4 DEF SetTo
<1> HIDE DEF a, b
<1>6. Removed(b, z, c, HeapElts)
  <2>1. DaSize(b) = N + 1 /\ z \in 0 .. DaSize(b) - 1
    BY <1>1, <1>3, <1>5 DEF DaSize
  <2>2. Keyed(HeapElts) /\ c = DaRemove(b, z, ok) /\ ArrayOf(b, HeapElts) /\ ok \in BOOLEAN
    BY <1>3, <1>5, HeapKeyed
  <2> HIDE DEF c
  <2> QED
    BY ONLY <2>1, <2>2, RemoveKeeps
<1> HIDE DEF c
<1>7. /\ ArrayOf(c, HeapElts) /\ DaSize(c) = N /\ Len(t) = N
      /\ c.noalloc = FALSE /\ c.order = "none" /\ c.max_elts = HeapMax + 1
      /\ \A x \in 1 .. N : t[x] = IF x = 2 THEN last ELSE s[x]
  <2>1. /\ ArrayOf(c, HeapElts) /\ DaSize(c) = DaSize(b) - 1
        /\ c.noalloc = b.noalloc /\ c.order = b.order /\ c.max_elts = b.max_elts
        /\ \A x \in 1 .. z : t[x] = b.elts[x]
    BY <1>6 DEF Removed
  <2>2. DaSize(c) = N /\ Len(t) = N
    BY <1>1, <1>5, <2>1 DEF DaSize
  <2>3. \A x \in 1 .. N : x \in 1 .. N + 1 /\ t[x] = b.elts[x]
    BY <1>1, <1>3, <2>1
  <2> QED
    BY <1>1, <1>5, <2>1, <2>2, <2>3
<1>8. c \in DArrays(HeapElts) /\ t \in Seq(HeapElts)
      /\ mid \in BinHeaps(HeapElts) /\ mid.arr = c /\ mid.min = min
  <2>1. c \in DArrays(HeapElts)
    BY <1>7 DEF ArrayOf
  <2>2. t \in Seq(HeapElts)
    BY <2>1, ArrayFields
  <2>3. h \in BinHeaps(HeapElts) /\ mid = [h EXCEPT !.arr = c]
    BY <1>1, <1>3
  <2>4. mid \in BinHeaps(HeapElts) /\ mid.arr = c /\ mid.min = h.min
    BY ONLY <2>1, <2>3, HeapWith
  <2> QED
    BY <2>1, <2>2, <2>4
<1>9. HeapSize(mid) = N - 1 /\ DaSize(mid.arr) = N
  BY <1>7, <1>8 DEF HeapSize
<1>10. \A x \in 1 .. N - 1 : L(x) = IF x = 1 THEN K(N) ELSE K(x)
  <2> SUFFICES ASSUME NEW x \in 1 .. N - 1 PROVE L(x) = IF x = 1 THEN K(N) ELSE K(x)
    OBVIOUS
  <2> DEFINE y == x + 1
  <2>1. L(x) = t[y][1]
    BY <1>8 DEF HeapKey, DaGet
  <2>2. y \in 1 .. N /\ (y = 2 <=> x = 1) /\ x \in 1 .. N
    BY <1>1
  <2> HIDE DEF y, L, K, t
  <2>3. t[y] = IF x = 1 THEN s[N + 1] ELSE s[y]
    BY <1>4, <1>7, <2>2
  <2>4. K(x) = s[y][1] /\ K(N) = s[N + 1][1]
    BY <1>1, <2>2 DEF y
  <2> QED
    BY <2>1, <2>3, <2>4
<1>11. HeapOk(mid)
  <2>1. \A x \in 1 .. N - 1 : L(x) \in HeapKeys
    <3>1. N \in 1 .. N /\ \A x \in 1 .. N - 1 : x \in 1 .. N
      BY <1>1
    <3> QED
      BY <1>1, <1>10, <3>1
  <2>2. t[1] = Scratch /\ N >= 1
    <3>1. 1 \in 1 .. N
      BY <1>1
    <3> QED
      BY <1>1, <1>7, <3>1
  <2> QED
    BY <1>7, <1>8, <1>9, <2>1, <2>2 DEF HeapOk
<1>12. OrderedButDown(mid, 1, 1)
  <2>1. ASSUME NEW j \in 2 .. N - 1, j \div 2 >= 1, j \div 2 # 1
        PROVE  ~Better(min, L(j), L(j \div 2))
    <3> DEFINE q == j \div 2
    <3>1. j \in Nat /\ j >= 2 /\ j \in 1 .. N - 1 /\ j \in 2 .. N /\ j # 1
      BY <1>1, <2>1
    <3>2. ~Better(min, K(j), K(q))
      BY <2>1, <3>1 DEF OrderedFrom, N
    <3>3. q < j /\ q >= 1 /\ q \in Nat /\ q # 1
      BY <2>1, <3>1, Parent
    <3> HIDE DEF q, L, K
    <3>4. q \in 1 .. N - 1
      BY <1>1, <3>1, <3>3
    <3> QED
      BY <1>10, <3>1, <3>2, <3>3, <3>4 DEF q
  <2>2. ~(1 \div 2 >= 1)
    OBVIOUS
  <2> QED
    BY <1>8, <1>9, <2>1, <2>2 DEF OrderedButDown
<1>13. Kept(mid, g) /\ OrderedFrom(g, 1)
  <2> DEFINE m == 1
  <2>1. HeapOk(mid) /\ m \in Nat /\ m >= 1 /\ OrderedButDown(mid, m, m) /\ g = SiftDown(mid, m)
    BY <1>2, <1>11, <1>12
  <2>2. m = 1
    OBVIOUS
  <2> HIDE DEF m
  <2>3. Kept(mid, g) /\ OrderedFrom(g, m)
    BY ONLY <2>1, SiftDownOrders
  <2> QED
    BY <2>2, <2>3
<1>14. Gains(t, s, s[2])
  <2> DEFINE i == 2
             r == Front([s EXCEPT ![i] = Last(s)])
  <2>1. i \in 1 .. Len(s) /\ Len(s) = N + 1
    BY <1>1
  <2>2. i = 2
    OBVIOUS
  <2> HIDE DEF i
  <2>3. s \in Seq(HeapElts) /\ i \in 1 .. Len(s) /\ r = Front([s EXCEPT ![i] = Last(s)])
    BY <1>1, <2>1
  <2> HIDE DEF s, t, r
  <2>4. r \in Seq(HeapElts)
    BY ONLY <2>3, FilledAt
  <2>5. Len(r) = Len(s) - 1
    BY ONLY <2>3, FilledAt
  <2>6. \A x \in 1 .. Len(s) - 1 : r[x] = IF x = i THEN s[Len(s)] ELSE s[x]
    BY ONLY <2>3, FilledAt
  <2>7. /\ r \in Seq(HeapElts) /\ Len(r) = Len(s) - 1
        /\ \A x \in 1 .. Len(s) - 1 : r[x] = IF x = i THEN s[Len(s)] ELSE s[x]
    BY ONLY <2>4, <2>5, <2>6
  <2>8. Gains(r, s, s[i])
    BY <2>3, RemovedLoses
  <2>9. Len(s) - 1 = N
    BY <1>1, <2>1
  <2>10. Len(r) = N /\ \A x \in 1 .. N : r[x] = t[x]
    BY <1>4, <1>7, <2>1, <2>2, <2>7, <2>9
  <2>11. r = t
    BY <1>7, <1>8, <2>7, <2>10
  <2> QED
    BY <2>2, <2>8, <2>11
<1>15. s[2][1] = K(1)
  <2>1. 1 \in 1 .. N /\ 1 + 1 = 2
    BY <1>1
  <2> QED
    BY <1>1, <2>1
<1>16. ASSUME NEW l PROVE HeapCount(h, l) = IF l = K(1) THEN HeapCount(g, l) + 1 ELSE HeapCount(g, l)
  <2> DEFINE u == HeapCount(h, l)
             v == HeapCount(mid, l)
             x == KeyCount(s, l)
             y == KeyCount(t, l)
  <2>1. u \in Nat /\ x = IF l = 0 THEN u + 1 ELSE u
    BY HeapCountIs DEF a
  <2>2. v \in Nat /\ y = IF l = 0 THEN v + 1 ELSE v
    BY <1>8, <1>11, HeapCountIs
  <2>3. y \in Nat /\ x = IF l = K(1) THEN y + 1 ELSE y
    BY <1>1, <1>8, <1>14, <1>15, GainsCount
  <2>4. HeapCount(g, l) = v
    BY <1>11, <1>13, KeptCount
  <2> HIDE DEF u, v, x, y
  <2>5. u = IF l = K(1) THEN v + 1 ELSE v
    BY <2>1, <2>2, <2>3
  <2> QED
    BY <2>4, <2>5 DEF u
<1>17. HeapOk(g) /\ g.min = min /\ HeapSize(g) = N - 1
  BY <1>8, <1>9, <1>13 DEF Kept
<1> QED
  BY <1>13, <1>16, <1>17 DEF N

-----------------------------------------------------------------------------
\* Two sequences that differ in one place are one sequence with one element more.
LEMMA ReplacedGains ==
  ASSUME NEW E, NEW s \in Seq(E), NEW t \in Seq(E), NEW i \in 1 .. Len(s), Len(t) = Len(s),
         \A x \in 1 .. Len(s) : x # i => t[x] = s[x]
  PROVE  \E u \in Seq(E) : Gains(u, s, s[i]) /\ Gains(u, t, t[i])
<1> DEFINE u == RemoveAt(s, i)
           v == RemoveAt(t, i)
           n == Len(s)
<1>1. u \in Seq(E) /\ Len(u) = n - 1 /\ \A j \in 1 .. n - 1 : u[j] = IF j < i THEN s[j] ELSE s[j + 1]
  <2>1. IsRemoved(E, s, i, u)
    BY RemovedAt
  <2> QED
    BY <2>1 DEF IsRemoved
<1>2. i \in 1 .. Len(t)
  OBVIOUS
<1>3. v \in Seq(E) /\ Len(v) = n - 1 /\ \A j \in 1 .. n - 1 : v[j] = IF j < i THEN t[j] ELSE t[j + 1]
  <2>1. IsRemoved(E, t, i, v)
    BY <1>2, RemovedAt
  <2> QED
    BY <2>1 DEF IsRemoved
<1>4. Gains(u, s, s[i]) /\ Gains(v, t, t[i])
  BY <1>2, RemovedLoses
<1> HIDE DEF u, v
<1>5. u = v
  <2>1. \A j \in 1 .. n - 1 : /\ j < i => j \in 1 .. n /\ j # i
                              /\ ~(j < i) => j + 1 \in 1 .. n /\ j + 1 # i
    OBVIOUS
  <2>2. \A j \in 1 .. n - 1 : u[j] = v[j]
    BY <1>1, <1>3, <2>1
  <2> QED
    BY <1>1, <1>3, <2>2
<1> QED
  BY <1>1, <1>4, <1>5

\* Giving an element a key that is no worse replaces its key and keeps the order
\* (binheap_update_key).
LEMMA HeapUpdateKeeps ==
  ASSUME NEW h, HeapOk(h), OrderedFrom(h, 1), NEW i \in 1 .. HeapSize(h), NEW k \in HeapKeys,
         ~Better(h.min, HeapKey(h, i), k), NEW g, g = HeapUpdateKey(h, i, k)
  PROVE  /\ HeapOk(g) /\ g.min = h.min /\ HeapSize(g) = HeapSize(h) /\ OrderedFrom(g, 1)
         /\ \A l : HeapCount(g, l) + (IF l = HeapKey(h, i) THEN 1 ELSE 0)
                     = HeapCount(h, l) + (IF l = k THEN 1 ELSE 0)
<1> DEFINE a == h.arr
           s == a.elts
           N == HeapSize(h)
           min == h.min
           e == <<k, 0>>
           b == DaSet(a, i, e)
           t == b.elts
           set == [h EXCEPT !.arr = b]
           K(x) == HeapKey(h, x)
           L(x) == HeapKey(set, x)
<1>1. /\ h \in BinHeaps(HeapElts) /\ ArrayOf(a, HeapElts) /\ a.order = "none" /\ a.noalloc = FALSE
      /\ a.max_elts = HeapMax + 1 /\ s \in Seq(HeapElts)
      /\ N \in Nat /\ Len(s) = N + 1 /\ DaSize(a) = N + 1 /\ s[1] = Scratch
      /\ \A x \in 1 .. N : K(x) = s[x + 1][1] /\ K(x) \in HeapKeys /\ K(x) \in Int
  BY HeapFields DEF HeapOk
<1>2. g = SiftUp(set, i)
  BY DEF HeapUpdateKey
<1>3. e \in HeapElts /\ e[1] = k /\ k \in Int
  BY HeapKeyed
<1>4. i \in 1 .. N /\ set = [h EXCEPT !.arr = b]
  OBVIOUS
<1> HIDE DEF set, e, N
<1>5. /\ ArrayOf(b, HeapElts) /\ Len(t) = N + 1
      /\ b.noalloc = a.noalloc /\ b.order = a.order /\ b.max_elts = a.max_elts
      /\ \A x \in 1 .. N + 1 : t[x] = IF x = i + 1 THEN e ELSE s[x]
  <2> DEFINE m == DaSize(a)
  <2>1. i \in 0 .. m - 1
    <3>1. m = N + 1
      BY <1>1
    <3> HIDE DEF m
    <3> QED
      BY <1>1, <1>4, <3>1
  <2>2. ArrayOf(a, HeapElts) /\ i \in 0 .. DaSize(a) - 1 /\ a.order # "sorted" /\ e \in HeapElts /\ b = DaSet(a, i, e)
    BY <1>1, <1>3, <2>1
  <2> HIDE DEF a, b
  <2>3. SetTo(a, i, e, b, HeapElts)
    BY ONLY <2>2, SetIs
  <2> QED
    BY <1>1, <2>3 DEF SetTo
<1> HIDE DEF a, b
<1>6. /\ b \in DArrays(HeapElts) /\ t \in Seq(HeapElts)
      /\ set \in BinHeaps(HeapElts) /\ set.arr = b /\ set.min = min
  <2>1. b \in DArrays(HeapElts)
    BY <1>5 DEF ArrayOf
  <2>2. t \in Seq(HeapElts)
    BY <2>1, ArrayFields
  <2>3. h \in BinHeaps(HeapElts) /\ set = [h EXCEPT !.arr = b]
    BY <1>1, <1>4
  <2>4. set \in BinHeaps(HeapElts) /\ set.arr = b /\ set.min = h.min
    BY ONLY <2>1, <2>3, HeapWith
  <2> QED
    BY <2>1, <2>2, <2>4
<1>7. HeapSize(set) = N /\ DaSize(set.arr) = N + 1
  BY <1>1, <1>5, <1>6 DEF HeapSize, DaSize
<1>8. \A x \in 1 .. N : L(x) = IF x = i THEN k ELSE K(x)
  <2> SUFFICES ASSUME NEW x \in 1 .. N PROVE L(x) = IF x = i THEN k ELSE K(x)
    OBVIOUS
  <2> DEFINE y == x + 1
             z == i + 1
  <2>1. L(x) = t[y][1] /\ K(x) = s[y][1]
    BY <1>1, <1>6 DEF HeapKey, DaGet
  <2>2. x \in 1 .. N /\ i \in 1 .. N /\ N \in Nat
    BY <1>1, <1>4
  <2>3. y \in 1 .. N + 1 /\ (y = z <=> x = i)
    BY ONLY <2>2
  <2>4. t[y] = IF y = z THEN e ELSE s[y]
    BY <1>5, <2>3
  <2> HIDE DEF y, z, L, K, t, s
  <2> QED
    BY <1>3, <2>1, <2>3, <2>4
<1>9. HeapOk(set)
  <2>1. \A x \in 1 .. N : L(x) \in HeapKeys
    BY <1>1, <1>8
  <2>2. t[1] = Scratch /\ N + 1 >= 1
    <3>1. 1 \in 1 .. N + 1 /\ 1 # i + 1
      BY <1>1, <1>4
    <3> QED
      BY <1>1, <1>5, <3>1
  <2> QED
    BY <1>1, <1>5, <1>6, <1>7, <2>1, <2>2 DEF HeapOk
<1>10. OrderedButUp(set, i)
  <2>1. ASSUME NEW j \in 2 .. N
        PROVE  /\ j \in 1 .. N /\ j \div 2 \in 1 .. N /\ j \div 2 < j
               /\ ~Better(min, K(j), K(j \div 2))
    <3>1. j \in Nat /\ j >= 2 /\ j \in 1 .. N
      BY <1>1, <2>1
    <3>2. j \div 2 < j /\ j \div 2 >= 1 /\ j \div 2 \in Nat
      BY <3>1, Parent
    <3>3. ~Better(min, K(j), K(j \div 2))
      BY <3>2 DEF OrderedFrom, N
    <3>4. j \div 2 \in 1 .. N
      BY <1>1, <3>1, <3>2
    <3> QED
      BY <3>1, <3>2, <3>3, <3>4
  <2>2. ~Better(min, K(i), k)
    OBVIOUS
  <2> HIDE DEF K, L
  <2>3. ASSUME NEW j \in 2 .. N, j # i PROVE ~Better(min, L(j), L(j \div 2))
    <3> DEFINE q == j \div 2
    <3>1. j \in 1 .. N /\ q \in 1 .. N /\ ~Better(min, K(j), K(q))
      BY <2>1
    <3> HIDE DEF q
    <3>2. L(j) = K(j) /\ L(q) = IF q = i THEN k ELSE K(q)
      BY <1>8, <2>3, <3>1
    <3>3. q = i => ~Better(min, K(j), k)
      BY <1>1, <1>3, <1>4, <2>2, <3>1, BetterOrders
    <3> QED
      BY <3>1, <3>2, <3>3 DEF q
  <2>4. ASSUME NEW j \in 2 .. N, j \div 2 = i, i >= 2 PROVE ~Better(min, L(j), L(i \div 2))
    <3> DEFINE q == i \div 2
    <3>1. j \in 1 .. N /\ j # i /\ i < j /\ ~Better(min, K(j), K(i))
      BY <1>4, <2>1, <2>4
    <3>2. i \in 2 .. N
      BY <1>1, <1>4, <2>4
    <3>3. q \in 1 .. N /\ q < i /\ ~Better(min, K(i), K(q))
      BY <2>1, <3>2
    <3> HIDE DEF q
    <3>4. q # i
      BY <1>4, <3>3
    <3>5. L(j) = K(j) /\ L(q) = K(q)
      BY <1>8, <3>1, <3>3, <3>4
    <3>6. ~Better(min, K(j), K(q))
      BY <1>1, <1>4, <3>1, <3>3, BetterOrders
    <3> QED
      BY <3>5, <3>6 DEF q
  <2> QED
    BY <1>6, <1>7, <2>3, <2>4 DEF OrderedButUp, L
<1>11. Kept(set, g) /\ OrderedFrom(g, 1)
  <2>1. i \in 1 .. HeapSize(set)
    BY <1>4, <1>7
  <2> QED
    BY <1>2, <1>9, <1>10, <2>1, SiftUpOrders
<1>12. PICK u \in Seq(HeapElts) : Gains(u, s, s[i + 1]) /\ Gains(u, t, t[i + 1])
  <2> DEFINE z == i + 1
  <2>1. z \in 1 .. N + 1
    <3>1. N \in Nat /\ i \in 1 .. N
      BY <1>1, <1>4
    <3> QED
      BY ONLY <3>1
  <2> HIDE DEF z, s, t
  <2>2. z \in 1 .. Len(s) /\ Len(t) = Len(s) /\ \A x \in 1 .. Len(s) : x # z => t[x] = s[x]
    BY <1>1, <1>5, <2>1 DEF z
  <2>3. \E u \in Seq(HeapElts) : Gains(u, s, s[z]) /\ Gains(u, t, t[z])
    BY <1>1, <1>6, <2>2, ReplacedGains
  <2> QED
    BY <2>3 DEF z
<1>13. s[i + 1][1] = K(i) /\ t[i + 1][1] = k
  <2>1. N \in Nat /\ i \in 1 .. N
    BY <1>1, <1>4
  <2>2. i + 1 \in 1 .. N + 1
    BY ONLY <2>1
  <2> QED
    BY <1>1, <1>3, <1>4, <1>5, <2>2
<1>14. ASSUME NEW l
       PROVE  HeapCount(g, l) + (IF l = K(i) THEN 1 ELSE 0) = HeapCount(h, l) + (IF l = k THEN 1 ELSE 0)
  <2> DEFINE c == HeapCount(h, l)
             d == HeapCount(set, l)
             x == KeyCount(s, l)
             y == KeyCount(t, l)
             w == KeyCount(u, l)
  <2>1. c \in Nat /\ x = IF l = 0 THEN c + 1 ELSE c
    BY HeapCountIs DEF a
  <2>2. d \in Nat /\ y = IF l = 0 THEN d + 1 ELSE d
    BY <1>6, <1>9, HeapCountIs
  <2>3. w \in Nat /\ x = IF l = K(i) THEN w + 1 ELSE w
    BY <1>1, <1>12, <1>13, GainsCount
  <2>4. y = IF l = k THEN w + 1 ELSE w
    BY <1>6, <1>12, <1>13, GainsCount
  <2>5. HeapCount(g, l) = d
    BY <1>9, <1>11, KeptCount
  <2> HIDE DEF c, d, x, y, w
  <2>6. d + (IF l = K(i) THEN 1 ELSE 0) = c + (IF l = k THEN 1 ELSE 0)
    <3> HIDE DEF K
    <3> QED
      BY <2>1, <2>2, <2>3, <2>4
  <2> QED
    BY <2>5, <2>6 DEF c
<1>15. HeapOk(g) /\ g.min = min /\ HeapSize(g) = N
  BY <1>6, <1>7, <1>11 DEF Kept
<1> QED
  BY <1>11, <1>14, <1>15 DEF N

\* Deleting an element takes out that element and no other
\* (binheap_delete_key, with a key no other is above).
LEMMA HeapDeleteKeeps ==
  ASSUME NEW h, HeapOk(h), OrderedFrom(h, 1), NEW i \in 1 .. HeapSize(h), NEW k \in HeapKeys,
         \A l \in HeapKeys : ~Better(h.min, l, k), NEW g, g = HeapDeleteKey(h, i, k)
  PROVE  /\ HeapOk(g) /\ g.min = h.min /\ HeapSize(g) = HeapSize(h) - 1 /\ OrderedFrom(g, 1)
         /\ \A l : HeapCount(h, l) = IF l = HeapKey(h, i) THEN HeapCount(g, l) + 1 ELSE HeapCount(g, l)
<1> DEFINE u == HeapUpdateKey(h, i, k)
           N == HeapSize(h)
           min == h.min
           K(x) == HeapKey(h, x)
           L(x) == HeapKey(u, x)
<1>1. g = HeapExtract(u)
  BY DEF HeapDeleteKey
<1>2. N \in Nat /\ i \in 1 .. N /\ K(i) \in HeapKeys /\ k \in Int
  BY HeapFields, HeapKeyed DEF HeapOk
<1>3. /\ HeapOk(u) /\ u.min = min /\ HeapSize(u) = N /\ OrderedFrom(u, 1)
      /\ \A l : HeapCount(u, l) + (IF l = K(i) THEN 1 ELSE 0) = HeapCount(h, l) + (IF l = k THEN 1 ELSE 0)
  <2>1. ~Better(h.min, HeapKey(h, i), k)
    BY <1>2
  <2> HIDE DEF u
  <2>2. u = HeapUpdateKey(h, i, k)
    BY DEF u
  <2> QED
    BY <2>1, <2>2, HeapUpdateKeeps
<1> HIDE DEF u
<1>4. L(1) = k
  <2> DEFINE c == HeapCount(h, k)
             d == HeapCount(u, k)
  <2>1. c \in Nat /\ d \in Nat /\ (c > 0 <=> \E x \in 1 .. N : K(x) = k)
    BY <1>3, HeapCountIs
  <2>2. d + (IF k = K(i) THEN 1 ELSE 0) = c + 1
    BY <1>3
  <2> HIDE DEF c, d
  <2>3. d > 0
    BY <1>2, <2>1, <2>2
  <2>4. PICK x \in 1 .. N : L(x) = k
    BY <1>3, <2>3, HeapCountIs DEF d
  <2>5. ~Better(min, k, L(1))
    BY <1>3, <2>4, TopIsBest
  <2>6. 1 \in 1 .. N
    BY <1>2
  <2>7. L(1) \in HeapKeys /\ L(1) \in Int
    BY <1>3, <2>6, HeapKeyed DEF HeapOk
  <2>8. ~Better(min, L(1), k)
    BY <2>7
  <2> QED
    BY <1>2, <2>5, <2>7, <2>8, BetterOrders
<1>5. /\ HeapOk(g) /\ g.min = min /\ HeapSize(g) = N - 1 /\ OrderedFrom(g, 1)
      /\ \A l : HeapCount(u, l) = IF l = k THEN HeapCount(g, l) + 1 ELSE HeapCount(g, l)
  <2>1. HeapSize(u) >= 1
    BY <1>2, <1>3
  <2> QED
    BY <1>1, <1>3, <1>4, <2>1, HeapExtractKeeps
<1>6. ASSUME NEW l PROVE HeapCount(h, l) = IF l = K(i) THEN HeapCount(g, l) + 1 ELSE HeapCount(g, l)
  <2> DEFINE c == HeapCount(h, l)
             d == HeapCount(u, l)
             f == HeapCount(g, l)
  <2>1. c \in Nat /\ f \in Nat
    BY <1>5, HeapCountIs
  <2>2. d = (IF l = k THEN f + 1 ELSE f) /\ d + (IF l = K(i) THEN 1 ELSE 0) = c + (IF l = k THEN 1 ELSE 0)
    BY <1>3, <1>5
  <2> HIDE DEF c, d, f, K
  <2>3. c = IF l = K(i) THEN f + 1 ELSE f
    BY <2>1, <2>2
  <2> QED
    BY <2>3 DEF c, f
<1> QED
  BY <1>5, <1>6 DEF N, min

-----------------------------------------------------------------------------
\* A loop whose steps also depend on how many were done.
CountsIn(f, N, I, init, step) ==
  /\ f = [n \in 0 .. N |-> IF n = 0 THEN init ELSE step[n][f[n - 1]]]
  /\ \A n \in 0 .. N : f[n] \in I[n]

\* There is a function from that number to what is reached.
LEMMA CountingRunExists ==
  ASSUME NEW N \in Nat, NEW I, NEW init \in I[0], NEW step,
         \A n \in 1 .. N : \A x \in I[n - 1] : step[n][x] \in I[n]
  PROVE  \E f : CountsIn(f, N, I, init, step)
<1> DEFINE J == [n \in 0 .. N |-> {n} \X I[n]]
           start == <<0, init>>
           X == UNION {J[n] : n \in 0 .. N}
           go == [p \in X |-> <<p[1] + 1, step[p[1] + 1][p[2]]>>]
<1>1. start \in J[0] /\ \A n \in 0 .. N : J[n] = {n} \X I[n]
  OBVIOUS
<1>2. ASSUME NEW n \in 1 .. N, NEW p \in J[n - 1]
      PROVE  go[p] = <<n, step[n][p[2]]>> /\ p[2] \in I[n - 1] /\ go[p] \in J[n]
  <2>1. n \in 0 .. N /\ n - 1 \in 0 .. N /\ (n - 1) + 1 = n
    OBVIOUS
  <2>2. p[1] = n - 1 /\ p[2] \in I[n - 1]
    BY <1>1, <2>1
  <2>3. p \in X
    BY <2>1
  <2>4. go[p] = <<p[1] + 1, step[p[1] + 1][p[2]]>>
    BY <2>3
  <2>5. go[p] = <<n, step[n][p[2]]>>
    BY <2>1, <2>2, <2>4
  <2>6. step[n][p[2]] \in I[n]
    BY <2>2
  <2> HIDE DEF go, J
  <2> QED
    BY <1>1, <2>1, <2>2, <2>5, <2>6
<1> HIDE DEF J, go, start
<1>3. PICK r : RunsIn(r, N, J, start, go)
  <2>1. start \in J[0] /\ \A n \in 1 .. N : \A p \in J[n - 1] : go[p] \in J[n]
    BY <1>1, <1>2
  <2> QED
    BY <2>1, RunExists, Zenon
<1> DEFINE f == [n \in 0 .. N |-> r[n][2]]
<1>4. r[0] = start /\ \A n \in 1 .. N : r[n] = <<n, step[n][r[n - 1][2]]>>
  <2>1. r = [n \in 0 .. N |-> IF n = 0 THEN start ELSE go[r[n - 1]]] /\ \A n \in 0 .. N : r[n] \in J[n]
    BY <1>3 DEF RunsIn
  <2>2. \A n \in 0 .. N : r[n] = IF n = 0 THEN start ELSE go[r[n - 1]]
    BY <2>1
  <2>3. ASSUME NEW n \in 1 .. N PROVE r[n] = <<n, step[n][r[n - 1][2]]>>
    <3>1. n \in 0 .. N /\ n # 0 /\ n - 1 \in 0 .. N
      OBVIOUS
    <3>2. r[n - 1] \in J[n - 1] /\ r[n] = go[r[n - 1]]
      BY <2>1, <2>2, <3>1
    <3> QED
      BY <1>2, <3>2
  <2> QED
    BY <2>2, <2>3
<1>5. \A n \in 0 .. N : f[n] \in I[n] /\ f[n] = r[n][2]
  <2>1. \A n \in 0 .. N : r[n] \in {n} \X I[n]
    BY <1>1, <1>3 DEF RunsIn
  <2> QED
    BY <2>1
<1>6. ASSUME NEW n \in 0 .. N PROVE f[n] = IF n = 0 THEN init ELSE step[n][f[n - 1]]
  <2>1. CASE n = 0
    BY <1>4, <2>1 DEF start
  <2>2. CASE n # 0
    <3>1. n \in 1 .. N /\ n - 1 \in 0 .. N
      BY <2>2
    <3>2. f[n] = r[n][2] /\ f[n - 1] = r[n - 1][2] /\ r[n] = <<n, step[n][r[n - 1][2]]>>
      BY <1>4, <1>5, <3>1
    <3> QED
      BY <2>2, <3>2
  <2> QED
    BY <2>1, <2>2
<1>7. f = [n \in 0 .. N |-> IF n = 0 THEN init ELSE step[n][f[n - 1]]]
  <2>1. f = [n \in 0 .. N |-> f[n]]
    OBVIOUS
  <2> HIDE DEF f
  <2> QED
    BY <1>6, <2>1
<1> HIDE DEF f
<1>8. CountsIn(f, N, I, init, step)
  BY <1>5, <1>7 DEF CountsIn
<1> QED
  BY <1>8

PutsIn(h, keys, f) ==
  f = [i \in 0 .. Len(keys) |->
         IF i = 0 THEN h ELSE [f[i - 1] EXCEPT !.arr = DaInsert(@, <<keys[i], 0>>, i)]]

\* h with the first i of some keys at the indices from 1 to i.
PutOk(h, keys, i, g) ==
  /\ HeapOk(g) /\ g.min = h.min /\ HeapSize(g) = HeapSize(h) + i
  /\ \A x \in 1 .. i : HeapKey(g, x) = keys[x]

\* The loop that puts elements at their indices (binheap_make).
LEMMA PutsKeep ==
  ASSUME NEW h, HeapOk(h), NEW n \in Nat, NEW keys \in [1 .. n -> HeapKeys],
         NEW F, F = CHOOSE f : PutsIn(h, keys, f)
  PROVE  PutOk(h, keys, n, F[n])
<1> DEFINE I == [i \in 0 .. n |-> {g \in BinHeaps(HeapElts) : PutOk(h, keys, i, g)}]
           step == [i \in 1 .. n |-> [g \in I[i - 1] |-> [g EXCEPT !.arr = DaInsert(@, <<keys[i], 0>>, i)]]]
<1>1. h \in BinHeaps(HeapElts) /\ Len(keys) = n /\ HeapSize(h) \in Nat
  BY HeapFields, FunctionIsSeq DEF HeapOk
<1>2. \A i \in 0 .. n : I[i] = {g \in BinHeaps(HeapElts) : PutOk(h, keys, i, g)}
  OBVIOUS
<1>3. h \in I[0]
  <2>1. PutOk(h, keys, 0, h)
    BY <1>1 DEF PutOk
  <2> QED
    BY <1>1, <2>1
<1>4. ASSUME NEW i \in 1 .. n, NEW g \in I[i - 1], NEW nx, nx = [g EXCEPT !.arr = DaInsert(@, <<keys[i], 0>>, i)]
      PROVE  nx \in I[i]
  <2> DEFINE k == keys[i]
             N == HeapSize(h)
  <2>1. i \in 0 .. n /\ i - 1 \in 0 .. n /\ i \in Nat /\ i >= 1 /\ N \in Nat /\ k \in HeapKeys
    BY <1>1
  <2>2. g \in BinHeaps(HeapElts) /\ PutOk(h, keys, i - 1, g)
    BY <1>2, <2>1
  <2>3. /\ HeapOk(g) /\ g.min = h.min /\ HeapSize(g) = N + (i - 1)
        /\ \A x \in 1 .. i - 1 : HeapKey(g, x) = keys[x]
    BY <2>2 DEF PutOk
  <2> HIDE DEF N, I
  <2>4. i \in 1 .. HeapSize(g) + 1
    BY <2>1, <2>3
  <2>5. PutAt(g, i, k, nx)
    <3>1. nx = [g EXCEPT !.arr = DaInsert(@, <<k, 0>>, i)]
      BY <1>4
    <3> HIDE DEF k
    <3> QED
      BY <2>1, <2>3, <2>4, <3>1, HeapPut
  <2>6. /\ HeapOk(nx) /\ nx.min = h.min /\ HeapSize(nx) = HeapSize(g) + 1 /\ HeapKey(nx, i) = k
        /\ \A x \in 1 .. HeapSize(g) : x # i => HeapKey(nx, x) = HeapKey(g, x)
    BY <2>3, <2>5 DEF PutAt
  <2>7. HeapSize(nx) = N + i
    BY <2>1, <2>3, <2>6
  <2>8. \A x \in 1 .. i - 1 : x \in 1 .. HeapSize(g) /\ x # i
    BY <2>1, <2>3
  <2>9. \A x \in 1 .. i : x # i => x \in 1 .. i - 1
    BY <2>1
  <2>10. \A x \in 1 .. i : HeapKey(nx, x) = keys[x]
    BY <2>3, <2>6, <2>8, <2>9
  <2>11. PutOk(h, keys, i, nx) /\ nx \in BinHeaps(HeapElts)
    BY <2>6, <2>7, <2>10 DEF PutOk, N, HeapOk
  <2> QED
    BY <1>2, <2>1, <2>11
<1> HIDE DEF I
<1>5. \A i \in 1 .. n : \A g \in I[i - 1] :
        step[i][g] = [g EXCEPT !.arr = DaInsert(@, <<keys[i], 0>>, i)] /\ step[i][g] \in I[i]
  <2> SUFFICES ASSUME NEW i \in 1 .. n, NEW g \in I[i - 1]
               PROVE  step[i][g] = [g EXCEPT !.arr = DaInsert(@, <<keys[i], 0>>, i)] /\ step[i][g] \in I[i]
    BY Zenon
  <2>1. step[i][g] = [g EXCEPT !.arr = DaInsert(@, <<keys[i], 0>>, i)]
    OBVIOUS
  <2> QED
    BY <1>4, <2>1
<1> HIDE DEF step
<1>6. PICK f : CountsIn(f, n, I, h, step)
  BY <1>3, <1>5, CountingRunExists, Zenon
<1>7. \A i \in 0 .. n : f[i] = (IF i = 0 THEN h ELSE step[i][f[i - 1]]) /\ f[i] \in I[i]
  <2>1. f = [i \in 0 .. n |-> IF i = 0 THEN h ELSE step[i][f[i - 1]]] /\ \A i \in 0 .. n : f[i] \in I[i]
    BY <1>6, Zenon DEF CountsIn
  <2> QED
    BY <2>1
<1>8. \A i \in 0 .. n : i # 0 => i \in 1 .. n /\ i - 1 \in 0 .. n
  OBVIOUS
<1>9. PutsIn(h, keys, f)
  <2>1. \A i \in 0 .. n : i # 0 => step[i][f[i - 1]] = [f[i - 1] EXCEPT !.arr = DaInsert(@, <<keys[i], 0>>, i)]
    BY <1>5, <1>7, <1>8
  <2>2. [i \in 0 .. n |-> IF i = 0 THEN h ELSE step[i][f[i - 1]]]
          = [i \in 0 .. n |-> IF i = 0 THEN h ELSE [f[i - 1] EXCEPT !.arr = DaInsert(@, <<keys[i], 0>>, i)]]
    BY <2>1
  <2>3. f = [i \in 0 .. n |-> IF i = 0 THEN h ELSE step[i][f[i - 1]]]
    BY <1>6, Zenon DEF CountsIn
  <2> QED
    BY <1>1, <2>2, <2>3 DEF PutsIn
<1>10. PutsIn(h, keys, F)
  BY <1>9
<1>11. F = [i \in 0 .. n |-> IF i = 0 THEN h ELSE [F[i - 1] EXCEPT !.arr = DaInsert(@, <<keys[i], 0>>, i)]]
  BY <1>1, <1>10 DEF PutsIn
<1>12. F[0] = h /\ \A i \in 1 .. n : F[i] = [F[i - 1] EXCEPT !.arr = DaInsert(@, <<keys[i], 0>>, i)]
  <2>1. \A i \in 0 .. n : F[i] = IF i = 0 THEN h ELSE [F[i - 1] EXCEPT !.arr = DaInsert(@, <<keys[i], 0>>, i)]
    BY <1>11
  <2>2. 0 \in 0 .. n /\ \A i \in 1 .. n : i \in 0 .. n /\ i # 0
    OBVIOUS
  <2> QED
    BY <2>1, <2>2
<1>13. F[0] \in I[0] /\ \A i \in 1 .. n : F[i - 1] \in I[i - 1] => F[i] \in I[i]
  BY <1>3, <1>4, <1>12
<1>14. \A i \in 0 .. n : F[i] \in I[i]
  BY <1>13, StaysIn
<1>15. n \in 0 .. n
  OBVIOUS
<1> QED
  BY <1>2, <1>14, <1>15

SiftsAll(h, n, f) ==
  f = [m \in 0 .. n \div 2 |-> IF m = 0 THEN h ELSE SiftDown(f[m - 1], n \div 2 + 1 - m)]

\* The loop that sifts the inner nodes down, last first (binheap_make).
LEMMA SiftsOrder ==
  ASSUME NEW h, HeapOk(h), NEW n \in Nat, HeapSize(h) = n, NEW F, F = CHOOSE f : SiftsAll(h, n, f)
  PROVE  Kept(h, F[n \div 2]) /\ OrderedFrom(F[n \div 2], 1)
<1> DEFINE H == n \div 2
           Ok(m, g) == Kept(h, g) /\ OrderedFrom(g, H + 1 - m)
           I == [m \in 0 .. H |-> {g \in BinHeaps(HeapElts) : Ok(m, g)}]
           step == [m \in 1 .. H |-> [g \in I[m - 1] |-> SiftDown(g, H + 1 - m)]]
<1>1. h \in BinHeaps(HeapElts) /\ H \in Nat
  BY DEF HeapOk
<1>2. \A f : SiftsAll(h, n, f) <=> f = [m \in 0 .. H |-> IF m = 0 THEN h ELSE SiftDown(f[m - 1], H + 1 - m)]
  BY DEF SiftsAll
<1>3. \A j \in 2 .. n : ~(j \div 2 >= H + 1)
  OBVIOUS
<1> HIDE DEF H
<1>4. \A m \in 0 .. H : I[m] = {g \in BinHeaps(HeapElts) : Ok(m, g)}
  OBVIOUS
<1>5. h \in I[0]
  <2>1. Kept(h, h)
    BY DEF Kept
  <2>2. OrderedFrom(h, H + 1 - 0)
    <3>1. H + 1 - 0 = H + 1
      BY <1>1
    <3> QED
      BY <1>3, <3>1 DEF OrderedFrom
  <2>3. 0 \in 0 .. H
    BY <1>1
  <2> QED
    BY <1>1, <2>1, <2>2, <2>3
<1>6. ASSUME NEW m \in 1 .. H, NEW g \in I[m - 1], NEW nx, nx = SiftDown(g, H + 1 - m)
      PROVE  nx \in I[m]
  <2> DEFINE lo == H + 1 - m
  <2>1. m \in 0 .. H /\ m - 1 \in 0 .. H /\ lo \in Nat /\ lo >= 1 /\ H + 1 - (m - 1) = lo + 1
    BY <1>1
  <2>2. Kept(h, g) /\ OrderedFrom(g, H + 1 - (m - 1))
    BY <1>4, <2>1
  <2>3. OrderedFrom(g, lo + 1)
    BY <2>1, <2>2
  <2> HIDE DEF lo, I
  <2>4. OrderedButDown(g, lo, lo)
    <3>1. \A j \in 2 .. HeapSize(g) : j \div 2 >= lo /\ j \div 2 # lo => j \div 2 >= lo + 1
      <4>1. HeapSize(g) \in Nat
        BY <2>2, HeapFields DEF Kept
      <4> QED
        BY <2>1, <4>1
    <3>2. ~(lo \div 2 >= lo)
      BY <2>1, Parent
    <3> QED
      BY <2>3, <3>1, <3>2 DEF OrderedFrom, OrderedButDown
  <2>5. Kept(g, nx) /\ OrderedFrom(nx, lo)
    <3>1. HeapOk(g) /\ nx = SiftDown(g, lo)
      BY <1>6, <2>2 DEF Kept, lo
    <3> QED
      BY <2>1, <2>4, <3>1, SiftDownOrders
  <2>6. Kept(h, nx)
    BY <2>2, <2>5 DEF Kept
  <2>7. nx \in BinHeaps(HeapElts) /\ Ok(m, nx)
    BY <2>5, <2>6 DEF Kept, HeapOk, lo
  <2> QED
    BY <1>4, <2>1, <2>7
<1> HIDE DEF I, Ok
<1>7. \A m \in 1 .. H : \A g \in I[m - 1] :
        step[m][g] = SiftDown(g, H + 1 - m) /\ step[m][g] \in I[m]
  <2> SUFFICES ASSUME NEW m \in 1 .. H, NEW g \in I[m - 1]
               PROVE  step[m][g] = SiftDown(g, H + 1 - m) /\ step[m][g] \in I[m]
    BY Zenon
  <2>1. step[m][g] = SiftDown(g, H + 1 - m)
    OBVIOUS
  <2> QED
    BY <1>6, <2>1
<1> HIDE DEF step
<1>8. PICK f : CountsIn(f, H, I, h, step)
  BY <1>1, <1>5, <1>7, CountingRunExists, Zenon
<1>9. \A m \in 0 .. H : f[m] = (IF m = 0 THEN h ELSE step[m][f[m - 1]]) /\ f[m] \in I[m]
  <2>1. f = [m \in 0 .. H |-> IF m = 0 THEN h ELSE step[m][f[m - 1]]] /\ \A m \in 0 .. H : f[m] \in I[m]
    BY <1>8, Zenon DEF CountsIn
  <2> QED
    BY <2>1
<1>10. \A m \in 0 .. H : m # 0 => m \in 1 .. H /\ m - 1 \in 0 .. H
  BY <1>1
<1>11. SiftsAll(h, n, f)
  <2>1. \A m \in 0 .. H : m # 0 => step[m][f[m - 1]] = SiftDown(f[m - 1], H + 1 - m)
    BY <1>7, <1>9, <1>10
  <2>2. [m \in 0 .. H |-> IF m = 0 THEN h ELSE step[m][f[m - 1]]]
          = [m \in 0 .. H |-> IF m = 0 THEN h ELSE SiftDown(f[m - 1], H + 1 - m)]
    BY <2>1
  <2>3. f = [m \in 0 .. H |-> IF m = 0 THEN h ELSE step[m][f[m - 1]]]
    BY <1>8, Zenon DEF CountsIn
  <2> QED
    BY <1>2, <2>2, <2>3
<1>12. SiftsAll(h, n, F)
  BY <1>11
<1>13. F = [m \in 0 .. H |-> IF m = 0 THEN h ELSE SiftDown(F[m - 1], H + 1 - m)]
  BY <1>2, <1>12
<1>14. F[0] = h /\ \A m \in 1 .. H : F[m] = SiftDown(F[m - 1], H + 1 - m)
  <2>1. \A m \in 0 .. H : F[m] = IF m = 0 THEN h ELSE SiftDown(F[m - 1], H + 1 - m)
    BY <1>13
  <2>2. 0 \in 0 .. H /\ \A m \in 1 .. H : m \in 0 .. H /\ m # 0
    BY <1>1
  <2> QED
    BY <2>1, <2>2
<1>15. F[0] \in I[0] /\ \A m \in 1 .. H : F[m - 1] \in I[m - 1] => F[m] \in I[m]
  BY <1>5, <1>6, <1>14
<1>16. \A m \in 0 .. H : F[m] \in I[m]
  BY ONLY <1>1, <1>15, StaysIn
<1>17. H \in 0 .. H /\ H + 1 - H = 1
  BY <1>1
<1>18. Ok(H, F[H])
  BY <1>4, <1>16, <1>17
<1> QED
  BY <1>17, <1>18 DEF Ok, H

\* Cutting off what is behind the first n elements.
LEMMA CutKeeps ==
  ASSUME NEW h, HeapOk(h), NEW n \in Nat, n <= HeapSize(h),
         NEW g, g = [h EXCEPT !.arr.elts = SubSeq(@, 1, n + 1)]
  PROVE  /\ HeapOk(g) /\ g.min = h.min /\ HeapSize(g) = n
         /\ \A x \in 1 .. n : HeapKey(g, x) = HeapKey(h, x)
<1> DEFINE a == h.arr
           s == a.elts
           N == HeapSize(h)
           t == SubSeq(s, 1, n + 1)
           b == [a EXCEPT !.elts = t]
<1>1. /\ h \in BinHeaps(HeapElts) /\ ArrayOf(a, HeapElts) /\ a \in DArrays(HeapElts)
      /\ a.order = "none" /\ a.noalloc = FALSE /\ a.max_elts = HeapMax + 1 /\ s \in Seq(HeapElts)
      /\ N \in Nat /\ Len(s) = N + 1 /\ s[1] = Scratch
      /\ \A x \in 1 .. N : HeapKey(h, x) = s[x + 1][1] /\ HeapKey(h, x) \in HeapKeys
  BY HeapFields DEF HeapOk
<1>2. g = [h EXCEPT !.arr = b]
  BY <1>1 DEF BinHeaps, DArrays
<1>3. t \in Seq(HeapElts) /\ Len(t) = n + 1 /\ \A x \in 1 .. n + 1 : t[x] = s[x]
  <2> HIDE DEF s, N
  <2>1. n + 1 <= Len(s) /\ n + 1 \in Nat
    BY <1>1 DEF N
  <2> QED
    BY <1>1, <2>1
<1> HIDE DEF t, N
<1>4. /\ b \in DArrays(HeapElts) /\ b.elts = t /\ b.capacity = a.capacity /\ b.alloc = a.alloc
      /\ b.max_elts = a.max_elts /\ b.order = a.order /\ b.noalloc = a.noalloc
      /\ a.capacity \in Nat /\ a.alloc \in Nat
  BY <1>1, <1>3, ArrayFields
<1> HIDE DEF a, b
<1>5. ArrayOf(b, HeapElts)
  <2>1. Len(s) <= a.capacity /\ a.capacity <= a.alloc
    BY <1>1 DEF ArrayOf
  <2> DEFINE c == a.capacity
  <2>2. n + 1 <= c
    <3>1. n <= N /\ N + 1 <= c
      BY <1>1, <2>1 DEF N
    <3>2. c \in Nat
      BY <1>4
    <3> HIDE DEF c
    <3> QED
      BY <1>1, <3>1, <3>2
  <2> QED
    BY <1>1, <1>3, <1>4, <2>1, <2>2 DEF ArrayOf
<1>6. g \in BinHeaps(HeapElts) /\ g.arr = b /\ g.min = h.min
  <2>1. h \in BinHeaps(HeapElts) /\ b \in DArrays(HeapElts) /\ g = [h EXCEPT !.arr = b]
    BY <1>1, <1>2, <1>4
  <2> QED
    BY ONLY <2>1, HeapWith
<1>7. HeapSize(g) = n /\ DaSize(g.arr) = n + 1
  <2>1. DaSize(g.arr) = n + 1
    BY <1>3, <1>4, <1>6 DEF DaSize
  <2>2. HeapSize(g) = (n + 1) - 1
    BY <2>1 DEF HeapSize
  <2>3. (n + 1) - 1 = n
    OBVIOUS
  <2> QED
    BY <2>1, <2>2, <2>3
<1>8. \A x \in 1 .. n : HeapKey(g, x) = HeapKey(h, x) /\ HeapKey(g, x) \in HeapKeys
  <2> SUFFICES ASSUME NEW x \in 1 .. n PROVE HeapKey(g, x) = HeapKey(h, x) /\ HeapKey(h, x) \in HeapKeys
    OBVIOUS
  <2> DEFINE y == x + 1
  <2>1. x \in 1 .. N /\ y \in 1 .. n + 1
    BY <1>1 DEF N
  <2>2. HeapKey(g, x) = t[y][1]
    BY <1>4, <1>6 DEF HeapKey, DaGet
  <2>3. t[y] = s[y]
    BY <1>3, <2>1
  <2> QED
    BY <1>1, <2>1, <2>2, <2>3
<1>9. t[1] = Scratch /\ n + 1 >= 1
  <2>1. 1 \in 1 .. n + 1
    OBVIOUS
  <2> QED
    BY <1>1, <1>3, <2>1
<1> QED
  BY <1>1, <1>4, <1>5, <1>6, <1>7, <1>8, <1>9 DEF HeapOk

\* A heap that is made has exactly the keys it is made from, in order, whatever
\* was in it before (binheap_make).
LEMMA HeapMakeKeeps ==
  ASSUME NEW h, HeapOk(h), NEW n \in Nat, NEW keys \in [1 .. n -> HeapKeys],
         NEW g, g = HeapMake(h, keys)
  PROVE  /\ HeapOk(g) /\ g.min = h.min /\ HeapSize(g) = n /\ OrderedFrom(g, 1)
         /\ \A l : HeapCount(g, l) = Cardinality({i \in 1 .. Len(keys) : keys[i] = l})
<1> DEFINE P == CHOOSE f : PutsIn(h, keys, f)
           put == P[n]
           cut == [put EXCEPT !.arr.elts = SubSeq(@, 1, n + 1)]
           F == CHOOSE f : SiftsAll(cut, n, f)
<1>1. Len(keys) = n
  BY FunctionIsSeq
<1>2. g = F[n \div 2]
  <2> DEFINE m == Len(keys)
             G == CHOOSE f : SiftsAll([P[m] EXCEPT !.arr.elts = SubSeq(@, 1, m + 1)], m, f)
  <2>1. HeapMake(h, keys) = G[m \div 2]
    BY Zenon DEF HeapMake, PutAll, PutsIn, SiftsAll
  <2>2. G = F
    BY <1>1
  <2> HIDE DEF F, G
  <2> QED
    BY <1>1, <2>1, <2>2
<1>3. PutOk(h, keys, n, put)
  BY PutsKeep
<1> HIDE DEF P, put
<1>4. /\ HeapOk(put) /\ put.min = h.min /\ n <= HeapSize(put)
      /\ \A x \in 1 .. n : HeapKey(put, x) = keys[x]
  <2>1. HeapSize(h) \in Nat
    BY HeapFields
  <2> QED
    BY <1>3, <2>1 DEF PutOk
<1>5. /\ HeapOk(cut) /\ cut.min = h.min /\ HeapSize(cut) = n
      /\ \A x \in 1 .. n : HeapKey(cut, x) = keys[x]
  BY <1>4, CutKeeps
<1> HIDE DEF cut
<1>6. Kept(cut, g) /\ OrderedFrom(g, 1)
  BY <1>2, <1>5, SiftsOrder
<1>7. ASSUME NEW l PROVE HeapCount(g, l) = Cardinality({i \in 1 .. Len(keys) : keys[i] = l})
  <2> DEFINE s == cut.arr.elts
             t == Tail(s)
  <2>1. /\ s \in Seq(HeapElts) /\ Len(s) = n + 1
        /\ \A x \in 1 .. n : HeapKey(cut, x) = s[x + 1][1]
    BY <1>5, HeapFields
  <2>2. HeapCount(g, l) = KeyCount(t, l)
    BY <1>5, <1>6, KeptCount DEF HeapCount
  <2> HIDE DEF s
  <2>3. Len(t) = n /\ \A x \in 1 .. n : t[x] = s[x + 1]
    BY <2>1
  <2>4. \A x \in 1 .. n : t[x][1] = keys[x]
    BY <1>5, <2>1, <2>3
  <2> HIDE DEF t
  <2>5. {i \in 1 .. Len(t) : t[i][1] = l} = {i \in 1 .. Len(keys) : keys[i] = l}
    BY <1>1, <2>3, <2>4
  <2> QED
    BY <2>2, <2>5 DEF KeyCount
<1> QED
  BY <1>5, <1>6, <1>7 DEF Kept

-----------------------------------------------------------------------------
\* What the heap in use relies on, until a call that does not keep its order.
HeapGood ==
  /\ HeapOk(heap) /\ HeapSize(heap) <= HeapMax
  /\ OrderedFrom(heap, 1)
  /\ heapKeys \in [HeapKeys -> Nat]
  /\ \A k \in HeapKeys : HeapCount(heap, k) = heapKeys[k]

HeapInv == heapMishap = "none" => HeapGood

\* The element at the top is the best of those that should be there.
LEMMA PeekIsBest ==
  ASSUME HeapGood, HeapSize(heap) >= 1
  PROVE  BestKey = HeapKey(heap, 1) /\ HeapKey(heap, 1) \in HeapKeys
<1> DEFINE T == {k \in HeapKeys : heapKeys[k] > 0}
           min == heap.min
           p == HeapKey(heap, 1)
           N == HeapSize(heap)
<1>1. /\ HeapOk(heap) /\ OrderedFrom(heap, 1) /\ N \in Nat /\ N >= 1
      /\ \A x \in 1 .. N : HeapKey(heap, x) \in HeapKeys
      /\ \A k \in HeapKeys : heapKeys[k] > 0 <=> \E x \in 1 .. N : HeapKey(heap, x) = k
  <2>1. HeapOk(heap) /\ OrderedFrom(heap, 1) /\ \A k \in HeapKeys : HeapCount(heap, k) = heapKeys[k]
    BY DEF HeapGood
  <2>2. N \in Nat /\ \A x \in 1 .. N : HeapKey(heap, x) \in HeapKeys
    BY <2>1, HeapFields DEF HeapOk
  <2>3. \A k \in HeapKeys : HeapCount(heap, k) > 0 <=> \E x \in 1 .. N : HeapKey(heap, x) = k
    BY <2>1, HeapCountIs
  <2> QED
    BY <2>1, <2>2, <2>3
<1>2. 1 \in 1 .. N
  BY <1>1
<1>3. p \in T /\ p \in HeapKeys
  BY <1>1, <1>2
<1>4. T \in SUBSET Int
  BY HeapKeyed
<1>5. ASSUME NEW k \in T PROVE ~Better(min, k, p)
  <2>1. PICK x \in 1 .. N : HeapKey(heap, x) = k
    BY <1>1
  <2> QED
    BY <1>1, <2>1, TopIsBest
<1>6. BestKey = IF min THEN Least(T) ELSE Greatest(T)
  BY Zenon DEF BestKey
<1> HIDE DEF T, p, min
<1>7. BestKey = p
  BY <1>3, <1>4, <1>5, <1>6, BestIs
<1> QED
  BY <1>3, <1>7 DEF p

\* No key is above the one that is taken for a deletion.
LEMMA MinmaxIs ==
  ASSUME NEW min, NEW p, p = IF min THEN Least(HeapKeys) ELSE Greatest(HeapKeys)
  PROVE  p \in HeapKeys /\ \A l \in HeapKeys : ~Better(min, l, p)
<1>1. PICK lo \in HeapKeys, hi \in HeapKeys : \A k \in HeapKeys : lo <= k /\ k <= hi
  BY HeapAssumption
<1>2. \A k \in HeapKeys : k \in Int
  BY HeapKeyed
<1>3. CASE min
  <2>1. p \in HeapKeys /\ \A k \in HeapKeys : p <= k
    BY <1>1, <1>3 DEF Least
  <2>2. \A l \in HeapKeys : ~(l < p)
    BY ONLY <1>2, <2>1
  <2> QED
    BY <1>3, <2>1, <2>2 DEF Better
<1>4. CASE ~min
  <2>1. \A k \in HeapKeys : hi >= k
    BY <1>1, HeapKeyed
  <2>2. p \in HeapKeys /\ \A k \in HeapKeys : p >= k
    BY <1>4, <2>1 DEF Greatest
  <2>3. \A l \in HeapKeys : ~(l > p)
    BY ONLY <1>2, <2>2
  <2> QED
    BY <1>4, <2>2, <2>3 DEF Better
<1> QED
  BY <1>3, <1>4

\* Every operation of the heap in use keeps what it relies on.
LEMMA HeapStep ==
  ASSUME HeapInv, HeapNext
  PROVE  HeapInv'
<1>0. HeapGood
  BY DEF HeapInv, HeapNext
<1> DEFINE h == heap
           g == heap'
           f == heapKeys
           N == HeapSize(h)
           c(l) == HeapCount(h, l)
           d(l) == HeapCount(g, l)
           K(i) == HeapKey(h, i)
           Goal == /\ HeapOk(g) /\ HeapSize(g) <= HeapMax /\ OrderedFrom(g, 1)
                   /\ heapKeys' \in [HeapKeys -> Nat] /\ \A l \in HeapKeys : d(l) = heapKeys'[l]
<1>1. /\ HeapOk(h) /\ OrderedFrom(h, 1) /\ N \in Nat /\ N <= HeapMax /\ HeapMax \in Nat
      /\ h.arr.max_elts = HeapMax + 1 /\ DaSize(h.arr) = N + 1
      /\ f \in [HeapKeys -> Nat] /\ \A l \in HeapKeys : c(l) = f[l]
      /\ \A i \in 1 .. N : K(i) \in HeapKeys
  <2>1. HeapOk(h) /\ OrderedFrom(h, 1) /\ N <= HeapMax /\ HeapMax \in Nat /\ f \in [HeapKeys -> Nat]
        /\ \A l \in HeapKeys : c(l) = f[l]
    BY <1>0, HeapAssumption DEF HeapGood
  <2>2. h.arr.max_elts = HeapMax + 1 /\ \A i \in 1 .. N : K(i) \in HeapKeys
    BY <2>1 DEF HeapOk
  <2>3. N \in Nat /\ DaSize(h.arr) = N + 1
    BY <2>1, HeapFields
  <2> QED
    BY <2>1, <2>2, <2>3
<1>2. SUFFICES Goal \/ heapMishap' # "none"
  BY DEF HeapInv, HeapGood, HeapCount
<1>3. ASSUME NEW k \in HeapKeys, BhInsert(k) PROVE Goal
  <2>1. g = HeapInsert(h, k) /\ heapKeys' = [f EXCEPT ![k] = @ + 1] /\ DaSize(h.arr) # h.arr.max_elts
    BY <1>3 DEF BhInsert, HeapIsFull, DaIsFull
  <2> HIDE DEF h, g
  <2>2. /\ HeapOk(g) /\ HeapSize(g) = N + 1 /\ OrderedFrom(g, 1)
        /\ \A l : HeapCount(g, l) = IF l = k THEN HeapCount(h, l) + 1 ELSE HeapCount(h, l)
    BY <1>1, <2>1, HeapInsertKeeps
  <2> HIDE DEF c, d, f, N
  <2>3. \A l : d(l) = IF l = k THEN c(l) + 1 ELSE c(l)
    BY <2>2 DEF c, d
  <2>4. heapKeys' \in [HeapKeys -> Nat] /\ \A l \in HeapKeys : d(l) = heapKeys'[l]
    BY <1>1, <2>1, <2>3
  <2>5. HeapSize(g) <= HeapMax
    BY <1>1, <2>1, <2>2
  <2> QED
    BY <2>2, <2>4, <2>5
<1>4. ASSUME BhExtract PROVE Goal
  <2>1. g = HeapExtract(h) /\ heapKeys' = [f EXCEPT ![BestKey] = @ - 1] /\ DaSize(h.arr) # 1
    BY <1>4 DEF BhExtract, HeapIsEmpty
  <2>2. N >= 1
    BY <1>1, <2>1
  <2>3. BestKey = K(1) /\ K(1) \in HeapKeys
    BY <1>0, <2>2, PeekIsBest
  <2> HIDE DEF h, g
  <2>4. /\ HeapOk(g) /\ HeapSize(g) = N - 1 /\ OrderedFrom(g, 1)
        /\ \A l : HeapCount(h, l) = IF l = K(1) THEN HeapCount(g, l) + 1 ELSE HeapCount(g, l)
    BY <1>1, <2>1, <2>2, HeapExtractKeeps
  <2>5. \A l : d(l) \in Nat
    BY <2>4, HeapCountIs
  <2> HIDE DEF c, d, f, N, K
  <2>6. \A l : d(l) \in Nat /\ c(l) = IF l = K(1) THEN d(l) + 1 ELSE d(l)
    BY <2>4, <2>5 DEF c, d
  <2>7. heapKeys' \in [HeapKeys -> Nat] /\ \A l \in HeapKeys : d(l) = heapKeys'[l]
    <3>1. \A l \in HeapKeys : heapKeys'[l] = IF l = K(1) THEN f[l] - 1 ELSE f[l]
      BY <1>1, <2>1, <2>3
    <3>2. \A l \in HeapKeys : d(l) = heapKeys'[l]
      BY <1>1, <2>6, <3>1
    <3>3. heapKeys' = [l \in HeapKeys |-> heapKeys'[l]]
      BY <1>1, <2>1
    <3> QED
      BY <2>6, <3>2, <3>3
  <2>8. HeapSize(g) <= HeapMax
    BY <1>1, <2>4
  <2> QED
    BY <2>4, <2>7, <2>8
<1>5. ASSUME NEW i \in 1 .. HeapMax, NEW k \in HeapKeys, BhUpdateKey(i, k) PROVE Goal
  <2>1. /\ g = HeapUpdateKey(h, i, k) /\ i <= N /\ (IF h.min THEN k <= K(i) ELSE k >= K(i))
        /\ heapKeys' = [[f EXCEPT ![K(i)] = @ - 1] EXCEPT ![k] = @ + 1]
    BY <1>5 DEF BhUpdateKey
  <2>2. i \in 1 .. N /\ K(i) \in HeapKeys
    BY <1>1, <2>1
  <2>3. ~Better(h.min, K(i), k)
    <3>1. K(i) \in Int /\ k \in Int /\ (IF h.min THEN k <= K(i) ELSE k >= K(i))
      BY <2>1, <2>2, HeapKeyed
    <3> HIDE DEF K, h
    <3> QED
      BY ONLY <3>1 DEF Better
  <2> HIDE DEF h, g
  <2>4. /\ HeapOk(g) /\ HeapSize(g) = N /\ OrderedFrom(g, 1)
        /\ \A l : HeapCount(g, l) + (IF l = K(i) THEN 1 ELSE 0) = HeapCount(h, l) + (IF l = k THEN 1 ELSE 0)
    BY <1>1, <2>1, <2>2, <2>3, HeapUpdateKeeps
  <2>5. \A l : d(l) \in Nat /\ c(l) \in Nat
    BY <1>1, <2>4, HeapCountIs
  <2> HIDE DEF c, d, f, N, K
  <2>6. \A l : d(l) \in Nat /\ c(l) \in Nat /\ d(l) + (IF l = K(i) THEN 1 ELSE 0) = c(l) + (IF l = k THEN 1 ELSE 0)
    BY <2>4, <2>5 DEF c, d
  <2>7. heapKeys' \in [HeapKeys -> Nat] /\ \A l \in HeapKeys : d(l) = heapKeys'[l]
    <3>1. \A l \in HeapKeys : heapKeys'[l] = (f[l] - (IF l = K(i) THEN 1 ELSE 0)) + (IF l = k THEN 1 ELSE 0)
      BY <1>1, <2>1, <2>2
    <3>2. \A l \in HeapKeys : d(l) = heapKeys'[l]
      BY <1>1, <2>6, <3>1
    <3>3. heapKeys' = [l \in HeapKeys |-> heapKeys'[l]]
      BY <1>1, <2>1
    <3> QED
      BY <2>6, <3>2, <3>3
  <2> QED
    BY <1>1, <2>4, <2>7
<1>6. ASSUME NEW i \in 1 .. HeapMax, BhDeleteKey(i) PROVE Goal
  <2> DEFINE k == IF h.min THEN Least(HeapKeys) ELSE Greatest(HeapKeys)
  <2>1. /\ g = HeapDeleteKey(h, i, k) /\ i <= N /\ heapKeys' = [f EXCEPT ![K(i)] = @ - 1]
    BY <1>6 DEF BhDeleteKey, MinMax
  <2>2. i \in 1 .. N /\ K(i) \in HeapKeys
    BY <1>1, <2>1
  <2>3. k \in HeapKeys /\ \A l \in HeapKeys : ~Better(h.min, l, k)
    BY MinmaxIs
  <2> HIDE DEF h, g, k
  <2>4. /\ HeapOk(g) /\ HeapSize(g) = N - 1 /\ OrderedFrom(g, 1)
        /\ \A l : HeapCount(h, l) = IF l = K(i) THEN HeapCount(g, l) + 1 ELSE HeapCount(g, l)
    BY <1>1, <2>1, <2>2, <2>3, HeapDeleteKeeps
  <2>5. \A l : d(l) \in Nat
    BY <2>4, HeapCountIs
  <2> HIDE DEF c, d, f, N, K
  <2>6. \A l : d(l) \in Nat /\ c(l) = IF l = K(i) THEN d(l) + 1 ELSE d(l)
    BY <2>4, <2>5 DEF c, d
  <2>7. heapKeys' \in [HeapKeys -> Nat] /\ \A l \in HeapKeys : d(l) = heapKeys'[l]
    <3>1. \A l \in HeapKeys : heapKeys'[l] = IF l = K(i) THEN f[l] - 1 ELSE f[l]
      BY <1>1, <2>1, <2>2
    <3>2. \A l \in HeapKeys : d(l) = heapKeys'[l]
      BY <1>1, <2>6, <3>1
    <3>3. heapKeys' = [l \in HeapKeys |-> heapKeys'[l]]
      BY <1>1, <2>1
    <3> QED
      BY <2>6, <3>2, <3>3
  <2>8. HeapSize(g) <= HeapMax
    BY <1>1, <2>4
  <2> QED
    BY <2>4, <2>7, <2>8
<1>7. ASSUME NEW n \in 1 .. HeapMax, NEW keys \in [1 .. n -> HeapKeys], BhMake(keys) PROVE Goal
  <2>1. /\ g = HeapMake(h, keys) /\ n \in Nat /\ n <= HeapMax
        /\ heapKeys' = [k \in HeapKeys |-> Cardinality({i \in 1 .. Len(keys) : keys[i] = k})]
    BY <1>1, <1>7 DEF BhMake
  <2> HIDE DEF h, g
  <2>2. /\ HeapOk(g) /\ HeapSize(g) = n /\ OrderedFrom(g, 1)
        /\ \A l : HeapCount(g, l) = Cardinality({i \in 1 .. Len(keys) : keys[i] = l})
    <3>1. HeapOk(h) /\ n \in Nat /\ keys \in [1 .. n -> HeapKeys] /\ g = HeapMake(h, keys)
      BY <1>1, <2>1
    <3> QED
      BY ONLY <3>1, HeapMakeKeeps
  <2>3. \A l : d(l) \in Nat
    BY <2>2, HeapCountIs
  <2>4. \A l \in HeapKeys : d(l) = heapKeys'[l]
    BY <2>1, <2>2
  <2>5. heapKeys' = [l \in HeapKeys |-> heapKeys'[l]]
    BY <2>1
  <2> HIDE DEF d
  <2> QED
    BY <2>1, <2>2, <2>3, <2>4, <2>5
<1>8. ASSUME \/ \E i \in 1 .. HeapMax, k \in HeapKeys : BhWorsenKey(i, k)
             \/ BhExtractFails
             \/ \E i \in 1 .. HeapMax : BhDeleteFails(i)
             \/ \E n \in 1 .. HeapMax : \E keys \in [1 .. n -> HeapKeys] : BhMakeRefused(keys)
             \/ BhClear
      PROVE  heapMishap' # "none"
  BY <1>8 DEF BhWorsenKey, BhExtractFails, BhDeleteFails, BhMakeRefused, BhClear, BhMishap
<1> HIDE DEF Goal
<1> QED
  BY <1>3, <1>4, <1>5, <1>6, <1>7, <1>8, Zenon DEF HeapNext

\* The heap in use is in order, an array of elements behind its scratch slot
\* within its limit, with as many elements of each key as were put in and not
\* taken out (binheap_insert, binheap_extract, binheap_update_key,
\* binheap_delete_key, binheap_make), until a make is refused, an array cannot
\* shrink, a key is updated to a lower priority or the heap is cleared.
THEOREM HeapInvariant == HeapSpec => []HeapInv
<1>1. HeapInit => HeapInv
  <2>1. SUFFICES ASSUME HeapInit PROVE HeapInv
    OBVIOUS
  <2>2. PICK size \in 0 .. HeapMax - 1, min \in BOOLEAN :
          heap = [arr |-> [DaNew(Greatest({1, size + 1}), HeapMax + 1, "none", FALSE)
                             EXCEPT !.elts = <<Scratch>>],
                  min |-> min]
    BY <2>1, Zenon DEF HeapInit
  <2> DEFINE m == Greatest({1, size + 1})
             a == heap.arr
  <2>3. m \in Nat /\ m >= 1 /\ HeapMax \in Nat /\ HeapMax + 1 \in Int
    <3>1. size \in Nat /\ HeapMax \in Nat
      BY HeapAssumption
    <3> DEFINE y == size + 1
    <3>2. y \in Nat /\ 1 \in Nat
      BY <3>1
    <3> HIDE DEF y
    <3>3. Greatest({1, y}) \in Nat /\ Greatest({1, y}) >= 1
      BY <3>2, LargerIs
    <3> QED
      BY <3>1, <3>3 DEF y
  <2>4. a = [elts |-> <<Scratch>>, capacity |-> m, alloc |-> m, max_elts |-> HeapMax + 1,
             sorted |-> FALSE, order |-> "none", noalloc |-> FALSE] /\ heap = [arr |-> a, min |-> min]
    BY <2>2 DEF DaNew
  <2> HIDE DEF m, a
  <2>5. <<Scratch>> \in Seq(HeapElts) /\ Len(<<Scratch>>) = 1 /\ <<Scratch>>[1] = Scratch
    BY HeapKeyed
  <2>6. /\ a \in DArrays(HeapElts) /\ heap \in BinHeaps(HeapElts) /\ heap.arr = a
        /\ a.elts = <<Scratch>> /\ a.capacity = m /\ a.alloc = m
        /\ a.order = "none" /\ a.noalloc = FALSE /\ a.max_elts = HeapMax + 1
    <3>1. a \in DArrays(HeapElts)
      BY <2>3, <2>4, <2>5 DEF DArrays
    <3>2. heap \in BinHeaps(HeapElts) /\ heap.arr = a
      BY <2>4, <3>1 DEF BinHeaps
    <3> QED
      BY <2>4, <3>1, <3>2
  <2>7. DaSize(a) = 1 /\ HeapSize(heap) = 0
    BY <2>5, <2>6 DEF HeapSize, DaSize
  <2>8. HeapOk(heap)
    <3>1. ArrayOf(a, HeapElts)
      BY <2>3, <2>5, <2>6 DEF ArrayOf
    <3> QED
      BY <2>5, <2>6, <2>7, <3>1 DEF HeapOk
  <2>9. HeapSize(heap) <= HeapMax /\ OrderedFrom(heap, 1)
    BY <2>3, <2>7 DEF OrderedFrom
  <2>10. \A k \in HeapKeys : HeapCount(heap, k) = 0
    <3> SUFFICES ASSUME NEW k \in HeapKeys PROVE HeapCount(heap, k) = 0
      OBVIOUS
    <3>1. HeapCount(heap, k) \in Nat /\ (HeapCount(heap, k) > 0 <=> \E x \in 1 .. HeapSize(heap) : HeapKey(heap, x) = k)
      BY <2>8, HeapCountIs
    <3> QED
      BY <2>7, <3>1
  <2> QED
    BY <2>1, <2>8, <2>9, <2>10 DEF HeapInit, HeapInv, HeapGood
<1>2. HeapInv /\ [HeapNext]_heapVars => HeapInv'
  <2>1. ASSUME HeapInv, UNCHANGED heapVars PROVE HeapInv'
    BY <2>1 DEF heapVars, HeapInv, HeapGood, HeapCount
  <2> QED
    BY <2>1, HeapStep
<1> QED
  BY <1>1, <1>2, PTL DEF HeapSpec

\* So no element is above its parent, and the one at the top is the best.
LEMMA InvGivesOrdered == HeapInv => HeapOrdered
<1>1. SUFFICES ASSUME HeapGood PROVE HeapOrdered
  BY DEF HeapInv, HeapOrdered
<1>2. HeapOk(heap) /\ OrderedFrom(heap, 1) /\ \A k \in HeapKeys : HeapCount(heap, k) = heapKeys[k]
  BY <1>1 DEF HeapGood
<1>3. HeapSize(heap) \in Nat /\ DaSize(heap.arr) = HeapSize(heap) + 1
  BY <1>2, HeapFields
<1>4. \A i \in 2 .. HeapSize(heap) : ~Above(heap, i, i \div 2)
  <2> SUFFICES ASSUME NEW i \in 2 .. HeapSize(heap)
               PROVE  ~Better(heap.min, HeapKey(heap, i), HeapKey(heap, i \div 2))
    BY AboveIs
  <2>1. i \div 2 >= 1
    BY <1>3, Parent
  <2> QED
    BY <1>2, <2>1 DEF OrderedFrom
<1>5. ~HeapIsEmpty(heap) => HeapPeek(heap) = BestKey
  <2>1. ~HeapIsEmpty(heap) => HeapSize(heap) >= 1
    BY <1>3 DEF HeapIsEmpty
  <2> QED
    BY <1>1, <2>1, PeekIsBest DEF HeapPeek
<1>6. heap \in BinHeaps((HeapKeys \X {0}) \cup {Scratch})
  BY <1>2 DEF HeapOk, HeapElts
<1>7. DaSize(heap.arr) <= heap.arr.capacity /\ heap.arr.capacity <= heap.arr.alloc
  BY <1>2 DEF HeapOk, ArrayOf, DaSize
<1> QED
  BY <1>2, <1>4, <1>5, <1>6, <1>7 DEF HeapOrdered, HeapCount, ParentsFirst

\* The binary heap is in order and holds what was put in and not taken out,
\* whichever operations come after one another up to the first mishap.
THEOREM HeapStaysOrdered == HeapSpec => []HeapOrdered
  BY HeapInvariant, InvGivesOrdered, PTL
=============================================================================
