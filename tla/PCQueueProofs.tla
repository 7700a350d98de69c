--------------------------- MODULE PCQueueProofs ---------------------------
(***************************************************************************)
(* Proofs about the producer-consumer queue, for any number of slots and   *)
(* threads.  TypeOK and the stability of what peek returned are invariants *)
(* whatever signals do; that no token is lost and that the FIFO refuses no *)
(* thread hold until a signal cuts a wait short.                           *)
(***************************************************************************)
EXTENDS PCQueue, FiniteSetTheorems, SequenceTheorems, TLAPS

\* Every index rbuffer_data_get is given is reduced to a slot.
LEMMA RingSlotType == ASSUME NEW i \in Nat PROVE RingSlot(i) \in Slots
BY MaxEltsAssumption DEF RingSlot, Slots

\* rbuffer_add keeps the ring buffer well formed and counts the element.
LEMMA RingAddType ==
  ASSUME NEW rb \in RingBuffers, NEW e \in Elts \cup {Unset}
  PROVE  /\ RingAdd(rb, e) \in RingBuffers
         /\ ~RingIsFull(rb) => RingAdd(rb, e).current = rb.current + 1
<1>1. rb.start \in Nat /\ rb.current \in 0 .. MaxElts
  BY MaxEltsAssumption DEF RingBuffers, Slots
<1>2. RingSlot(rb.start + rb.current) \in Slots /\ RingSlot(rb.start + 1) \in Slots
  BY <1>1, RingSlotType
<1> QED
  BY <1>1, <1>2, MaxEltsAssumption DEF RingBuffers, RingAdd, RingIsFull

\* rbuffer_remove keeps the ring buffer well formed and counts down.
LEMMA RingRemoveType ==
  ASSUME NEW rb \in RingBuffers, ~RingIsEmpty(rb)
  PROVE  /\ RingRemove(rb) \in RingBuffers
         /\ RingRemove(rb).current = rb.current - 1
<1>1. rb.start \in Nat /\ rb.current \in 1 .. MaxElts
  BY MaxEltsAssumption DEF RingBuffers, Slots, RingIsEmpty
<1>2. RingSlot(rb.start + 1) \in Slots
  BY <1>1, RingSlotType
<1> QED
  BY <1>1, <1>2, MaxEltsAssumption DEF RingBuffers, RingRemove

\* rbuffer_front yields what some slot holds.
LEMMA RingFrontType ==
  ASSUME NEW rb \in RingBuffers PROVE RingFront(rb) \in Elts \cup {Unset}
BY DEF RingBuffers, RingFront

-----------------------------------------------------------------------------
\* The variables of the queue keep their types (pcqueue.c, all operations).
THEOREM TypeInvariance == Spec => []TypeOK
<1>1. Init => TypeOK
  BY MaxEltsAssumption, MaxInterruptsAssumption
  DEF Init, TypeOK, EmptyRing, RingBuffers, Slots, Null, Labels, Operations,
      Pops, Peeks, Threads
<1>2. TypeOK /\ [Next]_vars => TypeOK'
  <2> SUFFICES ASSUME TypeOK, [Next]_vars PROVE TypeOK'
    OBVIOUS
  <2> USE DEF TypeOK, Goto, Labels
  <2>1. CASE UNCHANGED vars
    BY <2>1 DEF vars
  <2>2. ASSUME NEW t \in Threads,
               CallPush(t) \/ CallPop(t) \/ CallPeek(t)
        PROVE  TypeOK'
    BY <2>2, ThreadsAssumption
    DEF CallPush, CallPop, CallPeek, Call, Operations, Pops, Peeks
  <2>3. ASSUME NEW t \in Threads, WaitAvail(t) \/ WaitInuse(t)
        PROVE  TypeOK'
    BY <2>3 DEF WaitAvail, WaitInuse
  <2>4. ASSUME NEW t \in Threads, Interrupted(t) PROVE TypeOK'
    BY <2>4, MaxInterruptsAssumption DEF Interrupted
  <2>5. ASSUME NEW t \in Threads, TimedOut(t) PROVE TypeOK'
    BY <2>5 DEF TimedOut
  <2>6. ASSUME NEW t \in Threads, Lock(t) PROVE TypeOK'
    BY <2>6 DEF Lock
  <2>7. ASSUME NEW t \in Threads, Add(t) PROVE TypeOK'
    BY <2>7, RingAddType DEF Add
  <2>8. ASSUME NEW t \in Threads, Remove(t) PROVE TypeOK'
    BY <2>8, RingRemoveType, RingFrontType DEF Remove
  <2>9. ASSUME NEW t \in Threads, Front(t) PROVE TypeOK'
    BY <2>9, RingFrontType DEF Front, RingBuffers
  <2>10. ASSUME NEW t \in Threads, Unlock(t) PROVE TypeOK'
    BY <2>10 DEF Unlock
  <2>11. ASSUME NEW t \in Threads, PostAvail(t) \/ PostInuse(t)
         PROVE  TypeOK'
    BY <2>11 DEF PostAvail, PostInuse
  <2> QED
    BY <2>1, <2>2, <2>3, <2>4, <2>5, <2>6, <2>7, <2>8, <2>9, <2>10, <2>11
    DEF Next, Step, Wait, Critical, Post
<1> QED
  BY <1>1, <1>2, PTL DEF Spec

-----------------------------------------------------------------------------
(* No token is lost.  TokenAccounting is inductive once it is known that   *)
(* the FIFO accepted what a thread did before it leaves the mutex: else    *)
(* push and pop would skip their post.                                     *)

Accepted ==
  interrupts = 0 =>
    \A t \in Threads : pc[t] \in {"unlock", "post"} => rval[t] = "OK"

TokenInv == TypeOK /\ TokenAccounting /\ Accepted

\* The threads with a token are finitely many.
LEMMA HoldersFinite == IsFiniteSet(AvailHolders) /\ IsFiniteSet(InuseHolders)
<1>1. IsFiniteSet(Threads)
  BY ThreadsAssumption, FS_Union DEF Threads
<1>2. AvailHolders \in SUBSET Threads /\ InuseHolders \in SUBSET Threads
  BY DEF AvailHolders, InuseHolders, At
<1> QED
  BY <1>1, <1>2, FS_Subset

\* A holder is counted.
LEMMA HolderCounted ==
  ASSUME NEW S, NEW t \in S, IsFiniteSet(S)
  PROVE  Cardinality(S) \in Nat /\ Cardinality(S) > 0
<1>1. Cardinality(S) \in Nat /\ Cardinality(S) # 0
  BY FS_CardinalityType, FS_EmptySet
<1> QED
  BY <1>1

\* A thread in the critical section finds the space or the element its
\* token stands for.
LEMMA TokensSuffice == TokenInv => NeverRefused
<1> SUFFICES ASSUME TokenInv, interrupts = 0, NEW t \in Threads, pc[t] = "body"
             PROVE  IF op[t] = "push" THEN ~RingIsFull(fifo)
                                      ELSE ~RingIsEmpty(fifo)
  BY DEF NeverRefused
<1>1. /\ slots_avail \in Nat /\ slots_inuse \in Nat
      /\ fifo.current \in Nat /\ op[t] \in Operations
  BY MaxEltsAssumption DEF TokenInv, TypeOK, RingBuffers
<1>2. CASE op[t] = "push"
  <2>1. t \in AvailHolders
    BY <1>2 DEF AvailHolders, At
  <2>2. Cardinality(AvailHolders) \in Nat /\ Cardinality(AvailHolders) > 0
    BY <2>1, HoldersFinite, HolderCounted
  <2> QED
    BY <1>1, <1>2, <2>2, MaxEltsAssumption DEF TokenInv, TokenAccounting, RingIsFull
<1>3. CASE op[t] # "push"
  <2>1. t \in InuseHolders
    BY <1>1, <1>3 DEF InuseHolders, At, Operations
  <2>2. Cardinality(InuseHolders) \in Nat /\ Cardinality(InuseHolders) > 0
    BY <2>1, HoldersFinite, HolderCounted
  <2> QED
    BY <1>1, <1>3, <2>2 DEF TokenInv, TokenAccounting, RingIsEmpty
<1> QED
  BY <1>2, <1>3

\* pcqueue_init gives every slot its token.
LEMMA TokenInvInit == Init => TokenInv
<1> SUFFICES ASSUME Init PROVE TokenInv
  OBVIOUS
<1>1. TypeOK
  BY MaxEltsAssumption, MaxInterruptsAssumption
  DEF Init, TypeOK, EmptyRing, RingBuffers, Slots, Null, Labels, Operations,
      Pops, Peeks, Threads
<1>2. AvailHolders = {} /\ InuseHolders = {}
  BY DEF Init, AvailHolders, InuseHolders, At
<1>3. TokenAccounting
  BY <1>2, FS_EmptySet, MaxEltsAssumption DEF Init, TokenAccounting, EmptyRing
<1> QED
  BY <1>1, <1>3 DEF TokenInv, Accepted, Init

\* A wait cut short is not forgotten.
LEMMA InterruptsGrow ==
  ASSUME TypeOK, [Next]_vars, interrupts # 0 PROVE interrupts' # 0
<1>1. interrupts \in Nat
  BY MaxInterruptsAssumption DEF TypeOK
<1>2. ASSUME NEW t \in Threads, Interrupted(t) PROVE interrupts' # 0
  BY <1>1, <1>2 DEF Interrupted
<1> QED
  BY <1>2 DEF Next, vars, Step, Wait, Critical, Post, CallPush, CallPop, CallPeek, Call,
     TimedOut, WaitAvail, WaitInuse, Lock, Add, Remove, Front, Unlock, PostAvail,
     PostInuse

\* Every step keeps the tokens in balance: each takes a token, uses one or
\* gives one back, or leaves all of them alone.
LEMMA TokenInvNext ==
  ASSUME TokenInv, TypeOK', [Next]_vars
  PROVE  TokenInv'
<1> SUFFICES ASSUME interrupts = 0 PROVE TokenInv'
  BY InterruptsGrow DEF TokenInv, TokenAccounting, Accepted
<1> DEFINE A == Cardinality(AvailHolders)
           I == Cardinality(InuseHolders)
<1>1. /\ slots_avail \in Nat /\ slots_inuse \in Nat
      /\ fifo \in RingBuffers /\ fifo.current \in 0 .. MaxElts
      /\ A \in Nat /\ I \in Nat
  BY HoldersFinite, FS_CardinalityType DEF TokenInv, TypeOK, RingBuffers
<1>2. MaxElts - fifo.current = slots_avail + A /\ fifo.current = slots_inuse + I
  BY DEF TokenInv, TokenAccounting
<1>3. NeverRefused
  BY TokensSuffice
<1> HIDE DEF A, I
<1> USE DEF Goto
\* It is enough to follow the two sets of holders and the counters.
<1>4. ASSUME UNCHANGED <<fifo, slots_avail, slots_inuse>>,
             AvailHolders' = AvailHolders, InuseHolders' = InuseHolders, Accepted'
      PROVE  TokenInv'
  BY <1>2, <1>4 DEF TokenInv, TokenAccounting, A, I
<1>5. CASE UNCHANGED vars
  <2>1. AvailHolders' = AvailHolders /\ InuseHolders' = InuseHolders /\ Accepted'
    BY <1>5 DEF vars, AvailHolders, InuseHolders, At, Accepted, TokenInv
  <2> QED
    BY <1>4, <1>5, <2>1 DEF vars
<1>6. ASSUME NEW t \in Threads,
             CallPush(t) \/ CallPop(t) \/ CallPeek(t)
      PROVE  TokenInv'
  <2>1. PICK o, e : Call(t, o, e)
    BY <1>6 DEF CallPush, CallPop, CallPeek
  <2>2. AvailHolders' = AvailHolders /\ InuseHolders' = InuseHolders /\ Accepted'
    BY <2>1 DEF Call, AvailHolders, InuseHolders, At, Accepted, TokenInv, TypeOK
  <2> QED
    BY <1>4, <2>1, <2>2 DEF Call
<1>7. ASSUME NEW t \in Threads, WaitAvail(t) PROVE TokenInv'
  <2>1. /\ t \notin AvailHolders /\ AvailHolders' = AvailHolders \cup {t}
        /\ InuseHolders' = InuseHolders /\ Accepted'
    BY <1>7 DEF WaitAvail, AvailHolders, InuseHolders, At, Pops, Peeks, Accepted,
                TokenInv, TypeOK
  <2>2. Cardinality(AvailHolders') = A + 1
    BY <2>1, HoldersFinite, FS_AddElement DEF A
  <2> QED
    BY <1>1, <1>2, <1>7, <2>1, <2>2 DEF WaitAvail, TokenInv, TokenAccounting, I
<1>8. ASSUME NEW t \in Threads, WaitInuse(t) PROVE TokenInv'
  <2>1. /\ t \notin InuseHolders /\ InuseHolders' = InuseHolders \cup {t}
        /\ AvailHolders' = AvailHolders /\ Accepted'
    BY <1>8 DEF WaitInuse, AvailHolders, InuseHolders, At, Pops, Peeks, Accepted,
                TokenInv, TypeOK, Operations
  <2>2. Cardinality(InuseHolders') = I + 1
    BY <2>1, HoldersFinite, FS_AddElement DEF I
  <2> QED
    BY <1>1, <1>2, <1>8, <2>1, <2>2 DEF WaitInuse, TokenInv, TokenAccounting, A
<1>9. ASSUME NEW t \in Threads, Interrupted(t) PROVE TokenInv'
  BY <1>9 DEF Interrupted, TokenInv, TokenAccounting, Accepted
<1>10. ASSUME NEW t \in Threads, TimedOut(t) PROVE TokenInv'
  <2>1. AvailHolders' = AvailHolders /\ InuseHolders' = InuseHolders /\ Accepted'
    BY <1>10 DEF TimedOut, AvailHolders, InuseHolders, At, Accepted, TokenInv, TypeOK
  <2> QED
    BY <1>4, <1>10, <2>1 DEF TimedOut
<1>11. ASSUME NEW t \in Threads, Lock(t) PROVE TokenInv'
  <2>1. AvailHolders' = AvailHolders /\ InuseHolders' = InuseHolders /\ Accepted'
    BY <1>11 DEF Lock, AvailHolders, InuseHolders, At, Accepted, TokenInv, TypeOK
  <2> QED
    BY <1>4, <1>11, <2>1 DEF Lock
<1>12. ASSUME NEW t \in Threads, Add(t) PROVE TokenInv'
  <2>1. fifo' = RingAdd(fifo, elt[t]) /\ rval' = [rval EXCEPT ![t] = "OK"]
        /\ ~RingIsFull(fifo)
    BY <1>3, <1>12 DEF Add, NeverRefused
  <2>2. fifo'.current = fifo.current + 1
    BY <1>1, <2>1, RingAddType DEF TokenInv, TypeOK
  <2>3. /\ t \in AvailHolders /\ AvailHolders' = AvailHolders \ {t}
        /\ t \notin InuseHolders /\ InuseHolders' = InuseHolders \cup {t}
        /\ Accepted'
    BY <1>12, <2>1 DEF Add, AvailHolders, InuseHolders, At, Pops, Peeks, Accepted,
                TokenInv, TypeOK
  <2>4. Cardinality(AvailHolders') = A - 1 /\ Cardinality(InuseHolders') = I + 1
    BY <2>3, HoldersFinite, FS_AddElement, FS_RemoveElement DEF A, I
  <2> QED
    BY <1>1, <1>2, <1>12, <2>2, <2>3, <2>4, MaxEltsAssumption
    DEF Add, TokenInv, TokenAccounting
<1>13. ASSUME NEW t \in Threads, Remove(t) PROVE TokenInv'
  <2>1. fifo' = RingRemove(fifo) /\ rval' = [rval EXCEPT ![t] = "OK"]
        /\ ~RingIsEmpty(fifo)
    BY <1>3, <1>13 DEF Remove, NeverRefused, Pops
  <2>2. fifo'.current = fifo.current - 1
    BY <1>1, <2>1, RingRemoveType
  <2>3. /\ t \in InuseHolders /\ InuseHolders' = InuseHolders \ {t}
        /\ t \notin AvailHolders /\ AvailHolders' = AvailHolders \cup {t}
        /\ Accepted'
    BY <1>13, <2>1 DEF Remove, AvailHolders, InuseHolders, At, Pops, Peeks, Accepted,
                TokenInv, TypeOK
  <2>4. Cardinality(InuseHolders') = I - 1 /\ Cardinality(AvailHolders') = A + 1
    BY <2>3, HoldersFinite, FS_AddElement, FS_RemoveElement DEF A, I
  <2> QED
    BY <1>1, <1>2, <1>13, <2>2, <2>3, <2>4, MaxEltsAssumption
    DEF Remove, TokenInv, TokenAccounting
<1>14. ASSUME NEW t \in Threads, Front(t) PROVE TokenInv'
  <2>1. AvailHolders' = AvailHolders /\ InuseHolders' = InuseHolders /\ Accepted'
    BY <1>14 DEF Front, AvailHolders, InuseHolders, At, Pops, Peeks, Accepted,
                 TokenInv, TypeOK
  <2> QED
    BY <1>4, <1>14, <2>1 DEF Front
<1>15. ASSUME NEW t \in Threads, Unlock(t) PROVE TokenInv'
  <2>1. pc[t] = "unlock" /\ pc' = [pc EXCEPT ![t] = "post"]
    BY <1>15 DEF Unlock, MustPost, TokenInv, Accepted
  <2>2. AvailHolders' = AvailHolders /\ InuseHolders' = InuseHolders /\ Accepted'
    BY <1>15, <2>1 DEF Unlock, AvailHolders, InuseHolders, At, Accepted, TokenInv, TypeOK
  <2> QED
    BY <1>4, <1>15, <2>2 DEF Unlock
<1>16. ASSUME NEW t \in Threads, PostAvail(t) PROVE TokenInv'
  <2>1. /\ t \in AvailHolders /\ AvailHolders' = AvailHolders \ {t}
        /\ InuseHolders' = InuseHolders /\ Accepted'
    BY <1>16 DEF PostAvail, AvailHolders, InuseHolders, At, Pops, Peeks, Accepted,
                 TokenInv, TypeOK
  <2>2. Cardinality(AvailHolders') = A - 1
    BY <2>1, HoldersFinite, FS_RemoveElement DEF A
  <2> QED
    BY <1>1, <1>2, <1>16, <2>1, <2>2 DEF PostAvail, TokenInv, TokenAccounting, I
<1>17. ASSUME NEW t \in Threads, PostInuse(t) PROVE TokenInv'
  <2>1. /\ t \in InuseHolders /\ InuseHolders' = InuseHolders \ {t}
        /\ AvailHolders' = AvailHolders /\ Accepted'
    BY <1>17 DEF PostInuse, AvailHolders, InuseHolders, At, Pops, Peeks, Accepted,
                 TokenInv, TypeOK, Operations
  <2>2. Cardinality(InuseHolders') = I - 1
    BY <2>1, HoldersFinite, FS_RemoveElement DEF I
  <2> QED
    BY <1>1, <1>2, <1>17, <2>1, <2>2 DEF PostInuse, TokenInv, TokenAccounting, A
<1> QED
  BY <1>5, <1>6, <1>7, <1>8, <1>9, <1>10, <1>11, <1>12, <1>13, <1>14, <1>15,
     <1>16, <1>17 DEF Next, Step, Wait, Critical, Post

\* Until a signal cuts a wait short no token of either semaphore is lost or
\* made up, for every capacity and any number of threads.
THEOREM TokensAccounted == Spec => []TokenAccounting
<1>1. TokenInv /\ TypeOK' /\ [Next]_vars => TokenInv'
  BY TokenInvNext
<1>2. TokenInv => TokenAccounting
  BY DEF TokenInv
<1> QED
  BY <1>1, <1>2, TokenInvInit, TypeInvariance, PTL DEF Spec

\* Until a signal cuts a wait short the FIFO refuses no thread that got past
\* its semaphore: every push finds a free slot, every pop and peek an element.
THEOREM NoThreadRefused == Spec => []NeverRefused
<1>1. TokenInv /\ TypeOK' /\ [Next]_vars => TokenInv'
  BY TokenInvNext
<1> QED
  BY <1>1, TokenInvInit, TokensSuffice, TypeInvariance, PTL DEF Spec

-----------------------------------------------------------------------------
(* What peek returned stays in place until somebody pops, signals or not.  *)

PeekInv == TypeOK /\ PeekedSlotStable /\ \A t \in Producers : ptr[t] = Null

\* A push writes to another slot than the one start refers to.
LEMMA PushKeepsFront ==
  ASSUME NEW rb \in RingBuffers, NEW e \in Elts \cup {Unset},
         ~RingIsFull(rb), ~RingIsEmpty(rb)
  PROVE  /\ RingAdd(rb, e).start = rb.start
         /\ RingFront(RingAdd(rb, e)) = RingFront(rb)
         /\ ~RingIsEmpty(RingAdd(rb, e))
<1>1. rb.start \in 0 .. MaxElts - 1 /\ rb.current \in 1 .. MaxElts - 1
  BY MaxEltsAssumption DEF RingBuffers, Slots, RingIsFull, RingIsEmpty
<1>2. RingSlot(rb.start + rb.current) # rb.start
  BY <1>1, MaxEltsAssumption DEF RingSlot
<1> QED
  BY <1>1, <1>2 DEF RingAdd, RingFront, RingIsFull, RingIsEmpty, RingBuffers

\* The pointer that peek hands out refers to the oldest element until that
\* element is popped, for any number of producers and consumers.
THEOREM PeekStability == Spec => []PeekedSlotStable
<1>1. Init => PeekInv
  BY MaxEltsAssumption, MaxInterruptsAssumption
  DEF Init, PeekInv, PeekedSlotStable, TypeOK, EmptyRing, RingBuffers, Slots, Null,
      Labels, Operations, Pops, Peeks, Threads
<1>2. PeekInv /\ TypeOK' /\ [Next]_vars => PeekInv'
  <2> SUFFICES ASSUME PeekInv, TypeOK', [Next]_vars PROVE PeekInv'
    OBVIOUS
  <2> USE DEF PeekInv, PeekedSlotStable
  <2>1. ASSUME UNCHANGED <<fifo, elt, ptr>> PROVE PeekInv'
    BY <2>1
  <2>2. CASE UNCHANGED vars
    BY <2>1, <2>2 DEF vars
  <2>3. ASSUME NEW t \in Threads, CallPush(t) \/ CallPop(t) \/ CallPeek(t)
        PROVE  PeekInv'
    <3>1. CASE CallPush(t)
      BY <3>1 DEF CallPush, Call, TypeOK
    <3>2. CASE CallPop(t) \/ CallPeek(t)
      BY <3>2 DEF CallPop, CallPeek, Call, TypeOK
    <3> QED
      BY <2>3, <3>1, <3>2
  <2>4. ASSUME NEW t \in Threads, TimedOut(t) PROVE PeekInv'
    BY <2>4 DEF TimedOut, TypeOK
  <2>5. ASSUME NEW t \in Threads, Add(t) PROVE PeekInv'
    <3>1. CASE RingIsFull(fifo)
      BY <2>1, <2>5, <3>1 DEF Add
    <3>2. CASE ~RingIsFull(fifo)
      <4>1. /\ fifo' = RingAdd(fifo, elt[t]) /\ UNCHANGED <<elt, ptr>>
            /\ fifo \in RingBuffers /\ elt[t] \in Elts \cup {Unset}
        BY <2>5, <3>2 DEF Add, TypeOK
      <4>2. CASE RingIsEmpty(fifo)
        BY <4>1, <4>2
      <4>3. CASE ~RingIsEmpty(fifo)
        BY <3>2, <4>1, <4>3, PushKeepsFront
      <4> QED
        BY <4>2, <4>3
    <3> QED
      BY <3>1, <3>2
  <2>6. ASSUME NEW t \in Threads, Remove(t) PROVE PeekInv'
    <3>1. CASE RingIsEmpty(fifo)
      BY <2>1, <2>6, <3>1 DEF Remove
    <3>2. CASE ~RingIsEmpty(fifo)
      BY <2>6, <3>2 DEF Remove, Threads
    <3> QED
      BY <3>1, <3>2
  <2>7. ASSUME NEW t \in Threads, Front(t) PROVE PeekInv'
    <3>1. t \in Threads \ Producers
      BY <2>7 DEF Front, TypeOK, Peeks
    <3>2. UNCHANGED fifo /\ ptr \in [Threads -> Slots \cup {Null}]
      BY <2>7 DEF Front, TypeOK
    <3>3. CASE RingIsEmpty(fifo)
      BY <2>7, <3>1, <3>2, <3>3 DEF Front
    <3>4. CASE ~RingIsEmpty(fifo)
      <4>1. /\ ptr' = [ptr EXCEPT ![t] = fifo.start]
            /\ elt' = [elt EXCEPT ![t] = RingFront(fifo)]
        BY <2>7, <3>4 DEF Front
      <4>2. PeekedSlotStable'
        BY <2>7, <3>2, <3>4, <4>1 DEF TypeOK
      <4>3. \A u \in Producers : ptr'[u] = Null
        BY <3>1, <3>2, <4>1
      <4> QED
        BY <4>2, <4>3
    <3> QED
      BY <3>3, <3>4
  <2>8. ASSUME NEW t \in Threads,
               \/ WaitAvail(t) \/ WaitInuse(t) \/ Interrupted(t)
               \/ Lock(t) \/ Unlock(t) \/ PostAvail(t) \/ PostInuse(t)
        PROVE  PeekInv'
    BY <2>1, <2>8 DEF WaitAvail, WaitInuse, Interrupted, Lock, Unlock, PostAvail, PostInuse
  <2> QED
    BY <2>2, <2>3, <2>4, <2>5, <2>6, <2>7, <2>8
    DEF Next, Step, Wait, Critical, Post
<1>3. PeekInv => PeekedSlotStable
  BY DEF PeekInv
<1> QED
  BY <1>1, <1>2, <1>3, TypeInvariance, PTL DEF Spec

-----------------------------------------------------------------------------
(* The queue implements one sequence, signals or not.                      *)

\* The two places a reduced index can come from.
LEMMA ModSmall ==
  ASSUME NEW i \in 0 .. 2 * MaxElts - 1
  PROVE  RingSlot(i) = IF i < MaxElts THEN i ELSE i - MaxElts
BY MaxEltsAssumption DEF RingSlot

\* The contents are as many as the buffer counts.
LEMMA ContentsType ==
  ASSUME NEW rb \in RingBuffers
  PROVE  /\ RingContents(rb) \in Seq(Elts \cup {Unset})
         /\ Len(RingContents(rb)) = rb.current
<1>1. rb.start \in Slots /\ rb.current \in Nat /\ rb.elements \in [Slots -> Elts \cup {Unset}]
  BY MaxEltsAssumption DEF RingBuffers
<1>2. ASSUME NEW i \in 1 .. rb.current PROVE RingSlot(rb.start + i - 1) \in Slots
  <2>1. rb.start + i - 1 \in Nat
    BY <1>1, MaxEltsAssumption DEF Slots
  <2> QED
    BY <2>1, RingSlotType
<1>3. RingContents(rb) \in [1 .. rb.current -> Elts \cup {Unset}]
  BY <1>1, <1>2 DEF RingContents
<1> QED
  BY <1>1, <1>3

\* rbuffer_add appends to the contents of a buffer that is not full.
LEMMA ContentsAdd ==
  ASSUME NEW rb \in RingBuffers, ~RingIsFull(rb), NEW e \in Elts \cup {Unset}
  PROVE  RingContents(RingAdd(rb, e)) = Append(RingContents(rb), e)
<1> DEFINE new == RingAdd(rb, e)
           slot == RingSlot(rb.start + rb.current)
<1>1. rb.start \in 0 .. MaxElts - 1 /\ rb.current \in 0 .. MaxElts - 1
  BY MaxEltsAssumption DEF RingBuffers, Slots, RingIsFull
<1>2. /\ new.start = rb.start /\ new.current = rb.current + 1
      /\ new.elements = [rb.elements EXCEPT ![slot] = e]
  BY DEF RingAdd
<1>3. slot \in Slots /\ new.elements[slot] = e
  BY <1>1, <1>2, RingSlotType DEF RingBuffers
<1>4. ASSUME NEW i \in 1 .. rb.current
      PROVE  RingSlot(rb.start + i - 1) # slot
  BY <1>1, MaxEltsAssumption, ModSmall
<1>5. ASSUME NEW i \in 1 .. rb.current
      PROVE  new.elements[RingSlot(rb.start + i - 1)]
               = rb.elements[RingSlot(rb.start + i - 1)]
  BY <1>2, <1>4 DEF RingBuffers
<1>6. RingContents(new) = [i \in 1 .. rb.current + 1 |->
         IF i = rb.current + 1 THEN e ELSE RingContents(rb)[i]]
  BY <1>1, <1>2, <1>3, <1>5 DEF RingContents
<1>7. Len(RingContents(rb)) = rb.current /\ RingContents(rb) \in Seq(Elts \cup {Unset})
  BY ContentsType
<1>8. /\ RingContents(new) \in Seq(Elts \cup {Unset})
      /\ Len(RingContents(new)) = rb.current + 1
  BY <1>2, RingAddType, ContentsType
<1>9. ASSUME NEW i \in 1 .. rb.current + 1
      PROVE  RingContents(new)[i] = Append(RingContents(rb), e)[i]
  BY <1>1, <1>6, <1>7, AppendProperties
<1>10. /\ Append(RingContents(rb), e) \in Seq(Elts \cup {Unset})
       /\ Len(Append(RingContents(rb), e)) = rb.current + 1
  BY <1>7, AppendProperties
<1> HIDE DEF new
<1>11. RingContents(new) = Append(RingContents(rb), e)
  BY <1>8, <1>9, <1>10, SeqEqual
<1> QED
  BY <1>11 DEF new

\* rbuffer_remove takes the head of the contents away.
LEMMA ContentsRemove ==
  ASSUME NEW rb \in RingBuffers, ~RingIsEmpty(rb)
  PROVE  /\ RingContents(rb) # <<>>
         /\ RingFront(rb) = Head(RingContents(rb))
         /\ RingContents(RingRemove(rb)) = Tail(RingContents(rb))
<1> DEFINE new == RingRemove(rb)
<1>1. rb.start \in 0 .. MaxElts - 1 /\ rb.current \in 1 .. MaxElts
  BY MaxEltsAssumption DEF RingBuffers, Slots, RingIsEmpty
<1>2. /\ new.start = RingSlot(rb.start + 1) /\ new.current = rb.current - 1
      /\ new.elements = rb.elements
  BY DEF RingRemove
<1>3. ASSUME NEW i \in 1 .. rb.current - 1
      PROVE  RingSlot(new.start + i - 1) = RingSlot(rb.start + (i + 1) - 1)
  <2>1. new.start = IF rb.start + 1 < MaxElts THEN rb.start + 1 ELSE 0
    BY <1>1, <1>2, MaxEltsAssumption, ModSmall
  <2> QED
    BY <1>1, <2>1, MaxEltsAssumption, ModSmall
<1>4. Len(RingContents(rb)) = rb.current /\ RingContents(rb) \in Seq(Elts \cup {Unset})
  BY ContentsType
<1>5. RingContents(rb)[1] = RingFront(rb)
  BY <1>1, MaxEltsAssumption, ModSmall DEF RingContents, RingFront
<1>6. RingContents(new) = [i \in 1 .. rb.current - 1 |-> RingContents(rb)[i + 1]]
  BY <1>1, <1>2, <1>3 DEF RingContents
<1>7. RingContents(rb) # <<>>
  BY <1>1, <1>4, EmptySeq
<1>8. /\ RingContents(new) \in Seq(Elts \cup {Unset})
      /\ Len(RingContents(new)) = rb.current - 1
  BY <1>2, RingRemoveType, ContentsType
<1>9. ASSUME NEW i \in 1 .. rb.current - 1
      PROVE  RingContents(new)[i] = Tail(RingContents(rb))[i]
  BY <1>1, <1>4, <1>6, <1>7, HeadTailProperties
<1>10. RingContents(new) = Tail(RingContents(rb))
  BY <1>1, <1>4, <1>7, <1>8, <1>9, HeadTailProperties, SeqEqual
<1> QED
  BY <1>4, <1>5, <1>7, <1>10

\* Every execution of the queue is one of BoundedFifo: what producers push
\* is delivered once and in order, and the queue never exceeds its capacity.
THEOREM Implementation == Spec => ImplementsFifo
<1>1. Init => Queue!Init
  BY MaxEltsAssumption DEF Init, Queue!Init, RingContents, EmptyRing, Threads, Queue!Threads
<1>2. TypeOK /\ [Next]_vars => [Queue!Next]_Queue!vars
  <2> SUFFICES ASSUME TypeOK, [Next]_vars PROVE [Queue!Next]_Queue!vars
    OBVIOUS
  <2> USE DEF Queue!vars
  <2>1. fifo \in RingBuffers /\ elt \in [Threads -> Elts \cup {Unset}]
    BY DEF TypeOK
  <2>2. ASSUME UNCHANGED <<fifo, elt>> PROVE [Queue!Next]_Queue!vars
    BY <2>2
  <2>3. CASE UNCHANGED vars
    BY <2>2, <2>3 DEF vars
  <2>4. ASSUME NEW t \in Threads, CallPush(t) \/ CallPop(t) \/ CallPeek(t)
        PROVE  Queue!Next
    <3>1. \E o : \E e \in Elts \cup {Unset} :
            Call(t, o, e) /\ (e = Unset <=> t \in Consumers)
      <4>1. CASE CallPush(t)
        BY <4>1, ThreadsAssumption, UnsetAssumption DEF CallPush
      <4>2. CASE CallPop(t)
        BY <4>2, ThreadsAssumption DEF CallPop
      <4>3. CASE CallPeek(t)
        BY <4>3, ThreadsAssumption DEF CallPeek
      <4> QED
        BY <2>4, <4>1, <4>2, <4>3
    <3>2. \E e \in Elts \cup {Unset} : Queue!Offer(t, e)
      BY <3>1 DEF Call, Queue!Offer
    <3> QED
      BY <3>2 DEF Queue!Next, Threads, Queue!Threads
  <2>5. ASSUME NEW t \in Threads, Add(t) PROVE [Queue!Next]_Queue!vars
    <3>1. CASE RingIsFull(fifo)
      BY <2>2, <2>5, <3>1 DEF Add
    <3>2. CASE ~RingIsFull(fifo)
      <4>1. fifo' = RingAdd(fifo, elt[t]) /\ UNCHANGED elt /\ t \in Producers
        BY <2>5, <3>2 DEF Add, TypeOK
      <4>2. RingContents(fifo)' = Append(RingContents(fifo), elt[t])
        BY <2>1, <3>2, <4>1, ContentsAdd
      <4>3. Len(RingContents(fifo)) < MaxElts
        BY <2>1, <3>2, ContentsType, MaxEltsAssumption DEF RingIsFull, RingBuffers
      <4>4. Queue!Put(t)
        BY <4>1, <4>2, <4>3 DEF Queue!Put
      <4> QED
        BY <4>4 DEF Queue!Next, Threads, Queue!Threads
    <3> QED
      BY <3>1, <3>2
  <2>6. ASSUME NEW t \in Threads, Remove(t) PROVE [Queue!Next]_Queue!vars
    <3>1. CASE RingIsEmpty(fifo)
      BY <2>2, <2>6, <3>1 DEF Remove
    <3>2. CASE ~RingIsEmpty(fifo)
      <4>1. /\ fifo' = RingRemove(fifo) /\ t \in Consumers
            /\ elt' = [elt EXCEPT ![t] = RingFront(fifo)]
        BY <2>6, <3>2 DEF Remove, TypeOK, Threads, Pops
      <4>2. Queue!Take(t)
        BY <2>1, <3>2, <4>1, ContentsRemove DEF Queue!Take
      <4> QED
        BY <4>2 DEF Queue!Next, Threads, Queue!Threads
    <3> QED
      BY <3>1, <3>2
  <2>7. ASSUME NEW t \in Threads, Front(t) PROVE [Queue!Next]_Queue!vars
    <3>1. CASE RingIsEmpty(fifo)
      BY <2>2, <2>7, <3>1 DEF Front
    <3>2. CASE ~RingIsEmpty(fifo)
      <4>1. /\ UNCHANGED fifo /\ t \in Consumers
            /\ elt' = [elt EXCEPT ![t] = RingFront(fifo)]
        BY <2>7, <3>2 DEF Front, TypeOK, Threads, Peeks
      <4>2. Queue!Look(t)
        BY <2>1, <3>2, <4>1, ContentsRemove DEF Queue!Look
      <4> QED
        BY <4>2 DEF Queue!Next, Threads, Queue!Threads
    <3> QED
      BY <3>1, <3>2
  <2>8. ASSUME NEW t \in Threads,
               \/ WaitAvail(t) \/ WaitInuse(t) \/ Interrupted(t) \/ TimedOut(t)
               \/ Lock(t) \/ Unlock(t) \/ PostAvail(t) \/ PostInuse(t)
        PROVE  UNCHANGED <<fifo, elt>>
    BY <2>8 DEF WaitAvail, WaitInuse, Interrupted, TimedOut, Lock, Unlock, PostAvail, PostInuse
  <2> QED
    BY <2>2, <2>3, <2>4, <2>5, <2>6, <2>7, <2>8
    DEF Next, Step, Wait, Critical, Post
<1> QED
  BY <1>1, <1>2, TypeInvariance, PTL DEF Spec, ImplementsFifo, Queue!Spec
=============================================================================
