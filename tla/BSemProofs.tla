---------------------------- MODULE BSemProofs ----------------------------
(***************************************************************************)
(* Proofs about the binary semaphore, for any finite number of threads.    *)
(***************************************************************************)
EXTENDS BSem, FiniteSetTheorems, TLAPS

\* Who sleeps waits, and who is inside a call does not have the semaphore yet.
CallsInv ==
  \A t \in Threads :
    /\ pc[t] = "asleep" => op[t] \in Waits
    /\ pc[t] # "idle" => t \notin has

SemInv == TypeOK /\ CallsInv /\ NoLostWakeup /\ OneOwner

\* Some waiting thread is awake.
AwakeWaiter == \E u \in Threads : pc[u] \in {"lock", "check"} /\ op[u] \in Waits

\* Types and calls fit together in every reachable state.
LEMMA TypesAndCalls == TypeOK /\ CallsInv /\ [Next]_vars => TypeOK' /\ CallsInv'
<1> SUFFICES ASSUME TypeOK, CallsInv, [Next]_vars PROVE TypeOK' /\ CallsInv'
  OBVIOUS
<1> USE DEF TypeOK, CallsInv, Waits, Posts, Labels
<1>1. CASE UNCHANGED vars
  BY <1>1 DEF vars
<1>2. ASSUME NEW t \in Threads, CallWait(t) PROVE TypeOK' /\ CallsInv'
  BY <1>2 DEF CallWait, Call
<1>3. ASSUME NEW t \in Threads, CallPost(t) PROVE TypeOK' /\ CallsInv'
  BY <1>3 DEF CallPost, Call
<1>4. ASSUME NEW t \in Threads, Lock(t) PROVE TypeOK' /\ CallsInv'
  BY <1>4 DEF Lock
<1>5. ASSUME NEW t \in Threads, Take(t) PROVE TypeOK' /\ CallsInv'
  BY <1>5 DEF Take
<1>6. ASSUME NEW t \in Threads, Sleep(t) PROVE TypeOK' /\ CallsInv'
  BY <1>6 DEF Sleep
<1>7. ASSUME NEW t \in Threads, Raise(t) PROVE TypeOK' /\ CallsInv'
  <2>1. PICK awake \in Woken(t) :
          pc' = [s \in Threads |-> IF s = t THEN "unlock"
                                   ELSE IF s \in awake THEN "lock" ELSE pc[s]]
    BY <1>7 DEF Raise
  <2>2. awake \subseteq At("asleep")
    BY DEF Woken
  <2> QED
    BY <1>7, <2>1, <2>2 DEF Raise, At
<1>8. ASSUME NEW t \in Threads, Refuse(t) PROVE TypeOK' /\ CallsInv'
  BY <1>8 DEF Refuse
<1>9. ASSUME NEW t \in Threads, Unlock(t) PROVE TypeOK' /\ CallsInv'
  BY <1>9 DEF Unlock
<1>10. ASSUME NEW t \in Threads, WakeUp(t) PROVE TypeOK' /\ CallsInv'
  BY <1>10 DEF WakeUp
<1> QED
  BY <1>1, <1>2, <1>3, <1>4, <1>5, <1>6, <1>7, <1>8, <1>9, <1>10
     DEF Next, Step, SpuriousWakeup, TimedOut

\* A post finds a sleeper to wake whenever there is one.
LEMMA WakesSomebody ==
  ASSUME NEW t, NEW awake \in Woken(t)
  PROVE  awake \subseteq At("asleep") /\ (At("asleep") # {} => awake # {})
BY DEF Woken

\* No step loses a wakeup.
LEMMA WakeupNext ==
  TypeOK /\ CallsInv /\ NoLostWakeup /\ [Next]_vars => NoLostWakeup'
<1> SUFFICES ASSUME TypeOK, CallsInv, NoLostWakeup, [Next]_vars,
                    val' = 1, NEW s \in At("asleep")'
             PROVE  AwakeWaiter'
  BY DEF NoLostWakeup, At, AwakeWaiter
<1> USE DEF TypeOK, CallsInv, Waits, Posts, Labels, At, AwakeWaiter
<1>1. CASE UNCHANGED vars
  BY <1>1 DEF vars, NoLostWakeup
<1>2. ASSUME NEW t \in Threads, CallWait(t)
      PROVE  AwakeWaiter'
  BY <1>2 DEF CallWait, Call
<1>3. ASSUME NEW t \in Threads, CallPost(t)
      PROVE  AwakeWaiter'
  <2>1. val = 1 /\ s \in At("asleep") /\ t \in Threads /\ pc[t] = "idle"
    BY <1>3 DEF CallPost, Call
  <2>2. PICK u \in Threads : pc[u] \in {"lock", "check"} /\ op[u] \in Waits
    BY <2>1 DEF NoLostWakeup
  <2>3. u # t
    BY <2>1, <2>2
  <2> QED
    BY <1>3, <2>2, <2>3 DEF CallPost, Call
<1>4. ASSUME NEW t \in Threads, Lock(t) \/ Refuse(t) \/ Unlock(t)
      PROVE  AwakeWaiter'
  <2>1. val = 1 /\ s \in At("asleep") /\ op' = op
    BY <1>4 DEF Lock, Refuse, Unlock
  <2>2. PICK u \in Threads : pc[u] \in {"lock", "check"} /\ op[u] \in Waits
    BY <2>1 DEF NoLostWakeup
  <2>3. pc'[u] \in {"lock", "check"}
    BY <1>4, <2>2 DEF Lock, Refuse, Unlock
  <2> QED
    BY <2>1, <2>2, <2>3
<1>5. ASSUME NEW t \in Threads, Take(t) \/ Sleep(t) PROVE FALSE
  BY <1>5 DEF Take, Sleep
<1>6. ASSUME NEW t \in Threads, Raise(t)
      PROVE  AwakeWaiter'
  <2>1. PICK awake \in Woken(t) :
          pc' = [r \in Threads |-> IF r = t THEN "unlock"
                                   ELSE IF r \in awake THEN "lock" ELSE pc[r]]
    BY <1>6 DEF Raise
  <2>2. s \in At("asleep") /\ op' = op /\ pc[t] = "check"
    BY <1>6, <2>1, WakesSomebody DEF Raise
  <2>3. PICK u \in awake : u \in At("asleep")
    BY <2>2, WakesSomebody
  <2> QED
    BY <2>1, <2>2, <2>3
<1>7. ASSUME NEW t \in Threads, WakeUp(t)
      PROVE  AwakeWaiter'
  BY <1>7 DEF WakeUp
<1> QED
  BY <1>1, <1>2, <1>3, <1>4, <1>5, <1>6, <1>7
     DEF Next, Step, SpuriousWakeup, TimedOut

\* The owners are finitely many.
LEMMA OwnersFinite ==
  ASSUME TypeOK PROVE IsFiniteSet(Owners) /\ Cardinality(Owners) \in Nat
<1>1. Owners \subseteq Threads
  BY DEF Owners, TypeOK
<1> QED
  BY <1>1, ThreadsAssumption, FS_Subset, FS_CardinalityType

\* Only the owner posts, so there is never more than one.
LEMMA OwnerNext == SemInv /\ [Next]_vars => OneOwner'
<1> SUFFICES ASSUME SemInv, [Next]_vars, ~stray'
             PROVE  val' + Cardinality(Owners') = 1
  BY DEF OneOwner
<1> USE DEF Waits, Posts, Labels
<1>t. TypeOK /\ CallsInv /\ OneOwner
  BY DEF SemInv
<1>f. /\ IsFiniteSet(Owners) /\ Cardinality(Owners) \in Nat
      /\ val \in {0, 1}
  BY <1>t, OwnersFinite DEF TypeOK
<1>s. ~stray
  BY <1>t DEF Next, CallWait, CallPost, SpuriousWakeup, TimedOut, WakeUp, Step, Lock,
     Take, Sleep, Raise, Refuse, Unlock, vars, TypeOK
<1>o. val + Cardinality(Owners) = 1
  BY <1>t, <1>s DEF OneOwner
<1>n. Owners # {} => val = 0
  BY <1>f, <1>o, FS_EmptySet
<1>q. SUFFICES ASSUME ~(val' = val /\ Owners' = Owners)
               PROVE  val' + Cardinality(Owners') = 1
  BY <1>o
<1>1. ASSUME UNCHANGED vars PROVE FALSE
  BY <1>q, <1>1 DEF vars, Owners
<1>2. ASSUME NEW t \in Threads, CallWait(t) PROVE FALSE
  BY <1>q, <1>t, <1>2 DEF CallWait, Call, Owners, TypeOK, CallsInv
<1>3. ASSUME NEW t \in Threads, CallPost(t) PROVE FALSE
  BY <1>q, <1>t, <1>3, ZenonT(60) DEF CallPost, Call, Owners, TypeOK, CallsInv
<1>4. ASSUME NEW t \in Threads, Lock(t) PROVE FALSE
  BY <1>q, <1>t, <1>4 DEF Lock, Owners, TypeOK, CallsInv
<1>5. ASSUME NEW t \in Threads, Take(t) PROVE val' + Cardinality(Owners') = 1
  <2>1. Owners' = Owners \cup {t} /\ t \notin Owners
    BY <1>t, <1>5 DEF Take, Owners, TypeOK, CallsInv
  <2>2. Cardinality(Owners \cup {t}) = Cardinality(Owners) + 1
    BY <1>f, <2>1, FS_AddElement
  <2>3. val = 1 /\ val' = 0
    BY <1>f, <1>5 DEF Take
  <2> QED
    BY <1>f, <1>o, <2>1, <2>2, <2>3
<1>6. ASSUME NEW t \in Threads, Sleep(t) PROVE FALSE
  BY <1>q, <1>t, <1>6 DEF Sleep, Owners, TypeOK, CallsInv
<1>7. ASSUME NEW t \in Threads, Raise(t) PROVE val' + Cardinality(Owners') = 1
  <2>1. PICK awake \in Woken(t) :
          pc' = [s \in Threads |-> IF s = t THEN "unlock"
                                   ELSE IF s \in awake THEN "lock" ELSE pc[s]]
    BY <1>7 DEF Raise
  <2>2. \A s \in awake : pc[s] = "asleep" /\ op[s] \in Waits
    BY <1>t, <2>1, WakesSomebody DEF At, CallsInv
  <2>3. Owners' = Owners \ {t} /\ t \in Owners
    BY <1>t, <1>7, <2>1, <2>2 DEF Raise, Owners, TypeOK, CallsInv
  <2>4. Cardinality(Owners \ {t}) = Cardinality(Owners) - 1
    BY <1>f, <2>3, FS_RemoveElement
  <2>5. val' = val + 1
    BY <1>7 DEF Raise
  <2> QED
    BY <1>f, <1>o, <2>3, <2>4, <2>5
<1>8. ASSUME NEW t \in Threads, Refuse(t) PROVE FALSE
  <2>1. t \in Owners /\ val = 1
    BY <1>8 DEF Refuse, Owners
  <2> QED
    BY <1>n, <2>1
<1>9. ASSUME NEW t \in Threads, Unlock(t) PROVE FALSE
  <2>1. CASE op[t] \in Waits
    <3>1. has' = has \cup {t} /\ t \in Owners
      BY <1>9, <2>1 DEF Unlock, Owners
    <3>2. \A u \in Threads \ {t} : u \in Owners' <=> u \in Owners
      BY <1>t, <1>9, <3>1 DEF Unlock, Owners, TypeOK
    <3>3. t \in Owners'
      BY <3>1 DEF Owners
    <3>4. Owners' \subseteq Threads /\ Owners \subseteq Threads
      BY <1>t, <3>1 DEF Owners, TypeOK
    <3> QED
      BY <1>q, <1>9, <3>1, <3>2, <3>3, <3>4 DEF Unlock
  <2>2. CASE op[t] \in Posts
    BY <1>q, <1>t, <1>9, <2>2 DEF Unlock, Owners, TypeOK
  <2> QED
    BY <1>t, <2>1, <2>2 DEF TypeOK
<1>10. ASSUME NEW t \in Threads, WakeUp(t) PROVE FALSE
  <2>1. pc[t] = "asleep" /\ op[t] \in Waits /\ has' = has /\ op' = op /\ val' = val
    BY <1>t, <1>10 DEF WakeUp, CallsInv
  <2>2. \A u \in Threads \ {t} : pc'[u] = pc[u]
    BY <1>10 DEF WakeUp
  <2>3. pc'[t] = "lock"
    BY <1>t, <1>10 DEF WakeUp, TypeOK
  <2>4. op[t] \notin Posts
    BY <2>1
  <2>5. Owners' = Owners
    BY <2>1, <2>2, <2>3, <2>4 DEF Owners
  <2> QED
    BY <1>q, <2>1, <2>5
<1> QED
  BY <1>1, <1>2, <1>3, <1>4, <1>5, <1>6, <1>7, <1>8, <1>9, <1>10
     DEF Next, Step, SpuriousWakeup, TimedOut

\* bsem_init establishes the invariant.
LEMMA SemInvInit == Init => SemInv
<1> SUFFICES ASSUME Init PROVE SemInv
  OBVIOUS
<1>1. Owners = {}
  BY DEF Init, Owners
<1>2. Cardinality(Owners) = 0
  BY <1>1, FS_EmptySet
<1>3. TypeOK /\ CallsInv
  BY DEF Init, TypeOK, CallsInv, Waits, Posts, Labels
<1>4. At("asleep") = {}
  BY DEF Init, At
<1>5. val + Cardinality(Owners) = 1
  BY <1>2 DEF Init
<1> QED
  BY <1>3, <1>4, <1>5 DEF SemInv, NoLostWakeup, OneOwner

\* The invariant holds in every reachable state.
LEMMA SemInvariant == Spec => []SemInv
<1>1. SemInv /\ [Next]_vars => SemInv'
  BY TypesAndCalls, WakeupNext, OwnerNext DEF SemInv
<1> QED
  BY <1>1, SemInvInit, PTL DEF Spec

\* Every reachable state of the semaphore is well typed: its value is 0 or 1.
THEOREM SemTypes == Spec => []TypeOK
<1>1. SemInv => TypeOK
  BY DEF SemInv
<1> QED
  BY <1>1, SemInvariant, PTL

\* As long as only owners post, bsem.c lets one thread in at a time.
THEOREM SemExcludes == Spec => []OneOwner
<1>1. SemInv => OneOwner
  BY DEF SemInv
<1> QED
  BY <1>1, SemInvariant, PTL

\* Whatever is posted or flushed, no thread sleeps on an available semaphore
\* unless another waiter is awake and about to look at it.
THEOREM SemWakes == Spec => []NoLostWakeup
<1>1. SemInv => NoLostWakeup
  BY DEF SemInv
<1> QED
  BY <1>1, SemInvariant, PTL
=============================================================================
