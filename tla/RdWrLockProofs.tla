-------------------------- MODULE RdWrLockProofs --------------------------
(***************************************************************************)
(* Proofs about the reader-writer lock, for any finite number of threads   *)
(* and any number of timed requests: its semaphores account for what they  *)
(* protect, and it implements the abstract lock.                           *)
(***************************************************************************)
EXTENDS RdWrLock, FiniteSetTheorems, TLAPS

(***************************************************************************)
(* Counting the threads at a set of labels.                                *)
(***************************************************************************)
Number(labels) == Cardinality(At(labels))
One(condition) == IF condition THEN 1 ELSE 0

ReadHeld == {"rd_first", "rd_count", "rd_served", "rd_counted", "rd_failed",
             "rd_giveup", "rx_count", "rx_last", "rx_counted"}
AccessHeld == {"wr_served", "writing"}
CountedAt == {"rd_served", "rd_counted", "reading", "rx_read", "rx_count"}
BetweenAt == {"rd_count", "rx_last"}

\* The threads at any labels are finitely many.
LEMMA AtFinite ==
  ASSUME NEW labels
  PROVE  IsFiniteSet(At(labels)) /\ Number(labels) \in Nat
<1>1. At(labels) \subseteq Threads
  BY DEF At
<1>2. IsFiniteSet(At(labels))
  BY <1>1, ThreadsAssumption, FS_Subset
<1> QED
  BY <1>2, FS_CardinalityType DEF Number

\* A thread at one of the labels makes their number positive, and where the
\* number is one there is no other.
LEMMA AtPositive ==
  ASSUME NEW labels, NEW t \in At(labels)
  PROVE  /\ Number(labels) > 0
         /\ Number(labels) = 1 => At(labels) = {t}
<1>1. IsFiniteSet(At(labels)) /\ Number(labels) \in Nat
  BY AtFinite
<1>2. Number(labels) # 0
  BY <1>1, FS_EmptySet DEF Number
<1>3. ASSUME Number(labels) = 1 PROVE At(labels) = {t}
  <2>1. IsFiniteSet(At(labels) \ {t}) /\ Cardinality(At(labels) \ {t}) = 0
    BY <1>1, <1>3, FS_RemoveElement DEF Number
  <2>2. At(labels) \ {t} = {}
    BY <2>1, FS_EmptySet
  <2> QED
    BY <2>2
<1> QED
  BY <1>1, <1>2, <1>3

\* No thread is at the labels when their number is zero.
LEMMA AtNone ==
  ASSUME NEW labels, Number(labels) = 0
  PROVE  At(labels) = {}
BY AtFinite, FS_EmptySet DEF Number

\* A step of one thread changes the number of threads at some labels by the
\* labels it leaves and reaches.
LEMMA NumberMoves ==
  ASSUME pc \in [Threads -> Labels], NEW t \in Threads, NEW from, NEW to,
         Goto(t, from, to), NEW CONSTANT labels
  PROVE  Number(labels)' = Number(labels) + One(to \in labels) - One(from \in labels)
<1>1. /\ pc[t] = from /\ pc'[t] = to
      /\ \A u \in Threads \ {t} : pc'[u] = pc[u]
  BY DEF Goto
<1>2. /\ IsFiniteSet(At(labels)) /\ Number(labels) \in Nat
  BY AtFinite
<1>3. t \in At(labels) <=> from \in labels
  BY <1>1 DEF At
<1>4. CASE to \in labels
  <2>1. At(labels)' = At(labels) \cup {t}
    BY <1>1, <1>4 DEF At
  <2>2. Cardinality(At(labels) \cup {t}) =
          IF t \in At(labels) THEN Cardinality(At(labels)) ELSE Cardinality(At(labels)) + 1
    BY <1>2, FS_AddElement
  <2> QED
    BY <1>2, <1>3, <1>4, <2>1, <2>2 DEF Number, One
<1>5. CASE to \notin labels
  <2>1. At(labels)' = At(labels) \ {t}
    BY <1>1, <1>5 DEF At
  <2>2. Cardinality(At(labels) \ {t}) =
          IF t \in At(labels) THEN Cardinality(At(labels)) - 1 ELSE Cardinality(At(labels))
    BY <1>2, FS_RemoveElement
  <2> QED
    BY <1>2, <1>3, <1>5, <2>1, <2>2 DEF Number, One
<1> QED
  BY <1>4, <1>5

(***************************************************************************)
(* The inductive invariant: SemaphoresAccounted, and that the counter is 0 *)
(* when the last reader is about to release the resource, for which only   *)
(* the thread that holds read may be between its two updates.              *)
(***************************************************************************)
Idle == \A t \in Threads : pc[t] = "rx_last" => n_readers = 0

\* 1 while the readers have the resource.
Taken == IF n_readers > 0 \/ Number(BetweenAt) > 0 THEN 1 ELSE 0

Accounts ==
  /\ read + Number(ReadHeld) = 1
  /\ access + Number(AccessHeld) + Taken = 1
  /\ n_readers = Number(CountedAt)

LockInv == TypeOK /\ Accounts /\ Idle

\* The count of threads says whether there is one.
LEMMA BetweenCounted ==
  (\E t \in Threads : pc[t] \in {"rd_count", "rx_last"}) <=> Number(BetweenAt) > 0
<1>1. (\E t \in Threads : pc[t] \in {"rd_count", "rx_last"}) <=> At(BetweenAt) # {}
  BY DEF At, BetweenAt
<1>2. IsFiniteSet(At(BetweenAt)) /\ Number(BetweenAt) \in Nat
  BY AtFinite
<1>3. At(BetweenAt) = {} <=> Number(BetweenAt) = 0
  BY <1>2, FS_EmptySet DEF Number
<1> QED
  BY <1>1, <1>2, <1>3

\* The inductive invariant counts what SemaphoresAccounted states.
LEMMA AccountsSemaphores == Accounts <=> SemaphoresAccounted
BY BetweenCounted
   DEF Accounts, SemaphoresAccounted, HoldsRead, HoldsAccess, Counted,
       ReadersHoldAccess, Number, Taken, ReadHeld, AccessHeld, CountedAt

\* rdwrl_init establishes the invariant.
LEMMA LockInvInit == Init => LockInv
<1> SUFFICES ASSUME Init PROVE LockInv
  OBVIOUS
<1>1. TypeOK
  BY MaxTimedWritesAssumption DEF Init, TypeOK, Labels
<1>2. \A labels : "idle" \notin labels => Number(labels) = 0
  BY FS_EmptySet DEF Init, At, Number
<1>3. /\ Number(ReadHeld) = 0 /\ Number(AccessHeld) = 0
      /\ Number(CountedAt) = 0 /\ Number(BetweenAt) = 0
  BY <1>2 DEF ReadHeld, AccessHeld, CountedAt, BetweenAt
<1>4. Accounts
  BY <1>3 DEF Init, Accounts, Taken
<1> QED
  BY <1>1, <1>4 DEF LockInv, Idle, Init

(***************************************************************************)
(* Every step preserves the invariant.                                     *)
(***************************************************************************)
\* A step of one thread, in terms of the four counts of the invariant.
LEMMA CountsMove ==
  ASSUME TypeOK, NEW t \in Threads, NEW from, NEW to, Goto(t, from, to)
  PROVE  /\ Number(ReadHeld)' = Number(ReadHeld) + One(to \in ReadHeld) - One(from \in ReadHeld)
         /\ Number(AccessHeld)' =
              Number(AccessHeld) + One(to \in AccessHeld) - One(from \in AccessHeld)
         /\ Number(CountedAt)' =
              Number(CountedAt) + One(to \in CountedAt) - One(from \in CountedAt)
         /\ Number(BetweenAt)' =
              Number(BetweenAt) + One(to \in BetweenAt) - One(from \in BetweenAt)
         /\ Number(ReadHeld) \in Nat /\ Number(AccessHeld) \in Nat
         /\ Number(CountedAt) \in Nat /\ Number(BetweenAt) \in Nat
<1>1. pc \in [Threads -> Labels]
  BY DEF TypeOK
<1>2. Number(ReadHeld)' = Number(ReadHeld) + One(to \in ReadHeld) - One(from \in ReadHeld)
  BY <1>1, NumberMoves
<1>3. Number(AccessHeld)' = Number(AccessHeld) + One(to \in AccessHeld) - One(from \in AccessHeld)
  BY <1>1, NumberMoves
<1>4. Number(CountedAt)' = Number(CountedAt) + One(to \in CountedAt) - One(from \in CountedAt)
  BY <1>1, NumberMoves
<1>5. Number(BetweenAt)' = Number(BetweenAt) + One(to \in BetweenAt) - One(from \in BetweenAt)
  BY <1>1, NumberMoves
<1> QED
  BY <1>2, <1>3, <1>4, <1>5, AtFinite

\* A thread at one of the labels makes their number positive.
LEMMA CountsPositive ==
  ASSUME NEW t \in Threads
  PROVE  /\ pc[t] \in ReadHeld => Number(ReadHeld) > 0
         /\ pc[t] \in AccessHeld => Number(AccessHeld) > 0
         /\ pc[t] \in CountedAt => Number(CountedAt) > 0
         /\ pc[t] \in BetweenAt => Number(BetweenAt) > 0
BY AtPositive DEF At

\* The semaphore read excludes: one thread at most works on the counter.
LEMMA OneHoldsRead ==
  ASSUME LockInv, NEW t \in Threads, NEW u \in Threads,
         pc[t] \in ReadHeld, pc[u] \in ReadHeld
  PROVE  t = u
<1>1. t \in At(ReadHeld) /\ u \in At(ReadHeld)
  BY DEF At
<1>2. Number(ReadHeld) \in Nat /\ read \in Nat /\ read + Number(ReadHeld) = 1
  BY AtFinite DEF LockInv, TypeOK, Accounts
<1>3. Number(ReadHeld) > 0
  BY <1>1, AtPositive
<1>4. At(ReadHeld) = {t}
  BY <1>1, <1>2, <1>3, AtPositive
<1> QED
  BY <1>1, <1>4

\* Taken is a number.
LEMMA TakenType == Taken \in Nat /\ Taken' \in Nat
BY DEF Taken

\* A step of one thread keeps the invariant when what it does to the
\* semaphores and the counter matches the counts it changes.
LEMMA StepKeepsInv ==
  ASSUME LockInv, NEW t \in Threads, NEW from \in Labels, NEW to \in Labels,
         Goto(t, from, to),
         order' \in Nat, access' \in Nat, read' \in Nat, n_readers' \in Nat,
         timed' \in [Threads -> BOOLEAN], timedWrites' \in 0 .. MaxTimedWrites,
         read' = read + One(from \in ReadHeld) - One(to \in ReadHeld),
         n_readers' = n_readers + One(to \in CountedAt) - One(from \in CountedAt),
         access' + One(to \in AccessHeld) + Taken'
           = access + One(from \in AccessHeld) + Taken,
         n_readers' = n_readers \/ from \in ReadHeld,
         to = "rx_last" => n_readers' = 0
  PROVE  LockInv'
<1>1. TypeOK'
  BY DEF LockInv, TypeOK, Goto
<1>2. Accounts'
  <2>1. TypeOK /\ Accounts
    BY DEF LockInv
  <2>2. /\ Number(ReadHeld)' = Number(ReadHeld) + One(to \in ReadHeld) - One(from \in ReadHeld)
        /\ Number(AccessHeld)' =
             Number(AccessHeld) + One(to \in AccessHeld) - One(from \in AccessHeld)
        /\ Number(CountedAt)' =
             Number(CountedAt) + One(to \in CountedAt) - One(from \in CountedAt)
        /\ Number(ReadHeld) \in Nat /\ Number(AccessHeld) \in Nat /\ Number(CountedAt) \in Nat
    BY <2>1, CountsMove
  <2>3. read' + Number(ReadHeld)' = 1
    BY <2>1, <2>2 DEF TypeOK, Accounts, One
  <2>4. access' + Number(AccessHeld)' + Taken' = 1
    <3>1. /\ access \in Nat /\ Taken \in Nat /\ Taken' \in Nat
          /\ access + Number(AccessHeld) + Taken = 1
      BY <2>1, TakenType DEF TypeOK, Accounts
    <3>2. /\ One(to \in AccessHeld) \in Nat /\ One(from \in AccessHeld) \in Nat
      BY DEF One
    <3> QED
      BY <2>2, <3>1, <3>2
  <2>5. n_readers' = Number(CountedAt)'
    BY <2>1, <2>2 DEF TypeOK, Accounts, One
  <2> QED
    BY <2>3, <2>4, <2>5 DEF Accounts
<1>3. Idle'
  <2> SUFFICES ASSUME NEW u \in Threads, pc'[u] = "rx_last" PROVE n_readers' = 0
    BY DEF Idle
  <2>1. CASE u = t
    BY <2>1 DEF Goto, LockInv, TypeOK
  <2>2. CASE u # t
    <3>1. pc[u] = "rx_last" /\ pc[t] = from
      BY <2>2 DEF Goto, LockInv, TypeOK
    <3>2. from \notin ReadHeld
      BY <2>2, <3>1, OneHoldsRead DEF ReadHeld
    <3> QED
      BY <3>1, <3>2 DEF LockInv, Idle
  <2> QED
    BY <2>1, <2>2
<1> QED
  BY <1>1, <1>2, <1>3 DEF LockInv

\* Every action of the lock preserves the invariant.
LEMMA LockInvNext == LockInv /\ [Next]_vars => LockInv'
<1> SUFFICES ASSUME LockInv, [Next]_vars PROVE LockInv'
  OBVIOUS
<1> USE DEF One, Taken, ReadHeld, AccessHeld, CountedAt
<1>t. /\ order \in Nat /\ access \in Nat /\ read \in Nat /\ n_readers \in Nat
      /\ timed \in [Threads -> BOOLEAN] /\ timedWrites \in 0 .. MaxTimedWrites
      /\ MaxTimedWrites \in Nat
  BY MaxTimedWritesAssumption DEF LockInv, TypeOK
<1>1. CASE UNCHANGED vars
  BY <1>1 DEF LockInv, TypeOK, Accounts, Idle, Number, At, vars
<1>2. ASSUME NEW t \in Threads, ReqRead(t) PROVE LockInv'
  <2>1. Goto(t, "idle", "rd_order")
    BY <1>2 DEF ReqRead, Request
  <2>2. Number(BetweenAt)' = Number(BetweenAt)
    BY <2>1, CountsMove DEF BetweenAt, LockInv
  <2> QED
    BY <1>t, <1>2, <2>1, <2>2, StepKeepsInv DEF ReqRead, Request, Labels, WriteLabels, ReadLabels, ExitLabels
<1>3. ASSUME NEW t \in Threads, ReqWrite(t) PROVE LockInv'
  <2>1. Goto(t, "idle", "wr_order")
    BY <1>3 DEF ReqWrite, Request
  <2>2. Number(BetweenAt)' = Number(BetweenAt)
    BY <2>1, CountsMove DEF BetweenAt, LockInv
  <2> QED
    BY <1>t, <1>3, <2>1, <2>2, StepKeepsInv DEF ReqWrite, Request, Labels, WriteLabels, ReadLabels, ExitLabels
<1>4. ASSUME NEW t \in Threads, TimedReqRead(t) PROVE LockInv'
  <2>1. Goto(t, "idle", "rd_order")
    BY <1>4 DEF TimedReqRead, Request
  <2>2. Number(BetweenAt)' = Number(BetweenAt)
    BY <2>1, CountsMove DEF BetweenAt, LockInv
  <2> QED
    BY <1>t, <1>4, <2>1, <2>2, StepKeepsInv DEF TimedReqRead, Request, Labels, WriteLabels, ReadLabels, ExitLabels
<1>5. ASSUME NEW t \in Threads, TimedReqWrite(t) PROVE LockInv'
  <2>1. Goto(t, "idle", "wr_order")
    BY <1>5 DEF TimedReqWrite, Request
  <2>2. Number(BetweenAt)' = Number(BetweenAt)
    BY <2>1, CountsMove DEF BetweenAt, LockInv
  <2> QED
    BY <1>t, <1>5, <2>1, <2>2, StepKeepsInv DEF TimedReqWrite, Request, Labels, WriteLabels, ReadLabels, ExitLabels
<1>6. ASSUME NEW t \in Threads, WrTakeOrder(t) PROVE LockInv'
  <2>1. Goto(t, "wr_order", "wr_access")
    BY <1>6 DEF WrTakeOrder
  <2>2. Number(BetweenAt)' = Number(BetweenAt) /\ Number(BetweenAt) \in Nat
    BY <2>1, CountsMove DEF BetweenAt, LockInv
  <2> QED
    BY <1>t, <1>6, <2>1, <2>2, StepKeepsInv DEF WrTakeOrder, Untouched, Labels, WriteLabels, ReadLabels, ExitLabels
<1>7. ASSUME NEW t \in Threads, WrOrderTimedOut(t) PROVE LockInv'
  <2>1. Goto(t, "wr_order", "wr_access")
    BY <1>7 DEF WrOrderTimedOut
  <2>2. Number(BetweenAt)' = Number(BetweenAt) /\ Number(BetweenAt) \in Nat
    BY <2>1, CountsMove DEF BetweenAt, LockInv
  <2> QED
    BY <1>t, <1>7, <2>1, <2>2, StepKeepsInv DEF WrOrderTimedOut, Untouched, Labels, WriteLabels, ReadLabels, ExitLabels
<1>8. ASSUME NEW t \in Threads, WrTakeAccess(t) PROVE LockInv'
  <2>1. Goto(t, "wr_access", "wr_served")
    BY <1>8 DEF WrTakeAccess
  <2>2. Number(BetweenAt)' = Number(BetweenAt) /\ Number(BetweenAt) \in Nat
    BY <2>1, CountsMove DEF BetweenAt, LockInv
  <2> QED
    BY <1>t, <1>8, <2>1, <2>2, StepKeepsInv DEF WrTakeAccess, Untouched, Labels, WriteLabels, ReadLabels, ExitLabels
<1>9. ASSUME NEW t \in Threads, WrAccessTimedOut(t) PROVE LockInv'
  <2>1. Goto(t, "wr_access", "wr_failed")
    BY <1>9 DEF WrAccessTimedOut
  <2>2. Number(BetweenAt)' = Number(BetweenAt) /\ Number(BetweenAt) \in Nat
    BY <2>1, CountsMove DEF BetweenAt, LockInv
  <2> QED
    BY <1>t, <1>9, <2>1, <2>2, StepKeepsInv DEF WrAccessTimedOut, Untouched, Labels, WriteLabels, ReadLabels, ExitLabels
<1>10. ASSUME NEW t \in Threads, WrPostOrder(t) PROVE LockInv'
  <2>1. CASE Goto(t, "wr_served", "writing")
    <3>1. Number(BetweenAt)' = Number(BetweenAt) /\ Number(BetweenAt) \in Nat
      BY <2>1, CountsMove DEF BetweenAt, LockInv
    <3> QED
      BY <1>t, <1>10, <2>1, <3>1, StepKeepsInv DEF WrPostOrder, Untouched, Labels, WriteLabels, ReadLabels, ExitLabels
  <2>2. CASE Goto(t, "wr_failed", "idle")
    <3>1. Number(BetweenAt)' = Number(BetweenAt) /\ Number(BetweenAt) \in Nat
      BY <2>2, CountsMove DEF BetweenAt, LockInv
    <3> QED
      BY <1>t, <1>10, <2>2, <3>1, StepKeepsInv DEF WrPostOrder, Untouched, Labels, WriteLabels, ReadLabels, ExitLabels
  <2> QED
    BY <1>10, <2>1, <2>2 DEF WrPostOrder
<1>11. ASSUME NEW t \in Threads, WrExit(t) PROVE LockInv'
  <2>1. Goto(t, "writing", "idle")
    BY <1>11 DEF WrExit
  <2>2. Number(BetweenAt)' = Number(BetweenAt) /\ Number(BetweenAt) \in Nat
    BY <2>1, CountsMove DEF BetweenAt, LockInv
  <2> QED
    BY <1>t, <1>11, <2>1, <2>2, StepKeepsInv DEF WrExit, Untouched, Labels, WriteLabels, ReadLabels, ExitLabels
<1>12. ASSUME NEW t \in Threads, RdTakeOrder(t) PROVE LockInv'
  <2>1. Goto(t, "rd_order", "rd_read")
    BY <1>12 DEF RdTakeOrder
  <2>2. Number(BetweenAt)' = Number(BetweenAt) /\ Number(BetweenAt) \in Nat
    BY <2>1, CountsMove DEF BetweenAt, LockInv
  <2> QED
    BY <1>t, <1>12, <2>1, <2>2, StepKeepsInv DEF RdTakeOrder, Untouched, Labels, WriteLabels, ReadLabels, ExitLabels
<1>13. ASSUME NEW t \in Threads, RdTakeRead(t) PROVE LockInv'
  <2>1. CASE Goto(t, "rd_read", "rd_first")
    <3>1. Number(BetweenAt)' = Number(BetweenAt) /\ Number(BetweenAt) \in Nat
      BY <2>1, CountsMove DEF BetweenAt, LockInv
    <3> QED
      BY <1>t, <1>13, <2>1, <3>1, StepKeepsInv DEF RdTakeRead, Untouched, Labels, WriteLabels, ReadLabels, ExitLabels
  <2>2. CASE Goto(t, "rd_read", "rd_count")
    <3>1. Number(BetweenAt)' = Number(BetweenAt) + 1 /\ Number(BetweenAt) \in Nat
      BY <2>2, CountsMove DEF BetweenAt, LockInv
    <3>2. n_readers > 0
      BY <1>t, <1>13, <2>2 DEF RdTakeRead, Goto, LockInv, TypeOK
    <3> QED
      BY <1>t, <1>13, <2>2, <3>1, <3>2, StepKeepsInv DEF RdTakeRead, Untouched, Labels, WriteLabels, ReadLabels, ExitLabels
  <2> QED
    BY <1>13, <2>1, <2>2 DEF RdTakeRead
<1>14. ASSUME NEW t \in Threads, RdTakeAccess(t) PROVE LockInv'
  <2>1. Goto(t, "rd_first", "rd_count")
    BY <1>14 DEF RdTakeAccess
  <2>2. Number(BetweenAt)' = Number(BetweenAt) + 1 /\ Number(BetweenAt) \in Nat
    BY <2>1, CountsMove DEF BetweenAt, LockInv
  <2>3. access = 1 /\ Taken = 0
    BY <1>t, <1>14, AtFinite, TakenType DEF RdTakeAccess, LockInv, Accounts
  <2> QED
    BY <1>t, <1>14, <2>1, <2>2, <2>3, StepKeepsInv DEF RdTakeAccess, Untouched, Labels, WriteLabels, ReadLabels, ExitLabels
<1>15. ASSUME NEW t \in Threads, RdAccessTimedOut(t) PROVE LockInv'
  <2>1. Goto(t, "rd_first", "rd_failed")
    BY <1>15 DEF RdAccessTimedOut
  <2>2. Number(BetweenAt)' = Number(BetweenAt) /\ Number(BetweenAt) \in Nat
    BY <2>1, CountsMove DEF BetweenAt, LockInv
  <2> QED
    BY <1>t, <1>15, <2>1, <2>2, StepKeepsInv DEF RdAccessTimedOut, Untouched, Labels, WriteLabels, ReadLabels, ExitLabels
<1>16. ASSUME NEW t \in Threads, RdCount(t) PROVE LockInv'
  <2>1. Goto(t, "rd_count", "rd_served")
    BY <1>16 DEF RdCount
  <2>2. Number(BetweenAt)' = Number(BetweenAt) - 1 /\ Number(BetweenAt) \in Nat
    BY <2>1, CountsMove DEF BetweenAt, LockInv
  <2>3. Number(BetweenAt) > 0
    BY <2>1, CountsPositive DEF Goto, BetweenAt
  <2> QED
    BY <1>t, <1>16, <2>1, <2>2, <2>3, StepKeepsInv DEF RdCount, Untouched, Labels, WriteLabels, ReadLabels, ExitLabels
<1>17. ASSUME NEW t \in Threads, RdPostOrder(t) PROVE LockInv'
  <2>1. CASE Goto(t, "rd_served", "rd_counted")
    <3>1. Number(BetweenAt)' = Number(BetweenAt) /\ Number(BetweenAt) \in Nat
      BY <2>1, CountsMove DEF BetweenAt, LockInv
    <3> QED
      BY <1>t, <1>17, <2>1, <3>1, StepKeepsInv DEF RdPostOrder, Untouched, Labels, WriteLabels, ReadLabels, ExitLabels
  <2>2. CASE Goto(t, "rd_failed", "rd_giveup")
    <3>1. Number(BetweenAt)' = Number(BetweenAt) /\ Number(BetweenAt) \in Nat
      BY <2>2, CountsMove DEF BetweenAt, LockInv
    <3> QED
      BY <1>t, <1>17, <2>2, <3>1, StepKeepsInv DEF RdPostOrder, Untouched, Labels, WriteLabels, ReadLabels, ExitLabels
  <2> QED
    BY <1>17, <2>1, <2>2 DEF RdPostOrder
<1>18. ASSUME NEW t \in Threads, RdPostRead(t) PROVE LockInv'
  <2>1. CASE Goto(t, "rd_counted", "reading")
    <3>1. Number(BetweenAt)' = Number(BetweenAt) /\ Number(BetweenAt) \in Nat
      BY <2>1, CountsMove DEF BetweenAt, LockInv
    <3> QED
      BY <1>t, <1>18, <2>1, <3>1, StepKeepsInv DEF RdPostRead, Untouched, Labels, WriteLabels, ReadLabels, ExitLabels
  <2>2. CASE Goto(t, "rd_giveup", "idle")
    <3>1. Number(BetweenAt)' = Number(BetweenAt) /\ Number(BetweenAt) \in Nat
      BY <2>2, CountsMove DEF BetweenAt, LockInv
    <3> QED
      BY <1>t, <1>18, <2>2, <3>1, StepKeepsInv DEF RdPostRead, Untouched, Labels, WriteLabels, ReadLabels, ExitLabels
  <2> QED
    BY <1>18, <2>1, <2>2 DEF RdPostRead
<1>19. ASSUME NEW t \in Threads, RdExit(t) PROVE LockInv'
  <2>1. Goto(t, "reading", "rx_read")
    BY <1>19 DEF RdExit
  <2>2. Number(BetweenAt)' = Number(BetweenAt) /\ Number(BetweenAt) \in Nat
    BY <2>1, CountsMove DEF BetweenAt, LockInv
  <2> QED
    BY <1>t, <1>19, <2>1, <2>2, StepKeepsInv DEF RdExit, Untouched, Labels, WriteLabels, ReadLabels, ExitLabels
<1>20. ASSUME NEW t \in Threads, RxTakeRead(t) PROVE LockInv'
  <2>1. Goto(t, "rx_read", "rx_count")
    BY <1>20 DEF RxTakeRead
  <2>2. Number(BetweenAt)' = Number(BetweenAt) /\ Number(BetweenAt) \in Nat
    BY <2>1, CountsMove DEF BetweenAt, LockInv
  <2> QED
    BY <1>t, <1>20, <2>1, <2>2, StepKeepsInv DEF RxTakeRead, Untouched, Labels, WriteLabels, ReadLabels, ExitLabels
<1>21. ASSUME NEW t \in Threads, RxCount(t) PROVE LockInv'
  <2>c. n_readers > 0 /\ n_readers' = n_readers - 1 /\ pc[t] = "rx_count"
    BY <1>t, <1>21, CountsPositive DEF RxCount, Goto, LockInv, Accounts
  <2>1. CASE n_readers = 1
    <3>1. Goto(t, "rx_count", "rx_last")
      BY <1>21, <2>1 DEF RxCount
    <3>2. Number(BetweenAt)' = Number(BetweenAt) + 1 /\ Number(BetweenAt) \in Nat
      BY <3>1, CountsMove DEF BetweenAt, LockInv
    <3> QED
      BY <1>t, <1>21, <2>c, <2>1, <3>1, <3>2, StepKeepsInv DEF RxCount, Untouched, Labels, WriteLabels, ReadLabels, ExitLabels
  <2>2. CASE n_readers # 1
    <3>1. Goto(t, "rx_count", "rx_counted")
      BY <1>21, <2>2 DEF RxCount
    <3> QED
      BY <1>t, <1>21, <2>c, <2>2, <3>1, StepKeepsInv DEF RxCount, Untouched, Labels, WriteLabels, ReadLabels, ExitLabels
  <2> QED
    BY <2>1, <2>2
<1>22. ASSUME NEW t \in Threads, RxPostAccess(t) PROVE LockInv'
  <2>1. Goto(t, "rx_last", "rx_counted")
    BY <1>22 DEF RxPostAccess
  <2>2. Number(BetweenAt)' = Number(BetweenAt) - 1 /\ Number(BetweenAt) \in Nat
    BY <2>1, CountsMove DEF BetweenAt, LockInv
  <2>3. n_readers = 0 /\ pc[t] = "rx_last"
    BY <1>22 DEF RxPostAccess, Goto, LockInv, Idle
  <2>4. At(BetweenAt) = {t}
    BY <2>3, OneHoldsRead DEF At, BetweenAt
  <2>5. Number(BetweenAt) = 1
    BY <2>4, FS_Singleton DEF Number
  <2> QED
    BY <1>t, <1>22, <2>1, <2>2, <2>3, <2>5, StepKeepsInv DEF RxPostAccess, Untouched, Labels, WriteLabels, ReadLabels, ExitLabels
<1>23. ASSUME NEW t \in Threads, RxPostRead(t) PROVE LockInv'
  <2>1. Goto(t, "rx_counted", "idle")
    BY <1>23 DEF RxPostRead
  <2>2. Number(BetweenAt)' = Number(BetweenAt) /\ Number(BetweenAt) \in Nat
    BY <2>1, CountsMove DEF BetweenAt, LockInv
  <2> QED
    BY <1>t, <1>23, <2>1, <2>2, StepKeepsInv DEF RxPostRead, Untouched, Labels, WriteLabels, ReadLabels, ExitLabels
<1> QED
  BY <1>1, <1>2, <1>3, <1>4, <1>5, <1>6, <1>7, <1>8, <1>9, <1>10, <1>11, <1>12, <1>13, <1>14, <1>15, <1>16, <1>17, <1>18, <1>19, <1>20, <1>21, <1>22, <1>23
     DEF Next, Enter, Leave, ReadExit, TimeOut

\* Every reachable state of the lock is well typed.
THEOREM LockTypes == Spec => []TypeOK
<1>1. Spec => []LockInv
  BY LockInvInit, LockInvNext, PTL DEF Spec
<1>2. LockInv => TypeOK
  BY DEF LockInv
<1> QED
  BY <1>1, <1>2, PTL

\* The semaphores of rdwrlock.c account for the resource and the counter in
\* every reachable state, timeouts included.
THEOREM SemaphoreAccounts == Spec => []SemaphoresAccounted
<1>1. Spec => []LockInv
  BY LockInvInit, LockInvNext, PTL DEF Spec
<1>2. LockInv => SemaphoresAccounted
  BY AccountsSemaphores DEF LockInv
<1> QED
  BY <1>1, <1>2, PTL

(***************************************************************************)
(* The lock implements the abstract lock.                                  *)
(***************************************************************************)
\* Who has the resource for writing has it alone.
LEMMA WriterAlone ==
  ASSUME LockInv, NEW t \in Threads, pc[t] \in AccessHeld
  PROVE  Readers = {} /\ Writers \subseteq {t}
<1>1. /\ Number(AccessHeld) \in Nat /\ access \in Nat /\ Taken \in Nat
      /\ access + Number(AccessHeld) + Taken = 1
  BY AtFinite, TakenType DEF LockInv, TypeOK, Accounts
<1>2. t \in At(AccessHeld)
  BY DEF At
<1>3. Number(AccessHeld) = 1 /\ Taken = 0
  BY <1>1, <1>2, AtPositive
<1>4. Number(CountedAt) = 0
  BY <1>3, AtFinite DEF Taken, LockInv, TypeOK, Accounts
<1>5. At(AccessHeld) = {t} /\ At(CountedAt) = {}
  BY <1>2, <1>3, <1>4, AtPositive, AtNone
<1> QED
  BY <1>5 DEF Readers, Writers, At, AccessHeld, CountedAt

\* While a reader is counted no thread writes.
LEMMA ReaderExcludes ==
  ASSUME LockInv, NEW t \in Threads, pc[t] \in CountedAt
  PROVE  Writers = {}
<1> SUFFICES ASSUME NEW u \in Writers PROVE FALSE
  OBVIOUS
<1>1. u \in Threads /\ pc[u] \in AccessHeld
  BY DEF Writers, At, AccessHeld
<1>2. /\ Number(AccessHeld) \in Nat /\ access \in Nat /\ Taken \in Nat
      /\ access + Number(AccessHeld) + Taken = 1
  BY AtFinite, TakenType DEF LockInv, TypeOK, Accounts
<1>3. Number(AccessHeld) > 0 /\ Number(CountedAt) > 0
  BY <1>1, CountsPositive
<1>4. Taken = 1
  BY <1>3 DEF Taken, LockInv, Accounts
<1> QED
  BY <1>2, <1>3, <1>4

\* A step that neither enters nor leaves a critical section is invisible.
LEMMA QuietStep ==
  ASSUME LockInv, NEW t \in Threads, NEW from, NEW to, Goto(t, from, to),
         from \notin {"reading", "writing"}, to \notin {"reading", "writing"}
  PROVE  UNCHANGED <<Readers, Writers>>
BY DEF Goto, Readers, Writers, At, LockInv, TypeOK

\* Every step of the lock is a step of the abstract lock or invisible to it.
LEMMA LockStep == LockInv /\ [Next]_vars => [Lock!Next]_Lock!vars
<1> SUFFICES ASSUME LockInv, [Next]_vars PROVE [Lock!Next]_Lock!vars
  OBVIOUS
<1>t. pc \in [Threads -> Labels]
  BY DEF LockInv, TypeOK
<1>1. ASSUME UNCHANGED <<Readers, Writers>> PROVE [Lock!Next]_Lock!vars
  BY <1>1 DEF Lock!vars
<1>2. CASE UNCHANGED vars
  BY <1>1, <1>2 DEF vars, Readers, Writers, At
<1>3. ASSUME NEW t \in Threads,
             ReqRead(t) \/ ReqWrite(t) \/ TimedReqRead(t) \/ TimedReqWrite(t)
      PROVE  [Lock!Next]_Lock!vars
  BY <1>1, <1>3, QuietStep DEF ReqRead, ReqWrite, TimedReqRead, TimedReqWrite, Request
<1>4. ASSUME NEW t \in Threads,
             \/ WrTakeOrder(t) \/ WrTakeAccess(t) \/ TimeOut(t)
             \/ RdTakeOrder(t) \/ RdTakeRead(t) \/ RdTakeAccess(t) \/ RdCount(t)
             \/ RdPostOrder(t)
      PROVE  [Lock!Next]_Lock!vars
  BY <1>1, <1>4, QuietStep
     DEF WrTakeOrder, WrTakeAccess, TimeOut, WrOrderTimedOut, WrAccessTimedOut,
         RdAccessTimedOut, RdTakeOrder, RdTakeRead, RdTakeAccess, RdCount, RdPostOrder
<1>5. ASSUME NEW t \in Threads, ReadExit(t) PROVE [Lock!Next]_Lock!vars
  BY <1>1, <1>5, QuietStep DEF ReadExit, RxTakeRead, RxCount, RxPostAccess, RxPostRead
<1>6. ASSUME NEW t \in Threads, WrPostOrder(t) PROVE [Lock!Next]_Lock!vars
  <2>1. CASE Goto(t, "wr_served", "writing")
    <3>1. Readers = {} /\ Writers = {}
      <4>1. pc[t] = "wr_served"
        BY <2>1 DEF Goto
      <4>2. Readers = {} /\ Writers \subseteq {t}
        BY <4>1, WriterAlone DEF AccessHeld
      <4> QED
        BY <4>1, <4>2 DEF Writers, At
    <3>2. Readers' = Readers /\ Writers' = Writers \cup {t}
      BY <1>t, <2>1 DEF Goto, Readers, Writers, At
    <3>3. Lock!EnterWrite(t)
      BY <3>1, <3>2 DEF Lock!EnterWrite
    <3> QED
      BY <3>3 DEF Lock!Next
  <2>2. CASE Goto(t, "wr_failed", "idle")
    BY <1>1, <2>2, QuietStep
  <2> QED
    BY <1>6, <2>1, <2>2 DEF WrPostOrder
<1>7. ASSUME NEW t \in Threads, WrExit(t) PROVE [Lock!Next]_Lock!vars
  <2>1. Goto(t, "writing", "idle")
    BY <1>7 DEF WrExit
  <2>2. t \in Writers /\ Writers' = Writers \ {t} /\ Readers' = Readers
    BY <1>t, <2>1 DEF Goto, Readers, Writers, At
  <2>3. Lock!ExitWrite(t)
    BY <2>2 DEF Lock!ExitWrite
  <2> QED
    BY <2>3 DEF Lock!Next
<1>8. ASSUME NEW t \in Threads, RdPostRead(t) PROVE [Lock!Next]_Lock!vars
  <2>1. CASE Goto(t, "rd_counted", "reading")
    <3>1. pc[t] = "rd_counted"
      BY <2>1 DEF Goto
    <3>2. Writers = {} /\ t \notin Readers
      BY <3>1, ReaderExcludes DEF CountedAt, Readers, At
    <3>3. Readers' = Readers \cup {t} /\ Writers' = Writers
      BY <1>t, <2>1 DEF Goto, Readers, Writers, At
    <3>4. Lock!EnterRead(t)
      BY <3>2, <3>3 DEF Lock!EnterRead
    <3> QED
      BY <3>4 DEF Lock!Next
  <2>2. CASE Goto(t, "rd_giveup", "idle")
    BY <1>1, <2>2, QuietStep
  <2> QED
    BY <1>8, <2>1, <2>2 DEF RdPostRead
<1>9. ASSUME NEW t \in Threads, RdExit(t) PROVE [Lock!Next]_Lock!vars
  <2>1. Goto(t, "reading", "rx_read")
    BY <1>9 DEF RdExit
  <2>2. t \in Readers /\ Readers' = Readers \ {t} /\ Writers' = Writers
    BY <1>t, <2>1 DEF Goto, Readers, Writers, At
  <2>3. Lock!ExitRead(t)
    BY <2>2 DEF Lock!ExitRead
  <2> QED
    BY <2>3 DEF Lock!Next
<1> QED
  BY <1>2, <1>3, <1>4, <1>5, <1>6, <1>7, <1>8, <1>9 DEF Next, Enter, Leave

\* The three semaphores implement a reader-writer lock: many readers or one
\* writer inside, whatever requests, exits and timeouts interleave.
THEOREM LockImplementation == Spec => ImplementsLock
<1>1. Spec => []LockInv
  BY LockInvInit, LockInvNext, PTL DEF Spec
<1>2. Init => Lock!Init
  BY DEF Init, Lock!Init, Readers, Writers, At
<1> QED
  BY <1>1, <1>2, LockStep, PTL DEF Spec, ImplementsLock, Lock!Spec
=============================================================================
