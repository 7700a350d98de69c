------------------------------ MODULE RdWrLock ------------------------------
(***************************************************************************)
(* The fair reader-writer lock of src/src/multithread/rdwrlock.c: three    *)
(* semaphores, order (the queue of waiters), access (the resource) and     *)
(* read (protects n_readers).  Every semaphore operation is a step; the    *)
(* counter is updated in a step of its own, under read.                    *)
(*                                                                         *)
(* Untimed waits are not interrupted by signals here: the code would go on *)
(* without the semaphore and n_readers would be a data race.  What such a  *)
(* failed wait does is modelled in PCQueue and MPool.                      *)
(***************************************************************************)
EXTENDS Naturals, FiniteSets

CONSTANTS
  Threads,         \* the threads that use the lock
  TimedWriters,    \* those of them that request write access with a timeout
  TimedReaders,    \* those of them that request read access with a timeout
  MaxTimedWrites   \* how many timed write requests are made in all

ASSUME ThreadsAssumption ==
  /\ IsFiniteSet(Threads)
  /\ TimedWriters \subseteq Threads /\ TimedReaders \subseteq Threads
ASSUME MaxTimedWritesAssumption == MaxTimedWrites \in Nat

VARIABLES
  order, access, read,  \* the semaphores
  n_readers,            \* rdwr->n_readers
  pc,                   \* where each thread is
  timed,                \* whether its current request has a timeout
  timedWrites           \* how many timed write requests were made

vars == <<order, access, read, n_readers, pc, timed, timedWrites>>

\* Each label names the next semaphore or counter operation of the thread.
WriteLabels == {"wr_order", "wr_access", "wr_served", "wr_failed", "writing"}
ReadLabels == {"rd_order", "rd_read", "rd_first", "rd_count", "rd_served",
               "rd_counted", "rd_failed", "rd_giveup", "reading"}
ExitLabels == {"rx_read", "rx_count", "rx_last", "rx_counted"}
Labels == {"idle"} \cup WriteLabels \cup ReadLabels \cup ExitLabels

\* rdwrl_init
Init ==
  /\ order = 1 /\ access = 1 /\ read = 1
  /\ n_readers = 0
  /\ pc = [t \in Threads |-> "idle"]
  /\ timed = [t \in Threads |-> FALSE]
  /\ timedWrites = 0

Goto(t, from, to) == pc[t] = from /\ pc' = [pc EXCEPT ![t] = to]

Untouched == UNCHANGED <<timed, timedWrites>>

-----------------------------------------------------------------------------
(* rdwrl_req and rdwrl_timedreq: the scope and the timeout of the caller.  *)

Request(t, label, withTimeout) ==
  /\ Goto(t, "idle", label)
  /\ timed' = [timed EXCEPT ![t] = withTimeout]
  /\ UNCHANGED <<order, access, read, n_readers>>

ReqRead(t) == Request(t, "rd_order", FALSE) /\ UNCHANGED timedWrites
ReqWrite(t) == Request(t, "wr_order", FALSE) /\ UNCHANGED timedWrites
TimedReqRead(t) ==
  t \in TimedReaders /\ Request(t, "rd_order", TRUE) /\ UNCHANGED timedWrites
TimedReqWrite(t) ==
  /\ t \in TimedWriters /\ timedWrites < MaxTimedWrites
  /\ Request(t, "wr_order", TRUE)
  /\ timedWrites' = timedWrites + 1

-----------------------------------------------------------------------------
(* rdwrl_wr_enter, rdwrl_wr_timed_enter and rdwrl_wr_exit.                 *)

WrTakeOrder(t) ==
  /\ Goto(t, "wr_order", "wr_access")
  /\ order > 0 /\ order' = order - 1
  /\ Untouched /\ UNCHANGED <<access, read, n_readers>>

\* The status of the timed wait for order is ignored.
WrOrderTimedOut(t) ==
  /\ timed[t] /\ order = 0 /\ Goto(t, "wr_order", "wr_access")
  /\ Untouched /\ UNCHANGED <<order, access, read, n_readers>>

WrTakeAccess(t) ==
  /\ Goto(t, "wr_access", "wr_served")
  /\ access > 0 /\ access' = access - 1
  /\ Untouched /\ UNCHANGED <<order, read, n_readers>>

WrAccessTimedOut(t) ==
  /\ timed[t] /\ access = 0 /\ Goto(t, "wr_access", "wr_failed")
  /\ Untouched /\ UNCHANGED <<order, access, read, n_readers>>

\* Mutant of WrPostOrder: the writer keeps its place in line.
WrKeepsOrder(t) ==
  /\ \/ Goto(t, "wr_served", "writing")
     \/ Goto(t, "wr_failed", "idle")
  /\ Untouched /\ UNCHANGED <<order, access, read, n_readers>>

\* The place in line is given back whether it was taken or not.
WrPostOrder(t) ==
  /\ \/ Goto(t, "wr_served", "writing")
     \/ Goto(t, "wr_failed", "idle")
  /\ order' = order + 1
  /\ Untouched /\ UNCHANGED <<access, read, n_readers>>

WrExit(t) ==
  /\ Goto(t, "writing", "idle")
  /\ access' = access + 1
  /\ Untouched /\ UNCHANGED <<order, read, n_readers>>

-----------------------------------------------------------------------------
(* rdwrl_rd_enter and rdwrl_rd_timed_enter.                                *)

RdTakeOrder(t) ==
  /\ Goto(t, "rd_order", "rd_read")
  /\ order > 0 /\ order' = order - 1
  /\ Untouched /\ UNCHANGED <<access, read, n_readers>>

\* Mutant of RdTakeRead: the test of the first reader is inverted.
RdTakeReadInverted(t) ==
  /\ \/ n_readers # 0 /\ Goto(t, "rd_read", "rd_first")
     \/ n_readers = 0 /\ Goto(t, "rd_read", "rd_count")
  /\ read > 0 /\ read' = read - 1
  /\ Untouched /\ UNCHANGED <<order, access, n_readers>>

\* The first reader goes on to wait for access, the others just count.
RdTakeRead(t) ==
  /\ \/ n_readers = 0 /\ Goto(t, "rd_read", "rd_first")
     \/ n_readers # 0 /\ Goto(t, "rd_read", "rd_count")
  /\ read > 0 /\ read' = read - 1
  /\ Untouched /\ UNCHANGED <<order, access, n_readers>>

RdTakeAccess(t) ==
  /\ Goto(t, "rd_first", "rd_count")
  /\ access > 0 /\ access' = access - 1
  /\ Untouched /\ UNCHANGED <<order, read, n_readers>>

RdAccessTimedOut(t) ==
  /\ timed[t] /\ access = 0 /\ Goto(t, "rd_first", "rd_failed")
  /\ Untouched /\ UNCHANGED <<order, access, read, n_readers>>

\* Mutant of RdCount: the reader is not counted.
RdNotCounted(t) ==
  /\ Goto(t, "rd_count", "rd_served")
  /\ Untouched /\ UNCHANGED <<order, access, read, n_readers>>

RdCount(t) ==
  /\ Goto(t, "rd_count", "rd_served")
  /\ n_readers' = n_readers + 1
  /\ Untouched /\ UNCHANGED <<order, access, read>>

RdPostOrder(t) ==
  /\ \/ Goto(t, "rd_served", "rd_counted")
     \/ Goto(t, "rd_failed", "rd_giveup")
  /\ order' = order + 1
  /\ Untouched /\ UNCHANGED <<access, read, n_readers>>

RdPostRead(t) ==
  /\ \/ Goto(t, "rd_counted", "reading")
     \/ Goto(t, "rd_giveup", "idle")
  /\ read' = read + 1
  /\ Untouched /\ UNCHANGED <<order, access, n_readers>>

-----------------------------------------------------------------------------
(* rdwrl_rd_exit: it starts when the reader leaves its critical section.   *)

RdExit(t) ==
  /\ Goto(t, "reading", "rx_read")
  /\ Untouched /\ UNCHANGED <<order, access, read, n_readers>>

RxTakeRead(t) ==
  /\ Goto(t, "rx_read", "rx_count")
  /\ read > 0 /\ read' = read - 1
  /\ Untouched /\ UNCHANGED <<order, access, n_readers>>

RxCount(t) ==
  /\ n_readers' = n_readers - 1
  /\ Goto(t, "rx_count", IF n_readers = 1 THEN "rx_last" ELSE "rx_counted")
  /\ Untouched /\ UNCHANGED <<order, access, read>>

\* The last reader releases the resource.
RxPostAccess(t) ==
  /\ Goto(t, "rx_last", "rx_counted")
  /\ access' = access + 1
  /\ Untouched /\ UNCHANGED <<order, read, n_readers>>

RxPostRead(t) ==
  /\ Goto(t, "rx_counted", "idle")
  /\ read' = read + 1
  /\ Untouched /\ UNCHANGED <<order, access, n_readers>>

-----------------------------------------------------------------------------
Enter(t) ==
  \/ WrTakeOrder(t) \/ WrTakeAccess(t) \/ WrPostOrder(t)
  \/ RdTakeOrder(t) \/ RdTakeRead(t) \/ RdTakeAccess(t) \/ RdCount(t)
  \/ RdPostOrder(t) \/ RdPostRead(t)
Leave(t) == WrExit(t) \/ RdExit(t)
ReadExit(t) == RxTakeRead(t) \/ RxCount(t) \/ RxPostAccess(t) \/ RxPostRead(t)
TimeOut(t) == WrOrderTimedOut(t) \/ WrAccessTimedOut(t) \/ RdAccessTimedOut(t)

Next == \E t \in Threads :
          \/ ReqRead(t) \/ ReqWrite(t) \/ TimedReqRead(t) \/ TimedReqWrite(t)
          \/ Enter(t) \/ Leave(t) \/ ReadExit(t) \/ TimeOut(t)

Spec == Init /\ [][Next]_vars

\* Threads that can run do, a timed wait ends one way or the other, and no
\* semaphore passes a waiting thread over forever: the lock cannot be fairer
\* than its semaphores.  A thread is at one label, so that strong fairness
\* of all its steps together is strong fairness of the one it waits to take.
\* The callers leave their critical sections.
FairSpec ==
  Spec /\ \A t \in Threads : SF_vars(Enter(t) \/ ReadExit(t) \/ TimeOut(t) \/ Leave(t))

-----------------------------------------------------------------------------
(* Properties.                                                             *)

\* Every variable has its type.
TypeOK ==
  /\ order \in Nat /\ access \in Nat /\ read \in Nat /\ n_readers \in Nat
  /\ pc \in [Threads -> Labels]
  /\ timed \in [Threads -> BOOLEAN]
  /\ timedWrites \in 0 .. MaxTimedWrites

At(labels) == {t \in Threads : pc[t] \in labels}

Writers == At({"writing"})
Readers == At({"reading"})

\* One writer or any number of readers, in every interleaving of requests,
\* exits and timeouts.
Lock == INSTANCE RWLockSpec WITH readers <- Readers, writers <- Writers
ImplementsLock == Lock!Spec

\* The threads between the wait for a semaphore and its post, and those the
\* counter counts.
HoldsRead == At({"rd_first", "rd_count", "rd_served", "rd_counted",
                 "rd_failed", "rd_giveup", "rx_count", "rx_last", "rx_counted"})
HoldsAccess == At({"wr_served", "writing"})
Counted == At({"rd_served", "rd_counted", "reading", "rx_read", "rx_count"})
ReadersHoldAccess ==
  n_readers > 0 \/ \E t \in Threads : pc[t] \in {"rd_count", "rx_last"}

\* The semaphores account for the resource: access is taken by one writer
\* or by the readers together, from the first reader's wait to the last
\* one's post; read is held by the thread that works on the counter; and
\* the counter is the number of readers between their two updates of it.
SemaphoresAccounted ==
  /\ read + Cardinality(HoldsRead) = 1
  /\ access + Cardinality(HoldsAccess) + (IF ReadersHoldAccess THEN 1 ELSE 0) = 1
  /\ n_readers = Cardinality(Counted)

\* As long as nobody requests write access with a timeout, every request
\* that is not timed is served: the line is fair to readers and writers.
LineIsFair ==
  \A t \in Threads : pc[t] \in {"wr_order", "rd_order"} /\ ~timed[t] ~>
    pc[t] \in {"writing", "reading"} \/ timedWrites > 0

\* "Fair reader-writer lock that guarantees that neither readers nor writers
\* will starve", without exception.
WritersServed ==
  \A t \in Threads : pc[t] = "wr_order" /\ ~timed[t] ~> pc[t] = "writing"
=============================================================================
