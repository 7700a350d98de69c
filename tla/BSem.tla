-------------------------------- MODULE BSem --------------------------------
(***************************************************************************)
(* The binary semaphore of src/src/multithread/bsem.c: a value guarded by  *)
(* the mutex of mutex.c and the condition variable of condv.c.  A thread   *)
(* that waits on the condition variable gives up the mutex, wakes when it  *)
(* is signalled, when its timeout expires or for no reason at all, and     *)
(* then locks the mutex again and looks at the value once more.            *)
(***************************************************************************)
EXTENDS Naturals, FiniteSets

CONSTANTS
  Threads,    \* the threads that wait and give back what they got
  Strangers,  \* those of them that also post or flush what they did not get
  NoThread    \* holds the mutex when no thread does

ASSUME ThreadsAssumption ==
  /\ IsFiniteSet(Threads) /\ NoThread \notin Threads
  /\ Strangers \subseteq Threads

VARIABLES
  val,     \* sem->val
  mtx,     \* the thread that holds sem->mtx, or NoThread
  pc, op,  \* where each thread is, and in which function
  has,     \* the threads whose wait returned and that did not post since
  stray    \* whether a thread posted or flushed what it did not have

vars == <<val, mtx, pc, op, has, stray>>

Waits == {"wait", "timedwait"}
Posts == {"post", "flush"}
Labels == {"idle", "lock", "check", "asleep", "unlock"}

\* bsem_init: the semaphore is available.
Init ==
  /\ val = 1
  /\ mtx = NoThread
  /\ pc = [t \in Threads |-> "idle"]
  /\ op = [t \in Threads |-> "wait"]
  /\ has = {}
  /\ stray = FALSE

At(label) == {t \in Threads : pc[t] = label}

-----------------------------------------------------------------------------
(* The calls.                                                              *)

Call(t, o) ==
  /\ pc[t] = "idle"
  /\ pc' = [pc EXCEPT ![t] = "lock"]
  /\ op' = [op EXCEPT ![t] = o]
  /\ UNCHANGED <<val, mtx>>

CallWait(t) ==
  /\ t \notin has
  /\ \E o \in Waits : Call(t, o)
  /\ UNCHANGED <<has, stray>>

CallPost(t) ==
  /\ t \in has \cup Strangers
  /\ \E o \in Posts : Call(t, o)
  /\ has' = has \ {t}
  /\ stray' = (stray \/ t \notin has)

-----------------------------------------------------------------------------
(* Under the mutex.                                                        *)

Lock(t) ==
  /\ pc[t] = "lock" /\ mtx = NoThread
  /\ mtx' = t
  /\ pc' = [pc EXCEPT ![t] = "check"]
  /\ UNCHANGED <<val, op, has, stray>>

\* Mutant of Take: the value stays 1.
TakeNothing(t) ==
  /\ pc[t] = "check" /\ op[t] \in Waits
  /\ val # 0
  /\ pc' = [pc EXCEPT ![t] = "unlock"]
  /\ UNCHANGED <<val, mtx, op, has, stray>>

Take(t) ==
  /\ pc[t] = "check" /\ op[t] \in Waits
  /\ val # 0
  /\ val' = val - 1
  /\ pc' = [pc EXCEPT ![t] = "unlock"]
  /\ UNCHANGED <<mtx, op, has, stray>>

\* condv_wait and condv_timedwait: sleep and give up the mutex at once.
Sleep(t) ==
  /\ pc[t] = "check" /\ op[t] \in Waits
  /\ val = 0
  /\ mtx' = NoThread
  /\ pc' = [pc EXCEPT ![t] = "asleep"]
  /\ UNCHANGED <<val, op, has, stray>>

\* Mutant of Woken: a post signals nobody.
WokenByFlush(t) == IF op[t] = "flush" THEN {At("asleep")} ELSE {{}}

\* condv_signal wakes one sleeper, if there is one, condv_broadcast all.
Woken(t) ==
  IF op[t] = "flush" THEN {At("asleep")}
  ELSE {{s} : s \in At("asleep")} \cup {S \in {{}} : At("asleep") = {}}

Raise(t) ==
  /\ pc[t] = "check" /\ op[t] \in Posts
  /\ val # 1
  /\ val' = val + 1
  /\ \E awake \in Woken(t) :
       pc' = [s \in Threads |-> IF s = t THEN "unlock"
                                ELSE IF s \in awake THEN "lock" ELSE pc[s]]
  /\ UNCHANGED <<mtx, op, has, stray>>

\* A post or a flush of a semaphore that is available fails and leaves the
\* function without giving up the mutex.
Refuse(t) ==
  /\ pc[t] = "check" /\ op[t] \in Posts
  /\ val = 1
  /\ pc' = [pc EXCEPT ![t] = "idle"]
  /\ UNCHANGED <<val, mtx, op, has, stray>>

Unlock(t) ==
  /\ pc[t] = "unlock"
  /\ mtx' = NoThread
  /\ pc' = [pc EXCEPT ![t] = "idle"]
  /\ has' = IF op[t] \in Waits THEN has \cup {t} ELSE has
  /\ UNCHANGED <<val, op, stray>>

-----------------------------------------------------------------------------
\* A sleeper wakes without a signal; the loop of the wait starts again.
WakeUp(t) ==
  /\ pc[t] = "asleep"
  /\ pc' = [pc EXCEPT ![t] = "lock"]
  /\ UNCHANGED <<val, mtx, op, has, stray>>

SpuriousWakeup(t) == op[t] = "wait" /\ WakeUp(t)
TimedOut(t) == op[t] = "timedwait" /\ WakeUp(t)

Step(t) == Lock(t) \/ Take(t) \/ Sleep(t) \/ Raise(t) \/ Refuse(t) \/ Unlock(t)

Next == \E t \in Threads :
          \/ CallWait(t) \/ CallPost(t)
          \/ SpuriousWakeup(t) \/ TimedOut(t)
          \/ Step(t)

Spec == Init /\ [][Next]_vars

\* Threads that can run do, the mutex passes no thread over forever, and
\* timeouts expire.  No thread need call anything.
FairSpec ==
  Spec /\ \A t \in Threads : WF_vars(Step(t) \/ TimedOut(t)) /\ SF_vars(Lock(t))

-----------------------------------------------------------------------------
(* Properties.                                                             *)

\* Every variable has its type.
TypeOK ==
  /\ val \in {0, 1}
  /\ mtx \in Threads \cup {NoThread}
  /\ pc \in [Threads -> Labels]
  /\ op \in [Threads -> Waits \cup Posts]
  /\ has \subseteq Threads
  /\ stray \in BOOLEAN

\* Threads that took the semaphore and did not give it back.
Owners ==
  has \cup {t \in Threads : \/ pc[t] = "unlock" /\ op[t] \in Waits
                            \/ pc[t] \in {"lock", "check"} /\ op[t] \in Posts}

\* The semaphore is available or exactly one thread has it, whichever way
\* waits, posts, flushes, timeouts and spurious wakeups interleave, as long
\* as only the thread that has the semaphore gives it back.
OneOwner == ~stray => val + Cardinality(Owners) = 1

\* No wakeup is lost: when the semaphore is available and a thread sleeps,
\* some other waiting thread is awake and will look at the value.
NoLostWakeup ==
  val = 1 /\ At("asleep") # {} =>
    \E t \in Threads : pc[t] \in {"lock", "check"} /\ op[t] \in Waits

Waiting(t) == op[t] \in Waits /\ pc[t] \in {"lock", "check", "asleep"}

\* bsem_wait is to "block on binary semaphore until it becomes available":
\* as long as only the thread that has the semaphore gives it back, no thread
\* waits forever while it stays available.
WaitEndsWhenAvailable ==
  \A t \in Threads : Waiting(t) /\ val = 1 ~> ~Waiting(t) \/ val = 0 \/ stray

\* "Block on binary semaphore until it becomes available", whoever posted before.
WaitEnds == \A t \in Threads : Waiting(t) /\ val = 1 ~> ~Waiting(t) \/ val = 0
=============================================================================
