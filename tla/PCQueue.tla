------------------------------ MODULE PCQueue ------------------------------
(***************************************************************************)
(* The producer-consumer queue of src/src/multithread/pcqueue.c: a FIFO    *)
(* over a ring buffer, a mutex around it and two counting semaphores,      *)
(* slots_avail and slots_inuse, that make producers and consumers wait.    *)
(*                                                                         *)
(* Every call of a semaphore or mutex operation is a step of its own, so   *)
(* that the threads interleave wherever the code can be preempted.  What   *)
(* runs under the mutex touches the FIFO alone and is one step.            *)
(*                                                                         *)
(* sem_wait() fails when a signal handler interrupts it, and csem_wait()'s *)
(* status is ignored here: MaxInterrupts bounds how often that happens.    *)
(***************************************************************************)
EXTENDS RBuffer, FiniteSets

CONSTANTS
  Producers, Consumers,  \* threads that push, threads that pop and peek
  NoThread,              \* holds the mutex when no thread does
  MaxInterrupts          \* how many untimed waits a signal may cut short

ASSUME ThreadsAssumption ==
  /\ IsFiniteSet(Producers) /\ IsFiniteSet(Consumers)
  /\ Producers \cap Consumers = {}
  /\ NoThread \notin Producers \cup Consumers
ASSUME MaxInterruptsAssumption == MaxInterrupts \in Nat

VARIABLES
  fifo,         \* queue->fifo.rb
  slots_avail,  \* queue->slots_avail
  slots_inuse,  \* queue->slots_inuse
  mutex,        \* the thread that holds queue->mutex, or NoThread
  pc, op,       \* where each thread is, and in which function
  elt,          \* the element a thread pushes, pops or reads with peek
  ptr,          \* the slot a thread's last peek points to, until a pop
  rval,         \* the status of the FIFO operation of the current call
  interrupts    \* how many waits were cut short so far

vars == <<fifo, slots_avail, slots_inuse, mutex, pc, op, elt, ptr, rval,
          interrupts>>

Threads == Producers \cup Consumers
Null == MaxElts  \* no slot has this index: the NULL pointer of peek

Pops == {"pop", "timedpop"}
Peeks == {"peek", "timedpeek"}
Timed == {"timedpop", "timedpeek"}
Operations == {"push"} \cup Pops \cup Peeks
Labels == {"idle", "wait", "lock", "body", "unlock", "post"}

\* pcqueue_init: all slots are available.
Init ==
  /\ fifo = EmptyRing
  /\ slots_avail = MaxElts
  /\ slots_inuse = 0
  /\ mutex = NoThread
  /\ pc = [t \in Threads |-> "idle"]
  /\ op = [t \in Threads |-> IF t \in Producers THEN "push" ELSE "pop"]
  /\ elt = [t \in Threads |-> Unset]
  /\ ptr = [t \in Threads |-> Null]
  /\ rval = [t \in Threads |-> "OK"]
  /\ interrupts = 0

Goto(t, from, to) == pc[t] = from /\ pc' = [pc EXCEPT ![t] = to]

-----------------------------------------------------------------------------
(* The calls an application makes.                                         *)

Call(t, o, e) ==
  /\ Goto(t, "idle", "wait")
  /\ op' = [op EXCEPT ![t] = o]
  /\ elt' = [elt EXCEPT ![t] = e]
  /\ rval' = [rval EXCEPT ![t] = "OK"]
  /\ UNCHANGED <<fifo, slots_avail, slots_inuse, mutex, ptr, interrupts>>

CallPush(t) == t \in Producers /\ \E e \in Elts : Call(t, "push", e)
CallPop(t) == t \in Consumers /\ \E o \in Pops : Call(t, o, Unset)
CallPeek(t) == t \in Consumers /\ \E o \in Peeks : Call(t, o, Unset)

-----------------------------------------------------------------------------
(* csem_wait() and csem_timedwait() at the head of every operation.        *)

WaitAvail(t) ==
  /\ op[t] = "push"
  /\ slots_avail > 0
  /\ slots_avail' = slots_avail - 1
  /\ Goto(t, "wait", "lock")
  /\ UNCHANGED <<fifo, slots_inuse, mutex, op, elt, ptr, rval, interrupts>>

\* Mutant of WaitInuse: the wait does not take the token it found.
WaitInuseKeepsToken(t) ==
  /\ op[t] # "push"
  /\ slots_inuse > 0
  /\ Goto(t, "wait", "lock")
  /\ UNCHANGED <<fifo, slots_avail, slots_inuse, mutex, op, elt, ptr, rval, interrupts>>

WaitInuse(t) ==
  /\ op[t] # "push"
  /\ slots_inuse > 0
  /\ slots_inuse' = slots_inuse - 1
  /\ Goto(t, "wait", "lock")
  /\ UNCHANGED <<fifo, slots_avail, mutex, op, elt, ptr, rval, interrupts>>

\* A wait can fail only when it blocks: its semaphore is 0.
Blocks(t) == IF op[t] = "push" THEN slots_avail = 0 ELSE slots_inuse = 0

\* The untimed wait fails with EINTR and the operation goes on regardless.
Interrupted(t) ==
  /\ op[t] \notin Timed
  /\ Blocks(t)
  /\ interrupts < MaxInterrupts
  /\ interrupts' = interrupts + 1
  /\ Goto(t, "wait", "lock")
  /\ UNCHANGED <<fifo, slots_avail, slots_inuse, mutex, op, elt, ptr, rval>>

\* The error path of the timed operations; timedpeek fills in NULL.
TimedOut(t) ==
  /\ op[t] \in Timed
  /\ Blocks(t)
  /\ Goto(t, "wait", "idle")
  /\ rval' = [rval EXCEPT ![t] = "ERROR"]
  /\ ptr' = IF op[t] = "timedpeek" THEN [ptr EXCEPT ![t] = Null] ELSE ptr
  /\ UNCHANGED <<fifo, slots_avail, slots_inuse, mutex, op, elt, interrupts>>

-----------------------------------------------------------------------------
(* The critical section.                                                   *)

Lock(t) ==
  /\ mutex = NoThread
  /\ mutex' = t
  /\ Goto(t, "lock", "body")
  /\ UNCHANGED <<fifo, slots_avail, slots_inuse, op, elt, ptr, rval, interrupts>>

\* fifo_add: refused when the ring buffer is full.
Add(t) ==
  /\ op[t] = "push"
  /\ Goto(t, "body", "unlock")
  /\ \/ RingIsFull(fifo)
        /\ rval' = [rval EXCEPT ![t] = "ERROR"]
        /\ UNCHANGED fifo
     \/ ~RingIsFull(fifo)
        /\ rval' = [rval EXCEPT ![t] = "OK"]
        /\ fifo' = RingAdd(fifo, elt[t])
  /\ UNCHANGED <<slots_avail, slots_inuse, mutex, op, elt, ptr, interrupts>>

\* fifo_remove: refused when the ring buffer is empty.  The element that
\* peeks pointed at is gone.
Remove(t) ==
  /\ op[t] \in Pops
  /\ Goto(t, "body", "unlock")
  /\ \/ RingIsEmpty(fifo)
        /\ rval' = [rval EXCEPT ![t] = "ERROR"]
        /\ UNCHANGED <<fifo, elt, ptr>>
     \/ ~RingIsEmpty(fifo)
        /\ rval' = [rval EXCEPT ![t] = "OK"]
        /\ elt' = [elt EXCEPT ![t] = RingFront(fifo)]
        /\ fifo' = RingRemove(fifo)
        /\ ptr' = [u \in Threads |-> Null]
  /\ UNCHANGED <<slots_avail, slots_inuse, mutex, op, interrupts>>

\* fifo_front: a pointer into the ring buffer, NULL when it is empty.
Front(t) ==
  /\ op[t] \in Peeks
  /\ Goto(t, "body", "unlock")
  /\ \/ RingIsEmpty(fifo)
        /\ ptr' = [ptr EXCEPT ![t] = Null]
        /\ UNCHANGED elt
     \/ ~RingIsEmpty(fifo)
        /\ ptr' = [ptr EXCEPT ![t] = fifo.start]
        /\ elt' = [elt EXCEPT ![t] = RingFront(fifo)]
  /\ rval' = [rval EXCEPT ![t] = "OK"]
  /\ UNCHANGED <<fifo, slots_avail, slots_inuse, mutex, op, interrupts>>

\* Mutant of MustPost: the timed operations and the peeks do not post.
MustPostUntimedOnly(t) == op[t] \in {"push", "pop"} /\ rval[t] = "OK"

\* push and pop post only when the FIFO accepted the operation; timedpop
\* and the peeks always post.
MustPost(t) == op[t] \in {"push", "pop"} => rval[t] = "OK"

Unlock(t) ==
  /\ mutex' = NoThread
  /\ Goto(t, "unlock", IF MustPost(t) THEN "post" ELSE "idle")
  /\ UNCHANGED <<fifo, slots_avail, slots_inuse, op, elt, ptr, rval, interrupts>>

\* A pop frees a slot.
PostAvail(t) ==
  /\ op[t] \in Pops
  /\ slots_avail' = slots_avail + 1
  /\ Goto(t, "post", "idle")
  /\ UNCHANGED <<fifo, slots_inuse, mutex, op, elt, ptr, rval, interrupts>>

\* A push fills a slot; a peek gives back the token it took.
PostInuse(t) ==
  /\ op[t] \notin Pops
  /\ slots_inuse' = slots_inuse + 1
  /\ Goto(t, "post", "idle")
  /\ UNCHANGED <<fifo, slots_avail, mutex, op, elt, ptr, rval, interrupts>>

-----------------------------------------------------------------------------
Wait(t) == WaitAvail(t) \/ WaitInuse(t)
Critical(t) == Lock(t) \/ Add(t) \/ Remove(t) \/ Front(t) \/ Unlock(t)
Post(t) == PostAvail(t) \/ PostInuse(t)
Step(t) == Wait(t) \/ Critical(t) \/ Post(t)

Next == \E t \in Threads :
          \/ CallPush(t) \/ CallPop(t) \/ CallPeek(t)
          \/ Interrupted(t) \/ TimedOut(t)
          \/ Step(t)

Spec == Init /\ [][Next]_vars

\* The scheduler runs every thread that can run, and no thread waiting for
\* the mutex is passed over forever.  Nothing obliges an application to call
\* the queue, no timeout need expire, and a semaphore may prefer any of the
\* threads that wait for it.
FairSpec == Spec /\ \A t \in Threads : WF_vars(Step(t)) /\ SF_vars(Lock(t))

-----------------------------------------------------------------------------
(* Properties.                                                             *)

\* Every variable has its type.
TypeOK ==
  /\ fifo \in RingBuffers
  /\ slots_avail \in Nat /\ slots_inuse \in Nat
  /\ mutex \in Threads \cup {NoThread}
  /\ pc \in [Threads -> Labels]
  /\ op \in [Threads -> Operations]
  /\ elt \in [Threads -> Elts \cup {Unset}]
  /\ ptr \in [Threads -> Slots \cup {Null}]
  /\ rval \in [Threads -> {"OK", "ERROR"}]
  /\ interrupts \in 0 .. MaxInterrupts
  /\ \A t \in Threads : op[t] = "push" <=> t \in Producers

At(labels, ops) == {t \in Threads : pc[t] \in labels /\ op[t] \in ops}

\* Threads that hold a token of slots_avail they took or owe it one, and
\* threads that hold a token of slots_inuse or owe it one.
AvailHolders == At({"lock", "body"}, {"push"}) \cup At({"unlock", "post"}, Pops)
InuseHolders == At({"lock", "body"}, Pops) \cup At({"unlock", "post"}, {"push"})
                \cup At({"lock", "body", "unlock", "post"}, Peeks)

\* No slot is lost or counted twice: as long as no signal cut a wait short,
\* the free slots are those slots_avail counts plus one for each thread
\* between its wait and its effect on the queue, and the elements are those
\* slots_inuse counts likewise (all operations of pcqueue.c together).
TokenAccounting ==
  interrupts = 0 =>
    /\ MaxElts - fifo.current = slots_avail + Cardinality(AvailHolders)
    /\ fifo.current = slots_inuse + Cardinality(InuseHolders)

\* As long as no signal cut a wait short, a thread that got past its
\* semaphore is never refused by the FIFO: push finds a free slot, pop and
\* peek find an element.  This is what lets timedpop post without looking at
\* the status of fifo_remove.
NeverRefused ==
  interrupts = 0 => \A t \in Threads : pc[t] = "body" =>
    IF op[t] = "push" THEN ~RingIsFull(fifo) ELSE ~RingIsEmpty(fifo)

\* "Pop and return the first element in the queue, waiting if necessary for the
\* queue to become non-empty": an untimed pop past its wait finds an element.
PopWaits == \A t \in Threads : pc[t] = "body" /\ op[t] = "pop" => ~RingIsEmpty(fifo)

\* The queue behaves as one sequence: every accepted push is delivered
\* once, in order, and peek returns the oldest element at that moment.
Queue == INSTANCE BoundedFifo
           WITH q <- RingContents(fifo), box <- elt, Capacity <- MaxElts
ImplementsFifo == Queue!Spec

\* The pointer peek returned refers to the oldest element, with the content
\* it was read with, until somebody pops: swbus_rxq_wait() hands such a
\* pointer out, while publishers push, and swbus_rxq_pop_front() reads it.
PeekedSlotStable ==
  \A t \in Threads : ptr[t] # Null =>
    /\ ~RingIsEmpty(fifo)
    /\ ptr[t] = fifo.start
    /\ elt[t] # Unset => RingFront(fifo) = elt[t]

\* No wakeup is lost: while the queue stays non-empty some consumer's wait
\* is eventually let through.
ElementBecomesAvailable ==
  fifo.current > 0 ~> slots_inuse > 0 \/ fifo.current = 0

\* Nor on the other side: while the queue has space some producer's wait is
\* eventually let through.
SpaceBecomesAvailable ==
  fifo.current < MaxElts ~> slots_avail > 0 \/ fifo.current = MaxElts
=============================================================================
