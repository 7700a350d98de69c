------------------------------- MODULE MPool -------------------------------
(***************************************************************************)
(* The memory pool of src/src/multithread/mpool.c: fixed chunks on a free  *)
(* and an allocated list, a reference count per chunk, a mutex, and the    *)
(* counting semaphore slots_avail on which requests wait.                  *)
(*                                                                         *)
(* Clients are sequential threads.  Every reference a client has is a      *)
(* handle; a client releases or removes only references it has, and may    *)
(* hand one to another thread, as swbus and the tests do.  The handles are *)
(* bookkeeping of this model: the code has only the counts.                *)
(***************************************************************************)
EXTENDS Integers, Sequences, FiniteSets

CONSTANTS
  MaxElts,       \* params->max_elts
  Threads,       \* the clients
  NoThread,      \* holds the mutex when no thread does
  Handles,       \* at most this many references exist at a time
  NoHandle,      \* what a thread that makes no call fills
  MaxInterrupts  \* how many waits of mpool_req a signal may cut short

ASSUME MaxEltsAssumption == MaxElts \in Nat \ {0}
ASSUME ThreadsAssumption == IsFiniteSet(Threads) /\ NoThread \notin Threads
ASSUME HandlesAssumption == IsFiniteSet(Handles) /\ NoHandle \notin Handles
ASSUME MaxInterruptsAssumption == MaxInterrupts \in Nat

VARIABLES
  free, alloc,  \* the two lists of chunks, first chunk first
  refs,         \* the_pool->refs
  slots_avail,  \* the_pool->slots_avail
  mutex,        \* the thread that holds the_pool->mutex, or NoThread
  pc, op,       \* where each thread is, and in which function
  ptr,          \* the chunk the call of each thread is about
  hnd,          \* the handle it fills or gives up
  refersTo,     \* refersTo[h]: the chunk handle h is a reference to
  owner,        \* the thread that has handle h, or NoThread
  bare,         \* chunks whose last reference was removed but not released
  interrupts    \* how many waits were cut short so far

vars == <<free, alloc, refs, slots_avail, mutex, pc, op, ptr, hnd, refersTo,
          owner, bare, interrupts>>

Chunks == 0 .. MaxElts - 1
NoChunk == MaxElts  \* no chunk has this index: the NULL pointer

Requests == {"req", "timedreq"}
Operations == Requests \cup {"release", "ref_add", "ref_remove"}
Labels == {"idle", "wait", "lock", "body", "post", "unlock", "crashed"}

Holders(c) == {h \in Handles : refersTo[h] = c}
Busy(t) == pc[t] # "idle"
Reserved(h) == \E t \in Threads : hnd[t] = h

\* mpool_init: every chunk is free, in the order of their addresses.
Init ==
  /\ free = [i \in 1 .. MaxElts |-> i - 1]
  /\ alloc = <<>>
  /\ refs = [c \in Chunks |-> 0]
  /\ slots_avail = MaxElts
  /\ mutex = NoThread
  /\ pc = [t \in Threads |-> "idle"]
  /\ op = [t \in Threads |-> "req"]
  /\ ptr = [t \in Threads |-> NoChunk]
  /\ hnd = [t \in Threads |-> NoHandle]
  /\ refersTo = [h \in Handles |-> NoChunk]
  /\ owner = [h \in Handles |-> NoThread]
  /\ bare = {}
  /\ interrupts = 0

-----------------------------------------------------------------------------
(* The lists.                                                              *)

ToSet(l) == {l[i] : i \in 1 .. Len(l)}

\* Mutant of ListAppend: the list is full one node too early.
ListAppendEarlyFull(l, c) == IF Len(l) < MaxElts - 1 THEN Append(l, c) ELSE l

\* llist_append: refused when the list already has max_elts nodes; the pool
\* ignores its status.
ListAppend(l, c) == IF Len(l) < MaxElts THEN Append(l, c) ELSE l

\* llist_remove: the first node with this data, if there is one.
ListRemove(l, c) ==
  IF c \notin ToSet(l) THEN l
  ELSE LET i == CHOOSE i \in 1 .. Len(l) :
                  l[i] = c /\ \A j \in 1 .. i - 1 : l[j] # c
       IN  [j \in 1 .. Len(l) - 1 |-> IF j < i THEN l[j] ELSE l[j + 1]]

-----------------------------------------------------------------------------
(* The calls clients make.                                                 *)

Call(t, o, c, h, label) ==
  /\ ~Busy(t)
  /\ pc' = [pc EXCEPT ![t] = label]
  /\ op' = [op EXCEPT ![t] = o]
  /\ ptr' = [ptr EXCEPT ![t] = c]
  /\ hnd' = [hnd EXCEPT ![t] = h]
  /\ UNCHANGED <<free, alloc, refs, slots_avail, mutex, refersTo, owner, bare,
                 interrupts>>

\* A reference the caller has and has not given up yet.
Has(t, h) == owner[h] = t /\ refersTo[h] \in Chunks

Fresh(t, h) == refersTo[h] = NoChunk /\ ~Reserved(h)

CallRequest(t) ==
  \E o \in Requests, h \in Handles :
    /\ Fresh(t, h)
    /\ Call(t, o, NoChunk, h, "wait")

CallRelease(t) ==
  \E h \in Handles :
    /\ Has(t, h)
    /\ Call(t, "release", refersTo[h], h, "lock")

CallRefAdd(t) ==
  \E g, h \in Handles :
    /\ Has(t, g) /\ Fresh(t, h) /\ refersTo[g] \notin bare
    /\ Call(t, "ref_add", refersTo[g], h, "lock")

\* A client that calls ref_remove still releases the chunk: it has another
\* reference to it, or it is the only one who has any.
CallRefRemove(t) ==
  \E h \in Handles :
    /\ Has(t, h) /\ refersTo[h] \notin bare
    /\ \/ \E g \in Handles \ {h} : Has(t, g) /\ refersTo[g] = refersTo[h]
       \/ Holders(refersTo[h]) = {h}
    /\ Call(t, "ref_remove", refersTo[h], h, "lock")

\* A reference goes from one thread to another, through a queue say.
Give(t, u) ==
  \E h \in Handles :
    /\ ~Busy(t) /\ Has(t, h) /\ refersTo[h] \notin bare
    /\ owner' = [owner EXCEPT ![h] = u]
    /\ UNCHANGED <<free, alloc, refs, slots_avail, mutex, pc, op, ptr, hnd,
                   refersTo, bare, interrupts>>

-----------------------------------------------------------------------------
(* csem_wait() of mpool_req and csem_timedwait() of mpool_timedreq.        *)

Goto(t, from, to) == pc[t] = from /\ pc' = [pc EXCEPT ![t] = to]

Wait(t) ==
  /\ slots_avail > 0
  /\ slots_avail' = slots_avail - 1
  /\ Goto(t, "wait", "lock")
  /\ UNCHANGED <<free, alloc, refs, mutex, op, ptr, hnd, refersTo, owner, bare,
                 interrupts>>

\* sem_wait() blocks and fails with EINTR; mpool_req ignores it.
Interrupted(t) ==
  /\ op[t] = "req"
  /\ slots_avail = 0
  /\ interrupts < MaxInterrupts
  /\ interrupts' = interrupts + 1
  /\ Goto(t, "wait", "lock")
  /\ UNCHANGED <<free, alloc, refs, slots_avail, mutex, op, ptr, hnd, refersTo,
                 owner, bare>>

\* sem_timedwait() fails only when it has to wait.
TimedOut(t) ==
  /\ op[t] = "timedreq"
  /\ slots_avail = 0
  /\ Goto(t, "wait", "idle")
  /\ hnd' = [hnd EXCEPT ![t] = NoHandle]
  /\ UNCHANGED <<free, alloc, refs, slots_avail, mutex, op, ptr, refersTo, owner,
                 bare, interrupts>>

-----------------------------------------------------------------------------
(* The critical sections.                                                  *)

Lock(t) ==
  /\ mutex = NoThread
  /\ mutex' = t
  /\ Goto(t, "lock", "body")
  /\ UNCHANGED <<free, alloc, refs, slots_avail, op, ptr, hnd, refersTo, owner,
                 bare, interrupts>>

\* Handle h becomes thread t's reference to c.
Refer(h, c, t) ==
  /\ refersTo' = [refersTo EXCEPT ![h] = c]
  /\ owner' = [owner EXCEPT ![h] = t]

\* The first free chunk moves to the allocated list with one more reference.
Take(t) ==
  /\ op[t] \in Requests
  /\ free # <<>>
  /\ Goto(t, "body", "unlock")
  /\ LET c == Head(free)
     IN  /\ free' = ListRemove(free, c)
         /\ alloc' = ListAppend(alloc, c)
         /\ refs' = [refs EXCEPT ![c] = @ + 1]
         /\ ptr' = [ptr EXCEPT ![t] = c]
         /\ Refer(hnd[t], c, t)
  /\ UNCHANGED <<slots_avail, mutex, op, hnd, bare, interrupts>>

\* free.first is NULL and is dereferenced: the process dies.
TakeFromEmpty(t) ==
  /\ op[t] \in Requests
  /\ free = <<>>
  /\ Goto(t, "body", "crashed")
  /\ UNCHANGED <<free, alloc, refs, slots_avail, mutex, op, ptr, hnd, refersTo,
                 owner, bare, interrupts>>

\* Mutant of Release: a chunk that is freed is not posted.
ReleaseWithoutPost(t) ==
  /\ op[t] = "release"
  /\ Goto(t, "body", "unlock")
  /\ LET c == ptr[t]
         n == IF refs[c] > 0 THEN refs[c] - 1 ELSE 0
     IN  /\ refs' = [refs EXCEPT ![c] = n]
         /\ alloc' = IF n = 0 THEN ListRemove(alloc, c) ELSE alloc
         /\ free' = IF n = 0 THEN ListAppend(free, c) ELSE free
         /\ bare' = bare \ {c}
  /\ Refer(hnd[t], NoChunk, NoThread)
  /\ UNCHANGED <<slots_avail, mutex, op, ptr, hnd, interrupts>>

\* Mutant of Release: a chunk that has references left is an early return,
\* with the mutex locked.
ReleaseKeepsMutex(t) ==
  /\ pc[t] = "body" /\ op[t] = "release"
  /\ LET c == ptr[t]
         n == IF refs[c] > 0 THEN refs[c] - 1 ELSE 0
     IN  /\ refs' = [refs EXCEPT ![c] = n]
         /\ \/ n > 0 /\ Goto(t, "body", "idle") /\ UNCHANGED <<free, alloc>>
            \/ /\ n = 0
               /\ Goto(t, "body", "post")
               /\ alloc' = ListRemove(alloc, c)
               /\ free' = ListAppend(free, c)
         /\ bare' = bare \ {c}
  /\ Refer(hnd[t], NoChunk, NoThread)
  /\ UNCHANGED <<slots_avail, mutex, op, ptr, hnd, interrupts>>

\* One reference less; the last one frees the chunk.  A count that
\* mpool_ref_remove brought to 0 stays there.
Release(t) ==
  /\ pc[t] = "body" /\ op[t] = "release"
  /\ LET c == ptr[t]
         n == IF refs[c] > 0 THEN refs[c] - 1 ELSE 0
     IN  /\ refs' = [refs EXCEPT ![c] = n]
         /\ \/ n > 0 /\ Goto(t, "body", "unlock") /\ UNCHANGED <<free, alloc>>
            \/ /\ n = 0
               /\ Goto(t, "body", "post")
               /\ alloc' = ListRemove(alloc, c)
               /\ free' = ListAppend(free, c)
         /\ bare' = bare \ {c}
  /\ Refer(hnd[t], NoChunk, NoThread)
  /\ UNCHANGED <<slots_avail, mutex, op, ptr, hnd, interrupts>>

\* Mutant of RefAdd: the count stays the same.
RefAddUncounted(t) ==
  /\ op[t] = "ref_add"
  /\ Goto(t, "body", "unlock")
  /\ Refer(hnd[t], ptr[t], t)
  /\ UNCHANGED <<free, alloc, refs, slots_avail, mutex, op, ptr, hnd, bare,
                 interrupts>>

RefAdd(t) ==
  /\ op[t] = "ref_add"
  /\ Goto(t, "body", "unlock")
  /\ refs' = [refs EXCEPT ![ptr[t]] = @ + 1]
  /\ Refer(hnd[t], ptr[t], t)
  /\ UNCHANGED <<free, alloc, slots_avail, mutex, op, ptr, hnd, bare, interrupts>>

\* The count has no floor here and the chunk is not freed.  The only
\* reference there is stays with the client until it releases the chunk.
RefRemove(t) ==
  /\ op[t] = "ref_remove"
  /\ Goto(t, "body", "unlock")
  /\ refs' = [refs EXCEPT ![ptr[t]] = @ - 1]
  /\ \/ /\ Holders(ptr[t]) = {hnd[t]}
        /\ bare' = bare \cup {ptr[t]}
        /\ UNCHANGED <<refersTo, owner>>
     \/ /\ Holders(ptr[t]) # {hnd[t]}
        /\ Refer(hnd[t], NoChunk, NoThread)
        /\ UNCHANGED bare
  /\ UNCHANGED <<free, alloc, slots_avail, mutex, op, ptr, hnd, interrupts>>

\* mpool_release posts before it unlocks.
Post(t) ==
  /\ slots_avail' = slots_avail + 1
  /\ Goto(t, "post", "unlock")
  /\ UNCHANGED <<free, alloc, refs, mutex, op, ptr, hnd, refersTo, owner, bare,
                 interrupts>>

Unlock(t) ==
  /\ mutex' = NoThread
  /\ Goto(t, "unlock", "idle")
  /\ ptr' = [ptr EXCEPT ![t] = NoChunk]
  /\ hnd' = [hnd EXCEPT ![t] = NoHandle]
  /\ UNCHANGED <<free, alloc, refs, slots_avail, op, refersTo, owner, bare,
                 interrupts>>

-----------------------------------------------------------------------------
Body(t) == Take(t) \/ TakeFromEmpty(t) \/ Release(t) \/ RefAdd(t) \/ RefRemove(t)
Step(t) == Wait(t) \/ Lock(t) \/ Body(t) \/ Post(t) \/ Unlock(t)

\* A thread that crashes takes the process with it.
Next ==
  /\ \A t \in Threads : pc[t] # "crashed"
  /\ \E t \in Threads :
       \/ CallRequest(t) \/ CallRelease(t) \/ CallRefAdd(t) \/ CallRefRemove(t)
       \/ \E u \in Threads : Give(t, u)
       \/ Interrupted(t) \/ TimedOut(t) \/ Step(t)

Spec == Init /\ [][Next]_vars

\* Threads that can run do, and the mutex passes no thread over forever.
\* Clients may keep their chunks and timeouts need not expire.
FairSpec == Spec /\ \A t \in Threads : WF_vars(Step(t)) /\ SF_vars(Lock(t))

-----------------------------------------------------------------------------
(* Properties.                                                             *)

\* Every variable has its type.
TypeOK ==
  /\ free \in Seq(Chunks) /\ alloc \in Seq(Chunks)
  /\ refs \in [Chunks -> Int]
  /\ slots_avail \in Nat
  /\ mutex \in Threads \cup {NoThread}
  /\ pc \in [Threads -> Labels]
  /\ op \in [Threads -> Operations]
  /\ ptr \in [Threads -> Chunks \cup {NoChunk}]
  /\ hnd \in [Threads -> Handles \cup {NoHandle}]
  /\ refersTo \in [Handles -> Chunks \cup {NoChunk}]
  /\ owner \in [Handles -> Threads \cup {NoThread}]
  /\ bare \subseteq Chunks
  /\ interrupts \in 0 .. MaxInterrupts

Distinct(l) == \A i, j \in 1 .. Len(l) : l[i] = l[j] => i = j

\* Every chunk is on exactly one of the two lists, once: no chunk is lost,
\* and none can be handed out twice (mpool_req, mpool_timedreq, mpool_release).
Partition ==
  /\ Distinct(free) /\ Distinct(alloc)
  /\ ToSet(free) \cap ToSet(alloc) = {}
  /\ ToSet(free) \cup ToSet(alloc) = Chunks

\* The counts are exact, so a chunk is on the free list if and only if
\* nobody has a reference to it.
RefsExact ==
  \A c \in Chunks :
    /\ refs[c] = Cardinality(Holders(c)) - (IF c \in bare THEN 1 ELSE 0)
    /\ c \in ToSet(free) <=> Holders(c) = {}

\* Requests past their wait, and releases about to post, account for the
\* difference between the free chunks and the semaphore; every wait that a
\* signal cut short leaves the semaphore one too high, for good.
TokenHolders ==
  {t \in Threads : \/ op[t] \in Requests /\ pc[t] \in {"lock", "body", "crashed"}
                   \/ pc[t] = "post"}
TokenAccounting ==
  Len(free) + interrupts = slots_avail + Cardinality(TokenHolders)

\* mpool_req waits as long as no chunk is available ("If no memory of the
\* requested type is currently available, wait indefinitely"): no request
\* reaches the free list when it is empty.
RequestFindsChunk ==
  \A t \in Threads : pc[t] = "body" /\ op[t] \in Requests => free # <<>>

\* The pool is a reference-counted pool: a chunk is never granted while
\* somebody refers to it, and only the last release frees it.
Pool == INSTANCE RefPool WITH available <- ToSet(free)
ImplementsPool == Pool!Spec

\* A free chunk does not stay hidden from the requests that wait for one.
FreeChunkBecomesAvailable == free # <<>> ~> slots_avail > 0 \/ free = <<>>

\* A client that gives a chunk back gets through, whatever the others do.
ReleaseReturns ==
  \A t \in Threads : pc[t] = "lock" /\ op[t] = "release" ~>
    pc[t] = "idle" \/ \E u \in Threads : pc[u] = "crashed"
=============================================================================
