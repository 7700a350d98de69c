------------------------------- MODULE SWBus -------------------------------
(***************************************************************************)
(* The software bus of src/src/swbus/swbus.c: publishers copy a packet     *)
(* into a chunk of a buffer pool and push a reference to it to the receive *)
(* queue (RXQ) of every subscriber; the chunk is free again when the last  *)
(* reader released it.  Every RXQ has one consumer.                        *)
(*                                                                         *)
(* The parts of the bus take effect at once, as their own modules show     *)
(* that they do: a pool is a RefPool (MPool), an RXQ a BoundedFifo         *)
(* (PCQueue) and syncl a reader-writer lock (RdWrLock).  What is left to   *)
(* interleave is what swbus.c does between its calls of them.              *)
(***************************************************************************)
EXTENDS Naturals, Sequences, FiniteSets

CONSTANTS
  Publishers,          \* the publishing threads
  NoThread,            \* holds the bus mutex when no thread does
  Pids, Sizes,         \* packet IDs and packet sizes
  EltSizes, PoolElts,  \* elt_size and max_elts of each pool
  QueueSize,           \* the capacity of every RXQ
  MaxSubs, MaxRxqs,    \* swb->max_subs, swb->max_rxqs
  MaxPackets,          \* how many packets are published in all
  Async,               \* whether RCSW_SWBUS_ASYNC is set
  Fronters             \* RXQs read with swbus_rxq_front, not swbus_rxq_wait

ASSUME ThreadsAssumption ==
  /\ IsFiniteSet(Publishers) /\ Publishers \cap Nat = {}
  /\ NoThread \notin Publishers
  /\ Fronters \subseteq 1 .. MaxRxqs
ASSUME PoolsAssumption ==
  /\ EltSizes \in Seq(Nat) /\ PoolElts \in Seq(Nat)
  /\ Len(EltSizes) = Len(PoolElts)
  /\ Pids \subseteq Nat /\ Sizes \subseteq Nat \ {0}
ASSUME LimitsAssumption ==
  /\ QueueSize \in Nat \ {0}
  /\ {MaxSubs, MaxRxqs, MaxPackets} \subseteq Nat
  /\ Async \in BOOLEAN

VARIABLES
  n_rxqs,    \* how many RXQs were initialised so far
  subs,      \* swb->subscribers: the sorted list of subscriptions
  mutex,     \* the publisher that holds swb->mutex, or NoThread
  readers, writers,  \* who is inside swb->syncl
  free,      \* the chunks on the free lists of the pools
  refs,      \* the reference counts of all pools
  content,   \* the packet last copied into each chunk
  queue,     \* the entries in each RXQ, oldest first
  pc,        \* where each publisher and each consumer is
  job,       \* what each publisher publishes, and in which chunk
  node,      \* the position in subs of the loop of each publisher
  ent,       \* the entry each consumer works on
  issued,    \* how many packets were published so far
  log        \* the packets pushed to each RXQ so far, in order

vars == <<n_rxqs, subs, mutex, readers, writers, free, refs, content, queue, pc,
          job, node, ent, issued, log>>

Queues == 1 .. MaxRxqs  \* the elements of swb->rxqs, each with its consumer
Pools == 1 .. Len(EltSizes)
Chunks == UNION {{<<i, j>> : j \in 1 .. PoolElts[i]} : i \in Pools}
NoChunk == <<0, 0>>  \* data of a reservation outside the pools: bp is NULL
Packets == 0 .. MaxPackets
Subscriptions == [pid: Pids, subscriber: Queues]
Entries == [pid: Pids, pkt: Packets, data: Chunks]
Jobs == [pid: Pids, size: Sizes, pkt: Packets, pool: 1 .. Len(EltSizes) + 1,
         data: Chunks \cup {NoChunk}]
NoJob == [pkt |-> 0]    \* of a publisher that publishes nothing
NoEntry == [pkt |-> 0]  \* of a consumer that has no packet

PublisherLabels == {"idle", "search", "request", "fill", "release", "writer",
                    "notify", "ref_add", "exit", "unlock"}
ConsumerLabels == {"idle", "sync", "synced", "use", "pop"}

FreeIn(i) == {c \in free : c[1] = i}

\* swbus_init: no RXQ, no subscription, all chunks free.
Init ==
  /\ n_rxqs = 0 /\ subs = <<>>
  /\ mutex = NoThread /\ readers = {} /\ writers = {}
  /\ free = Chunks
  /\ refs = [c \in Chunks |-> 0]
  /\ content = [c \in Chunks |-> 0]
  /\ queue = [q \in Queues |-> <<>>]
  /\ pc = [t \in Publishers \cup Queues |-> "idle"]
  /\ job = [p \in Publishers |-> NoJob]
  /\ node = [p \in Publishers |-> 1]
  /\ ent = [q \in Queues |-> NoEntry]
  /\ issued = 0
  /\ log = [q \in Queues |-> <<>>]

Goto(t, from, to) == pc[t] = from /\ pc' = [pc EXCEPT ![t] = to]

Metadata == <<n_rxqs, subs>>
Locks == <<mutex, readers, writers>>
Pooled == <<free, refs, content>>
Receiving == <<queue, ent, log>>
Publishing == <<job, node, issued>>

-----------------------------------------------------------------------------
(* swbus_rxq_init, swbus_subscribe, swbus_unsubscribe: each runs under the *)
(* bus mutex from its first statement to its last.                         *)

RxqInit ==
  /\ mutex = NoThread
  /\ n_rxqs < MaxRxqs
  /\ n_rxqs' = n_rxqs + 1
  /\ UNCHANGED <<subs, Locks, Pooled, Receiving, Publishing, pc>>

\* swbus_sub_cmp: by packet ID, then by address.
Before(s, other) ==
  \/ s.pid < other.pid
  \/ s.pid = other.pid /\ s.subscriber < other.subscriber

Subscribed(s) == \E i \in 1 .. Len(subs) : subs[i] = s

\* The list sorts itself after every append: the new subscription comes behind
\* those that are before it.
Subscribe(s) ==
  /\ mutex = NoThread
  /\ s.subscriber <= n_rxqs
  /\ Len(subs) < MaxSubs /\ ~Subscribed(s)
  /\ LET place == Cardinality({i \in 1 .. Len(subs) : Before(subs[i], s)})
     IN  subs' = [i \in 1 .. Len(subs) + 1 |->
                    IF i <= place THEN subs[i] ELSE IF i = place + 1 THEN s ELSE subs[i - 1]]
  /\ UNCHANGED <<n_rxqs, Locks, Pooled, Receiving, Publishing, pc>>

Unsubscribe(s) ==
  /\ mutex = NoThread
  /\ \E place \in 1 .. Len(subs) :
       /\ subs[place] = s
       /\ subs' = [i \in 1 .. Len(subs) - 1 |-> IF i < place THEN subs[i] ELSE subs[i + 1]]
  /\ UNCHANGED <<n_rxqs, Locks, Pooled, Receiving, Publishing, pc>>

-----------------------------------------------------------------------------
(* swbus_publish_reserve: the pools in order, without the bus mutex.       *)

NewJob(p) ==
  /\ issued < MaxPackets
  /\ issued' = issued + 1
  /\ \E pid \in Pids, size \in Sizes :
       job' = [job EXCEPT ![p] = [pid |-> pid, size |-> size, pkt |-> issued + 1,
                                  pool |-> 1, data |-> NoChunk]]
  /\ UNCHANGED <<Metadata, Locks, Pooled, Receiving, node>>

Publish(p) == NewJob(p) /\ Goto(p, "idle", "search")

\* The application made the reservation itself, with no pool.
PublishOwn(p) == NewJob(p) /\ Goto(p, "idle", "release")

Suitable(i, size) == EltSizes[i] >= size /\ FreeIn(i) # {}

SkipPool(p) ==
  /\ pc[p] = "search" /\ job[p].pool \in Pools
  /\ ~Suitable(job[p].pool, job[p].size)
  /\ job' = [job EXCEPT ![p].pool = @ + 1]
  /\ UNCHANGED <<Metadata, Locks, Pooled, Receiving, pc, node, issued>>

\* mpool_isfull was false; mpool_req is the next call, not the same one.
ChoosePool(p) ==
  /\ pc[p] = "search" /\ job[p].pool \in Pools
  /\ Suitable(job[p].pool, job[p].size)
  /\ Goto(p, "search", "request")
  /\ UNCHANGED <<Metadata, Locks, Pooled, Receiving, Publishing>>

NoPool(p) ==
  /\ pc[p] = "search" /\ job[p].pool \notin Pools
  /\ Goto(p, "search", "idle")
  /\ job' = [job EXCEPT ![p] = NoJob]
  /\ UNCHANGED <<Metadata, Locks, Pooled, Receiving, node, issued>>

\* mpool_req: waits while the pool has no free chunk.
Request(p) ==
  /\ Goto(p, "request", "fill")
  /\ \E c \in FreeIn(job[p].pool) :
       /\ free' = free \ {c}
       /\ refs' = [refs EXCEPT ![c] = @ + 1]
       /\ job' = [job EXCEPT ![p].data = c]
  /\ UNCHANGED <<Metadata, Locks, Receiving, content, node, issued>>

\* The packet is copied to the chunk.
Fill(p) ==
  /\ Goto(p, "fill", "release")
  /\ content' = [content EXCEPT ![job[p].data] = job[p].pkt]
  /\ UNCHANGED <<Metadata, Locks, Receiving, Publishing, free, refs>>

-----------------------------------------------------------------------------
(* swbus_publish_release.                                                  *)

\* Mutant of LockBus: neither the mutex nor the lock is taken.
LockNothing(p) ==
  /\ Goto(p, "release", "notify")
  /\ node' = [node EXCEPT ![p] = 1]
  /\ UNCHANGED <<Metadata, Locks, Pooled, Receiving, job, issued>>

LockBus(p) ==
  /\ mutex = NoThread
  /\ mutex' = p
  /\ Goto(p, "release", IF Async THEN "notify" ELSE "writer")
  /\ node' = [node EXCEPT ![p] = 1]
  /\ UNCHANGED <<Metadata, Pooled, Receiving, readers, writers, job, issued>>

EnterWrite(p) ==
  /\ readers = {} /\ writers = {}
  /\ writers' = {p}
  /\ Goto(p, "writer", "notify")
  /\ UNCHANGED <<Metadata, Pooled, Receiving, Publishing, mutex, readers>>

InLoop(p) == pc[p] = "notify" /\ node[p] <= Len(subs)
FromPool(p) == job[p].data # NoChunk

\* The loop goes past a subscription to another packet ID, and past every
\* subscription when the reservation has no pool: notify refuses that.
SkipSub(p) ==
  /\ InLoop(p)
  /\ subs[node[p]].pid # job[p].pid \/ ~FromPool(p)
  /\ node' = [node EXCEPT ![p] = @ + 1]
  /\ UNCHANGED <<Metadata, Locks, Pooled, Receiving, pc, job, issued>>

\* pcqueue_push: waits while the queue is full.
Push(p) ==
  /\ InLoop(p) /\ FromPool(p)
  /\ subs[node[p]].pid = job[p].pid
  /\ LET q == subs[node[p]].subscriber
         e == [pid |-> job[p].pid, pkt |-> job[p].pkt, data |-> job[p].data]
     IN  /\ Len(queue[q]) < QueueSize
         /\ queue' = [queue EXCEPT ![q] = Append(@, e)]
         /\ log' = [log EXCEPT ![q] = Append(@, job[p].pkt)]
  /\ Goto(p, "notify", "ref_add")
  /\ UNCHANGED <<Metadata, Locks, Pooled, Publishing, ent>>

\* Mutant of RefAdd: the reference of the entry is not counted.
RefNotAdded(p) ==
  /\ Goto(p, "ref_add", "notify")
  /\ node' = [node EXCEPT ![p] = @ + 1]
  /\ UNCHANGED <<Metadata, Locks, Pooled, Receiving, job, issued>>

\* mpool_ref_add, after the entry can be seen by its consumer.
RefAdd(p) ==
  /\ Goto(p, "ref_add", "notify")
  /\ refs' = [refs EXCEPT ![job[p].data] = @ + 1]
  /\ node' = [node EXCEPT ![p] = @ + 1]
  /\ UNCHANGED <<Metadata, Locks, Receiving, free, content, job, issued>>

\* mpool_release: one reference less, and a free chunk with the last one.
ReleaseChunk(c) ==
  LET n == IF refs[c] > 0 THEN refs[c] - 1 ELSE 0
  IN  /\ refs' = [refs EXCEPT ![c] = n]
      /\ free' = IF n = 0 THEN free \cup {c} ELSE free
      /\ UNCHANGED content

\* Mutant of Release: the loop ends before the last subscription.
ReleaseEarly(p) ==
  /\ node[p] >= Len(subs)
  /\ Goto(p, "notify", IF Async THEN "unlock" ELSE "exit")
  /\ IF FromPool(p) THEN ReleaseChunk(job[p].data) ELSE UNCHANGED Pooled
  /\ UNCHANGED <<Metadata, Locks, Receiving, Publishing>>

\* The publisher gives up its own reference, if its chunk is from a pool.
Release(p) ==
  /\ node[p] > Len(subs)
  /\ Goto(p, "notify", IF Async THEN "unlock" ELSE "exit")
  /\ IF FromPool(p) THEN ReleaseChunk(job[p].data) ELSE UNCHANGED Pooled
  /\ UNCHANGED <<Metadata, Locks, Receiving, Publishing>>

ExitWrite(p) ==
  /\ Goto(p, "exit", "unlock")
  /\ writers' = writers \ {p}
  /\ UNCHANGED <<Metadata, Pooled, Receiving, Publishing, mutex, readers>>

\* Mutant of UnlockBus: the bus stays locked.
LeaveLocked(p) ==
  /\ Goto(p, "unlock", "idle")
  /\ job' = [job EXCEPT ![p] = NoJob]
  /\ UNCHANGED <<Metadata, Locks, Pooled, Receiving, node, issued>>

UnlockBus(p) ==
  /\ Goto(p, "unlock", "idle")
  /\ mutex' = NoThread
  /\ job' = [job EXCEPT ![p] = NoJob]
  /\ UNCHANGED <<Metadata, Pooled, Receiving, readers, writers, node, issued>>

-----------------------------------------------------------------------------
(* The consumer of an RXQ: swbus_rxq_wait (or swbus_rxq_front), its work   *)
(* on the packet, swbus_rxq_pop_front.                                     *)

\* The entry stays in the queue.
Peek(q) ==
  /\ queue[q] # <<>>
  /\ ent' = [ent EXCEPT ![q] = Head(queue[q])]
  /\ Goto(q, "idle", IF Async \/ q \in Fronters THEN "use" ELSE "sync")
  /\ UNCHANGED <<Metadata, Locks, Pooled, Publishing, queue, log>>

\* Mutant of EnterRead: the consumer does not wait for the writer.
EnterReadAnyhow(q) ==
  /\ readers' = readers \cup {q}
  /\ Goto(q, "sync", "synced")
  /\ UNCHANGED <<Metadata, Pooled, Receiving, Publishing, mutex, writers>>

EnterRead(q) ==
  /\ writers = {}
  /\ readers' = readers \cup {q}
  /\ Goto(q, "sync", "synced")
  /\ UNCHANGED <<Metadata, Pooled, Receiving, Publishing, mutex, writers>>

ExitRead(q) ==
  /\ readers' = readers \ {q}
  /\ Goto(q, "synced", "use")
  /\ UNCHANGED <<Metadata, Pooled, Receiving, Publishing, mutex, writers>>

\* swbus_rxq_pop_front releases the chunk first and then pops the entry.
PopRelease(q) ==
  /\ Goto(q, "use", "pop")
  /\ ReleaseChunk(ent[q].data)
  /\ UNCHANGED <<Metadata, Locks, Receiving, Publishing>>

Pop(q) ==
  /\ queue[q] # <<>>
  /\ queue' = [queue EXCEPT ![q] = Tail(@)]
  /\ ent' = [ent EXCEPT ![q] = NoEntry]
  /\ Goto(q, "pop", "idle")
  /\ UNCHANGED <<Metadata, Locks, Pooled, Publishing, log>>

-----------------------------------------------------------------------------
Configure ==
  \/ RxqInit
  \/ \E s \in Subscriptions : Subscribe(s) \/ Unsubscribe(s)
Reserve(p) == SkipPool(p) \/ ChoosePool(p) \/ NoPool(p) \/ Request(p) \/ Fill(p)
Notify(p) == SkipSub(p) \/ Push(p) \/ RefAdd(p) \/ Release(p)
Unwind(p) == ExitWrite(p) \/ UnlockBus(p)
PublisherStep(p) ==
  Reserve(p) \/ LockBus(p) \/ EnterWrite(p) \/ Notify(p) \/ Unwind(p)
ConsumerStep(q) ==
  Peek(q) \/ EnterRead(q) \/ ExitRead(q) \/ PopRelease(q) \/ Pop(q)

Next ==
  \/ Configure
  \/ \E p \in Publishers : Publish(p) \/ PublishOwn(p) \/ PublisherStep(p)
  \/ \E q \in Queues : ConsumerStep(q)

Spec == Init /\ [][Next]_vars

\* Threads that can run do, and no mutex, semaphore or lock passes over a
\* thread forever (strong fairness); consumers serve their queues.  Nobody
\* need publish or subscribe.
FairSpec ==
  /\ Spec
  /\ \A p \in Publishers : SF_vars(PublisherStep(p))
  /\ \A q \in Queues : SF_vars(ConsumerStep(q))

-----------------------------------------------------------------------------
(* Properties.                                                             *)

\* Every variable has its type.
TypeOK ==
  /\ n_rxqs \in 0 .. MaxRxqs /\ subs \in Seq(Subscriptions)
  /\ mutex \in Publishers \cup {NoThread}
  /\ readers \subseteq Queues /\ writers \subseteq Publishers
  /\ free \subseteq Chunks
  /\ refs \in [Chunks -> Nat] /\ content \in [Chunks -> Packets]
  /\ queue \in [Queues -> Seq(Entries)]
  /\ \A p \in Publishers : pc[p] \in PublisherLabels
  /\ \A q \in Queues : pc[q] \in ConsumerLabels
  /\ job \in [Publishers -> Jobs \cup {NoJob}]
  /\ node \in [Publishers -> Nat \ {0}]
  /\ ent \in [Queues -> Entries \cup {NoEntry}]
  /\ issued \in Packets
  /\ log \in [Queues -> Seq(Packets)]

\* Who has a reference to chunk c, counted: publishers from the grant to
\* their release, entries from the push to the release by their consumer.
Granted == {"fill", "release", "writer", "notify", "ref_add"}
PublishersOf(c) == {p \in Publishers : pc[p] \in Granted /\ job[p].data = c}
EntriesOf(c) ==
  UNION {{<<q, i>> : i \in {i \in 1 .. Len(queue[q]) : queue[q][i].data = c
                                       /\ (i = 1 => pc[q] # "pop")}} : q \in Queues}
PushedOnly(c) == {p \in Publishers : pc[p] = "ref_add" /\ job[p].data = c}

\* Every state is well typed, reference counts are exact but for the instant
\* between push and ref_add, and a chunk is free exactly when nobody refers to
\* it: no chunk leaks and none is granted twice, whatever publishers, consumers
\* and subscriptions do.
RefsAccount ==
  TypeOK /\ \A c \in Chunks :
    /\ refs[c] + Cardinality(PushedOnly(c))
         = Cardinality(PublishersOf(c)) + Cardinality(EntriesOf(c))
    /\ c \in free <=> PublishersOf(c) = {} /\ EntriesOf(c) = {}

\* "Memory chunk will not actually be freed until the last reference has
\* released it": the publisher's own reference included.
HeldNotFree ==
  \A c \in free : PublishersOf(c) = {} /\ EntriesOf(c) = {}

\* A consumer works on the packet that was published: nobody has reused the
\* chunk of an entry it was given and has not released.
PacketIntact ==
  \A q \in Queues : pc[q] \in {"sync", "synced", "use"} =>
    content[ent[q].data] = ent[q].pkt

\* "Keep application threads from servicing until all subscribers notified":
\* no consumer is given a packet its publisher still distributes.
SyncBarrier ==
  \A q \in Queues, p \in Publishers :
    pc[q] = "use" /\ pc[p] \in {"notify", "ref_add"} => ent[q].pkt # job[p].pkt

Position(s, x) == CHOOSE i \in 1 .. Len(s) : s[i] = x
In(s, x) == \E i \in 1 .. Len(s) : s[i] = x

\* Any two RXQs that receive the same packets receive them in the same
\* order, and no RXQ receives a packet twice: the bus mutex makes
\* distribution atomic with respect to other publishers.
TotalOrder ==
  /\ \A q \in Queues : \A i, j \in 1 .. Len(log[q]) : log[q][i] = log[q][j] => i = j
  /\ \A q, r \in Queues : \A x, y \in 1 .. issued :
       (\A s \in {log[q], log[r]} : In(s, x) /\ In(s, y)) =>
         (Position(log[q], x) < Position(log[q], y)
           <=> Position(log[r], x) < Position(log[r], y))

\* When a publisher has distributed a packet from a pool, exactly the RXQs
\* subscribed to its ID received it (swbus_publish_release).
EverySubscriberNotified ==
  \A p \in Publishers, q \in Queues : pc[p] = "unlock" /\ FromPool(p) =>
    (In(log[q], job[p].pkt) <=> Subscribed([pid |-> job[p].pid, subscriber |-> q]))

\* "All of the swbus_rxq_XX() functions can be used regardless of which way is
\* chosen": a packet the application holds itself, in no pool, reaches the
\* subscribers of its ID too.
OwnPacketsArrive ==
  \A p \in Publishers, q \in Queues : pc[p] = "unlock" /\ ~FromPool(p) =>
    (In(log[q], job[p].pkt) <=> Subscribed([pid |-> job[p].pid, subscriber |-> q]))

\* "A suitable buffer will be found in the first pool large enough to contain the
\* packet and has free space": nobody waits for a pool that is full while another
\* that would do is not.
BufferIsFound ==
  \A p \in Publishers : pc[p] = "request" /\ FreeIn(job[p].pool) = {} =>
    \A i \in Pools : ~Suitable(i, job[p].size)

\* swbus_publish_release returns, whether or not receive queues are full.
PublishReturns ==
  \A p \in Publishers : pc[p] = "release" ~> pc[p] = "idle"

\* Every chunk in use is free again when its readers have served their
\* queues, so that the pools do not run dry.
ChunksReturn ==
  \A c \in Chunks : c \notin free ~> c \in free
=============================================================================
