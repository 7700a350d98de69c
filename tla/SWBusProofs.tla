---------------------------- MODULE SWBusProofs ----------------------------
(***************************************************************************)
(* Proofs about the software bus, for any number of publishers, receive    *)
(* queues, subscriptions, packets and pools.  Who receives what, and in    *)
(* which order, holds on every bus; that chunks are accounted for, and     *)
(* that packets stay intact and reach their readers only when everybody    *)
(* was notified, on a synchronous one.                                     *)
(***************************************************************************)
EXTENDS SWBus, SequenceTheorems, FunctionTheorems, FiniteSetTheorems, TLAPS

-----------------------------------------------------------------------------
(* The inductive invariant of every bus, synchronous or not.               *)

Threads == Publishers \cup Queues
Holding == {"writer", "notify", "ref_add", "exit", "unlock"}
Undistributed == {"search", "request", "fill", "release", "writer"}

\* pc is a function, and the thread that holds the mutex is the one between
\* mutex_lock and mutex_unlock in swbus_publish_release.
MutexInv ==
  /\ pc \in [Threads -> PublisherLabels \cup ConsumerLabels]
  /\ \A p \in Publishers : pc[p] \in Holding <=> mutex = p

\* What a publisher works on.
JobInv(p) ==
  /\ pc[p] # "idle" => job[p] \in Jobs /\ job[p].pkt \in 1 .. issued
  /\ pc[p] \in {"search", "request"} => job[p].data = NoChunk
  /\ pc[p] = "request" => job[p].pool \in Pools
  /\ pc[p] = "fill" => job[p].data # NoChunk
  /\ pc[p] = "ref_add" => FromPool(p) /\ node[p] <= Len(subs) /\ subs[node[p]].pid = job[p].pid
  /\ pc[p] \in Holding => node[p] <= Len(subs) + 1
  /\ pc[p] = "writer" => node[p] = 1
  /\ pc[p] \in {"exit", "unlock"} => node[p] = Len(subs) + 1

JobsInv == \A p \in Publishers : JobInv(p)

\* No two publishers publish the same packet.
PacketsDiffer ==
  \A o, p \in Publishers : pc[o] # "idle" /\ pc[p] # "idle" /\ job[o].pkt = job[p].pkt => o = p

SubsDiffer == \A i, j \in 1 .. Len(subs) : subs[i] = subs[j] => i = j

\* An entry in a queue was pushed there, and a consumer that left its call of
\* swbus_rxq_wait works on the first one.
QueueInv(q) ==
  /\ Len(queue[q]) <= QueueSize
  /\ \A i \in 1 .. Len(queue[q]) : In(log[q], queue[q][i].pkt)
  /\ pc[q] # "idle" => queue[q] # <<>> /\ ent[q] = queue[q][1]

QueuesInv == \A q \in Queues : QueueInv(q)

\* How many subscriptions the loop of publisher p has notified.
Reached(p) == IF pc[p] = "ref_add" THEN node[p] ELSE node[p] - 1

\* A packet is in the queues its publisher has reached, at the end of each.
DistributionInv(p, q) ==
  /\ pc[p] \in Undistributed => ~In(log[q], job[p].pkt)
  /\ pc[p] \in Holding =>
       (In(log[q], job[p].pkt) <=>
          FromPool(p) /\ \E i \in 1 .. Reached(p) :
                           subs[i] = [pid |-> job[p].pid, subscriber |-> q])
  /\ pc[p] \in Holding /\ In(log[q], job[p].pkt) => log[q][Len(log[q])] = job[p].pkt

DistributionsInv == \A p \in Publishers, q \in Queues : DistributionInv(p, q)

\* The order of two packets in one log is their order in every other.
SameOrder(q, r) ==
  \A i, j \in 1 .. Len(log[q]), k, l \in 1 .. Len(log[r]) :
    log[q][i] = log[r][k] /\ log[q][j] = log[r][l] => (i < j <=> k < l)

LogsInv ==
  /\ \A q \in Queues : \A i \in 1 .. Len(log[q]) : log[q][i] \in 1 .. issued
  /\ \A q \in Queues : \A i, j \in 1 .. Len(log[q]) : log[q][i] = log[q][j] => i = j
  /\ \A q, r \in Queues : SameOrder(q, r)

BusInv ==
  /\ TypeOK /\ MutexInv /\ JobsInv /\ PacketsDiffer /\ SubsDiffer
  /\ QueuesInv /\ DistributionsInv /\ LogsInv

-----------------------------------------------------------------------------
(* What a synchronous bus adds.                                            *)

Synchronous == ~Async /\ Fronters = {}

WritersInv == \A p \in Publishers : pc[p] \in {"notify", "ref_add", "exit"} <=> p \in writers

\* SyncBarrier, from the moment the consumer is inside the lock to the pop.
BarrierInv ==
  \A q \in Queues, p \in Publishers :
    pc[q] \in {"synced", "use", "pop"} /\ pc[p] \in {"notify", "ref_add"}
      => ent[q].pkt # job[p].pkt

\* Whoever refers to a chunk agrees with the others on the packet in it, and
\* the publisher that got it from the pool is alone until it has copied its own.
HolderInv(c) ==
  /\ \A o, p \in PublishersOf(c) : o = p
  /\ \A p \in PublishersOf(c) :
       IF pc[p] = "fill" THEN EntriesOf(c) = {} ELSE content[c] = job[p].pkt
  /\ \A n \in EntriesOf(c) : content[c] = queue[n[1]][n[2]].pkt

\* RefsAccount, of one chunk.
Account(c) ==
  /\ refs[c] + Cardinality(PushedOnly(c))
       = Cardinality(PublishersOf(c)) + Cardinality(EntriesOf(c))
  /\ c \in free <=> PublishersOf(c) = {} /\ EntriesOf(c) = {}

ChunksInv == \A c \in Chunks : HolderInv(c) /\ Account(c)

SyncInv == WritersInv /\ BarrierInv /\ ChunksInv

-----------------------------------------------------------------------------
(* Types, and what a publisher works on.                                   *)

\* A publisher is no receive queue.
LEMMA ThreadsDiffer == Publishers \cap Queues = {} /\ MaxRxqs \in Nat /\ NoThread \notin Publishers
BY ThreadsAssumption, LimitsAssumption DEF Queues

\* No chunk of a pool is taken for a missing one.
LEMMA ChunksOfPools == /\ NoChunk \notin Chunks
                       /\ \A i \in Pools : \A c \in FreeIn(i) : c \in free
BY PoolsAssumption DEF Chunks, NoChunk, FreeIn, Pools

\* Where swbus_subscribe puts a subscription.
LEMMA SubscribeEffect ==
  ASSUME TypeOK, NEW s \in Subscriptions, Subscribe(s)
  PROVE  \E k \in 0 .. Len(subs) :
           /\ subs' \in Seq(Subscriptions) /\ Len(subs') = Len(subs) + 1
           /\ \A i \in 1 .. Len(subs') :
                subs'[i] = IF i <= k THEN subs[i] ELSE IF i = k + 1 THEN s ELSE subs[i - 1]
<1> DEFINE B == {i \in 1 .. Len(subs) : Before(subs[i], s)}
           k == Cardinality(B)
<1>1. subs \in Seq(Subscriptions) /\ Len(subs) \in Nat
  BY DEF TypeOK
<1>2. IsFiniteSet(1 .. Len(subs)) /\ Cardinality(1 .. Len(subs)) = Len(subs)
  <2> DEFINE n == Len(subs)
  <2>1. 1 \in Int /\ n \in Int /\ n \in Nat
    BY <1>1
  <2> HIDE DEF n
  <2>2. IsFiniteSet(1 .. n) /\ Cardinality(1 .. n) = n
    BY <2>1, FS_Interval
  <2> QED
    BY <2>2 DEF n
<1>3. k \in 0 .. Len(subs)
  <2>1. B \subseteq 1 .. Len(subs)
    OBVIOUS
  <2>2. IsFiniteSet(B) /\ Cardinality(B) <= Len(subs)
    BY <1>2, <2>1, FS_Subset
  <2> QED
    BY <1>1, <2>2, FS_CardinalityType
<1>4. subs' = [i \in 1 .. Len(subs) + 1 |->
                 IF i <= k THEN subs[i] ELSE IF i = k + 1 THEN s ELSE subs[i - 1]]
  BY DEF Subscribe
<1> HIDE DEF k
<1>5. \A i \in 1 .. Len(subs) + 1 : subs'[i] \in Subscriptions
  BY <1>1, <1>3, <1>4
<1>6. subs' \in Seq(Subscriptions) /\ Len(subs') = Len(subs) + 1
  BY <1>1, <1>4, <1>5
<1> QED
  BY <1>1, <1>3, <1>4, <1>6

\* What swbus_unsubscribe leaves.
LEMMA UnsubscribeEffect ==
  ASSUME TypeOK, NEW s \in Subscriptions, Unsubscribe(s)
  PROVE  \E k \in 1 .. Len(subs) :
           /\ subs' \in Seq(Subscriptions) /\ Len(subs') = Len(subs) - 1
           /\ \A i \in 1 .. Len(subs') : subs'[i] = IF i < k THEN subs[i] ELSE subs[i + 1]
<1>1. subs \in Seq(Subscriptions)
  BY DEF TypeOK
<1>2. PICK k \in 1 .. Len(subs) :
        subs' = [i \in 1 .. Len(subs) - 1 |-> IF i < k THEN subs[i] ELSE subs[i + 1]]
  BY DEF Unsubscribe
<1>3. \A i \in 1 .. Len(subs) - 1 : subs'[i] \in Subscriptions
  BY <1>1, <1>2
<1>4. subs' \in Seq(Subscriptions) /\ Len(subs') = Len(subs) - 1
  BY <1>1, <1>2, <1>3
<1> QED
  BY <1>2, <1>4

\* A counter that is raised stays one.
LEMMA CountUp ==
  ASSUME NEW S, NEW f \in [S -> Nat], NEW x
  PROVE  [f EXCEPT ![x] = @ + 1] \in [S -> Nat]
<1> DEFINE n == f[x] + 1
<1>1. x \in S => n \in Nat
  OBVIOUS
<1> HIDE DEF n
<1>2. [f EXCEPT ![x] = n] \in [S -> Nat]
  BY <1>1
<1> QED
  BY <1>2 DEF n

\* Every step keeps the types.
LEMMA TypesKept == ASSUME BusInv, [Next]_vars PROVE TypeOK'
<1> USE ThreadsDiffer
<1>1. TypeOK /\ MutexInv /\ JobsInv
  BY DEF BusInv
<1>2. \A p \in Publishers : job[p].pkt \in Packets /\ issued \in Nat /\ MaxPackets \in Nat
  BY <1>1, LimitsAssumption DEF TypeOK, Jobs, NoJob, Packets
<1>3. CASE UNCHANGED vars
  BY <1>1, <1>3 DEF TypeOK, vars
<1>4. CASE RxqInit
  BY <1>1, <1>4 DEF TypeOK, RxqInit, Locks, Pooled, Receiving, Publishing
<1>5. ASSUME NEW s \in Subscriptions, Subscribe(s) PROVE TypeOK'
  BY <1>1, <1>5, SubscribeEffect DEF TypeOK, Subscribe, Locks, Pooled, Receiving, Publishing
<1>6. ASSUME NEW s \in Subscriptions, Unsubscribe(s) PROVE TypeOK'
  BY <1>1, <1>6, UnsubscribeEffect DEF TypeOK, Unsubscribe, Locks, Pooled, Receiving, Publishing
<1>7. ASSUME NEW p \in Publishers, Publish(p) \/ PublishOwn(p) PROVE TypeOK'
  <2>1. PICK pid \in Pids, size \in Sizes :
          job' = [job EXCEPT ![p] = [pid |-> pid, size |-> size, pkt |-> issued + 1,
                                     pool |-> 1, data |-> NoChunk]]
    BY <1>7 DEF Publish, PublishOwn, NewJob
  <2>2. issued' = issued + 1 /\ issued < MaxPackets
    BY <1>7 DEF Publish, PublishOwn, NewJob
  <2>3. issued' \in Packets
    BY <1>1, <1>2, <2>2 DEF TypeOK, Packets
  <2>4. [pid |-> pid, size |-> size, pkt |-> issued + 1, pool |-> 1, data |-> NoChunk] \in Jobs
    BY <2>2, <2>3, PoolsAssumption DEF Jobs
  <2>5. job' \in [Publishers -> Jobs \cup {NoJob}]
    BY <1>1, <2>1, <2>4 DEF TypeOK
  <2> QED
    BY <1>1, <1>7, <2>3, <2>5, ZenonT(60)
    DEF TypeOK, MutexInv, Threads, Publish, PublishOwn, NewJob, Goto, Metadata, Locks, Pooled,
        Receiving, PublisherLabels
<1>8. ASSUME NEW p \in Publishers, SkipPool(p) \/ ChoosePool(p) \/ NoPool(p) PROVE TypeOK'
  <2>1. pc[p] # "idle" /\ job[p] \in Jobs
    BY <1>1, <1>8 DEF JobsInv, JobInv, SkipPool, ChoosePool, NoPool, Goto
  <2> DEFINE next == job[p].pool + 1
  <2>2. ASSUME SkipPool(p) PROVE [job[p] EXCEPT !.pool = next] \in Jobs
    <3>1. next \in 1 .. Len(EltSizes) + 1
      BY <2>1, <2>2, PoolsAssumption DEF SkipPool, Pools
    <3> HIDE DEF next
    <3> QED
      BY <2>1, <3>1 DEF Jobs
  <2>3. job' \in [Publishers -> Jobs \cup {NoJob}]
    BY <1>1, <1>8, <2>2 DEF TypeOK, SkipPool, ChoosePool, NoPool, Publishing
  <2> QED
    BY <1>1, <1>8, <2>3, ZenonT(60)
    DEF TypeOK, MutexInv, Threads, SkipPool, ChoosePool, NoPool, Goto, Metadata, Locks, Pooled,
        Receiving, Publishing, PublisherLabels
<1>9. ASSUME NEW p \in Publishers, Request(p) PROVE TypeOK'
  <2>1. PICK c \in FreeIn(job[p].pool) :
          /\ free' = free \ {c} /\ refs' = [refs EXCEPT ![c] = @ + 1]
          /\ job' = [job EXCEPT ![p].data = c]
    BY <1>9 DEF Request
  <2>2. c \in Chunks /\ job[p] \in Jobs
    BY <1>1, <1>9 DEF JobsInv, JobInv, Request, Goto, FreeIn, TypeOK
  <2>3. job' \in [Publishers -> Jobs \cup {NoJob}]
    BY <1>1, <2>1, <2>2 DEF TypeOK, Jobs
  <2>4. refs' \in [Chunks -> Nat] /\ free' \subseteq Chunks
    <3>1. refs \in [Chunks -> Nat] /\ free \subseteq Chunks
      BY <1>1 DEF TypeOK
    <3> QED
      BY <2>1, <3>1, CountUp
  <2> QED
    BY <1>1, <1>9, <2>3, <2>4
    DEF TypeOK, MutexInv, Threads, Request, Goto, Metadata, Locks, Receiving, PublisherLabels
<1>10. ASSUME NEW p \in Publishers, Fill(p) \/ LockBus(p) \/ EnterWrite(p) PROVE TypeOK'
  <2>1. CASE Fill(p)
    <3>1. content' \in [Chunks -> Packets]
      BY <1>1, <1>2, <2>1 DEF TypeOK, Fill
    <3> QED
      BY <1>1, <2>1, <3>1
      DEF TypeOK, MutexInv, Threads, Fill, Goto, Metadata, Locks, Receiving, Publishing,
          PublisherLabels
  <2>2. CASE LockBus(p)
    BY <1>1, <2>2
    DEF TypeOK, MutexInv, Threads, LockBus, Goto, Metadata, Pooled, Receiving, PublisherLabels
  <2>3. CASE EnterWrite(p)
    BY <1>1, <2>3
    DEF TypeOK, MutexInv, Threads, EnterWrite, Goto, Metadata, Pooled, Receiving, Publishing,
        PublisherLabels
  <2> QED
    BY <1>10, <2>1, <2>2, <2>3
<1>11. ASSUME NEW p \in Publishers, SkipSub(p) PROVE TypeOK'
  BY <1>1, <1>11
  DEF TypeOK, SkipSub, Metadata, Locks, Pooled, Receiving
<1>12. ASSUME NEW p \in Publishers, Push(p) PROVE TypeOK'
  <2> DEFINE q == subs[node[p]].subscriber
             e == [pid |-> job[p].pid, pkt |-> job[p].pkt, data |-> job[p].data]
  <2>1. /\ q \in Queues /\ job[p] \in Jobs /\ job[p].data # NoChunk
        /\ queue' = [queue EXCEPT ![q] = Append(@, e)]
        /\ log' = [log EXCEPT ![q] = Append(@, job[p].pkt)]
    <3>1. /\ pc[p] = "notify" /\ node[p] \in 1 .. Len(subs) /\ job[p].data # NoChunk
          /\ queue' = [queue EXCEPT ![q] = Append(@, e)]
          /\ log' = [log EXCEPT ![q] = Append(@, job[p].pkt)]
      BY <1>1, <1>12 DEF TypeOK, Push, InLoop, FromPool
    <3>2. subs[node[p]] \in Subscriptions
      BY <1>1, <3>1 DEF TypeOK
    <3> QED
      BY <1>1, <3>1, <3>2 DEF JobsInv, JobInv, Subscriptions
  <2>2. e \in Entries
    BY <2>1 DEF Jobs, Entries
  <2>3. queue' \in [Queues -> Seq(Entries)] /\ log' \in [Queues -> Seq(Packets)]
    BY <1>1, <1>2, <2>1, <2>2 DEF TypeOK
  <2> QED
    BY <1>1, <1>12, <2>3
    DEF TypeOK, MutexInv, Threads, Push, Goto, Metadata, Locks, Pooled, Publishing,
        PublisherLabels
<1>13. ASSUME NEW p \in Publishers, RefAdd(p) PROVE TypeOK'
  <2>1. refs' \in [Chunks -> Nat] /\ node' \in [Publishers -> Nat \ {0}]
    <3>1. refs \in [Chunks -> Nat] /\ node \in [Publishers -> Nat \ {0}]
      BY <1>1 DEF TypeOK
    <3>2. /\ refs' = [refs EXCEPT ![job[p].data] = @ + 1]
          /\ node' = [node EXCEPT ![p] = @ + 1]
      BY <1>13 DEF RefAdd
    <3> QED
      BY <3>1, <3>2, CountUp
  <2> QED
    BY <1>1, <1>13, <2>1
    DEF TypeOK, MutexInv, Threads, RefAdd, Goto, Metadata, Locks, Receiving, PublisherLabels
<1>14. ASSUME NEW c \in Chunks, ReleaseChunk(c)
       PROVE  refs' \in [Chunks -> Nat] /\ free' \subseteq Chunks
                /\ content' \in [Chunks -> Packets]
  BY <1>1, <1>14 DEF TypeOK, ReleaseChunk
<1>15. ASSUME NEW p \in Publishers, Release(p) PROVE TypeOK'
  <2>1. FromPool(p) => job[p].data \in Chunks
    BY <1>1, <1>15 DEF JobsInv, JobInv, Jobs, Release, FromPool, Goto
  <2>2. refs' \in [Chunks -> Nat] /\ free' \subseteq Chunks /\ content' \in [Chunks -> Packets]
    BY <1>1, <1>14, <1>15, <2>1 DEF Release, Pooled, TypeOK
  <2> QED
    BY <1>1, <1>15, <2>2
    DEF TypeOK, MutexInv, Threads, Release, Goto, Metadata, Locks, Receiving, Publishing,
        PublisherLabels
<1>16. ASSUME NEW p \in Publishers, ExitWrite(p) \/ UnlockBus(p) PROVE TypeOK'
  BY <1>1, <1>16, ZenonT(60)
  DEF TypeOK, MutexInv, Threads, ExitWrite, UnlockBus, Goto, Metadata, Pooled, Receiving,
      Publishing, PublisherLabels
<1>17. ASSUME NEW q \in Queues, Peek(q) PROVE TypeOK'
  BY <1>1, <1>17
  DEF TypeOK, MutexInv, Threads, Peek, Goto, Metadata, Locks, Pooled, Publishing,
      ConsumerLabels
<1>18. ASSUME NEW q \in Queues, EnterRead(q) \/ ExitRead(q) PROVE TypeOK'
  BY <1>1, <1>18, ZenonT(60)
  DEF TypeOK, MutexInv, Threads, EnterRead, ExitRead, Goto, Metadata, Pooled, Receiving,
      Publishing, ConsumerLabels
<1>19. ASSUME NEW q \in Queues, PopRelease(q) PROVE TypeOK'
  <2>1. pc[q] = "use" /\ ent[q] \in Entries
    <3>1. pc[q] = "use" /\ queue[q] # <<>> /\ ent[q] = queue[q][1]
      BY <1>19 DEF BusInv, QueuesInv, QueueInv, PopRelease, Goto
    <3>2. queue[q] \in Seq(Entries)
      BY <1>1 DEF TypeOK
    <3>3. queue[q][1] \in Entries
      BY <3>1, <3>2, EmptySeq, ElementOfSeq
    <3> QED
      BY <3>1, <3>3
  <2>2. refs' \in [Chunks -> Nat] /\ free' \subseteq Chunks /\ content' \in [Chunks -> Packets]
    BY <1>14, <1>19, <2>1 DEF PopRelease, Entries
  <2> QED
    BY <1>1, <1>19, <2>2
    DEF TypeOK, MutexInv, Threads, PopRelease, Goto, Metadata, Locks, Receiving, Publishing,
        ConsumerLabels
<1>20. ASSUME NEW q \in Queues, Pop(q) PROVE TypeOK'
  BY <1>1, <1>20
  DEF TypeOK, MutexInv, Threads, Pop, Goto, Metadata, Locks, Pooled, Publishing,
      ConsumerLabels
<1> QED
  BY <1>3, <1>4, <1>5, <1>6, <1>7, <1>8, <1>9, <1>10, <1>11, <1>12, <1>13, <1>15, <1>16,
     <1>17, <1>18, <1>19, <1>20
  DEF Next, Configure, PublisherStep, Reserve, Notify, Unwind, ConsumerStep

-----------------------------------------------------------------------------
(* What the steps of one thread leave alone.                               *)

PublisherNext(p) == Publish(p) \/ PublishOwn(p) \/ PublisherStep(p)

\* Init and unsubscribe calls run while nobody holds the mutex.
LEMMA ConfigureFrame ==
  ASSUME Configure
  PROVE  /\ mutex = NoThread
         /\ UNCHANGED <<mutex, readers, writers, free, refs, content, queue, pc, job, node,
                        ent, issued, log>>
BY DEF Configure, RxqInit, Subscribe, Unsubscribe, Locks, Pooled, Receiving, Publishing

\* A consumer's step moves only the consumer.
LEMMA ConsumerFrame ==
  ASSUME MutexInv, NEW q \in Queues, ConsumerStep(q)
  PROVE  /\ UNCHANGED <<subs, mutex, writers, content, job, node, issued, log>>
         /\ pc' \in [Threads -> PublisherLabels \cup ConsumerLabels]
         /\ \A t \in Threads \ {q} : pc'[t] = pc[t]
         /\ \A r \in Queues \ {q} : queue'[r] = queue[r] /\ ent'[r] = ent[r]
<1> USE ThreadsDiffer DEF MutexInv, Threads, Goto, ConsumerLabels
<1>1. CASE Peek(q)
  BY <1>1 DEF Peek, Metadata, Locks, Pooled, Publishing
<1>2. CASE EnterRead(q) \/ ExitRead(q)
  BY <1>2 DEF EnterRead, ExitRead, Metadata, Pooled, Receiving, Publishing
<1>3. CASE PopRelease(q)
  BY <1>3 DEF PopRelease, ReleaseChunk, Metadata, Locks, Receiving, Publishing
<1>4. CASE Pop(q)
  BY <1>4 DEF Pop, Metadata, Locks, Pooled, Publishing
<1> QED
  BY <1>1, <1>2, <1>3, <1>4 DEF ConsumerStep

\* A publisher's step moves only the publisher, and its place, job and loop.
LEMMA PublisherFrame ==
  ASSUME TypeOK, MutexInv, NEW p \in Publishers, PublisherNext(p)
  PROVE  /\ UNCHANGED <<subs, readers, ent>>
         /\ pc' \in [Threads -> PublisherLabels \cup ConsumerLabels]
         /\ \A t \in Threads \ {p} : pc'[t] = pc[t]
         /\ \A o \in Publishers \ {p} : job'[o] = job[o] /\ node'[o] = node[o]
         /\ issued' \in Nat /\ issued <= issued'
<1> USE ThreadsDiffer DEF Threads, Goto, PublisherLabels
<1>1. /\ issued \in Nat /\ DOMAIN job = Publishers /\ DOMAIN node = Publishers
      /\ pc \in [Publishers \cup Queues -> PublisherLabels \cup ConsumerLabels]
  BY LimitsAssumption DEF Packets, TypeOK, MutexInv
<1>2. CASE Publish(p) \/ PublishOwn(p)
  BY <1>1, <1>2 DEF Publish, PublishOwn, NewJob, Metadata, Locks, Pooled, Receiving
<1>3. CASE SkipPool(p) \/ ChoosePool(p) \/ NoPool(p)
  BY <1>1, <1>3
  DEF SkipPool, ChoosePool, NoPool, Metadata, Locks, Pooled, Receiving, Publishing
<1>4. CASE Request(p) \/ Fill(p)
  BY <1>1, <1>4 DEF Request, Fill, Metadata, Locks, Receiving, Publishing
<1>5. CASE LockBus(p) \/ EnterWrite(p)
  BY <1>1, <1>5 DEF LockBus, EnterWrite, Metadata, Pooled, Receiving, Publishing
<1>6. CASE SkipSub(p) \/ Push(p)
  <2>1. CASE SkipSub(p)
    BY <1>1, <2>1 DEF SkipSub, Metadata, Locks, Pooled, Receiving
  <2>2. CASE Push(p)
    <3>1. pc' = [pc EXCEPT ![p] = "ref_add"]
      BY <2>2 DEF Push
    <3>2. UNCHANGED <<subs, readers, ent, job, node, issued>>
      BY <2>2 DEF Push, Metadata, Locks, Publishing
    <3> QED
      BY <1>1, <3>1, <3>2
  <2> QED
    BY <1>6, <2>1, <2>2
<1>7. CASE RefAdd(p) \/ Release(p)
  BY <1>1, <1>7 DEF RefAdd, Release, Metadata, Locks, Receiving, Publishing
<1>8. CASE ExitWrite(p) \/ UnlockBus(p)
  BY <1>1, <1>8 DEF ExitWrite, UnlockBus, Metadata, Pooled, Receiving, Publishing
<1> QED
  BY <1>2, <1>3, <1>4, <1>5, <1>6, <1>7, <1>8
  DEF PublisherNext, PublisherStep, Reserve, Notify, Unwind

\* Every step is one of these.
LEMMA NextSteps ==
  ASSUME [Next]_vars
  PROVE  \/ UNCHANGED vars
         \/ Configure
         \/ \E p \in Publishers : PublisherNext(p)
         \/ \E q \in Queues : ConsumerStep(q)
BY DEF Next, PublisherNext

-----------------------------------------------------------------------------
\* The mutex has one holder, from mutex_lock to mutex_unlock.
LEMMA MutexKept == ASSUME BusInv, [Next]_vars PROVE MutexInv'
<1> USE ThreadsDiffer DEF MutexInv, Threads
<1>1. TypeOK /\ MutexInv
  BY DEF BusInv
<1>2. CASE UNCHANGED vars
  BY <1>1, <1>2 DEF vars
<1>3. CASE Configure
  BY <1>1, <1>3, ConfigureFrame
<1>4. ASSUME NEW p \in Publishers, PublisherNext(p) PROVE MutexInv'
  <2>1. /\ pc'[p] \in Holding <=> mutex' = p
        /\ mutex' # mutex => {mutex, mutex'} = {p, NoThread}
    <3> USE DEF Goto, Holding
    <3>1. CASE Publish(p) \/ PublishOwn(p)
      BY <1>1, <3>1 DEF Publish, PublishOwn, NewJob, Locks
    <3>2. CASE Reserve(p)
      BY <1>1, <3>2 DEF Reserve, SkipPool, ChoosePool, NoPool, Request, Fill, Locks
    <3>3. CASE LockBus(p) \/ EnterWrite(p)
      BY <1>1, <3>3 DEF LockBus, EnterWrite
    <3>4. CASE Notify(p)
      BY <1>1, <3>4 DEF Notify, SkipSub, Push, RefAdd, Release, InLoop, Locks
    <3>5. CASE Unwind(p)
      BY <1>1, <3>5 DEF Unwind, ExitWrite, UnlockBus
    <3> QED
      BY <1>4, <3>1, <3>2, <3>3, <3>4, <3>5 DEF PublisherNext, PublisherStep
  <2> QED
    <3>1. /\ pc' \in [Threads -> PublisherLabels \cup ConsumerLabels]
          /\ \A o \in Publishers \ {p} : pc'[o] = pc[o]
      BY <1>1, <1>4, PublisherFrame
    <3>2. ASSUME NEW o \in Publishers \ {p} PROVE pc'[o] \in Holding <=> mutex' = o
      BY <1>1, <2>1, <3>1
    <3> QED
      BY <2>1, <3>1, <3>2
<1>5. ASSUME NEW q \in Queues, ConsumerStep(q) PROVE MutexInv'
  BY <1>1, <1>5, ConsumerFrame
<1> QED
  BY <1>2, <1>3, <1>4, <1>5, NextSteps

\* What a publisher works on is not touched by others.
LEMMA JobUntouched ==
  ASSUME NEW o, JobInv(o), pc'[o] = pc[o], job'[o] = job[o], node'[o] = node[o],
         issued \in Nat, issued' \in Nat, issued <= issued',
         subs' = subs \/ pc[o] \notin Holding
  PROVE  JobInv(o)'
<1>1. 1 .. issued \subseteq 1 .. issued'
  OBVIOUS
<1> QED
  BY <1>1 DEF JobInv, FromPool, Holding

\* Every publisher's own steps keep what it works on in order.
LEMMA JobAdvances ==
  ASSUME BusInv, NEW p \in Publishers, PublisherNext(p)
  PROVE  JobInv(p)'
<1> USE DEF Goto, Holding
<1>1. /\ TypeOK /\ MutexInv /\ JobInv(p) /\ pc[p] \in PublisherLabels
      /\ p \in DOMAIN pc /\ p \in DOMAIN job /\ p \in DOMAIN node
      /\ issued \in Nat /\ MaxPackets \in Nat /\ Len(subs) \in Nat /\ node[p] \in Nat \ {0}
  BY LimitsAssumption DEF BusInv, JobsInv, TypeOK, MutexInv, Threads, Packets
<1>2. CASE Publish(p) \/ PublishOwn(p)
  <2>1. /\ pc'[p] \in {"search", "release"} /\ job'[p] \in Jobs \cup {NoJob}
        /\ issued' = issued + 1 /\ job'[p].pkt = issued' /\ job'[p].data = NoChunk
    <3>1. PICK pid \in Pids, size \in Sizes :
            job' = [job EXCEPT ![p] = [pid |-> pid, size |-> size, pkt |-> issued + 1,
                                       pool |-> 1, data |-> NoChunk]]
      BY <1>2 DEF Publish, PublishOwn, NewJob
    <3>2. pc'[p] \in {"search", "release"} /\ issued' = issued + 1
      BY <1>1, <1>2 DEF Publish, PublishOwn, NewJob
    <3>3. job' \in [Publishers -> Jobs \cup {NoJob}]
      BY <1>2, TypesKept DEF TypeOK, Next
    <3> QED
      BY <1>1, <3>1, <3>2, <3>3
  <2>2. job'[p] # NoJob
    BY <1>1, <2>1 DEF NoJob
  <2> QED
    BY <1>1, <2>1, <2>2 DEF JobInv
<1>3. CASE SkipPool(p) \/ ChoosePool(p) \/ NoPool(p)
  <2>1. job'[p] \in Jobs \cup {NoJob}
    BY <1>3, TypesKept DEF TypeOK, Next, PublisherStep, Reserve
  <2>2. CASE SkipPool(p)
    <3>1. pc'[p] = "search" /\ job'[p].pkt = job[p].pkt /\ job'[p].data = NoChunk
      BY <1>1, <2>2 DEF SkipPool, JobInv, Jobs
    <3>2. job'[p] # NoJob
      BY <1>1, <3>1, <2>2 DEF NoJob, SkipPool, JobInv
    <3> QED
      BY <1>1, <2>1, <2>2, <3>1, <3>2 DEF JobInv, SkipPool
  <2>3. CASE ChoosePool(p)
    BY <1>1, <2>3 DEF JobInv, ChoosePool, Publishing, Metadata
  <2>4. CASE NoPool(p)
    BY <1>1, <2>4 DEF JobInv, NoPool
  <2> QED
    BY <1>3, <2>2, <2>3, <2>4
<1>4. CASE Request(p)
  <2>1. PICK c \in FreeIn(job[p].pool) : job' = [job EXCEPT ![p].data = c]
    BY <1>4 DEF Request
  <2>2. c \in Chunks /\ c # NoChunk
    BY <1>1, <2>1, ChunksOfPools DEF TypeOK, FreeIn
  <2>3. job[p] \in Jobs /\ pc'[p] = "fill" /\ issued' = issued
    BY <1>1, <1>4 DEF JobInv, Request
  <2>4. job'[p] \in Jobs /\ job'[p].pkt = job[p].pkt /\ job'[p].data = c
    BY <1>1, <2>1, <2>2, <2>3 DEF Jobs
  <2> QED
    BY <1>1, <1>4, <2>2, <2>3, <2>4 DEF JobInv, Request
<1>5. CASE Fill(p) \/ LockBus(p) \/ EnterWrite(p)
  BY <1>1, <1>5
  DEF JobInv, FromPool, Fill, LockBus, EnterWrite, Publishing, Metadata
<1>6. CASE SkipSub(p) \/ Push(p)
  BY <1>1, <1>6
  DEF JobInv, FromPool, SkipSub, Push, InLoop, Publishing, Metadata
<1>7. CASE RefAdd(p) \/ Release(p)
  BY <1>1, <1>7
  DEF JobInv, FromPool, RefAdd, Release, Publishing, Metadata
<1>8. CASE ExitWrite(p) \/ UnlockBus(p)
  BY <1>1, <1>8
  DEF JobInv, FromPool, ExitWrite, UnlockBus, Publishing, Metadata
<1> QED
  BY <1>2, <1>3, <1>4, <1>5, <1>6, <1>7, <1>8, PublisherFrame
  DEF PublisherNext, PublisherStep, Reserve, Notify, Unwind

\* Publishers keep their jobs in order, whatever the others do.
LEMMA JobsKept == ASSUME BusInv, [Next]_vars PROVE JobsInv'
<1>1. TypeOK /\ MutexInv /\ JobsInv /\ issued \in Nat
  BY LimitsAssumption DEF BusInv, TypeOK, Packets
<1>2. \A o \in Publishers : o \in Threads /\ JobInv(o) /\ (mutex = NoThread => pc[o] \notin Holding)
  BY <1>1, ThreadsDiffer DEF JobsInv, MutexInv, Threads
<1>3. CASE UNCHANGED vars \/ Configure
  BY <1>1, <1>2, <1>3, ConfigureFrame, JobUntouched DEF JobsInv, vars
<1>4. ASSUME NEW p \in Publishers, PublisherNext(p) PROVE JobsInv'
  <2>1. \A o \in Publishers \ {p} : JobInv(o)'
    BY <1>1, <1>2, <1>4, PublisherFrame, JobUntouched
  <2> QED
    BY <1>4, <2>1, JobAdvances DEF JobsInv
<1>5. ASSUME NEW q \in Queues, ConsumerStep(q) PROVE JobsInv'
  <2>1. \A o \in Publishers : o # q
    BY ThreadsDiffer
  <2> QED
    BY <1>1, <1>2, <1>5, <2>1, ConsumerFrame, JobUntouched DEF JobsInv
<1> QED
  BY <1>3, <1>4, <1>5, NextSteps

-----------------------------------------------------------------------------
(* Packets, subscriptions and queues.                                      *)

\* A publisher keeps its packet until it is done.
LEMMA PacketFollowed ==
  ASSUME BusInv, NEW p \in Publishers, PublisherNext(p), pc'[p] # "idle"
  PROVE  IF pc[p] = "idle" THEN job'[p].pkt = issued + 1 /\ issued' = issued + 1
         ELSE job'[p].pkt = job[p].pkt /\ issued' = issued
<1> USE DEF Goto
<1>1. p \in DOMAIN pc /\ p \in DOMAIN job /\ (pc[p] # "idle" => job[p] \in Jobs)
  BY DEF BusInv, TypeOK, MutexInv, Threads, JobsInv, JobInv
<1>2. CASE Publish(p) \/ PublishOwn(p)
  BY <1>1, <1>2 DEF Publish, PublishOwn, NewJob
<1>3. CASE Reserve(p)
  BY <1>1, <1>3
  DEF Reserve, SkipPool, ChoosePool, NoPool, Request, Fill, Jobs, Publishing
<1>4. CASE LockBus(p) \/ EnterWrite(p)
  BY <1>4 DEF LockBus, EnterWrite, Publishing
<1>5. CASE Notify(p)
  BY <1>5 DEF Notify, SkipSub, Push, RefAdd, Release, Publishing, InLoop
<1>6. CASE Unwind(p)
  BY <1>1, <1>6 DEF Unwind, ExitWrite, UnlockBus, Publishing
<1> QED
  BY <1>2, <1>3, <1>4, <1>5, <1>6 DEF PublisherNext, PublisherStep

\* No packet is published twice.
LEMMA PacketsDifferKept == ASSUME BusInv, [Next]_vars PROVE PacketsDiffer'
<1>1. /\ TypeOK /\ MutexInv /\ PacketsDiffer /\ issued \in Nat
      /\ \A o \in Publishers : pc[o] # "idle" => job[o].pkt \in 1 .. issued
  BY LimitsAssumption DEF BusInv, TypeOK, Packets, JobsInv, JobInv
<1>2. CASE UNCHANGED vars \/ Configure
  BY <1>1, <1>2, ConfigureFrame DEF PacketsDiffer, vars
<1>3. ASSUME NEW p \in Publishers, PublisherNext(p) PROVE PacketsDiffer'
  <2>1. \A o \in Publishers \ {p} : pc'[o] = pc[o] /\ job'[o] = job[o]
    BY <1>1, <1>3, PublisherFrame DEF Threads
  <2>2. pc'[p] # "idle" => \/ job'[p].pkt = issued + 1
                           \/ pc[p] # "idle" /\ job'[p].pkt = job[p].pkt
    BY <1>3, PacketFollowed
  <2>3. ASSUME NEW o \in Publishers \ {p}, pc[o] # "idle", pc'[p] # "idle"
        PROVE  job[o].pkt # job'[p].pkt
    BY <1>1, <2>2, <2>3 DEF PacketsDiffer
  <2>4. \A o, r \in Publishers \ {p} : pc[o] # "idle" /\ pc[r] # "idle" /\ job[o].pkt = job[r].pkt
                                         => o = r
    BY <1>1 DEF PacketsDiffer
  <2> QED
    BY <2>1, <2>3, <2>4 DEF PacketsDiffer
<1>4. ASSUME NEW q \in Queues, ConsumerStep(q) PROVE PacketsDiffer'
  <2>1. UNCHANGED job /\ \A o \in Publishers : pc'[o] = pc[o]
    BY <1>1, <1>4, ConsumerFrame, ThreadsDiffer DEF Threads
  <2> QED
    BY <1>1, <2>1 DEF PacketsDiffer
<1> QED
  BY <1>2, <1>3, <1>4, NextSteps

\* No subscription is in the list twice.
LEMMA SubsDifferKept == ASSUME BusInv, [Next]_vars PROVE SubsDiffer'
<1>1. TypeOK /\ MutexInv /\ SubsDiffer /\ Len(subs) \in Nat
  BY DEF BusInv, TypeOK
<1>2. ASSUME subs' = subs PROVE SubsDiffer'
  BY <1>1, <1>2 DEF SubsDiffer
<1>3. CASE UNCHANGED vars \/ RxqInit
  BY <1>2, <1>3 DEF vars, RxqInit
<1>4. ASSUME NEW s \in Subscriptions, Subscribe(s) PROVE SubsDiffer'
  <2>1. PICK k \in 0 .. Len(subs) :
          /\ Len(subs') = Len(subs) + 1
          /\ \A i \in 1 .. Len(subs') :
               subs'[i] = IF i <= k THEN subs[i] ELSE IF i = k + 1 THEN s ELSE subs[i - 1]
    BY <1>1, <1>4, SubscribeEffect
  <2>2. \A i \in 1 .. Len(subs) : subs[i] # s
    BY <1>4 DEF Subscribe, Subscribed
  <2>3. SUFFICES ASSUME NEW i \in 1 .. Len(subs'), NEW j \in 1 .. Len(subs'), i < j
                 PROVE  subs'[i] # subs'[j]
    BY <1>1, <2>1 DEF SubsDiffer
  <2> QED
    BY <1>1, <2>1, <2>2, <2>3, SMTT(30) DEF SubsDiffer
<1>5. ASSUME NEW s \in Subscriptions, Unsubscribe(s) PROVE SubsDiffer'
  <2>1. PICK k \in 1 .. Len(subs) :
          /\ Len(subs') = Len(subs) - 1
          /\ \A i \in 1 .. Len(subs') : subs'[i] = IF i < k THEN subs[i] ELSE subs[i + 1]
    BY <1>1, <1>5, UnsubscribeEffect
  <2> QED
    BY <1>1, <2>1 DEF SubsDiffer
<1>6. CASE \E p \in Publishers : PublisherNext(p)
  BY <1>1, <1>2, <1>6, PublisherFrame
<1>7. CASE \E q \in Queues : ConsumerStep(q)
  BY <1>1, <1>2, <1>7, ConsumerFrame
<1> QED
  BY <1>3, <1>4, <1>5, <1>6, <1>7, NextSteps DEF Configure

\* Only pcqueue_push of a publisher changes what queues and logs hold.
LEMMA OnlyPushDelivers ==
  ASSUME NEW p \in Publishers, PublisherNext(p)
  PROVE  Push(p) \/ UNCHANGED <<queue, log>>
BY DEF PublisherNext, PublisherStep, Publish, PublishOwn, NewJob, Reserve, SkipPool, ChoosePool,
   NoPool, Request, Fill, LockBus, EnterWrite, Notify, SkipSub, RefAdd, Release, Unwind,
   ExitWrite, UnlockBus, Receiving

\* What pcqueue_push of a publisher does.
LEMMA PushEffect ==
  ASSUME BusInv, NEW p \in Publishers, Push(p)
  PROVE  LET s == subs[node[p]]
             q == s.subscriber
             x == job[p].pkt
         IN  /\ pc[p] = "notify" /\ pc'[p] = "ref_add" /\ FromPool(p)
             /\ node[p] \in 1 .. Len(subs) /\ s = [pid |-> job[p].pid, subscriber |-> q]
             /\ q \in Queues /\ Len(queue[q]) < QueueSize
             /\ queue'[q] = Append(queue[q], [pid |-> job[p].pid, pkt |-> x, data |-> job[p].data])
             /\ log'[q] = Append(log[q], x)
             /\ \A r \in Queues \ {q} : queue'[r] = queue[r] /\ log'[r] = log[r]
             /\ UNCHANGED <<subs, ent, job, node, issued, refs, free, content, mutex, writers>>
<1> DEFINE s == subs[node[p]]
<1>1. /\ DOMAIN queue = Queues /\ DOMAIN log = Queues
      /\ p \in DOMAIN pc /\ node[p] \in Nat \ {0} /\ subs \in Seq(Subscriptions)
  BY DEF BusInv, TypeOK, MutexInv, Threads
<1>2. node[p] \in 1 .. Len(subs) /\ s.pid = job[p].pid
  BY <1>1 DEF Push, InLoop
<1>3. s \in Subscriptions
  BY <1>1, <1>2
<1>4. s.subscriber \in Queues /\ s = [pid |-> job[p].pid, subscriber |-> s.subscriber]
  BY <1>2, <1>3 DEF Subscriptions
<1> QED
  BY <1>1, <1>2, <1>4 DEF Push, InLoop, Goto, Metadata, Locks, Pooled, Publishing

\* A packet that is not distributed yet, or not to this queue, is not in its log.
LEMMA PushIsNew ==
  ASSUME BusInv, NEW p \in Publishers, Push(p)
  PROVE  ~In(log[subs[node[p]].subscriber], job[p].pkt)
<1> DEFINE q == subs[node[p]].subscriber
<1>1. /\ pc[p] = "notify" /\ q \in Queues /\ node[p] \in 1 .. Len(subs)
      /\ subs[node[p]] = [pid |-> job[p].pid, subscriber |-> q]
  BY PushEffect
<1>2. SubsDiffer /\ DistributionInv(p, q)
  BY <1>1 DEF BusInv, DistributionsInv
<1>3. ~ \E i \in 1 .. node[p] - 1 : subs[i] = [pid |-> job[p].pid, subscriber |-> q]
  BY <1>1, <1>2 DEF SubsDiffer
<1> QED
  BY <1>1, <1>2, <1>3 DEF DistributionInv, Holding, Reached

\* What an append does to a queue or a log.
LEMMA Appended ==
  ASSUME NEW S, NEW s \in Seq(S), NEW x \in S
  PROVE  /\ Len(s) \in Nat /\ Len(Append(s, x)) = Len(s) + 1 /\ Append(s, x) # <<>>
         /\ \A i \in 1 .. Len(s) : Append(s, x)[i] = s[i]
         /\ Append(s, x)[Len(s) + 1] = x
         /\ \A y : In(Append(s, x), y) <=> In(s, y) \/ y = x
<1>1. /\ Len(s) \in Nat /\ Len(Append(s, x)) = Len(s) + 1 /\ Append(s, x) # <<>>
      /\ \A i \in 1 .. Len(s) : Append(s, x)[i] = s[i]
      /\ Append(s, x)[Len(s) + 1] = x
  OBVIOUS
<1> QED
  BY <1>1 DEF In

\* Every queue keeps within its limit, every entry was pushed, and a consumer's
\* entry stays the first of its queue.
LEMMA QueuesKept == ASSUME BusInv, [Next]_vars PROVE QueuesInv'
<1>1. /\ TypeOK /\ MutexInv /\ JobsInv /\ QueuesInv /\ QueueSize \in Nat
      /\ \A q \in Queues : queue[q] \in Seq(Entries) /\ log[q] \in Seq(Packets)
  BY LimitsAssumption DEF BusInv, TypeOK
<1>2. ASSUME NEW q \in Queues, queue'[q] = queue[q], log'[q] = log[q], pc'[q] = pc[q],
             ent'[q] = ent[q]
      PROVE  QueueInv(q)'
  BY <1>1, <1>2 DEF QueuesInv, QueueInv, In
<1>3. CASE UNCHANGED vars \/ Configure
  BY <1>2, <1>3, ConfigureFrame DEF QueuesInv, vars
<1>4. ASSUME NEW p \in Publishers, PublisherNext(p) PROVE QueuesInv'
  <2>1. \A q \in Queues : pc'[q] = pc[q] /\ ent'[q] = ent[q]
    BY <1>1, <1>4, PublisherFrame, ThreadsDiffer DEF Threads
  <2>2. CASE UNCHANGED <<queue, log>>
    BY <1>2, <2>1, <2>2 DEF QueuesInv
  <2>3. CASE Push(p)
    <3> DEFINE x == job[p].pkt
               e == [pid |-> job[p].pid, pkt |-> x, data |-> job[p].data]
    <3>1. PICK q \in Queues :
          /\ Len(queue[q]) < QueueSize
          /\ queue'[q] = Append(queue[q], e) /\ log'[q] = Append(log[q], x)
          /\ \A r \in Queues \ {q} : queue'[r] = queue[r] /\ log'[r] = log[r]
          /\ pc[p] = "notify" /\ FromPool(p)
      BY <2>3, PushEffect
    <3>2. e \in Entries /\ x \in Packets
      BY <1>1, <3>1 DEF JobsInv, JobInv, Jobs, Entries, FromPool
    <3>3. /\ Len(queue'[q]) = Len(queue[q]) + 1 /\ queue'[q] # <<>> /\ Len(queue[q]) \in Nat
          /\ \A i \in 1 .. Len(queue[q]) : queue'[q][i] = queue[q][i]
          /\ queue'[q][Len(queue[q]) + 1] = e
      <4> HIDE DEF e
      <4> QED
        BY <1>1, <3>1, <3>2, Appended
    <3>4. \A y : In(log'[q], y) <=> In(log[q], y) \/ y = x
      BY <1>1, <3>1, <3>2, Appended
    <3>5. \A i \in 1 .. Len(queue'[q]) : In(log'[q], queue'[q][i].pkt)
      <4>1. e.pkt = x /\ QueueInv(q)
        BY <1>1, <3>1 DEF QueuesInv
      <4> HIDE DEF e, x
      <4> QED
        BY <3>3, <3>4, <4>1 DEF QueueInv
    <3>6. pc[q] # "idle" => 1 \in 1 .. Len(queue[q])
      BY <1>1, <3>1, EmptySeq DEF QueuesInv, QueueInv
    <3>7. QueueInv(q)'
      <4>1. QueueInv(q)
        BY <1>1, <3>1 DEF QueuesInv
      <4>2. Len(queue'[q]) <= QueueSize
        BY <1>1, <3>1, <3>3
      <4>3. pc'[q] # "idle" => queue'[q] # <<>> /\ ent'[q] = queue'[q][1]
        BY <2>1, <3>3, <3>6, <4>1 DEF QueueInv
      <4> QED
        BY <3>5, <4>2, <4>3 DEF QueueInv
    <3> QED
      BY <1>2, <2>1, <3>1, <3>7 DEF QueuesInv
  <2> QED
    BY <1>4, <2>2, <2>3, OnlyPushDelivers
<1>5. ASSUME NEW q \in Queues, ConsumerStep(q) PROVE QueuesInv'
  <2>1. /\ log' = log
        /\ \A r \in Queues \ {q} : queue'[r] = queue[r] /\ ent'[r] = ent[r] /\ pc'[r] = pc[r]
    BY <1>1, <1>5, ConsumerFrame DEF Threads
  <2>2. QueueInv(q)'
    <3>1. QueueInv(q) /\ q \in DOMAIN pc /\ DOMAIN queue = Queues /\ DOMAIN ent = Queues
      BY <1>1 DEF QueuesInv, MutexInv, Threads, TypeOK
    <3>2. CASE Peek(q)
      BY <1>1, <2>1, <3>1, <3>2 DEF Peek, QueueInv, In
    <3>3. CASE EnterRead(q) \/ ExitRead(q) \/ PopRelease(q)
      BY <1>1, <2>1, <3>1, <3>3
      DEF EnterRead, ExitRead, PopRelease, QueueInv, In, Goto, Receiving
    <3>4. CASE Pop(q)
      <4>1. queue[q] # <<>> /\ queue'[q] = Tail(queue[q]) /\ pc'[q] = "idle"
        BY <3>1, <3>4 DEF Pop, Goto
      <4>2. /\ Len(queue'[q]) = Len(queue[q]) - 1 /\ Len(queue[q]) \in Nat
            /\ \A i \in 1 .. Len(queue[q]) - 1 : queue'[q][i] = queue[q][i + 1]
        BY <1>1, <4>1
      <4> QED
        BY <1>1, <2>1, <3>1, <4>1, <4>2 DEF QueueInv, In
    <3> QED
      BY <1>5, <3>2, <3>3, <3>4 DEF ConsumerStep
  <2> QED
    BY <1>2, <2>1, <2>2 DEF QueuesInv
<1> QED
  BY <1>3, <1>4, <1>5, NextSteps

\* Every log keeps packets apart and in the order of the other logs: a packet
\* that is pushed is the last of every log it is in.
LEMMA LogsKept == ASSUME BusInv, [Next]_vars PROVE LogsInv'
<1>1. /\ TypeOK /\ MutexInv /\ JobsInv /\ DistributionsInv /\ LogsInv /\ issued \in Nat
      /\ \A q \in Queues : log[q] \in Seq(Packets) /\ Len(log[q]) \in Nat
  BY LimitsAssumption DEF BusInv, TypeOK, Packets
<1>2. ASSUME log' = log, issued' \in Nat, issued <= issued' PROVE LogsInv'
  <2>1. 1 .. issued \subseteq 1 .. issued'
    BY <1>1, <1>2
  <2>2. \A q \in Queues : \A i \in 1 .. Len(log[q]) : log[q][i] \in 1 .. issued'
    BY <1>1, <2>1 DEF LogsInv
  <2>3. ASSUME NEW q \in Queues, NEW r \in Queues PROVE SameOrder(q, r)'
    <3>1. SameOrder(q, r)
      BY <1>1 DEF LogsInv
    <3>2. log'[q] = log[q] /\ log'[r] = log[r]
      BY <1>2
    <3> QED
      BY <3>1, <3>2 DEF SameOrder
  <2> QED
    BY <1>1, <1>2, <2>2, <2>3 DEF LogsInv
<1>3. CASE UNCHANGED vars \/ Configure
  BY <1>1, <1>2, <1>3, ConfigureFrame DEF vars
<1>4. ASSUME NEW p \in Publishers, PublisherNext(p) PROVE LogsInv'
  <2>1. CASE UNCHANGED <<queue, log>>
    BY <1>1, <1>2, <1>4, <2>1, PublisherFrame
  <2>2. CASE Push(p)
    <3> DEFINE x == job[p].pkt
    <3>1. PICK q \in Queues :
            /\ log'[q] = Append(log[q], x) /\ ~In(log[q], x)
            /\ \A r \in Queues \ {q} : log'[r] = log[r]
            /\ pc[p] = "notify" /\ issued' = issued
      <4> DEFINE to == subs[node[p]].subscriber
      <4>1. /\ to \in Queues /\ log'[to] = Append(log[to], x)
            /\ \A r \in Queues \ {to} : log'[r] = log[r]
            /\ pc[p] = "notify" /\ issued' = issued
        BY <2>2, PushEffect
      <4>2. ~In(log[to], x)
        BY <2>2, PushIsNew
      <4> HIDE DEF to, x
      <4> QED
        BY <4>1, <4>2
    <3>2. x \in 1 .. issued /\ x \in Packets
      BY <1>1, <3>1 DEF JobsInv, JobInv, Jobs
    <3>3. \A r \in Queues : /\ In(log[r], x) => log[r][Len(log[r])] = x
                            /\ \A i \in 1 .. Len(log[r]) : log[r][i] \in 1 .. issued
                            /\ \A i, j \in 1 .. Len(log[r]) : log[r][i] = log[r][j] => i = j
      BY <1>1, <3>1 DEF DistributionsInv, DistributionInv, Holding, LogsInv
    <3>4. /\ Len(log'[q]) = Len(log[q]) + 1 /\ log'[q][Len(log[q]) + 1] = x
          /\ \A i \in 1 .. Len(log[q]) : log'[q][i] = log[q][i]
      BY <1>1, <3>1, <3>2, Appended
    <3> HIDE DEF x
    <3>5. ASSUME NEW r \in Queues
          PROVE  /\ Len(log'[r]) \in Nat
                 /\ \A i \in 1 .. Len(log'[r]) :
                      IF log'[r][i] = x THEN i = Len(log'[r])
                      ELSE i \in 1 .. Len(log[r]) /\ log'[r][i] = log[r][i]
      <4>1. CASE r = q
        BY <1>1, <3>1, <3>4, <4>1 DEF In
      <4>2. CASE r # q
        <5>1. log'[r] = log[r]
          BY <3>1, <4>2
        <5>2. \A i \in 1 .. Len(log[r]) : log[r][i] = x => i = Len(log[r])
          BY <1>1, <3>3 DEF In
        <5> QED
          BY <1>1, <5>1, <5>2
      <4> QED
        BY <4>1, <4>2
    <3>6. \A r \in Queues : \A i \in 1 .. Len(log'[r]) : log'[r][i] \in 1 .. issued'
      BY <3>1, <3>2, <3>3, <3>5
    <3>7. \A r \in Queues : \A i, j \in 1 .. Len(log'[r]) : log'[r][i] = log'[r][j] => i = j
      BY <3>3, <3>5
    <3>8. ASSUME NEW a \in Queues, NEW b \in Queues PROVE SameOrder(a, b)'
      <4>1. SameOrder(a, b)
        BY <1>1 DEF LogsInv
      <4>2. SUFFICES ASSUME NEW i \in 1 .. Len(log'[a]), NEW j \in 1 .. Len(log'[a]),
                            NEW k \in 1 .. Len(log'[b]), NEW l \in 1 .. Len(log'[b]),
                            log'[a][i] = log'[b][k], log'[a][j] = log'[b][l]
                     PROVE  i < j <=> k < l
        BY DEF SameOrder
      <4>3. CASE x \in {log'[a][i], log'[a][j]}
        BY <3>5, <4>2, <4>3
      <4>4. CASE x \notin {log'[a][i], log'[a][j]}
        BY <3>5, <4>1, <4>2, <4>4 DEF SameOrder
      <4> QED
        BY <4>3, <4>4
    <3> QED
      BY <3>6, <3>7, <3>8 DEF LogsInv
  <2> QED
    BY <1>4, <2>1, <2>2, OnlyPushDelivers
<1>5. ASSUME NEW q \in Queues, ConsumerStep(q) PROVE LogsInv'
  BY <1>1, <1>2, <1>5, ConsumerFrame
<1> QED
  BY <1>3, <1>4, <1>5, NextSteps

\* A publisher whose place, job and loop stay, with a log that stays, has
\* distributed what it had.
LEMMA DistributionUntouched ==
  ASSUME NEW o, NEW q, DistributionInv(o, q), pc'[o] = pc[o], job'[o] = job[o],
         node'[o] = node[o], log'[q] = log[q], subs' = subs \/ pc[o] \notin Holding
  PROVE  DistributionInv(o, q)'
BY DEF DistributionInv, In, FromPool, Reached

\* A publisher distributes its own packet, one subscription after the other.
LEMMA DistributionAdvances ==
  ASSUME BusInv, NEW p \in Publishers, PublisherNext(p), NEW q \in Queues
  PROVE  DistributionInv(p, q)'
<1> USE DEF Goto
<1>1. /\ TypeOK /\ MutexInv /\ JobInv(p) /\ DistributionInv(p, q) /\ LogsInv
      /\ p \in DOMAIN pc /\ p \in DOMAIN job /\ p \in DOMAIN node /\ node[p] \in Nat \ {0}
      /\ issued \in Nat /\ log[q] \in Seq(Packets)
  BY LimitsAssumption, SMTT(30)
  DEF BusInv, JobsInv, DistributionsInv, TypeOK, MutexInv, Threads, Packets
<1>2. CASE Publish(p) \/ PublishOwn(p)
  <2>1. pc'[p] \in {"search", "release"} /\ log' = log
    BY <1>1, <1>2 DEF Publish, PublishOwn, NewJob, Receiving
  <2>2. job'[p].pkt = issued + 1
    BY <1>2, <2>1, PacketFollowed DEF Publish, PublishOwn
  <2>3. ~In(log[q], issued + 1)
    BY <1>1 DEF LogsInv, In
  <2> QED
    BY <2>1, <2>2, <2>3 DEF DistributionInv, Holding, In
<1>3. CASE Reserve(p)
  <2>1. /\ pc[p] \in Undistributed /\ log' = log
        /\ pc'[p] \in {"search", "request", "fill", "release", "idle"}
    BY <1>1, <1>3
    DEF Reserve, SkipPool, ChoosePool, NoPool, Request, Fill, Receiving, Undistributed
  <2>2. pc'[p] # "idle" => job'[p].pkt = job[p].pkt
    BY <1>3, <2>1, PacketFollowed DEF PublisherNext, PublisherStep, Undistributed
  <2> QED
    BY <1>1, <2>1, <2>2 DEF DistributionInv, Holding, Undistributed, In
<1>4. CASE LockBus(p) \/ EnterWrite(p)
  <2>1. /\ pc[p] \in Undistributed /\ log' = log /\ job' = job /\ subs' = subs
        /\ pc'[p] \in {"writer", "notify"} /\ node'[p] = 1
    BY <1>1, <1>4
    DEF LockBus, EnterWrite, Metadata, Receiving, Publishing, Undistributed, JobInv
  <2>2. Reached(p)' = 0 /\ ~In(log'[q], job'[p].pkt)
    BY <1>1, <2>1 DEF Reached, DistributionInv
  <2> QED
    BY <2>1, <2>2 DEF DistributionInv
<1>5. CASE SkipSub(p)
  <2>1. /\ pc[p] = "notify" /\ pc'[p] = "notify" /\ log' = log /\ job' = job /\ subs' = subs
        /\ node'[p] = node[p] + 1
        /\ subs[node[p]].pid # job[p].pid \/ ~FromPool(p)
    BY <1>1, <1>5 DEF SkipSub, InLoop, Metadata, Receiving
  <2>2. Reached(p) = node[p] - 1 /\ Reached(p)' = node[p]
    BY <1>1, <2>1 DEF Reached
  <2>3. FromPool(p) => subs[node[p]] # [pid |-> job[p].pid, subscriber |-> q]
    BY <2>1
  <2>4. (\E i \in 1 .. node[p] : subs[i] = [pid |-> job[p].pid, subscriber |-> q]) /\ FromPool(p)
          => \E i \in 1 .. node[p] - 1 : subs[i] = [pid |-> job[p].pid, subscriber |-> q]
    BY <1>1, <2>3
  <2> QED
    BY <1>1, <2>1, <2>2, <2>4 DEF DistributionInv, Holding, Undistributed, FromPool
<1>6. CASE Push(p)
  <2> DEFINE s == subs[node[p]]
             x == job[p].pkt
  <2>1. /\ pc[p] = "notify" /\ pc'[p] = "ref_add" /\ FromPool(p) /\ x \in Packets
        /\ s = [pid |-> job[p].pid, subscriber |-> s.subscriber]
        /\ job' = job /\ subs' = subs /\ node' = node
        /\ IF q = s.subscriber THEN log'[q] = Append(log[q], x) ELSE log'[q] = log[q]
    <3>1. /\ pc[p] = "notify" /\ pc'[p] = "ref_add" /\ FromPool(p)
          /\ s = [pid |-> job[p].pid, subscriber |-> s.subscriber]
          /\ job' = job /\ subs' = subs /\ node' = node
          /\ log'[s.subscriber] = Append(log[s.subscriber], x)
          /\ \A r \in Queues \ {s.subscriber} : log'[r] = log[r]
      BY <1>6, PushEffect
    <3>2. x \in Packets
      BY <1>1, <3>1 DEF JobInv, Jobs
    <3> HIDE DEF s, x
    <3> QED
      BY <3>1, <3>2 DEF s
  <2>2. Reached(p) = node[p] - 1 /\ Reached(p)' = node[p]
    BY <2>1 DEF Reached
  <2>3. CASE q = s.subscriber
    <3>1. /\ \A y : In(log'[q], y) <=> In(log[q], y) \/ y = x
          /\ log'[q][Len(log'[q])] = x
      <4>1. log'[q] = Append(log[q], x) /\ x \in Packets
        BY <2>1, <2>3
      <4> HIDE DEF x
      <4> QED
        BY <1>1, <4>1, Appended
    <3>2. \E i \in 1 .. node[p] : subs[i] = [pid |-> job[p].pid, subscriber |-> q]
      BY <1>1, <2>1, <2>3
    <3> QED
      BY <2>1, <2>2, <3>1, <3>2 DEF DistributionInv, Undistributed, FromPool
  <2>4. CASE q # s.subscriber
    <3>1. s # [pid |-> job[p].pid, subscriber |-> q] /\ log'[q] = log[q]
      BY <2>1, <2>4
    <3>2. (\E i \in 1 .. node[p] : subs[i] = [pid |-> job[p].pid, subscriber |-> q])
            <=> \E i \in 1 .. node[p] - 1 : subs[i] = [pid |-> job[p].pid, subscriber |-> q]
      BY <1>1, <3>1
    <3> QED
      BY <1>1, <2>1, <2>2, <3>1, <3>2 DEF DistributionInv, Undistributed, Holding, FromPool
  <2> QED
    BY <2>3, <2>4
<1>7. CASE RefAdd(p) \/ Release(p) \/ ExitWrite(p)
  <2>1. /\ pc[p] \in Holding /\ pc'[p] \in Holding \ Undistributed
        /\ log' = log /\ job' = job /\ subs' = subs
        /\ Reached(p)' = Reached(p)
    BY <1>1, <1>7
    DEF RefAdd, Release, ExitWrite, Metadata, Receiving, Publishing, Holding, Undistributed,
        Reached
  <2> QED
    BY <1>1, <2>1 DEF DistributionInv, FromPool
<1>8. CASE UnlockBus(p)
  BY <1>1, <1>8 DEF UnlockBus, DistributionInv, Undistributed, Holding
<1> QED
  BY <1>2, <1>3, <1>4, <1>5, <1>6, <1>7, <1>8
  DEF PublisherNext, PublisherStep, Notify, Unwind

\* While one publisher distributes, no other does, and subscriptions stay.
LEMMA DistributionsKept == ASSUME BusInv, [Next]_vars PROVE DistributionsInv'
<1>1. /\ TypeOK /\ MutexInv /\ JobsInv /\ PacketsDiffer /\ DistributionsInv
      /\ \A q \in Queues : log[q] \in Seq(Packets)
      /\ \A o \in Publishers : o \in Threads
  BY DEF BusInv, TypeOK, Threads
<1>2. CASE UNCHANGED vars
  BY <1>1, <1>2, DistributionUntouched DEF DistributionsInv, vars
<1>3. CASE Configure
  <2>1. \A o \in Publishers : pc[o] \notin Holding
    BY <1>1, <1>3, ConfigureFrame, ThreadsDiffer DEF MutexInv
  <2> QED
    BY <1>1, <1>3, <2>1, ConfigureFrame, DistributionUntouched DEF DistributionsInv
<1>4. ASSUME NEW p \in Publishers, PublisherNext(p), NEW o \in Publishers \ {p}, NEW q \in Queues
      PROVE  DistributionInv(o, q)'
  <2>1. /\ pc'[o] = pc[o] /\ job'[o] = job[o] /\ node'[o] = node[o] /\ subs' = subs
        /\ DistributionInv(o, q)
    BY <1>1, <1>4, PublisherFrame DEF DistributionsInv
  <2>2. CASE UNCHANGED <<queue, log>>
    BY <2>1, <2>2, DistributionUntouched
  <2>3. CASE Push(p)
    <3> DEFINE x == job[p].pkt
               to == subs[node[p]].subscriber
    <3>1. /\ pc[p] = "notify" /\ to \in Queues /\ log'[to] = Append(log[to], x)
          /\ \A r \in Queues \ {to} : log'[r] = log[r]
      BY <2>3, PushEffect
    <3>2. x \in Packets
      BY <1>1, <3>1 DEF JobsInv, JobInv, Jobs
    <3>3. pc[o] \notin Holding
      BY <1>1, <3>1 DEF MutexInv, Holding
    <3>4. pc[o] \in Undistributed => job[o].pkt # x
      BY <1>1, <3>1 DEF PacketsDiffer, Undistributed
    <3>5. \A y : In(log'[q], y) => In(log[q], y) \/ y = x
      <4> HIDE DEF x, to
      <4>1. CASE q = to
        <5>1. log'[q] = Append(log[q], x)
          BY <3>1, <4>1
        <5> QED
          BY <1>1, <3>2, <5>1, Appended
      <4>2. CASE q # to
        BY <3>1, <4>2
      <4> QED
        BY <4>1, <4>2
    <3> QED
      BY <2>1, <3>3, <3>4, <3>5 DEF DistributionInv
  <2> QED
    BY <1>4, <2>2, <2>3, OnlyPushDelivers
<1>5. ASSUME NEW q \in Queues, ConsumerStep(q) PROVE DistributionsInv'
  <2>1. UNCHANGED <<subs, job, node, log>> /\ \A o \in Publishers : pc'[o] = pc[o]
    BY <1>1, <1>5, ConsumerFrame, ThreadsDiffer
  <2> QED
    BY <1>1, <2>1, DistributionUntouched DEF DistributionsInv
<1> QED
  BY <1>2, <1>3, <1>4, <1>5, NextSteps, DistributionAdvances DEF DistributionsInv

-----------------------------------------------------------------------------
(* What holds on every bus.                                                *)

\* It holds of a bus that was just initialised.
LEMMA BusInvInit == ASSUME Init PROVE BusInv
<1> USE ThreadsDiffer, LimitsAssumption
<1>1. /\ \A p \in Publishers : pc[p] = "idle"
      /\ \A q \in Queues : pc[q] = "idle" /\ queue[q] = <<>> /\ log[q] = <<>>
      /\ subs = <<>> /\ mutex = NoThread
  BY DEF Init
<1>2. TypeOK
  <2>1. /\ queue \in [Queues -> Seq(Entries)] /\ log \in [Queues -> Seq(Packets)]
        /\ subs \in Seq(Subscriptions)
    BY DEF Init
  <2>2. /\ refs \in [Chunks -> Nat] /\ content \in [Chunks -> Packets] /\ free \subseteq Chunks
        /\ issued \in Packets /\ n_rxqs \in 0 .. MaxRxqs
    BY DEF Init, Packets
  <2>3. /\ job \in [Publishers -> Jobs \cup {NoJob}] /\ node \in [Publishers -> Nat \ {0}]
        /\ ent \in [Queues -> Entries \cup {NoEntry}]
        /\ mutex \in Publishers \cup {NoThread} /\ readers \subseteq Queues
        /\ writers \subseteq Publishers
    BY DEF Init
  <2> QED
    BY <1>1, <2>1, <2>2, <2>3 DEF TypeOK, PublisherLabels, ConsumerLabels
<1>3. MutexInv
  BY <1>1 DEF Init, MutexInv, Threads, PublisherLabels, Holding
<1>4. JobsInv /\ PacketsDiffer
  BY <1>1 DEF JobsInv, JobInv, PacketsDiffer, Holding
<1>5. SubsDiffer
  BY <1>1 DEF SubsDiffer
<1>6. QueuesInv
  BY <1>1 DEF QueuesInv, QueueInv
<1>7. DistributionsInv
  BY <1>1 DEF DistributionsInv, DistributionInv, Undistributed, Holding
<1>8. LogsInv
  BY <1>1 DEF LogsInv, SameOrder
<1> QED
  BY <1>2, <1>3, <1>4, <1>5, <1>6, <1>7, <1>8 DEF BusInv

\* Every step of the bus keeps it.
LEMMA BusInvKept == ASSUME BusInv, [Next]_vars PROVE BusInv'
BY TypesKept, MutexKept, JobsKept, PacketsDifferKept, SubsDifferKept, QueuesKept,
   DistributionsKept, LogsKept
DEF BusInv

\* What is where, and who works on what, is as BusInv says in every state of
\* the bus.
THEOREM BusInvariant == Spec => []BusInv
<1>1. Init => BusInv
  BY BusInvInit
<1>2. BusInv /\ [Next]_vars => BusInv'
  BY BusInvKept
<1> QED
  BY <1>1, <1>2, PTL DEF Spec

\* Every variable of the bus has its type: a chunk that is released, filled or
\* referred to is one of a pool, and a publisher's loop stays in the list.
THEOREM TypeInvariance == Spec => []TypeOK
<1>1. BusInv => TypeOK
  BY DEF BusInv
<1> QED
  BY <1>1, BusInvariant, PTL

\* A packet is at one place of a log that keeps packets apart.
LEMMA PositionIs ==
  ASSUME NEW s, NEW i \in 1 .. Len(s), \A k, l \in 1 .. Len(s) : s[k] = s[l] => k = l
  PROVE  Position(s, s[i]) = i
BY DEF Position

\* Queues that receive the same packets receive them in the same order, and none
\* twice, because one publisher at a time holds the bus mutex and distributes.
THEOREM TotalOrderKept == Spec => []TotalOrder
<1>1. ASSUME BusInv PROVE TotalOrder
  <2>1. \A q \in Queues : \A i, j \in 1 .. Len(log[q]) : log[q][i] = log[q][j] => i = j
    BY <1>1 DEF BusInv, LogsInv
  <2>2. ASSUME NEW q \in Queues, NEW r \in Queues, NEW x, NEW y,
               \A s \in {log[q], log[r]} : In(s, x) /\ In(s, y)
        PROVE  Position(log[q], x) < Position(log[q], y)
                 <=> Position(log[r], x) < Position(log[r], y)
    <3>1. PICK i \in 1 .. Len(log[q]), j \in 1 .. Len(log[q]) : log[q][i] = x /\ log[q][j] = y
      BY <2>2 DEF In
    <3>2. PICK k \in 1 .. Len(log[r]), l \in 1 .. Len(log[r]) : log[r][k] = x /\ log[r][l] = y
      BY <2>2 DEF In
    <3>3. Position(log[q], x) = i /\ Position(log[q], y) = j
      BY <2>1, <3>1, PositionIs
    <3>4. Position(log[r], x) = k /\ Position(log[r], y) = l
      BY <2>1, <3>2, PositionIs
    <3>5. SameOrder(q, r)
      BY <1>1 DEF BusInv, LogsInv
    <3> QED
      BY <3>1, <3>2, <3>3, <3>4, <3>5 DEF SameOrder
  <2> QED
    BY <2>1, <2>2 DEF TotalOrder
<1> QED
  BY <1>1, BusInvariant, PTL

\* When swbus_publish_release is done with the list for a packet from a pool,
\* exactly the queues that subscribed to its ID received it.
THEOREM SubscribersNotified == Spec => []EverySubscriberNotified
<1>1. ASSUME BusInv PROVE EverySubscriberNotified
  <2>1. SUFFICES ASSUME NEW p \in Publishers, NEW q \in Queues,
                        pc[p] = "unlock" /\ FromPool(p)
                 PROVE  In(log[q], job[p].pkt) <=>
                          Subscribed([pid |-> job[p].pid, subscriber |-> q])
    BY DEF EverySubscriberNotified
  <2>2. JobInv(p) /\ DistributionInv(p, q) /\ Len(subs) \in Nat
    BY <1>1 DEF BusInv, JobsInv, DistributionsInv, TypeOK
  <2>3. Reached(p) = Len(subs)
    BY <2>1, <2>2 DEF JobInv, Reached
  <2> QED
    BY <2>1, <2>2, <2>3 DEF DistributionInv, Holding, Subscribed
<1> QED
  BY <1>1, BusInvariant, PTL

-----------------------------------------------------------------------------
(* A synchronous bus: the lock keeps consumers from packets that are still *)
(* distributed.                                                            *)

\* The writer of syncl is the publisher that distributes.
LEMMA WritersKept == ASSUME Synchronous, BusInv, WritersInv, [Next]_vars PROVE WritersInv'
<1>1. TypeOK /\ MutexInv /\ ~Async /\ \A p \in Publishers : p \in DOMAIN pc
  BY DEF BusInv, Synchronous, MutexInv, Threads
<1>2. CASE UNCHANGED vars \/ Configure
  BY <1>2, ConfigureFrame DEF WritersInv, vars
<1>3. ASSUME NEW p \in Publishers, PublisherNext(p) PROVE WritersInv'
  <2>1. \A o \in Publishers \ {p} : pc'[o] = pc[o]
    BY <1>1, <1>3, PublisherFrame DEF Threads
  <2>2. /\ pc'[p] \in {"notify", "ref_add", "exit"} <=> p \in writers'
        /\ \A o \in Publishers \ {p} : o \in writers' <=> o \in writers
    <3> USE DEF Goto, WritersInv
    <3>1. CASE Publish(p) \/ PublishOwn(p)
      BY <1>1, <3>1 DEF Publish, PublishOwn, NewJob, Locks
    <3>2. CASE Reserve(p)
      BY <1>1, <3>2 DEF Reserve, SkipPool, ChoosePool, NoPool, Request, Fill, Locks
    <3>3. CASE LockBus(p) \/ EnterWrite(p)
      BY <1>1, <3>3 DEF LockBus, EnterWrite
    <3>4. CASE Notify(p)
      BY <1>1, <3>4 DEF Notify, SkipSub, Push, RefAdd, Release, InLoop, Locks
    <3>5. CASE Unwind(p)
      BY <1>1, <3>5 DEF Unwind, ExitWrite, UnlockBus
    <3> QED
      BY <1>3, <3>1, <3>2, <3>3, <3>4, <3>5 DEF PublisherNext, PublisherStep
  <2> QED
    BY <2>1, <2>2 DEF WritersInv
<1>4. ASSUME NEW q \in Queues, ConsumerStep(q) PROVE WritersInv'
  <2>1. writers' = writers /\ \A p \in Publishers : pc'[p] = pc[p]
    BY <1>1, <1>4, ConsumerFrame, ThreadsDiffer DEF Threads
  <2> QED
    BY <2>1 DEF WritersInv
<1> QED
  BY <1>2, <1>3, <1>4, NextSteps

\* A consumer gets past syncl only when nobody distributes, and what it then
\* works on is no packet that anybody begins to distribute.
LEMMA BarrierKept ==
  ASSUME Synchronous, BusInv, WritersInv, BarrierInv, [Next]_vars
  PROVE  BarrierInv'
<1>1. /\ TypeOK /\ MutexInv /\ ~Async /\ Fronters = {}
      /\ \A t \in Publishers \cup Queues : t \in DOMAIN pc
  BY DEF BusInv, Synchronous, MutexInv, Threads
<1>2. CASE UNCHANGED vars \/ Configure
  BY <1>2, ConfigureFrame DEF BarrierInv, vars
<1>3. ASSUME NEW p \in Publishers, PublisherNext(p) PROVE BarrierInv'
  <2>1. /\ \A t \in Threads \ {p} : pc'[t] = pc[t]
        /\ \A o \in Publishers \ {p} : job'[o] = job[o]
        /\ ent' = ent /\ p \notin Queues
    BY <1>1, <1>3, PublisherFrame, ThreadsDiffer
  <2>2. ASSUME NEW q \in Queues, pc[q] \in {"synced", "use", "pop"}, pc'[p] \in {"notify", "ref_add"}
        PROVE  ent[q].pkt # job'[p].pkt
    <3>1. /\ job' = job
          /\ pc[p] \in {"notify", "ref_add"} \/ pc[p] = "writer"
      BY <1>1, <1>3, <2>2
      DEF PublisherNext, PublisherStep, Publish, PublishOwn, Reserve, SkipPool, ChoosePool,
          NoPool, Request, Fill, LockBus, EnterWrite, Notify, SkipSub, Push, RefAdd, Release,
          InLoop, Unwind, ExitWrite, UnlockBus, Goto, Publishing
    <3>2. ASSUME pc[p] = "writer" PROVE ent[q].pkt # job[p].pkt
      <4>1. ~In(log[q], job[p].pkt)
        BY <3>2 DEF BusInv, DistributionsInv, DistributionInv, Undistributed
      <4>2. QueueInv(q) /\ queue[q] \in Seq(Entries) /\ pc[q] # "idle"
        BY <2>2 DEF BusInv, QueuesInv, TypeOK
      <4>3. ent[q] = queue[q][1] /\ 1 \in 1 .. Len(queue[q])
        BY <4>2, EmptySeq DEF QueueInv
      <4> QED
        BY <4>1, <4>2, <4>3 DEF QueueInv
    <3> QED
      BY <2>2, <3>1, <3>2 DEF BarrierInv
  <2> QED
    BY <2>1, <2>2 DEF BarrierInv, Threads
<1>4. ASSUME NEW q \in Queues, ConsumerStep(q) PROVE BarrierInv'
  <2>1. /\ job' = job /\ q \notin Publishers
        /\ \A t \in Threads \ {q} : pc'[t] = pc[t]
        /\ \A r \in Queues \ {q} : ent'[r] = ent[r]
    BY <1>1, <1>4, ConsumerFrame, ThreadsDiffer
  <2>2. ASSUME NEW p \in Publishers, pc[p] \in {"notify", "ref_add"},
               pc'[q] \in {"synced", "use", "pop"}
        PROVE  ent'[q].pkt # job[p].pkt
    <3>1. writers # {}
      BY <2>2 DEF WritersInv
    <3>2. ent' = ent /\ pc[q] \in {"synced", "use", "pop"}
      BY <1>1, <1>4, <2>2, <3>1
      DEF ConsumerStep, Peek, EnterRead, ExitRead, PopRelease, Pop, Goto, Receiving
    <3> QED
      BY <2>2, <3>2 DEF BarrierInv
  <2> QED
    BY <2>1, <2>2 DEF BarrierInv, Threads
<1> QED
  BY <1>2, <1>3, <1>4, NextSteps

-----------------------------------------------------------------------------
(* Who refers to a chunk.                                                  *)

\* The references to a chunk are as many as can be counted.
LEMMA HoldersFinite ==
  ASSUME BusInv, NEW c
  PROVE  /\ IsFiniteSet(PublishersOf(c)) /\ Cardinality(PublishersOf(c)) \in Nat
         /\ IsFiniteSet(PushedOnly(c)) /\ Cardinality(PushedOnly(c)) \in Nat
         /\ IsFiniteSet(EntriesOf(c)) /\ Cardinality(EntriesOf(c)) \in Nat
<1>1. PublishersOf(c) \subseteq Publishers /\ PushedOnly(c) \subseteq Publishers
  BY DEF PublishersOf, PushedOnly
<1>2. IsFiniteSet(PublishersOf(c)) /\ IsFiniteSet(PushedOnly(c))
  BY <1>1, ThreadsAssumption, FS_Subset
<1>3. EntriesOf(c) \subseteq Queues \X (1 .. QueueSize)
  <2>1. \A q \in Queues : Len(queue[q]) \in Nat /\ Len(queue[q]) <= QueueSize
    BY DEF BusInv, TypeOK, QueuesInv, QueueInv
  <2> QED
    BY <2>1, LimitsAssumption DEF EntriesOf
<1>4. IsFiniteSet(Queues \X (1 .. QueueSize))
  <2>1. {1, MaxRxqs, QueueSize} \subseteq Int
    BY LimitsAssumption
  <2>2. IsFiniteSet(Queues) /\ IsFiniteSet(1 .. QueueSize)
    BY <2>1, FS_Interval DEF Queues
  <2> QED
    BY <2>2, FS_Product
<1>5. IsFiniteSet(EntriesOf(c))
  BY <1>3, <1>4, FS_Subset
<1> QED
  BY <1>2, <1>5, FS_CardinalityType

\* An entry holds a reference from its push until its consumer's release.
LEMMA EntriesAre ==
  ASSUME NEW c
  PROVE  \A n : n \in EntriesOf(c) <=>
           \E q \in Queues : \E i \in 1 .. Len(queue[q]) :
             n = <<q, i>> /\ queue[q][i].data = c /\ (i = 1 => pc[q] # "pop")
BY DEF EntriesOf

\* A chunk stays accounted for when its holders, its count and its packet stay.
LEMMA ChunkUntouched ==
  ASSUME NEW c, HolderInv(c), Account(c),
         PublishersOf(c)' = PublishersOf(c), PushedOnly(c)' = PushedOnly(c),
         EntriesOf(c)' = EntriesOf(c), refs'[c] = refs[c], c \in free' <=> c \in free,
         PublishersOf(c) # {} \/ EntriesOf(c) # {} => content'[c] = content[c],
         \A p \in PublishersOf(c) :
           (pc'[p] = "fill" <=> pc[p] = "fill") /\ job'[p].pkt = job[p].pkt,
         \A n \in EntriesOf(c) : queue'[n[1]][n[2]].pkt = queue[n[1]][n[2]].pkt
  PROVE  HolderInv(c)' /\ Account(c)'
<1>1. HolderInv(c)'
  BY DEF HolderInv
<1>2. Account(c)'
  BY DEF Account
<1> QED
  BY <1>1, <1>2

\* The other publishers keep the references they have, and entries that stay in
\* the queues keep theirs.
LEMMA OthersHold ==
  ASSUME BusInv, NEW p \in Publishers, PublisherNext(p), NEW c
  PROVE  /\ PublishersOf(c)' \ {p} = PublishersOf(c) \ {p}
         /\ PushedOnly(c)' \ {p} = PushedOnly(c) \ {p}
         /\ \A o \in PublishersOf(c) \ {p} : pc'[o] = pc[o] /\ job'[o] = job[o]
         /\ UNCHANGED queue => EntriesOf(c)' = EntriesOf(c)
<1>1. /\ \A t \in Threads \ {p} : pc'[t] = pc[t]
      /\ \A o \in Publishers \ {p} : job'[o] = job[o]
  BY PublisherFrame DEF BusInv
<1>2. \A q \in Queues : pc'[q] = pc[q]
  BY <1>1, ThreadsDiffer DEF Threads
<1>3. UNCHANGED queue => EntriesOf(c)' = EntriesOf(c)
  BY <1>2 DEF EntriesOf
<1> QED
  BY <1>1, <1>3 DEF PublishersOf, PushedOnly, Threads

-----------------------------------------------------------------------------
(* Every step keeps the account of every chunk.                            *)

\* Sets that differ in nothing but perhaps one element, and not in that.
LEMMA SameButOne ==
  ASSUME NEW S, NEW T, NEW x, S \ {x} = T \ {x}, x \in S <=> x \in T
  PROVE  S = T
OBVIOUS

\* A step that takes and gives no reference to a chunk.
LEMMA QuietChunk ==
  ASSUME BusInv, ChunksInv, NEW p \in Publishers, PublisherNext(p), NEW c \in Chunks,
         refs'[c] = refs[c], content'[c] = content[c], c \in free' <=> c \in free,
         EntriesOf(c)' = EntriesOf(c),
         \A n \in EntriesOf(c) : queue'[n[1]][n[2]].pkt = queue[n[1]][n[2]].pkt,
         p \in PublishersOf(c)' <=> p \in PublishersOf(c),
         p \in PushedOnly(c)' <=> p \in PushedOnly(c),
         p \in PublishersOf(c) => (pc'[p] = "fill" <=> pc[p] = "fill")
  PROVE  HolderInv(c)' /\ Account(c)'
<1>1. HolderInv(c) /\ Account(c)
  BY DEF ChunksInv
<1>2. /\ PublishersOf(c)' \ {p} = PublishersOf(c) \ {p}
      /\ PushedOnly(c)' \ {p} = PushedOnly(c) \ {p}
      /\ \A o \in PublishersOf(c) \ {p} : pc'[o] = pc[o] /\ job'[o] = job[o]
  BY OthersHold
<1>3. PublishersOf(c)' = PublishersOf(c) /\ PushedOnly(c)' = PushedOnly(c)
  BY <1>2, SameButOne
<1>4. p \in PublishersOf(c) => job'[p].pkt = job[p].pkt
  <2>1. p \in PublishersOf(c) => pc[p] # "idle" /\ pc'[p] # "idle"
    BY <1>3 DEF PublishersOf, Granted
  <2> QED
    BY <2>1, PacketFollowed
<1>5. \A o \in PublishersOf(c) : (pc'[o] = "fill" <=> pc[o] = "fill") /\ job'[o].pkt = job[o].pkt
  BY <1>2, <1>4
<1> QED
  BY <1>1, <1>3, <1>5, ChunkUntouched

\* A step that takes and gives no reference to any.
LEMMA QuietStep ==
  ASSUME BusInv, ChunksInv, NEW p \in Publishers, PublisherNext(p),
         UNCHANGED <<queue, refs, free, content>>, pc'[p] = "fill" <=> pc[p] = "fill",
         \A c \in Chunks : /\ p \in PublishersOf(c)' <=> p \in PublishersOf(c)
                           /\ p \in PushedOnly(c)' <=> p \in PushedOnly(c)
  PROVE  ChunksInv'
<1>1. \A c \in Chunks : EntriesOf(c)' = EntriesOf(c)
  BY OthersHold
<1>2. \A c \in Chunks : HolderInv(c)' /\ Account(c)'
  BY <1>1, QuietChunk
<1> QED
  BY <1>2 DEF ChunksInv

\* Steps before the grant of a chunk, between the calls of the pool, and after
\* the release.
LEMMA QuietSteps ==
  ASSUME Synchronous, BusInv, ChunksInv, NEW p \in Publishers,
         \/ Publish(p) \/ PublishOwn(p) \/ SkipPool(p) \/ ChoosePool(p) \/ NoPool(p)
         \/ LockBus(p) \/ EnterWrite(p) \/ SkipSub(p) \/ ExitWrite(p) \/ UnlockBus(p)
  PROVE  ChunksInv'
<1> USE DEF Goto, PublishersOf, PushedOnly, Granted
<1>1. p \in DOMAIN pc /\ p \in DOMAIN job /\ ~Async
  BY DEF BusInv, TypeOK, MutexInv, Threads, Synchronous
<1>2. CASE Publish(p) \/ PublishOwn(p)
  <2>1. /\ UNCHANGED <<queue, refs, free, content>>
        /\ pc[p] = "idle" /\ pc'[p] \in {"search", "release"}
    BY <1>1, <1>2 DEF Publish, PublishOwn, NewJob, Pooled, Receiving
  <2>2. job'[p].data = NoChunk
    BY <1>1, <1>2 DEF Publish, PublishOwn, NewJob
  <2> QED
    BY <1>2, <2>1, <2>2, ChunksOfPools, QuietStep DEF PublisherNext
<1>3. CASE SkipPool(p) \/ ChoosePool(p) \/ NoPool(p)
  <2>1. /\ UNCHANGED <<queue, refs, free, content>>
        /\ pc[p] \in {"search"} /\ pc'[p] \in {"search", "request", "idle"}
    BY <1>1, <1>3 DEF SkipPool, ChoosePool, NoPool, Pooled, Receiving
  <2> QED
    BY <1>3, <2>1, QuietStep DEF PublisherNext, PublisherStep, Reserve
<1>4. CASE LockBus(p) \/ EnterWrite(p) \/ SkipSub(p)
  <2>1. /\ UNCHANGED <<queue, refs, free, content, job>>
        /\ {pc[p], pc'[p]} \subseteq {"release", "writer", "notify"}
    BY <1>1, <1>4 DEF LockBus, EnterWrite, SkipSub, InLoop, Pooled, Receiving, Publishing
  <2> QED
    BY <1>4, <2>1, QuietStep DEF PublisherNext, PublisherStep, Notify
<1>5. CASE ExitWrite(p) \/ UnlockBus(p)
  <2>1. /\ UNCHANGED <<queue, refs, free, content>>
        /\ {pc[p], pc'[p]} \subseteq {"exit", "unlock", "idle"}
    BY <1>1, <1>5 DEF ExitWrite, UnlockBus, Pooled, Receiving
  <2> QED
    BY <1>5, <2>1, QuietStep DEF PublisherNext, PublisherStep, Unwind
<1> QED
  BY <1>2, <1>3, <1>4, <1>5

\* The publisher that has a chunk is the only one.
LEMMA OnlyHolder ==
  ASSUME NEW c \in Chunks, ChunksInv, NEW p \in PublishersOf(c)
  PROVE  /\ PublishersOf(c) = {p}
         /\ PushedOnly(c) = IF pc[p] = "ref_add" THEN {p} ELSE {}
<1>1. \A o \in PublishersOf(c) : o = p
  BY DEF ChunksInv, HolderInv
<1>2. \A o \in PushedOnly(c) : o \in PublishersOf(c) /\ pc[o] = "ref_add"
  BY DEF PushedOnly, PublishersOf, Granted
<1>3. pc[p] = "ref_add" => p \in PushedOnly(c)
  BY DEF PushedOnly, PublishersOf
<1> QED
  BY <1>1, <1>2, <1>3

\* mpool_req grants a chunk that nobody refers to.
LEMMA RequestKeeps ==
  ASSUME BusInv, ChunksInv, NEW p \in Publishers, Request(p)
  PROVE  ChunksInv'
<1>1. PICK d \in FreeIn(job[p].pool) :
        /\ free' = free \ {d} /\ refs' = [refs EXCEPT ![d] = @ + 1]
        /\ job' = [job EXCEPT ![p].data = d]
  BY DEF Request
<1>2. /\ pc[p] = "request" /\ pc'[p] = "fill" /\ UNCHANGED <<queue, content>>
      /\ d \in free /\ d \in Chunks /\ DOMAIN refs = Chunks /\ job'[p].data = d
      /\ refs[d] \in Nat
  <2>1. p \in DOMAIN pc /\ p \in DOMAIN job /\ job[p] \in Jobs /\ free \subseteq Chunks
        /\ refs \in [Chunks -> Nat]
    BY DEF BusInv, TypeOK, MutexInv, Threads, JobsInv, JobInv, Request, Goto
  <2> QED
    BY <1>1, <2>1 DEF Request, Goto, FreeIn, Receiving, Jobs
<1>3. \A c \in Chunks : EntriesOf(c)' = EntriesOf(c)
  BY <1>2, OthersHold DEF PublisherNext, PublisherStep, Reserve
<1>4. ASSUME NEW c \in Chunks \ {d} PROVE HolderInv(c)' /\ Account(c)'
  <2>1. /\ p \notin PublishersOf(c)' /\ p \notin PublishersOf(c)
        /\ p \notin PushedOnly(c)' /\ p \notin PushedOnly(c)
    BY <1>2 DEF PublishersOf, PushedOnly, Granted
  <2>2. refs'[c] = refs[c] /\ content'[c] = content[c] /\ (c \in free' <=> c \in free)
    BY <1>1, <1>2
  <2> QED
    BY <1>2, <1>3, <2>1, <2>2, QuietChunk DEF PublisherNext, PublisherStep, Reserve
<1>5. HolderInv(d)' /\ Account(d)'
  <2>1. PublishersOf(d) = {} /\ EntriesOf(d) = {} /\ Account(d)
    BY <1>2 DEF ChunksInv, Account
  <2>2. PublishersOf(d)' = {p} /\ PushedOnly(d)' = {} /\ EntriesOf(d)' = {} /\ PushedOnly(d) = {}
    <3>1. PushedOnly(d)' \ {p} = {} /\ PushedOnly(d) = {} /\ PublishersOf(d)' \ {p} = {}
      <4>1. PushedOnly(d) = {}
        BY <2>1 DEF PushedOnly, PublishersOf, Granted
      <4> QED
        BY <2>1, <4>1, OthersHold DEF PublisherNext, PublisherStep, Reserve
    <3>2. p \in PublishersOf(d)' /\ p \notin PushedOnly(d)'
      BY <1>2 DEF PublishersOf, PushedOnly, Granted
    <3> QED
      BY <1>2, <1>3, <2>1, <3>1, <3>2
  <2>3. refs'[d] = 1
    BY <1>1, <1>2, <2>1, <2>2, FS_EmptySet DEF Account
  <2>4. d \notin free'
    BY <1>1
  <2>5. Account(d)'
    BY <2>2, <2>3, <2>4, FS_EmptySet, FS_Singleton DEF Account
  <2>6. HolderInv(d)'
    BY <1>2, <2>2 DEF HolderInv
  <2> QED
    BY <2>5, <2>6
<1> QED
  BY <1>4, <1>5 DEF ChunksInv

\* The publisher copies its packet while no queue holds an entry with the chunk.
LEMMA FillKeeps ==
  ASSUME BusInv, ChunksInv, NEW p \in Publishers, Fill(p)
  PROVE  ChunksInv'
<1> DEFINE x == job[p].pkt
<1>1. PICK d \in Chunks : d = job[p].data /\ content' = [content EXCEPT ![d] = x]
  BY DEF BusInv, JobsInv, JobInv, Fill, Goto, Jobs
<1>2. /\ pc[p] = "fill" /\ pc'[p] = "release" /\ UNCHANGED <<queue, refs, free, job>>
      /\ DOMAIN content = Chunks
  BY DEF Fill, Goto, Receiving, Publishing, BusInv, TypeOK, MutexInv, Threads
<1>3. \A c \in Chunks : EntriesOf(c)' = EntriesOf(c)
  BY <1>2, OthersHold DEF PublisherNext, PublisherStep, Reserve
<1>4. ASSUME NEW c \in Chunks \ {d} PROVE HolderInv(c)' /\ Account(c)'
  <2>1. /\ p \notin PublishersOf(c)' /\ p \notin PublishersOf(c)
        /\ p \notin PushedOnly(c)' /\ p \notin PushedOnly(c)
    BY <1>1, <1>2 DEF PublishersOf, PushedOnly, Granted
  <2>2. content'[c] = content[c]
    BY <1>1, <1>2
  <2> QED
    BY <1>2, <1>3, <2>1, <2>2, QuietChunk DEF PublisherNext, PublisherStep, Reserve
<1>5. HolderInv(d)' /\ Account(d)'
  <2>1. p \in PublishersOf(d) /\ p \in PublishersOf(d)'
    BY <1>1, <1>2 DEF PublishersOf, Granted
  <2>2. PublishersOf(d) = {p} /\ PushedOnly(d) = {} /\ EntriesOf(d) = {} /\ Account(d)
    BY <1>2, <2>1, OnlyHolder DEF ChunksInv, HolderInv
  <2>3. PublishersOf(d)' = {p} /\ PushedOnly(d)' = {} /\ EntriesOf(d)' = {}
    <3>1. PublishersOf(d)' \ {p} = {} /\ PushedOnly(d)' \ {p} = {}
      BY <2>2, OthersHold DEF PublisherNext, PublisherStep, Reserve
    <3>2. p \notin PushedOnly(d)'
      BY <1>2 DEF PushedOnly
    <3> QED
      BY <1>3, <2>1, <2>2, <3>1, <3>2
  <2>4. content'[d] = x /\ job'[p].pkt = x
    BY <1>1, <1>2
  <2>5. Account(d)'
    BY <1>2, <2>2, <2>3 DEF Account
  <2>6. HolderInv(d)'
    BY <1>2, <2>3, <2>4 DEF HolderInv
  <2> QED
    BY <2>5, <2>6
<1> QED
  BY <1>4, <1>5 DEF ChunksInv

\* A push adds one entry with the publisher's chunk, behind the others.
LEMMA PushEntries ==
  ASSUME BusInv, NEW p \in Publishers, Push(p)
  PROVE  \E q \in Queues, k \in Nat :
           /\ queue'[q][k].pkt = job[p].pkt
           /\ \A c : /\ <<q, k>> \notin EntriesOf(c)
                     /\ EntriesOf(c)' = IF c = job[p].data THEN EntriesOf(c) \cup {<<q, k>>}
                                        ELSE EntriesOf(c)
                     /\ \A n \in EntriesOf(c) : queue'[n[1]][n[2]] = queue[n[1]][n[2]]
<1> DEFINE e == [pid |-> job[p].pid, pkt |-> job[p].pkt, data |-> job[p].data]
           d == job[p].data
<1>1. PICK q \in Queues : /\ pc[p] = "notify" /\ FromPool(p)
                          /\ queue'[q] = Append(queue[q], e)
                          /\ \A r \in Queues \ {q} : queue'[r] = queue[r]
  <2> DEFINE to == subs[node[p]].subscriber
  <2>1. /\ to \in Queues /\ pc[p] = "notify" /\ FromPool(p)
        /\ queue'[to] = Append(queue[to], e)
        /\ \A r \in Queues \ {to} : queue'[r] = queue[r]
    BY PushEffect
  <2> HIDE DEF to, e
  <2> QED
    BY <2>1
<1>2. /\ e \in Entries /\ e.data = d /\ queue[q] \in Seq(Entries)
      /\ pc[q] # "idle" => queue[q] # <<>>
  BY <1>1 DEF BusInv, TypeOK, JobsInv, JobInv, Jobs, Entries, FromPool, QueuesInv, QueueInv
<1>3. \A r \in Queues : pc'[r] = pc[r] /\ Len(queue[r]) \in Nat
  <2>1. \A t \in Threads \ {p} : pc'[t] = pc[t]
    BY PublisherFrame DEF BusInv, PublisherNext, PublisherStep, Notify
  <2> QED
    BY <2>1, ThreadsDiffer DEF Threads, BusInv, TypeOK
<1> DEFINE k == Len(queue[q]) + 1
<1> HIDE DEF e, d
<1>4. /\ Len(queue'[q]) = k /\ queue'[q][k] = e
      /\ \A i \in 1 .. Len(queue[q]) : queue'[q][i] = queue[q][i]
  BY <1>1, <1>2, Appended
<1>5. k = 1 => pc[q] = "idle"
  BY <1>2, <1>3, EmptySeq
<1>6. PICK l \in Nat : l = k
  BY <1>3
<1>7. ASSUME NEW c
      PROVE  /\ <<q, l>> \notin EntriesOf(c)
             /\ EntriesOf(c)' = IF c = d THEN EntriesOf(c) \cup {<<q, l>>} ELSE EntriesOf(c)
             /\ \A n \in EntriesOf(c) : queue'[n[1]][n[2]] = queue[n[1]][n[2]]
  <2> DEFINE Old(r, i) == /\ i \in 1 .. Len(queue[r]) /\ queue[r][i].data = c
                          /\ i = 1 => pc[r] # "pop"
             New(r, i) == /\ i \in 1 .. Len(queue'[r]) /\ queue'[r][i].data = c
                          /\ i = 1 => pc'[r] # "pop"
  <2>1. \A n : n \in EntriesOf(c) <=> \E r \in Queues : \E i \in Nat : n = <<r, i>> /\ Old(r, i)
    BY <1>3 DEF EntriesOf
  <2>2. \A n : n \in EntriesOf(c)' <=> \E r \in Queues : \E i \in Nat : n = <<r, i>> /\ New(r, i)
    <3>1. \A r \in Queues : Len(queue'[r]) \in Nat
      BY <1>1, <1>3, <1>4
    <3> QED
      BY <3>1 DEF EntriesOf
  <2>3. ASSUME NEW r \in Queues, NEW i \in Nat
        PROVE  New(r, i) <=> IF r = q /\ i = l THEN c = d ELSE Old(r, i)
    <3>1. CASE r # q
      BY <1>1, <1>3, <3>1
    <3>2. CASE r = q
      BY <1>2, <1>3, <1>4, <1>5, <1>6, <3>2
    <3> QED
      BY <3>1, <3>2
  <2>4. ~Old(q, l)
    BY <1>3, <1>6
  <2>5. ASSUME NEW r \in Queues, NEW i \in Nat, Old(r, i) PROVE queue'[r][i] = queue[r][i]
    BY <1>1, <1>4, <2>5
  <2> HIDE DEF Old, New
  <2>6. <<q, l>> \notin EntriesOf(c)
    BY <2>1, <2>4
  <2>7. \A n : n \in EntriesOf(c)' <=> IF n = <<q, l>> THEN c = d ELSE n \in EntriesOf(c)
    BY <2>1, <2>2, <2>3
  <2>8. \A n \in EntriesOf(c) : queue'[n[1]][n[2]] = queue[n[1]][n[2]]
    BY <2>1, <2>5
  <2> QED
    BY <2>6, <2>7, <2>8
<1>8. queue'[q][l].pkt = job[p].pkt
  BY <1>4, <1>6 DEF e
<1> QED
  BY <1>7, <1>8 DEF d

\* The entry of a push is counted with its publisher, until mpool_ref_add.
LEMMA PushKeeps ==
  ASSUME BusInv, ChunksInv, NEW p \in Publishers, Push(p)
  PROVE  ChunksInv'
<1> DEFINE x == job[p].pkt
<1>1. /\ pc[p] = "notify" /\ pc'[p] = "ref_add" /\ FromPool(p)
      /\ UNCHANGED <<refs, free, content, job>>
  BY PushEffect
<1>2. PICK d \in Chunks : d = job[p].data
  BY <1>1 DEF BusInv, JobsInv, JobInv, Jobs, FromPool
<1>3. PICK q \in Queues, k \in Nat :
        /\ queue'[q][k].pkt = x
        /\ \A c : /\ <<q, k>> \notin EntriesOf(c)
                  /\ EntriesOf(c)' = IF c = d THEN EntriesOf(c) \cup {<<q, k>>} ELSE EntriesOf(c)
                  /\ \A n \in EntriesOf(c) : queue'[n[1]][n[2]] = queue[n[1]][n[2]]
  BY <1>2, PushEntries, SMTT(30)
<1>4. ASSUME NEW c \in Chunks \ {d} PROVE HolderInv(c)' /\ Account(c)'
  <2>1. /\ p \notin PublishersOf(c)' /\ p \notin PublishersOf(c)
        /\ p \notin PushedOnly(c)' /\ p \notin PushedOnly(c)
    BY <1>1, <1>2 DEF PublishersOf, PushedOnly
  <2>2. EntriesOf(c)' = EntriesOf(c)
    BY <1>3
  <2>3. \A n \in EntriesOf(c) : queue'[n[1]][n[2]].pkt = queue[n[1]][n[2]].pkt
    BY <1>3
  <2> QED
    BY <1>1, <2>1, <2>2, <2>3, QuietChunk DEF PublisherNext, PublisherStep, Notify
<1>5. HolderInv(d)' /\ Account(d)'
  <2>1. p \in PublishersOf(d) /\ p \in PublishersOf(d)' /\ p \in PushedOnly(d)'
    BY <1>1, <1>2 DEF PublishersOf, PushedOnly, Granted
  <2>2. PublishersOf(d) = {p} /\ PushedOnly(d) = {} /\ Account(d) /\ HolderInv(d)
    BY <1>1, <2>1, OnlyHolder DEF ChunksInv
  <2>3. PublishersOf(d)' = {p} /\ PushedOnly(d)' = {p}
    <3>1. PublishersOf(d)' \ {p} = {} /\ PushedOnly(d)' \ {p} = {}
      BY <2>2, OthersHold DEF PublisherNext, PublisherStep, Notify
    <3> QED
      BY <2>1, <3>1
  <2>4. EntriesOf(d)' = EntriesOf(d) \cup {<<q, k>>} /\ <<q, k>> \notin EntriesOf(d)
    BY <1>3
  <2>5. Account(d)'
    <3>1. /\ Cardinality(EntriesOf(d)') = Cardinality(EntriesOf(d)) + 1
          /\ Cardinality(EntriesOf(d)) \in Nat
      BY <2>4, HoldersFinite, FS_AddElement
    <3>2. refs[d] + Cardinality({}) = Cardinality({p}) + Cardinality(EntriesOf(d))
      BY <2>2 DEF Account
    <3>3. refs[d] + Cardinality({p}) = Cardinality({p}) + Cardinality(EntriesOf(d)')
      <4>1. Cardinality({}) = 0 /\ Cardinality({p}) = 1 /\ refs[d] \in Nat
        BY FS_EmptySet, FS_Singleton DEF BusInv, TypeOK
      <4> QED
        BY <3>1, <3>2, <4>1
    <3>4. d \notin free'
      BY <1>1, <2>2 DEF Account
    <3> QED
      BY <1>1, <2>3, <3>3, <3>4 DEF Account
  <2>6. HolderInv(d)'
    <3>1. content[d] = x
      BY <1>1, <2>2 DEF HolderInv
    <3>2. \A n \in EntriesOf(d)' : content'[d] = queue'[n[1]][n[2]].pkt
      <4>1. ASSUME NEW n \in EntriesOf(d) PROVE content'[d] = queue'[n[1]][n[2]].pkt
        BY <1>1, <1>3, <2>2 DEF HolderInv
      <4>2. <<q, k>>[1] = q /\ <<q, k>>[2] = k
        OBVIOUS
      <4> QED
        BY <1>1, <1>3, <2>4, <3>1, <4>1, <4>2
    <3> QED
      BY <1>1, <2>3, <3>1, <3>2 DEF HolderInv
  <2> QED
    BY <2>5, <2>6
<1> QED
  BY <1>4, <1>5 DEF ChunksInv

\* mpool_ref_add counts the entry that was pushed.
LEMMA RefAddKeeps ==
  ASSUME BusInv, ChunksInv, NEW p \in Publishers, RefAdd(p)
  PROVE  ChunksInv'
<1>1. /\ pc[p] = "ref_add" /\ pc'[p] = "notify"
      /\ UNCHANGED <<queue, free, content, job>> /\ refs \in [Chunks -> Nat]
  BY DEF RefAdd, Goto, Receiving, BusInv, TypeOK, MutexInv, Threads
<1>2. PICK d \in Chunks : d = job[p].data /\ refs' = [refs EXCEPT ![d] = @ + 1]
  BY <1>1 DEF BusInv, JobsInv, JobInv, Jobs, FromPool, RefAdd
<1>3. \A c \in Chunks : EntriesOf(c)' = EntriesOf(c)
  BY <1>1, OthersHold DEF PublisherNext, PublisherStep, Notify
<1>4. ASSUME NEW c \in Chunks \ {d} PROVE HolderInv(c)' /\ Account(c)'
  <2>1. /\ p \notin PublishersOf(c)' /\ p \notin PublishersOf(c)
        /\ p \notin PushedOnly(c)' /\ p \notin PushedOnly(c)
    BY <1>1, <1>2 DEF PublishersOf, PushedOnly
  <2>2. refs'[c] = refs[c]
    BY <1>1, <1>2
  <2> QED
    BY <1>1, <1>3, <2>1, <2>2, QuietChunk DEF PublisherNext, PublisherStep, Notify
<1>5. HolderInv(d)' /\ Account(d)'
  <2>1. p \in PublishersOf(d) /\ p \in PublishersOf(d)' /\ p \notin PushedOnly(d)'
    BY <1>1, <1>2 DEF PublishersOf, PushedOnly, Granted
  <2>2. PublishersOf(d) = {p} /\ PushedOnly(d) = {p} /\ Account(d) /\ HolderInv(d)
    BY <1>1, <2>1, OnlyHolder DEF ChunksInv
  <2>3. PublishersOf(d)' = {p} /\ PushedOnly(d)' = {}
    <3>1. PublishersOf(d)' \ {p} = {} /\ PushedOnly(d)' \ {p} = {}
      BY <2>2, OthersHold DEF PublisherNext, PublisherStep, Notify
    <3> QED
      BY <2>1, <3>1
  <2>4. Account(d)'
    <3>1. refs'[d] = refs[d] + 1 /\ refs[d] \in Nat
      BY <1>1, <1>2
    <3>2. refs[d] + Cardinality({p}) = Cardinality({p}) + Cardinality(EntriesOf(d))
      BY <2>2 DEF Account
    <3>3. refs'[d] + Cardinality({}) = Cardinality({p}) + Cardinality(EntriesOf(d))
      <4>1. Cardinality({}) = 0 /\ Cardinality({p}) = 1 /\ Cardinality(EntriesOf(d)) \in Nat
        BY HoldersFinite, FS_EmptySet, FS_Singleton
      <4> QED
        BY <3>1, <3>2, <4>1
    <3>4. d \notin free'
      BY <1>1, <2>2 DEF Account
    <3> QED
      BY <1>3, <2>3, <3>3, <3>4 DEF Account
  <2>5. HolderInv(d)'
    BY <1>1, <1>3, <2>2, <2>3 DEF HolderInv
  <2> QED
    BY <2>4, <2>5
<1> QED
  BY <1>4, <1>5 DEF ChunksInv

\* mpool_release of a chunk that one more thread or entry refers to.
LEMMA ReleaseCounts ==
  ASSUME BusInv, NEW d \in Chunks, ReleaseChunk(d), d \notin free, NEW n \in Nat, refs[d] = n + 1
  PROVE  /\ refs'[d] = n /\ (d \in free' <=> n = 0) /\ content' = content
         /\ \A c \in Chunks \ {d} : refs'[c] = refs[c] /\ (c \in free' <=> c \in free)
<1>1. refs \in [Chunks -> Nat]
  BY DEF BusInv, TypeOK
<1>2. refs' = [refs EXCEPT ![d] = n] /\ free' = IF n = 0 THEN free \cup {d} ELSE free
  <2> DEFINE m == IF refs[d] > 0 THEN refs[d] - 1 ELSE 0
  <2>1. refs' = [refs EXCEPT ![d] = m] /\ free' = IF m = 0 THEN free \cup {d} ELSE free
    BY DEF ReleaseChunk
  <2>2. m = n
    OBVIOUS
  <2> HIDE DEF m
  <2> QED
    BY <2>1, <2>2
<1> QED
  BY <1>1, <1>2 DEF ReleaseChunk

\* The publisher's own reference goes last of what it has, and the chunk is free
\* if no queue holds it any more.
LEMMA ReleaseKeeps ==
  ASSUME Synchronous, BusInv, ChunksInv, NEW p \in Publishers, Release(p)
  PROVE  ChunksInv'
<1>1. /\ pc[p] = "notify" /\ pc'[p] = "exit" /\ UNCHANGED <<queue, job>>
      /\ IF FromPool(p) THEN ReleaseChunk(job[p].data) ELSE UNCHANGED Pooled
      /\ job[p] \in Jobs
  BY DEF Release, Goto, Receiving, Publishing, BusInv, MutexInv, Threads, JobsInv, JobInv,
     Synchronous
<1>2. \A c \in Chunks : EntriesOf(c)' = EntriesOf(c)
  BY <1>1, OthersHold DEF PublisherNext, PublisherStep, Notify
<1>3. ASSUME NEW c \in Chunks, c # job[p].data, refs'[c] = refs[c], c \in free' <=> c \in free,
             content' = content
      PROVE  HolderInv(c)' /\ Account(c)'
  <2>1. /\ p \notin PublishersOf(c)' /\ p \notin PublishersOf(c)
        /\ p \notin PushedOnly(c)' /\ p \notin PushedOnly(c)
    BY <1>1, <1>3 DEF PublishersOf, PushedOnly
  <2> QED
    BY <1>1, <1>2, <1>3, <2>1, QuietChunk DEF PublisherNext, PublisherStep, Notify
<1>4. CASE ~FromPool(p)
  BY <1>1, <1>3, <1>4, ChunksOfPools DEF FromPool, Pooled, ChunksInv
<1>5. CASE FromPool(p)
  <2>1. PICK d \in Chunks : d = job[p].data
    BY <1>1, <1>5 DEF FromPool, Jobs
  <2> DEFINE n == Cardinality(EntriesOf(d))
  <2>2. p \in PublishersOf(d) /\ p \notin PublishersOf(d)' /\ p \notin PushedOnly(d)'
    BY <1>1, <2>1 DEF PublishersOf, PushedOnly, Granted
  <2>3. PublishersOf(d) = {p} /\ PushedOnly(d) = {} /\ Account(d) /\ HolderInv(d)
    BY <1>1, <2>2, OnlyHolder DEF ChunksInv
  <2>4. PublishersOf(d)' = {} /\ PushedOnly(d)' = {}
    <3>1. PublishersOf(d)' \ {p} = {} /\ PushedOnly(d)' \ {p} = {}
      BY <2>3, OthersHold DEF PublisherNext, PublisherStep, Notify
    <3> QED
      BY <2>2, <3>1
  <2>5. n \in Nat /\ (n = 0 <=> EntriesOf(d) = {})
    BY HoldersFinite, FS_EmptySet
  <2>6. Cardinality({}) = 0 /\ Cardinality({p}) = 1
    BY FS_EmptySet, FS_Singleton
  <2>7. refs[d] = n + 1 /\ d \notin free
    <3>1. refs[d] + Cardinality({}) = Cardinality({p}) + n /\ refs[d] \in Nat
      BY <2>3 DEF Account, BusInv, TypeOK
    <3>2. d \notin free
      BY <2>3 DEF Account
    <3> HIDE DEF n
    <3> QED
      BY <2>5, <2>6, <3>1, <3>2
  <2>8. /\ refs'[d] = n /\ (d \in free' <=> n = 0) /\ content' = content
        /\ \A c \in Chunks \ {d} : refs'[c] = refs[c] /\ (c \in free' <=> c \in free)
    <3> HIDE DEF n
    <3> QED
      BY <1>1, <1>5, <2>1, <2>5, <2>7, ReleaseCounts
  <2>9. Account(d)'
    BY <1>2, <2>4, <2>5, <2>6, <2>8 DEF Account
  <2>10. HolderInv(d)'
    BY <1>1, <1>2, <2>3, <2>4, <2>8 DEF HolderInv
  <2>11. \A c \in Chunks \ {d} : HolderInv(c)' /\ Account(c)'
    BY <1>3, <2>1, <2>8
  <2> QED
    BY <2>9, <2>10, <2>11 DEF ChunksInv
<1> QED
  BY <1>4, <1>5

\* A consumer leaves the references of the publishers, and the packets, alone.
LEMMA ConsumerHolds ==
  ASSUME BusInv, NEW q \in Queues, ConsumerStep(q), NEW c
  PROVE  /\ PublishersOf(c)' = PublishersOf(c) /\ PushedOnly(c)' = PushedOnly(c)
         /\ UNCHANGED <<content, job>> /\ \A p \in PublishersOf(c) : pc'[p] = pc[p]
<1>1. UNCHANGED <<content, job>> /\ \A p \in Publishers : pc'[p] = pc[p]
  BY ConsumerFrame, ThreadsDiffer DEF BusInv, Threads
<1> QED
  BY <1>1 DEF PublishersOf, PushedOnly

\* Until its release, a consumer keeps the entry it works on.
LEMMA WaitKeeps ==
  ASSUME BusInv, ChunksInv, NEW q \in Queues, Peek(q) \/ EnterRead(q) \/ ExitRead(q)
  PROVE  ChunksInv'
<1>1. UNCHANGED <<queue, refs, free, content>> /\ pc[q] # "pop" /\ pc'[q] # "pop"
  BY DEF Peek, EnterRead, ExitRead, Goto, Pooled, Receiving, BusInv, MutexInv, Threads
<1>2. ConsumerStep(q)
  BY DEF ConsumerStep
<1>3. \A r \in Queues \ {q} : pc'[r] = pc[r]
  BY <1>2, ConsumerFrame DEF BusInv, Threads
<1>4. ASSUME NEW c \in Chunks PROVE HolderInv(c)' /\ Account(c)'
  <2>1. EntriesOf(c)' = EntriesOf(c)
    BY <1>1, <1>3 DEF EntriesOf
  <2>2. HolderInv(c) /\ Account(c)
    BY DEF ChunksInv
  <2> QED
    BY <1>1, <1>2, <2>1, <2>2, ConsumerHolds, ChunkUntouched
<1> QED
  BY <1>4 DEF ChunksInv

\* When a consumer releases a chunk, the publisher has counted its entry: it no
\* longer distributes the packet.
LEMMA PopReleaseKeeps ==
  ASSUME BusInv, BarrierInv, ChunksInv, NEW q \in Queues, PopRelease(q)
  PROVE  ChunksInv'
<1>1. /\ pc[q] = "use" /\ pc'[q] = "pop" /\ queue' = queue /\ ReleaseChunk(ent[q].data)
      /\ queue[q] # <<>> /\ ent[q] = queue[q][1] /\ queue[q] \in Seq(Entries)
  BY DEF PopRelease, Goto, Receiving, BusInv, MutexInv, Threads, QueuesInv, QueueInv, TypeOK
<1>2. ent[q] \in Entries /\ 1 \in 1 .. Len(queue[q])
  BY <1>1, EmptySeq, ElementOfSeq
<1>3. PICK d \in Chunks : d = ent[q].data
  BY <1>2 DEF Entries
<1>4. ConsumerStep(q)
  BY DEF ConsumerStep
<1>5. \A r \in Queues \ {q} : pc'[r] = pc[r]
  BY <1>4, ConsumerFrame DEF BusInv, Threads
<1>6. /\ <<q, 1>> \in EntriesOf(d)
      /\ \A c : EntriesOf(c)' = IF c = d THEN EntriesOf(c) \ {<<q, 1>>} ELSE EntriesOf(c)
  <2>1. <<q, 1>> \in EntriesOf(d)
    BY <1>1, <1>2, <1>3, EntriesAre
  <2>2. ASSUME NEW c
        PROVE  EntriesOf(c)' = IF c = d THEN EntriesOf(c) \ {<<q, 1>>} ELSE EntriesOf(c)
    <3>1. \A n : n \in EntriesOf(c)' <=>
            \E r \in Queues : \E i \in 1 .. Len(queue[r]) :
              n = <<r, i>> /\ queue[r][i].data = c /\ (i = 1 => pc'[r] # "pop")
      BY <1>1 DEF EntriesOf
    <3>2. ASSUME NEW r \in Queues, NEW i \in 1 .. Len(queue[r]), queue[r][i].data = c
          PROVE  (i = 1 => pc'[r] # "pop") <=> (i = 1 => pc[r] # "pop") /\ ~(r = q /\ i = 1 /\ c = d)
      BY <1>1, <1>3, <1>5, <3>2
    <3>3. \A n : n \in EntriesOf(c)' <=> n \in EntriesOf(c) /\ ~(n = <<q, 1>> /\ c = d)
      BY <3>1, <3>2, EntriesAre
    <3> QED
      BY <3>3
  <2> QED
    BY <2>1, <2>2
<1>7. PushedOnly(d) = {}
  <2>1. SUFFICES ASSUME NEW p \in PushedOnly(d) PROVE FALSE
    OBVIOUS
  <2>2. p \in PublishersOf(d) /\ p \in Publishers /\ pc[p] = "ref_add"
    BY DEF PushedOnly, PublishersOf, Granted
  <2>3. content[d] = job[p].pkt
    BY <2>2 DEF ChunksInv, HolderInv
  <2>4. content[d] = ent[q].pkt
    <3>1. <<q, 1>>[1] = q /\ <<q, 1>>[2] = 1
      OBVIOUS
    <3> QED
      BY <1>1, <1>6, <3>1 DEF ChunksInv, HolderInv
  <2> QED
    BY <1>1, <2>2, <2>3, <2>4 DEF BarrierInv
<1> DEFINE P == PublishersOf(d)
           E == EntriesOf(d)
           n == Cardinality(P) + Cardinality(E) - 1
<1>8. /\ Cardinality(E) \in Nat \ {0} /\ Cardinality(P) \in Nat /\ IsFiniteSet(P)
      /\ IsFiniteSet(E \ {<<q, 1>>}) /\ Cardinality(E \ {<<q, 1>>}) = Cardinality(E) - 1
  BY <1>6, HoldersFinite, FS_EmptySet, FS_RemoveElement
<1>9. refs[d] = n + 1 /\ d \notin free /\ n \in Nat
  <2>1. refs[d] + Cardinality({}) = Cardinality(P) + Cardinality(E) /\ refs[d] \in Nat
    BY <1>7 DEF ChunksInv, Account, BusInv, TypeOK
  <2>2. d \notin free
    BY <1>6 DEF ChunksInv, Account
  <2> HIDE DEF P, E
  <2> QED
    BY <1>8, <2>1, <2>2, FS_EmptySet
<1>10. /\ refs'[d] = n /\ (d \in free' <=> n = 0)
       /\ \A c \in Chunks \ {d} : refs'[c] = refs[c] /\ (c \in free' <=> c \in free)
  <2> HIDE DEF n
  <2> QED
    BY <1>1, <1>3, <1>9, ReleaseCounts, ZenonT(60)
<1>11. n = 0 <=> P = {} /\ E \ {<<q, 1>>} = {}
  <2>1. /\ Cardinality(P) = 0 <=> P = {}
        /\ Cardinality(E \ {<<q, 1>>}) = 0 <=> E \ {<<q, 1>>} = {}
    BY <1>8, FS_EmptySet
  <2> HIDE DEF P, E
  <2> QED
    BY <1>8, <2>1
<1>12. Account(d)'
  <2>1. /\ PublishersOf(d)' = P /\ PushedOnly(d)' = {} /\ EntriesOf(d)' = E \ {<<q, 1>>}
    BY <1>4, <1>6, <1>7, ConsumerHolds
  <2>2. n + Cardinality({}) = Cardinality(P) + Cardinality(E \ {<<q, 1>>})
    <3> HIDE DEF P, E
    <3> QED
      BY <1>8, FS_EmptySet
  <2> HIDE DEF P, E, n
  <2> QED
    BY <1>10, <1>11, <2>1, <2>2 DEF Account
<1>13. HolderInv(d)'
  <2>1. HolderInv(d)
    BY DEF ChunksInv
  <2> QED
    BY <1>1, <1>4, <1>6, <2>1, ConsumerHolds DEF HolderInv
<1>14. ASSUME NEW c \in Chunks \ {d} PROVE HolderInv(c)' /\ Account(c)'
  <2>1. HolderInv(c) /\ Account(c) /\ EntriesOf(c)' = EntriesOf(c)
    BY <1>6 DEF ChunksInv
  <2> QED
    BY <1>1, <1>4, <1>10, <2>1, ConsumerHolds, ChunkUntouched
<1> QED
  BY <1>12, <1>13, <1>14 DEF ChunksInv

\* pcqueue_pop moves the other entries of the queue one place forward.
LEMMA PopEntries ==
  ASSUME BusInv, NEW q \in Queues, Pop(q), NEW c
  PROVE  /\ Cardinality(EntriesOf(c)') = Cardinality(EntriesOf(c))
         /\ \A n \in EntriesOf(c)' : \E m \in EntriesOf(c) : queue'[n[1]][n[2]] = queue[m[1]][m[2]]
         /\ EntriesOf(c)' = {} <=> EntriesOf(c) = {}
<1>1. /\ pc[q] = "pop" /\ pc'[q] = "idle" /\ queue[q] # <<>> /\ queue'[q] = Tail(queue[q])
      /\ \A r \in Queues : queue[r] \in Seq(Entries) /\ Len(queue[r]) \in Nat
  BY DEF Pop, Goto, BusInv, MutexInv, Threads, TypeOK
<1>2. \A r \in Queues \ {q} : pc'[r] = pc[r] /\ queue'[r] = queue[r]
  BY ConsumerFrame DEF BusInv, Threads, ConsumerStep
<1>3. /\ Len(queue'[q]) = Len(queue[q]) - 1
      /\ \A i \in 1 .. Len(queue[q]) - 1 : queue'[q][i] = queue[q][i + 1]
  BY <1>1
<1> DEFINE S == EntriesOf(c)
           T == EntriesOf(c)'
           Old(r, i) == /\ i \in 1 .. Len(queue[r]) /\ queue[r][i].data = c
                        /\ i = 1 => pc[r] # "pop"
           New(r, i) == /\ i \in 1 .. Len(queue'[r]) /\ queue'[r][i].data = c
                        /\ i = 1 => pc'[r] # "pop"
           At(r, i) == IF r = q THEN i + 1 ELSE i
           Was(n) == <<n[1], At(n[1], n[2])>>
           f == [n \in T |-> Was(n)]
<1>4. \A n : n \in S <=> \E r \in Queues : \E i \in Nat : n = <<r, i>> /\ Old(r, i)
  BY <1>1 DEF EntriesOf
<1>5. \A n : n \in T <=> \E r \in Queues : \E i \in Nat : n = <<r, i>> /\ New(r, i)
  <2>1. \A r \in Queues : Len(queue'[r]) \in Nat
    BY <1>1, <1>2, <1>3, EmptySeq
  <2> QED
    BY <2>1 DEF EntriesOf
<1>6. ASSUME NEW r \in Queues, NEW i \in Nat
      PROVE  /\ New(r, i) <=> i # 0 /\ Old(r, At(r, i))
             /\ New(r, i) => queue'[r][i] = queue[r][At(r, i)]
             /\ Old(r, i) => i # 0 /\ (r = q => i > 1)
  <2>1. CASE r # q
    <3>1. queue'[r] = queue[r] /\ pc'[r] = pc[r] /\ At(r, i) = i /\ Len(queue[r]) \in Nat
      BY <1>1, <1>2, <2>1
    <3> QED
      BY <2>1, <3>1
  <2>2. CASE r = q
    <3>1. Len(queue[q]) \in Nat \ {0} /\ At(r, i) = i + 1
      BY <1>1, <2>2, EmptySeq
    <3>2. i \in 1 .. Len(queue'[q]) <=> i # 0 /\ i + 1 \in 1 .. Len(queue[q])
      BY <1>3, <3>1
    <3>3. i \in 1 .. Len(queue'[q]) => queue'[q][i] = queue[q][i + 1]
      BY <1>3, <3>1
    <3>4. New(r, i) <=> i # 0 /\ Old(r, At(r, i))
      <4>1. pc'[q] # "pop" /\ (i # 0 => i + 1 # 1)
        BY <1>1
      <4>2. New(q, i) <=> i \in 1 .. Len(queue'[q]) /\ queue'[q][i].data = c
        BY <4>1
      <4>3. i # 0 => (Old(q, i + 1) <=> i + 1 \in 1 .. Len(queue[q]) /\ queue[q][i + 1].data = c)
        BY <4>1
      <4>4. i # 0 => (New(q, i) <=> Old(q, i + 1))
        BY <3>2, <3>3, <4>2, <4>3
      <4>5. New(q, i) => i # 0
        BY <3>2, <4>2
      <4> HIDE DEF New, Old
      <4> QED
        BY <2>2, <3>1, <4>4, <4>5
    <3>5. Old(r, i) => i # 0 /\ i > 1
      BY <1>1, <2>2, <3>1
    <3> QED
      BY <2>2, <3>1, <3>3, <3>4, <3>5
  <2> QED
    BY <2>1, <2>2
<1>7. \A r \in Queues, i \in Nat : <<r, i>>[1] = r /\ <<r, i>>[2] = i /\ At(r, i) \in Nat
  OBVIOUS
<1> HIDE DEF S, T, Old, New
<1>8. f \in [T -> S]
  <2>1. ASSUME NEW n \in T PROVE Was(n) \in S
    <3>1. PICK r \in Queues, i \in Nat : n = <<r, i>> /\ New(r, i)
      BY <1>5
    <3>2. Old(r, At(r, i)) /\ Was(n) = <<r, At(r, i)>>
      BY <1>6, <1>7, <3>1
    <3> QED
      BY <1>4, <1>7, <3>2
  <2> QED
    BY <2>1
<1>9. ASSUME NEW a \in T, NEW b \in T, f[a] = f[b] PROVE a = b
  <2>1. PICK r \in Queues, i \in Nat : a = <<r, i>>
    BY <1>5
  <2>2. PICK s \in Queues, j \in Nat : b = <<s, j>>
    BY <1>5
  <2>3. r = s /\ At(r, i) = At(s, j)
    BY <1>9, <2>1, <2>2
  <2> QED
    BY <2>1, <2>2, <2>3
<1>10. ASSUME NEW m \in S PROVE \E n \in T : f[n] = m
  <2>1. PICK r \in Queues, i \in Nat : m = <<r, i>> /\ Old(r, i)
    BY <1>4
  <2>2. PICK j \in Nat : j # 0 /\ At(r, j) = i
    <3>1. i # 0 /\ (r = q => i > 1)
      BY <1>6, <2>1
    <3>2. CASE r = q
      BY <3>1, <3>2 DEF At
    <3>3. CASE r # q
      BY <3>1, <3>3 DEF At
    <3> QED
      BY <3>2, <3>3
  <2>3. New(r, j)
    BY <1>6, <2>1, <2>2
  <2>4. <<r, j>> \in T
    BY <1>5, <2>3
  <2>5. f[<<r, j>>] = m
    BY <1>7, <2>1, <2>2, <2>4
  <2> QED
    BY <2>4, <2>5
<1>11. f \in Bijection(T, S)
  <2> HIDE DEF f
  <2> QED
    BY <1>8, <1>9, <1>10, Fun_IsBij
<1>12. IsFiniteSet(S)
  BY HoldersFinite DEF S
<1>13. ExistsBijection(S, T)
  <2> HIDE DEF f
  <2> QED
    BY <1>11, Fun_ExistsBijSymmetric DEF ExistsBijection
<1>14. Cardinality(T) = Cardinality(S)
  BY <1>12, <1>13, FS_Bijection
<1>15. ASSUME NEW n \in T PROVE \E m \in S : queue'[n[1]][n[2]] = queue[m[1]][m[2]]
  <2>1. PICK r \in Queues, i \in Nat : n = <<r, i>> /\ New(r, i)
    BY <1>5
  <2>2. Was(n) = <<r, At(r, i)>> /\ Was(n) \in S
    BY <1>8, <2>1
  <2>3. queue'[r][i] = queue[r][At(r, i)]
    BY <1>6, <2>1
  <2> QED
    BY <1>7, <2>1, <2>2, <2>3
<1>16. T = {} <=> S = {}
  <2> HIDE DEF f
  <2> QED
    BY <1>8, <1>10
<1> QED
  BY <1>14, <1>15, <1>16 DEF S, T

\* The pop leaves every chunk with as many references.
LEMMA PopKeeps ==
  ASSUME BusInv, ChunksInv, NEW q \in Queues, Pop(q)
  PROVE  ChunksInv'
<1>1. ASSUME NEW c \in Chunks PROVE HolderInv(c)' /\ Account(c)'
  <2>1. HolderInv(c) /\ Account(c) /\ UNCHANGED <<refs, free, content>>
    BY DEF ChunksInv, Pop, Pooled
  <2>2. /\ PublishersOf(c)' = PublishersOf(c) /\ PushedOnly(c)' = PushedOnly(c)
        /\ UNCHANGED <<content, job>> /\ \A p \in PublishersOf(c) : pc'[p] = pc[p]
    BY ConsumerHolds DEF ConsumerStep
  <2>3. /\ Cardinality(EntriesOf(c)') = Cardinality(EntriesOf(c))
        /\ \A n \in EntriesOf(c)' : \E m \in EntriesOf(c) :
             queue'[n[1]][n[2]] = queue[m[1]][m[2]]
        /\ EntriesOf(c)' = {} <=> EntriesOf(c) = {}
    BY PopEntries
  <2>4. Account(c)'
    BY <2>1, <2>2, <2>3 DEF Account
  <2>5. \A n \in EntriesOf(c)' : content'[c] = queue'[n[1]][n[2]].pkt
    BY <2>1, <2>3 DEF HolderInv
  <2>6. HolderInv(c)'
    BY <2>1, <2>2, <2>3, <2>5 DEF HolderInv
  <2> QED
    BY <2>4, <2>6
<1> QED
  BY <1>1 DEF ChunksInv

\* Every step keeps every chunk accounted for.
LEMMA ChunksKept ==
  ASSUME Synchronous, BusInv, BarrierInv, ChunksInv, [Next]_vars
  PROVE  ChunksInv'
<1>1. CASE UNCHANGED vars \/ Configure
  <2>1. UNCHANGED <<free, refs, content, queue, pc, job>>
    BY <1>1, ConfigureFrame DEF vars
  <2>2. ASSUME NEW c \in Chunks PROVE HolderInv(c)' /\ Account(c)'
    <3>1. HolderInv(c) /\ Account(c)
      BY DEF ChunksInv
    <3>2. /\ PublishersOf(c)' = PublishersOf(c) /\ PushedOnly(c)' = PushedOnly(c)
          /\ EntriesOf(c)' = EntriesOf(c)
      BY <2>1 DEF PublishersOf, PushedOnly, EntriesOf
    <3> QED
      BY <2>1, <3>1, <3>2, ChunkUntouched
  <2> QED
    BY <2>2 DEF ChunksInv
<1>2. ASSUME NEW p \in Publishers, PublisherNext(p) PROVE ChunksInv'
  BY <1>2, QuietSteps, RequestKeeps, FillKeeps, PushKeeps, RefAddKeeps, ReleaseKeeps
  DEF PublisherNext, PublisherStep, Reserve, Notify, Unwind
<1>3. ASSUME NEW q \in Queues, ConsumerStep(q) PROVE ChunksInv'
  BY <1>3, WaitKeeps, PopReleaseKeeps, PopKeeps DEF ConsumerStep
<1> QED
  BY <1>1, <1>2, <1>3, NextSteps

-----------------------------------------------------------------------------
(* What holds on a synchronous bus.                                        *)

\* Every state of a synchronous bus has its chunks accounted for, with the
\* packets in them, and no consumer past syncl while its packet is distributed.
THEOREM SyncInvariant == ASSUME Synchronous PROVE Spec => [](BusInv /\ SyncInv)
<1>1. ASSUME Init PROVE BusInv /\ SyncInv
  <2>1. \A t \in Publishers \cup Queues : pc[t] = "idle"
    BY <1>1 DEF Init
  <2>2. WritersInv /\ BarrierInv
    BY <1>1, <2>1 DEF Init, WritersInv, BarrierInv
  <2>3. ASSUME NEW c \in Chunks PROVE HolderInv(c) /\ Account(c)
    <3>1. PublishersOf(c) = {} /\ PushedOnly(c) = {} /\ EntriesOf(c) = {}
      <4>1. PublishersOf(c) = {} /\ PushedOnly(c) = {}
        BY <2>1 DEF PublishersOf, PushedOnly, Granted
      <4>2. \A q \in Queues : Len(queue[q]) = 0
        BY <1>1 DEF Init
      <4>3. EntriesOf(c) = {}
        BY <4>2 DEF EntriesOf
      <4> QED
        BY <4>1, <4>3
    <3>2. refs[c] = 0 /\ c \in free
      BY <1>1 DEF Init
    <3> QED
      BY <3>1, <3>2, FS_EmptySet DEF HolderInv, Account
  <2> QED
    BY <1>1, <2>2, <2>3, BusInvInit DEF SyncInv, ChunksInv
<1>2. ASSUME BusInv /\ SyncInv, [Next]_vars PROVE (BusInv /\ SyncInv)'
  BY <1>2, BusInvKept, WritersKept, BarrierKept, ChunksKept DEF SyncInv
<1> QED
  BY <1>1, <1>2, PTL DEF Spec

\* Reference counts are exact but for the instant between pcqueue_push and
\* mpool_ref_add, and a chunk is free exactly when nobody refers to it.
THEOREM RefsAccounted == ASSUME Synchronous PROVE Spec => []RefsAccount
<1>1. BusInv /\ SyncInv => RefsAccount
  BY DEF BusInv, SyncInv, ChunksInv, Account, RefsAccount
<1> QED
  BY <1>1, SyncInvariant, PTL

\* The packet in the chunk of a consumer's entry is the one that was published:
\* no publisher is granted the chunk before the consumer's release.
THEOREM PacketsIntact == ASSUME Synchronous PROVE Spec => []PacketIntact
<1>1. ASSUME BusInv, SyncInv PROVE PacketIntact
  <2>1. SUFFICES ASSUME NEW q \in Queues, pc[q] \in {"sync", "synced", "use"}
                 PROVE  content[ent[q].data] = ent[q].pkt
    BY DEF PacketIntact
  <2>2. /\ queue[q] # <<>> /\ ent[q] = queue[q][1] /\ queue[q] \in Seq(Entries)
    BY <1>1, <2>1 DEF BusInv, QueuesInv, QueueInv, TypeOK
  <2>3. ent[q] \in Entries /\ 1 \in 1 .. Len(queue[q])
    BY <2>2, EmptySeq, ElementOfSeq
  <2>4. ent[q].data \in Chunks
    BY <2>3 DEF Entries
  <2>5. <<q, 1>> \in EntriesOf(ent[q].data)
    BY <2>1, <2>2, <2>3, EntriesAre
  <2>6. <<q, 1>>[1] = q /\ <<q, 1>>[2] = 1
    OBVIOUS
  <2> QED
    BY <1>1, <2>2, <2>4, <2>5, <2>6 DEF SyncInv, ChunksInv, HolderInv
<1> QED
  BY <1>1, SyncInvariant, PTL

\* No consumer is given a packet that its publisher still distributes.
THEOREM SyncBarrierKept == ASSUME Synchronous PROVE Spec => []SyncBarrier
<1>1. SyncInv => SyncBarrier
  BY DEF SyncInv, BarrierInv, SyncBarrier
<1> QED
  BY <1>1, SyncInvariant, PTL
=============================================================================
