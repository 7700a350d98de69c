# TLA+ models of RCSW

RCSW is a library of reusable C software for embedded and POSIX systems:
threading primitives, a publish-subscribe software bus, data structures,
algorithms, a standard I/O replacement and two tools.  This directory holds
TLA+ modules that model its concurrent core step by step and its sequential
parts call by call, TLC configurations that check them on small instances, and
proofs about the core that TLAPS checks for every instance.  `PROJECT.json`
maps each definition to the lines of the source it models.

## Inventory

`[M]` modelled, `[P]` partly, `[x]` not modelled (see "Not modelled").

| component | source | state | operations | hard part | correct when |
|---|---|---|---|---|---|
| `[M]` producer-consumer queue | `multithread/pcqueue.c` | FIFO, `slots_avail`, `slots_inuse`, mutex | push, pop, timedpop, peek, timedpeek | threads interleave between semaphores and mutex; waits that fail; a peek's pointer outlives the lock | it is one bounded FIFO; no token is lost; a peeked slot stays put |
| `[M]` memory pool | `multithread/mpool.c` | free and allocated lists, reference counts, `slots_avail`, mutex | req, timedreq, release, ref_add, ref_remove | several threads share a chunk; the last release frees it; ignored wait status | counts exact; no chunk lost or granted twice |
| `[M]` reader-writer lock | `multithread/rdwrlock.c` | three semaphores, `n_readers` | enter, timed enter, exit for either scope | access is taken by one reader and released by another; timeouts half way | mutual exclusion; nobody starves |
| `[M]` binary semaphore | `multithread/bsem.c` | value, mutex, condition variable | wait, timedwait, post, flush | lost and spurious wakeups | one owner; no wakeup lost |
| `[P]` semaphore, mutex, condition variable | `multithread/csem.c`, `mutex.c`, `condv.c` | the POSIX object | wait, timedwait, post, ... | EINTR, timeouts | as used by the four above |
| `[M]` software bus | `swbus/swbus.c` | pools, RXQs, subscriptions, mutex, `syncl` | rxq_init, (un)subscribe, publish, rxq_wait, rxq_front, pop_front | references counted by several threads; locks taken in different orders | chunk intact while referred to; synchronous delivery; same order everywhere |
| `[M]` ring buffer, FIFO | `ds/rbuffer.c`, `fifo.c` | `start`, `current`, slots | add, remove, front, clear, index_query, map | wrap-around, overwrite, slots that hold old elements | it holds the newest elements in order |
| `[M]` linked list | `ds/llist.c`, `llist_node.c`, `allocm.c` | nodes, `first`, `last`, `current`, node pool | append, prepend, remove, delete, clear, sort, copy, filter, splice | pointer surgery; node allocation from a shared array | intact both ways, the sequence it stands for, no node lost |
| `[M]` multi-FIFO, raw FIFO | `ds/multififo.c`, `rawfifo.c` | root, children, `front_refmask`, `locked`; indices | add, remove, clear; enq, deq | interrupts between the halves of a call; indices that wrap | children serve the front packet; order kept |
| `[P]` dynamic array | `ds/darray.c` | elements, capacity, `current`, `sorted` | insert, remove, resize, sort, filter, copy, query | growing, shrinking, failed realloc, a stale `sorted` | it holds what was put in; queries find it |
| `[M]` hash map | `ds/hashmap.c` | buckets, block map, data blocks | add, get, remove, sort, clear | a full bucket spills into others that are sorted | it is a partial function; a block has one owner |
| `[M]` heap | `ds/binheap.c` | 1-based array, scratch slot | insert, extract, update, delete, make, clear | indices at the boundary, array resized underneath | heap order; contents |
| `[M]` search trees | `ds/bstree*.c`, `rbtree.c`, `ostree*.c`, `inttree*.c` | nodes, two sentinels, colours, counts, maxima, pool | insert, remove, select, rank, overlap | rotations and fixups through the sentinel | order, balance, augmentation |
| `[P]` matrices, graphs | `ds/matrix.c`, `dyn_matrix.c`, `adj_matrix.c`, `csmatrix.c` | arrays, edge count | set, resize, transpose, add and remove edges | both directions of an edge; rows of one length | what was set is there |
| `[P]` iterators, common | `ds/iter.c`, `ds.c` | cursor, filter | init, next | ends, filters, wrap | visits each element once |
| `[M]` algorithms | `algorithm/*.c` | tables | sort, search, LCS, edit distance, matrix chain | index arithmetic | equals the definition |
| `[P]` parallel algorithms | `omp_radix_sort.c`, others | array, bins, offsets | radix sort | threads write one array at computed offsets | sorted in any order of the threads |
| `[P]` time, checksums, hashes, memory | `utils/*.c` | none | arithmetic on time, CRC, sums, hashes, permutations | carries, seeds, widths | equals the definition |
| `[P]` standard I/O | `stdio/*.c` | output buffer | snprintf, conversions, string functions | flags, width and precision at the limits of buffers | prints what C defines |
| `[M]` profiler | `tool/grind.c` | per grindee: samples, table, interval | start, end, tick, count, report, reset | an interval that ends between a start and an end | a datapoint is the average of its own samples, in its interval |
| `[M]` monitor | `tool/minimon.c` | command table, line, memory | edit, parse, dispatch, read, write, load, send, jump | erasures, limits, partial words | memory and output as typed |
| `[x]` cvm, threads, processes, allocation, logging | | | | thin wrappers | |

How they interact: the bus owns an array of pools, an array of queues and one
reader-writer lock; a queue and a pool use counting semaphores and a mutex; a
queue is a FIFO, which is a ring buffer; a pool keeps two linked lists.  A
hash map's buckets and a heap are dynamic arrays; a multi-FIFO is a ring buffer
with others behind it; a list is sorted by the library's merge sorts.  All of
it is called from application threads, the multi-FIFO also from interrupts;
there are no callbacks that change state.  A publisher takes the bus mutex, then the write side of `syncl`, then
blocks in queues and pools; a consumer blocks in its queue first and in the
read side of `syncl` next: the orders cross, and that is where the bus is hard.

## Modules

| module | what it is | extends / instantiates |
|---|---|---|
| `RBuffer` | the ring buffer as a record and operators on it | |
| `BoundedFifo` | what a queue promises: a bounded sequence and, per thread, the element it offered or got | |
| `PCQueue` | the queue, one semaphore or mutex call per step | `RBuffer`; `BoundedFifo` as `Queue` |
| `PCQueueProofs` | theorems about it | `PCQueue`, TLAPS |
| `RefPool` | what a pool promises: chunks, references, a chunk is available when the last reference is dropped | |
| `MPool` | the pool, one step per semaphore or mutex call | `RefPool` as `Pool` |
| `MPoolProofs` | theorems about it | `MPool`, TLAPS |
| `RWLockSpec` | what a lock promises: one writer or any readers | |
| `RdWrLock` | the lock, one step per semaphore call | `RWLockSpec` as `Lock` |
| `RdWrLockProofs` | theorems about it | `RdWrLock`, TLAPS |
| `BSem` | the binary semaphore | |
| `BSemProofs` | theorems about it | `BSem`, TLAPS |
| `SWBus` | the bus over the promises of queue, pool and lock | |
| `SWBusProofs` | theorems about it | `SWBus`, TLAPS |
| `Ring` | the ring buffer that overwrites, with clear and query | `RBuffer` |
| `RawFifo`, `MultiFifo` | the two FIFOs used from interrupts | `Order` in `RawFifo` |
| `LList` | nodes and pointers of two lists over one pool or heap | `Order` |
| `Order` | what sorting means, the library's stable sorts, its binary search | |
| `DArray` | the dynamic array, its queries and its sorting | `Order` |
| `BinHeap`, `HashMap` | heap and hash map over `DArray`'s operators | `DArray` |
| `ContainerProofs` | theorems about the FIFOs, the array, the heap and the hash map | `Ring`, `RawFifo`, `MultiFifo`, `HashMap`, `BinHeap`, TLAPS |
| `Iter` | iterators over every state of an array, a list and a ring | `DArray`, `LList`, `Ring` |
| `Trees` | all four kinds of search tree | |
| `Matrices` | dense, adjacency and dynamic matrices | `Order` |
| `Sorting`, `DynProg`, `Text`, `Utils` | algorithms and pure functions as operators | `Order` in `Sorting` |
| `Algorithms` | their inputs and their reference definitions | the four above |
| `Grind`, `Minimon` | the two tools | `Minimon` uses `Text` |
| `LibraryProofs` | theorems about the linked list, the profiler, the matrices and the iterators, with the lemmas of `ContainerProofs` | `ContainerProofs`, `LList`, `Grind`, `Matrices`, `Iter` |
| `OmpRadix` | the parallel sort, a thread's loop iteration per step | |
| `OmpRadixProofs` | theorems about it | `OmpRadix`, TLAPS |
| `MC*` | the instances for TLC; `MCLibrary` joins the sequential modules | |

### Correspondence

Every thread has a label `pc`; an action goes from one label to the next and
is one call of a POSIX primitive or the whole body of a critical section.
What runs under a mutex and touches only what that mutex protects is one step.
`Lock`/`Unlock` are `mutex_lock`/`mutex_unlock`; `Wait*`, `*Take*` are
`csem_wait`/`csem_timedwait`; `Post*` is `csem_post`.

*PCQueue.* `fifo` is `queue->fifo.rb`.  A thread goes `idle` - `wait` - `lock`
- `body` - `unlock` - `post` in all five functions; `op` says in which
function it is.  `MustPost` is the difference between them: push and pop post
only when the FIFO accepted, timedpop and the peeks always do
(pcqueue.c:80,96,120,140,159).  `ptr` is the pointer peek returns, as the index
of a slot.  `csem_wait`'s status is not looked at, so a wait that a signal
interrupts lets the thread through without a token (`Interrupted`).  A wait
fails, by a signal or a timeout, only when it blocks (`Blocks`: the semaphore is
0); the waits of `MPool` and `RdWrLock` have the same guard.

*MPool.* `free` and `alloc` are the lists' contents, in order; `refs` the
counts.  Clients are modelled by handles: `refersTo[h]` is the chunk reference
`h` is to, `owner[h]` the thread that has it.  A client only passes a pointer
it has a reference to, and only calls `mpool_ref_remove` if it will still
release the chunk (mpool.c:201-205 describes that sequence); `bare` holds the
chunks whose only reference was uncounted so.  References travel between
threads (`Give`), as they do on the bus.

*RdWrLock.* Each label names the next semaphore call.  The untimed waits of
the timed reader (rdwrlock.c:101,104) and the ignored status of the timed
writer's wait for `order` (rdwrlock.c:47) are as in the code.

*BSem.* A `condv_wait` releases the mutex and sleeps in one step, a signal
wakes one sleeper, a sleeper may wake without one.  `Strangers` are threads
that post without having waited; `stray` records that one did.  A post or
flush that finds the semaphore available returns without unlocking
(`Refuse`).

*SWBus.* A pool is a set of free chunks with counts, a queue a bounded
sequence, `syncl` two sets: the promises of `RefPool`, `BoundedFifo` and
`RWLockSpec`, which the three detailed modules are checked to implement.
`job[p]` is the reservation of publisher `p`, `ent[q]` the entry the consumer
of queue `q` works on; `log`, `issued`, `content` and the numbers of packets
exist for the properties.  The number of the packet stands for its contents.
`PublishOwn` is a release without a pool (`bp` NULL): the code refuses to
notify anybody of it (swbus.c:28-33), though swbus.h:121-127 describes that use.
`EverySubscriberNotified` is therefore about packets from a pool (`FromPool`),
and the others are in the list of what is refuted, below.

*Containers.* An action is a whole call, so sequences of calls are explored and
the state after each is checked.  An element is its key, or a pair of key and
block where the code stores both.  `expected`, `newest`, `queued`, `darrKeys`,
`heapKeys`, `dict`, `treeKeys`, `edges` and `stored` are ghosts: what a client
who only knows the documentation believes is in the container; `darrKeys` and
`heapKeys` are a number of elements for each key.  A call the
code refuses is left out where it changes nothing, and is an action where it
does (`HashAdd` of a duplicate loses a block, `DaRemove` with a failed
`realloc` still removes, a `binheap_make` that does not fit has put in what did).

Where such a call leaves a container in a state after which what the headers
promise is lost, a ghost records it, and the property is stated up to there:
`missorted` (a list that is out of order and marked as sorted was not sorted),
`darrLoose` (an array could not be extended), `heapMishap` (which of four calls
left the heap unsifted or of size -1), `rawRaised` (a count was raised to what fits),
`carried` of a grindee (what a reset left in `accum`); for queries of an array and for
the hash map the predicates `MarkIsTrue` and `MarksAreTrue` say that what is marked as
sorted is.  Lists and maps go on
from there, with a weaker promise; an array, a heap and a raw FIFO stop, because the
next call would overrun memory or because no order is left to speak of.  That
the ghosts excuse no more than the one step is what the list of what is refuted is
for: there the header's sentence is a property without that condition.

*RawFifo.* Arrays are bytes.  A slot of the FIFO begins every `PtrAlign` bytes, the
width of a `dptr_t`, and an element in the caller's array every byte, as
rawfifo.c:46-49,62-65 have it for every `elt_size`; so copies overlap when an element
is wider, and the last one stays.

*MultiFifo.* add and remove are two actions each (`MfAddBegin`, `MfAddEnd`),
between which an interrupt may take a piece from a child (`MfPull`) or call
add itself (`MfIntrude`), whose error path clears the flag it did not set.

*Trees.* A node is named by its key; `TreeRoot` and `TreeNil` are the
sentinels of bstree.h, and the nil node's parent is written by a deletion as
in the code.  `aux` is the field `tmp` of a node: a subtree's size or an
interval's greatest end.  `Rotate` is the two rotations with sides swapped;
`Adopt`, `Lift` and `Hang` are its three pointer groups.

*Text.* A text is a sequence of characters.  `Format` goes through a format
string as `format_string_loop` does, `Snprintf` is the gadget that truncates.
`PrintsAsC` compares the result with what C defines, over flags, widths and
precisions given directly and through `*`.

*Grind.* Any time may pass between any two calls (`GrindPass`).  `samples` is a
ghost: everything measured since the last reset, in order.  `carried` is a ghost
too: what `accum` held when the last reset left it as it was.

*Minimon.* `MiniType` is the terminal; the other actions are one turn of the
loop of `minimon_start` each: `Dispatched` is line editing, parsing, lookup and
validation, and each action is one command with its hook.  `meant` follows
what the typed line means to its author, from the words of the help: a size is a
number of bytes, and of the bytes a load or a send touches beyond it nothing is said
(`Unsaid`).  A line with more tokens than `argv` holds is typed too; what
`mini_parse` writes behind the array is undefined, and the monitor stops there.

*OmpRadix.* Between two barriers threads run in any order; one step is one
iteration of a parallel loop, or one element written back.

## Runs

| run | instance | checks | result |
|---|---|---|---|
| `pcqueue_safety` | 2 slots, 1 producer, 2 consumers, 2 elements, 1 interrupt | tokens, no refusal, peeked slot stable, implements `BoundedFifo` | holds, 1.1M states |
| `pcqueue_live` | 1 slot, 2 producers, 2 consumers | elements and space become available | holds |
| `mpool` | 2 chunks, 2 threads, 3 references, 1 interrupt | partition, exact counts, tokens, implements `RefPool`, liveness | holds |
| `mpool_signals` | the same | a request finds a chunk | violated: finding 1 |
| `rdwrlock` | 3 threads, one of each timed kind | semaphores, implements `RWLockSpec`, fair line | holds |
| `rdwrlock_starvation` | 4 threads, one timed write | writers served | violated: finding 2 |
| `bsem` | 3 threads, one stranger | one owner, no lost wakeup, waiting ends | holds |
| `swbus` | 2 publishers, 2 queues, 2 pools, 2 packets | types and counts, contents, barrier, order, completeness, liveness | holds |
| `swbus_full` | 1 publisher, queues of one entry | publish returns | violated: finding 3 |
| `swbus_async` | asynchronous, 2 publishers, 3 packets | a chunk in use is not free | violated: finding 4 |
| `library` | one sequential part per behaviour | one invariant per part, below | holds, 438 000 states |
| `ostree_removal` | as `library` | an order statistics tree answers after removals | violated: finding 5 |

The invariants of `library`: `RingHoldsNewest`, `RawFifoKeepsOrder`,
`MultiFifoServesFront`, `ListsIntact`, `ArrayHoldsElements`, `HeapOrdered`,
`MapIsDictionary`, `IterationVisitsAll`, `TreesServe`, `MatricesKeepValues`
relate a container to its ghost after every sequence of calls;
`AlgorithmsMeetDefinitions` and `UtilitiesMeetDefinitions` compare operators
with reference definitions for every pair of words of the bounds;
`GrindDatapoints`, `MemoryAsCommanded` and `ParallelSortSorts` are the tools and
the parallel sort.  The parts do not interact, so that the run chooses one in
the initial state and leaves the others alone: the states add up.

**Bounds.**  Two slots wrap the ring buffer and tell full, empty and partial
apart; two elements tell order apart; two consumers race for one element.
Three references to two chunks let one chunk be shared while another is
granted and exhaust the pool.  Three threads on the lock are a writer and two
readers, the smallest number at which the first and last reader differ and a
writer is passed; a fourth is needed to starve a writer.  `MaxInterrupts`
bounds failed waits, `MaxTimedWrites` timed writes, `MaxPackets` the packets
published, `MaxIntruders` the adds that
interrupt one call of a multi-FIFO; each is a guard of one action.  In `swbus` a queue holds as many
entries as packets are published, so that a full queue does not arise: that
case is `swbus_full`, where the code does not have the properties.  Two
packet sizes make the search for a pool skip one.

In `library`: lists of three nodes have a first, an inner and a last; an array
of four elements is doubled and halved more than once, and `MaxCapacity` lets
`darray_resize` leave room; a heap of five has an element with one child; two
buckets of two and a hash that sends three keys to one of them make a bucket
overflow into one that has its own; five keys in every order of insertion and
deletion reach every case of both fixups, and `TreeMax` of three exhausts the
pool.  Words of up to four letters over two, in pairs, are inputs enough for
repeated, missing and overlapping parts; as digits, bytes or times they give
carries and sign changes.  A conversion buffer of `BufSize` twelve is reached
by width and precision.  Words of memory are two bytes, so that sizes that are
no whole number of words are small; the lines typed have erasures, errors, sizes
that are and are not whole numbers of words, and one with more tokens than
`argv` holds; `LineSize` is below the longest line typed.
Registers of sixteen bits exercise the shifts of the hashes and a 16-bit CRC
with the code's algorithm.  Two threads, base two and four numbers make the
parallel sort's offsets depend on other threads over two digits.

`CHECK_DEADLOCK FALSE` is set where the system may stop: a crashed process
(`mpool`), a semaphore whose mutex stays locked (`bsem`), an application that
has published all it wanted (`swbus`), a sort that is done (`library`).

**Fairness.**  A thread that can run is run (weak fairness of its steps): the
library is used under preemptive schedulers.  A thread waiting for a mutex is
not passed over forever (strong fairness), the usual promise of a pthread
mutex under fair scheduling.  A counting semaphore may prefer any waiter in
`PCQueue` and `MPool`, whose liveness does not depend on it; the fairness of
the reader-writer lock does, because its `order` semaphore is its queue, so
`RdWrLock` and, over it, `SWBus` assume semaphores that pass nobody over
forever.  Callers leave their critical sections and consumers serve their
queues; nobody is obliged to call anything, and timeouts need not expire but
for waits on which nothing else makes progress.

## Findings

1. `mpool_req` ignores the status of `csem_wait` (mpool.c:129) and then
   dereferences `free.first` (mpool.c:133), NULL if a signal interrupted the
   wait for an empty pool.  The header promises to "wait indefinitely"
   (mpool.h:219).  `mpool_timedreq` checks it.
2. `rdwrl_wr_timed_enter` posts `order` whether its own wait for it succeeded
   or not (rdwrlock.c:47,55).  From then on two threads at a time are in line
   and readers can keep `access` from a writer forever, against rdwrlock.h:25.
   Mutual exclusion is not affected.  Without timed writes the line is fair
   (`LineIsFair`).
3. `swbus_publish_release` pushes with a blocking `pcqueue_push` while it
   holds the mutex and the write side of `syncl`; when the queue is full its
   consumer waits for the read side (swbus.c:412) and both wait forever.  The
   header says ERROR is returned (swbus.h:346).
4. `swbus_subscriber_notify` pushes before it adds the reference (swbus.c:43,48).
   On an asynchronous bus the consumer may release in between; the publisher's
   reference then no longer protects the chunk (mpool.h:245).
5. `bstree_delete` repairs subtree sizes only when the node it unlinks is black
   (bstree.c:296).  After inserting 2, 3, 4, 1 and removing 1, `ostree_select`
   of index 1 returns NULL and `ostree_rank` of 3 is 2, against ostree.h:144.
   The trees keep order and balance (`TreesServe`), and answer correctly until
   the first removal.

### Refuted outside the runs

What a header says and the code does not do is stated as a property in the module
concerned also where no run of `PROJECT.json` checks it.  TLC refutes each of
them within a minute: replace the INVARIANTS (PROPERTIES) of the configuration in the
third column by the one name.  Where the column gives a constant, change it as well.

| property | module | configuration | code | against |
|---|---|---|---|---|
| `PopWaits` | `PCQueue` | `pcqueue_safety` | a pop whose wait on an empty queue a signal interrupts goes on and is refused (pcqueue.c:90) | it waits until the queue is non-empty (pcqueue.h:162) |
| `WaitEnds` | `BSem` | `bsem` | a post or flush of an available semaphore keeps the mutex, and nobody gets past it again (bsem.c:53,99) | a wait blocks until it becomes available (bsem.h:104) |
| `OwnPacketsArrive` | `SWBus` | `swbus`, with one publisher, subscription, queue and size, `EltSizes <- OnePoolSizes`, `PoolElts <- OnePoolElts` | a reservation with `bp` NULL is given to nobody (swbus.c:28) | all `swbus_rxq_XX()` functions can be used with it (swbus.h:121-127) |
| `BufferIsFound` | `SWBus` | `swbus`, `Sizes = {1}` | another publisher takes the last chunk between `mpool_isfull` and `mpool_req`, and the reservation waits although another pool has space (swbus.c:208,217) | the first pool large enough that has space (swbus.h:328) |
| `QueryFindsElements` | `Ring` | `library` | the query walks slots that hold removed elements (rbuffer.c:140) | the first element in the rbuffer (rbuffer.h:273) |
| `RingIterationVisitsAll` | `Iter` | `library` | forwards `start` is added twice (iter.c:58,152), backwards the size is the modulus | all of the elements (iter.h:72) |
| `RingFilterVisitsAccepted` | `Iter` | `library` | the filter stays at the first element it rejects (iter.c:152) | some of the elements (iter.h:94) |
| `CountsAreCapped` | `RawFifo` | `library` | counts are raised to what fits (rawfifo.c:43,58) | "cap it" (rawfifo.c:42) |
| `ElementsComeOut` | `RawFifo` | `library`, `RawEltSize = 2` | elements of two bytes are copied one byte apart (rawfifo.c:47,63) | elements of 1, 2 or 4 bytes (rawfifo.h:25) |
| `ListsAsAsked` | `LList` | `library` | `sorted` survives an append, and the next sort does nothing (llist.c:302) | it sorts (llist.h:392) |
| `QueryFindsFirst` | `DArray` | `library` | the scan goes on to the last match, the binary search finds any (darray.c:301,312) | the first occurrence (darray.h:321) |
| `ExtensionKeepsArray` | `DArray` | `library` | a failed extension leaves the new capacity (darray.c:49) | the original is preserved (darray.c:52) |
| `OrderAfterFailedMake` | `BinHeap` | `library` | a make that hits the limit leaves what it put in unsifted (binheap.c:135) | the best element is always on the top (binheap.h:93) |
| `RebuiltAfterExtract` | `BinHeap` | `library`, `HeapMax = 6` | an extraction whose array cannot shrink does not sift (binheap.c:163) | the heap is rebuilt (binheap.h:267) |
| `OrderAfterUpdate` | `BinHeap` | `library` | `binheap_update_key` sifts up only (binheap.c:179) | a key need not get better (binheap.h:295) |
| `EmptyAfterClear` | `BinHeap` | `library` | the scratch slot is cleared too and the size is -1 (binheap.h:195) | the heap is emptied (binheap.h:188) |
| `MapGivesItsData` | `HashMap` | `library` | a bucket that was sorted, by `hashmap_sort` or when it was filled, stays marked after an add behind its end, and the binary search misses keys (darray.c:301) | the data of the key (hashmap.h:311) |
| `ResetsForget` | `Grind` | `library` | `grind_reset` keeps the sum of an average it resets the count of (grind.c:798) | `res` samples are averaged (grind.h:262) |
| `SizeIsInBytes`, `LoadsItsBytes` (a PROPERTY) | `Minimon` | `library` | whole words are sent and written (minimon.c:691,770) | a number of bytes (minimon.c:175,197) |
| `NmeaSendsTheData` | `Minimon` | `library` | a pointer to words is moved by a number of bytes (minimon.c:715) | the words of the data (minimon.c:220) |
| `ArgvHoldsMaxArgs` | `Minimon` | `library` | the end is written behind the last argument that fits (minimon.c:463) | the largest number of arguments (minimon.h:19) |

### Seen

Seen in the concurrent parts and kept as behaviour: a peek whose wait is
interrupted proceeds without a token (pcqueue.c:153);
the reader-writer lock would go on in the same way (rdwrlock.c:36,40), which
`RdWrLock` leaves out, because `n_readers` is a data race from then on;
`bsem_post` returns ERROR also on success (bsem.c:58-61);
`bsem_timedwait` does not return on a timeout (bsem.c:69-71); a timed
read request waits without limit for `order` and `read` (rdwrlock.c:101,104);
`swbus_rxq_front` skips the barrier that
`swbus_rxq_wait` observes; `cvm_init` compares pointers with `OK` and fails
whenever its parts succeed (cvm.c:32-33).

Seen in the sequential parts, and left out of the inputs or stated in a
property's condition:

- *FIFOs.* A raw FIFO is followed up to the first count that is raised, since
  what is behind the caller's array is then read or written; its slots are
  `PtrAlign` bytes apart, so that a buffer of `max_elts` elements is too small
  when an element is narrower, and the order is stated for bytes in a build that
  aligns to bytes.  A refused `multififo_add` clears the lock of the call it interrupted
  (multififo.c:156): with two interrupts of one `multififo_remove` the second add
  is let in and feeds the children the new front, the interrupted call's own feed
  finds no room and leaves the mask empty, and the next remove takes the packet
  out before its pieces are handed out, although asynchronous accesses are to be
  OK because of the lock (multififo.h:104).  TLC shows `FrontFinished` violated
  in eleven steps of `MfSpec` with `MaxIntruders = 2`; the run and the theorem
  are about one.  An add to drained children feeds them the same packet again.
  `rbuffer_clear` zeroes the first slots, not those in use.
- *Lists and arrays.* `llist_filter` passes its two memory areas in the
  wrong order (llist.c:413-414), so that a list on areas of the documented sizes
  overruns one of them: `ListFilter` makes its new list on the heap only.  A splice
  of pool nodes frees them into the wrong pool.
  `darray_shrink` too restores the new size as the old one when
  `realloc` fails; `darray_remove` accepts the index behind the
  last; a full array with a limit cannot be copied.
- *Heap and map.* A refused duplicate
  loses its block; a duplicate is missed when linear probing put it elsewhere
  (hashmap.c:384); `hashmap_clear` gives no block back; a bucket's index is
  taken modulo the size of its handle (hashmap.c:34).
- *Algorithms.* `str_is_parenthesizable` reads its answer from the entry of the
  first two letters (algorithm.c:64) and is left out.  `radix_counting_sort` never places element 0 except by luck of its
  input, `qsort_iter` of one element runs off its stack, `ds_elt_swap` of an
  element with itself clears it and of an unusual size does nothing.
- *Matrices.* `adj_matrix` counts calls, not edges; `csmatrix_init` asks
  `darray_init` for an array whose size it refuses, and always fails.
- *Text.* `stdio_strcmp` returns the difference of the first characters
  (string.c:154, against string.h:218), `stdio_strncmp` runs past the end of
  both strings, `stdio_strrep` of an empty pattern does not end, a format that
  ends inside a specification is read past its end, `%#.Nb` of 0 keeps its
  prefix.
- *Tools.* `grind` resets nothing without an interval and divides by zero in
  `grind_capture_count`; a second start before an end toggles.  `minimon` keeps
  a backspace typed on an empty line as a character, runs the rest of a line
  that is too long as the next one, and takes `text` where its help says `ascii`.
- *Parallel sort.* A number of elements the threads do not divide leaves
  elements out; base 1 never ends; fewer threads than asked for share bins.

## Proofs

The theorems hold for every value of the constants that satisfies the named
assumptions: any capacity `MaxElts` of at least 1 (`MaxEltsAssumption`), any
finite sets of threads, disjoint where the module says so
(`ThreadsAssumption`), an `Unset` that is no element (`UnsetAssumption`), and
any number of references, interrupted waits or timed writes.  None of what is
proved depends on the bounds of the runs.

**`PCQueueProofs`.**  `TypeOK` is inductive alone (`TypeInvariance`), through
lemmas that `RingAdd`, `RingRemove` and `RingFront` stay within the record type
of the ring.  `TokenAccounting` is not: a push or pop that the FIFO refused
would skip its post and the token would be gone.  The strengthening `TokenInv`
adds `Accepted`, that a thread leaving the mutex has succeeded; a thread in
the critical section is counted among the holders of tokens, so the ring has a
free slot or an element for it, which is `NeverRefused` (lemma
`TokensSuffice`) and re-establishes `Accepted`.  Both are stated until the
first interrupted wait, since after it the code does go on without a token.
`PeekedSlotStable` needs no such restriction: `PeekInv` adds
that producers point to no slot, and adding never writes to a slot in use
(`PeekStability`).
`Implementation` maps the ring to the sequence `RingContents`; its lemmas say
that adding appends to that sequence and removing takes its head, modular
indices included, so every step is a step of `BoundedFifo` or a stutter.

**`RdWrLockProofs`.**  The inductive invariant `LockInv` has `TypeOK`, the
accounts of `SemaphoresAccounted` in terms of numbers of threads at labels
(`Accounts`), and `Idle`: a thread about to post `access` in
`rdwrl_rd_exit` finds `n_readers = 0`.  `Idle` is what the accounts alone lose
in the step that posts: the counter was read one step earlier, and only the
exclusion that `read` provides keeps it 0 until then (`OneHoldsRead`).
`StepKeepsInv` reduces every action to how it moves one thread between labels.
`LockImplementation` follows from `WriterAlone` and `ReaderExcludes`: a thread
in the write scope leaves nothing of `access` for anybody else.  Timed
requests are included, so the surplus posts of `order` (finding 2) are shown
never to break exclusion: `order` occurs in no part of `LockInv` but its type.

**`BSemProofs`.**  `SemInv` adds to the two properties `CallsInv`: who sleeps
waits, and who is inside a call does not have the semaphore yet, without
which a second acquisition by the same thread would not be counted.
`NoLostWakeup` is preserved because a post wakes a sleeper whenever there is
one and the value only rises in a post (`SemWakes`); `OneOwner` because a
take moves the 1 of the value to the taker and a post moves it back, as long
as nobody posts who does not have it (`SemExcludes`).

**`MPoolProofs`.**  The inductive invariant `PoolInv` joins `TypeOK`,
`Partition`, `RefsExact` and `TokenAccounting` to what a call relies on between its steps.
`Lengths`: the two lists together have `max_elts` nodes, so that no append is
refused, whose status mpool.c ignores.  `CallsInv`: from the moment it
is made until its critical section, a release or removal still has the
reference it gives up, and an addition still has one to the chunk it is about,
although other threads run in between.  `HandlesInv`: no two calls are about
the same reference.  `BareInv`: a chunk whose count `mpool_ref_remove` brought
below the references there are has exactly one left, and it is that release
that the floor in `mpool_release` is for.  The lemmas `RemoveFromList` and
`AppendToList` say what the list operations do to a list without duplicates;
`StoreTake`, `StoreRelease`, `StoreRefAdd` and `StoreRefRemove` what the
critical sections do to lists and counts; `PoolStep` maps them to the grants,
shares and drops of `RefPool`.  None of this uses the mutex: the model's
critical sections are single steps, so what is shown is that the order in which
calls reach them does not matter.  Nor does an interrupted wait: the accounts
of the semaphore go wrong by one (`PoolTokens` counts it), the lists do not.

**`SWBusProofs`.**  Two inductive invariants.  `BusInv` holds in both modes, with
consumers that skip the barrier and with full queues.  It joins `TypeOK` to what
mutex and list say of each publisher.  `MutexInv`: who is between `mutex_lock`
and `mutex_unlock` holds the mutex.  `JobInv`: where in the list its loop is;
past the end exactly when it leaves.  `DistributionInv`: before the loop its
packet is in no queue's `log`; in the loop it is in those of the subscriptions
the loop has reached (`Reached`), as the last packet, because nobody else pushes;
this is what keeps `SameOrder` of two logs when a packet is pushed to the second
of them, and `TotalOrder` and `EverySubscriberNotified` follow.
`QueueInv`: a consumer in the middle of a call has the first entry.
`SyncInv` needs a bus that is `Synchronous` (no `Async`, no consumer that uses
`swbus_rxq_front`); without that hypothesis `RefsAccounted` is false, which is
finding 4.  `WritersInv` says who is inside the write side of `syncl`;
`BarrierInv` is `SyncBarrier` from the moment a consumer is inside the read side
until its pop; `HolderInv` says that all who refer to a chunk agree on the packet
in it and that a publisher that copies is alone with it; `Account` is
`RefsAccount` of one chunk.  The step that needs all of them is the
consumer's release (`PopRelease`): were a publisher between its push and its
`mpool_ref_add` with the same chunk, `HolderInv` would give both the same packet,
which `BarrierInv` excludes, so the count is exact when it is decremented.
`swbus_rxq_pop_front` releases before it pops: `EntriesOf` leaves out the first
entry of a consumer in between, and a pop moves the entries of a queue one to the
front, a bijection between the pairs that are counted.  In the model the
list of subscriptions is written as a function of its indices in `Subscribe` and
`Unsubscribe`, about which the prover can reason without induction.

**`ContainerProofs`, the FIFOs.**  `RingInv` relates the slots to the ghost position by position,
with `RingSlot` of an index below twice the size reduced to a subtraction
(`SlotOf`); overwriting moves both by one.  `RawGood` does it for the raw FIFO's
two indices, whose difference modulo the size is the number of elements;
`RawInv` is `RawGood` for bytes until a count is raised.  That copies of one byte do
not overlap is what reduces `RawEnq` and `RawDeq` to one element per index
(`RawEnqBytes`).
`MfInv` says of the multi-FIFO between the halves of a call: a child with pieces
left is in the mask and holds the last pieces of the front (`KidsInv`); one
without has handed all of them out, unless no child got any (`ServedInv`); and
the lock is held until the call ends or the one interrupt clears it (`LockInv`).
The hypothesis `OneIntruder` is what the code needs: with two adds that
interrupt one call the property is false (see "Seen" above, under FIFOs).

**The hash map.**  `DictionaryKept` is for any keys that are numbers, any hash,
any number and size of buckets no larger than the handle
(`NBucketsAssumption`, `MapKeysAssumption`).  `HashInv` says where things
are: no key and no block is in two nodes of any buckets (`NodesFit`), a block in
use is some node's or was lost to a refused duplicate, a node is in the bucket
of its hash unless the map probes, and, in a map with `RCSW_DS_SORTED`, a bucket
marked as sorted is sorted, which `hashmap_get`'s binary search relies on.  In a map
without it `hashmap_sort` marks buckets that a later add appends to; so the
dictionary is proved of every state in which `MarksAreTrue`, and that
no key and no block is in two places of every state.  Two lemmas about module `Order` carry
it: `StableSortSorts` (what is sorted has the same elements and is ascending) and
`SearchFinds` (the binary search finds a key of an ascending array if it is
there).  That a key is found wherever probing put it is
`BucketFound`, since probing visits every bucket (`ProbesAll`).

**The dynamic array.**  `ElementsKept` counts: `Gains` says that one sequence is
another with one element more, wherever it is, and the lemmas `InsertedGains`,
`SwappedGains`, `RemovedLoses` and `RearrangedCount` say how a shift, an exchange or
a sort changes the number of elements with each key; each call is a few of them.
`ArrayInv` has those numbers and that the array is well formed: no more elements
than capacity, no more capacity than was allocated, and ascending if it was asked to
be sorted, which the binary search of a query relies on.  `darray_filter` is a loop; `RunExists` gives
the function from rounds to states and `StaysIn`, by a least counterexample, what
holds of all of them.  `darrFailed` plays no part: a shrink whose `realloc` fails is a step
like any other and loses no element.  After an extension that fails (`darrLoose`)
only the numbers of elements are claimed, and that they are within the memory.

**The heap.**  `HeapStaysOrdered` is for any set of numbers as keys that has a
least and a greatest, as C's `int` has (`HeapAssumption`).  While
`binheap_update_key` or `binheap_insert` sifts an element up, the heap is
ordered but for that element, and its children are in order with its parent
(`OrderedButUp`): the second half is what makes an exchange safe.  Sifting down
has the mirror image (`OrderedButDown`), from a parent `lo` on, so that it also
serves `binheap_make`, whose loop orders ever larger parts of the array from the
end.  Each sift ends because the element's index changes every round (`UpOk`,
`DownOk` count the rounds).  The scratch slot at index 0 never leaves its place and
is no element (`HeapCount`).  A refused make, an extraction that cannot shrink, a
worse key and a clear are steps too, to states of which nothing is claimed
(`heapMishap`): the code leaves the heap unsifted there, or of size -1.  With the counts of each key, `TopIsBest` makes the
top the best of what was put in.

**`OmpRadixProofs`.**  `ParallelSorts` holds for any number of threads, any base
of at least 2, any array that the threads divide and any natural numbers in it
(`OmpAssumption`).  `OmpInv` says, region by region, what an element has ahead
of it.  `WholeInv`: except while it is written back the array is a permutation of
what was given, sorted by the digits done so far.  `BinInv` and `SumInv`: a
thread's bin holds the elements with its digit among those of its share looked at
so far, by their places.  The `Place` of an element is the number of elements
that precede it by digit, then by index, and `Offset` the number of those to the
left of the first one in a thread's bin.  `BackInv`: there is an array `d` that
the bins were filled from; what has left a bin is at its place in the array, and
the rest is still in the bin.  The lemmas carry the argument: a bin is never
full before its last element (`TakeAtMost`), the offset of the next bin is this
one's and its length (`NextOffset`), the running sum the code forms is therefore
the offset (`PrefixSumIs`), no two elements have the same place and every place is
some element's (`PlacesDiffer`, `PlacesFilled`), so that the array written back is a
permutation; and it is sorted by one digit more (`OneMoreDigit`).  What
`PrefixSum`, a recursive function, computes is shown without induction: two
functions that obey its equation cannot differ at a least index
(`Least`, from the well-foundedness of < on the natural numbers).

**The linked list** (`LibraryProofs`).  `ListsKept` is for lists of any capacity,
any integer keys and any heap of up to one node for every place in the two lists
(`ListAssumption`), with and without pools and sorting, and with filtering to a
new list on the heap.  `llist_sort` reads `sorted` as the code does; once it has
skipped a list that is out of order (`missorted`) the keys' order is no longer
claimed, the links and nodes are.  `ListsIntact` speaks of what
following the `next` pointers finds; that is not inductive, since a walk says
nothing of a pointer it does not follow.  `ListInv` says instead that there
is a sequence of nodes for each list (`ListsHold`): distinct, linked to one
another in both directions with nothing before the first and behind the last
(`Linking`), from the list's own pool if it has one, holding the expected keys, and
these two sequences are apart and are all the nodes that are taken
(`TwoLists`).  `ChainIsWalked` shows that a walk finds the sequence, which gives
`ListsIntact` (`HoldsIntact`).

An operation on one list is a step from a sequence to another one that leaves all
other nodes as they were (`Owns`, `Turns`); `OneTurns` makes of it a step of both lists.
`LongerKeeps`, `PrecededKeeps` and `DeleteKeeps` are the pointer surgery
at the ends and in the middle.  `Segment` is a part of a list, linked to a node
before it and one behind it: two segments that meet join, one splits anywhere, and
one whose nodes nobody wrote to stays (`SegmentJoins`, `SegmentSplits`,
`SegmentMoves`), and so `llist_delete` and `llist_splice` are a few cuts and joins.
`RelinkedIs` and `OrderIs` say that linking the nodes in the order of the merge
sort loses none; `AscendingIsOne`, that two ascending sequences with the same
counts are equal, gives `llist_sort` its one possible result (`SortedIs`).
`NodeAllocIs` and `ProbeReaches`: a pool with a free entry is found to have one,
from whatever index the probe starts.

The loops of `llist_copy2`, `llist_filter2` and `llist_filter` are functions from
rounds to states; `CountingRunExists` and the lemmas on `Selected` take the place of
induction.  What a filter leaves after `n` rounds is what was selected of the
first `n` keys, then the others (`LeftAfter`); a round that matches searches for
its key from the front, and finds the element it has just passed because no
match is left before it (`KeptGoes`).  In `llist_filter` each match takes one node for
its copy and gives one back before the next match, so a single free node is
enough (`HoldsMoved`); that is the guard of `ListFilter`.

**The profiler** (`LibraryProofs`).  `GrindInv` has the invariant of each grindee and of the
interval.  `Sums`: every datapoint is the average of its block of samples, and
`accum` is the sum of those that wait for the next one, with what a reset in the
middle of a datapoint carried over (`carried`), so that the first datapoint after
such a reset is excepted; `Counts` says where the blocks lie.  No kept
sample is later than the clock.  That is all the interval needs: `InInterval`
follows from it whenever housekeeping has looked at the clock (`ResetIfOverKeeps`),
and every capture ends with that look, also one of a grindee that another
grindee's capture reset in between; the user's calls only empty tables.
`TotalOf` shows by a least counterexample what the recursive sum computes.  `Res`
is positive because `grind_init` asserts it, and a table has room for a datapoint
(`GrindAssumption`); `MaxTime` is only the run's bound.

**The matrices** (`LibraryProofs`).  `ValuesKept` is for any number of vertices, any
weights other than the mark of an absent edge (`MatrixAssumption`) and any size to which a
matrix grows; `MaxSide` bounds the arguments of the calls, not the proof.  `MInv` says
of the graph that every element of its matrix is the weight of the edge there, or the
mark (`Shows`), that the count is the number of edges, and that the edges of an
undirected graph are there both ways and are no loops (`BothWays`); and of the
matrix that grows that all its rows have one length and every place that was set
exists and has its value (`DynHolds`).  A flat array is taken apart by a division:
two places of a matrix are one index only if row and column agree, and every index is a
place (`PlacesApart`, `PlaceFound`).  `matrix_transpose` is two nested loops of
exchanges.  After the element (i, j) exactly the pairs below the diagonal up to
it have changed places (`Passed`, `Turned`); an exchange carries that to the next
element, a row to the next row, and when all have passed every element is where
its mirror image was (`MatrixTransposed`, `DynTransposed`).  `RowsGrow`
and `ColsGrow` say that `dyn_matrix_resize` moves nothing.

**The iterators** (`LibraryProofs`).  `EverythingVisited` is for any array, any list and any
ring buffer that starts in slot 0 which their operations can reach, so it rests on
`ArrayInv`, `ListInv` and `RingInv`; it needs no invariant of its own, since an
iterator writes only its cursor.  A client that calls until it gets `NULL` is a
recursive function from calls to what it has seen (`Visit`).  The positions of a
cursor are numbered, and with each goes what the client must have seen there: the
reverse of what is behind it, or what the filter selected of what is ahead of it
(`LastPart`, `FirstPart`, `Selects`).  A call leads from one position to another
with one element more, or returns nothing where all has been seen (`Passes`);
`VisitIs` makes the whole of it.  That a call skips exactly what the filter
refuses is `SelectsGrow`, and that a list's cursor knows its place is that no
node is in the list twice.

The type invariants of these modules are proved and so not checked again by the
runs; that of `SWBus` is also a part of `RefsAccount`.

Model-checked only: all liveness (out of the prover's reach), `RefsAccount`
and `PacketIntact` on an asynchronous bus, where they fail, and trees,
algorithms and the monitor, which use recursive operators that the prover does
not reach.  Where the recursion is a function (prefix sums, the profiler's
totals, binary search, sifting, filtering, transposing, iterating) a least counterexample takes the place of
induction, since the library's induction theorems take an operator as a
parameter.

## Not modelled

`cvm.c` (its init never succeeds), `threadm.c` and `procm.c` (system calls
without a state of their own), `alloc.c` (malloc or the caller's buffer),
the event reporting headers and plugin (logging), the clocks (system calls; the
models of the locks let a timeout expire at any moment).  `printf_float.c` and
`math.c` are floating point, which TLC does not compute.  `omp_kernel2d.c` is a
stencil over floating point numbers whose rows are independent.
`mpi_radix_sort.c` exchanges `size_t` data as `MPI_INT`, clears more than its
arrays hold and does not scatter the remainder, so it has no execution to
compare with a sort; `mpi_spmv_mult.c` and the rest of `csmatrix.c` start from
a sparse matrix, and `csmatrix_init` makes none: every call of it asks
`darray_init` for an array that is refused.

## Plan

What is left: *the trees' rotations and fixups*, one by one, as lemmas about the operators.
