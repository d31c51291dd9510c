# Models of the multithreaded HTTP and key-value server

TLA+ specifications of the server in `src/`: a network server whose single
polling thread hands socket events to a pool of workers, which read requests,
look files up in a shared cache (or keys in a lock-free hash table) and write
responses. The models are checked with TLC on small instances; most safety
properties of the thread pools, the file cache, the connection, the lock-free
list, the shutdown and the smaller components are proved with TLAPS for any
number of threads, tasks, files, keys and requests.

## The system

| Component | State | Operations | Talks to |
|---|---|---|---|
| `ThreadPoolFast` (thread_pool_fast) | free list, dispatch queue, per worker a hand-over slot | `addTask`, `workerLoop`, `stop`, destructor | everything runs on it |
| `ThreadPoolNormal` (thread_pool_normal) | one queue, a stop flag | same interface | benchmarks, tests |
| `IOManager`, `Descriptor`, `DescriptorPoller` | per socket: can/waiting flags and upcalls; list of deleted descriptors; timers; stop flags | `poll`, `stop`, `readWhenReady`, `readIfWaiting` (and write), `delDescriptor` | epoll, pool |
| `Connection` | in/out buffers, `writing_`, `refs_` | `startRead`, `doRead`, `startWrite`, `doWrite`, `startConnect`, `release` | Descriptor, Buffer |
| `HTTPServerConnection`, `HTTPClientConnection`, `KVServerConnection` | request being parsed, queue of response callbacks | `readDone`, `handleRequest`, `asyncSend` | FileCache, RequestStats, hash table |
| `Acceptor`, `ServiceManager`, services | listening socket, stop flags | `doAccept`, `close`, `run`, `stop` | IOManager |
| `FileCache` | map of Nodes, FIFO list, byte counters, pin counts | `pin`, `unpin` | file system, Buffer |
| `LockFreeList`, `LockFreeHashTable`, `HazardPointers` | marked links, buckets, retired nodes | insert, remove, lookup, retire | key-value service |
| `Buffer` and its `Iterator` | chunks, read and write positions | `reserve`, `advance`, `write`, `copyFrom`, `consume`, `next`, `eob` | connections, parser, FileCache |
| HTTP `Parser` | none: it starts over with the whole input | `parseRequest`, `parseResponse` | Buffer |
| `CircularBuffer`, `ListBasedSet`, `RequestStats` | a ring; a sorted list; per-thread rings of slots | read, write; insert, remove, lookup; `finishedRequest`, `getStats` | statistics of the server, benchmarks |
| `Spinlock`, `SpinlockMCS`, `Mutex`, `Barrier` | a flag; a queue of nodes; semaphores | lock, unlock, wait | everything, benchmarks |

What is hard here: workers, the polling thread and the thread that stops the
server interleave freely; a worker may stop the pool it runs on; sockets are
edge-triggered, so an event that nobody records is lost; connections and
descriptors are deleted while events for them are in flight; the file cache
pins and evicts under different locks; bytes, slots and characters arrive in
pieces that end anywhere. `PROJECT.json` lists these hazards line
by line, with the properties that cover them.

## Modules

| Module | Models | Granularity |
|---|---|---|
| `ThreadPool` | the promise of thread_pool.hpp: each task runs at most once, none is lost, none starts after `stop()` returned, `stop()` waits for the running ones | abstract |
| `ThreadPoolThreads` | the workers, tasks and other threads both pools have | constants |
| `ThreadPoolFast` | thread_pool_fast.cpp | a section of `m_dispatch_` is a step; what a worker does outside the locks is one of its own |
| `ThreadPoolNormal` | thread_pool_normal.cpp | a section of `queue_lock_` is a step; waiting, signals and spurious wakeups are explicit |
| `FileCache` | file_cache.cpp | a section of `CacheLock_` is a step, except the eviction loop, which is one step per list element; the pin of a hit is counted outside the lock |
| `Connection` | one server-side connection with its `Descriptor`, its share of the polling loop and `readDone()` | a section of `m_`, `m_write_` or `m_refs_`, a system call, an unprotected read |
| `LinearizableSet` | what callers of a concurrent set may rely on | abstract |
| `HazardPointers`, `LockFreeList` | hazard_pointers.hpp, lock_free_list.hpp | every read of shared memory, announcement and compare-and-swap |
| `ServerShutdown` | service_manager.cpp, acceptor.cpp, io_manager.cpp's loop, timers and `stop()`, the main programs; the pool is an instance of `ThreadPool` | a critical section, a system call, an unprotected access |
| `LockFreeHashTable` | lock_free_hash_table.cpp; its list calls are single steps, which `LockFreeList` justifies | an access to `count_`, `size_` or `buckets_` |
| `KVServer` | kv_service.cpp and kv_connection.cpp on that table, or the threads of its test | a call |
| `HTTPClient` | the client side of http_connection.cpp (kv_connection.cpp has a copy), `startConnect()`, `doConnect()` | a critical section, a system call |
| `LockTesters`, `SpinlockMCS` | spinlock.hpp and lock.hpp's `Mutex`; spinlock_mcs.hpp; with the testers of the lock benchmarks and tests | an access to shared memory |
| `ThreadBarrier` | thread_barrier.hpp | a semaphore operation |
| `Buffer`, `CircularBuffer`, `ListBasedSet`, `RequestStats`, `HTTPParser` | sequential code against a plain definition of what it should hold | a call |
| `ThreadPoolFastProofs`, `ThreadPoolNormalProofs`, `FileCacheProofs`, `ConnectionProofs`, `LockFreeListProofs`, `KVServerProofs`, `ServerShutdownProofs`, `ComponentsProofs` | theorems | |
| `MCThreadPools` | both pools side by side: a behaviour is one of the pool in `pool` | |
| `MCComponents` | puts `HTTPClient`, spinlock and mutex, the barrier and the sequential modules side by side: a behaviour is one of the component in `which` | |
| other `MC...` | constants for TLC | |

Both pools are proved to implement `ThreadPool` by a refinement mapping
(`ImplementsThreadPool`), and `ServerShutdown` uses `ThreadPool` in their place.
`LockFreeList` and `LockFreeHashTable` both implement `LinearizableSet`. Where a comment says "Mutant: ...", the definition
before the real one is a plausible bug of it; each property is known to fail
when some definition is replaced by its mutant.

Correspondence. Variables carry the code's names where the code has one
(`workers_`, `dispatch_queue_`, `refs_`, `bytes_used_`); `pc` is a thread's place
in the function it executes; history variables (`fresh`, `done`, `dropped`,
`prior`) record what became of tasks. `Connection` keeps `can_read_` and
`can_write_` in one function `can_`, and likewise `waiting_`. The map in
`PROJECT.json` gives the source lines of every definition.

External parts, modelled from how they are used: pthread condition variables
(with spurious wakeups), the file system in `FileCache` (open and read may fail,
files do not change while read), sockets and epoll in `Connection` (edge
triggered: news is reported once, with what the socket is ready for at that
time; new room in the send buffer is news only after a `write()` met EAGAIN),
the server that answers an `HTTPClient`, and the memory behind the end of a
chunk in `HTTPParser` (any character).

Undefined behaviour and what ends the process are explicit. In
`LockFreeHashTable` a `push_back()` that races with another thread's use of the
vector sets `torn`, after which nothing is claimed. In `ServerShutdown` the use
of a cleared pointer or of an object that was deleted ends the process (`Crash`,
one named disjunct per way), and so does a `write()` to a connection that was
reset in `Connection` (the place "sigpipe"). In `FileCache` the iterator that is
advanced after its element was erased (file_cache.cpp:115) still leads to the
next element, as it does while the freed memory is untouched, or ends the
process. In `KVServer` the NUL that `sprintf()` writes behind `char temp[2]` may or
may not be there when the array is read (`Printed`).

## Runs

| Run | Instance | Result |
|---|---|---|
| `pools` | either pool: 3 workers, 3 tasks; `stop()` from outside or from any task, in `ThreadPoolNormal` from any number of threads | all hold |
| `file_cache` | 2 threads, 4 files, 4 bytes of cache, blocks of 3 | all hold |
| `file_cache_pinned` | the same | `PinnedNotEvicted` violated |
| `connection` | 2 workers, 3 requests, responses of 1 block; safety and liveness | all hold |
| `connection_writing` | 2 workers, 2 requests, responses of 2 blocks | `WritingHasWriter` violated |
| `list` | 2 threads, 2 nodes, 2 keys, threshold 0, no scan within a swap | all hold |
| `list_hazard` | the same, with such scans | `NoReclaimedNodeUsed` violated |
| `shutdown` | 3 tasks, 2 workers, 1 acceptor, 1 connection, 2 timers, a thread outside | all hold |
| `shutdown_stop` | the same | `StopIsSafe` violated |
| `hash_table` | 2 threads, 5 keys, numbers of 4 bits, 2 calls each; the server builds 4 keys | all hold |
| `components` | 3 testers of 2 increments; 3 participants, 3 rounds; 2 senders of 2 requests; blocks of 3 bytes, 8 bytes; rings of 3; values 1..4; 2 threads, 3 slots, 7 ticks to a second, 15 ticks; inputs of 10 characters | all hold |
| `mcs` | 3 testers of 2 increments | `MCSCounterExact` violated |

Bounds. Three workers are one that stops the pool, one that returns to it and
one that is being handed a task; three tasks leave one queued while two run.
Two threads suffice for each race in the cache (a hit or a miss against an
eviction); the files are two that fit together, one that needs both evicted
and one longer than a block, whose buffer counts zero bytes. `MaxUnpinned` and
`MaxPins` bound counters that the code lets grow. Three requests are one whose
response waits to be written, one that is refused and one that comes behind
it; two workers are one that reads and one that writes. `connection_writing`
has responses of two blocks, of which a `write()` may take one.

In `list` every removed node is scanned for at once and comes back at the same
address; two nodes are one that is linked and one that comes or goes, so that
a lookup passes a node and both compare-and-swaps meet a neighbour that
changes. `MCLockFreeList` restricts the steps to those that keep `SwapUnseen`
(`UnseenSpec`), the condition of the theorems on the list; `list_hazard` is what
happens without it. `Garbage` is what uninitialised slots hold. Larger lists and
more threads are the matter of the proofs.

In `shutdown` three tasks are two that meet in `stop()`, or one that stops while
another accepts, and one queued behind them; arrivals pause when no task is
left for them (`Spare`). Numbers of four bits give buckets 0 to 7, of which the
table's growth from 2 to 4 and beyond leaves some to be initialised from
parents that are missing too; a load factor of 1 makes four insertions grow the
table; a request may carry any of the numbers, with or without the top bit,
that stands for the sign. Blocks of 3 bytes with room for 2 make reads, writes and copies end
before, at and after the end of a block, also reads of nothing; a second of 7
ticks in 3 slots leaves one tick over, and 15 ticks are more than two of it;
ten characters are a request or a response with a header line.

A pool with a single worker, the default of `ServiceManager`, is outside
`PriorTasksServed`: a `stop()` from a task then leaves earlier tasks in the
queue. With a second worker all are served (proved).

Both set implementations are checked with `Linearizable`: a successful `insert()` or
`remove()` is one step of `LinearizableSet`; every other answer must have been
right at some time during the call, which the history variable `was` records.

Fairness. Threads are scheduled (weak fairness of every worker, of the polling
thread and of a thread inside `stop()`, `pin()` or a call of the list), and
tasks return. In `components` the testers, participants, senders, the reader of
responses and the server are scheduled too; weak fairness is enough for the
spinlock because a tester makes finitely many increments. In `list` a thread is owed its steps as far as
the restriction to `SwapUnseen` lets it take them. Nothing is assumed of
callers, of peers, of arriving connections and timers, of spurious wakeups, or
of who gets a lock. `CHECK_DEADLOCK FALSE` is set where a behaviour may end:
after the process exited, or when a component's bounded input is used up.

What the violations show (quoted in `PROJECT.json`):

* `file_cache_pinned`: a hit unlocks before it counts its pin.
* `connection_writing`: a `doWrite()` that finds nothing to write leaves
  `writing_` set, and the connection never writes again.
* `list_hazard`: while `lookupInternal()` swaps its hazard pointers the node it
  has just passed is announced by neither. `LockFreeListProofs` shows that this
  is the only way the list goes wrong: with no scan in that window everything
  holds.
* `shutdown_stop`: `stop()` is not safe from any thread. The run's trace has a
  thread outside the pool: `close()` gives up the acceptor's Descriptor, the
  polling loop frees it with its callback, and a worker runs the `doAccept()`
  that was queued for it. The model has the other ways too: a `doAccept()` on the
  closed socket loops on EBADF (acceptor.cpp:94); one that met EAGAIN uses the
  cleared `io_descr_` (acceptor.cpp:97), as does `startAccept()` when `stop()` comes
  before it; a second task inside `stop()` waits for `stopped_` while the first
  joins the worker it runs on (service_manager.cpp:72); and the worker that
  called `stop()`, for which nobody waits, ends its connection or accepts again
  while `main()` deletes the IOManager and the acceptors
  (connection.cpp:57 against service_manager.cpp:32-37).
* `mcs`: `lock()` uses a compare-and-swap with a `tail_` it read before as if it
  were a swap (spinlock_mcs.hpp:37). When `unlock()` clears `tail_` in between, the
  thread enters without being in the queue, another enters with it, and the
  counter of the test misses an increment.

What the properties leave out, because the code does not provide it. Each is a
named exception in a property, so that everything else is checked around it:

* `NoUseAfterFree` (Connection): `startRead()` reads its callback after it
  released `m_` (io_manager.cpp:213); its caller holds no reference, and the
  Connection may be deleted and the Descriptor freed by then.
* `RequestsAreRead` (Connection): once `readDone()` has refused a request
  (`refused`), what the peer sent behind it stays unread, for as long as an
  unfinished response keeps the connection alive (connection.cpp:190-193).
* `ResetIsCleanedUp` (Connection): a worker that is woken up by a reset to go on
  writing calls plain `write()` (connection.cpp:220), and nothing ignores
  SIGPIPE: the process ends.
* `RunReturnsAfterStop` (ServerShutdown): the worker that called `stop()` is
  still running, although service_manager.cpp:21-25 says that all have been
  joined; see `shutdown_stop`.
* `StopCompletes` (ServerShutdown): `Stuck` and `crashed`, see `shutdown_stop`. The
  property is that nothing else keeps `stop()` from completing.
* `UsedIsSum` and the other properties of FileCache say nothing of progress:
  `unpin(0)`, with what a failed `pin()` returned, keeps the write lock for good
  (file_cache.cpp:155-174, `UnpinNull`).
* `AnswersRight` (KVServer): a number and its alias with the other sign bit are
  one key to the table, which sets that bit (lock_free_hash_table.cpp:93), so
  `GET /-2147483647` finds key 1; an address without a number looks up whatever
  `keyToSearch` holds; the body for key 0 is shorter than announced, and for
  others it may be longer when the NUL behind `temp` did not last; a build that
  checks the size of `temp` ends there. Any insertion that makes the table grow
  races with concurrent users of `buckets_`; the server only inserts before it
  serves.
* `ValuesKept` (ListBasedSet): only half of what list_set.hpp:25-33 says of a set.
  `remove()` of the head drops the rest of the list (list_set.cpp:68), so
  `lookup()` may miss members; that it finds no others, and that the list stays
  sorted, is what holds.
* `LastSecondCounted` (RequestStats): while the last slot of a thread began a
  whole ring ago but not more than a second, its whole ring is counted
  (request_stats.cpp:82-90, `WholeRing`); the ring is shorter than a second by
  the remainder of the division in request_stats.cpp:15. Requests of up to two
  seconds are then counted.
* `ParsedWhenComplete` (HTTPParser): a read that ends between `\r` and `\n` makes
  the parser look at a character that has not come (http_parser.cpp:123). A
  header line that is `Content-Length:` and nothing else ends in
  `std::out_of_range`, which nobody catches (http_parser.cpp:77); it is in the
  model, as a result of its own.
* `WaitersReturn` (HTTPClient): a write of nothing leaves `writing_` set, as in
  `connection_writing`, and a connection that closes calls no callback back.
* `ThreadPoolNormal` has no counterpart of `last_worker_`: the worker that called
  `stop()` goes back to the mutex of a pool that may be gone
  (thread_pool_normal.cpp:32). `ThreadPoolFast` is proved free of this
  (`SafeDestruction`).

## Proofs

Eight modules of theorems, each for every value of the constants. No property
below but `WakeupsSuffice` and `TopBitUnseen`, which is about operators, is inductive as it stands; the invariants named here
are the strengthenings, and each module shows that they hold initially, that
every action keeps them and that they imply the property.

`ThreadPoolFastProofs` proves `Typing`, `FreeListCorrect`, `PriorServed` and
`SafeDestruction`, in three layers:

* `TypeOK` together with `FreeInv`: the free list and the places of the workers
  determine each other, and no task is queued while a worker is free. It is
  needed to know that `assignTask()` meets an empty slot.
* `StopInv`: where a `stop()` is (its loop counter), which workers have been
  joined, and that the caller is inside its task.
* `PriorInv`: tasks added before `stop()` precede every request to stop, in the
  queue and over the slots: a worker ends only after a NULL was taken, and a
  NULL is taken only when the earlier tasks have left the queue. Hence when
  another worker has been joined no earlier task is pending.

It also proves `Refinement`: `ThreadPoolFast` implements `ThreadPool`. The mapping reads a task's status off the queue, the slots and the
workers' places, so it is a function only because a task is in one place
(`OnceInv`); `Inv` of the layers above gives that a joined pool has nothing
running but its caller.

`ThreadPoolNormalProofs` proves the same `Refinement` for the other pool, and
`WakeupsAreEnough`. `OnceInv` is as above; `StopInv` follows the first `stop()`
through its joins while any number of later calls come and go.

`FileCacheProofs` proves `Typing`, `WithinLimit` and `ListCorrect` from `Inv`: the
write lock belongs to the one thread in the eviction loop (`LockInv`), and the
room that thread made is still there when it stores the file. `Accounting`
(`bytes_used_` is the sum of the cached buffers) and `FailsOnlyWhenFull` (an action
property) need three more parts: the sum itself, taken as the number of pairs of
a cached file and one of its bytes so that a file that comes or goes changes it
by its size (`SumInv`); that `bytes_unpinned_files_`, which only grows, covers every
unpinned file (`CreditInv`); and that the eviction loop has left no unpinned file
behind it (`EvictInv`).

`ConnectionProofs` proves `ReferencesCounted`, `MemorySafe` and `OneOutstanding`
together: the count is exact only while each direction has one owner
(`AloneInv`), the owner exists only while the connection lives (`LifeInv`), and it
lives because its references are counted. `BufferInv` bounds
what the socket, `in_`, `out_` and a write under way hold.

`LockFreeListProofs` proves, of the list with its hazard pointers, that the chain
is sorted and complete (`ChainSortedAndComplete`), that every node has one owner
(`NodesHaveOneOwner`), that no reclaimed node is used (`NoUseAfterFree`) and that the
calls are linearizable (`ListIsLinearizable`), for any number of threads, nodes and
keys and any threshold. As `list_hazard` shows, none of this is true without a
condition; the theorems are about `Spec /\ []SwapUnseen`: no thread scans the hazard
pointers while another is between the two writes that swap its own.
`RightWithoutSwaps` gives three cases in which the condition holds by itself (one
thread, one key, or no more nodes than the threshold), and so all four
properties outright. The
inductive invariant `IInv` is made of

* `ListInv` and `OwnInv`: keys ascend along the chain, which is the least set that
  follows the links from the head; an unmarked node that was linked is in it;
  any other node is in one retired list or with the thread that allocated it;
* `ContextInv`: what `prev`, `cur` and `succ` still say about memory that others have
  changed since the thread read it. A marked link never changes until its node
  is reclaimed, which is what makes a stale pointer harmless;
* `Announced` and `Found`: the nodes a thread relies on are in its hazard pointers,
  and a scan that is under way has seen them there or has yet to look; so a
  node that is reclaimed, and may come back at the same address, is in nobody's
  use;
* `CallInv` and `SeenInv`: how far a call is, and what answers `was` allows it.

`Found` relates two threads; so there is one lemma per action for the thread that
takes it, and one (`OtherThread`) for all others.

`KVServerProofs` proves, of the hash table under the service or under the threads
of its test, `KeysAreReachable`, `CountIsExact` and `TableIsLinearizable`, and of the
service `ServerAnswersRight`, for any threads, keys, load factor and width of a
key. `TopBitUnseen` says which numbers are one key: those that differ in the top
bit only have the same place in the list and the same bucket at every size. A growth that meets another call (`torn`) ends a behaviour of the model; the
theorems are about what comes before it. The inductive invariant `TInv` is

* `CountInv`: the difference of the two sides of `CountExact` is a multiple of
  `Word`, which an increment or a decrement keeps, wrapped or not;
* `LocalInv`: the bucket of a call is the one its key had at some earlier size,
  the stack of `initialize_bucket()` is a bucket, its parent, and so on, and a
  thread that is about to double the table knows it to be so small that the new
  size is at most the top bit;
* `TableInv` and `BucketInv`: there are at least `size_` buckets and the first is in
  use; one in use leads to its own dummy and has a parent in use; a thread that
  grows the table has pushed the buckets it is about to announce;
* `SeenInv`: what answers `was` allows a call;
* `ServerInv`: the service inserts from one thread before it serves, so that it
  meets no race, and it serves with exactly the keys it was built with.

Everything rests on two facts about bits: a key whose low bits are a bucket's
number comes behind that bucket's dummy when bits are reversed (`KeyBehind`), and
`reverse()` maps no two numbers to one (`ReverseOnce`). Both are proved for every
width from the recursive functions of the model, by the least counterexample of
a set of numbers (`Least`, `Induction`), which needs no theorem with an operator as
a parameter.

`ServerShutdownProofs` proves `StoppedWhenRunReturns` and `FreedWhenForgotten`.
`run()` learns of the end of `stop()` from one flag, so `StageInv` follows the one
thread inside `stop()` through its stages and `StopInv` says what each has left
behind; `PollInv` relates the polling loop to the flags, `TaskInv` the tasks to
the callbacks they run, `MemoryInv` the order in which a socket is closed, its
events dropped and its Descriptor deleted.

`ComponentsProofs` proves, of the composition in `MCComponents`, three results on
components with any number of threads, and one on sequential code:

* `BarrierRounds`: one token is in `arrival_`, in `departure_` or with one
  participant, and `counter_` is the number of participants inside
  (`BarrierInv`).
* `Exclusion`: for the spinlock and the mutex one flag and one owner; `counter`
  is the number of increments made (`LockInv`).
* `OwnAnswers`: the callbacks queued at the client and the requests on their
  way to the server and back are in step (`ClientInv`).
* `RingAndSetKeepValues`: the unread values of a ring of any length lie between
  its two positions, counted modulo the length (`RingInv`); the list of a
  `ListBasedSet` increases, whatever its values (`SetInv`).

Assumptions, all evaluated by TLC in the runs: `NumWorkers` is a natural number,
`NULL` and `NoTask` are no tasks; sizes and limits of the cache are natural
numbers, `None` is neither a thread nor a file; the workers of a connection are
finitely many and not none, its requests a number and a response at least one
block; the server has at least one acceptor, task and place for a worker;
testers and participants are finite sets, and "free", the
value of a lock nobody has, is no user; the list has at least one thread and
one key, finitely many nodes, and neither `NULL` nor `HEAD` is a node; the values of
a ring and a set are integers; the threads of the hash table are finitely many,
a number has at least two bits and `Keys` are what is left of numbers without
the top one, 0 is a key, and the load factor and the number of keys the service builds are at least one.

Model-checked only:

* Liveness, which is out of the prover's reach.
* `BytesKept`, `LastSecondCounted`, `ParsedWhenComplete`: sequential code against a
  reference that is itself a fold or a recursive function.

## Not modelled

* Threads, the thread registry, thread-local storage: wrappers of pthreads.
* Callbacks: generated classes that bind arguments; that a callback made "once"
  deletes itself is visible only as tasks that run once.
* Logging and signal handling: output, and a stack trace before the process
  ends. That a FATAL message ends the process is part of `FileCache`.
* `Buffer::appendFrom()`, which only tests call. By reading, it leaves its
  argument with a write position past its chunks, and `byteCount()` of a buffer
  that was consumed before counts bytes twice.
* Values of parsed fields, names of files, wording of responses and statistics:
  formatting without an effect on control.
* `getStats()` while other threads record: each slot is a plain word that is
  read without a lock; the model takes the sum between records.
* `ListBasedSet::insert()` allocates the size of a pointer for a node
  (list_set.cpp:40, 45, 50); the model's list has no sizes.
* Tests, other benchmarks and utilities (parameters, child processes, timers).
