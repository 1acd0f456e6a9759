# Muses in TLA+

Muses is a header-only C++23 collection of concurrent primitives (queues, a
thread pool, a memory pool, caches, a Bloom filter, a logger) and a networking
stack on top of them (edge-triggered pollers, a sharded reactor, an HTTP handler,
a coroutine reverse proxy). This directory holds specifications of it. TLC checks
them on small instances, and TLAPS proves most of their safety properties for
every value of the constants.

## The system and its parts

```
 clients --- kernel / poller --- Reactor thread ---- dispatch ----> ThreadPool
                                  |  ^   |                            |
              RateLimiter (gate)--+  |   +-- RequestScan (framing)    | handler
              BloomCounters          |       on MemoryPool buffers    v
                                     +---- outbox: RingQueue <----- worker
                                               (DropNew)              |
                                                                  FileCache (LRU)
 any thread --- Logger: RingQueue (DropOldest) --- writer thread --- file

 clients --- poller --- Proxy: one thread, one coroutine per client --- upstreams
                        (KqueuePoller: the poller on BSD and macOS)
```

| Part (under `src/muses/`) | Model | Proofs | Run by |
|---|---|---|---|
| `bounded_queue.hpp`, ring | `RingQueue`, `Fifo` | `RingQueueProofs` | `MCRingQueue` |
| `bounded_queue.hpp`, Block policy | `BlockingQueue`, `CondVar`, `Fifo` | `BlockingQueueProofs` | `MCWaiting` |
| `queue.hpp` | `ThreadSafeQueue`, `CondVar`, `Fifo` | `WaitingProofs` | `MCWaiting` |
| `thread_pool.hpp` | `ThreadPool`, `CondVar` | `PoolProofs` | `MCWaiting` |
| `logging.hpp` | `Logger` | `WaitingProofs` | `MCWaiting` |
| `net/reactor.hpp`, one shard, with `net/poller.hpp` and `net/epoll_poller.hpp` as it uses them | `Reactor` | `ReactorProofs` | `MCReactor` |
| `net/reactor.hpp`, request framing | `RequestScan` | `ServingProofs` | `MCStructures` |
| `net/reactor.hpp`, address gate | `RateLimiter`, `BloomCounters` | `AdmissionProofs` | `MCStructures` |
| `bloom_filter.hpp` | `BloomCounters`, `BloomFilter` | `AdmissionProofs` | `MCStructures` |
| `lru_cache.hpp`, file cache of `net_components/http_handler.hpp` | `FileCache` | `ServingProofs` | `MCStructures` |
| `memory_pool.hpp` with `PooledBuffer` | `MemoryPool` | `PoolProofs` | `MCStructures` |
| `net/kqueue_poller.hpp` | `KqueuePoller` | `ServingProofs` | `MCStructures` |
| `net_components/proxy.hpp`, `task.hpp` as it uses it | `Proxy` | `ProxyProofs` | `MCProxy` |
| reactor pool, listener, poller factory, string processing of the HTTP handler, `profiler.hpp`, `config.hpp`, examples | | | see the end |

`MCWaiting` and `MCStructures` each put several parts side by side that share
nothing. Their variable `subject`, fixed by the initial state, says which part a
behaviour is about; the others rest. One run then checks each part separately.

## How the modules correspond to the code

**Grain.** Where the code is lock-free a step is one access to shared memory
(`RingQueue`). Where it holds a mutex a step is one critical section, and a wait
on a condition variable ends one section and begins another (`BlockingQueue`,
`ThreadSafeQueue`, `ThreadPool`, `Logger`). The reactor thread takes one step per
event, per `accept()`, per handback and per sweep, because workers run between
any two of them. The proxy's thread takes one step per system call. Atomics are
sequentially consistent in the models.

**Slips.** Next to some definitions stand variants such as `NextRoundLate` or
`DispatchUnguarded`, each with the mistake its comment names. No specification
uses them. They are there to show that a property notices the mistake.

- `RingQueue`. `seq`, `data`, `enqueue_pos`, `dequeue_pos`, `sem`, `stopped` are
  the members of `RingImpl`. `pc` and `pos` are where each thread is and its local
  `pos`. `push()` is `PushCall`, `PushLoadPos`, `PushLoadSeq`, `PushCas`,
  `PushEmplace`, `PushPublish`, `PushSignal`. `try_pop()` and `evict_one()` share
  the `Front*` actions, as their code is the same. `claimed` and `removed` are
  histories. `compare_exchange_weak` may fail spuriously.
- `BlockingQueue` and `ThreadSafeQueue`. A thread is idle, asleep on a condition
  variable, or awake inside a call and about to look at its predicate again. Both
  implement `Fifo`, which says what a queue promises.
- `ThreadPool`. The worker loop is split where the code unlocks: take, run, count
  down, notify. A future is the fact that its task has run.
- `Logger`. The ring is used as the FIFO that `RingQueue` shows it to be, and a
  push is its three steps: `LogCheck` looks at `stopped_`, `Log` claims a place and
  evicts, `LogStored` makes the entry visible to those who pop. The writer, `flush()`
  and the destructor are threads with a location each.
- `Reactor`. The record `s` holds the shard (connections, registrations, pending
  edges, jobs), so that the handlers `on_client_event`, `continue_write`,
  `finish_response`, `dispatch_to_worker`, `close_connection` are functions that
  call each other as in the code. The kernel gives out the lowest free descriptor,
  reports an edge once, and reports a reset as an error whatever the interest. A
  request is two fragments and a response `Parts` writes. The read loop of an event
  is one step; `Cuts` are the places at which it may then cut the buffer, one of
  them behind the first request, the others where `RequestScan`, which has the
  bytes, shows an event of several reads to cut. `Failures` names the system calls
  that may fail: `wait()`, `accept()`, the poller's `add()`. The wakeup after a
  push only shortens a wait, which is not timed.
- `RequestScan`. Bytes are `"r"`, `"n"` and `"x"`; reads, `scan_pos`, the cut and
  the drain after a response are those of the code. `late` records that an event
  went on reading after it had seen the end of a request.
- `RateLimiter`. The address gate of `accept_all()`, `ip_rate_exceeded()` and
  `sweep_ip_rate()` over a clock of ticks, with the packed counters of
  `BloomCounters` as the blacklist. Hashes are a constant from items to slots. Items
  are all addresses but 0, which the gate lets through unseen.
- `BloomFilter`. `add()`, `remove()`, `contains()`, `decay()` and `clear()` on the
  packed counters. `fresh`, `aged` and `overflowed` are histories.
- `FileCache`. A request is a get, a read from disk and a put, and other workers
  and the disk move in between.
- `MemoryPool`. A block is its offset. `allocate()` is one step; a release is the
  `fetch_sub`, the counters, the recycling. A `PooledBuffer` is a handle that is
  never copied; `Reserve` is its growth into a larger block.
- `KqueuePoller`. `kq_pending` is the change list. `KqFlush` hands it to the
  kernel, `KqFlushReturns` is the `kevent()` call of `flush_pending()` coming back
  with events nobody looks at, `KqWaitReturns` the one of `wait()`. What the
  kernel makes of a list of changes is external: of the changes to one filter the
  last one decides, and a delete of what is not there is an error.
- `Proxy`. A coroutine's frame is `co[k]`: where it is suspended, the descriptors
  it holds and what it has read. `Await` is `IoAwaiter::await_suspend()`, `Resume`
  is `resume_handle()`, `Reap` is `reap_finished_tasks()`. `Route`, `Acquire*`,
  `Connect`, `SendRequest`, `ReadHead`, `ReadResponse`, `ReadRest`, `Reply`,
  `Release` and `FailAttempt` are the stations of `serve_client()`. Clients and
  upstreams are external. A client sends its next request when it has the reply to
  the last one, and a response is shorter than 4096 bytes. The end of a chunked body
  is searched for as text in the code; the model takes it that a chunk's content does
  not contain that text.

## What the runs check

| Run | Instance | States | Properties and what they show |
|---|---|---|---|
| `RingDropNew` | DropNew, 2 producers, 2 consumers, 2 cells, 2 calls each | 333,514 | `CellExclusive`: a payload has one user at a time. `FifoOnce`, `NothingLost`: items leave once, in order, and are never overwritten. `ImplementsFifo`: the ring refines `Fifo`. `DropsOnlyWhenCellInUse`: a drop is not spurious |
| `RingWaits` | DropOldest, 1 producer with 4 pushes, 1 consumer that waits with and without a timeout | 80,547 | `NoStrandedItem`: no item stays behind while the consumer sleeps. `RingDataInv`: sequence numbers, payloads and histories agree, evictions included. `RingCallsReturn`: every call returns, after `stop()` the waits too |
| `Waiting` | both queues with 2 and 2 threads and capacity 1; pool of 2 workers, 2 submitters, 1 waiter; logger with 3 entries, a queue of 2, 1 `flush()` | 59,261 | queues: `NoLostWakeup`, `QueuesAreFifos`, `QueueCallsReturn` (nobody sleeps for ever who could go on, producers of a `ThreadSafeQueue` with a capacity excepted, and `stop()` gets everybody out), `SomebodyIsAwake` (without a capacity no sleeper is forgotten). Pool: `OutstandingCounts` (every task is in one place and counted), `WaitEmptyMeansDone`, `PoolWaitsEnd`. Logger: `EachEntryOnce`, `FileInOrder`, `LoggerShutsDown` (the destructor ends, and what was pushed before it began is in the file) |
| `Reactor` | 2 clients, 2 requests each, 2 descriptors, responses of 2 writes; `wait()`, `accept()` and `add()` may fail | 3,010,840 | `RepliesMatchRequests`: each client gets the responses to its own jobs, in order; `DispatchedIsAccurate`: the re-entry guard is exact and the outbox never full; `EntriesOwnTheirSockets` |
| `ReactorLiveness` | 2 clients, one talks; idle sweep; `add()` may fail; `stop()` | 126,287 | `EveryRequestAnswered`: every complete request gets to a worker and every job is answered; a client that sends no more before it has its response gets one for each request. `HangupsReclaimed`, `StopCompletes` |
| `Structures` | see `Structures.cfg` | 425,135 | cache: `IndexMatchesList`, `EvictsLeastRecent`; pool: `CountIsHandles`, `NoBlockLost`; framing: `OneRequestEach`, `NothingStuck`; Bloom filter: `FoundUntilFaded`; gate: `TwiceTheRateAtMost`, `BanHolds`; kqueue: `ChangesReachTheKernel` |
| `Proxy` | 2 clients, 2 upstreams, 4 descriptors, one retry; bodies, full buffers, cut responses, refused connects, a client that leaves | 1,126,913 | `HandlesAreSuspended`: an event resumes only a coroutine that waits for it, and each one that waits has its registration. `ConnectionsHaveOneOwner`: an upstream connection is in one pool or with one coroutine. `RepliesAreOwn`: a reply is a 502 or the response to that request |
| `ProxyLiveness` | 2 clients with a request each; lengths, responses that end after a chunked head, `stop()` | 210,563 | `RequestsAnswered`: no wait is for ever. `StopReturns`. Both except a thread that spins, see below |
| `QueueShared` | 1 producer, 2 consumers, capacity 1 | | a counterexample to `PushUnblocks`, see below |
| `ReactorReset` | 2 clients, either may reset | | a counterexample to `RepliesMatchRequests` |
| `ProxyClose` | 1 client, `Connection: close` | | a counterexample to `ClosedAfterLastReply` |
| `KqueueFlush` | 2 descriptors, a caller that uses `mod()` | | a counterexample to `NoTransitionLost` |

The type invariants (`TypeOK` and its kin in each module) hold on the same
instances. The runs leave them out in favour of the properties above.

**Why the bounds are enough.** Two cells are the fewest for which the ring works,
and four pushes make both cursors wrap. Two threads of each kind give every pair
of racing roles. Two clients and two descriptors are the fewest with which a
number is reused while an older job still names it. Two fragments per request let
a read end inside a request, and two requests let one be pipelined behind another.
In `Proxy` both clients go to one upstream, whose pool holds one connection, so
that connections are pooled, taken and closed for want of room; a retry leaves one
attempt after the first. The counters of the Bloom filter reach saturation (eight
additions of an item that probes a slot twice). The cache holds two of three keys.
The arena of the memory pool runs out, so that allocations escape. The change list
of the kqueue poller holds a del and an add of one descriptor, or changes of both.
Symmetry is used in safety runs only. Deadlock is checked in `Reactor`; the other
systems may stop, because callers run out of calls or the part is shut down.

**Fairness.** Threads inside an operation are scheduled: weak fairness of the
steps of a thread inside a call, of a woken thread that competes for the mutex, of
the reactor, the workers, the writer, a push to the log that has claimed its place,
the proxy's loop, a destructor once it has begun. A weak compare-exchange that is tried again and again does not fail for
ever (strong fairness of the compare-exchange of each thread). Clients of the
reactor read what they are sent. For the proxy, each peer goes on reading,
completes its connects, answers and sends what it has begun to send, or closes;
without that nothing could be promised, as the code has no timeouts. Nobody is
required to call anything, to connect, to send, or to stop. In `Logger` the
destructor is fair from the start: the program ends.

## What is proved

Each theorem holds for every value of the constants under the assumptions named in
the model (`ThreadsAssumption`, `PoolAssumption`, ...): threads of different roles
are different, sets that are counted are finite, numbers are natural, `None` and
`Null` are nothing else. What a theorem needs beyond that is its hypothesis.

| Module | Theorem | Says, and under which hypothesis |
|---|---|---|
| `RingQueueProofs` | `TypeCorrect` | `[]TypeOK` |
| | `PayloadsNeverRace`, `CursorsStayBounded` | `CellExclusive`, `Bounded`; `Cells >= 2` |
| | `RingIsFifo`, `RingLosesNothing`, `RingStaysConsistent` | `FifoOnce`, `NothingLost`, `RingDataInv`; `Cells >= 2`, both policies |
| | `DropsAreHonest` | the action property `DropsOnlyWhenCellInUse`; `Cells >= 2` |
| | `RingImplementsFifo` | the DropNew ring refines `Fifo`; `Cells >= 2` |
| | `NoItemIsStranded` | `NoStrandedItem`; `Cells >= 2`, one consumer |
| `BlockingQueueProofs` | `NoWakeupIsLost`, `BlockingIsFifo` | `NoLostWakeup`; refines `Fifo` |
| `WaitingProofs` | `SharedQueueIsFifo` | `ThreadSafeQueue` refines `Fifo` |
| | `OneConditionIsEnough` | `SomebodyIsAwake`; no capacity is set and the queue does not fill up |
| | `EntriesAreKept`, `LinesStayInOrder` | logger: `EachEntryOnce`, `FileInOrder` |
| `PoolProofs` | `TasksAddUp`, `WaitEmptyIsRight` | thread pool: `OutstandingCounts`, `WaitEmptyMeansDone` |
| | `CountsAreRight`, `BlocksAreKept` | memory pool: `CountIsHandles`, `NoBlockLost` |
| `ReactorProofs` | `RepliesReachTheirClients`, `OneRequestInFlight` | `RepliesMatchRequests`, `DispatchedIsAccurate`; orderly hangups, no idle sweep, a cell of the outbox per descriptor; any of the failures, `stop()` included |
| | `EntriesAgree` | `EntriesOwnTheirSockets`; the same |
| `ServingProofs` | `CacheStaysConsistent`, `EvictionIsLru` | `IndexMatchesList`, `EvictsLeastRecent` |
| | `FlushIsRight` | kqueue: `ChangesReachTheKernel` |
| | `NoRequestIsStuck` | `NothingStuck`, for every stream |
| | `RequestsAreCutRight` | `OneRequestEach`, for every stream: no byte is lost or moved, and what an event cuts that reads nothing after the first end it saw, or a response's end out of the buffer, is one request |
| `AdmissionProofs` | `RateIsBounded`, `BansHold` | `TwiceTheRateAtMost`, `BanHolds` |
| | `AddedIsFound` | `FoundUntilFaded`; callers remove only what they added |
| `ProxyProofs` | `HandlesStayValid`, `UpstreamsHaveOneOwner` | `HandlesAreSuspended`, `ConnectionsHaveOneOwner` |

`Cells >= 2` is a hypothesis and not an assumption, because the constructor
accepts a capacity of 1, for which the results are false. The conditions of the
reactor's theorems are exact in this sense: without each of them TLC finds a
counterexample, see the next section.

None of the properties is inductive as it stands. What each proof adds:

- **Ring.** That no two threads own a cell says nothing about the thread that is
  about to win its compare-exchange. `RingInv` says what the sequence numbers
  mean. For a position `n` between the cursors the cell holds `n` (being filled)
  or `n + 1` (ready); for one after them `n` (free) or `n - Cells + 1` (still
  being emptied). A thread at its compare-exchange whose position is still the
  cursor has seen the current sequence. Two positions with the same cell are a
  round apart (`IdxApart`), and the cursors are not, so owners of one cell are the
  same thread. `Cells >= 2` is used where a ready cell is told from a free one:
  `n + 1` and `n + Cells` must differ. `DataInv` ties payloads and histories to
  positions, `EmptiedInv` says what a cell tells about positions that were taken
  out, and `ParkedInv` that a consumer which has decided to sleep beside an item
  has a permit or a `push()` that will release one. The refinement maps the queue
  of `Fifo` to the items that are claimed and not removed.
- **Queues under a mutex.** Who sleeps is inside a call (`SleepInv`, `CallInv`).
  For the unbounded queue, as long as no producer waits, a notification can only
  go to a consumer (`NoPushWaits`).
- **Thread pool.** `PlacesInv`: an accepted task is queued, with one worker, or
  done. `CountInv`: `outstanding` is what is queued or with a worker.
- **Memory pool.** `PoolInv`. `PlaceInv` and `BinsInv` give every block one place;
  `RoomInv` lays the blocks of the arena end to end below `bump`; `CountersInv`
  makes a count the number of handles. The two halves need each other: a release
  is the last one because the count is right (`LastHolder`), and the count of a
  block that is handed out again starts at 1 because nobody holds it any more.
- **Reactor.** `ReactorInv` says of every descriptor where its request is
  (`FdInv`): nowhere, with a worker, in the outbox, or half written. The handlers
  are functions of the shard that call each other, and each has a lemma of its own.
- **Proxy.** `ProxyInv`. A step of a coroutine goes on, suspends or returns, and it
  keeps, takes, opens, closes or pools a connection; there is a lemma for each, and
  every action is shown to be one of either kind.
- **File cache.** `CacheInv`: the list has no key twice and is ordered by last use.
- **kqueue poller.** `KqInv`: the buffered changes lead from the kernel's filters to
  those asked for, one of them is in error as long as `mod()` is not used, so that
  the flush does not wait, and every awaited transition is active or will be.
- **Framing.** `ScanInv`: as long as no end of a request was seen the buffer holds
  none, and the search has not passed the last three bytes.
- **Logger.** `LogInv`. Every step of the writer, of `flush()` and of the destructor
  is a move of entries from one place to another (`EveryTurn`), and there is a lemma
  for each move. A swap overwrites nothing and an append adds an entry because a
  thread has something in hand only at the location whose step passes it on
  (`HandsInv`). For the order, `LineInv` puts the places in line, the file first and
  the queue last; nothing overtakes because the destructor drains only after it has
  joined the writer (`JoinInv`).
- **Gate.** `GateInv` bounds what an address got through in its window and before
  it. `BanInv`: who was blacklisted since the last decay is found.
- **Bloom filter.** `FilterInv`: a counter is at least the number of fresh additions
  that probe it (`Tokens`). What the loops of `add()` and `remove()` do to a counter
  is an induction over their rounds. The library's induction theorems cannot be
  used here, so it is done by hand, from the least round that would fail (`UpTo`,
  `LoopRuns`).

Leaves about locations and sets name Zenon, those with arithmetic go to SMT; a time
limit says that a leaf is slow. In `PoolProofs` the facts about finite sets are an
assumption of the lemmas (`CardFacts`), which a lemma at the end proves from the
library, because the library's theorems slow every proof they are visible in.
The theorems about `ThreadSafeQueue` and `ThreadPool` and the refinements of the two
queues under a mutex are about the modules themselves; `MCWaiting` instantiates the two
with variables of its own.

**Only model-checked.** Liveness, which the prover cannot do: `RingCallsReturn`,
`QueueCallsReturn`, `PoolWaitsEnd`, `LoggerShutsDown`, `EveryRequestAnswered`,
`HangupsReclaimed`, `StopCompletes`, `RequestsAnswered`, `StopReturns`. Of the safety properties, one: `RepliesAreOwn` of `Proxy`, whose
invariant would have to follow every piece of every response through sockets,
buffers and pooled connections.

## Where comments and code part

Four of these have a run of their own. The others are stated in the modules and
fail with the constants given here, everything else as in the named `.cfg`.

- **A reset connection's reply reaches another client** (`ReactorReset`,
  `RepliesMatchRequests`). `on_client_event()` closes on Closed even while the
  request is with a worker, and the handback names only the number.
  `reactor.hpp:697` says that the shard "owns the fd for its whole lifetime". The
  idle sweep does the same: `DispatchedIsAccurate` fails with `IdleSweep = TRUE` in
  `Reactor.cfg`.
- **A producer sleeps at a drained queue** (`QueueShared`, `PushUnblocks`). One
  condition variable for both sides and `notify_one()`; `try_pop()` does not notify
  at all. `queue.hpp:36-38` says push() "unblocks as consumers drain it".
- **A finished client's descriptor stays open** (`ProxyClose`,
  `ClosedAfterLastReply`). `reap_finished_tasks()` destroys the frame and nobody
  closes the connection, also after `Connection: close`, whose end the tests read
  "until EOF" (`test_proxy.cpp:88`).
- **A flush can swallow an event** (`KqueueFlush`, `NoTransitionLost`). The
  `kevent()` call of `flush_pending()` has an output array and a null timeout. If no
  change is in error it waits for an event and drops it. `kqueue_poller.hpp:189-190`
  speaks of errors only. `ChangesReachTheKernel` is what holds: callers that only
  add and delete always have an error in the list.
- An event that reads on after the end of a request cuts in the wrong place: a second
  hit, or a second read without one, moves `scan_pos` away from the end of the first
  request (`reactor.hpp:386`, `402`). `reactor.hpp:393-396` says that dispatch "carves
  off only the first request and leaves the rest". `OneRequestEach` without its
  condition on `late` fails. Two pipelined requests can then be one job with one
  response: `EveryRequestAnswered` without `[]Patient(k)` fails.
- A ring of one cell overwrites: `Bounded` fails with `Cells = 1`.
- Two waiting consumers can leave an item behind: `NoStrandedItem` fails with two
  producers and two consumers that use `"wait"`. `bounded_queue.hpp:111` promises
  to block "until an item is available".
- `push()` drops although a position is free, while a consumer is in the middle of
  a pop: `DropsOnlyWhenFull` fails (1 producer, 3 pushes, 1 consumer, DropNew).
- A DropOldest `push()` spins while a consumer is descheduled between its
  compare-exchange and its store: `RingCallsReturn` fails under `ProducersFairSpec`.
  `bounded_queue.hpp:46` says "never blocks producers".
- `accept_all()` leaves at the connection cap, after a full batch, or when `accept()`
  fails, with the edge consumed: `BacklogServed` fails in `ReactorLiveness.cfg` with
  `MaxConnections = 1`, with `AcceptBatch = 1` and with `Failures = {"accept"}`. `reactor.hpp:241-242` says that the rest "re-edge on the next
  accept batch". The proxy's `accept_clients()` does the same: `RequestsAnswered`
  fails with `AcceptBatch = 1`.
- "The double-close is harmless" (`reactor.hpp:478`): `SecondCloseIsHarmless` fails
  with three clients and `OutboxCapacity = 1`.
- `stop()` drops the poller while a worker is about to call `wakeup()`:
  `PollerOutlivesWorkers` fails with `MayStop = TRUE`. A worker whose handback is
  refused after `stop()` closes a number that is closed already, and that the
  process may have opened again for something else by then.
- An entry can be lost on shutdown: a `log()` that runs beside `~Logger()` looks at
  `stopped_` in time and stores its entry after the final drain.
  `NothingLostOnShutdown` fails in the place of `ShutdownKeepsEntries` in
  `LoggerShutsDown`. `logging.hpp:131` says "Final drain so nothing is lost on
  shutdown".
- `flush()` returns while the writer holds entries that were queued at the call:
  `FlushCompletes` fails. `logging.hpp:91` says "Block until all currently-queued
  entries are flushed to disk".
- `remove()` of an absent item decrements shared counters: `RemoveAbsentIsNoop`
  fails with `RemoveAbsent = TRUE`.
- The "sliding" window is fixed (`SlidingWindow` fails; `TwiceTheRateAtMost` is what
  holds), and a repeat offender is not banned for longer
  (`RepeatOffenderStaysBanned` fails with `MaxTime = 10`).
- A chunked response whose end is not in the first read is waited for until 4096
  bytes or the end of the connection: `RequestsAnswered` fails in `ProxyLiveness.cfg`
  with `Framings = {"length", "chunked"}`, one client, `WithBody = {c1}` and
  `MayStop = FALSE`.
- A chunked response that ends before its first size line is never done: `read_until()`
  comes back empty at once and the loop goes round (`proxy.hpp:546-549`), without
  suspending. No other client is served, and `stop()` does not come back from its
  join (`proxy.hpp:121`). `RequestsAnswered` and `StopReturns` fail without `Spinning`.

The proxy does a few more things no comment speaks of: it pools connections that
the upstream has closed, and the failed attempt that follows counts against the
upstream's health; it passes a response that was cut short on as a success; it has
no timeouts; `stop()` leaves the descriptors in use open.

## What is not modelled

Memory orders weaker than sequential consistency. The wrap of 64-bit positions and
of the semaphore's count, and the growth of that count under `try_pop()`.
Allocation failure. Files that cannot be opened. Restarting a stopped reactor.
Object construction and destruction order. Handlers that throw something other
than `std::exception`. In the proxy, the caps of 16 MiB, the rewriting of headers
and clients that pipeline. Several shards on one port (`ReactorPool`), which
share the listening descriptor and the handler and nothing else. The string processing of the
HTTP handler, the listener, the poller factory, the profiler, the configuration
and the examples: system calls, strings, a timer and constants without state that
others read.

## Plan

1. `RepliesAreOwn` as a theorem.
2. Restarting a reactor, whose outbox stays stopped.
3. `parse_request()` as operators against a reference.
4. `ReactorPool` as a composition of shards over a shared backlog.
