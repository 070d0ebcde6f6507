# Verification of mprmpr

TLA+ models of the concurrent and distributed parts of mprmpr, the TLC
configurations that check them on small instances, and theorems that TLAPS
checks for every value of the constants. Paths such as `rpc/connection.cc` are
relative to `src/mprmpr/` in the repository.

Contents: 1 the system and its components; 2 the modules and how they map to the
code; 3 the runs; 4 bounds; 5 fairness and deadlock; 6 what is proved; 7 findings;
8 what is only checked, and what is not modelled; 9 the plan.

## 1. The system

mprmpr is a C++ RPC system in the Kudu tradition and a small cluster on top of
it: a master, and worker servers that register with the master by heartbeats.

    user thread --AsyncRequest--> Proxy -> Messenger -> Reactor (one thread)
                                                         |  client Connection
                                                      network
                                                         |  server Connection
    AcceptorPool --RegisterInboundSocket--> Reactor ------+
                                              | Messenger::QueueInboundCall (lock_ shared)
                                              v
                     ServicePool: LifoServiceQueue -> worker threads
                                              |
                          GeneratedServiceIf::Handle -> ResultTracker (optional)
                                              |
                               RpcContext::Respond* -> Connection::QueueResponseForCall
                                              |
                               task of the Reactor -> transfer -> socket

    Heartbeater (thread in a worker) --MasterService.WorkerHeartbeat--> WorkerManager

    every server: a Clock (hybrid or logical), a tree of MemTrackers

### Components

For each: its state, its operations, how it meets the others, what is hard, and
what makes it correct.

**ResultTracker** (`rpc/result_tracker.*`, driven by `rpc/service_if.cc` and
`rpc/rpc_context.cc`).
*State*: per client, `stale_before_seq_no` and a map from sequence number to
completion record (state, driver attempt, ongoing RPCs, last update); all under
one lock. *Operations*: `TrackRpc`, `RecordCompletionAndRespond`, `FailAndRespond`,
`GCResults`, and for replicas `TrackRpcOrChangeDriver` and `IsCurrentDriver`, which
nothing in the repository calls. *Interactions*: the
generated service tracks each retriable call before it runs the handler; the
context's `Respond*` completes the record and answers every attached attempt.
*Hard*: retries, at any time, of RPCs that run, have finished, failed, or were
collected, and collection by three rules (response TTL, client TTL, the client's
first incomplete sequence number). *Correct when*: an RPC has one effect while
its client is remembered; the handler's record is there when it finishes; no
stored context is lost or answered twice; a remembered RPC is never called stale.

**Retriable RPCs** (`rpc/retriable_rpc.h`, `rpc/rpc.*`, `rpc/request_tracker.*`).
*State*: the client's incomplete sequence numbers, each RPC's attempt count and
phase, the retry timer. *Operations*: start, pick a server, send, receive, back
off, retry, finish. *Hard*: a request carries a watermark that is old when it
arrives; attempts overtake each other; each path must report the number complete.
*Correct when*: RPC, network and ResultTracker together implement "at most once,
and success means once".

**ServicePool and LifoServiceQueue** (`rpc/service_pool.*`, `rpc/service_queue.*`).
*State*: a bounded set of calls in deadline order, a stack of parked consumers,
each consumer's mailbox, `shutdown_`, `closing_`. *Operations*:
`QueueInboundCall` (put, hand over directly, evict the latest deadline, refuse),
the worker loop, `Shutdown`. *Hard*: `Put` pops a consumer and posts to it only
after it unlocked; what it refuses or evicts is answered by the thread that called
it, also after it unlocked; shutdown by two threads; wake-ups. *Correct when*: each
call has one owner and is answered once; when Shutdown returns, nothing is left but
what such a thread is about to answer.

**ThreadPool** (`util/threadpool.*`). *State*: task queue, thread counts, pool
status, three condition variables. *Operations*: `Submit`, `DispatchThread`,
`Wait`, `WaitFor`, `Shutdown`. *Hard*: threads that time out while a submitter
counts on them, signals after unlock, every way of becoming idle must wake the
waiters. *Correct when*: an accepted task runs or is dropped by Shutdown; no
wake-up is lost; nothing runs after Shutdown.

**Client connections** (`rpc/outbound_call.*`, `rpc/connection.*`, `rpc/transfer.*`,
`rpc/proxy.cc`). *State*: each call's state machine; `awaiting_response_`; the
transfer queue; the timers. *Operations*: `AsyncRequest`, assignment to a
connection, `WriteHandler`, responses, two-stage timeouts, connection loss,
shutdown. *Hard*: a call's answer, timeout, rejection, connection loss and
shutdown race, in any stage of its transmission. *Correct when*: the callback
runs once; each call has one party that will finish it; calls with a timeout
finish whatever happens.

**Reactor, Messenger, inbound connections** (`rpc/reactor.*`, `rpc/messenger.*`,
`rpc/connection.*`, `rpc/inbound_call.*`, `rpc/acceptor_pool.cc`). *State*: the
task queue and the async wake-up, connections, `calls_being_handled_`, the
service map under a `percpu_rwlock`, `closing_`. *Operations*: registration,
negotiation, reading and queueing calls, queueing responses, the keepalive scan,
`DumpRunningRpcs`, the shutdown sequence. *Hard*: unlocked state confined to the
reactor thread by convention; responses by service threads at any stage of the
shutdown; a spinning lock taken inside the reactor. *Correct when*: the map holds
exactly the calls somebody owns; a connection in use is never closed as idle;
tasks run or are aborted; shutdown leaves nothing and returns.

**RpcServer** (`server/rpc_server.*`): INITED, BOUND, STARTED, STOPPED; `Shutdown`
stops the acceptors, unregisters the services and leads to `Messenger::Shutdown`.

**Reader-writer locks** (`util/rw_semaphore.h`, `util/locks.h`): a writer bit and
a reader count; one such lock per CPU.

**Heartbeats** (`worker_server/heartbeater.*`, `master/worker_manager.*`,
`master/worker_descriptor.*`, `master/master_service_impl.cc`). *State*: the
worker's last response, failure count and proxy; the master's map of workers and
their last heartbeat. *Operations*: the thread's loop, `Stop`,
`WorkerHeartbeat`. *Hard*: lost answers and late requests, restarts of either
side with a new identity, the hurry of a worker that must register. *Correct
when*: a running worker is listed again and again, an ended one is forgotten,
registration is asked for once per master, the hurry ends, `Stop` returns.

**Clocks** (`server/clock.h`, `server/hybrid_clock.*`, `server/logical_clock.*`, chosen in
`server/server_base.cc`). *State*: the hybrid clock's `next_timestamp_` under a spin lock
over the wall clock and its error; the logical clock's atomic counter. *Operations*:
`Now` (with `NowLatest`, `GetGlobalLatest`), `Update` with another server's timestamp,
`IsAfter`, `WaitUntilAfter`, `WaitUntilAfterLocally`. *Interactions*: the generic service
reads the clock and sets the mock wall clock; metrics read it. *Hard*: `IsAfter` reads
the wall clock outside the lock and does not move the clock; the system's wall clock may
be set back, as at a leap second; a timestamp from elsewhere puts the clock ahead of
the wall clock and its error interval must be stretched; the logical clock's
load and compare-and-swap; two waits that release the lock. *Correct when*: `Now` is
strictly increasing and above whatever was accepted or waited for, and above what
`IsAfter` confirmed (but for the exception in section 7); error intervals hold the true time; a wait that succeeds was long enough, the local one ends.

**MemTracker** (`util/mem_tracker.*`, `util/high_water_mark.h`,
`MemoryTrackingBufferAllocator` of `util/memory/memory.cc`). *State*: a tree of
reference-counted trackers with weak links to the children, each an atomic counter
with an optional limit. *Operations*: find or create, create a child, destroy, list;
`Consume`, `TryConsume`, `Release`, `LimitExceeded`, `GcMemory`, `Allocate`. *Hard*: no lock
covers the tree or a walk through it; destructors run beside lookups, and so do creations
under the root that do not take the lookup's lock; a charge that is
refused half-way is rolled back while others charge. *Correct when*:
`FindOrCreateGlobalTracker` makes no second live tracker of an id, nobody uses a tracker
after it is gone or, but for the exception in section 7, before it is initialized,
accounts are exact on every path, limits hold for those who ask.

**Not modelled**: message framing and serialization, SASL negotiation, the code
generator, rpcz sampling, the failure detector, the
throttler, latches and thread wrappers, lock-free counters and arenas, the
processes' start-up, the web server and its pages, metrics and tracing, the OS
layer, encodings, the base library, the MySQL wrapper, the file-system manager,
the vendored `http/squeasel`. The reasons are in section 8 and, one by one, in
`PROJECT.json` ("components"), which also lists, under "hazards", every place
found where this code is hard to test, at its line, with the properties that
watch it or the reason why none does.

## 2. Modules

| module | models | state and actions |
| --- | --- | --- |
| `ResultTracker` | the result tracker with one handler per RPC | one action per public method (each holds the lock throughout), split by outcome: `TrackRpcStale/New/Completed/InProgress`, `RecordCompletionAndRespond`, `FailAndRespond`, `GCResults`; two actions let a TTL pass |
| `AtMostOnceRpc` | the promise, abstractly | begin, execute at most once, report |
| `ExactlyOnce` | composes ResultTracker with the clients and a network | `StartRpc`, `SendAttempt`, `LookupFails`, `ReceiveReply`, `AttemptTimesOut`, `RetryFires`; `Deliver`, `Lose`; the tracker's actions |
| `ExactlyOnce_proofs` | | theorems about ResultTracker and about the composition, and that it implements `AtMostOnceRpc` |
| `ServicePool` | the pool and its queue | a critical section of the queue's lock per action; `Post` and `Reject` after the unlock are ones of their own; `ShutdownQueue`, `Close`, `JoinWorkers`, `FinishShutdown` |
| `ServicePool_proofs` | | theorems about it |
| `ThreadPool` | the pool, three condition variables explicit | a critical section per action; `Signal` after the unlock is one of its own; `IdleTimeout`; waiters with and without a deadline |
| `ThreadPool_proofs` | | theorems about it |
| `RpcClient` | calls, reactor tasks, a client connection, negotiation, shutdown | one handler of the reactor thread per action; a step of `WriteHandler`'s loop per transfer; the tasks a wake-up drained run one by one |
| `RpcClient_proofs` | | theorems about it |
| `RpcServer` | acceptor, inbound connections, reactor, lock, dumper, stopper | as RpcClient; `HandleIncomingCall` and `QueueInboundCall` are apart because the lock is spun for in between; the writer flags one CPU's lock per step |
| `RpcServer_proofs` | | theorems about it |
| `Heartbeat` | worker threads and the master | the thread's wait, ping, call and answer; the handler, for calls awaited and for late ones; crashes and starts of both |
| `Heartbeat_proofs` | | theorems about it |
| `Clock` | the contract of `clock.h`, abstractly | read, report, confirm, the physical source goes back |
| `HybridClock` | the hybrid clock on a system or mock wall clock | `NowWithError` under the lock is a part of every action; `IsAfter` in two steps, the waits in several; LOG(FATAL) on an unsynchronized clock ends the process |
| `LogicalClock` | the logical clock | `UpdateLoads` and `UpdateSwaps` apart, as no lock is held |
| `ServerClock` | composes the two: the clock a server is built with | either clock's actions |
| `ServerClock_proofs` | | theorems about each clock and about the server's |
| `MemTracker` | trackers, their lookup and life, charges, collection, allocator | an action per counter, per critical section of a list, and per reference dropped; destructors in two steps |
| `MemTracker_proofs` | | theorems about it |
| `MC*` | | constants for TLC |

The variables carry the names of the fields they stand for, or say them in their
comment; `PROJECT.json` "map" gives each definition its lines. Definitions marked
`Mutant` are deliberate errors (a dropped guard, a missing wake-up): replacing
the definition that follows by them must make a run fail, which shows that the
properties depend on the code's own lines.

How the modules meet: ExactlyOnce extends ResultTracker and uses its actions as they
are. In ExactlyOnce the reply to an attempt is read from
`calls`, the tracker's history of answers. RpcServer abstracts what ServicePool
details: its `worker` set is the pool's queue and workers together, and the pool's
`EveryCallIsAnswered` is what RpcServer's fairness of `Respond` stands on. RpcClient
is the other end of the wire: its server is external and may answer or never.

### Choices worth knowing

- *ResultTracker*: time is a flag per record and client ("older than its TTL"), set
  at any moment and cleared by the updates the code makes. In-order deletion by
  `GCCompletionRecords` is a prefix of the sequence numbers. A request's watermark
  never exceeds its own number, as it is itself incomplete.
- *ExactlyOnce*: requests are delayed, reordered and lost; each attempt is sent
  once. A reply to an abandoned attempt is dropped by the RPC layer (RpcClient has
  the reason). A client falls silent only with nothing on its way: the client TTL is
  meant to outlive every request.
- *ServicePool*: the order of the queue is that of the code (deadline, then time
  received); two calls with one deadline are in the instance. A call that Put gives back
  (`dropped`) belongs to the thread that called Put, of which there is one for each call
  in `QueueInboundCall`. Nothing in the pool makes Shutdown wait for it; in a server
  `Messenger::QueueInboundCall` holds the messenger's lock shared all the while, and
  `UnregisterAllServices` takes it exclusively before it lets the pools go. That lock is
  in RpcServer and not here, so the pool's property allows for such calls.
- *ThreadPool*: a condition variable is the set of threads asleep on it; `Signal` wakes one
  of them, and a timed wait may run out at any time. Spurious wake-ups only repeat a
  check under the lock and are not modelled.
- *RpcClient*, *RpcServer*: one remote with one connection at a time; call ids are the calls
  themselves; bytes are "some" and "all". One reactor: others share only the lock.
- *RpcServer*: the dumper keeps its reader lock while it waits for the reactor;
  other readers keep it for part of a step.
- *HybridClock*: the physical part is unbounded and the logical part has `Logical` values
  (4096 in the code, a parameter here), so that logical overflow carries into the
  physical part as the addition of the code does. `Plausible` is what NTP's maximum error
  means: the system clock is off the true time by at most that. The true time and
  what was reported (`past`, `after`, `waited`, `peak`) are history variables that no action
  reads except the end of a sleep. The system's wall clock may be set back at any time,
  within its error; the mock refuses it (`CHECK_GE`, `hybrid_clock.cc:383`). Readings are later than the maximum error (`HybridAssumption`): below it
  `now_usec - error` would wrap around zero, which `NowEarliest < 0` keeps visible.
- *MemTracker*: an owner's handle is a `shared_ptr`, a listing holds others, a child holds its
  parent, and the last to let go runs the destructor in its own two steps, wherever that
  thread is. Owners release what they charged before they let go, as the destructor's
  DCHECK asks. Caches stand for the registered GC functions. `CreateTracker` takes no lock
  that a lookup holds, so where no parent is given (`server_base.cc:70`) it adds children of
  the root whatever their ids; the doc (`mem_tracker.h:33-36`) and the test
  (`tests/util/mem_tracker-test.cc:330-343`) allow such duplicates. A tracker therefore
  remembers (`global`) whether `FindOrCreateGlobalTracker` made it, and uniqueness is
  claimed of those only; a search that finds several keeps any one. `CreateTracker` lists a
  tracker before its `Init` has filled `all_trackers_` (`raw`, then `ready`): who charges one
  that a search handed out in between charges nobody (`ChargesNothing`, `missed`).
- *Heartbeat*: an instance (`permanent_uuid`) is a worker and the number of its
  start, as each start generates a new one. A failed call may still be executed
  by the master later.

## 3. Runs

Properties that only make sense together are conjunctions of named parts; the
parts are named in brackets. Each invariant carrying the types has `TypeOK`
among its parts.

| run | question | checks |
| --- | --- | --- |
| `exactly_once` | do retries, losses, completions, failures, expiry and collection keep one effect per RPC, and do client, network and tracker together keep the promise? | `OnceSpec` (refines `AtMostOnceRpc`), `IInv` (types; records, drivers, stored contexts and watermark agree: with `WatermarkBelowRecords` and `OpenCallsAreAttached` as consequences), `AtMostOnce`, `HandlerDrivesItsRecord` (the `CHECK`s and the `LOG(FATAL)`), `IncompleteInv` [`IncompleteIsPending`, `IncompleteIsNeverStale`, `EffectsAreKnown`, `WatermarksAreLow`], `SuccessIsTheRecordedResponse`, `OpenCallsAreAnswered` |
| `exactly_once_new_chance` | does a failed RPC get the new chance `result_tracker.h` promises? | violated, finding 1 |
| `service_pool` | is each queued call answered once, through overflow, hand-over, expiry and shutdown? | `EachCallHasOneOwner`, `QueueInv` [`OnePostPerWait`, `NoIdleConsumerWhileQueued`, `OnlySleepersHaveMail`, `ClosersAgree`], `ShutdownLeavesNothing`, `DroppedCallIsTheLeastUrgent`, `EveryCallIsAnswered`, `ShutdownReturns` |
| `thread_pool` | do threads that come and go leave a task or a sleeper behind? | `ThreadsInv` [`LastThreadLeavesNoTask`, `MinThreadsStay`, `NothingRunsAfterShutdown`, `PermanentThreadsStay`, `TasksAreSomewhere`, `ShutdownEmptiesTheQueue`], `NoLostWakeUp` [`QueuedTaskHasAWakeThread`, `BlockedWaiterIsWokenLater`], `AcceptedTasksFinish`, `ShutdownReturns` |
| `thread_pool_wait` | does `Wait` return? | violated, finding 2 |
| `rpc_client` | is each call finished, once, by one party? | `EachCallFinishesOnce` [`CallbackOnce`, `OneOwnerPerCall`], `ConnectionInv` [`ChecksHold`, `WriteInterestFollowsQueue`, `NothingLeftAfterShutdown`, `TasksAreUnique`, `StatesFollowOwners`, `TransfersHaveCars`, `OneNegotiation`, `ShutdownIsInOrder`, `TimersFollowCalls`], `TimedOutIsNotSent`, `TimedCallsFinish`, `ShutdownFinishesCalls` |
| `rpc_client_timer` | does `DCHECK(car->call)` hold with a rejected call that has a timeout? | violated, finding 3 |
| `rpc_server` | are inbound calls owned, answered and cleaned up, whoever answers and whenever it stops? | `CallsOwnedOnce`, `LostOnlyIfBroken`, `ShutdownInv` [`ClosedIsQuiet`, `NoHandlerAfterUnregister`, `NothingLeftAfterShutdown`, `TasksAreUnique`, `TasksFollowConnections`, `CallsFollowConnections`, `WriterIsAlone`, `ShutdownIsInOrder`], `MapIsConfined`, `CallsGetAnswered`, `ShutdownReturns` |
| `rpc_server_dump` | does every task given to the reactor run or abort? | violated, finding 4 |
| `heartbeat` | does the master's list follow the workers? | `IInv`, `HurriedIsBounded`, `RegistersOncePerMaster`, `RunningIsListed`, `EndedIsForgotten` |
| `server_clock` | does the clock a server is built with keep the contract of `clock.h` and its own error bounds? | `ClockSpec` (refines `Clock`), `ServerInv` (`HybridInv` or `LogicalInv`), `ErrorBoundsHold` [`TrueTimeIsInInterval`, `WaitedTimeIsPast`], `LocalWaitEnds` |
| `mem_tracker` | do lookups, destructors and charges that walk the tree without a lock agree? | `MemInv` [`GlobalNamesAreUnique`, `HandlesAreWhole`, `NoneIsLost`], `AccountsAreExact` [`CachesAreWatched`; each consumption equals `Load`, the shares of all threads and caches, also in the middle of operations; never negative; 0 at a destructor], `LimitHolds` |

The last two liveness properties of `rpc_server` make an exception for the state
`Stuck` of finding 4; they would fail at once without it.

Run one with `tlc -config MCRpcServer.cfg MCRpcServer`; `PROJECT.json` "runs" pairs
modules and configurations. Each takes from seconds to about two minutes.

## 4. Bounds

| run | bounds | why the interesting cases are in |
| --- | --- | --- |
| `exactly_once` | one client, sequence numbers 0..1, attempts 0..1 | clients do not share records, only the lock; two numbers are needed for the watermark of one to reach the other, two attempts for a retry |
| `service_pool` | four calls (deadlines early, equal, late; one asks for a missing feature), queue of one, two workers, two closers, clock 0..1 | one call in the queue, one handed over, one evicted and one arriving late can exist together; deadline 0 runs out, the others do not |
| `thread_pool` | three tasks, at most two threads out of three identities, queue of two, one waiter that calls `Wait` or `WaitFor`, every `min_threads` | a thread leaves while another is created and a task is queued; a second waiter would wake by the same broadcast |
| `rpc_client` | three calls (two-stage timeout; rejected for a feature; no timeout), two connections | a connection is lost with calls in every state and followed by a second one; the rejected call has no timeout in this run, which finding 3 needs |
| `rpc_server` | two connections with one call each, two CPUs | one connection is scanned, broken or refused while the other's call waits for the lock; the writer may stand between two flags |
| `server_clock` | one thread inside `IsAfter`, `Update` or a wait (other threads' `Now` and `Update` are actions of their own), two logical values per microsecond, maximum error 1, wall and true time 2..3, timestamps 0 and 5..7 | the logical part overflows within two readings; the wall clock can lag, jump, stand still, be set back before and after `IsAfter` answers, and lose synchrony, with readings before and after; timestamps reach exactly the maximum error ahead and beyond it; the proofs have any number of threads and values |
| `mem_tracker` | three threads (while bytes are charged, two that take part: `MaxBusy`), two trackers besides the root (siblings, or one below the other), ids with and without a limit, one of them asked for by `FindOrCreateGlobalTracker`, root limit 2, charges of one or two bytes, two for a thread with its tracker's cache, of which the cache has one | a sibling's charge is refused by the parent, a child's by itself or by either ancestor; a tracker dies under a lookup and its id is created again, by another lookup or beside it; a search finds two of an id, or one that is listed and not initialized, which is then charged; a thread charges while the other rolls back or collects. `Explored` leaves out charges on trackers that differ only in who made them, and what follows once the last raw tracker that was charged is initialized |
| `heartbeat` | one worker, two starts of its process, three of the master, two failures before back-off | workers share nothing but the map; an old and a new instance of one worker coexist |

Bounds on the behaviour, each a guard or a finite constant: attempts per RPC
(`AttemptNo`: an RPC that has used them up finishes as if its deadline had
passed), `MaxTime`, `MaxConnections`, `MaxStarts`, `MaxMasterStarts`, `Room` of the clocks (no call begins once
the clock has left `Stamp`), `MaxHeld`, `MaxBusy`. `MaxFailures` and `MaxError` are flags of the
code. Symmetry (of threads and of tracker objects) is used only in `mem_tracker`, which
checks no liveness.

## 5. Fairness and deadlock

Fairness is asked only of what the process itself schedules:
- `ExactlyOnce`: a handler responds, as a generated service method must.
- `ServicePool`, `ThreadPool`: a runnable thread runs (a producer that must post or
  refuse a call among them), a task or handler ends, a
  joined thread is noticed, the deadline of `WaitFor` passes. Nobody has to send a call, submit a task, shut
  down, or have an idle timeout.
- `RpcClient`, `RpcServer`: libev serves every ready watcher, so each handler of the
  reactor thread that stays enabled happens; negotiations end by their deadline;
  a stopping thread goes on; a service answers (RpcServer) - ServicePool shows when.
  The server, the network, the peers (who may not read their responses) and the
  issuing users owe nothing.
- `Heartbeat`: the thread goes on (calls have a timeout and waits end), the master's
  clock passes the timeout, a master that died is started again. Strong fairness
  of a ping, a heartbeat and its answer says that a network which keeps being
  tried lets one through; without it no heartbeat protocol lists anybody.
- `ServerClock`: a thread in the loop of `WaitUntilAfterLocally` goes round again, or the
  process dies of an unsynchronized clock; the wall clock owes nothing.

Deadlock checking is on for ExactlyOnce, where time never ends, and for MemTracker,
where an owner can always let go. It is off
(`CHECK_DEADLOCK FALSE`) for the others: a pool that was shut down, a messenger that
is gone, a process that died of its clock, or calls and starts used up are proper ends. Being stuck early is what the
liveness properties exclude there.

## 6. What is proved

`ExactlyOnce_proofs`, first about ResultTracker, for any sets of clients, sequence numbers and attempt numbers
within the naturals (`SeqNoAssumption`, `AttemptAssumption`):
- `Invariance`: `Spec => []IInv`. `AtMostOnce` alone is not inductive: that nothing
  recorded is executed again needs that a recorded response is either still cached
  or below the watermark, that what is in progress has recorded nothing, that a
  handler's record survives collection, and that the watermark only rises past
  deleted records. `IInv` says these of each RPC separately (`RpcInv`), so that the
  proof of a step treats the RPC it works on and then the others. One lemma for
  each outcome of `TrackRpc`, one for the handler's responses, one for collection
  and one for time.
- From it `TypeCorrect`, `ExecutedAtMostOnce`, `HandlersFindTheirRecord`,
  `RecordsAboveWatermark`, `ContextsAreAttached`, and the action property
  `AnswersCarryTheRecorded` (every successful answer carries the recorded response).

Then about the composition, from the same assumptions and the tracker's `Inductive`, as its
invariant holds whatever the rest of the system does:
- `SysInvariance`: `SysSpec => []SysInv`, that is `IInv` and `IncompleteInv`; `BothEndsAgree`
  is the second. The tracker alone executes an RPC once while it remembers the client;
  that this is once for ever needs that what it forgets concerns nothing live.
  `EffectsAreKnown` says so: while a request of an RPC may arrive, or its handler runs,
  `recorded` tells whether it took effect, and the live RPCs of a client that is
  forgotten or may be next are untouched. `WatermarksAreLow` keeps every watermark, on
  the wire or at the server, below the RPCs that are not finished or not begun: numbers
  are taken in order, and a silent client's records are all below its new RPCs.
- `ImplementsAtMostOnce`: `SysSpec => OnceSpec`. A new RPC is `Begin`, a handler's success
  `Execute`, the end of an RPC `ReportSuccess` or `ReportFailure`; every other step
  stutters. The well-order of the naturals (`NatLessThanWellFounded`) gives the first
  incomplete number that a request carries.

`ServicePool_proofs`, for any calls with deadlines in the naturals, any workers, closers and
queue length (`PoolAssumption`; the three constants of the mailbox are no calls):
- `Invariance`: `Spec => []IInv`, that is `QueueInv` and `OneOwner`, which places each call
  in the queue, in a producer's hands (popped a consumer, not posted yet, or got the call
  back from Put and has not answered it), in a mailbox, with a worker, or among the
  answers, and nowhere twice. The two lean on each other:
  a hand-over keeps its call only because its consumer sleeps with an empty mailbox
  (`OnePostPerWait`), which needs that mail lies only with sleepers.
- From it `QueueAssertionsHold`, `CallsAreOwnedOnce`, `TheLeastUrgentGoes`, and `NothingIsLeft`:
  a second `Shutdown` that finds `closing_` set returns at once, and is right to, because
  `shutdown_lock_` is held until the first has joined and drained (`ClosersAgree`).

`Heartbeat_proofs`, for any finite set of workers and any bounds
(`HeartbeatAssumption`): `Invariance`, `TypeCorrect`, `HurryEnds` and `AskedOncePerMaster`.
The bound on hurried heartbeats is not inductive: it needs that a worker that must
register has counted as many failures as it has hurried, which needs that only a
heartbeat without a registration can be told to register - a relation between the
worker's flag and the master's answer (`WorkerInv`). That a worker is asked to register
once per master rests on `KnownInv`: an instance that need not register, or was just
answered OK, by the start of the master that is up, is in that master's map.

`RpcClient_proofs`, for any finite set of calls with any timeouts and required features and
any number of connections (`CallsAssumption`):
- `Invariance`: `Spec => []IInv`. That a call is finished once is not inductive: it needs that a
  call's state says who has it (`StatesFollowOwners`) and that no task is in two places
  (`TasksAreUnique`). `OneNegotiation` shows that the result of a negotiation finds the
  connection it was for, with a transfer still queued, so that starting `write_io_`
  with the socket is right; `TransfersHaveCars` that an answer never takes the
  car of a call whose transfer still waits. One lemma for what all tasks share, one for
  what `Connection::Shutdown` does, one for each handler.
- From it `CallsFinishOnce`, `NotSentAfterTimeout`, and `ConnectionIsSafe`. The last has the
  hypothesis `RejectedHaveNoTimeout`: without it `DCHECK(car->call)` fails, as finding 3 shows.

`RpcServer_proofs`, for any finite sets of connections and calls and any number of CPUs
(`ServerAssumption`):
- `Invariance`: `Spec => []IInv`, in three groups. `TaskInv`: a task is in `pending_tasks_` or
  in the drained batch, once; a connection has its registration task while it is
  accepted, then one negotiation, whose result finds it negotiating. `StopInv`: a writer
  of the messenger's lock is alone from its last flag to its unlock, although the flags are set
  one CPU at a time; when the reactor closes no negotiation runs, and when its
  thread has left no connection is open. `CallInv`: each call in
  `calls_being_handled_` has one holder.
- `CallsOwnedOnce` is not inductive. It counts positions in queues, which a step that
  drains or appends moves; `HeldOnce` counts a response that is anywhere among the tasks once
  instead, and is carried through each handler; `OwnersAreHolders` shows the two counts
  equal where tasks are unique and the transfer queue has no doubles.
- From it `CallsAreOwnedOnce`, `LossesAreExplained`, `ShutdownKeepsItsPromises`, and the action
  property `TheMapIsConfined`. One lemma for each handler of the reactor thread, for what
  `ShutdownInternal` and an aborted task do, for the services' answers and for each stage of
  the stopper.

`ServerClock_proofs`, for any set of threads, logical width, maximum error, times and
timestamps (`HybridAssumption`):
- `HybridInvariant`: `Spec => []HybridInv`, with a wall clock that moves as it likes. That a
  reading is above whatever was reported is not inductive alone: `PastIsCovered` says that
  the highest timestamp the clock went past is below `next_timestamp_`, and the highest one
  `IsAfter` confirmed below it or below the latest wall clock reading it took (`peak`);
  `CallsAreSound` says that the reading a call of `IsAfter` carries is no later than
  `peak`, and that a sleep is long enough for the time it waits for.
- `HybridMeetsClock`: every step is a step of `Clock` or a stutter, where `behind` is
  `wall < peak`: with a wall clock at or after `peak` the next reading is above what
  `IsAfter` confirmed. `HybridBoundsHold`: what
  was waited out is past, and the stretched error interval holds the true time for every
  width, by the bounds of integer division.
- `LogicalInvariant` (a prepared swap goes up from what was read, and nothing above
  the counter was reported) and `LogicalMeetsClock`, with `behind` FALSE throughout.
- `ServerInvariant`, `ServerMeetsClock`, `ServerBoundsHold`: the same of `ServerSpec`, the
  specification the run checks, whichever clock the server was built with. One of the two
  invariants holds, and each step is a step of the clock in use.

`ThreadPool_proofs`, for any tasks and waiters, any finite set of threads and any limits with
`MaxThreads` no more than its size (`PoolAssumption`):
- `Invariance`: `Spec => []IInv`, that is `ThreadsInv` and `NoLostWakeUp` together. Neither is
  inductive alone: `Signal` may find nobody asleep, and then a queued task has a thread
  awake only because `LastThreadLeavesNoTask` says one exists. `MinThreadsStay` rests on
  `PermanentThreadsStay` (the permanent threads are at least `min_threads`, and time out
  never), `NothingRunsAfterShutdown` on `TasksAreSomewhere` (what is called queued or
  running is in the queue or in the hands of a running thread) and on
  `ShutdownEmptiesTheQueue`. One lemma for each way to change the pool: a task refused,
  queued or taken, a thread that stays or leaves, a waiter, `Shutdown`.
- From it `TypeCorrect`, `ThreadsSuffice`, `NoWakeUpIsLost`.

`MemTracker_proofs`, for any finite sets of threads and trackers, so any depth of the tree,
any ids and limits, and any `MaxHeld` (`LimitAssumption`, `NodeAssumption`):
- `Invariance`: `Spec => []Inv`, in two halves. `RegInv`, the registry: the parents of a
  tracker lead to the root (`Rooted`), who refers to a tracker, builds it or ends it
  (`Life`), what an operation has in hand (`Doing`, `Search`), and `Names`, uniqueness among the
  trackers that lookups have made. That is not inductive: it needs that a search misses no
  live one of them with its id, in its copy, in hand or found already, until it has one to
  hand out; the holder of `find_or_create_lock` is the only one who adds them, though not
  the only one who adds children of the root.
  `AccInv`, the accounts: where on its way a charge stands (`Sound`), `CachesAreWatched`,
  `Accounted`, which equates every consumption with the sum of what threads and
  caches have there, and `LimitHolds`. The last three hold until bytes are charged on a tracker
  that is not initialized; `Sound` does always, and says that none are as long as
  everybody who holds bytes has an initialized one.
- `AccountsAreExact` said of idle moments only would be no help in the next step. `Load` counts
  a charge, a rollback and a collection for exactly the trackers it has reached, so that
  each step changes one counter and one share by the same amount (`Pays`), and the steps of
  the registry change no share (`Leaves`). A destructor's tracker has no references, so no
  share: it finds 0 and has nothing to hand to its parent.
- `all_trackers_` is recursive through the state and `Load` is a sum over a finite set. Both
  are functions, and the lemmas about them go by `NatInd`, induction over the naturals with
  the property given as a set, from `NatLessThanWellFounded` and `WFMin`. One lemma for each action.
- From it `TrackersAreWhole`, `AccountsStayExact`, `LimitsHold`.

No assumption but the named ones on constants, and the hypothesis of `ConnectionIsSafe`,
is used.

## 7. Findings

1. *A failed RPC may be refused as stale* (`rpc/result_tracker.cc:499`). A failure leaves
   no record. When the cached response of a later RPC of the same client expires, the
   watermark passes the failed one, whose retry is then ERROR_REQUEST_STALE, although
   `result_tracker.h:86` promises a new chance. The client's own watermark never does
   this (`IncompleteIsNeverStale`); only the response TTL does.
2. *`ThreadPool::Wait` can sleep for ever* (`util/threadpool.cc:148`). Shutdown empties the
   queue without a broadcast on `idle_cond_`, and the threads leave without one.
3. *A timer outlives its rejected call* (`rpc/connection.cc:572`). `WriteHandler` fails a
   call for missing server features and resets `car->call` but not the timer, which
   later dereferences it.
4. *Three threads wait in a ring* (`rpc/messenger.cc:307`). `DumpRunningRpcs` holds `lock_`
   shared while it waits for a reactor task; a writer waits for it; the reactor spins
   for `lock_` in `QueueInboundCall` and does not get to the task.

Seen while modelling, with no property of their own:
- `WaitFor` of ThreadPool and CountDownLatch starts its timeout anew after each early
  wake-up; `ThreadPool::Init` calls `Shutdown` with `lock_` held and so blocks for ever on
  its failure path; call ids wrap after 2^31 calls.
- `HybridClock::IsAfter` breaks `clock.h:74-76` ("any future call to Now() would return a
  higher value than t") when the wall clock is set back: it compares with the wall clock
  and does not move `next_timestamp_` (`hybrid_clock.cc:341-354`), so that after `IsAfter(t)`
  at the later reading and a step back, which `hybrid_clock.cc:63-66` and `81-85` accept at a
  leap second, `Now()` can return `t` or less. Without the exception that `Clock` makes
  (`~behind =>` in its action `Now`) the run `server_clock` ends in this counterexample
  after five states: the wall clock reads 3 for `IsAfter`, then 2 for `Now`. The
  logical clock keeps the promise as it stands.
- `HybridClock::WaitUntilAfter` kills the process on an unsynchronized clock, where
  `hybrid_clock.h:66` says ServiceUnavailable; `hybrid_clock.h:45-47` speaks of `Now()` on all
  nodes, but a node's wall clock may be behind the true time by its error, so what
  holds is `WaitedTimeIsPast`; `GetGlobalLatest` adds one maximum error, although two
  machines may be apart by two.
- `SetServerWallClockForTests` goes on after it reported failure
  (`server/generic_service.cc:110`) and casts a logical clock to a hybrid one.
- `FindOrCreateGlobalTracker` may hand out a tracker whose `Init` has not run, when the same
  id is at that moment created under the root by `CreateTracker`, which takes no
  `find_or_create_lock` and lists the tracker first (`mem_tracker.cc:136-137`). Charges on it
  are lost, and if it is initialized before they are released its consumption becomes
  negative, on all its ancestors too. No program in `src/` does both: only tests
  (and one after the other) call `FindOrCreateGlobalTracker`, and outside of them only
  `server_base.cc:70` gives no parent. Hence the
  exception in `HandlesAreWhole` and `~missed =>` in `AccountsAreExact` and `LimitHolds`.
- A charge that will be rolled back can make a sibling's `TryConsume` fail, so
  `mem_tracker.h:133-137` holds for its final effect only. `LogUsage`, which nothing calls,
  drops references under the lock that a destructor takes.
- The record of a replicated RPC whose driver was replaced and then failed stays in
  progress until the replaced handler finishes, and that one passes over attempts
  attached since (`rpc/result_tracker.cc:354`); nothing in the repository changes drivers.

## 8. Only checked; not modelled

Only model-checked: all liveness (out of the proof system's reach, as is ENABLED). Every
safety property that a passing run checks is also stated by a theorem.

Not modelled: serialization, framing, encodings, JSON, checksums (pure functions over
bytes, for unit tests); SASL negotiation beyond queued, running, ended (blocking I/O
around a library); code generator; rpcz, metrics, traces, web pages (observation only);
lock-free counters and allocators (they rest on the hardware memory model, which
TLA+ steps do not describe); OS wrappers, MySQL wrapper; vendored `http/squeasel` and
`base/`; process start-up (one thread). Within modelled parts: `TrackRpcOrChangeDriver`
and `IsCurrentDriver` (no caller: the order of their calls is set by a replication layer
that is not in the repository), the tracker's memory accounting, histograms,
`ThreadPool::Init`'s failure path, several reactors, Messenger object lifetime, handlers
that call through their own messenger, MemTracker's soft limit and tcmalloc root.

Why the share of the source is small: most of its lines are imported base code, a
vendored web server, generated-style encodings, numbers and strings, and wrappers of
system calls. They are sequential, or rest on hardware memory order, and have no
protocol to model. What coordinates threads, processes and machines in the repository
is in the modules above, apart from what section 9 lists.

## 9. Plan

Order, the most important first:
1. (done) ResultTracker, AtMostOnceRpc, ExactlyOnce, with their proofs.
2. (done) ServicePool, ThreadPool, with their proofs.
3. (done) RpcClient, RpcServer, with their proofs.
4. (done) Heartbeat with its proofs.
5. (done) Clock, HybridClock, LogicalClock, ServerClock, with their proofs.
6. (done) MemTracker, with its proofs.
7. `ReaderWriterLock`: rw_semaphore and percpu_rwlock at the level of their atomic steps,
   implementing the abstract lock RpcServer uses.
8. `FailureDetector` with callbacks after the unlock; the start and stop of RpcServer and
   ServerBase as a state machine.

New modules take the place of, or join, the properties above so that each run keeps
asking one question.
