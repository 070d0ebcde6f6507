----------------------------- MODULE RpcServer -----------------------------
(***************************************************************************)
(* The server half of the RPC system: the acceptor, inbound Connections    *)
(* and their InboundCalls, one Reactor, the Messenger with its services    *)
(* and its reader-writer lock, the thread that dumps the running RPCs and  *)
(* the thread that stops the server (RpcServer::Shutdown and then          *)
(* Messenger::Shutdown).                                                   *)
(*                                                                         *)
(* A handler of the reactor thread is one step.  The exception is          *)
(* HandleIncomingCall: Messenger::QueueInboundCall spins for the lock      *)
(* inside it, and the reactor does nothing else meanwhile (`reading').     *)
(*                                                                         *)
(* The lock is a percpu_rwlock: a reader takes the lock of the CPU it runs *)
(* on, a writer sets the write flag of one CPU's lock after the other and  *)
(* waits for that lock's readers before it goes on.  `flagged' is the      *)
(* number of flags set; a set flag keeps new readers out.                  *)
(*                                                                         *)
(* What a service does with its calls is the module ServicePool; here it   *)
(* holds them (queued or in a handler) until it answers, in the handler or *)
(* after it.  The peers are external.                                      *)
(***************************************************************************)
EXTENDS Integers, Sequences, FiniteSets

CONSTANTS
  Conns,    \* the connections peers open
  Ids,      \* the call ids a peer uses on a connection, each for one call
  NumCPUs   \* n_cpus_ of the lock

ASSUME ServerAssumption ==
  /\ IsFiniteSet(Conns)
  /\ IsFiniteSet(Ids)
  /\ NumCPUs \in Nat \ {0}

VARIABLES
  conn,        \* each connection: none, accepted, negotiating, open or closed
  negotiation, \* its task on the negotiation pool
  broken,      \* the peer or the network broke it
  inbound,     \* inbound_ holds a part of a request
  arrived,     \* ids of the requests that were read
  calls,       \* calls_being_handled_
  outq,        \* outbound_transfers_: responses
  answered,    \* ids whose response was sent
  reading,     \* the call QueueInboundCall has, and the CPU whose lock it wants
  worker,      \* calls queued in the service or in a handler
  deferred,    \* calls whose handler returned without answering
  pending,     \* Reactor::pending_tasks_
  wake,        \* async_ has been sent and not been handled
  batch,       \* tasks AsyncHandler drained and has not run yet
  thread,      \* the reactor thread: loop or exited
  flagged,     \* write flags set in lock_
  dumper,      \* the thread in DumpRunningRpcs, and its CPU
  stopper      \* the thread that stops the server

connVars == <<conn, negotiation, broken, inbound, arrived, calls, outq, answered>>
serviceVars == <<worker, deferred>>
taskVars == <<pending, wake, batch>>
otherVars == <<dumper, stopper, flagged>>
vars == <<connVars, reading, serviceVars, taskVars, thread, otherVars>>

CPUs == 0..(NumCPUs - 1)
AllCalls == Conns \X Ids
Nothing == [held |-> FALSE]
Reading(k, id, cpu) == [held |-> TRUE, conn |-> k, id |-> id, cpu |-> cpu]
RegisterTask(k) == [kind |-> "register", conn |-> k]
NegotiatedTask(k, ok) == [kind |-> "negotiated", conn |-> k, ok |-> ok]
TransferTask(k, id) == [kind |-> "transfer", conn |-> k, id |-> id]
DumpTask == [kind |-> "dump"]
Tasks ==
  {RegisterTask(k) : k \in Conns} \cup {DumpTask}
    \cup {NegotiatedTask(k, ok) : k \in Conns, ok \in BOOLEAN}
    \cup {TransferTask(k, id) : k \in Conns, id \in Ids}
StopperSteps == {"up", "acceptors", "unregister", "join", "unregistered",
                 "shutdown", "pool", "closing", "done"}
DumperSteps == {"idle", "spinning", "locked", "waiting", "finished"}

\* How far the stopper is.
Registered == stopper \in {"up", "acceptors", "unregister"}
PoolOpen == stopper \notin {"pool", "closing", "done"}
closing == stopper \in {"closing", "done"}

Init ==
  /\ conn = [k \in Conns |-> "none"]
  /\ negotiation = [k \in Conns |-> "none"]
  /\ broken = [k \in Conns |-> FALSE]
  /\ inbound = [k \in Conns |-> FALSE]
  /\ arrived = [k \in Conns |-> {}]
  /\ calls = [k \in Conns |-> {}]
  /\ outq = [k \in Conns |-> <<>>]
  /\ answered = [k \in Conns |-> {}]
  /\ reading = Nothing
  /\ worker = {}
  /\ deferred = {}
  /\ pending = <<>>
  /\ wake = FALSE
  /\ batch = <<>>
  /\ thread = "loop"
  /\ flagged = 0
  /\ dumper = [at |-> "idle", cpu |-> 0]
  /\ stopper = "up"

-----------------------------------------------------------------------------
(* The lock, the task queue and connections. *)

\* lock_shared: no writer has flagged the lock of this CPU.
ReaderEnters(cpu) == cpu >= flagged

\* WaitPendingReaders of the writer's last flag: the dumper is the only reader
\* that keeps the lock for more than a step.
DumperHolds == dumper.at \in {"locked", "waiting", "finished"}
ReadersGone == flagged > 0 => ~(DumperHolds /\ dumper.cpu = flagged - 1)

\* percpu_rwlock::lock, one CPU's lock at a time.
FlagNext ==
  /\ flagged < NumCPUs
  /\ ReadersGone
  /\ flagged' = flagged + 1
WriterHolds == flagged = NumCPUs /\ ReadersGone

\* Mutant: ScheduleReactorTask tests the messenger's closing_, set before the
\* reactor stops.
Accepts_Messenger == stopper \notin {"pool", "closing", "done"}

\* ScheduleReactorTask takes a task unless the reactor is closing.
Accepts == ~closing

Schedule(task) ==
  /\ pending' = Append(pending, task)
  /\ wake' = TRUE

\* Mutant: ~ResponseTransferCallbacks leaves the call in the map.
Erased_Not(k, id) == calls

\* ~ResponseTransferCallbacks takes the call out of calls_being_handled_.
Erased(k, id) == [calls EXCEPT ![k] = @ \ {id}]

\* Mutant: the response is queued without waking the reactor.
QueueResponseForCall_NoWake(k, id) ==
  \/ /\ Accepts
     /\ pending' = Append(pending, TransferTask(k, id))
     /\ UNCHANGED <<calls, wake>>
  \/ /\ ~Accepts
     /\ calls' = Erased(k, id)
     /\ UNCHANGED <<pending, wake>>

\* QueueResponseForCall: the response becomes a task for the reactor, or, when
\* that is closing, is aborted on the calling thread.
QueueResponseForCall(k, id) ==
  \/ /\ Accepts
     /\ Schedule(TransferTask(k, id))
     /\ UNCHANGED calls
  \/ /\ ~Accepts
     /\ calls' = Erased(k, id)
     /\ UNCHANGED <<pending, wake>>

SetOf(s) == {s[i] : i \in DOMAIN s}

\* Connection::Shutdown and the unlinking from server_conns_: queued responses
\* are aborted, calls a service still holds stay in the map.
ShutdownConnections(ks) ==
  /\ conn' = [k \in Conns |-> IF k \in ks THEN "closed" ELSE conn[k]]
  /\ calls' = [k \in Conns |-> IF k \in ks THEN calls[k] \ SetOf(outq[k]) ELSE calls[k]]
  /\ outq' = [k \in Conns |-> IF k \in ks THEN <<>> ELSE outq[k]]

-----------------------------------------------------------------------------
(* Acceptor and negotiation threads. *)

\* AcceptorPool::RunThread and RegisterInboundSocket.
Accept(k) ==
  /\ stopper = "up"
  /\ conn[k] = "none"
  /\ conn' = [conn EXCEPT ![k] = "accepted"]
  /\ Schedule(RegisterTask(k))
  /\ UNCHANGED <<negotiation, broken, inbound, arrived, calls, outq, answered,
                 reading, serviceVars, batch, thread, otherVars>>

StartNegotiating(k) ==
  /\ negotiation[k] = "queued"
  /\ negotiation' = [negotiation EXCEPT ![k] = "running"]
  /\ UNCHANGED <<conn, broken, inbound, arrived, calls, outq, answered,
                 reading, serviceVars, taskVars, thread, otherVars>>

\* RunNegotiation ends, in time or at its deadline, in CompleteNegotiation.
CompleteNegotiation(k, ok) ==
  /\ negotiation[k] = "running"
  /\ negotiation' = [negotiation EXCEPT ![k] = "none"]
  /\ broken' = [broken EXCEPT ![k] = ~ok]
  /\ Schedule(NegotiatedTask(k, ok))
  /\ UNCHANGED <<conn, inbound, arrived, calls, outq, answered,
                 reading, serviceVars, batch, thread, otherVars>>

-----------------------------------------------------------------------------
(* The service. *)

\* RpcContext::Respond*, in the handler (or by the pool, which rejects calls it
\* cannot take or keep) ...
HandlerResponds(k, id) ==
  /\ <<k, id>> \in worker
  /\ worker' = worker \ {<<k, id>>}
  /\ QueueResponseForCall(k, id)
  /\ UNCHANGED <<conn, negotiation, broken, inbound, arrived, outq, answered,
                 deferred, reading, batch, thread, otherVars>>

HandlerReturns(k, id) ==
  /\ <<k, id>> \in worker
  /\ worker' = worker \ {<<k, id>>}
  /\ deferred' = deferred \cup {<<k, id>>}
  /\ UNCHANGED <<connVars, reading, taskVars, thread, otherVars>>

\* ... or after it, from another thread.
DeferredResponds(k, id) ==
  /\ <<k, id>> \in deferred
  /\ deferred' = deferred \ {<<k, id>>}
  /\ QueueResponseForCall(k, id)
  /\ UNCHANGED <<conn, negotiation, broken, inbound, arrived, outq, answered,
                 worker, reading, batch, thread, otherVars>>

-----------------------------------------------------------------------------
(* The reactor thread. *)

AtLoop == thread = "loop" /\ batch = <<>> /\ ~reading.held

\* AsyncHandler: drain the queue, or tear everything down and leave the loop.
AsyncHandler ==
  /\ AtLoop
  /\ wake
  /\ wake' = FALSE
  /\ \/ /\ ~closing
        /\ batch' = pending
        /\ pending' = <<>>
        /\ UNCHANGED <<conn, calls, outq, thread>>
     \/ /\ closing
        /\ ShutdownConnections({k \in Conns : conn[k] \in {"negotiating", "open"}})
        /\ thread' = "exited"
        /\ UNCHANGED <<pending, batch>>
  /\ UNCHANGED <<negotiation, broken, inbound, arrived, answered, reading,
                 serviceVars, otherVars>>

RunTask(task) ==
  /\ batch # <<>>
  /\ Head(batch) = task
  /\ batch' = Tail(batch)
  /\ UNCHANGED <<broken, inbound, arrived, answered, reading, serviceVars,
                 pending, wake, thread, stopper, flagged>>

\* RegisterConnection submits the negotiation, which a closed pool refuses.
RegisterConnection(k) ==
  /\ RunTask(RegisterTask(k))
  /\ \/ /\ PoolOpen
        /\ conn' = [conn EXCEPT ![k] = "negotiating"]
        /\ negotiation' = [negotiation EXCEPT ![k] = "queued"]
        /\ UNCHANGED <<calls, outq>>
     \/ /\ ~PoolOpen
        /\ ShutdownConnections({k})
        /\ UNCHANGED negotiation
  /\ UNCHANGED dumper

\* CompleteConnectionNegotiation.
NegotiationSucceeded(k) ==
  /\ RunTask(NegotiatedTask(k, TRUE))
  /\ conn' = [conn EXCEPT ![k] = "open"]
  /\ UNCHANGED <<negotiation, calls, outq, dumper>>

NegotiationFailed(k) ==
  /\ RunTask(NegotiatedTask(k, FALSE))
  /\ ShutdownConnections({k})
  /\ UNCHANGED <<negotiation, dumper>>

\* QueueTransferTask and QueueOutbound: a connection that was shut down
\* meanwhile aborts the transfer.
Queueable(k) == conn[k] # "closed"

QueueOutbound(k, id) ==
  /\ RunTask(TransferTask(k, id))
  /\ \/ /\ Queueable(k)
        /\ outq' = [outq EXCEPT ![k] = Append(@, id)]
        /\ UNCHANGED calls
     \/ /\ ~Queueable(k)
        /\ calls' = Erased(k, id)
        /\ UNCHANGED outq
  /\ UNCHANGED <<conn, negotiation, dumper>>

\* RunFunctionTask for ReactorThread::DumpRunningRpcs.
RunDump ==
  /\ RunTask(DumpTask)
  /\ dumper' = [dumper EXCEPT !.at = "finished"]
  /\ UNCHANGED <<conn, negotiation, calls, outq>>

\* ReadHandler gets the first bytes of a request.
ReadPart(k) ==
  /\ AtLoop
  /\ conn[k] = "open"
  /\ ~inbound[k]
  /\ inbound' = [inbound EXCEPT ![k] = TRUE]
  /\ UNCHANGED <<conn, negotiation, broken, arrived, calls, outq, answered,
                 reading, serviceVars, taskVars, thread, otherVars>>

\* ... and the rest of it: HandleIncomingCall enters the call in the map.
HandleIncomingCall(k, id, cpu) ==
  /\ AtLoop
  /\ conn[k] = "open"
  /\ inbound[k]
  /\ id \notin arrived[k]
  /\ inbound' = [inbound EXCEPT ![k] = FALSE]
  /\ arrived' = [arrived EXCEPT ![k] = @ \cup {id}]
  /\ calls' = [calls EXCEPT ![k] = @ \cup {id}]
  /\ reading' = Reading(k, id, cpu)
  /\ UNCHANGED <<conn, negotiation, broken, outq, answered, serviceVars, taskVars,
                 thread, otherVars>>

\* A request that cannot be parsed is dropped.
BadData(k) ==
  /\ AtLoop
  /\ conn[k] = "open"
  /\ inbound[k]
  /\ inbound' = [inbound EXCEPT ![k] = FALSE]
  /\ UNCHANGED <<conn, negotiation, broken, arrived, calls, outq, answered,
                 reading, serviceVars, taskVars, thread, otherVars>>

\* The peer closes the connection or it fails, or the peer sends the id of a call
\* that is still being handled: DestroyConnection.
PeerBreaks(k) ==
  /\ AtLoop
  /\ conn[k] = "open"
  /\ broken' = [broken EXCEPT ![k] = TRUE]
  /\ ShutdownConnections({k})
  /\ UNCHANGED <<negotiation, inbound, arrived, answered, reading, serviceVars,
                 taskVars, thread, otherVars>>

\* Messenger::QueueInboundCall has the lock: the service takes the call, or the
\* reactor thread answers it (no such service, queue full, pool shut down).
QueueInboundCall ==
  LET k == reading.conn
      id == reading.id
  IN
  /\ reading.held
  /\ ReaderEnters(reading.cpu)
  /\ reading' = Nothing
  /\ \/ /\ Registered
        /\ worker' = worker \cup {<<k, id>>}
        /\ UNCHANGED <<calls, pending, wake>>
     \/ /\ QueueResponseForCall(k, id)
        /\ UNCHANGED worker
  /\ UNCHANGED <<conn, negotiation, broken, inbound, arrived, outq, answered,
                 deferred, batch, thread, otherVars>>

\* WriteHandler sent the whole of the first response.
WriteHandler(k) ==
  /\ AtLoop
  /\ conn[k] = "open"
  /\ outq[k] # <<>>
  /\ outq' = [outq EXCEPT ![k] = Tail(@)]
  /\ answered' = [answered EXCEPT ![k] = @ \cup {Head(outq[k])}]
  /\ calls' = Erased(k, Head(outq[k]))
  /\ UNCHANGED <<conn, negotiation, broken, inbound, arrived, reading, serviceVars,
                 taskVars, thread, otherVars>>

\* Mutant: Idle does not ask for calls being handled.
Idle_NoCalls(k) == conn[k] = "open" /\ ~inbound[k] /\ outq[k] = <<>>

Idle(k) == conn[k] = "open" /\ ~inbound[k] /\ outq[k] = <<>> /\ calls[k] = {}

\* ScanIdleConnections, when the keepalive time of a connection has passed.
CloseIdle(k) ==
  /\ AtLoop
  /\ Idle(k)
  /\ ShutdownConnections({k})
  /\ UNCHANGED <<negotiation, broken, inbound, arrived, answered, reading,
                 serviceVars, taskVars, thread, otherVars>>

-----------------------------------------------------------------------------
(* Messenger::DumpRunningRpcs. *)

DumperOnly == UNCHANGED <<connVars, reading, serviceVars, batch, thread, stopper, flagged>>

StartDump(cpu) ==
  /\ dumper.at = "idle"
  /\ dumper' = [at |-> "spinning", cpu |-> cpu]
  /\ UNCHANGED <<pending, wake>>
  /\ DumperOnly

DumpLocks ==
  /\ dumper.at = "spinning"
  /\ ReaderEnters(dumper.cpu)
  /\ dumper' = [dumper EXCEPT !.at = "locked"]
  /\ UNCHANGED <<pending, wake>>
  /\ DumperOnly

\* RunOnReactorThread: schedule and wait; aborted at once by a closing reactor.
ScheduleDump ==
  /\ dumper.at = "locked"
  /\ \/ /\ Accepts
        /\ Schedule(DumpTask)
        /\ dumper' = [dumper EXCEPT !.at = "waiting"]
     \/ /\ ~Accepts
        /\ dumper' = [dumper EXCEPT !.at = "finished"]
        /\ UNCHANGED <<pending, wake>>
  /\ DumperOnly

DumpReturns ==
  /\ dumper.at = "finished"
  /\ dumper' = [at |-> "idle", cpu |-> 0]
  /\ UNCHANGED <<pending, wake>>
  /\ DumperOnly

-----------------------------------------------------------------------------
(* Stopping: RpcServer::Shutdown, then Messenger::Shutdown. *)

StopperOnly == UNCHANGED <<connVars, reading, serviceVars, batch, thread, dumper>>

GoesOn(from, to) ==
  /\ stopper = from
  /\ stopper' = to
  /\ StopperOnly

\* AcceptorPool::Shutdown joins the acceptor threads.
ShutdownAcceptors ==
  /\ GoesOn("up", "acceptors")
  /\ UNCHANGED <<flagged, pending, wake>>

\* UnregisterAllServices and Messenger::Shutdown take the lock exclusively.
LockExclusively ==
  /\ stopper \in {"unregister", "shutdown"}
  /\ FlagNext
  /\ UNCHANGED <<stopper, pending, wake>>
  /\ StopperOnly

StartUnregister ==
  /\ GoesOn("acceptors", "unregister")
  /\ UNCHANGED <<flagged, pending, wake>>

\* rpc_services_ is cleared and the last reference to each pool dropped: its
\* destructor joins the workers, under the lock.
ClearServices ==
  /\ WriterHolds
  /\ GoesOn("unregister", "join")
  /\ UNCHANGED <<flagged, pending, wake>>

\* Mutant: the pool's destructor does not join its workers.
WorkersJoined_Not == TRUE

WorkersJoined == worker = {}

Unregistered ==
  /\ WorkersJoined
  /\ GoesOn("join", "unregistered")
  /\ flagged' = 0
  /\ UNCHANGED <<pending, wake>>

StartShutdown ==
  /\ GoesOn("unregistered", "shutdown")
  /\ UNCHANGED <<flagged, pending, wake>>

\* The negotiation pool first: queued tasks are dropped, running ones waited for.
ShutdownPool ==
  /\ WriterHolds
  /\ stopper = "shutdown"
  /\ stopper' = "pool"
  /\ negotiation' = [k \in Conns |->
                       IF negotiation[k] = "queued" THEN "none" ELSE negotiation[k]]
  /\ UNCHANGED <<conn, broken, inbound, arrived, calls, outq, answered, reading,
                 serviceVars, taskVars, thread, dumper, flagged>>

\* Mutant: Reactor::Shutdown does not wake the reactor thread.
WakeOnShutdown_Not == wake

\* Reactor::Shutdown sets closing_ and wakes the reactor thread.
WakeOnShutdown == TRUE

ShutdownReactor ==
  /\ \A k \in Conns : negotiation[k] # "running"
  /\ GoesOn("pool", "closing")
  /\ wake' = WakeOnShutdown
  /\ UNCHANGED <<flagged, pending>>

\* ... and aborts the pending tasks on its own thread.
AbortTask ==
  LET task == Head(pending) IN
  /\ stopper = "closing"
  /\ pending # <<>>
  /\ pending' = Tail(pending)
  /\ calls' = IF task.kind = "transfer" THEN Erased(task.conn, task.id) ELSE calls
  /\ conn' = IF task.kind = "register" THEN [conn EXCEPT ![task.conn] = "closed"]
             ELSE conn
  /\ UNCHANGED <<negotiation, broken, inbound, arrived, outq, answered, reading,
                 serviceVars, wake, batch, thread, dumper, stopper, flagged>>

ShutdownDone ==
  /\ pending = <<>>
  /\ GoesOn("closing", "done")
  /\ flagged' = 0
  /\ UNCHANGED <<pending, wake>>

-----------------------------------------------------------------------------
RunTasks ==
  \/ AsyncHandler
  \/ \E k \in Conns :
        RegisterConnection(k) \/ NegotiationSucceeded(k) \/ NegotiationFailed(k)
  \/ \E k \in Conns, id \in Ids : QueueOutbound(k, id)
  \/ RunDump
ReadHandler(k) ==
  \/ ReadPart(k)
  \/ \E id \in Ids, cpu \in CPUs : HandleIncomingCall(k, id, cpu)
  \/ BadData(k)
  \/ PeerBreaks(k)
ReactorStep ==
  \/ RunTasks
  \/ QueueInboundCall
  \/ \E k \in Conns : ReadHandler(k) \/ WriteHandler(k) \/ CloseIdle(k)
Negotiate(k) == StartNegotiating(k) \/ \E ok \in BOOLEAN : CompleteNegotiation(k, ok)
Respond(k, id) == HandlerResponds(k, id) \/ DeferredResponds(k, id)
Dump == DumpLocks \/ ScheduleDump \/ DumpReturns
StopperStep ==
  \/ StartUnregister \/ LockExclusively \/ ClearServices \/ Unregistered
  \/ StartShutdown \/ ShutdownPool \/ ShutdownReactor \/ AbortTask \/ ShutdownDone

Next ==
  \/ \E k \in Conns : Accept(k) \/ Negotiate(k)
  \/ \E k \in Conns, id \in Ids : Respond(k, id) \/ HandlerReturns(k, id)
  \/ ReactorStep
  \/ \E cpu \in CPUs : StartDump(cpu)
  \/ Dump
  \/ ShutdownAcceptors
  \/ StopperStep

Spec == Init /\ [][Next]_vars

\* The loop runs its tasks, a thread that spins or waits goes on when it can,
\* negotiations have a deadline, services answer their calls.  Peers owe nothing:
\* they may not even read their responses.
Fairness ==
  /\ WF_vars(RunTasks)
  /\ WF_vars(QueueInboundCall)
  /\ \A k \in Conns : WF_vars(Negotiate(k))
  /\ \A k \in Conns, id \in Ids : WF_vars(Respond(k, id))
  /\ WF_vars(Dump)
  /\ WF_vars(StopperStep)

FairSpec == Spec /\ Fairness

-----------------------------------------------------------------------------
(* Properties. *)

TypeOK ==
  /\ conn \in [Conns -> {"none", "accepted", "negotiating", "open", "closed"}]
  /\ negotiation \in [Conns -> {"none", "queued", "running"}]
  /\ broken \in [Conns -> BOOLEAN]
  /\ inbound \in [Conns -> BOOLEAN]
  /\ arrived \in [Conns -> SUBSET Ids]
  /\ calls \in [Conns -> SUBSET Ids]
  /\ outq \in [Conns -> Seq(Ids)]
  /\ answered \in [Conns -> SUBSET Ids]
  /\ reading \in {Nothing} \cup {Reading(k, id, cpu) : k \in Conns, id \in Ids, cpu \in CPUs}
  /\ worker \subseteq AllCalls
  /\ deferred \subseteq AllCalls
  /\ pending \in Seq(Tasks)
  /\ wake \in BOOLEAN
  /\ batch \in Seq(Tasks)
  /\ thread \in {"loop", "exited"}
  /\ flagged \in 0..NumCPUs
  /\ dumper \in [at : DumperSteps, cpu : CPUs]
  /\ stopper \in StopperSteps

Count(x, s) == Cardinality({i \in DOMAIN s : s[i] = x})
One(b) == IF b THEN 1 ELSE 0
Owners(k, id) ==
  One(reading.held /\ reading.conn = k /\ reading.id = id)
    + One(<<k, id>> \in worker) + One(<<k, id>> \in deferred)
    + Count(TransferTask(k, id), pending) + Count(TransferTask(k, id), batch)
    + Count(id, outq[k])

\* calls_being_handled_ holds exactly the calls that are not freed: each is owned
\* by the reactor, the service or one response transfer, also on connections that
\* were shut down (the DCHECK_EQ in ~ResponseTransferCallbacks, and Idle's trust
\* in the map).
CallsOwnedOnce ==
  \A k \in Conns, id \in Ids : Owners(k, id) = One(id \in calls[k])

\* A request whose first bytes were read, and its response, are lost only when the
\* peer or the network broke the connection or the server stops: the keepalive
\* scan spares a connection from the first byte of a request to the last of its
\* response, and nothing else closes one.
LostOnlyIfBroken ==
  \A k \in Conns :
    \/ broken[k] \/ closing
    \/ arrived[k] \subseteq calls[k] \cup answered[k] /\ (inbound[k] => conn[k] = "open")

\* Tasks for one connection or one response are alike, whatever a negotiation's result.
Alike(t, u) ==
  /\ t.kind = u.kind
  /\ t.kind # "dump" => t.conn = u.conn
  /\ t.kind = "transfer" => t.id = u.id

HasTask(s, t) == \E i \in DOMAIN s : Alike(s[i], t)

InTasks(t) == HasTask(pending, t) \/ HasTask(batch, t)

EachOnce(s) == \A i, j \in DOMAIN s : Alike(s[i], s[j]) => i = j

OnceEach(s) == \A i, j \in DOMAIN s : s[i] = s[j] => i = j

\* A task goes from pending_tasks_ to the batch, and is run or aborted once.
TasksAreUnique ==
  /\ EachOnce(pending) /\ EachOnce(batch)
  /\ \A t \in Tasks : ~(HasTask(pending, t) /\ HasTask(batch, t))

ToRegister(k) == InTasks(RegisterTask(k))
Negotiated(k) == InTasks(NegotiatedTask(k, TRUE))
FailedToNegotiate(k) == NegotiatedTask(k, FALSE) \in SetOf(pending) \cup SetOf(batch)
ToTransfer(k, id) == InTasks(TransferTask(k, id))
ToDump == InTasks(DumpTask)

\* A connection registers once, then negotiates once, whose result finds it; what
\* failed is known to be broken.
TasksFollowConnections ==
  \A k \in Conns :
    /\ conn[k] = "accepted" <=> ToRegister(k)
    /\ negotiation[k] # "none" => conn[k] = "negotiating" /\ ~Negotiated(k)
    /\ Negotiated(k) => conn[k] = "negotiating" \/ thread = "exited"
    /\ FailedToNegotiate(k) => broken[k]

\* Requests are read and responses queued on open connections only, each response
\* once; a connection closed while it was whole had no calls.
CallsFollowConnections ==
  \A k \in Conns :
    /\ calls[k] \subseteq arrived[k]
    /\ conn[k] \notin {"open", "closed"} => arrived[k] = {} /\ ~inbound[k]
    /\ outq[k] # <<>> => conn[k] = "open"
    /\ OnceEach(outq[k])
    /\ conn[k] = "closed" => broken[k] \/ closing \/ calls[k] = {}

\* A writer has the lock to itself from its last flag to its unlock, and only the
\* dumper that waits for it has a task: none is pending when the reactor closes.
WriterIsAlone ==
  /\ DumperHolds => flagged <= dumper.cpu + 1
  /\ stopper \in {"join", "pool", "closing"} => flagged = NumCPUs /\ ~DumperHolds
  /\ ToDump => dumper.at = "waiting"

\* The pool ends before the reactor closes, and that before the shutdown is done.
ShutdownIsInOrder ==
  /\ ~PoolOpen => \A k \in Conns : negotiation[k] # "queued"
  /\ closing => \A k \in Conns : negotiation[k] = "none"
  /\ stopper = "done" => pending = <<>>
  /\ thread = "exited" =>
       /\ closing /\ batch = <<>> /\ ~reading.held
       /\ \A k \in Conns : conn[k] \notin {"negotiating", "open"}

\* A connection that was shut down has no transfers left (the CHECK in
\* ~Connection), and no thread negotiates on its closed socket.
ClosedIsQuiet ==
  \A k \in Conns : conn[k] = "closed" => outq[k] = <<>> /\ negotiation[k] # "running"

\* When UnregisterAllServices returns, no thread runs a handler of the service and
\* none will: the reactor looks the service up and queues the call under the lock.
NoHandlerAfterUnregister ==
  stopper \notin {"up", "acceptors", "unregister", "join"} => worker = {}

\* When Messenger::Shutdown has returned and the reactor thread is gone, no
\* connection, task or transfer remains, and of the calls only those that a
\* service has still to answer.
NothingLeftAfterShutdown ==
  stopper = "done" /\ thread = "exited" =>
    /\ pending = <<>> /\ batch = <<>>
    /\ \A k \in Conns :
         /\ conn[k] \in {"none", "closed"}
         /\ \A id \in calls[k] : <<k, id>> \in deferred

\* What each stage of the shutdown may rely on, what that rests on, and the types.
ShutdownInv ==
  /\ TypeOK /\ ClosedIsQuiet /\ NoHandlerAfterUnregister /\ NothingLeftAfterShutdown
  /\ TasksAreUnique /\ TasksFollowConnections /\ CallsFollowConnections
  /\ WriterIsAlone /\ ShutdownIsInOrder

\* calls_being_handled_ has no lock: until the reactor closes, only the reactor
\* thread touches it, whoever answers the call.
MapIsConfined == [][calls' # calls => ReactorStep \/ closing]_vars

\* The dumper keeps the lock while it waits for the reactor, the reactor spins for
\* the lock in QueueInboundCall, and a writer that waits for the dumper keeps it out.
Stuck ==
  /\ dumper.at = "waiting"
  /\ reading.held
  /\ ~ReaderEnters(reading.cpu)
  /\ ~ReadersGone

\* Every call that was read is answered: it leaves the map or its response waits
\* for the peer to read, unless dumper, writer and reactor wait for one another.
CallsGetAnswered ==
  \A k \in Conns, id \in Ids :
    (id \in calls[k]) ~> (id \notin calls[k] \/ id \in SetOf(outq[k]) \/ Stuck)

\* RpcServer::Shutdown and Messenger::Shutdown return and the reactor thread
\* leaves its loop, with the same exception.
ShutdownReturns ==
  (stopper # "up") ~> ((stopper = "done" /\ thread = "exited") \/ Stuck)

\* The reactor runs or aborts every task it was given, so that DumpRunningRpcs
\* returns (Reactor::ScheduleReactorTask's comment).
TasksRunOrAborted == (dumper.at = "waiting") ~> (dumper.at # "waiting")
=============================================================================
