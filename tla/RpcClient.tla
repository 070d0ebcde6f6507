----------------------------- MODULE RpcClient -----------------------------
(***************************************************************************)
(* The client half of the RPC system: OutboundCalls issued by user         *)
(* threads, the Reactor's task queue, one client Connection at a time to   *)
(* one remote, its negotiation on the messenger's negotiation pool, the    *)
(* per-call timers, and Messenger::Shutdown.                               *)
(*                                                                         *)
(* Everything a reactor thread does is one handler after another, so a     *)
(* handler is one step, but the tasks AsyncHandler drains run one by one   *)
(* (`batch') because other threads schedule and shut down meanwhile.       *)
(* WriteHandler's loop is one step per transfer it looks at: the socket    *)
(* may stop being writable after any of them.  Call ids are the calls      *)
(* themselves; the server is external and answers any request it got, in   *)
(* any order, once or never.                                               *)
(***************************************************************************)
EXTENDS Naturals, Sequences, FiniteSets

CONSTANTS
  Calls,         \* the OutboundCalls
  Timeout,       \* Calls -> {"none", "short", "long"}: long ones have two stages
  Unsupported,   \* calls requiring a feature the server lacks
  MaxConnections \* bound: connections that get as far as negotiation

ASSUME CallsAssumption ==
  /\ IsFiniteSet(Calls)
  /\ Timeout \in [Calls -> {"none", "short", "long"}]
  /\ Unsupported \subseteq Calls
  /\ MaxConnections \in Nat

VARIABLES
  state,      \* OutboundCall::state_ ("NEW": not created yet)
  callbacks,  \* how many times the response callback ran
  car,        \* Connection::awaiting_response_: call id -> CallAwaitingResponse
  conn,       \* the remote's entry of client_conns_: none, negotiating or open
  opened,     \* connections started so far
  outq,       \* Connection::outbound_transfers_
  writing,    \* write_io_ is active
  wire,       \* requests the server has and has not answered
  negotiation,\* the connection's task on the negotiation pool
  pending,    \* Reactor::pending_tasks_
  wake,       \* async_ has been sent and not been handled
  batch,      \* the tasks AsyncHandler drained and has not run yet
  phase,      \* Messenger::Shutdown: up, pool, closing (closing_ is set), done
  thread      \* the reactor thread: loop or exited

connVars == <<car, conn, opened, outq, writing, wire, negotiation>>
taskVars == <<pending, wake, batch>>
vars == <<state, callbacks, connVars, taskVars, phase, thread>>

None == [held |-> FALSE]
Timers == {"off", "first", "last"}
Cars == {None} \cup [held : {TRUE}, call : BOOLEAN, timer : Timers]
AssignTask(c) == [kind |-> "assign", call |-> c]
NegotiatedTask(ok) == [kind |-> "negotiated", ok |-> ok]
Tasks == {AssignTask(c) : c \in Calls} \cup {NegotiatedTask(ok) : ok \in BOOLEAN}
Transfers == [call : Calls, started : BOOLEAN]
FinishedStates == {"TIMED_OUT", "FINISHED_ERROR", "FINISHED_SUCCESS"}
States == {"NEW", "READY", "ON_OUTBOUND_QUEUE", "SENT"} \cup FinishedStates

IsFinished(c) == state[c] \in FinishedStates
Live(c) == car[c].held /\ car[c].call
closing == phase \in {"closing", "done"}

Init ==
  /\ state = [c \in Calls |-> "NEW"]
  /\ callbacks = [c \in Calls |-> 0]
  /\ car = [c \in Calls |-> None]
  /\ conn = "none"
  /\ opened = 0
  /\ outq = <<>>
  /\ writing = FALSE
  /\ wire = {}
  /\ negotiation = "none"
  /\ pending = <<>>
  /\ wake = FALSE
  /\ batch = <<>>
  /\ phase = "up"
  /\ thread = "loop"

-----------------------------------------------------------------------------
(* Calls and connections. *)

\* SetFailed, SetTimedOut and SetResponse: the final state, then CallCallback.
Finish(cs, s) ==
  /\ state' = [c \in Calls |-> IF c \in cs THEN s ELSE state[c]]
  /\ callbacks' = [c \in Calls |-> callbacks[c] + IF c \in cs THEN 1 ELSE 0]

\* Mutant: Connection::Shutdown fails only the calls that have been sent.
FailedByShutdown_SentOnly == {c \in Calls : Live(c) /\ state[c] = "SENT"}

\* Connection::Shutdown and the unlinking from client_conns_: every call that
\* still awaits its response fails, the map and the transfers are cleared.
FailedByShutdown == {c \in Calls : Live(c)}

ShutdownConnection ==
  /\ Finish(FailedByShutdown, "FINISHED_ERROR")
  /\ car' = [c \in Calls |-> None]
  /\ outq' = <<>>
  /\ writing' = FALSE
  /\ wire' = {}
  /\ conn' = "none"
  /\ UNCHANGED opened

\* The car of a newly queued call, its timer armed for the first or only stage.
NewCar(c) ==
  [held |-> TRUE, call |-> TRUE,
   timer |-> CASE Timeout[c] = "none" -> "off"
               [] Timeout[c] = "short" -> "last"
               [] OTHER -> "first"]

\* Mutant: QueueOutbound leaves write_io_ as it is.
WriteInterest_NotStarted(negotiated) == writing

\* QueueOutbound starts write_io_ once negotiation is over.
WriteInterest(negotiated) == writing \/ negotiated

\* Connection::QueueOutboundCall and QueueOutbound.  The connection is never
\* shut down here: Shutdown and the removal from client_conns_ are one handler.
QueueOutboundCall(c) ==
  /\ state' = [state EXCEPT ![c] = "ON_OUTBOUND_QUEUE"]
  /\ car' = [car EXCEPT ![c] = NewCar(c)]
  /\ outq' = Append(outq, [call |-> c, started |-> FALSE])
  /\ writing' = WriteInterest(conn = "open")
  /\ UNCHANGED <<callbacks, wire>>

-----------------------------------------------------------------------------
(* Scheduling: user threads and negotiation threads. *)

\* ScheduleReactorTask while the reactor accepts tasks.
Schedule(task) ==
  /\ pending' = Append(pending, task)
  /\ wake' = TRUE

Accepts == ~closing

\* Proxy::AsyncRequest, down to ScheduleReactorTask, which aborts the task at
\* once when the reactor is closing.
AsyncRequest(c) ==
  /\ state[c] = "NEW"
  /\ \/ /\ Accepts
        /\ Schedule(AssignTask(c))
        /\ state' = [state EXCEPT ![c] = "READY"]
        /\ UNCHANGED callbacks
     \/ /\ ~Accepts
        /\ Finish({c}, "FINISHED_ERROR")
        /\ UNCHANGED <<pending, wake>>
  /\ UNCHANGED <<connVars, batch, phase, thread>>

StartNegotiating ==
  /\ negotiation = "queued"
  /\ negotiation' = "running"
  /\ UNCHANGED <<state, callbacks, car, conn, opened, outq, writing, wire,
                 taskVars, phase, thread>>

\* RunNegotiation ends, in time or at its deadline, in CompleteNegotiation.
CompleteNegotiation(ok) ==
  /\ negotiation = "running"
  /\ negotiation' = "none"
  /\ Schedule(NegotiatedTask(ok))
  /\ UNCHANGED <<state, callbacks, car, conn, opened, outq, writing, wire,
                 batch, phase, thread>>

-----------------------------------------------------------------------------
(* The reactor thread. *)

AtLoop == thread = "loop" /\ batch = <<>>

\* AsyncHandler: drain the queue, or tear everything down and leave the loop.
AsyncHandler ==
  /\ AtLoop
  /\ wake
  /\ wake' = FALSE
  /\ \/ /\ ~closing
        /\ batch' = pending
        /\ pending' = <<>>
        /\ UNCHANGED <<state, callbacks, connVars, thread>>
     \/ /\ closing
        /\ ShutdownConnection
        /\ thread' = "exited"
        /\ UNCHANGED <<pending, batch, negotiation>>
  /\ UNCHANGED phase

RunTask(task) ==
  /\ batch # <<>>
  /\ Head(batch) = task
  /\ batch' = Tail(batch)
  /\ UNCHANGED <<pending, wake, phase, thread>>

\* AssignOutboundCall when FindOrStartConnection finds the connection.
AssignToConnection(c) ==
  /\ RunTask(AssignTask(c))
  /\ conn # "none"
  /\ QueueOutboundCall(c)
  /\ UNCHANGED <<conn, opened, negotiation>>

\* ... when it starts one: the negotiation pool must still accept work.
AssignToNewConnection(c) ==
  /\ RunTask(AssignTask(c))
  /\ conn = "none"
  /\ phase = "up"
  /\ opened < MaxConnections
  /\ opened' = opened + 1
  /\ conn' = "negotiating"
  /\ negotiation' = "queued"
  /\ QueueOutboundCall(c)

\* ... when no socket can be made or connected, or the pool is shut down.
AssignFails(c) ==
  /\ RunTask(AssignTask(c))
  /\ conn = "none"
  /\ Finish({c}, "FINISHED_ERROR")
  /\ UNCHANGED connVars

\* CompleteConnectionNegotiation: EpollRegister starts reading and writing.
NegotiationSucceeded ==
  /\ RunTask(NegotiatedTask(TRUE))
  /\ conn' = "open"
  /\ writing' = TRUE
  /\ UNCHANGED <<state, callbacks, car, opened, outq, wire, negotiation>>

NegotiationFailed ==
  /\ RunTask(NegotiatedTask(FALSE))
  /\ ShutdownConnection
  /\ UNCHANGED negotiation

\* The socket fails or the remote closes it: ReadHandler or WriteHandler
\* destroys the connection.
SocketError ==
  /\ AtLoop
  /\ conn = "open"
  /\ ShutdownConnection
  /\ UNCHANGED <<taskVars, phase, thread, negotiation>>

\* WriteHandler looks at the first transfer.  An unstarted one must find its
\* car (FindOrDie); write_io_ is stopped when the queue gets empty.
Writable == AtLoop /\ conn = "open" /\ writing /\ outq # <<>>
First == Head(outq)
FirstCar == car[First.call]
\* Mutant: WriteHandler sends without asking whether the call is still there.
Sendable_EvenTimedOut == First.started \/ FirstCar.held

Sendable == First.started \/ (FirstCar.held /\ FirstCar.call)

PopTransfer ==
  /\ outq' = Tail(outq)
  /\ writing' = (Tail(outq) # <<>>)
  /\ UNCHANGED <<conn, opened, negotiation, taskVars, phase, thread>>

\* The call timed out while its transfer was queued: it is never sent.
SkipTimedOut ==
  /\ Writable
  /\ ~First.started
  /\ FirstCar.held
  /\ ~Sendable
  /\ PopTransfer
  /\ UNCHANGED <<state, callbacks, car, wire>>

\* The server lacks a feature the call requires.  The car keeps its timer.
RejectUnsupported ==
  /\ Writable
  /\ ~First.started
  /\ Sendable
  /\ First.call \in Unsupported
  /\ PopTransfer
  /\ Finish({First.call}, "FINISHED_ERROR")
  /\ car' = [car EXCEPT ![First.call].call = FALSE]
  /\ UNCHANGED wire

MaySend == Writable /\ Sendable /\ (First.started \/ First.call \notin Unsupported)

\* SendBuffer wrote a part of the transfer.
SendPart ==
  /\ MaySend
  /\ ~First.started
  /\ outq' = [outq EXCEPT ![1].started = TRUE]
  /\ UNCHANGED <<state, callbacks, car, conn, opened, writing, wire, negotiation,
                 taskVars, phase, thread>>

\* CallTransferCallbacks::NotifyTransferFinished.
TransferFinished(c) ==
  state' = IF IsFinished(c) THEN state ELSE [state EXCEPT ![c] = "SENT"]

\* SendBuffer wrote the rest.
SendRest ==
  /\ MaySend
  /\ PopTransfer
  /\ TransferFinished(First.call)
  /\ wire' = wire \cup {First.call}
  /\ UNCHANGED <<callbacks, car>>

\* The first transfer has no car: FindOrDie ends the process.
MissingCar == Writable /\ ~First.started /\ ~FirstCar.held

\* Mutant: HandleTimeout does not start the timer again for the second stage.
SecondStage_NotStarted == "off"

\* HandleTimeout, first stage: the timer is set again for the remaining time.
SecondStage == "last"

FirstTimeout(c) ==
  /\ AtLoop
  /\ car[c].held
  /\ car[c].timer = "first"
  /\ car' = [car EXCEPT ![c].timer = SecondStage]
  /\ UNCHANGED <<state, callbacks, conn, opened, outq, writing, wire, negotiation,
                 taskVars, phase, thread>>

\* HandleOutboundCallTimeout drops the call and leaves the car for a late answer.
CarAfterTimeout(k) == [k EXCEPT !.call = FALSE, !.timer = "off"]

HandleOutboundCallTimeout(c) ==
  /\ AtLoop
  /\ Live(c)
  /\ car[c].timer = "last"
  /\ Finish({c}, "TIMED_OUT")
  /\ car' = [car EXCEPT ![c] = CarAfterTimeout(@)]
  /\ UNCHANGED <<conn, opened, outq, writing, wire, negotiation,
                 taskVars, phase, thread>>

\* The timer of a car whose call is gone runs out: car->call is null, which
\* ends the process.
TimeoutWithoutCall(c) == AtLoop /\ car[c].held /\ ~car[c].call /\ car[c].timer = "last"

\* HandleCallResponse: the car leaves the map; a car without its call means the
\* answer came too late.
HandleCallResponse(c, s) ==
  /\ AtLoop
  /\ c \in wire
  /\ wire' = wire \ {c}
  /\ car' = [car EXCEPT ![c] = None]
  /\ \/ Live(c) /\ Finish({c}, s)
     \/ ~Live(c) /\ UNCHANGED <<state, callbacks>>
  /\ UNCHANGED <<conn, opened, outq, writing, negotiation, taskVars, phase, thread>>

-----------------------------------------------------------------------------
(* Messenger::Shutdown. *)

\* The negotiation pool first: its queued task is dropped, running ones are
\* waited for.
ShutdownPool ==
  /\ phase = "up"
  /\ phase' = "pool"
  /\ negotiation' = IF negotiation = "queued" THEN "none" ELSE negotiation
  /\ UNCHANGED <<state, callbacks, car, conn, opened, outq, writing, wire,
                 taskVars, thread>>

\* Mutant: Reactor::Shutdown does not wake the reactor thread.
WakeOnShutdown_Not == FALSE

\* Reactor::Shutdown sets closing_ and wakes the reactor thread.
WakeOnShutdown == TRUE

ShutdownReactor ==
  /\ phase = "pool"
  /\ negotiation # "running"
  /\ phase' = "closing"
  /\ wake' = (wake \/ WakeOnShutdown)
  /\ UNCHANGED <<state, callbacks, connVars, pending, batch, thread>>

\* ... and aborts the pending tasks, on the thread that shuts down.
AbortTask ==
  /\ phase = "closing"
  /\ pending # <<>>
  /\ pending' = Tail(pending)
  /\ Finish(IF Head(pending).kind = "assign" THEN {Head(pending).call} ELSE {},
            "FINISHED_ERROR")
  /\ UNCHANGED <<connVars, wake, batch, phase, thread>>

ShutdownDone ==
  /\ phase = "closing"
  /\ pending = <<>>
  /\ phase' = "done"
  /\ UNCHANGED <<state, callbacks, connVars, taskVars, thread>>

-----------------------------------------------------------------------------
ReactorStep ==
  \/ AsyncHandler
  \/ \E c \in Calls :
        AssignToConnection(c) \/ AssignToNewConnection(c) \/ AssignFails(c)
  \/ NegotiationSucceeded
  \/ NegotiationFailed
WriteHandler == SkipTimedOut \/ RejectUnsupported \/ SendPart \/ SendRest
HandleTimeout(c) == FirstTimeout(c) \/ HandleOutboundCallTimeout(c)
Negotiate == StartNegotiating \/ \E ok \in BOOLEAN : CompleteNegotiation(ok)
ShutdownStep == ShutdownReactor \/ AbortTask \/ ShutdownDone

Next ==
  \/ \E c \in Calls : AsyncRequest(c)
  \/ Negotiate
  \/ ReactorStep
  \/ SocketError
  \/ WriteHandler
  \/ \E c \in Calls : HandleTimeout(c)
  \/ \E c \in Calls, s \in {"FINISHED_SUCCESS", "FINISHED_ERROR"} :
        HandleCallResponse(c, s)
  \/ ShutdownPool
  \/ ShutdownStep


Spec == Init /\ [][Next]_vars

\* libev gives every ready watcher its turn, negotiations have a deadline and a
\* started shutdown goes on; users, the server and the network owe nothing.
Fairness ==
  /\ WF_vars(ReactorStep)
  /\ WF_vars(WriteHandler)
  /\ \A c \in Calls : WF_vars(HandleTimeout(c))
  /\ WF_vars(Negotiate)
  /\ WF_vars(ShutdownStep)

FairSpec == Spec /\ Fairness

-----------------------------------------------------------------------------
(* Properties. *)

TypeOK ==
  /\ state \in [Calls -> States]
  /\ callbacks \in [Calls -> Nat]
  /\ car \in [Calls -> Cars]
  /\ conn \in {"none", "negotiating", "open"}
  /\ opened \in 0..MaxConnections
  /\ outq \in Seq(Transfers)
  /\ writing \in BOOLEAN
  /\ wire \subseteq Calls
  /\ negotiation \in {"none", "queued", "running"}
  /\ pending \in Seq(Tasks)
  /\ wake \in BOOLEAN
  /\ batch \in Seq(Tasks)
  /\ phase \in {"up", "pool", "closing", "done"}
  /\ thread \in {"loop", "exited"}

\* No path of timeout, answer, rejection, lost connection and shutdown runs the
\* user's callback twice or finishes a call without it (CallCallback, which
\* clears callback_ after the first run).
CallbackOnce == \A c \in Calls : callbacks[c] = IF IsFinished(c) THEN 1 ELSE 0

\* FindOrDie in WriteHandler finds its car, and a timer that runs out finds its
\* call: HandleOutboundCallTimeout says DCHECK(car->call) and uses it.
ChecksHold == ~MissingCar /\ \A c \in Calls : ~TimeoutWithoutCall(c)

InTasks(c, s) == {i \in DOMAIN s : s[i] = AssignTask(c)}

\* A call that was issued and has not finished is held by exactly one party that
\* can finish it: a pending task, a drained task, or its car on the connection.
OneOwnerPerCall ==
  \A c \in Calls :
    Cardinality(InTasks(c, pending)) + Cardinality(InTasks(c, batch))
      + (IF Live(c) THEN 1 ELSE 0)
      = IF state[c] = "NEW" \/ IsFinished(c) THEN 0 ELSE 1

\* Each call is finished once, by the one party that has it.
EachCallFinishesOnce == CallbackOnce /\ OneOwnerPerCall

\* On an open connection write_io_ is active exactly while transfers wait: none
\* is stranded, and WriteHandler never runs for nothing.
WriteInterestFollowsQueue == conn = "open" => (writing <=> outq # <<>>)

\* A call that timed out before its transfer started is never sent: the server
\* does not execute what its caller has given up.
TimedOutIsNotSent ==
  [][\A c \in Calls :
       state[c] = "TIMED_OUT" /\ c \in wire' \ wire =>
         \E i \in DOMAIN outq : outq[i] = [call |-> c, started |-> TRUE]]_vars

\* Once the reactor has torn down and Reactor::Shutdown has aborted its tasks, no
\* call is left without an answer, nor does any task or transfer remain.
NothingLeftAfterShutdown ==
  phase = "done" /\ thread = "exited" =>
    /\ \A c \in Calls : state[c] = "NEW" \/ IsFinished(c)
    /\ pending = <<>> /\ batch = <<>> /\ outq = <<>>

\* Tasks for one call are alike, and so are the results of negotiations.
Alike(t, u) == t.kind = u.kind /\ (t.kind = "assign" => t.call = u.call)

HasTask(s, t) == \E i \in DOMAIN s : Alike(s[i], t)

EachOnce(s) == \A i, j \in DOMAIN s : Alike(s[i], s[j]) => i = j

\* A task goes from pending_tasks_ to the batch, and is run or aborted once.
TasksAreUnique ==
  /\ EachOnce(pending) /\ EachOnce(batch)
  /\ \A t \in Tasks : ~(HasTask(pending, t) /\ HasTask(batch, t))

\* A call's state says who has it.
StatesFollowOwners ==
  \A c \in Calls :
    /\ state[c] = "READY" <=> HasTask(pending, AssignTask(c)) \/ HasTask(batch, AssignTask(c))
    /\ state[c] \in {"ON_OUTBOUND_QUEUE", "SENT"} <=> Live(c)

\* A car stays in the map until its transfer has left the queue: only requests the
\* server has are answered, and each call is queued on a connection once.
TransfersHaveCars ==
  /\ \A i \in DOMAIN outq :
       /\ car[outq[i].call].held
       /\ state[outq[i].call] \notin {"NEW", "READY"}
       /\ outq[i].call \notin wire
  /\ \A i, j \in DOMAIN outq : outq[i].call = outq[j].call => i = j
  /\ \A c \in wire : state[c] \notin {"NEW", "READY"}

Negotiated == NegotiatedTask(TRUE)

\* One negotiation at a time, whose result finds the connection it was for, with
\* the call that it was begun for still queued.
OneNegotiation ==
  /\ negotiation # "none" => ~HasTask(pending, Negotiated) /\ ~HasTask(batch, Negotiated)
  /\ \/ negotiation # "none"
     \/ HasTask(pending, Negotiated)
     \/ HasTask(batch, Negotiated)
     => conn = "negotiating" \/ thread = "exited"
  /\ conn = "negotiating" => outq # <<>>

\* The pool ends before the reactor is closing, and the reactor before it is done.
ShutdownIsInOrder ==
  /\ phase # "up" => negotiation # "queued"
  /\ closing => negotiation = "none"
  /\ phase = "done" => pending = <<>>
  /\ thread = "exited" =>
       /\ closing /\ batch = <<>> /\ outq = <<>> /\ conn = "none"
       /\ \A c \in Calls : ~Live(c)

\* No call that has a timeout is rejected: what DCHECK(car->call) rests on.
RejectedHaveNoTimeout == \A c \in Unsupported : Timeout[c] = "none"

\* A timer is armed only for a call that has a timeout and that the car still holds
\* (where rejected calls have none): HandleOutboundCallTimeout never dereferences null.
TimersFollowCalls ==
  \A c \in Calls : car[c].held =>
    /\ Timeout[c] = "none" => car[c].timer = "off"
    /\ RejectedHaveNoTimeout /\ ~car[c].call => car[c].timer = "off"

\* The connection's assertions, its interest in writing, its end, what they rest
\* on, and the types.
ConnectionInv ==
  /\ TypeOK /\ ChecksHold /\ WriteInterestFollowsQueue /\ NothingLeftAfterShutdown
  /\ TasksAreUnique /\ StatesFollowOwners /\ TransfersHaveCars
  /\ OneNegotiation /\ ShutdownIsInOrder /\ TimersFollowCalls

\* A call with a timeout finishes, whatever the server, the network and the
\* negotiation do (the timer starts when the call is queued on the connection).
TimedCallsFinish ==
  \A c \in Calls :
    (Timeout[c] # "none" /\ state[c] # "NEW") ~> IsFinished(c)

\* Messenger::Shutdown finishes every call, also those without a timeout that
\* wait for a server that never answers or a negotiation that was dropped.
ShutdownFinishesCalls ==
  \A c \in Calls :
    (phase # "up" /\ state[c] # "NEW") ~> IsFinished(c)
=============================================================================
