----------------------------- MODULE ServicePool -----------------------------
(***************************************************************************)
(* rpc/service_pool.cc and the queue under it, rpc/service_queue.{h,cc}:   *)
(* reactor threads queue inbound calls, worker threads take them in        *)
(* deadline order, the latest is evicted when the queue is full, a parked  *)
(* worker is handed its call directly, and Shutdown drains what is left.   *)
(*                                                                         *)
(* A critical section of LifoServiceQueue::lock_ is one action; the steps  *)
(* between two of them (Post after unlock, the answer to a call that Put   *)
(* refused or evicted, Wait, the worker's handling) are actions of their   *)
(* own.                                                                    *)
(***************************************************************************)
EXTENDS Integers, Sequences, FiniteSets

CONSTANTS
  Call,           \* the inbound calls
  Worker,         \* the threads of the pool
  Closer,         \* the threads that call ServicePool::Shutdown
  MaxQueueSize,   \* max_queue_size_
  MaxTime,        \* bound on the clock
  Deadline,       \* GetClientDeadline of each call
  Received,       \* GetTimeReceived of each call
  Unsupported     \* calls that require a feature the service lacks

NoPost == "none"       \* should_wake_ is false
WakeUp == "wake_up"    \* posted with a null call
NoCall == "no_call"

ASSUME PoolAssumption ==
  /\ Call \cap {NoPost, WakeUp, NoCall} = {}
  /\ MaxQueueSize \in Nat \ {0}
  /\ MaxTime \in Nat
  /\ Deadline \in [Call -> Nat]
  /\ Received \in [Call -> Nat]
  /\ Unsupported \subseteq Call

VARIABLES
  now,         \* the time, as ClientTimedOut reads it
  arrived,     \* calls given to QueueInboundCall
  queue,       \* LifoServiceQueue::queue_
  waiting,     \* waiting_consumers_, the top of the stack last
  mailbox,     \* ConsumerState's call_ and should_wake_ together
  handoff,     \* calls popped to a consumer and not yet posted to it
  dropped,     \* calls Put refused or evicted, in the hands of the thread that
               \* called it, with what they will be answered
  worker,      \* each worker's position and the call it holds
  answers,     \* history: what each call was answered, in order
  shutdown,    \* LifoServiceQueue::shutdown_
  closing,     \* ServicePool::closing_
  closer       \* each closer's position in Shutdown

queueVars == <<arrived, queue, waiting, mailbox, handoff, dropped, shutdown>>
closeVars == <<closing, closer>>
vars == <<now, queueVars, worker, answers, closeVars>>

Outcome == {"handled", "too_busy", "timed_out", "shutting_down", "unsupported"}

Refusal == {"too_busy", "shutting_down"}

WorkerState ==
  [at : {"getting", "waiting", "exited"}, call : {NoCall}]
    \cup [at : {"taken", "handling"}, call : Call]

At(position, c) == [at |-> position, call |-> c]

TypeOK ==
  /\ now \in 0 .. MaxTime
  /\ arrived \subseteq Call
  /\ queue \subseteq arrived /\ Cardinality(queue) <= MaxQueueSize
  /\ waiting \in Seq(Worker)
  /\ mailbox \in [Worker -> {NoPost, WakeUp} \cup Call]
  /\ handoff \subseteq Call \X Worker
  /\ dropped \subseteq Call \X Refusal
  /\ worker \in [Worker -> WorkerState]
  /\ answers \in [Call -> Seq(Outcome)]
  /\ shutdown \in BOOLEAN /\ closing \in BOOLEAN
  /\ closer \in [Closer -> {"idle", "locking", "joining", "draining", "done"}]

Init ==
  /\ now = 0
  /\ arrived = {}
  /\ queue = {}
  /\ waiting = <<>>
  /\ mailbox = [w \in Worker |-> NoPost]
  /\ handoff = {}
  /\ dropped = {}
  /\ worker = [w \in Worker |-> At("getting", NoCall)]
  /\ answers = [c \in Call |-> <<>>]
  /\ shutdown = FALSE
  /\ closing = FALSE
  /\ closer = [k \in Closer |-> "idle"]

-----------------------------------------------------------------------------
(* The order of the queue.                                                 *)

DeadlineLess_ByArrival(a, b) == Received[a] < Received[b]

DeadlineLess(a, b) ==
  \/ Deadline[a] < Deadline[b]
  \/ Deadline[a] = Deadline[b] /\ Received[a] < Received[b]

First(calls) == {c \in calls : \A d \in calls : ~DeadlineLess(d, c)}
Last(calls)  == {c \in calls : \A d \in calls : ~DeadlineLess(c, d)}

ClientTimedOut(c) == now > Deadline[c]

Respond(c, outcome) == answers' = [answers EXCEPT ![c] = Append(@, outcome)]

-----------------------------------------------------------------------------
(* QueueInboundCall, in a reactor thread.                                  *)

Arrives(c) ==
  /\ c \notin arrived
  /\ arrived' = arrived \cup {c}
  /\ UNCHANGED <<now, worker, closeVars>>

RejectUnsupported(c) ==
  /\ Arrives(c)
  /\ c \in Unsupported
  /\ Respond(c, "unsupported")
  /\ UNCHANGED <<queue, waiting, mailbox, handoff, dropped, shutdown>>

\* Put gives c back: its caller has to answer it, the lock released.
Drop(c, outcome) == dropped' = dropped \cup {<<c, outcome>>}

\* Put returns QUEUE_SHUTDOWN.
PutAfterShutdown(c) ==
  /\ Arrives(c)
  /\ c \notin Unsupported
  /\ shutdown
  /\ Drop(c, "shutting_down")
  /\ UNCHANGED <<queue, waiting, mailbox, handoff, shutdown, answers>>

\* A parked consumer can take the call.
DirectHandOff == queue = {} /\ waiting # <<>>

PutToConsumer(c) ==
  /\ Arrives(c)
  /\ c \notin Unsupported /\ ~shutdown
  /\ DirectHandOff
  /\ handoff' = handoff \cup {<<c, waiting[Len(waiting)]>>}
  /\ waiting' = SubSeq(waiting, 1, Len(waiting) - 1)
  /\ UNCHANGED <<queue, mailbox, dropped, shutdown, answers>>

PutInQueue(c) ==
  /\ Arrives(c)
  /\ c \notin Unsupported /\ ~shutdown
  /\ ~DirectHandOff
  /\ Cardinality(queue) < MaxQueueSize
  /\ queue' = queue \cup {c}
  /\ UNCHANGED <<waiting, mailbox, handoff, dropped, shutdown, answers>>

\* What a full queue makes of call c when e is the last in it: QUEUE_FULL for c,
\* or e is evicted.
Overflow_Forgotten(c, e) ==
  IF DeadlineLess(e, c)
  THEN Drop(c, "too_busy") /\ UNCHANGED queue
  ELSE queue' = (queue \ {e}) \cup {c} /\ UNCHANGED dropped

Overflow(c, e) ==
  IF DeadlineLess(e, c)
  THEN Drop(c, "too_busy") /\ UNCHANGED queue
  ELSE queue' = (queue \ {e}) \cup {c} /\ Drop(e, "too_busy")

PutWhenFull(c) ==
  /\ Arrives(c)
  /\ c \notin Unsupported /\ ~shutdown
  /\ ~DirectHandOff
  /\ Cardinality(queue) >= MaxQueueSize
  /\ \E e \in Last(queue) : Overflow(c, e)
  /\ UNCHANGED <<waiting, mailbox, handoff, shutdown, answers>>

QueueInboundCall(c) ==
  \/ RejectUnsupported(c)
  \/ PutAfterShutdown(c)
  \/ PutToConsumer(c)
  \/ PutInQueue(c)
  \/ PutWhenFull(c)

\* RejectTooBusy, or RespondFailure after QUEUE_SHUTDOWN, when Put has returned:
\* workers, other Puts and Shutdown have run since it released the lock.
Reject(c, outcome) ==
  /\ <<c, outcome>> \in dropped
  /\ dropped' = dropped \ {<<c, outcome>>}
  /\ Respond(c, outcome)
  /\ UNCHANGED <<now, arrived, queue, waiting, mailbox, handoff, shutdown, worker, closeVars>>

\* Post, with the queue's lock released.
Post(c, w) ==
  /\ <<c, w>> \in handoff
  /\ handoff' = handoff \ {<<c, w>>}
  /\ mailbox' = [mailbox EXCEPT ![w] = c]
  /\ UNCHANGED <<now, arrived, queue, waiting, dropped, shutdown, worker, answers, closeVars>>

-----------------------------------------------------------------------------
(* RunThread, in a worker.                                                 *)

Move(w, position, c) == worker' = [worker EXCEPT ![w] = At(position, c)]

\* BlockingGet finds a call in the queue.
TakeFirst(w) ==
  /\ worker[w].at = "getting"
  /\ \E c \in First(queue) : Move(w, "taken", c) /\ queue' = queue \ {c}
  /\ UNCHANGED <<now, arrived, waiting, mailbox, handoff, dropped, shutdown, answers, closeVars>>

Exit(w) ==
  /\ worker[w].at = "getting"
  /\ queue = {} /\ shutdown
  /\ Move(w, "exited", NoCall)
  /\ UNCHANGED <<now, queueVars, answers, closeVars>>

MayPark_EvenWithWork == ~shutdown

MayPark == queue = {} /\ ~shutdown

Park(w) ==
  /\ worker[w].at = "getting"
  /\ MayPark
  /\ Move(w, "waiting", NoCall)
  /\ waiting' = Append(waiting, w)
  /\ UNCHANGED <<now, arrived, queue, mailbox, handoff, dropped, shutdown, answers, closeVars>>

\* Wait empties the mailbox, or leaves the call in it.
Emptied_Left(w) == [mailbox EXCEPT ![w] = @]

Emptied(w) == [mailbox EXCEPT ![w] = NoPost]

WakeUpConsumer(w) ==
  /\ worker[w].at = "waiting"
  /\ mailbox[w] # NoPost
  /\ IF mailbox[w] = WakeUp THEN Move(w, "getting", NoCall)
                            ELSE Move(w, "taken", mailbox[w])
  /\ mailbox' = Emptied(w)
  /\ UNCHANGED <<now, arrived, queue, waiting, handoff, dropped, shutdown, answers, closeVars>>

SkipTimedOut(w) ==
  /\ worker[w].at = "taken"
  /\ ClientTimedOut(worker[w].call)
  /\ Respond(worker[w].call, "timed_out")
  /\ Move(w, "getting", NoCall)
  /\ UNCHANGED <<now, queueVars, closeVars>>

Handle(w) ==
  /\ worker[w].at = "taken"
  /\ ~ClientTimedOut(worker[w].call)
  /\ Move(w, "handling", worker[w].call)
  /\ UNCHANGED <<now, queueVars, answers, closeVars>>

\* The service has responded and returned.
HandlerReturns(w) ==
  /\ worker[w].at = "handling"
  /\ Respond(worker[w].call, "handled")
  /\ Move(w, "getting", NoCall)
  /\ UNCHANGED <<now, queueVars, closeVars>>

WorkerStep(w) ==
  \/ TakeFirst(w)
  \/ Exit(w)
  \/ Park(w)
  \/ WakeUpConsumer(w)
  \/ SkipTimedOut(w)
  \/ Handle(w)
  \/ HandlerReturns(w)

-----------------------------------------------------------------------------
(* ServicePool::Shutdown.                                                  *)

\* Shutdown of the queue posts a null call to every parked consumer.
Woken_None == {}

Woken == {waiting[i] : i \in 1 .. Len(waiting)}

ShutdownQueue(k) ==
  /\ closer[k] = "idle"
  /\ shutdown' = TRUE
  /\ mailbox' = [w \in Worker |-> IF w \in Woken THEN WakeUp ELSE mailbox[w]]
  /\ waiting' = <<>>
  /\ closer' = [closer EXCEPT ![k] = "locking"]
  /\ UNCHANGED <<now, arrived, queue, handoff, dropped, worker, answers, closing>>

\* shutdown_lock_ is held from here until Shutdown returns.
ShutdownLockIsFree_Unlocked == TRUE

ShutdownLockIsFree == \A j \in Closer : closer[j] \notin {"joining", "draining"}

Close(k) ==
  /\ closer[k] = "locking"
  /\ ShutdownLockIsFree
  /\ closing' = TRUE
  /\ closer' = [closer EXCEPT ![k] = IF closing THEN "done" ELSE "joining"]
  /\ UNCHANGED <<now, queueVars, worker, answers>>

Joined == \A w \in Worker : worker[w].at = "exited"

JoinWorkers(k) ==
  /\ closer[k] = "joining"
  /\ Joined
  /\ closer' = [closer EXCEPT ![k] = "draining"]
  /\ UNCHANGED <<now, queueVars, worker, answers, closing>>

\* The loop that drains the queue ends when BlockingGet returns false.  It has
\* nothing to answer: the joined workers left an empty queue that takes no more,
\* and were a call left, this step and ShutdownReturns would wait for ever.
FinishShutdown(k) ==
  /\ closer[k] = "draining"
  /\ queue = {} /\ shutdown
  /\ closer' = [closer EXCEPT ![k] = "done"]
  /\ UNCHANGED <<now, queueVars, worker, answers, closing>>

CloserStep(k) == Close(k) \/ JoinWorkers(k) \/ FinishShutdown(k)

-----------------------------------------------------------------------------

Tick ==
  /\ now < MaxTime
  /\ now' = now + 1
  /\ UNCHANGED <<queueVars, worker, answers, closeVars>>

Next ==
  \/ \E c \in Call : QueueInboundCall(c)
  \/ \E c \in Call, outcome \in Refusal : Reject(c, outcome)
  \/ \E c \in Call, w \in Worker : Post(c, w)
  \/ \E w \in Worker : WorkerStep(w)
  \/ \E k \in Closer : ShutdownQueue(k) \/ CloserStep(k)
  \/ Tick

Spec == Init /\ [][Next]_vars

\* Threads are scheduled and service handlers return; nobody has to send a
\* call or to shut the pool down.
FairSpec ==
  /\ Spec
  /\ \A c \in Call, outcome \in Refusal : WF_vars(Reject(c, outcome))
  /\ \A c \in Call, w \in Worker : WF_vars(Post(c, w))
  /\ \A w \in Worker : WF_vars(WorkerStep(w))
  /\ \A k \in Closer : WF_vars(CloserStep(k))

-----------------------------------------------------------------------------
(* Properties.                                                             *)

\* Where a call may be found: who has to answer it.
Holders(c) ==
  {<<"queue">> : x \in {c} \cap queue}
    \cup {<<"handoff", w>> : w \in {v \in Worker : <<c, v>> \in handoff}}
    \cup {<<"dropped", o>> : o \in {r \in Refusal : <<c, r>> \in dropped}}
    \cup {<<"mailbox", w>> : w \in {v \in Worker : mailbox[v] = c}}
    \cup {<<"worker", w>> : w \in {v \in Worker : worker[v].call = c}}
    \cup {<<"answered", i>> : i \in DOMAIN answers[c]}

\* Each call that arrived is owned by exactly one place until it is answered,
\* and answered once: bare InboundCall pointers are neither leaked nor used by
\* two threads, through eviction, direct hand-off, time-out and shutdown.
EachCallHasOneOwner ==
  \A c \in Call : Cardinality(Holders(c)) = IF c \in arrived THEN 1 ELSE 0

\* The DCHECK(call_ == nullptr) of Post: a consumer is posted to only while it
\* waits with an empty mailbox, and by one producer (Put's unlocked Post
\* against Shutdown's).
OnePostPerWait ==
  /\ \A h \in handoff :
       /\ worker[h[2]].at = "waiting" /\ mailbox[h[2]] = NoPost
       /\ \A g \in handoff : g[2] = h[2] => g = h
  /\ \A i, j \in 1 .. Len(waiting) :
       /\ worker[waiting[i]].at = "waiting" /\ mailbox[waiting[i]] = NoPost
       /\ \A h \in handoff : h[2] # waiting[i]
       /\ waiting[i] = waiting[j] => i = j

\* The DCHECK of Put: no consumer is parked while a call is queued.
NoIdleConsumerWhileQueued == ~(waiting # <<>> /\ queue # {})

\* Post sets call_ and should_wake_ of a waiting consumer only, and Wait resets
\* them.
OnlySleepersHaveMail == \A w \in Worker : mailbox[w] # NoPost => worker[w].at = "waiting"

\* closing_ lets a second Shutdown return without a join only because
\* shutdown_lock_ is held until the first has joined the workers and drained
\* the queue, and a queue that is shut down stays empty.
ClosersAgree ==
  /\ \A k \in Closer :
       /\ closer[k] # "idle" => shutdown
       /\ closer[k] \in {"draining", "done"} => Joined
       /\ closer[k] = "done" => queue = {}
  /\ closing /\ ShutdownLockIsFree => shutdown /\ Joined /\ queue = {}

\* What the code asserts of the queue, and the types.
QueueInv ==
  /\ TypeOK /\ IsFiniteSet(queue)
  /\ OnePostPerWait /\ NoIdleConsumerWhileQueued
  /\ OnlySleepersHaveMail /\ ClosersAgree

\* A call dropped for lack of room is never more urgent than one that stays:
\* with the queue full, the latest deadline of all goes.
DroppedCallIsTheLeastUrgent ==
  [][\A c \in Call :
       <<c, "too_busy">> \in dropped' \ dropped
       => \A d \in queue' : Deadline[d] <= Deadline[c]]_vars

InHandsOfPutter(c) == \E outcome \in Refusal : <<c, outcome>> \in dropped

\* When any Shutdown returns, also one that found the pool closing, no worker
\* is left and no call is queued, on its way to a worker, or held by one.  A call
\* without an answer is then one that Put refused or evicted, and the thread that
\* called Put is about to answer it: Shutdown does not wait for that thread.
ShutdownLeavesNothing ==
  (\E k \in Closer : closer[k] = "done") =>
    /\ \A w \in Worker : worker[w].at = "exited"
    /\ queue = {} /\ handoff = {}
    /\ \A c \in arrived : Len(answers[c]) = IF InHandsOfPutter(c) THEN 0 ELSE 1

\* Every call is answered in the end.
EveryCallIsAnswered == \A c \in Call : c \in arrived ~> answers[c] # <<>>

\* Shutdown returns in the end.
ShutdownReturns == \A k \in Closer : closer[k] = "locking" ~> closer[k] = "done"
=============================================================================
