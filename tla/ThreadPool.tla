------------------------------ MODULE ThreadPool ------------------------------
(***************************************************************************)
(* util/threadpool.{h,cc}: tasks are submitted to a bounded queue, threads *)
(* are created on demand and leave after an idle timeout, Wait blocks      *)
(* until the pool is idle, Shutdown drops the queue and waits for the      *)
(* threads.                                                                *)
(*                                                                         *)
(* A critical section of ThreadPool::lock_ is one action.  The three       *)
(* condition variables are explicit: a blocked thread moves only when a    *)
(* signal or broadcast reached it, or its timed wait ran out.              *)
(***************************************************************************)
EXTENDS Integers, Sequences, FiniteSets

CONSTANTS
  Task,          \* the submitted tasks
  Thread,        \* identities of the pool's threads, reused after an exit
  Waiter,        \* the threads that call Wait or WaitFor
  MaxThreads, MaxQueueSize

ASSUME PoolAssumption ==
  /\ MaxThreads \in Nat \ {0}
  /\ MaxQueueSize \in Nat \ {0}
  /\ IsFiniteSet(Thread) /\ MaxThreads <= Cardinality(Thread)

VARIABLES
  min_threads, \* min_threads_, fixed when the pool is built
  status,      \* pool_status_: Init has returned OK, or Shutdown was called
  queue,       \* queue_
  thread,      \* each thread's position in DispatchThread
  permanent,   \* threads that do not time out
  active,      \* active_threads_
  task,        \* how far each task got; the submitter's position with it
  waiter,      \* each waiter's position in Wait, or (timed) in WaitFor
  closer       \* the position in Shutdown of the thread that calls it

vars == <<min_threads, status, queue, thread, permanent, active, task, waiter, closer>>

ThreadState ==
  [at : {"absent", "ready", "waiting"}, task : SUBSET {}]
    \cup [at : {"running"}, task : {{t} : t \in Task}]

TaskState == {"new", "queued", "rejected", "running", "done", "dropped"}

Idle(position) == [at |-> position, task |-> {}]

Existing == {x \in Thread : thread[x].at # "absent"}
Running  == {x \in Thread : thread[x].at = "running"}
Waiting  == {x \in Thread : thread[x].at = "waiting"}

num_threads == Cardinality(Existing)

TypeOK ==
  /\ min_threads \in 0 .. MaxThreads
  /\ status \in {"ok", "shutdown"}
  /\ queue \in Seq(Task) /\ Len(queue) <= MaxQueueSize
  /\ thread \in [Thread -> ThreadState] /\ num_threads <= MaxThreads
  /\ permanent \subseteq Existing
  /\ active = Cardinality(Running)
  /\ task \in [Task -> [state : TaskState, signal : BOOLEAN]]
  /\ waiter \in [Waiter -> [at : {"idle", "checking", "blocked", "returned", "gave_up"},
                          timed : BOOLEAN]]
  /\ closer \in {"idle", "checking", "blocked", "returned"}

\* Init of the pool has created the permanent threads.
Init ==
  /\ min_threads \in 0 .. MaxThreads
  /\ status = "ok"
  /\ queue = <<>>
  /\ permanent \in {P \in SUBSET Thread : Cardinality(P) = min_threads}
  /\ thread = [x \in Thread |-> Idle(IF x \in permanent THEN "ready" ELSE "absent")]
  /\ active = 0
  /\ task = [t \in Task |-> [state |-> "new", signal |-> FALSE]]
  /\ waiter = [w \in Waiter |-> [at |-> "idle", timed |-> FALSE]]
  /\ closer = "idle"

-----------------------------------------------------------------------------
(* Submit.                                                                 *)

Reject(t) ==
  /\ task[t].state = "new"
  /\ status # "ok" \/ Len(queue) = MaxQueueSize
  /\ task' = [task EXCEPT ![t].state = "rejected"]
  /\ UNCHANGED <<min_threads, status, queue, thread, permanent, active, waiter, closer>>

\* Each inactive thread is counted on to take one queued task.
NeedsThread ==
  /\ Len(queue) + 1 > num_threads - active
  /\ num_threads < MaxThreads

\* CreateThreadUnlocked; the first threads are permanent.
CreateThread ==
  \E x \in Thread \ Existing :
    /\ thread' = [thread EXCEPT ![x] = Idle("ready")]
    /\ permanent' = IF num_threads < min_threads THEN permanent \cup {x}
                                                ELSE permanent

Enqueue_NoSignal(t) ==
  /\ queue' = Append(queue, t)
  /\ task' = [task EXCEPT ![t] = [state |-> "queued", signal |-> FALSE]]

Enqueue(t) ==
  /\ queue' = Append(queue, t)
  /\ task' = [task EXCEPT ![t] = [state |-> "queued", signal |-> TRUE]]

Submit(t) ==
  /\ task[t].state = "new"
  /\ status = "ok" /\ Len(queue) < MaxQueueSize
  /\ \/ NeedsThread /\ CreateThread
     \/ ~NeedsThread /\ UNCHANGED <<thread, permanent>>
  /\ Enqueue(t)
  /\ UNCHANGED <<min_threads, status, active, waiter, closer>>

\* No thread can be created: the task is refused if nobody could run it.
SubmitWithoutNewThread(t) ==
  /\ task[t].state = "new"
  /\ status = "ok" /\ Len(queue) < MaxQueueSize
  /\ NeedsThread
  /\ IF num_threads = 0
     THEN task' = [task EXCEPT ![t].state = "rejected"] /\ UNCHANGED queue
     ELSE Enqueue(t)
  /\ UNCHANGED <<min_threads, status, thread, permanent, active, waiter, closer>>

\* not_empty_.Signal(), after the lock was released.
Signal(t) ==
  /\ task[t].signal
  /\ task' = [task EXCEPT ![t].signal = FALSE]
  /\ \/ \E x \in Waiting : thread' = [thread EXCEPT ![x] = Idle("ready")]
     \/ Waiting = {} /\ UNCHANGED thread
  /\ UNCHANGED <<min_threads, status, queue, permanent, active, waiter, closer>>

-----------------------------------------------------------------------------
(* DispatchThread.                                                         *)

\* A thread leaves; the last one tells Shutdown.
Leave_Silent(x) ==
  /\ thread' = [thread EXCEPT ![x] = Idle("absent")]
  /\ permanent' = permanent \ {x}
  /\ UNCHANGED closer

Leave(x) ==
  /\ thread' = [thread EXCEPT ![x] = Idle("absent")]
  /\ permanent' = permanent \ {x}
  /\ closer' = IF num_threads = 1 /\ closer = "blocked" THEN "checking" ELSE closer

ExitOnShutdown(x) ==
  /\ thread[x].at = "ready"
  /\ status # "ok"
  /\ Leave(x)
  /\ UNCHANGED <<min_threads, status, queue, active, task, waiter>>

WaitForTask(x) ==
  /\ thread[x].at = "ready"
  /\ status = "ok" /\ queue = <<>>
  /\ thread' = [thread EXCEPT ![x] = Idle("waiting")]
  /\ UNCHANGED <<min_threads, status, queue, permanent, active, task, waiter, closer>>

\* The timed wait ran out, which it may also do after a signal: a thread that
\* finds the queue empty leaves, another goes round the loop.
MayLeaveIdle_Unchecked == TRUE

MayLeaveIdle == queue = <<>>

HasTimeout(x) == x \notin permanent

IdleTimeout(x) ==
  /\ thread[x].at = "waiting"
  /\ HasTimeout(x)
  /\ IF MayLeaveIdle
     THEN Leave(x)
     ELSE thread' = [thread EXCEPT ![x] = Idle("ready")] /\ UNCHANGED <<permanent, closer>>
  /\ UNCHANGED <<min_threads, status, queue, active, task, waiter>>

RunTask(x) ==
  /\ thread[x].at = "ready"
  /\ status = "ok" /\ queue # <<>>
  /\ queue' = Tail(queue)
  /\ active' = active + 1
  /\ thread' = [thread EXCEPT ![x] = [at |-> "running", task |-> {Head(queue)}]]
  /\ task' = [task EXCEPT ![Head(queue)].state = "running"]
  /\ UNCHANGED <<min_threads, status, permanent, waiter, closer>>

\* idle_cond_.Broadcast().
WakeWaiters_Never == waiter

WakeWaiters ==
  [w \in Waiter |-> IF waiter[w].at = "blocked"
                    THEN [waiter[w] EXCEPT !.at = "checking"] ELSE waiter[w]]

FinishTask(x) ==
  /\ thread[x].at = "running"
  /\ active' = active - 1
  /\ waiter' = IF active' = 0 THEN WakeWaiters ELSE waiter
  /\ task' = [t \in Task |-> IF t \in thread[x].task
                             THEN [task[t] EXCEPT !.state = "done"] ELSE task[t]]
  /\ thread' = [thread EXCEPT ![x] = Idle("ready")]
  /\ UNCHANGED <<min_threads, status, queue, permanent, closer>>

ThreadStep(x) ==
  \/ ExitOnShutdown(x)
  \/ WaitForTask(x)
  \/ RunTask(x)
  \/ FinishTask(x)

-----------------------------------------------------------------------------
(* Wait and Shutdown.                                                      *)

PoolIsIdle == queue = <<>> /\ active = 0

WaitStep(w, at) ==
  /\ waiter' = [waiter EXCEPT ![w].at = at]
  /\ UNCHANGED <<min_threads, status, queue, thread, permanent, active, task, closer>>

CallWait(w) ==
  waiter[w] = [at |-> "idle", timed |-> FALSE] /\ WaitStep(w, "checking")

CallWaitFor(w) ==
  /\ waiter[w].at = "idle"
  /\ waiter' = [waiter EXCEPT ![w] = [at |-> "checking", timed |-> TRUE]]
  /\ UNCHANGED <<min_threads, status, queue, thread, permanent, active, task, closer>>

CheckIdle(w) ==
  /\ waiter[w].at = "checking"
  /\ WaitStep(w, IF PoolIsIdle THEN "returned" ELSE "blocked")

\* TimedWait ran out: WaitFor returns false without another look at the pool.
WaitGivesUp(w) ==
  /\ waiter[w] = [at |-> "blocked", timed |-> TRUE]
  /\ WaitStep(w, "gave_up")

\* ClearQueue: what a shutdown leaves of the queue.
Cleared == <<>>

Shutdown ==
  /\ closer = "idle"
  /\ status' = "shutdown"
  /\ queue' = Cleared
  /\ task' = [t \in Task |-> IF task[t].state = "queued"
                             THEN [task[t] EXCEPT !.state = "dropped"] ELSE task[t]]
  /\ thread' = [x \in Thread |-> IF x \in Waiting THEN Idle("ready") ELSE thread[x]]
  /\ closer' = "checking"
  /\ UNCHANGED <<min_threads, permanent, active, waiter>>

CheckNoThreads ==
  /\ closer = "checking"
  /\ closer' = IF Existing = {} THEN "returned" ELSE "blocked"
  /\ UNCHANGED <<min_threads, status, queue, thread, permanent, active, task, waiter>>

-----------------------------------------------------------------------------

Next ==
  \/ \E t \in Task :
       Reject(t) \/ Submit(t) \/ SubmitWithoutNewThread(t) \/ Signal(t)
  \/ \E x \in Thread : ThreadStep(x) \/ IdleTimeout(x)
  \/ \E w \in Waiter : CallWait(w) \/ CallWaitFor(w) \/ CheckIdle(w) \/ WaitGivesUp(w)
  \/ Shutdown
  \/ CheckNoThreads

Spec == Init /\ [][Next]_vars

\* Threads are scheduled and tasks end; an idle timeout need not run out.
FairSpec ==
  /\ Spec
  /\ \A t \in Task : WF_vars(Signal(t))
  /\ \A x \in Thread : WF_vars(ThreadStep(x))
  /\ \A w \in Waiter : WF_vars(CheckIdle(w)) /\ WF_vars(WaitGivesUp(w))
  /\ WF_vars(CheckNoThreads)

-----------------------------------------------------------------------------
(* Properties.                                                             *)

\* The CHECK of DispatchThread: a queued task always has a thread left to run
\* it, although a thread may time out just as Submit counts on it.
LastThreadLeavesNoTask == queue # <<>> => Existing # {}

\* No lost wake-up of Wait: while the pool is up, a waiter sleeps only as long
\* as the pool is busy, so the broadcast that ends its sleep is still to come.
BlockedWaiterIsWokenLater ==
  \A w \in Waiter :
    status = "ok" /\ waiter[w].at = "blocked" => ~PoolIsIdle

\* No lost signal: if tasks are queued, some thread is awake, or a submitter
\* still has a signal to give to one that sleeps.
QueuedTaskHasAWakeThread ==
  queue # <<>> /\ Waiting = Existing => \E t \in Task : task[t].signal

\* When Shutdown returns nothing runs any more; what was queued never does.
NothingRunsAfterShutdown ==
  closer = "returned" =>
    /\ Existing = {} /\ queue = <<>>
    /\ \A t \in Task : task[t].state \notin {"queued", "running"}

\* The pool never has fewer threads than min_threads while it is up.
MinThreadsStay == status = "ok" => num_threads >= min_threads

\* Which they owe to the permanent ones.
PermanentThreadsStay == status = "ok" => Cardinality(permanent) = min_threads

\* A task that is queued or running is in the hands of the queue or a thread.
TasksAreSomewhere ==
  \A t \in Task :
    /\ task[t].state = "queued" => \E i \in DOMAIN queue : queue[i] = t
    /\ task[t].state = "running" => \E x \in Running : t \in thread[x].task

\* Only Shutdown ends the pool, and it empties the queue for good.
ShutdownEmptiesTheQueue ==
  /\ closer = "idle" <=> status = "ok"
  /\ status = "shutdown" => queue = <<>>

\* The threads are enough for the queue and for min_threads, no task is lost,
\* no thread outlives the pool, and the types.
ThreadsInv ==
  /\ TypeOK
  /\ LastThreadLeavesNoTask /\ MinThreadsStay /\ NothingRunsAfterShutdown
  /\ PermanentThreadsStay /\ TasksAreSomewhere /\ ShutdownEmptiesTheQueue

\* Whoever sleeps while there is a reason to wake up has a wake-up to come.
NoLostWakeUp == QueuedTaskHasAWakeThread /\ BlockedWaiterIsWokenLater

\* A task that was accepted runs to its end, or is dropped by Shutdown.
AcceptedTasksFinish ==
  \A t \in Task : task[t].state = "queued" ~> task[t].state \in {"done", "dropped"}

\* Shutdown returns.
ShutdownReturns == closer = "checking" ~> closer = "returned"

\* threadpool.h:152: "Wait until all the tasks are completed."
WaitReturns ==
  \A w \in Waiter : waiter[w].at = "checking" ~> waiter[w].at \in {"returned", "gave_up"}
=============================================================================
