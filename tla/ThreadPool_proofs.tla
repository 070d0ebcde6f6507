-------------------------- MODULE ThreadPool_proofs --------------------------
(***************************************************************************)
(* Theorems about ThreadPool, for any tasks and waiters, any pool of       *)
(* threads and any limits.                                                 *)
(***************************************************************************)
EXTENDS ThreadPool, FiniteSetTheorems, TLAPS

\* ThreadsInv and NoLostWakeUp are inductive together: that a waiter's or a
\* task's wake-up is still to come needs the threads to be there to give it.
IInv == ThreadsInv /\ NoLostWakeUp

-----------------------------------------------------------------------------
(* Facts about the sets of threads.                                        *)

LEMMA ThreadSets ==
  ASSUME TypeOK
  PROVE  /\ IsFiniteSet(Existing) /\ IsFiniteSet(Running)
         /\ Running \subseteq Existing /\ Waiting \subseteq Existing
         /\ num_threads \in Nat /\ active \in Nat
         /\ num_threads = 0 <=> Existing = {}
         /\ active = 0 <=> Running = {}
<1>1. Existing \in SUBSET Thread /\ Running \in SUBSET Thread
  BY DEF Existing, Running
<1>2. IsFiniteSet(Existing) /\ IsFiniteSet(Running)
  BY <1>1, FS_Subset, PoolAssumption
<1>3. Running \subseteq Existing /\ Waiting \subseteq Existing
  BY DEF Running, Waiting, Existing
<1> QED BY <1>2, <1>3, FS_CardinalityType, FS_EmptySet DEF TypeOK, num_threads

\* One thread moves to another position.
LEMMA ThreadMoves ==
  ASSUME TypeOK, NEW x \in Thread, NEW v \in ThreadState,
         thread' = [thread EXCEPT ![x] = v]
  PROVE  /\ thread' \in [Thread -> ThreadState]
         /\ Existing' = IF v.at = "absent" THEN Existing \ {x} ELSE Existing \cup {x}
         /\ Running' = IF v.at = "running" THEN Running \cup {x} ELSE Running \ {x}
         /\ Waiting' = IF v.at = "waiting" THEN Waiting \cup {x} ELSE Waiting \ {x}
<1>1. thread \in [Thread -> ThreadState]
  BY DEF TypeOK
<1>2. thread' \in [Thread -> ThreadState]
  BY <1>1
<1>3. \A y \in Thread : thread'[y] = IF y = x THEN v ELSE thread[y]
  BY <1>1
<1> QED BY <1>2, <1>3 DEF Existing, Running, Waiting

LEMMA IdleIsAState ==
  /\ Idle("absent") \in ThreadState /\ Idle("absent").at = "absent"
  /\ Idle("ready") \in ThreadState /\ Idle("ready").at = "ready"
  /\ Idle("waiting") \in ThreadState /\ Idle("waiting").at = "waiting"
  /\ \A t \in Task : [at |-> "running", task |-> {t}] \in ThreadState
BY DEF Idle, ThreadState

-----------------------------------------------------------------------------

LEMMA InitIInv == Init => IInv
<1> SUFFICES ASSUME Init PROVE IInv
  OBVIOUS
<1>1. permanent \subseteq Thread /\ Cardinality(permanent) = min_threads
      /\ min_threads \in 0 .. MaxThreads
  BY DEF Init
<1>2. Existing = permanent /\ Running = {} /\ Waiting = {}
  BY <1>1 DEF Init, Existing, Running, Waiting, Idle
<1>3. thread \in [Thread -> ThreadState]
  BY IdleIsAState DEF Init
<1>4. queue \in Seq(Task) /\ Len(queue) = 0
  BY DEF Init
<1>5. task \in [Task -> [state : TaskState, signal : BOOLEAN]]
  BY DEF Init, TaskState
<1>6. waiter \in [Waiter -> [at : {"idle", "checking", "blocked", "returned", "gave_up"},
                          timed : BOOLEAN]]
  BY DEF Init
<1>7. TypeOK
  BY <1>1, <1>2, <1>3, <1>4, <1>5, <1>6, FS_EmptySet, PoolAssumption
     DEF Init, TypeOK, num_threads
<1>8. LastThreadLeavesNoTask /\ MinThreadsStay /\ NothingRunsAfterShutdown
      /\ PermanentThreadsStay /\ TasksAreSomewhere /\ ShutdownEmptiesTheQueue
  BY <1>1, <1>2, PoolAssumption
     DEF Init, LastThreadLeavesNoTask, MinThreadsStay, NothingRunsAfterShutdown,
         PermanentThreadsStay, TasksAreSomewhere, ShutdownEmptiesTheQueue, num_threads
<1>9. NoLostWakeUp
  BY DEF Init, NoLostWakeUp, QueuedTaskHasAWakeThread, BlockedWaiterIsWokenLater
<1> QED BY <1>7, <1>8, <1>9 DEF IInv, ThreadsInv

-----------------------------------------------------------------------------
(* What a step has to show; the rest follows from it.                      *)

Returned == closer = "returned" => Existing = {}

LEMMA PartsSuffice ==
  ASSUME TypeOK', LastThreadLeavesNoTask', PermanentThreadsStay', TasksAreSomewhere',
         ShutdownEmptiesTheQueue', Returned', NoLostWakeUp'
  PROVE  IInv'
<1>1. Existing' \in SUBSET Thread /\ permanent' \in SUBSET Existing'
  BY DEF TypeOK, Existing
<1>2. IsFiniteSet(Existing') /\ Cardinality(permanent') <= Cardinality(Existing')
  BY <1>1, FS_Subset, PoolAssumption
<1>3. Cardinality(permanent') \in Nat /\ Cardinality(Existing') \in Nat
  BY <1>1, <1>2, FS_Subset, FS_CardinalityType
<1>4. MinThreadsStay'
  BY <1>2, <1>3 DEF MinThreadsStay, PermanentThreadsStay, num_threads
<1>5. NothingRunsAfterShutdown'
  <2> SUFFICES ASSUME closer' = "returned"
               PROVE  Existing' = {} /\ queue' = <<>>
                      /\ \A t \in Task : task'[t].state \notin {"queued", "running"}
    BY DEF NothingRunsAfterShutdown
  <2>1. Existing' = {}
    BY DEF Returned
  <2>2. queue' = <<>>
    BY DEF ShutdownEmptiesTheQueue, TypeOK
  <2>3. Running' = {}
    BY <2>1 DEF Running, Existing
  <2> QED BY <2>1, <2>2, <2>3 DEF TasksAreSomewhere
<1> QED BY <1>4, <1>5 DEF IInv, ThreadsInv

LEMMA InvGivesParts ==
  ASSUME IInv
  PROVE  /\ TypeOK /\ LastThreadLeavesNoTask /\ MinThreadsStay /\ PermanentThreadsStay
         /\ TasksAreSomewhere /\ ShutdownEmptiesTheQueue /\ Returned
         /\ QueuedTaskHasAWakeThread /\ BlockedWaiterIsWokenLater
BY DEF IInv, ThreadsInv, NothingRunsAfterShutdown, Returned, NoLostWakeUp

-----------------------------------------------------------------------------
(* One lemma for each action or group of actions.                          *)

\* Wait, WaitFor: a waiter goes to sleep only while the pool is busy.
LEMMA WaitersPreserve ==
  ASSUME IInv, NEW w \in Waiter,
         CallWait(w) \/ CallWaitFor(w) \/ CheckIdle(w) \/ WaitGivesUp(w)
  PROVE  IInv'
<1> USE InvGivesParts
<1>1. UNCHANGED <<min_threads, status, queue, thread, permanent, active, task, closer>>
  BY DEF CallWait, CallWaitFor, CheckIdle, WaitGivesUp, WaitStep
<1>2. \A v \in Waiter : v # w => waiter'[v] = waiter[v]
  BY DEF CallWait, CallWaitFor, CheckIdle, WaitGivesUp, WaitStep, TypeOK
<1>3. /\ waiter' \in [Waiter -> [at : {"idle", "checking", "blocked", "returned", "gave_up"},
                                timed : BOOLEAN]]
      /\ waiter'[w].at = "blocked" => ~PoolIsIdle
  <2> DEFINE State == [at : {"idle", "checking", "blocked", "returned", "gave_up"},
                       timed : BOOLEAN]
  <2>0. waiter \in [Waiter -> State]
    BY DEF TypeOK
  <2>1. ASSUME NEW at \in {"checking", "blocked", "returned", "gave_up"}, WaitStep(w, at)
        PROVE  waiter' \in [Waiter -> State] /\ waiter'[w].at = at
    <3>1. waiter[w] \in State
      BY <2>0
    <3>2. [waiter[w] EXCEPT !.at = at] \in State /\ [waiter[w] EXCEPT !.at = at].at = at
      BY <3>1
    <3>3. waiter' = [waiter EXCEPT ![w] = [waiter[w] EXCEPT !.at = at]]
      BY <2>0, <2>1 DEF WaitStep
    <3> QED BY <2>0, <3>2, <3>3
  <2>2. CASE CallWait(w)
    BY <2>1, <2>2 DEF CallWait
  <2>3. CASE CallWaitFor(w)
    BY <2>0, <2>3 DEF CallWaitFor
  <2>4. CASE CheckIdle(w)
    BY <2>1, <2>4 DEF CheckIdle
  <2>5. CASE WaitGivesUp(w)
    BY <2>1, <2>5 DEF WaitGivesUp
  <2> QED BY <2>2, <2>3, <2>4, <2>5
<1>4. TypeOK' /\ LastThreadLeavesNoTask' /\ PermanentThreadsStay' /\ TasksAreSomewhere'
      /\ ShutdownEmptiesTheQueue' /\ Returned' /\ QueuedTaskHasAWakeThread'
  BY <1>1, <1>3
     DEF TypeOK, LastThreadLeavesNoTask, PermanentThreadsStay, TasksAreSomewhere,
         ShutdownEmptiesTheQueue, Returned, QueuedTaskHasAWakeThread, Existing, Running,
         Waiting, num_threads
<1>5. BlockedWaiterIsWokenLater'
  BY <1>1, <1>2, <1>3 DEF BlockedWaiterIsWokenLater, PoolIsIdle
<1> QED BY <1>4, <1>5, PartsSuffice DEF NoLostWakeUp

\* The caller of Shutdown looks whether threads are left.
LEMMA CheckNoThreadsPreserves ==
  ASSUME IInv, CheckNoThreads
  PROVE  IInv'
<1> USE InvGivesParts
<1>1. TypeOK' /\ LastThreadLeavesNoTask' /\ PermanentThreadsStay' /\ TasksAreSomewhere'
      /\ ShutdownEmptiesTheQueue' /\ Returned' /\ QueuedTaskHasAWakeThread'
      /\ BlockedWaiterIsWokenLater'
  BY DEF CheckNoThreads, TypeOK, LastThreadLeavesNoTask, PermanentThreadsStay,
         TasksAreSomewhere, ShutdownEmptiesTheQueue, Returned, QueuedTaskHasAWakeThread,
         BlockedWaiterIsWokenLater, PoolIsIdle, Existing, Running, Waiting, num_threads
<1> QED BY <1>1, PartsSuffice DEF NoLostWakeUp

\* A task is refused.
LEMMA RefusedPreserves ==
  ASSUME IInv,
         UNCHANGED <<min_threads, status, queue, thread, permanent, active, waiter, closer>>,
         task' \in [Task -> [state : TaskState, signal : BOOLEAN]],
         \A u \in Task : /\ task'[u].signal = task[u].signal
                         /\ task'[u].state \in {task[u].state, "rejected"}
  PROVE  IInv'
<1> USE InvGivesParts
<1>1. TypeOK' /\ LastThreadLeavesNoTask' /\ PermanentThreadsStay'
      /\ ShutdownEmptiesTheQueue' /\ Returned' /\ BlockedWaiterIsWokenLater'
  BY DEF TypeOK, LastThreadLeavesNoTask, PermanentThreadsStay, ShutdownEmptiesTheQueue,
         Returned, BlockedWaiterIsWokenLater, PoolIsIdle, Existing, Running, num_threads
<1>2. TasksAreSomewhere' /\ QueuedTaskHasAWakeThread'
  BY DEF TasksAreSomewhere, QueuedTaskHasAWakeThread, Existing, Running, Waiting
<1> QED BY <1>1, <1>2, PartsSuffice DEF NoLostWakeUp

LEMMA RejectPreserves ==
  ASSUME IInv, NEW t \in Task, Reject(t)
  PROVE  IInv'
<1> USE InvGivesParts
<1>1. UNCHANGED <<min_threads, status, queue, thread, permanent, active, waiter, closer>>
  BY DEF Reject
<1>2. /\ task' \in [Task -> [state : TaskState, signal : BOOLEAN]]
      /\ \A u \in Task : /\ task'[u].signal = task[u].signal
                         /\ task'[u].state \in {task[u].state, "rejected"}
  BY DEF Reject, TypeOK, TaskState
<1> QED BY <1>1, <1>2, RefusedPreserves

\* What putting a task on the queue does.
LEMMA EnqueueAppends ==
  ASSUME TypeOK, NEW t \in Task, Len(queue) < MaxQueueSize, Enqueue(t)
  PROVE  /\ queue' \in Seq(Task) /\ Len(queue') <= MaxQueueSize /\ queue' # <<>>
         /\ \A i \in DOMAIN queue : i \in DOMAIN queue' /\ queue'[i] = queue[i]
         /\ \E i \in DOMAIN queue' : queue'[i] = t
         /\ task' \in [Task -> [state : TaskState, signal : BOOLEAN]]
         /\ task'[t].signal /\ task'[t].state = "queued"
         /\ \A u \in Task : u # t => task'[u] = task[u]
<1>1. queue' = Append(queue, t) /\ queue \in Seq(Task) /\ Len(queue) \in Nat
  BY DEF Enqueue, TypeOK
<1>2. /\ queue' \in Seq(Task) /\ Len(queue') = Len(queue) + 1
      /\ DOMAIN queue = 1 .. Len(queue) /\ DOMAIN queue' = 1 .. Len(queue')
      /\ queue'[Len(queue) + 1] = t
      /\ \A i \in 1 .. Len(queue) : queue'[i] = queue[i]
  BY <1>1
<1>3. Len(queue') <= MaxQueueSize /\ queue' # <<>>
  BY <1>1, <1>2, PoolAssumption
<1>4. [state |-> "queued", signal |-> TRUE] \in [state : TaskState, signal : BOOLEAN]
  BY DEF TaskState
<1>5. task' = [task EXCEPT ![t] = [state |-> "queued", signal |-> TRUE]]
      /\ task \in [Task -> [state : TaskState, signal : BOOLEAN]]
  BY DEF Enqueue, TypeOK
<1>6. \E i \in DOMAIN queue' : queue'[i] = t
  <2>1. Len(queue) + 1 \in DOMAIN queue'
    BY <1>1, <1>2
  <2> QED BY <1>2, <2>1
<1>7. \A i \in DOMAIN queue : i \in DOMAIN queue' /\ queue'[i] = queue[i]
  BY <1>1, <1>2
<1> QED BY <1>2, <1>3, <1>4, <1>5, <1>6, <1>7

\* A task goes on the queue while the pool is up, to threads that stay or to a
\* new one.
LEMMA EnqueuePreserves ==
  ASSUME IInv, NEW t \in Task, status = "ok", Len(queue) < MaxQueueSize, Enqueue(t),
         UNCHANGED <<min_threads, status, permanent, active, waiter, closer>>,
         \/ UNCHANGED thread /\ Existing # {}
         \/ /\ num_threads < MaxThreads
            /\ \E x \in Thread \ Existing : thread' = [thread EXCEPT ![x] = Idle("ready")]
  PROVE  IInv'
<1> USE InvGivesParts
<1>1. /\ thread' \in [Thread -> ThreadState]
      /\ Existing \subseteq Existing' /\ Existing' # {} /\ Running' = Running
      /\ num_threads' <= MaxThreads
      /\ \A x \in Running : thread'[x] = thread[x]
  <2>1. CASE UNCHANGED thread /\ Existing # {}
    BY <2>1 DEF TypeOK, Existing, Running, num_threads
  <2>2. CASE /\ num_threads < MaxThreads
             /\ \E x \in Thread \ Existing : thread' = [thread EXCEPT ![x] = Idle("ready")]
    <3>1. PICK x \in Thread \ Existing : thread' = [thread EXCEPT ![x] = Idle("ready")]
      BY <2>2
    <3>2. /\ thread' \in [Thread -> ThreadState]
          /\ Existing' = Existing \cup {x} /\ Running' = Running \ {x}
      BY <3>1, ThreadMoves, IdleIsAState
    <3>3. IsFiniteSet(Existing) /\ num_threads \in Nat /\ Running \subseteq Existing
      BY ThreadSets
    <3>4. num_threads' = num_threads + 1
      BY <3>2, <3>3, FS_AddElement DEF num_threads
    <3>5. \A y \in Running : thread'[y] = thread[y]
      BY <3>1, <3>3 DEF Running
    <3> QED BY <2>2, <3>2, <3>3, <3>4, <3>5, PoolAssumption
  <2> QED BY <2>1, <2>2
<1>2. TypeOK'
  BY <1>1, EnqueueAppends DEF TypeOK
<1>3. LastThreadLeavesNoTask' /\ PermanentThreadsStay' /\ ShutdownEmptiesTheQueue' /\ Returned'
  BY <1>1
     DEF LastThreadLeavesNoTask, PermanentThreadsStay, ShutdownEmptiesTheQueue, Returned
<1>4. TasksAreSomewhere'
  <2>1. ASSUME NEW u \in Task, task'[u].state = "queued"
        PROVE  \E i \in DOMAIN queue' : queue'[i] = u
    BY <2>1, EnqueueAppends DEF TasksAreSomewhere
  <2>2. ASSUME NEW u \in Task, task'[u].state = "running"
        PROVE  \E x \in Running' : u \in thread'[x].task
    BY <1>1, <2>2, EnqueueAppends DEF TasksAreSomewhere
  <2> QED BY <2>1, <2>2 DEF TasksAreSomewhere
<1>5. NoLostWakeUp'
  BY EnqueueAppends
     DEF NoLostWakeUp, QueuedTaskHasAWakeThread, BlockedWaiterIsWokenLater, PoolIsIdle
<1> QED BY <1>2, <1>3, <1>4, <1>5, PartsSuffice

\* Submit: if no thread is created, one is there, which is why a task may be
\* queued although a thread could not be created.
LEMMA SubmitPreserves ==
  ASSUME IInv, NEW t \in Task, Submit(t) \/ SubmitWithoutNewThread(t)
  PROVE  IInv'
<1> USE InvGivesParts
<1>0. num_threads \in Nat /\ active \in Nat /\ (num_threads = 0 <=> Existing = {})
      /\ Len(queue) \in Nat /\ Running \subseteq Existing
  BY ThreadSets DEF TypeOK
<1>1. CASE Submit(t) /\ NeedsThread /\ CreateThread
  <2>1. ~(num_threads < min_threads)
    BY <1>0, <1>1, PoolAssumption DEF Submit, MinThreadsStay, TypeOK
  <2>2. UNCHANGED permanent
        /\ \E x \in Thread \ Existing : thread' = [thread EXCEPT ![x] = Idle("ready")]
    BY <1>1, <2>1 DEF CreateThread
  <2> QED BY <1>1, <2>2, EnqueuePreserves DEF Submit, NeedsThread
<1>2. CASE Submit(t) /\ ~NeedsThread /\ UNCHANGED <<thread, permanent>>
  <2>1. Existing # {}
    BY <1>0, <1>2, PoolAssumption DEF NeedsThread
  <2> QED BY <1>2, <2>1, EnqueuePreserves DEF Submit
<1>3. CASE SubmitWithoutNewThread(t) /\ num_threads # 0
  BY <1>0, <1>3, EnqueuePreserves DEF SubmitWithoutNewThread
<1>4. CASE SubmitWithoutNewThread(t) /\ num_threads = 0
  <2>1. UNCHANGED <<min_threads, status, queue, thread, permanent, active, waiter, closer>>
    BY <1>4 DEF SubmitWithoutNewThread
  <2>2. /\ task' \in [Task -> [state : TaskState, signal : BOOLEAN]]
        /\ \A u \in Task : /\ task'[u].signal = task[u].signal
                           /\ task'[u].state \in {task[u].state, "rejected"}
    BY <1>4 DEF SubmitWithoutNewThread, TypeOK, TaskState
  <2> QED BY <2>1, <2>2, RefusedPreserves
<1> QED BY <1>1, <1>2, <1>3, <1>4 DEF Submit

\* A thread that is neither running before nor after changes its position and
\* stays in the pool.
LEMMA StayingPreserves ==
  ASSUME IInv, NEW x \in Existing \ Running, NEW v \in {"ready", "waiting"},
         thread' = [thread EXCEPT ![x] = Idle(v)],
         v = "waiting" => queue = <<>>,
         UNCHANGED <<min_threads, status, queue, permanent, active, waiter, closer>>,
         task' \in [Task -> [state : TaskState, signal : BOOLEAN]],
         \A t \in Task : task'[t].state = task[t].state
  PROVE  IInv'
<1> USE InvGivesParts
<1>1. x \in Thread /\ Idle(v) \in ThreadState /\ Idle(v).at = v
  BY IdleIsAState DEF Existing
<1>2. /\ thread' \in [Thread -> ThreadState] /\ Existing' = Existing /\ Running' = Running
      /\ v = "ready" => x \in Existing' /\ x \notin Waiting'
  <2>1. /\ thread' \in [Thread -> ThreadState]
        /\ Existing' = Existing \cup {x} /\ Running' = Running \ {x}
        /\ v = "ready" => Waiting' = Waiting \ {x}
    BY <1>1, ThreadMoves
  <2> QED BY <2>1
<1>3. \A y \in Running : thread'[y] = thread[y]
  BY DEF Running, TypeOK
<1>4. TypeOK'
  BY <1>2 DEF TypeOK, num_threads
<1>5. LastThreadLeavesNoTask' /\ PermanentThreadsStay' /\ ShutdownEmptiesTheQueue' /\ Returned'
      /\ BlockedWaiterIsWokenLater'
  BY <1>2
     DEF LastThreadLeavesNoTask, PermanentThreadsStay, ShutdownEmptiesTheQueue, Returned,
         BlockedWaiterIsWokenLater, PoolIsIdle
<1>6. TasksAreSomewhere'
  BY <1>2, <1>3 DEF TasksAreSomewhere
<1>7. QueuedTaskHasAWakeThread'
  BY <1>2 DEF QueuedTaskHasAWakeThread
<1> QED BY <1>4, <1>5, <1>6, <1>7, PartsSuffice DEF NoLostWakeUp

\* The signal reaches a thread, or there was none asleep: then some thread is
\* awake, as a queued task has a thread.
LEMMA SignalPreserves ==
  ASSUME IInv, NEW t \in Task, Signal(t)
  PROVE  IInv'
<1> USE InvGivesParts
<1>1. UNCHANGED <<min_threads, status, queue, permanent, active, waiter, closer>>
  BY DEF Signal
<1>2. /\ task' \in [Task -> [state : TaskState, signal : BOOLEAN]]
      /\ \A u \in Task : task'[u].state = task[u].state
  BY DEF Signal, TypeOK
<1>3. CASE \E x \in Waiting : thread' = [thread EXCEPT ![x] = Idle("ready")]
  <2>1. PICK x \in Waiting : thread' = [thread EXCEPT ![x] = Idle("ready")]
    BY <1>3
  <2>2. x \in Existing \ Running
    BY <2>1 DEF Waiting, Existing, Running
  <2> QED BY <1>1, <1>2, <2>1, <2>2, StayingPreserves
<1>4. CASE Waiting = {} /\ UNCHANGED thread
  <2>1. TypeOK' /\ LastThreadLeavesNoTask' /\ PermanentThreadsStay'
        /\ ShutdownEmptiesTheQueue' /\ Returned' /\ BlockedWaiterIsWokenLater'
    BY <1>1, <1>2, <1>4
       DEF TypeOK, LastThreadLeavesNoTask, PermanentThreadsStay, ShutdownEmptiesTheQueue,
           Returned, BlockedWaiterIsWokenLater, PoolIsIdle, Existing, Running, num_threads
  <2>2. TasksAreSomewhere'
    BY <1>1, <1>2, <1>4 DEF TasksAreSomewhere, Running
  <2>3. QueuedTaskHasAWakeThread'
    BY <1>1, <1>4
       DEF QueuedTaskHasAWakeThread, LastThreadLeavesNoTask, Existing, Waiting
  <2> QED BY <2>1, <2>2, <2>3, PartsSuffice DEF NoLostWakeUp
<1> QED BY <1>3, <1>4 DEF Signal

LEMMA WaitForTaskPreserves ==
  ASSUME IInv, NEW x \in Thread, WaitForTask(x)
  PROVE  IInv'
<1>1. x \in Existing \ Running
  BY DEF WaitForTask, Existing, Running
<1> QED BY <1>1, StayingPreserves, InvGivesParts DEF WaitForTask, TypeOK

\* A thread that is not running leaves: the pool is shut down, or the thread is
\* not permanent and no task is queued.
LEMMA LeavePreserves ==
  ASSUME IInv, NEW x \in Existing \ Running, Leave(x), queue = <<>>,
         status = "ok" => x \notin permanent,
         UNCHANGED <<min_threads, status, queue, active, task, waiter>>
  PROVE  IInv'
<1> USE InvGivesParts
<1>1. /\ x \in Thread /\ permanent' = permanent \ {x}
      /\ thread' = [thread EXCEPT ![x] = Idle("absent")]
      /\ closer' \in {closer, "checking"} /\ (closer' # closer => closer = "blocked")
  BY DEF Leave, Existing
<1>2. /\ thread' \in [Thread -> ThreadState]
      /\ Existing' = Existing \ {x} /\ Running' = Running \ {x}
  BY <1>1, ThreadMoves, IdleIsAState
<1>3. \A y \in Running : thread'[y] = thread[y]
  BY <1>1 DEF Running, TypeOK
<1>4. num_threads' <= num_threads
  <2>1. IsFiniteSet(Existing) /\ num_threads \in Nat
    BY ThreadSets
  <2>2. Cardinality(Existing \ {x}) = Cardinality(Existing) - 1
    BY <2>1, FS_RemoveElement
  <2> QED BY <1>2, <2>1, <2>2 DEF num_threads
<1>5. TypeOK'
  <2>1. num_threads \in Nat /\ num_threads' \in Nat
    <3>1. IsFiniteSet(Existing) /\ num_threads \in Nat
      BY ThreadSets
    <3>2. IsFiniteSet(Existing')
      BY <1>2, <3>1, FS_RemoveElement
    <3> QED BY <3>1, <3>2, FS_CardinalityType DEF num_threads
  <2>2. num_threads' <= MaxThreads
    BY <1>4, <2>1, PoolAssumption DEF TypeOK
  <2>3. permanent' \subseteq Existing' /\ active' = Cardinality(Running')
    BY <1>1, <1>2 DEF TypeOK
  <2>4. closer' \in {"idle", "checking", "blocked", "returned"}
    BY <1>1 DEF TypeOK
  <2> QED BY <1>2, <2>2, <2>3, <2>4 DEF TypeOK
<1>6. LastThreadLeavesNoTask' /\ ShutdownEmptiesTheQueue'
  BY <1>1 DEF LastThreadLeavesNoTask, ShutdownEmptiesTheQueue
<1>7. PermanentThreadsStay'
  BY <1>1 DEF PermanentThreadsStay
<1>8. Returned'
  BY <1>1, <1>2 DEF Returned
<1>9. TasksAreSomewhere'
  BY <1>2, <1>3 DEF TasksAreSomewhere
<1>10. NoLostWakeUp'
  BY DEF NoLostWakeUp, QueuedTaskHasAWakeThread, BlockedWaiterIsWokenLater, PoolIsIdle
<1> QED BY <1>5, <1>6, <1>7, <1>8, <1>9, <1>10, PartsSuffice

LEMMA LeavingPreserves ==
  ASSUME IInv, NEW x \in Thread, ExitOnShutdown(x) \/ IdleTimeout(x)
  PROVE  IInv'
<1> USE InvGivesParts
<1>1. CASE ExitOnShutdown(x)
  <2>1. x \in Existing \ Running
    BY <1>1 DEF ExitOnShutdown, Existing, Running
  <2>2. queue = <<>>
    BY <1>1 DEF ExitOnShutdown, ShutdownEmptiesTheQueue, TypeOK
  <2> QED BY <1>1, <2>1, <2>2, LeavePreserves DEF ExitOnShutdown
<1>2. CASE IdleTimeout(x)
  <2>1. x \in Existing \ Running /\ x \notin permanent
    BY <1>2 DEF IdleTimeout, HasTimeout, Existing, Running
  <2>2. CASE MayLeaveIdle
    BY <1>2, <2>1, <2>2, LeavePreserves DEF IdleTimeout, MayLeaveIdle
  <2>3. CASE ~MayLeaveIdle
    BY <1>2, <2>1, <2>3, StayingPreserves DEF IdleTimeout, TypeOK
  <2> QED BY <2>2, <2>3
<1> QED BY <1>1, <1>2

\* A thread takes the first task: it leaves the queue for the hands of the
\* thread.
LEMMA RunTaskPreserves ==
  ASSUME IInv, NEW x \in Thread, RunTask(x)
  PROVE  IInv'
<1> USE InvGivesParts
<1> DEFINE h == Head(queue)
<1>1. /\ queue \in Seq(Task) /\ queue # <<>> /\ queue' = Tail(queue) /\ status = "ok"
      /\ UNCHANGED <<min_threads, status, permanent, waiter, closer>>
      /\ active' = active + 1
      /\ thread' = [thread EXCEPT ![x] = [at |-> "running", task |-> {h}]]
      /\ task' = [task EXCEPT ![h].state = "running"]
      /\ thread[x].at = "ready"
  BY DEF RunTask, TypeOK
<1>2. /\ h \in Task /\ queue' \in Seq(Task) /\ Len(queue') = Len(queue) - 1
      /\ \A i \in DOMAIN queue : queue[i] # h => \E j \in DOMAIN queue' : queue'[j] = queue[i]
  <2>1. /\ Len(queue) \in Nat /\ Len(queue) > 0 /\ DOMAIN queue = 1 .. Len(queue)
        /\ h = queue[1] /\ h \in Task
        /\ queue' \in Seq(Task) /\ Len(queue') = Len(queue) - 1
        /\ DOMAIN queue' = 1 .. (Len(queue) - 1)
        /\ \A j \in 1 .. (Len(queue) - 1) : queue'[j] = queue[j + 1]
    BY <1>1
  <2>2. ASSUME NEW i \in DOMAIN queue, queue[i] # h
        PROVE  i - 1 \in DOMAIN queue' /\ queue'[i - 1] = queue[i]
    BY <2>1, <2>2
  <2> QED BY <2>1, <2>2
<1>3. x \in Existing /\ x \notin Running
  BY <1>1 DEF Existing, Running
<1>4. /\ thread' \in [Thread -> ThreadState]
      /\ Existing' = Existing /\ Running' = Running \cup {x}
      /\ x \notin Waiting'
  <2>1. [at |-> "running", task |-> {h}] \in ThreadState
    BY <1>2, IdleIsAState
  <2>2. /\ thread' \in [Thread -> ThreadState]
        /\ Existing' = Existing \cup {x} /\ Running' = Running \cup {x}
        /\ Waiting' = Waiting \ {x}
    BY <1>1, <2>1, ThreadMoves
  <2> QED BY <1>3, <2>2
<1>5. /\ \A y \in Running : thread'[y] = thread[y]
      /\ h \in thread'[x].task
  BY <1>1, <1>3 DEF Running, TypeOK
<1>6. /\ task' \in [Task -> [state : TaskState, signal : BOOLEAN]]
      /\ task'[h].state = "running"
      /\ \A t \in Task : t # h => task'[t] = task[t]
      /\ \A t \in Task : task'[t].signal = task[t].signal
  BY <1>1, <1>2 DEF TypeOK, TaskState
<1>7. active' = Cardinality(Running') /\ active' # 0
  <2>1. IsFiniteSet(Running) /\ active \in Nat /\ active = Cardinality(Running)
    BY ThreadSets DEF TypeOK
  <2>2. Cardinality(Running \cup {x}) = Cardinality(Running) + 1
    BY <1>3, <2>1, FS_AddElement
  <2> QED BY <1>1, <1>4, <2>1, <2>2
<1>8. TypeOK'
  <2>1. Len(queue') <= MaxQueueSize
    BY <1>1, <1>2, PoolAssumption DEF TypeOK
  <2> QED BY <1>1, <1>2, <1>4, <1>6, <1>7, <2>1 DEF TypeOK, num_threads
<1>9. LastThreadLeavesNoTask' /\ PermanentThreadsStay' /\ ShutdownEmptiesTheQueue' /\ Returned'
  BY <1>1, <1>3, <1>4
     DEF LastThreadLeavesNoTask, PermanentThreadsStay, ShutdownEmptiesTheQueue, Returned
<1>10. TasksAreSomewhere'
  <2>1. ASSUME NEW t \in Task, task'[t].state = "queued"
        PROVE  \E j \in DOMAIN queue' : queue'[j] = t
    BY <1>2, <1>6, <2>1 DEF TasksAreSomewhere
  <2>2. ASSUME NEW t \in Task, task'[t].state = "running"
        PROVE  \E y \in Running' : t \in thread'[y].task
    BY <1>4, <1>5, <1>6, <2>2 DEF TasksAreSomewhere
  <2> QED BY <2>1, <2>2 DEF TasksAreSomewhere
<1>11. NoLostWakeUp'
  BY <1>3, <1>4, <1>7
     DEF NoLostWakeUp, QueuedTaskHasAWakeThread, BlockedWaiterIsWokenLater, PoolIsIdle
<1> QED BY <1>8, <1>9, <1>10, <1>11, PartsSuffice

\* A task ends: the last one wakes every waiter.
LEMMA FinishTaskPreserves ==
  ASSUME IInv, NEW x \in Thread, FinishTask(x)
  PROVE  IInv'
<1> USE InvGivesParts
<1> DEFINE State == [at : {"idle", "checking", "blocked", "returned", "gave_up"},
                     timed : BOOLEAN]
<1>1. /\ thread[x].at = "running" /\ active' = active - 1
      /\ waiter' = IF active' = 0 THEN WakeWaiters ELSE waiter
      /\ task' = [t \in Task |-> IF t \in thread[x].task
                                THEN [task[t] EXCEPT !.state = "done"] ELSE task[t]]
      /\ thread' = [thread EXCEPT ![x] = Idle("ready")]
      /\ UNCHANGED <<min_threads, status, queue, permanent, closer>>
  BY DEF FinishTask
<1>2. x \in Existing /\ x \in Running
  BY <1>1 DEF Existing, Running
<1>3. /\ thread' \in [Thread -> ThreadState]
      /\ Existing' = Existing /\ Running' = Running \ {x}
      /\ x \notin Waiting'
  <2>1. /\ thread' \in [Thread -> ThreadState]
        /\ Existing' = Existing \cup {x} /\ Running' = Running \ {x}
        /\ Waiting' = Waiting \ {x}
    BY <1>1, ThreadMoves, IdleIsAState
  <2> QED BY <1>2, <2>1
<1>4. \A y \in Running' : thread'[y] = thread[y]
  BY <1>1, <1>3 DEF Running, TypeOK
<1>5. /\ task' \in [Task -> [state : TaskState, signal : BOOLEAN]]
      /\ \A t \in Task : task'[t] = task[t] \/ task'[t].state = "done"
      /\ \A t \in thread[x].task \cap Task : task'[t].state = "done"
      /\ \A t \in Task : task'[t].signal = task[t].signal
  BY <1>1 DEF TypeOK, TaskState
<1>6. active' = Cardinality(Running')
  BY <1>1, <1>2, <1>3, ThreadSets, FS_RemoveElement DEF TypeOK
<1>7. waiter' \in [Waiter -> State]
      /\ \A w \in Waiter : waiter'[w].at = "blocked" => active' # 0 /\ waiter'[w] = waiter[w]
  <2>1. waiter \in [Waiter -> State]
    BY DEF TypeOK
  <2>2. \A w \in Waiter : [waiter[w] EXCEPT !.at = "checking"] \in State
                         /\ [waiter[w] EXCEPT !.at = "checking"].at = "checking"
    BY <2>1
  <2>3. WakeWaiters \in [Waiter -> State] /\ \A w \in Waiter : WakeWaiters[w].at # "blocked"
    BY <2>1, <2>2 DEF WakeWaiters
  <2> QED BY <1>1, <2>1, <2>3
<1>8. TypeOK'
  BY <1>1, <1>3, <1>5, <1>6, <1>7 DEF TypeOK, num_threads
<1>9. LastThreadLeavesNoTask' /\ PermanentThreadsStay' /\ ShutdownEmptiesTheQueue' /\ Returned'
  BY <1>1, <1>2, <1>3
     DEF LastThreadLeavesNoTask, PermanentThreadsStay, ShutdownEmptiesTheQueue, Returned
<1>10. TasksAreSomewhere'
  <2>1. ASSUME NEW t \in Task, task'[t].state = "queued"
        PROVE  \E j \in DOMAIN queue' : queue'[j] = t
    BY <1>1, <1>5, <2>1 DEF TasksAreSomewhere
  <2>2. ASSUME NEW t \in Task, task'[t].state = "running"
        PROVE  \E y \in Running' : t \in thread'[y].task
    <3>1. PICK y \in Running : t \in thread[y].task
      BY <1>5, <2>2 DEF TasksAreSomewhere
    <3>2. y # x
      BY <1>5, <2>2, <3>1
    <3> QED BY <1>3, <1>4, <3>1, <3>2
  <2> QED BY <2>1, <2>2 DEF TasksAreSomewhere
<1>11. QueuedTaskHasAWakeThread'
  BY <1>2, <1>3 DEF QueuedTaskHasAWakeThread
<1>12. BlockedWaiterIsWokenLater'
  BY <1>7 DEF BlockedWaiterIsWokenLater, PoolIsIdle
<1> QED BY <1>8, <1>9, <1>10, <1>11, <1>12, PartsSuffice DEF NoLostWakeUp

LEMMA ShutdownPreserves ==
  ASSUME IInv, Shutdown
  PROVE  IInv'
<1> USE InvGivesParts
<1>1. /\ status' = "shutdown" /\ queue' = <<>> /\ closer' = "checking"
      /\ task' = [t \in Task |-> IF task[t].state = "queued"
                                THEN [task[t] EXCEPT !.state = "dropped"] ELSE task[t]]
      /\ thread' = [x \in Thread |-> IF x \in Waiting THEN Idle("ready") ELSE thread[x]]
      /\ UNCHANGED <<min_threads, permanent, active, waiter>>
  BY DEF Shutdown, Cleared
<1>2. /\ thread' \in [Thread -> ThreadState]
      /\ Existing' = Existing /\ Running' = Running
      /\ \A x \in Running : thread'[x] = thread[x]
  <2>1. thread \in [Thread -> ThreadState]
    BY DEF TypeOK
  <2>2. thread' \in [Thread -> ThreadState]
    BY <1>1, <2>1, IdleIsAState
  <2> QED BY <1>1, <2>1, <2>2, IdleIsAState DEF Existing, Running, Waiting
<1>3. /\ task' \in [Task -> [state : TaskState, signal : BOOLEAN]]
      /\ \A t \in Task : /\ task'[t].state # "queued"
                         /\ task'[t].state = "running" => task[t].state = "running"
  BY <1>1 DEF TypeOK, TaskState
<1>4. TypeOK'
  <2>1. queue' \in Seq(Task) /\ Len(queue') <= MaxQueueSize
    BY <1>1, PoolAssumption
  <2> QED BY <1>1, <1>2, <1>3, <2>1 DEF TypeOK, num_threads
<1>5. LastThreadLeavesNoTask' /\ PermanentThreadsStay' /\ ShutdownEmptiesTheQueue' /\ Returned'
      /\ NoLostWakeUp'
  BY <1>1
     DEF LastThreadLeavesNoTask, PermanentThreadsStay, ShutdownEmptiesTheQueue, Returned,
         NoLostWakeUp, QueuedTaskHasAWakeThread, BlockedWaiterIsWokenLater
<1>6. TasksAreSomewhere'
  BY <1>2, <1>3 DEF TasksAreSomewhere
<1> QED BY <1>4, <1>5, <1>6, PartsSuffice

-----------------------------------------------------------------------------

LEMMA NextPreserves == IInv /\ [Next]_vars => IInv'
<1> SUFFICES ASSUME IInv, [Next]_vars PROVE IInv'
  OBVIOUS
<1>1. ASSUME NEW t \in Task, Reject(t) \/ Submit(t) \/ SubmitWithoutNewThread(t) \/ Signal(t)
      PROVE  IInv'
  BY <1>1, RejectPreserves, SubmitPreserves, SignalPreserves
<1>2. ASSUME NEW x \in Thread, ThreadStep(x) \/ IdleTimeout(x)
      PROVE  IInv'
  BY <1>2, LeavingPreserves, WaitForTaskPreserves, RunTaskPreserves, FinishTaskPreserves
     DEF ThreadStep
<1>3. ASSUME NEW w \in Waiter,
             CallWait(w) \/ CallWaitFor(w) \/ CheckIdle(w) \/ WaitGivesUp(w)
      PROVE  IInv'
  BY <1>3, WaitersPreserve
<1>4. CASE Shutdown \/ CheckNoThreads
  BY <1>4, ShutdownPreserves, CheckNoThreadsPreserves
<1>5. CASE UNCHANGED vars
  BY <1>5
     DEF vars, IInv, ThreadsInv, NoLostWakeUp, TypeOK, LastThreadLeavesNoTask,
         MinThreadsStay, NothingRunsAfterShutdown, PermanentThreadsStay, TasksAreSomewhere,
         ShutdownEmptiesTheQueue, QueuedTaskHasAWakeThread, BlockedWaiterIsWokenLater,
         PoolIsIdle, Existing, Running, Waiting, num_threads
<1> QED BY <1>1, <1>2, <1>3, <1>4, <1>5 DEF Next

\* The strengthened invariant of the pool.
THEOREM Invariance == Spec => []IInv
<1> QED BY InitIInv, NextPreserves, PTL DEF Spec

\* The variables keep their types; active_threads_ is the number of threads that
\* run a task, and there are never more than max_threads.
THEOREM TypeCorrect == Spec => []TypeOK
<1>1. IInv => TypeOK
  BY DEF IInv, ThreadsInv
<1> QED BY <1>1, Invariance, PTL

\* The CHECK of DispatchThread, the promise of min_threads, that Shutdown leaves
\* nothing running, and that no task is lost between the queue and the threads.
THEOREM ThreadsSuffice == Spec => []ThreadsInv
<1>1. IInv => ThreadsInv
  BY DEF IInv
<1> QED BY <1>1, Invariance, PTL

\* A queued task has a thread awake or a signal to come, although Submit signals
\* after it released the lock and timed waits may run out; a waiter of a pool that
\* is up sleeps only while the pool is busy.
THEOREM NoWakeUpIsLost == Spec => []NoLostWakeUp
<1>1. IInv => NoLostWakeUp
  BY DEF IInv
<1> QED BY <1>1, Invariance, PTL
=============================================================================
