----------------------------- MODULE Heartbeat -----------------------------
(***************************************************************************)
(* The heartbeats of worker servers to a master: the Heartbeater thread of *)
(* each worker process (registration, failures and back-off, the proxy to  *)
(* the master, Stop), and the master's MasterServiceImpl::WorkerHeartbeat  *)
(* over its WorkerManager.                                                 *)
(*                                                                         *)
(* ServerBase::GenerateInstanceID gives every started process a new        *)
(* permanent_uuid, so an instance is a worker and the number of its start, *)
(* and the master never meets a second sequence number under one uuid.     *)
(* The load a heartbeat reports is constant in the code and left out.      *)
(*                                                                         *)
(* Time is abstract: an interval wait ends at some time, a call that is    *)
(* not answered fails at some time, and a worker the master has not heard  *)
(* of may pass worker_unresponsive_timeout_ms at any time.  A heartbeat    *)
(* whose call failed may still be executed by the master later, unless the *)
(* master died.  Both processes may crash and start again.                 *)
(***************************************************************************)
EXTENDS Naturals, FiniteSets

CONSTANTS
  Workers,        \* the worker servers
  MaxFailures,    \* FLAGS_heartbeat_max_failures_before_backoff
  MaxStarts,      \* bound: starts of a worker process
  MaxMasterStarts \* bound: starts of the master after the first

ASSUME HeartbeatAssumption ==
  /\ IsFiniteSet(Workers)
  /\ MaxFailures \in Nat
  /\ MaxStarts \in Nat
  /\ MaxMasterStarts \in Nat

VARIABLES
  starts,        \* how often each worker process was started
  at,            \* its heartbeat thread: exited, waiting, connecting or calling
  shouldRun,     \* should_run_
  needsRegister, \* last_hb_response_.needs_register()
  failures,      \* consecutive_failed_heartbeats_, counted up to MaxFailures
  proxy,         \* proxy_ is set
  call,          \* the heartbeat call: none, sent, or its outcome
  hurried,       \* heartbeats begun without a wait since the last wait
  late,          \* heartbeats whose call failed and the master may yet execute
  master,        \* up or down
  epoch,         \* starts of the master
  servers,       \* servers_by_id_: the instances registered
  recent,        \* those heard of within worker_unresponsive_timeout_ms
  knownIn        \* the last epoch in which the master said OK to each worker

workerVars == <<starts, at, shouldRun, needsRegister, failures, proxy, call, hurried>>
masterVars == <<master, epoch, servers, recent>>
vars == <<workerVars, masterVars, late, knownIn>>

Instances == Workers \X (1..MaxStarts)
Heartbeats == [inst : Instances, registration : BOOLEAN]
Inst(w) == <<w, starts[w]>>
Heartbeat(w) == [inst |-> Inst(w), registration |-> needsRegister[w]]

Init ==
  /\ starts = [w \in Workers |-> 0]
  /\ at = [w \in Workers |-> "exited"]
  /\ shouldRun = [w \in Workers |-> FALSE]
  /\ needsRegister = [w \in Workers |-> FALSE]
  /\ failures = [w \in Workers |-> 0]
  /\ proxy = [w \in Workers |-> FALSE]
  /\ call = [w \in Workers |-> "none"]
  /\ hurried = [w \in Workers |-> 0]
  /\ late = {}
  /\ master = "up"
  /\ epoch = 0
  /\ servers = {}
  /\ recent = {}
  /\ knownIn = [w \in Workers |-> 0]

-----------------------------------------------------------------------------
(* The worker. *)

\* A call given up may reach the master later, or never.
GiveUp(w) ==
  \/ late' = late
  \/ call[w] = "sent" /\ late' = late \cup {Heartbeat(w)}

\* A process starts: Heartbeater::Start and the top of RunThread.
Start(w) ==
  /\ at[w] = "exited"
  /\ starts[w] < MaxStarts
  /\ starts' = [starts EXCEPT ![w] = @ + 1]
  /\ at' = [at EXCEPT ![w] = "waiting"]
  /\ shouldRun' = [shouldRun EXCEPT ![w] = TRUE]
  /\ needsRegister' = [needsRegister EXCEPT ![w] = TRUE]
  /\ failures' = [failures EXCEPT ![w] = 0]
  /\ proxy' = [proxy EXCEPT ![w] = FALSE]
  /\ hurried' = [hurried EXCEPT ![w] = 0]
  /\ UNCHANGED <<call, masterVars, late, knownIn>>

\* Heartbeater::Thread::Stop; it joins the thread.
Stop(w) ==
  /\ shouldRun[w]
  /\ shouldRun' = [shouldRun EXCEPT ![w] = FALSE]
  /\ UNCHANGED <<starts, at, needsRegister, failures, proxy, call, hurried,
                 masterVars, late, knownIn>>

Crash(w) ==
  /\ at[w] # "exited"
  /\ at' = [at EXCEPT ![w] = "exited"]
  /\ shouldRun' = [shouldRun EXCEPT ![w] = FALSE]
  /\ GiveUp(w)
  /\ call' = [call EXCEPT ![w] = "none"]
  /\ UNCHANGED <<starts, needsRegister, failures, proxy, hurried, masterVars, knownIn>>

\* The waiting thread sees should_run_ and returns.
ExitsWhenStopped(w) == ~shouldRun[w]

ThreadExits(w) ==
  /\ at[w] = "waiting"
  /\ ExitsWhenStopped(w)
  /\ at' = [at EXCEPT ![w] = "exited"]
  /\ UNCHANGED <<starts, shouldRun, needsRegister, failures, proxy, call, hurried,
                 masterVars, late, knownIn>>

\* Mutant: a worker that must register never backs off.
NoWait_Unbounded(w) == needsRegister[w]

\* GetMillisUntilNextHeartbeat and GetMinimumHeartbeatMillis: a worker that must
\* register tries again at once until it has failed too often.
NoWait(w) == needsRegister[w] /\ failures[w] < MaxFailures

\* The wait is over: DoHeartbeat, first ConnectToMaster when there is no proxy.
BeginHeartbeat(w) ==
  /\ at[w] = "waiting"
  /\ shouldRun[w]
  /\ hurried' = [hurried EXCEPT ![w] = IF NoWait(w) THEN @ + 1 ELSE 0]
  /\ \/ /\ proxy[w]
        /\ at' = [at EXCEPT ![w] = "calling"]
        /\ call' = [call EXCEPT ![w] = "sent"]
     \/ /\ ~proxy[w]
        /\ at' = [at EXCEPT ![w] = "connecting"]
        /\ UNCHANGED call
  /\ UNCHANGED <<starts, shouldRun, needsRegister, failures, proxy, masterVars,
                 late, knownIn>>

\* ConnectToMaster: the master answered the ping.
Pinged(w) ==
  /\ at[w] = "connecting"
  /\ master = "up"
  /\ proxy' = [proxy EXCEPT ![w] = TRUE]
  /\ at' = [at EXCEPT ![w] = "calling"]
  /\ call' = [call EXCEPT ![w] = "sent"]
  /\ UNCHANGED <<starts, shouldRun, needsRegister, failures, hurried, masterVars,
                 late, knownIn>>

\* The ping or the heartbeat failed: RunThread counts it and, after a network
\* error or too many failures, drops the proxy.
HeartbeatFails(w, networkError) ==
  /\ at[w] \in {"connecting", "calling"}
  /\ failures' = [failures EXCEPT ![w] = IF @ < MaxFailures THEN @ + 1 ELSE @]
  /\ proxy' = [proxy EXCEPT ![w] = @ /\ ~networkError /\ failures[w] + 1 < MaxFailures]
  /\ at' = [at EXCEPT ![w] = "waiting"]
  /\ GiveUp(w)
  /\ call' = [call EXCEPT ![w] = "none"]
  /\ UNCHANGED <<starts, shouldRun, needsRegister, hurried, masterVars, knownIn>>

\* The answer arrived: last_hb_response_.Swap(&resp).
Answered(w) ==
  /\ at[w] = "calling"
  /\ call[w] \in {"ok", "needs_register"}
  /\ needsRegister' = [needsRegister EXCEPT ![w] = (call[w] = "needs_register")]
  /\ failures' = [failures EXCEPT ![w] = 0]
  /\ at' = [at EXCEPT ![w] = "waiting"]
  /\ call' = [call EXCEPT ![w] = "none"]
  /\ UNCHANGED <<starts, shouldRun, proxy, hurried, masterVars, late, knownIn>>

-----------------------------------------------------------------------------
(* The master. *)

\* Mutant: LookupWorker does not find workers presumed dead.
Found_Live(inst) == inst \in recent

\* LookupWorker.
Found(inst) == inst \in servers

\* Mutant: WorkerHeartbeat asks for a registration and ignores the one it gets.
Accepted_NotRegistered(h) == Found(h.inst)

\* RegisterWorker or LookupWorker succeeds.
Accepted(h) == h.registration \/ Found(h.inst)

\* UpdateHearbeatTime.
Refreshed(h) == IF Accepted(h) THEN recent \cup {h.inst} ELSE recent

\* WorkerHeartbeat: register or look up, then refresh.
WorkerHeartbeat(h) ==
  /\ master = "up"
  /\ servers' = IF Accepted(h) THEN servers \cup {h.inst} ELSE servers
  /\ recent' = Refreshed(h)
  /\ UNCHANGED <<master, epoch>>

HandleHeartbeat(w) ==
  /\ call[w] = "sent"
  /\ WorkerHeartbeat(Heartbeat(w))
  /\ call' = [call EXCEPT ![w] = IF Accepted(Heartbeat(w)) THEN "ok" ELSE "needs_register"]
  /\ knownIn' = [knownIn EXCEPT ![w] = IF Accepted(Heartbeat(w)) THEN epoch ELSE @]
  /\ UNCHANGED <<starts, at, shouldRun, needsRegister, failures, proxy, hurried, late>>

\* A heartbeat nobody waits for any more.
HandleLate(h) ==
  /\ h \in late
  /\ WorkerHeartbeat(h)
  /\ late' = late \ {h}
  /\ UNCHANGED <<workerVars, knownIn>>

\* Mutant: PresumedDead never gets true.
PresumedDead_Never(inst) == FALSE

\* PresumedDead: worker_unresponsive_timeout_ms without a heartbeat.
PresumedDead(inst) == inst \in recent

FallsSilent(inst) ==
  /\ PresumedDead(inst)
  /\ recent' = recent \ {inst}
  /\ UNCHANGED <<workerVars, master, epoch, servers, late, knownIn>>

\* The master's process dies, and with it the map and every call it had.
MasterCrashes ==
  /\ master = "up"
  /\ epoch < MaxMasterStarts
  /\ master' = "down"
  /\ servers' = {}
  /\ recent' = {}
  /\ late' = {}
  /\ call' = [w \in Workers |-> IF call[w] = "sent" THEN "lost" ELSE call[w]]
  /\ UNCHANGED <<starts, at, shouldRun, needsRegister, failures, proxy, hurried,
                 epoch, knownIn>>

MasterStarts ==
  /\ master = "down"
  /\ master' = "up"
  /\ epoch' = epoch + 1
  /\ UNCHANGED <<workerVars, servers, recent, late, knownIn>>

-----------------------------------------------------------------------------
CallEnds(w) == Answered(w) \/ \E networkError \in BOOLEAN : HeartbeatFails(w, networkError)
ThreadStep(w) == ThreadExits(w) \/ BeginHeartbeat(w) \/ CallEnds(w)

Next ==
  \/ \E w \in Workers :
       Start(w) \/ Stop(w) \/ Crash(w) \/ ThreadStep(w) \/ Pinged(w) \/ HandleHeartbeat(w)
  \/ \E h \in late : HandleLate(h)
  \/ \E inst \in recent : FallsSilent(inst)
  \/ MasterCrashes
  \/ MasterStarts

Spec == Init /\ [][Next]_vars

\* Calls end by their timeout, waits end, the clock runs, a master that died is
\* started again, and pings and heartbeats that could succeed again and again do
\* succeed some time.
Fairness ==
  /\ \A w \in Workers :
       /\ WF_vars(ThreadStep(w))
       /\ SF_vars(Pinged(w))
       /\ SF_vars(HandleHeartbeat(w))
       /\ SF_vars(Answered(w))
  /\ \A inst \in Instances : WF_vars(FallsSilent(inst))
  /\ WF_vars(MasterStarts)

FairSpec == Spec /\ Fairness

-----------------------------------------------------------------------------
(* Properties. *)

TypeOK ==
  /\ starts \in [Workers -> 0..MaxStarts]
  /\ at \in [Workers -> {"exited", "waiting", "connecting", "calling"}]
  /\ shouldRun \in [Workers -> BOOLEAN]
  /\ needsRegister \in [Workers -> BOOLEAN]
  /\ failures \in [Workers -> 0..MaxFailures]
  /\ proxy \in [Workers -> BOOLEAN]
  /\ call \in [Workers -> {"none", "sent", "lost", "ok", "needs_register"}]
  /\ hurried \in [Workers -> Nat]
  /\ late \subseteq Heartbeats
  /\ master \in {"up", "down"}
  /\ epoch \in 0..MaxMasterStarts
  /\ servers \subseteq Instances
  /\ recent \subseteq servers
  /\ knownIn \in [Workers -> 0..MaxMasterStarts]

\* A worker begins at most heartbeat_max_failures_before_backoff heartbeats in a
\* row without a wait (the flag's description), whatever sequence of lost calls,
\* answers to register again and master restarts it meets.
HurriedIsBounded == \A w \in Workers : hurried[w] <= MaxFailures

\* A worker the current master has accepted is not asked to register again until
\* the master is restarted, also after lost answers, timeouts and long silence.
RegistersOncePerMaster ==
  [][\A w \in Workers :
       call'[w] = "needs_register" /\ call[w] # "needs_register" /\ ~needsRegister[w]
         => knownIn[w] # epoch]_vars

\* A worker that goes on running is in the master's list of live workers again and
\* again, through failures on either side and restarts of the master.
RunningIsListed ==
  \A w \in Workers : []<>(at[w] = "exited" \/ ~shouldRun[w] \/ Inst(w) \in recent)

\* A worker process that has ended is presumed dead for good in the end: late
\* heartbeats bring it back to the list only for a while.
EndedIsForgotten ==
  \A inst \in Instances :
    (starts[inst[1]] = inst[2] /\ at[inst[1]] = "exited") ~> [](inst \notin recent)

-----------------------------------------------------------------------------
(***************************************************************************)
(* The inductive invariant.  Beyond the types:                             *)
(*  - a thread that exists belongs to a process that was started, and only *)
(*    a thread in a heartbeat has a call;                                  *)
(*  - only a heartbeat without a registration is told to register;         *)
(*  - a worker that must register has begun no more heartbeats without a   *)
(*    wait than it has counted failures, and the one it is in; one that    *)
(*    need not register waited before the heartbeat it is in;              *)
(*  - a master that is down has not used up its starts (of the bound);     *)
(*  - a worker that last heard OK from the master that is up is in its map,*)
(*    under the instance it runs as.                                       *)
(***************************************************************************)
WorkerInv(w) ==
  /\ at[w] # "exited" => starts[w] # 0
  /\ call[w] # "none" => at[w] = "calling"
  /\ call[w] = "needs_register" => ~needsRegister[w]
  /\ hurried[w] <= MaxFailures
  /\ at[w] = "waiting" /\ needsRegister[w] => hurried[w] <= failures[w]
  /\ at[w] \in {"connecting", "calling"} =>
       hurried[w] <= IF needsRegister[w] THEN failures[w] + 1 ELSE 0

MasterInv == master = "down" => epoch < MaxMasterStarts

\* Only Answered clears needs_register, and Start sets it for a new instance.
KnownInv(w) ==
  /\ knownIn[w] <= epoch
  /\ /\ at[w] # "exited" /\ (~needsRegister[w] \/ call[w] = "ok")
     /\ master = "up" /\ knownIn[w] = epoch
     => Inst(w) \in servers

StepInv == TypeOK /\ MasterInv /\ \A w \in Workers : WorkerInv(w)

IInv == StepInv /\ \A w \in Workers : KnownInv(w)
=============================================================================
