--------------------------- MODULE Heartbeat_proofs ---------------------------
(***************************************************************************)
(* Theorems about Heartbeat, for any workers and any values of the bounds. *)
(***************************************************************************)
EXTENDS Heartbeat, TLAPS

LEMMA InitStepInv == Init => StepInv
<1> SUFFICES ASSUME Init PROVE StepInv
  OBVIOUS
<1>1. 0 \in 0..MaxStarts /\ 0 \in 0..MaxFailures /\ 0 \in 0..MaxMasterStarts
  BY HeartbeatAssumption
<1>2. TypeOK
  BY <1>1 DEF Init, TypeOK
<1>3. ASSUME NEW w \in Workers PROVE WorkerInv(w)
  BY HeartbeatAssumption DEF Init, WorkerInv
<1>4. MasterInv
  BY DEF Init, MasterInv
<1> QED BY <1>2, <1>3, <1>4 DEF StepInv

-----------------------------------------------------------------------------
(* What a step of one worker does to the others' part.                     *)

\* Nothing WorkerInv speaks of has changed for a worker.
Untouched(w) ==
  /\ starts'[w] = starts[w]
  /\ at'[w] = at[w]
  /\ needsRegister'[w] = needsRegister[w]
  /\ failures'[w] = failures[w]
  /\ call'[w] = call[w]
  /\ hurried'[w] = hurried[w]

LEMMA UntouchedPreserves ==
  ASSUME NEW w \in Workers, WorkerInv(w), Untouched(w)
  PROVE  WorkerInv(w)'
BY DEF WorkerInv, Untouched

\* The instance of a worker whose heartbeat is under way.
LEMMA HeartbeatType ==
  ASSUME StepInv, NEW w \in Workers, call[w] = "sent"
  PROVE  Heartbeat(w) \in Heartbeats /\ Heartbeat(w).inst \in Instances
<1>1. starts[w] \in 1..MaxStarts
  <2>1. starts[w] \in 0..MaxStarts /\ starts[w] # 0
    BY DEF StepInv, TypeOK, WorkerInv
  <2> QED BY <2>1, HeartbeatAssumption
<1>2. Inst(w) \in Instances /\ needsRegister[w] \in BOOLEAN
  BY <1>1 DEF StepInv, TypeOK, Inst, Instances
<1> QED BY <1>2 DEF Heartbeat, Heartbeats

-----------------------------------------------------------------------------
(* One lemma for each part of Next.                                        *)

\* Start, Stop and Crash of a worker's process.
LEMMA ProcessPreserves ==
  ASSUME StepInv, NEW w \in Workers, Start(w) \/ Stop(w) \/ Crash(w)
  PROVE  StepInv'
<1>0. MasterInv'
  BY DEF StepInv, MasterInv, Start, Stop, Crash, masterVars
<1>1. TypeOK /\ WorkerInv(w)
  BY DEF StepInv
<1>2. ASSUME NEW v \in Workers, v # w PROVE WorkerInv(v)'
  <2>1. Untouched(v)
    BY <1>1, <1>2 DEF TypeOK, Untouched, Start, Stop, Crash
  <2> QED BY <1>0, <2>1, UntouchedPreserves DEF StepInv
<1>3. CASE Start(w)
  <2>1. starts[w] + 1 \in 0..MaxStarts /\ 0 \in 0..MaxFailures
    BY <1>1, <1>3, HeartbeatAssumption DEF TypeOK, Start
  <2>2. TypeOK'
    BY <1>1, <1>3, <2>1 DEF TypeOK, Start, masterVars
  <2>3. /\ starts'[w] = starts[w] + 1 /\ at'[w] = "waiting" /\ hurried'[w] = 0
        /\ failures'[w] = 0 /\ call'[w] = "none"
    BY <1>1, <1>3 DEF TypeOK, Start, WorkerInv
  <2>4. starts[w] + 1 # 0
    BY <1>1, HeartbeatAssumption DEF TypeOK
  <2>5. WorkerInv(w)'
    BY <2>3, <2>4, HeartbeatAssumption DEF WorkerInv
  <2> QED BY <1>0, <1>2, <2>2, <2>5 DEF StepInv
<1>4. CASE Stop(w)
  <2>1. TypeOK'
    BY <1>1, <1>4 DEF TypeOK, Stop, masterVars
  <2>2. Untouched(w)
    BY <1>4 DEF Untouched, Stop
  <2> QED BY <1>0, <1>1, <1>2, <2>1, <2>2, UntouchedPreserves DEF StepInv
<1>5. CASE Crash(w)
  <2>1. late' \subseteq Heartbeats
    BY <1>1, <1>5, HeartbeatType DEF TypeOK, Crash, GiveUp
  <2>2. TypeOK'
    BY <1>1, <1>5, <2>1 DEF TypeOK, Crash, masterVars
  <2>3. WorkerInv(w)'
    BY <1>1, <1>5 DEF TypeOK, WorkerInv, Crash
  <2> QED BY <1>0, <1>2, <2>2, <2>3 DEF StepInv
<1> QED BY <1>3, <1>4, <1>5

\* The top of RunThread's loop: return, or begin a heartbeat.
LEMMA WaitEndPreserves ==
  ASSUME StepInv, NEW w \in Workers, ThreadExits(w) \/ BeginHeartbeat(w)
  PROVE  StepInv'
<1>0. MasterInv'
  BY DEF StepInv, MasterInv, ThreadExits, BeginHeartbeat, masterVars
<1>1. TypeOK /\ WorkerInv(w)
  BY DEF StepInv
<1>2. ASSUME NEW v \in Workers, v # w PROVE WorkerInv(v)'
  <2>1. Untouched(v)
    BY <1>1, <1>2 DEF TypeOK, Untouched, ThreadExits, BeginHeartbeat
  <2> QED BY <1>0, <2>1, UntouchedPreserves DEF StepInv
<1>3. CASE ThreadExits(w)
  <2>1. TypeOK'
    BY <1>1, <1>3 DEF TypeOK, ThreadExits, masterVars
  <2>2. WorkerInv(w)'
    BY <1>1, <1>3 DEF TypeOK, WorkerInv, ThreadExits
  <2> QED BY <1>0, <1>2, <2>1, <2>2 DEF StepInv
<1>4. CASE BeginHeartbeat(w)
  <2>1. hurried[w] \in Nat /\ failures[w] \in Nat
    BY <1>1 DEF TypeOK
  <2>2. /\ hurried' = [hurried EXCEPT ![w] = IF NoWait(w) THEN hurried[w] + 1 ELSE 0]
        /\ UNCHANGED <<starts, shouldRun, needsRegister, failures, proxy,
                       masterVars, late, knownIn>>
        /\ at[w] = "waiting"
    BY <1>4 DEF BeginHeartbeat
  <2>3. /\ at' \in [Workers -> {"exited", "waiting", "connecting", "calling"}]
        /\ call' \in [Workers -> {"none", "sent", "lost", "ok", "needs_register"}]
        /\ at'[w] \in {"connecting", "calling"}
        /\ call'[w] # "none" => call'[w] = "sent" /\ at'[w] = "calling"
    BY <1>1, <1>4 DEF TypeOK, WorkerInv, BeginHeartbeat
  <2>4. hurried' \in [Workers -> Nat]
    BY <1>1, <2>1, <2>2 DEF TypeOK
  <2>5. TypeOK'
    BY <1>1, <2>2, <2>3, <2>4 DEF TypeOK, masterVars
  <2>6. hurried'[w] = IF NoWait(w) THEN hurried[w] + 1 ELSE 0
    BY <1>1, <2>2 DEF TypeOK
  <2>7. /\ hurried'[w] <= MaxFailures
        /\ hurried'[w] <= IF needsRegister[w] THEN failures[w] + 1 ELSE 0
    BY <1>1, <2>1, <2>2, <2>6, HeartbeatAssumption DEF WorkerInv, NoWait
  <2>8. WorkerInv(w)'
    BY <1>1, <2>2, <2>3, <2>7 DEF WorkerInv
  <2> QED BY <1>0, <1>2, <2>5, <2>8 DEF StepInv
<1> QED BY <1>3, <1>4

\* The end of a heartbeat: connected, failed or answered.
LEMMA CallPreserves ==
  ASSUME StepInv, NEW w \in Workers, Pinged(w) \/ CallEnds(w)
  PROVE  StepInv'
<1>0. MasterInv'
  BY DEF StepInv, MasterInv, Pinged, CallEnds, Answered, HeartbeatFails, masterVars
<1>1. TypeOK /\ WorkerInv(w) /\ hurried[w] \in Nat /\ failures[w] \in 0..MaxFailures
  BY DEF StepInv, TypeOK
<1>2. ASSUME NEW v \in Workers, v # w PROVE WorkerInv(v)'
  <2>1. Untouched(v)
    BY <1>1, <1>2 DEF TypeOK, Untouched, Pinged, CallEnds, Answered, HeartbeatFails
  <2> QED BY <1>0, <2>1, UntouchedPreserves DEF StepInv
<1>3. CASE Pinged(w)
  <2>1. TypeOK'
    BY <1>1, <1>3 DEF TypeOK, Pinged, masterVars
  <2>2. WorkerInv(w)'
    BY <1>1, <1>3 DEF TypeOK, WorkerInv, Pinged
  <2> QED BY <1>0, <1>2, <2>1, <2>2 DEF StepInv
<1>4. CASE Answered(w)
  <2>1. 0 \in 0..MaxFailures
    BY HeartbeatAssumption
  <2>2. TypeOK'
    BY <1>1, <1>4, <2>1 DEF TypeOK, Answered, masterVars
  <2>3. /\ needsRegister'[w] => ~needsRegister[w] /\ hurried[w] <= 0
        /\ failures'[w] = 0 /\ at'[w] = "waiting" /\ call'[w] = "none"
        /\ hurried' = hurried /\ starts' = starts
    BY <1>1, <1>4 DEF TypeOK, WorkerInv, Answered
  <2>4. WorkerInv(w)'
    BY <1>1, <1>4, <2>3 DEF WorkerInv, Answered
  <2> QED BY <1>0, <1>2, <2>2, <2>4 DEF StepInv
<1>5. ASSUME NEW networkError \in BOOLEAN, HeartbeatFails(w, networkError)
      PROVE  StepInv'
  <2>1. late' \subseteq Heartbeats
    BY <1>1, <1>5, HeartbeatType DEF TypeOK, HeartbeatFails, GiveUp
  <2>2. /\ failures' = [failures EXCEPT ![w] =
                          IF failures[w] < MaxFailures THEN failures[w] + 1 ELSE failures[w]]
        /\ at[w] \in {"connecting", "calling"}
        /\ UNCHANGED <<starts, needsRegister, hurried>>
    BY <1>5 DEF HeartbeatFails
  <2>3. failures' \in [Workers -> 0..MaxFailures]
    BY <1>1, <2>2, HeartbeatAssumption DEF TypeOK
  <2>4. proxy' \in [Workers -> BOOLEAN]
    <3>1. /\ proxy' = [proxy EXCEPT ![w] =
                         @ /\ ~networkError /\ failures[w] + 1 < MaxFailures]
          /\ proxy[w] \in BOOLEAN /\ proxy \in [Workers -> BOOLEAN]
      BY <1>1, <1>5 DEF TypeOK, HeartbeatFails
    <3> QED BY <3>1
  <2>5. TypeOK'
    BY <1>1, <1>5, <2>1, <2>3, <2>4 DEF TypeOK, HeartbeatFails, masterVars
  <2>6. /\ failures'[w] = IF failures[w] < MaxFailures THEN failures[w] + 1 ELSE failures[w]
        /\ at'[w] = "waiting" /\ call'[w] = "none"
    BY <1>1, <1>5, <2>2 DEF TypeOK, HeartbeatFails
  <2>7. hurried[w] <= failures'[w]
    BY <1>1, <2>2, <2>6, HeartbeatAssumption DEF WorkerInv
  <2>8. WorkerInv(w)'
    BY <1>1, <2>2, <2>6, <2>7 DEF WorkerInv
  <2> QED BY <1>0, <1>2, <2>5, <2>8 DEF StepInv
<1> QED BY <1>3, <1>4, <1>5 DEF CallEnds

\* The master handles a heartbeat somebody waits for.
LEMMA HandlePreserves ==
  ASSUME StepInv, NEW w \in Workers, HandleHeartbeat(w)
  PROVE  StepInv'
<1>0. MasterInv'
  BY DEF StepInv, MasterInv, HandleHeartbeat, WorkerHeartbeat, masterVars
<1>1. TypeOK /\ WorkerInv(w) /\ call[w] = "sent"
  BY DEF StepInv, HandleHeartbeat
<1>2. Heartbeat(w).inst \in Instances
  BY <1>1, HeartbeatType
<1>3. ASSUME NEW v \in Workers, v # w PROVE WorkerInv(v)'
  <2>1. Untouched(v)
    BY <1>1, <1>3 DEF TypeOK, Untouched, HandleHeartbeat
  <2> QED BY <1>0, <2>1, UntouchedPreserves DEF StepInv
<1>4. servers' \subseteq Instances /\ recent' \subseteq servers'
  BY <1>1, <1>2 DEF TypeOK, HandleHeartbeat, WorkerHeartbeat, Refreshed
<1>5. /\ call' = [call EXCEPT ![w] =
                    IF Accepted(Heartbeat(w)) THEN "ok" ELSE "needs_register"]
      /\ knownIn' = [knownIn EXCEPT ![w] =
                       IF Accepted(Heartbeat(w)) THEN epoch ELSE knownIn[w]]
      /\ UNCHANGED <<starts, at, shouldRun, needsRegister, failures, proxy, hurried,
                     late, master, epoch>>
  BY DEF HandleHeartbeat, WorkerHeartbeat
<1>6. call' \in [Workers -> {"none", "sent", "lost", "ok", "needs_register"}]
  BY <1>1, <1>5 DEF TypeOK
<1>7. knownIn' \in [Workers -> 0..MaxMasterStarts]
  BY <1>1, <1>5 DEF TypeOK
<1>8. TypeOK'
  BY <1>1, <1>4, <1>5, <1>6, <1>7 DEF TypeOK
<1>9. call'[w] = "needs_register" => ~needsRegister[w]
  BY <1>1, <1>5 DEF TypeOK, Accepted, Heartbeat
<1>10. WorkerInv(w)'
  BY <1>1, <1>5, <1>9 DEF WorkerInv
<1> QED BY <1>0, <1>3, <1>8, <1>10 DEF StepInv

\* What the master does besides: late heartbeats, silence, crash and start.
LEMMA MasterPreserves ==
  ASSUME StepInv,
         \/ \E h \in late : HandleLate(h)
         \/ \E inst \in recent : FallsSilent(inst)
         \/ MasterCrashes
         \/ MasterStarts
  PROVE  StepInv'
<1>1. TypeOK /\ MasterInv
  BY DEF StepInv
<1>2. ASSUME UNCHANGED workerVars, TypeOK', MasterInv' PROVE StepInv'
  <2>1. ASSUME NEW w \in Workers PROVE WorkerInv(w)'
    BY <1>2, UntouchedPreserves DEF StepInv, Untouched, workerVars
  <2> QED BY <1>2, <2>1 DEF StepInv
<1>3. ASSUME NEW h \in late, HandleLate(h) PROVE StepInv'
  <2>1. h.inst \in Instances
    BY <1>1 DEF TypeOK, Heartbeats
  <2>2. servers' \subseteq Instances /\ recent' \subseteq servers'
    BY <1>1, <1>3, <2>1 DEF TypeOK, HandleLate, WorkerHeartbeat, Refreshed
  <2>3. TypeOK'
    BY <1>1, <1>3, <2>2 DEF TypeOK, HandleLate, WorkerHeartbeat, workerVars
  <2>4. MasterInv'
    BY <1>1, <1>3 DEF MasterInv, HandleLate, WorkerHeartbeat
  <2> QED BY <1>2, <1>3, <2>3, <2>4 DEF HandleLate
<1>4. ASSUME NEW inst \in recent, FallsSilent(inst) PROVE StepInv'
  <2>1. TypeOK'
    BY <1>1, <1>4 DEF TypeOK, FallsSilent, workerVars
  <2>2. MasterInv'
    BY <1>1, <1>4 DEF MasterInv, FallsSilent
  <2> QED BY <1>2, <1>4, <2>1, <2>2 DEF FallsSilent
<1>5. CASE MasterStarts
  <2>1. epoch + 1 \in 0..MaxMasterStarts
    BY <1>1, <1>5, HeartbeatAssumption DEF TypeOK, MasterInv, MasterStarts
  <2>2. TypeOK'
    BY <1>1, <1>5, <2>1 DEF TypeOK, MasterStarts, workerVars
  <2>3. MasterInv'
    BY <1>5 DEF MasterInv, MasterStarts
  <2> QED BY <1>2, <1>5, <2>2, <2>3 DEF MasterStarts
<1>6. CASE MasterCrashes
  <2>1. TypeOK'
    BY <1>1, <1>6 DEF TypeOK, MasterCrashes
  <2>2. ASSUME NEW w \in Workers PROVE WorkerInv(w)'
    BY <1>1, <1>6, <2>2 DEF StepInv, TypeOK, WorkerInv, MasterCrashes
  <2>3. MasterInv'
    BY <1>6 DEF MasterInv, MasterCrashes
  <2> QED BY <2>1, <2>2, <2>3 DEF StepInv
<1> QED BY <1>3, <1>4, <1>5, <1>6

-----------------------------------------------------------------------------
(* The theorems.                                                           *)

LEMMA StepInductive == StepInv /\ [Next]_vars => StepInv'
<1> SUFFICES ASSUME StepInv, [Next]_vars PROVE StepInv'
  OBVIOUS
<1>1. CASE Next
  BY <1>1, ProcessPreserves, WaitEndPreserves, CallPreserves, HandlePreserves,
     MasterPreserves
  DEF Next, ThreadStep
<1>2. CASE UNCHANGED vars
  BY <1>2 DEF vars, workerVars, masterVars, StepInv, TypeOK, MasterInv, WorkerInv
<1> QED BY <1>1, <1>2

-----------------------------------------------------------------------------
(* What a worker and its master know of each other.                        *)

\* Its instance stays in the map while its worker says OK, as long as the master
\* is up, and nothing new is said.
LEMMA KnownKept ==
  ASSUME StepInv, NEW w \in Workers, KnownInv(w),
         knownIn'[w] = knownIn[w], epoch' = epoch,
         master' = "up" => master = "up" /\ servers \subseteq servers',
         at'[w] # "exited" /\ (~needsRegister'[w] \/ call'[w] = "ok") =>
           /\ at[w] # "exited" /\ (~needsRegister[w] \/ call[w] = "ok")
           /\ starts'[w] = starts[w]
  PROVE  KnownInv(w)'
BY DEF KnownInv, Inst

LEMMA KnownPreserves ==
  ASSUME IInv, [Next]_vars, NEW v \in Workers
  PROVE  KnownInv(v)'
<1>1. StepInv /\ TypeOK /\ KnownInv(v) /\ WorkerInv(v)
  BY DEF IInv, StepInv
<1>2. ASSUME NEW w \in Workers,
             Start(w) \/ Stop(w) \/ Crash(w) \/ ThreadStep(w) \/ Pinged(w)
      PROVE  KnownInv(v)'
  <2>1. UNCHANGED <<master, epoch, servers, knownIn>>
    BY <1>2 DEF Start, Stop, Crash, ThreadStep, ThreadExits, BeginHeartbeat, CallEnds, Answered,
       HeartbeatFails, Pinged, masterVars
  <2>2. CASE v # w
    <3>1. /\ at'[v] = at[v] /\ needsRegister'[v] = needsRegister[v] /\ call'[v] = call[v]
          /\ starts'[v] = starts[v]
      BY <1>1, <1>2, <2>2 DEF TypeOK, Start, Stop, Crash, ThreadStep, ThreadExits, BeginHeartbeat,
         CallEnds, Answered, HeartbeatFails, Pinged
    <3> QED BY <1>1, <2>1, <3>1, KnownKept
  <2>3. CASE v = w /\ Start(w)
    <3>1. needsRegister'[w] = TRUE /\ call'[w] = "none"
      BY <1>1, <2>3 DEF TypeOK, Start, WorkerInv
    <3> QED BY <1>1, <2>1, <2>3, <3>1, KnownKept
  <2>4. CASE v = w /\ (Stop(w) \/ Crash(w) \/ ThreadExits(w) \/ BeginHeartbeat(w) \/ Pinged(w))
    <3>1. /\ at'[w] # "exited" => at[w] # "exited"
          /\ needsRegister' = needsRegister /\ starts' = starts
          /\ call'[w] = "ok" => call[w] = "ok"
      BY <1>1, <2>4 DEF TypeOK, Stop, Crash, ThreadExits, BeginHeartbeat, Pinged
    <3> QED BY <1>1, <2>1, <2>4, <3>1, KnownKept
  <2>5. CASE v = w /\ CallEnds(w)
    <3>1. /\ at[w] # "exited" /\ starts' = starts /\ call'[w] = "none"
          /\ ~needsRegister'[w] => ~needsRegister[w] \/ call[w] = "ok"
      BY <1>1, <2>5 DEF TypeOK, CallEnds, Answered, HeartbeatFails
    <3> QED BY <1>1, <2>1, <2>5, <3>1, KnownKept
  <2> QED BY <1>2, <2>2, <2>3, <2>4, <2>5 DEF ThreadStep
<1>3. ASSUME NEW w \in Workers, HandleHeartbeat(w)
      PROVE  KnownInv(v)'
  <2>1. /\ servers \subseteq servers' /\ UNCHANGED <<master, epoch, starts, at, needsRegister>>
        /\ call' = [call EXCEPT ![w] = IF Accepted(Heartbeat(w)) THEN "ok" ELSE "needs_register"]
        /\ knownIn' = [knownIn EXCEPT ![w] = IF Accepted(Heartbeat(w)) THEN epoch ELSE @]
        /\ Accepted(Heartbeat(w)) => Inst(w) \in servers'
    BY <1>3 DEF HandleHeartbeat, WorkerHeartbeat, Heartbeat
  <2>2. CASE v # w
    <3>1. call'[v] = call[v] /\ knownIn'[v] = knownIn[v]
      BY <1>1, <2>1, <2>2 DEF TypeOK
    <3> QED BY <1>1, <2>1, <3>1, KnownKept
  <2>3. CASE v = w /\ Accepted(Heartbeat(w))
    <3>1. knownIn'[v] = epoch' /\ Inst(v)' \in servers'
      BY <1>1, <2>1, <2>3 DEF TypeOK, Inst
    <3>2. epoch' <= epoch'
      BY <1>1, <2>1, HeartbeatAssumption DEF TypeOK
    <3> QED BY <3>1, <3>2 DEF KnownInv
  <2>4. CASE v = w /\ ~Accepted(Heartbeat(w))
    <3>1. call'[v] # "ok" /\ knownIn'[v] = knownIn[v]
      BY <1>1, <2>1, <2>4 DEF TypeOK
    <3> QED BY <1>1, <2>1, <3>1, KnownKept
  <2> QED BY <2>2, <2>3, <2>4
<1>4. ASSUME \/ \E h \in late : HandleLate(h)
             \/ \E inst \in recent : FallsSilent(inst)
             \/ UNCHANGED vars
      PROVE  KnownInv(v)'
  <2>1. /\ servers \subseteq servers'
        /\ UNCHANGED <<master, epoch, starts, at, needsRegister, call, knownIn>>
    BY <1>4 DEF HandleLate, WorkerHeartbeat, FallsSilent, workerVars, masterVars, vars
  <2> QED BY <1>1, <2>1, KnownKept
<1>5. CASE MasterCrashes
  BY <1>1, <1>5 DEF MasterCrashes, KnownInv
<1>6. CASE MasterStarts
  <2>1. epoch' = epoch + 1 /\ knownIn' = knownIn /\ epoch \in Nat /\ knownIn[v] \in Nat
    BY <1>1, <1>6, HeartbeatAssumption DEF TypeOK, MasterStarts
  <2>2. knownIn'[v] <= epoch' /\ knownIn'[v] # epoch'
    BY <1>1, <2>1 DEF KnownInv
  <2> QED BY <2>2 DEF KnownInv
<1> QED BY <1>2, <1>3, <1>4, <1>5, <1>6 DEF Next

-----------------------------------------------------------------------------

LEMMA InitIInv == Init => IInv
<1> SUFFICES ASSUME Init PROVE IInv
  OBVIOUS
<1>1. \A w \in Workers : KnownInv(w)
  BY DEF Init, KnownInv
<1> QED BY <1>1, InitStepInv DEF IInv

LEMMA Inductive == IInv /\ [Next]_vars => IInv'
<1> SUFFICES ASSUME IInv, [Next]_vars PROVE IInv'
  OBVIOUS
<1>1. StepInv'
  BY StepInductive DEF IInv
<1> QED BY <1>1, KnownPreserves DEF IInv

\* Every reachable state satisfies IInv.
LEMMA Invariance == Spec => []IInv
BY InitIInv, Inductive, PTL DEF Spec

\* The variables keep their types; an instance the master has heard of recently
\* is one it has in its map.
THEOREM TypeCorrect == Spec => []TypeOK
<1>1. IInv => TypeOK
  BY DEF IInv, StepInv
<1> QED BY <1>1, Invariance, PTL

\* Whatever failures, answers and restarts a worker meets, it never begins more
\* than heartbeat_max_failures_before_backoff heartbeats without a wait.
THEOREM HurryEnds == Spec => []HurriedIsBounded
<1>1. IInv => HurriedIsBounded
  BY DEF IInv, StepInv, WorkerInv, HurriedIsBounded
<1> QED BY <1>1, Invariance, PTL

\* The master asks a worker for a registration only if it has not accepted one of
\* its heartbeats since it was started, whatever is lost or late in between.
THEOREM AskedOncePerMaster == Spec => RegistersOncePerMaster
<1>1. IInv /\ [Next]_vars =>
        [\A w \in Workers :
           call'[w] = "needs_register" /\ call[w] # "needs_register" /\ ~needsRegister[w]
             => knownIn[w] # epoch]_vars
  <2> SUFFICES ASSUME IInv, Next, NEW w \in Workers, call'[w] = "needs_register",
                      call[w] # "needs_register", ~needsRegister[w]
               PROVE  knownIn[w] # epoch
    OBVIOUS
  <2>1. TypeOK /\ KnownInv(w) /\ WorkerInv(w)
    BY DEF IInv, StepInv
  <2>2. HandleHeartbeat(w)
    <3>1. ASSUME NEW v \in Workers,
                 Start(v) \/ Stop(v) \/ Crash(v) \/ ThreadStep(v) \/ Pinged(v)
          PROVE  FALSE
      BY <2>1, <3>1 DEF TypeOK, Start, Stop, Crash, ThreadStep, ThreadExits, BeginHeartbeat,
         CallEnds, Answered, HeartbeatFails, Pinged
    <3>2. ASSUME NEW v \in Workers, HandleHeartbeat(v) PROVE v = w
      BY <2>1, <3>2 DEF TypeOK, HandleHeartbeat
    <3>3. ~ ((\E h \in late : HandleLate(h)) \/ (\E inst \in recent : FallsSilent(inst))
             \/ MasterStarts)
      BY DEF HandleLate, FallsSilent, MasterStarts, workerVars
    <3>4. ~ MasterCrashes
      BY DEF MasterCrashes
    <3> QED BY <3>1, <3>2, <3>3, <3>4 DEF Next
  <2>3. master = "up" /\ ~Accepted(Heartbeat(w)) /\ at[w] = "calling"
    BY <2>1, <2>2 DEF TypeOK, HandleHeartbeat, WorkerHeartbeat, WorkerInv
  <2>4. Inst(w) \notin servers
    BY <2>3 DEF Accepted, Found, Heartbeat
  <2> QED BY <2>1, <2>3, <2>4 DEF KnownInv
<1> QED BY <1>1, Invariance, PTL DEF Spec, RegistersOncePerMaster
=============================================================================
