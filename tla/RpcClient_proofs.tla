---------------------------- MODULE RpcClient_proofs ----------------------------
(***************************************************************************)
(* Theorems about RpcClient, for any finite set of calls with any timeouts *)
(* and any number of connections.                                          *)
(***************************************************************************)
EXTENDS RpcClient, SequenceTheorems, FiniteSetTheorems, TLAPS

CallsInv == TypeOK /\ CallbackOnce /\ StatesFollowOwners /\ TimersFollowCalls

QueueInv == TransfersHaveCars /\ WriteInterestFollowsQueue

ReactorInv == TasksAreUnique /\ OneNegotiation /\ ShutdownIsInOrder

IInv == CallsInv /\ QueueInv /\ ReactorInv

-----------------------------------------------------------------------------
(* Facts about the queue of tasks.                                         *)

LEMMA AlikeFacts ==
  /\ \A c, d \in Calls : Alike(AssignTask(c), AssignTask(d)) <=> c = d
  /\ \A ok, other \in BOOLEAN : Alike(NegotiatedTask(ok), NegotiatedTask(other))
  /\ \A c \in Calls, ok \in BOOLEAN : /\ ~Alike(AssignTask(c), NegotiatedTask(ok))
                                      /\ ~Alike(NegotiatedTask(ok), AssignTask(c))
BY DEF Alike, AssignTask, NegotiatedTask

LEMMA EmptyHasNone == EachOnce(<<>>) /\ \A t : ~HasTask(<<>>, t)
BY DEF EachOnce, HasTask

LEMMA AppendHas ==
  ASSUME NEW s \in Seq(Tasks), NEW t \in Tasks
  PROVE  /\ Append(s, t) \in Seq(Tasks)
         /\ \A u : HasTask(Append(s, t), u) <=> HasTask(s, u) \/ Alike(t, u)
         /\ EachOnce(s) /\ ~HasTask(s, t) => EachOnce(Append(s, t))
<1> DEFINE a == Append(s, t)
<1>1. /\ a \in Seq(Tasks) /\ Len(a) = Len(s) + 1 /\ a[Len(s) + 1] = t
      /\ DOMAIN a = 1 .. Len(s) + 1 /\ DOMAIN s = 1 .. Len(s) /\ Len(s) \in Nat
      /\ \A i \in 1 .. Len(s) : a[i] = s[i]
  OBVIOUS
<1>2. ASSUME NEW u PROVE HasTask(a, u) <=> HasTask(s, u) \/ Alike(t, u)
  <2>1. HasTask(s, u) => HasTask(a, u)
    BY <1>1 DEF HasTask
  <2>2. Alike(t, u) => HasTask(a, u)
    BY <1>1 DEF HasTask
  <2>3. ASSUME NEW i \in DOMAIN a, Alike(a[i], u), ~Alike(t, u) PROVE HasTask(s, u)
    <3>1. i \in 1 .. Len(s)
      BY <1>1, <2>3
    <3> QED BY <1>1, <2>3, <3>1 DEF HasTask
  <2> QED BY <2>1, <2>2, <2>3 DEF HasTask
<1>3. ASSUME EachOnce(s), ~HasTask(s, t), NEW i \in DOMAIN a, NEW j \in DOMAIN a, Alike(a[i], a[j])
      PROVE  i = j
  <2>1. CASE i \in 1 .. Len(s) /\ j \in 1 .. Len(s)
    BY <1>1, <1>3, <2>1 DEF EachOnce
  <2>2. CASE i = Len(s) + 1 /\ j \in 1 .. Len(s)
    BY <1>1, <1>3, <2>2 DEF HasTask, Alike
  <2>3. CASE i \in 1 .. Len(s) /\ j = Len(s) + 1
    BY <1>1, <1>3, <2>3 DEF HasTask
  <2> QED BY <1>1, <1>3, <2>1, <2>2, <2>3
<1> QED BY <1>1, <1>2, <1>3 DEF EachOnce

LEMMA TailHas ==
  ASSUME NEW s \in Seq(Tasks), s # <<>>
  PROVE  /\ Tail(s) \in Seq(Tasks) /\ Head(s) \in Tasks /\ HasTask(s, Head(s))
         /\ \A u : HasTask(s, u) <=> HasTask(Tail(s), u) \/ Alike(Head(s), u)
         /\ EachOnce(s) => /\ EachOnce(Tail(s))
                           /\ \A u : HasTask(Tail(s), u) => ~Alike(Head(s), u)
<1> DEFINE r == Tail(s)
<1>1. /\ r \in Seq(Tasks) /\ Len(r) = Len(s) - 1 /\ Len(s) \in Nat \ {0}
      /\ DOMAIN r = 1 .. Len(s) - 1 /\ DOMAIN s = 1 .. Len(s)
      /\ Head(s) = s[1] /\ s[1] \in Tasks
      /\ \A i \in 1 .. Len(s) - 1 : r[i] = s[i + 1]
  OBVIOUS
<1>2. HasTask(s, Head(s))
  BY <1>1 DEF HasTask, Alike
<1>3. ASSUME NEW u PROVE HasTask(s, u) <=> HasTask(r, u) \/ Alike(Head(s), u)
  <2>1. HasTask(r, u) => HasTask(s, u)
    <3>1. ASSUME NEW i \in DOMAIN r, Alike(r[i], u) PROVE HasTask(s, u)
      <4>1. i + 1 \in DOMAIN s /\ Alike(s[i + 1], u)
        BY <1>1, <3>1
      <4> QED BY <4>1 DEF HasTask
    <3> QED BY <3>1 DEF HasTask
  <2>2. Alike(Head(s), u) => HasTask(s, u)
    BY <1>1 DEF HasTask
  <2>3. ASSUME NEW i \in DOMAIN s, Alike(s[i], u), ~Alike(Head(s), u) PROVE HasTask(r, u)
    <3>1. i # 1
      BY <1>1, <2>3
    <3>2. i - 1 \in DOMAIN r /\ r[i - 1] = s[i]
      BY <1>1, <3>1
    <3> QED BY <2>3, <3>2 DEF HasTask
  <2> QED BY <2>1, <2>2, <2>3 DEF HasTask
<1>4. ASSUME EachOnce(s) PROVE EachOnce(r)
  <2> SUFFICES ASSUME NEW i \in DOMAIN r, NEW j \in DOMAIN r, Alike(r[i], r[j]) PROVE i = j
    BY DEF EachOnce
  <2>1. i + 1 \in DOMAIN s /\ j + 1 \in DOMAIN s /\ Alike(s[i + 1], s[j + 1])
    BY <1>1
  <2>2. i + 1 = j + 1
    BY <1>4, <2>1 DEF EachOnce
  <2> QED BY <1>1, <2>2
<1>5. ASSUME EachOnce(s), NEW u, HasTask(r, u), Alike(Head(s), u) PROVE FALSE
  <2>1. PICK i \in DOMAIN r : Alike(r[i], u)
    BY <1>5 DEF HasTask
  <2>2. i + 1 \in DOMAIN s /\ Alike(s[1], s[i + 1]) /\ 1 \in DOMAIN s
    BY <1>1, <1>5, <2>1 DEF Alike
  <2>3. 1 = i + 1
    BY <1>5, <2>2 DEF EachOnce
  <2> QED BY <1>1, <2>3
<1> QED BY <1>1, <1>2, <1>3, <1>4, <1>5

LEMMA TaskCases ==
  ASSUME NEW t \in Tasks
  PROVE  /\ t.kind = "assign" => t.call \in Calls /\ t = AssignTask(t.call)
         /\ t.kind # "assign" => \E ok \in BOOLEAN : t = NegotiatedTask(ok)
BY DEF Tasks, AssignTask, NegotiatedTask

-----------------------------------------------------------------------------
(* Facts about calls.                                                      *)

LEMMA InvGivesParts ==
  ASSUME IInv
  PROVE  /\ TypeOK /\ CallbackOnce /\ StatesFollowOwners /\ TimersFollowCalls
         /\ TransfersHaveCars /\ WriteInterestFollowsQueue
         /\ TasksAreUnique /\ OneNegotiation /\ ShutdownIsInOrder
BY DEF IInv, CallsInv, QueueInv, ReactorInv

LEMMA FinishEffect ==
  ASSUME TypeOK, CallbackOnce, NEW cs, NEW s \in FinishedStates, Finish(cs, s),
         \A c \in cs : c \in Calls /\ ~IsFinished(c)
  PROVE  /\ state' \in [Calls -> States] /\ callbacks' \in [Calls -> Nat] /\ CallbackOnce'
         /\ \A c \in Calls : state'[c] = IF c \in cs THEN s ELSE state[c]
<1>1. /\ state' = [c \in Calls |-> IF c \in cs THEN s ELSE state[c]]
      /\ callbacks' = [c \in Calls |-> callbacks[c] + IF c \in cs THEN 1 ELSE 0]
  BY DEF Finish
<1>2. \A c \in Calls : callbacks[c] \in Nat /\ state[c] \in States
  BY DEF TypeOK
<1>3. state' \in [Calls -> States] /\ callbacks' \in [Calls -> Nat]
  <2>1. s \in States
    BY DEF States
  <2>2. state' \in [Calls -> States]
    BY <1>1, <1>2, <2>1
  <2>3. \A c \in Calls : callbacks[c] + (IF c \in cs THEN 1 ELSE 0) \in Nat
    BY <1>2
  <2> QED BY <1>1, <2>2, <2>3
<1>4. ASSUME NEW c \in Calls PROVE callbacks'[c] = IF IsFinished(c)' THEN 1 ELSE 0
  <2>1. CASE c \in cs
    <3>1. callbacks[c] = 0
      BY <2>1 DEF CallbackOnce
    <3> QED BY <1>1, <2>1, <3>1 DEF IsFinished
  <2>2. CASE c \notin cs
    BY <1>1, <1>2, <2>2 DEF CallbackOnce, IsFinished
  <2> QED BY <2>1, <2>2
<1> QED BY <1>1, <1>3, <1>4 DEF CallbackOnce

\* A step that moves one call on, to a state that is not final.
LEMMA MoveEffect ==
  ASSUME TypeOK, CallbackOnce, NEW c \in Calls, NEW s \in States \ FinishedStates, ~IsFinished(c),
         state' = [state EXCEPT ![c] = s], callbacks' = callbacks
  PROVE  /\ state' \in [Calls -> States] /\ callbacks' \in [Calls -> Nat] /\ CallbackOnce'
         /\ state'[c] = s /\ \A d \in Calls : d # c => state'[d] = state[d]
BY DEF TypeOK, CallbackOnce, IsFinished, States

\* A step that leaves the tasks alone and takes no call from a state in which a
\* task has it, or back to one.
LEMMA TasksUntouched ==
  ASSUME TasksAreUnique, UNCHANGED <<pending, batch>>
  PROVE  TasksAreUnique'
BY DEF TasksAreUnique

LEMMA LiveIsNotFinished ==
  ASSUME StatesFollowOwners, NEW c \in Calls, Live(c)
  PROVE  state[c] \in {"ON_OUTBOUND_QUEUE", "SENT"} /\ ~IsFinished(c)
BY DEF StatesFollowOwners, IsFinished, FinishedStates

\* What ShutdownConnection does, whoever calls it.
LEMMA ShutdownConnectionEffect ==
  ASSUME IInv, ShutdownConnection
  PROVE  /\ state' \in [Calls -> States] /\ callbacks' \in [Calls -> Nat] /\ CallbackOnce'
         /\ car' = [c \in Calls |-> None] /\ car' \in [Calls -> Cars] /\ \A c \in Calls : ~Live(c)'
         /\ outq' = <<>> /\ outq' \in Seq(Transfers) /\ wire' = {} /\ writing' = FALSE
         /\ conn' = "none" /\ opened' = opened
         /\ \A c \in Calls : /\ state'[c] = "READY" <=> state[c] = "READY"
                             /\ state'[c] \notin {"ON_OUTBOUND_QUEUE", "SENT"}
         /\ TransfersHaveCars' /\ WriteInterestFollowsQueue' /\ TimersFollowCalls'
<1>1. TypeOK /\ CallbackOnce /\ StatesFollowOwners
  BY InvGivesParts
<1>2. /\ Finish(FailedByShutdown, "FINISHED_ERROR") /\ car' = [c \in Calls |-> None]
      /\ outq' = <<>> /\ wire' = {} /\ writing' = FALSE /\ conn' = "none" /\ opened' = opened
  BY DEF ShutdownConnection
<1>3. \A c \in FailedByShutdown : c \in Calls /\ ~IsFinished(c)
  BY <1>1, LiveIsNotFinished DEF FailedByShutdown
<1>4. /\ state' \in [Calls -> States] /\ callbacks' \in [Calls -> Nat] /\ CallbackOnce'
      /\ \A c \in Calls : state'[c] = IF c \in FailedByShutdown THEN "FINISHED_ERROR" ELSE state[c]
  <2>1. "FINISHED_ERROR" \in FinishedStates
    BY DEF FinishedStates
  <2> QED BY <1>1, <1>2, <1>3, <2>1, FinishEffect
<1>5. /\ \A c \in Calls : car'[c] = None
      /\ car' \in [Calls -> Cars] /\ None.held = FALSE
  BY <1>2 DEF None, Cars
<1>6. \A c \in Calls : /\ state'[c] = "READY" <=> state[c] = "READY"
                       /\ state'[c] \notin {"ON_OUTBOUND_QUEUE", "SENT"}
  BY <1>1, <1>4 DEF StatesFollowOwners, FailedByShutdown
<1>7. \A c \in Calls : ~Live(c)'
  BY <1>5 DEF Live
<1>8. TransfersHaveCars' /\ WriteInterestFollowsQueue' /\ TimersFollowCalls'
  BY <1>2, <1>5 DEF TransfersHaveCars, WriteInterestFollowsQueue, TimersFollowCalls
<1>9. outq' \in Seq(Transfers)
  BY <1>2
<1> QED BY <1>2, <1>4, <1>5, <1>6, <1>7, <1>8, <1>9

-----------------------------------------------------------------------------

LEMMA InitIInv == Init => IInv
<1> SUFFICES ASSUME Init PROVE IInv
  OBVIOUS
<1>1. \A c \in Calls : state[c] = "NEW" /\ callbacks[c] = 0 /\ car[c] = None /\ ~Live(c)
  BY DEF Init, Live, None
<1>2. TypeOK
  <2>1. 0 \in 0 .. MaxConnections /\ "NEW" \in States /\ None \in Cars
    BY CallsAssumption DEF States, Cars
  <2>2. <<>> \in Seq(Transfers) /\ <<>> \in Seq(Tasks)
    OBVIOUS
  <2>3. /\ state \in [Calls -> States] /\ callbacks \in [Calls -> Nat]
        /\ car \in [Calls -> Cars]
    BY <2>1 DEF Init
  <2> QED BY <2>1, <2>2, <2>3 DEF Init, TypeOK
<1>3. CallbackOnce /\ StatesFollowOwners /\ TimersFollowCalls
  BY <1>1, EmptyHasNone DEF Init, CallbackOnce, IsFinished, FinishedStates, StatesFollowOwners,
     TimersFollowCalls, None
<1>4. TransfersHaveCars /\ WriteInterestFollowsQueue
  BY DEF Init, TransfersHaveCars, WriteInterestFollowsQueue
<1>5. TasksAreUnique /\ OneNegotiation /\ ShutdownIsInOrder
  BY EmptyHasNone DEF Init, TasksAreUnique, OneNegotiation, ShutdownIsInOrder, closing
<1> QED BY <1>2, <1>3, <1>4, <1>5 DEF IInv, CallsInv, QueueInv, ReactorInv

-----------------------------------------------------------------------------
(* User threads and negotiation threads.                                   *)

\* What depends on the tasks and on the reactor's progress is as it was.
LEMMA QueueKept ==
  ASSUME QueueInv, UNCHANGED <<outq, car, conn, writing, wire>>,
         \A c \in Calls : state[c] \notin {"NEW", "READY"} => state'[c] \notin {"NEW", "READY"},
         outq \in Seq(Transfers), wire \subseteq Calls
  PROVE  QueueInv'
<1>1. \A i \in DOMAIN outq : outq[i].call \in Calls
  <2>1. \A i \in DOMAIN outq : outq[i] \in Transfers
    OBVIOUS
  <2> QED BY <2>1 DEF Transfers
<1> QED BY <1>1 DEF QueueInv, TransfersHaveCars, WriteInterestFollowsQueue

LEMMA RequestPreserves ==
  ASSUME IInv, NEW c \in Calls, AsyncRequest(c)
  PROVE  IInv'
<1>1. /\ TypeOK /\ CallbackOnce /\ StatesFollowOwners /\ TimersFollowCalls
      /\ TasksAreUnique /\ OneNegotiation /\ ShutdownIsInOrder /\ QueueInv
  BY InvGivesParts DEF IInv
<1>2. /\ state[c] = "NEW" /\ ~IsFinished(c) /\ ~Live(c)
      /\ UNCHANGED <<car, conn, opened, outq, writing, wire, negotiation, batch, phase, thread>>
  BY <1>1 DEF AsyncRequest, connVars, IsFinished, FinishedStates, StatesFollowOwners
<1>3. TimersFollowCalls'
  BY <1>1, <1>2 DEF TimersFollowCalls
<1>4. CASE Accepts /\ Schedule(AssignTask(c)) /\ state' = [state EXCEPT ![c] = "READY"]
           /\ callbacks' = callbacks
  <2>1. /\ state' \in [Calls -> States] /\ callbacks' \in [Calls -> Nat] /\ CallbackOnce'
        /\ state'[c] = "READY" /\ \A d \in Calls : d # c => state'[d] = state[d]
    <3>1. "READY" \in States \ FinishedStates
      BY DEF States, FinishedStates
    <3> QED BY <1>1, <1>2, <1>4, <3>1, MoveEffect
  <2>2. /\ pending' = Append(pending, AssignTask(c)) /\ wake' = TRUE
        /\ AssignTask(c) \in Tasks /\ pending \in Seq(Tasks)
    BY <1>1, <1>4 DEF Schedule, Tasks, TypeOK
  <2>3. /\ pending' \in Seq(Tasks)
        /\ \A u : HasTask(pending', u) <=> HasTask(pending, u) \/ Alike(AssignTask(c), u)
        /\ EachOnce(pending) /\ ~HasTask(pending, AssignTask(c)) => EachOnce(pending')
    BY <2>2, AppendHas
  <2>4. ~HasTask(pending, AssignTask(c)) /\ ~HasTask(batch, AssignTask(c))
    BY <1>1, <1>2 DEF StatesFollowOwners
  <2>5. \A t \in Tasks : ~(Alike(AssignTask(c), t) /\ HasTask(batch, t))
    BY <2>4 DEF HasTask, Alike
  <2>6. TasksAreUnique'
    BY <1>1, <1>2, <2>3, <2>4, <2>5 DEF TasksAreUnique
  <2>7. StatesFollowOwners'
    <3>1. ASSUME NEW d \in Calls
          PROVE  /\ HasTask(pending', AssignTask(d)) <=> HasTask(pending, AssignTask(d)) \/ c = d
                 /\ HasTask(batch', AssignTask(d)) <=> HasTask(batch, AssignTask(d))
                 /\ Live(d)' <=> Live(d)
      BY <1>2, <2>3, AlikeFacts DEF Live
    <3> QED BY <1>1, <1>2, <2>1, <3>1 DEF StatesFollowOwners
  <2>8. TypeOK'
    BY <1>1, <1>2, <2>1, <2>2, <2>3 DEF TypeOK
  <2>9. HasTask(pending', Negotiated) <=> HasTask(pending, Negotiated)
    BY <2>3, AlikeFacts DEF Negotiated
  <2>10. OneNegotiation'
    BY <1>1, <1>2, <2>9 DEF OneNegotiation, Negotiated
  <2>11. ShutdownIsInOrder'
    BY <1>1, <1>2, <1>4 DEF ShutdownIsInOrder, Accepts, closing, Live
  <2>12. QueueInv'
    BY <1>1, <1>2, <2>1, QueueKept DEF TypeOK
  <2> QED BY <1>3, <2>1, <2>6, <2>7, <2>8, <2>10, <2>11, <2>12 DEF IInv, CallsInv, ReactorInv
<1>5. CASE ~Accepts /\ Finish({c}, "FINISHED_ERROR") /\ UNCHANGED <<pending, wake>>
  <2>1. /\ state' \in [Calls -> States] /\ callbacks' \in [Calls -> Nat] /\ CallbackOnce'
        /\ \A d \in Calls : state'[d] = IF d = c THEN "FINISHED_ERROR" ELSE state[d]
    <3>1. "FINISHED_ERROR" \in FinishedStates
      BY DEF FinishedStates
    <3> QED BY <1>1, <1>2, <1>5, <3>1, FinishEffect
  <2>2. TypeOK' /\ TasksAreUnique' /\ OneNegotiation' /\ ShutdownIsInOrder'
    BY <1>1, <1>2, <1>5, <2>1 DEF TypeOK, TasksAreUnique, OneNegotiation, ShutdownIsInOrder,
       closing, Live, Negotiated
  <2>3. StatesFollowOwners'
    BY <1>1, <1>2, <1>5, <2>1 DEF StatesFollowOwners, Live
  <2>4. QueueInv'
    BY <1>1, <1>2, <2>1, QueueKept DEF TypeOK
  <2> QED BY <1>3, <2>1, <2>2, <2>3, <2>4 DEF IInv, CallsInv, ReactorInv
<1> QED BY <1>4, <1>5 DEF AsyncRequest

\* The calls, their cars and transfers are left alone.
LEMMA CallsUntouched ==
  ASSUME IInv, UNCHANGED <<state, callbacks, car, conn, outq, writing, wire>>,
         \A c \in Calls :
           HasTask(pending', AssignTask(c)) \/ HasTask(batch', AssignTask(c)) <=>
             HasTask(pending, AssignTask(c)) \/ HasTask(batch, AssignTask(c))
  PROVE  CallbackOnce' /\ StatesFollowOwners' /\ TimersFollowCalls' /\ QueueInv'
<1>1. CallbackOnce /\ StatesFollowOwners /\ TimersFollowCalls /\ QueueInv
  BY DEF IInv, CallsInv
<1>2. CallbackOnce' /\ StatesFollowOwners' /\ TimersFollowCalls'
  BY <1>1 DEF CallbackOnce, IsFinished, StatesFollowOwners, TimersFollowCalls, Live
<1>3. QueueInv'
  BY <1>1 DEF QueueInv, TransfersHaveCars, WriteInterestFollowsQueue
<1> QED BY <1>2, <1>3

LEMMA NegotiatePreserves ==
  ASSUME IInv, Negotiate
  PROVE  IInv'
<1>1. /\ TypeOK /\ TasksAreUnique /\ OneNegotiation /\ ShutdownIsInOrder
  BY InvGivesParts
<1>2. CASE StartNegotiating
  <2>1. /\ negotiation = "queued" /\ negotiation' = "running"
        /\ UNCHANGED <<state, callbacks, car, conn, opened, outq, writing, wire,
                       pending, wake, batch, phase, thread>>
    BY <1>2 DEF StartNegotiating, taskVars
  <2>2. CallbackOnce' /\ StatesFollowOwners' /\ TimersFollowCalls' /\ QueueInv'
    BY <2>1, CallsUntouched
  <2>3. TypeOK' /\ TasksAreUnique' /\ OneNegotiation'
    BY <1>1, <2>1 DEF TypeOK, TasksAreUnique, OneNegotiation, Negotiated
  <2>4. ShutdownIsInOrder'
    BY <1>1, <2>1 DEF ShutdownIsInOrder, closing, Live
  <2> QED BY <2>2, <2>3, <2>4 DEF IInv, CallsInv, ReactorInv
<1>3. ASSUME NEW ok \in BOOLEAN, CompleteNegotiation(ok) PROVE IInv'
  <2>1. /\ negotiation = "running" /\ negotiation' = "none"
        /\ pending' = Append(pending, NegotiatedTask(ok)) /\ wake' = TRUE
        /\ UNCHANGED <<state, callbacks, car, conn, opened, outq, writing, wire,
                       batch, phase, thread>>
    BY <1>3 DEF CompleteNegotiation, Schedule
  <2>2. NegotiatedTask(ok) \in Tasks /\ pending \in Seq(Tasks)
    BY <1>1 DEF Tasks, TypeOK
  <2>3. /\ pending' \in Seq(Tasks)
        /\ \A u : HasTask(pending', u) <=> HasTask(pending, u) \/ Alike(NegotiatedTask(ok), u)
        /\ EachOnce(pending) /\ ~HasTask(pending, NegotiatedTask(ok)) => EachOnce(pending')
    BY <2>1, <2>2, AppendHas
  <2>4. ~HasTask(pending, NegotiatedTask(ok)) /\ ~HasTask(batch, NegotiatedTask(ok))
    BY <1>1, <2>1 DEF OneNegotiation, Negotiated, HasTask, Alike, NegotiatedTask
  <2>5. \A t \in Tasks : ~(Alike(NegotiatedTask(ok), t) /\ HasTask(batch, t))
    BY <2>4 DEF HasTask, Alike
  <2>6. TasksAreUnique'
    BY <1>1, <2>1, <2>3, <2>4, <2>5 DEF TasksAreUnique
  <2>7. \A c \in Calls : HasTask(pending', AssignTask(c)) <=> HasTask(pending, AssignTask(c))
    BY <2>3, AlikeFacts
  <2>8. CallbackOnce' /\ StatesFollowOwners' /\ TimersFollowCalls' /\ QueueInv'
    BY <2>1, <2>7, CallsUntouched
  <2>9. TypeOK'
    BY <1>1, <2>1, <2>3 DEF TypeOK
  <2>10. OneNegotiation' /\ ShutdownIsInOrder'
    BY <1>1, <2>1 DEF OneNegotiation, ShutdownIsInOrder, closing, Live
  <2> QED BY <2>6, <2>8, <2>9, <2>10 DEF IInv, CallsInv, ReactorInv
<1> QED BY <1>2, <1>3 DEF Negotiate

-----------------------------------------------------------------------------
(* The tasks of the reactor thread.                                        *)

LEMMA RunTaskEffect ==
  ASSUME IInv, NEW task \in Tasks, RunTask(task)
  PROVE  /\ batch' \in Seq(Tasks) /\ HasTask(batch, task) /\ ~HasTask(pending, task)
         /\ \A u : HasTask(batch', u) <=> HasTask(batch, u) /\ ~Alike(task, u)
         /\ UNCHANGED <<pending, wake, phase, thread>> /\ thread = "loop"
         /\ TasksAreUnique'
<1>1. TypeOK /\ TasksAreUnique /\ ShutdownIsInOrder /\ batch \in Seq(Tasks)
  BY InvGivesParts DEF TypeOK
<1>2. /\ batch # <<>> /\ Head(batch) = task /\ batch' = Tail(batch)
      /\ UNCHANGED <<pending, wake, phase, thread>>
  BY DEF RunTask
<1>3. /\ batch' \in Seq(Tasks) /\ HasTask(batch, task) /\ EachOnce(batch')
      /\ \A u : HasTask(batch, u) <=> HasTask(batch', u) \/ Alike(task, u)
      /\ \A u : HasTask(batch', u) => ~Alike(task, u)
  BY <1>1, <1>2, TailHas DEF TasksAreUnique
<1>4. ~HasTask(pending, task) /\ TasksAreUnique'
  BY <1>1, <1>2, <1>3 DEF TasksAreUnique
<1>5. thread = "loop"
  BY <1>1, <1>2 DEF TypeOK, ShutdownIsInOrder
<1> QED BY <1>2, <1>3, <1>4, <1>5

\* A call leaves its task.
LEMMA AssignTaskGone ==
  ASSUME IInv, NEW c \in Calls, RunTask(AssignTask(c))
  PROVE  /\ state[c] = "READY" /\ ~Live(c) /\ ~IsFinished(c)
         /\ \A d \in Calls :
              HasTask(pending', AssignTask(d)) \/ HasTask(batch', AssignTask(d)) <=>
                state[d] = "READY" /\ d # c
         /\ HasTask(pending', Negotiated) <=> HasTask(pending, Negotiated)
         /\ HasTask(batch', Negotiated) <=> HasTask(batch, Negotiated)
         /\ batch' \in Seq(Tasks) /\ TasksAreUnique'
         /\ UNCHANGED <<pending, wake, phase, thread>> /\ thread = "loop"
<1>1. StatesFollowOwners /\ AssignTask(c) \in Tasks
  BY InvGivesParts DEF Tasks
<1>2. /\ batch' \in Seq(Tasks) /\ HasTask(batch, AssignTask(c)) /\ ~HasTask(pending, AssignTask(c))
      /\ \A u : HasTask(batch', u) <=> HasTask(batch, u) /\ ~Alike(AssignTask(c), u)
      /\ UNCHANGED <<pending, wake, phase, thread>> /\ thread = "loop" /\ TasksAreUnique'
  BY <1>1, RunTaskEffect
<1>3. state[c] = "READY" /\ ~Live(c) /\ ~IsFinished(c)
  BY <1>1, <1>2 DEF StatesFollowOwners, IsFinished, FinishedStates
<1>4. ASSUME NEW d \in Calls
      PROVE  HasTask(pending', AssignTask(d)) \/ HasTask(batch', AssignTask(d)) <=>
               state[d] = "READY" /\ d # c
  <2>1. Alike(AssignTask(c), AssignTask(d)) <=> c = d
    BY AlikeFacts
  <2>2. HasTask(batch', AssignTask(d)) <=> HasTask(batch, AssignTask(d)) /\ d # c
    BY <1>2, <2>1
  <2>3. state[d] = "READY" <=> HasTask(pending, AssignTask(d)) \/ HasTask(batch, AssignTask(d))
    BY <1>1 DEF StatesFollowOwners
  <2>4. HasTask(pending', AssignTask(d)) <=> HasTask(pending, AssignTask(d))
    BY <1>2
  <2> QED BY <1>2, <2>2, <2>3, <2>4
<1>5. /\ HasTask(pending', Negotiated) <=> HasTask(pending, Negotiated)
      /\ HasTask(batch', Negotiated) <=> HasTask(batch, Negotiated)
  BY <1>2, AlikeFacts DEF Negotiated
<1> QED BY <1>2, <1>3, <1>4, <1>5

LEMMA QueueOutboundEffect ==
  ASSUME IInv, NEW c \in Calls, RunTask(AssignTask(c)), QueueOutboundCall(c),
         conn' = conn \/ conn' = "negotiating"
  PROVE  /\ state' \in [Calls -> States] /\ callbacks' \in [Calls -> Nat]
         /\ car' \in [Calls -> Cars] /\ outq' \in Seq(Transfers) /\ outq' # <<>>
         /\ writing' \in BOOLEAN /\ wire' = wire
         /\ CallbackOnce' /\ StatesFollowOwners' /\ TimersFollowCalls'
         /\ QueueInv'
<1>1. /\ TypeOK /\ CallbackOnce /\ StatesFollowOwners /\ TimersFollowCalls
      /\ TransfersHaveCars /\ WriteInterestFollowsQueue
  BY InvGivesParts
<1>2. /\ state[c] = "READY" /\ ~Live(c) /\ ~IsFinished(c)
      /\ \A d \in Calls :
           HasTask(pending', AssignTask(d)) \/ HasTask(batch', AssignTask(d)) <=>
             state[d] = "READY" /\ d # c
  BY AssignTaskGone
<1> DEFINE new == [call |-> c, started |-> FALSE]
<1>3. /\ state' = [state EXCEPT ![c] = "ON_OUTBOUND_QUEUE"]
      /\ car' = [car EXCEPT ![c] = NewCar(c)]
      /\ outq' = Append(outq, new) /\ writing' = (writing \/ conn = "open")
      /\ UNCHANGED <<callbacks, wire>>
  BY DEF QueueOutboundCall, WriteInterest
<1>4. /\ state' \in [Calls -> States] /\ callbacks' \in [Calls -> Nat] /\ CallbackOnce'
      /\ state'[c] = "ON_OUTBOUND_QUEUE" /\ \A d \in Calls : d # c => state'[d] = state[d]
  <2>1. "ON_OUTBOUND_QUEUE" \in States \ FinishedStates
    BY DEF States, FinishedStates
  <2> QED BY <1>1, <1>2, <1>3, <2>1, MoveEffect
<1>5. /\ NewCar(c) \in Cars /\ NewCar(c).held /\ NewCar(c).call
      /\ Timeout[c] = "none" => NewCar(c).timer = "off"
  BY DEF NewCar, Cars, Timers
<1>6. /\ car' \in [Calls -> Cars] /\ car'[c] = NewCar(c)
      /\ \A d \in Calls : d # c => car'[d] = car[d]
  BY <1>1, <1>3, <1>5 DEF TypeOK
<1>7. /\ Live(c)' /\ \A d \in Calls : d # c => (Live(d)' <=> Live(d))
  BY <1>5, <1>6 DEF Live
<1>8. StatesFollowOwners'
  BY <1>1, <1>2, <1>4, <1>7 DEF StatesFollowOwners
<1>9. TimersFollowCalls'
  BY <1>1, <1>5, <1>6 DEF TimersFollowCalls
<1>10. /\ outq \in Seq(Transfers) /\ outq' \in Seq(Transfers) /\ Len(outq) \in Nat
       /\ DOMAIN outq = 1 .. Len(outq) /\ DOMAIN outq' = 1 .. Len(outq) + 1
       /\ outq'[Len(outq) + 1] = new /\ outq' # <<>>
       /\ \A i \in 1 .. Len(outq) : outq'[i] = outq[i] /\ outq[i] \in Transfers
  <2>1. new \in Transfers /\ outq \in Seq(Transfers)
    BY <1>1 DEF Transfers, TypeOK
  <2> QED BY <1>3, <2>1
<1>11. \A i \in 1 .. Len(outq) : outq[i].call \in Calls /\ outq[i].call # c
  BY <1>1, <1>2, <1>10 DEF TransfersHaveCars, Transfers
<1>12. TransfersHaveCars'
  <2>1. ASSUME NEW i \in DOMAIN outq'
        PROVE  /\ car'[outq'[i].call].held
               /\ state'[outq'[i].call] \notin {"NEW", "READY"}
               /\ outq'[i].call \notin wire'
    <3>1. CASE i \in 1 .. Len(outq)
      BY <1>1, <1>3, <1>4, <1>6, <1>10, <1>11, <3>1 DEF TransfersHaveCars
    <3>2. CASE i = Len(outq) + 1
      BY <1>1, <1>2, <1>3, <1>4, <1>5, <1>6, <1>10, <3>2 DEF TransfersHaveCars
    <3> QED BY <1>10, <3>1, <3>2
  <2>2. ASSUME NEW i \in DOMAIN outq', NEW j \in DOMAIN outq', outq'[i].call = outq'[j].call
        PROVE  i = j
    <3>1. CASE i \in 1 .. Len(outq) /\ j \in 1 .. Len(outq)
      BY <1>1, <1>10, <2>2, <3>1 DEF TransfersHaveCars
    <3>2. CASE i = Len(outq) + 1 \/ j = Len(outq) + 1
      BY <1>10, <1>11, <2>2, <3>2
    <3> QED BY <1>10, <3>1, <3>2
  <2>3. ASSUME NEW d \in wire' PROVE state'[d] \notin {"NEW", "READY"}
    BY <1>1, <1>3, <1>4 DEF TransfersHaveCars, TypeOK
  <2> QED BY <2>1, <2>2, <2>3 DEF TransfersHaveCars
<1>13. WriteInterestFollowsQueue'
  BY <1>1, <1>3, <1>10 DEF WriteInterestFollowsQueue
<1>14. writing' \in BOOLEAN
  BY <1>1, <1>3 DEF TypeOK
<1> QED BY <1>3, <1>4, <1>6, <1>8, <1>9, <1>10, <1>12, <1>13, <1>14 DEF QueueInv

LEMMA AssignPreserves ==
  ASSUME IInv, NEW c \in Calls,
         AssignToConnection(c) \/ AssignToNewConnection(c) \/ AssignFails(c)
  PROVE  IInv'
<1>1. /\ TypeOK /\ CallbackOnce /\ StatesFollowOwners /\ TimersFollowCalls
      /\ OneNegotiation /\ ShutdownIsInOrder /\ QueueInv
  BY InvGivesParts DEF IInv
<1>2. RunTask(AssignTask(c))
  BY DEF AssignToConnection, AssignToNewConnection, AssignFails
<1>3. /\ state[c] = "READY" /\ ~Live(c) /\ ~IsFinished(c)
      /\ \A d \in Calls :
           HasTask(pending', AssignTask(d)) \/ HasTask(batch', AssignTask(d)) <=>
             state[d] = "READY" /\ d # c
      /\ HasTask(pending', Negotiated) <=> HasTask(pending, Negotiated)
      /\ HasTask(batch', Negotiated) <=> HasTask(batch, Negotiated)
      /\ batch' \in Seq(Tasks) /\ TasksAreUnique'
      /\ UNCHANGED <<pending, wake, phase, thread>> /\ thread = "loop"
  BY <1>2, AssignTaskGone
<1>4. CASE AssignToConnection(c) \/ AssignToNewConnection(c)
  <2>1. /\ QueueOutboundCall(c)
        /\ \/ conn # "none" /\ UNCHANGED <<conn, opened, negotiation>>
           \/ /\ conn = "none" /\ conn' = "negotiating" /\ negotiation' = "queued"
              /\ phase = "up" /\ opened < MaxConnections /\ opened' = opened + 1
    BY <1>4 DEF AssignToConnection, AssignToNewConnection
  <2>2. /\ state' \in [Calls -> States] /\ callbacks' \in [Calls -> Nat]
        /\ car' \in [Calls -> Cars] /\ outq' \in Seq(Transfers) /\ outq' # <<>>
        /\ writing' \in BOOLEAN /\ wire' = wire
        /\ CallbackOnce' /\ StatesFollowOwners' /\ TimersFollowCalls' /\ QueueInv'
    BY <1>2, <2>1, QueueOutboundEffect
  <2>3. /\ opened' \in 0 .. MaxConnections
        /\ conn' \in {"none", "negotiating", "open"}
        /\ negotiation' \in {"none", "queued", "running"}
    BY <1>1, <2>1, CallsAssumption DEF TypeOK
  <2>4. TypeOK'
    BY <1>1, <1>3, <2>2, <2>3 DEF TypeOK
  <2>5. OneNegotiation'
    BY <1>1, <1>3, <2>1, <2>2 DEF OneNegotiation, Negotiated
  <2>6. ShutdownIsInOrder'
    BY <1>1, <1>3, <2>1 DEF ShutdownIsInOrder, closing
  <2> QED BY <1>3, <2>2, <2>4, <2>5, <2>6 DEF IInv, CallsInv, ReactorInv
<1>5. CASE AssignFails(c)
  <2>1. /\ Finish({c}, "FINISHED_ERROR")
        /\ UNCHANGED <<car, conn, opened, outq, writing, wire, negotiation>>
    BY <1>5 DEF AssignFails, connVars
  <2>2. /\ state' \in [Calls -> States] /\ callbacks' \in [Calls -> Nat] /\ CallbackOnce'
        /\ \A d \in Calls : state'[d] = IF d = c THEN "FINISHED_ERROR" ELSE state[d]
    <3>1. "FINISHED_ERROR" \in FinishedStates
      BY DEF FinishedStates
    <3> QED BY <1>1, <1>3, <2>1, <3>1, FinishEffect
  <2>3. TypeOK' /\ TimersFollowCalls'
    BY <1>1, <1>3, <2>1, <2>2 DEF TypeOK, TimersFollowCalls
  <2>4. StatesFollowOwners'
    <3>1. \A d \in Calls : Live(d)' <=> Live(d)
      BY <2>1 DEF Live
    <3> QED BY <1>1, <1>3, <2>2, <3>1 DEF StatesFollowOwners
  <2>5. OneNegotiation' /\ ShutdownIsInOrder'
    BY <1>1, <1>3, <2>1 DEF OneNegotiation, ShutdownIsInOrder, Negotiated, closing
  <2>6. QueueInv'
    BY <1>1, <2>1, <2>2, QueueKept DEF TypeOK
  <2> QED BY <1>3, <2>2, <2>3, <2>4, <2>5, <2>6 DEF IInv, CallsInv, ReactorInv
<1> QED BY <1>4, <1>5

\* The result of a negotiation leaves its task, the last of them.
LEMMA NegotiatedTaskGone ==
  ASSUME IInv, NEW ok \in BOOLEAN, RunTask(NegotiatedTask(ok))
  PROVE  /\ conn = "negotiating" /\ outq # <<>> /\ negotiation = "none"
         /\ ~HasTask(pending', Negotiated) /\ ~HasTask(batch', Negotiated)
         /\ \A c \in Calls :
              HasTask(pending', AssignTask(c)) \/ HasTask(batch', AssignTask(c)) <=>
                state[c] = "READY"
         /\ batch' \in Seq(Tasks) /\ TasksAreUnique'
         /\ UNCHANGED <<pending, wake, phase, thread>> /\ thread = "loop"
<1>1. StatesFollowOwners /\ OneNegotiation /\ NegotiatedTask(ok) \in Tasks
  BY InvGivesParts DEF Tasks
<1>2. /\ batch' \in Seq(Tasks) /\ HasTask(batch, NegotiatedTask(ok))
      /\ ~HasTask(pending, NegotiatedTask(ok))
      /\ \A u : HasTask(batch', u) <=> HasTask(batch, u) /\ ~Alike(NegotiatedTask(ok), u)
      /\ UNCHANGED <<pending, wake, phase, thread>> /\ thread = "loop" /\ TasksAreUnique'
  BY <1>1, RunTaskEffect
<1>3. \A s : HasTask(s, NegotiatedTask(ok)) <=> HasTask(s, Negotiated)
  BY DEF HasTask, Alike, NegotiatedTask, Negotiated
<1>4. ~HasTask(pending', Negotiated) /\ ~HasTask(batch', Negotiated) /\ HasTask(batch, Negotiated)
  BY <1>2, <1>3, AlikeFacts DEF Negotiated
<1>5. conn = "negotiating" /\ outq # <<>> /\ negotiation = "none"
  BY <1>1, <1>2, <1>4 DEF OneNegotiation
<1>6. ASSUME NEW c \in Calls
      PROVE  HasTask(pending', AssignTask(c)) \/ HasTask(batch', AssignTask(c)) <=>
               state[c] = "READY"
  <2>1. HasTask(batch', AssignTask(c)) <=> HasTask(batch, AssignTask(c))
    BY <1>2, AlikeFacts
  <2>2. HasTask(pending', AssignTask(c)) <=> HasTask(pending, AssignTask(c))
    BY <1>2
  <2> QED BY <1>1, <2>1, <2>2 DEF StatesFollowOwners
<1> QED BY <1>2, <1>4, <1>5, <1>6

LEMMA NegotiatedPreserves ==
  ASSUME IInv, NegotiationSucceeded \/ NegotiationFailed
  PROVE  IInv'
<1>1. /\ TypeOK /\ CallbackOnce /\ StatesFollowOwners /\ TimersFollowCalls
      /\ TransfersHaveCars /\ ShutdownIsInOrder
  BY InvGivesParts
<1>2. PICK ok \in BOOLEAN : RunTask(NegotiatedTask(ok))
  BY DEF NegotiationSucceeded, NegotiationFailed
<1>3. /\ conn = "negotiating" /\ outq # <<>> /\ negotiation = "none"
      /\ ~HasTask(pending', Negotiated) /\ ~HasTask(batch', Negotiated)
      /\ \A c \in Calls :
           HasTask(pending', AssignTask(c)) \/ HasTask(batch', AssignTask(c)) <=>
             state[c] = "READY"
      /\ batch' \in Seq(Tasks) /\ TasksAreUnique'
      /\ UNCHANGED <<pending, wake, phase, thread>> /\ thread = "loop"
  BY <1>2, NegotiatedTaskGone
<1>4. CASE NegotiationSucceeded
  <2>1. /\ conn' = "open" /\ writing' = TRUE
        /\ UNCHANGED <<state, callbacks, car, opened, outq, wire, negotiation>>
    BY <1>4 DEF NegotiationSucceeded
  <2>2. TypeOK' /\ CallbackOnce' /\ TimersFollowCalls' /\ TransfersHaveCars'
    BY <1>1, <1>3, <2>1 DEF TypeOK, CallbackOnce, IsFinished, TimersFollowCalls, TransfersHaveCars
  <2>3. StatesFollowOwners'
    BY <1>1, <1>3, <2>1 DEF StatesFollowOwners, Live
  <2>4. WriteInterestFollowsQueue'
    BY <1>3, <2>1 DEF WriteInterestFollowsQueue
  <2>5. OneNegotiation' /\ ShutdownIsInOrder'
    BY <1>1, <1>3, <2>1 DEF OneNegotiation, ShutdownIsInOrder, Negotiated, closing
  <2> QED BY <1>3, <2>2, <2>3, <2>4, <2>5 DEF IInv, CallsInv, QueueInv, ReactorInv
<1>5. CASE NegotiationFailed
  <2>1. ShutdownConnection /\ UNCHANGED negotiation
    BY <1>5 DEF NegotiationFailed
  <2>2. /\ state' \in [Calls -> States] /\ callbacks' \in [Calls -> Nat] /\ CallbackOnce'
        /\ car' \in [Calls -> Cars] /\ \A c \in Calls : ~Live(c)'
        /\ outq' = <<>> /\ outq' \in Seq(Transfers) /\ wire' = {} /\ writing' = FALSE
        /\ conn' = "none" /\ opened' = opened
        /\ \A c \in Calls : /\ state'[c] = "READY" <=> state[c] = "READY"
                            /\ state'[c] \notin {"ON_OUTBOUND_QUEUE", "SENT"}
        /\ TransfersHaveCars' /\ WriteInterestFollowsQueue' /\ TimersFollowCalls'
    BY <2>1, ShutdownConnectionEffect
  <2>3. TypeOK'
    BY <1>1, <1>3, <2>1, <2>2 DEF TypeOK
  <2>4. StatesFollowOwners'
    BY <1>3, <2>2 DEF StatesFollowOwners
  <2>5. OneNegotiation' /\ ShutdownIsInOrder'
    BY <1>1, <1>3, <2>1, <2>2 DEF OneNegotiation, ShutdownIsInOrder, Negotiated, closing
  <2> QED BY <1>3, <2>2, <2>3, <2>4, <2>5 DEF IInv, CallsInv, QueueInv, ReactorInv
<1> QED BY <1>4, <1>5

LEMMA SocketErrorPreserves ==
  ASSUME IInv, SocketError
  PROVE  IInv'
<1>1. /\ TypeOK /\ StatesFollowOwners /\ OneNegotiation /\ ShutdownIsInOrder /\ TasksAreUnique
  BY InvGivesParts
<1>2. /\ ShutdownConnection /\ conn = "open" /\ thread = "loop"
      /\ UNCHANGED <<pending, wake, batch, phase, thread, negotiation>>
  BY DEF SocketError, AtLoop, taskVars
<1>3. /\ state' \in [Calls -> States] /\ callbacks' \in [Calls -> Nat] /\ CallbackOnce'
      /\ car' \in [Calls -> Cars] /\ \A c \in Calls : ~Live(c)'
      /\ outq' = <<>> /\ outq' \in Seq(Transfers) /\ wire' = {} /\ writing' = FALSE
      /\ conn' = "none" /\ opened' = opened
      /\ \A c \in Calls : /\ state'[c] = "READY" <=> state[c] = "READY"
                          /\ state'[c] \notin {"ON_OUTBOUND_QUEUE", "SENT"}
      /\ TransfersHaveCars' /\ WriteInterestFollowsQueue' /\ TimersFollowCalls'
  BY <1>2, ShutdownConnectionEffect
<1>4. TypeOK'
  BY <1>1, <1>2, <1>3 DEF TypeOK
<1>5. StatesFollowOwners' /\ TasksAreUnique'
  BY <1>1, <1>2, <1>3 DEF StatesFollowOwners, TasksAreUnique
<1>6. OneNegotiation' /\ ShutdownIsInOrder'
  BY <1>1, <1>2, <1>3 DEF OneNegotiation, ShutdownIsInOrder, Negotiated, closing
<1> QED BY <1>3, <1>4, <1>5, <1>6 DEF IInv, CallsInv, QueueInv, ReactorInv

LEMMA AsyncHandlerPreserves ==
  ASSUME IInv, AsyncHandler
  PROVE  IInv'
<1>1. /\ TypeOK /\ StatesFollowOwners /\ OneNegotiation /\ ShutdownIsInOrder /\ TasksAreUnique
  BY InvGivesParts
<1>2. thread = "loop" /\ batch = <<>> /\ wake' = FALSE /\ UNCHANGED phase
      /\ \A t : ~HasTask(<<>>, t)
  BY EmptyHasNone DEF AsyncHandler, AtLoop
<1>3. CASE /\ ~closing /\ batch' = pending /\ pending' = <<>>
           /\ UNCHANGED <<state, callbacks, connVars, thread>>
  <2>1. UNCHANGED <<state, callbacks, car, conn, opened, outq, writing, wire, negotiation, thread>>
    BY <1>3 DEF connVars
  <2>2. \A c \in Calls :
          HasTask(pending', AssignTask(c)) \/ HasTask(batch', AssignTask(c)) <=>
            HasTask(pending, AssignTask(c)) \/ HasTask(batch, AssignTask(c))
    BY <1>2, <1>3
  <2>3. CallbackOnce' /\ StatesFollowOwners' /\ TimersFollowCalls' /\ QueueInv'
    BY <2>1, <2>2, CallsUntouched
  <2>4. pending' \in Seq(Tasks) /\ batch' \in Seq(Tasks)
    BY <1>1, <1>3 DEF TypeOK
  <2>5. TypeOK'
    BY <1>1, <1>2, <2>1, <2>4 DEF TypeOK
  <2>6. TasksAreUnique'
    BY <1>1, <1>2, <1>3, EmptyHasNone DEF TasksAreUnique
  <2>7. OneNegotiation' /\ ShutdownIsInOrder'
    BY <1>1, <1>2, <1>3, <2>1 DEF OneNegotiation, ShutdownIsInOrder, closing, Negotiated
  <2> QED BY <2>3, <2>5, <2>6, <2>7 DEF IInv, CallsInv, ReactorInv
<1>4. CASE /\ closing /\ ShutdownConnection /\ thread' = "exited"
           /\ UNCHANGED <<pending, batch, negotiation>>
  <2>1. /\ state' \in [Calls -> States] /\ callbacks' \in [Calls -> Nat] /\ CallbackOnce'
        /\ car' \in [Calls -> Cars] /\ \A c \in Calls : ~Live(c)'
        /\ outq' = <<>> /\ outq' \in Seq(Transfers) /\ wire' = {} /\ writing' = FALSE
        /\ conn' = "none" /\ opened' = opened
        /\ \A c \in Calls : /\ state'[c] = "READY" <=> state[c] = "READY"
                            /\ state'[c] \notin {"ON_OUTBOUND_QUEUE", "SENT"}
        /\ TransfersHaveCars' /\ WriteInterestFollowsQueue' /\ TimersFollowCalls'
    BY <1>4, ShutdownConnectionEffect
  <2>2. TypeOK'
    BY <1>1, <1>2, <1>4, <2>1 DEF TypeOK
  <2>3. StatesFollowOwners' /\ TasksAreUnique'
    BY <1>1, <1>4, <2>1 DEF StatesFollowOwners, TasksAreUnique
  <2>4. OneNegotiation' /\ ShutdownIsInOrder'
    BY <1>1, <1>2, <1>4, <2>1 DEF OneNegotiation, ShutdownIsInOrder, Negotiated, closing
  <2> QED BY <2>1, <2>2, <2>3, <2>4 DEF IInv, CallsInv, QueueInv, ReactorInv
<1> QED BY <1>3, <1>4 DEF AsyncHandler

-----------------------------------------------------------------------------
(* The other handlers of the reactor thread.                               *)

\* Handlers on an open connection leave the tasks and the threads alone.
LEMMA HandlerKeepsReactor ==
  ASSUME IInv, thread = "loop",
         UNCHANGED <<conn, negotiation, pending, wake, batch, phase, thread>>,
         conn = "open" \/ outq' = outq
  PROVE  ReactorInv'
<1>1. OneNegotiation /\ ShutdownIsInOrder /\ TasksAreUnique
  BY InvGivesParts
<1> QED BY <1>1 DEF ReactorInv, OneNegotiation, ShutdownIsInOrder, TasksAreUnique, Negotiated,
        closing

LEMMA FirstTransfer ==
  ASSUME IInv, Writable
  PROVE  /\ First \in Transfers /\ First.call \in Calls /\ First = outq[1] /\ 1 \in DOMAIN outq
         /\ car[First.call].held /\ state[First.call] \notin {"NEW", "READY"}
         /\ thread = "loop" /\ conn = "open" /\ writing
<1>1. outq \in Seq(Transfers) /\ outq # <<>> /\ TransfersHaveCars
  BY InvGivesParts DEF TypeOK, Writable
<1>2. First = outq[1] /\ 1 \in DOMAIN outq /\ First \in Transfers
  BY <1>1 DEF First
<1> QED BY <1>1, <1>2 DEF TransfersHaveCars, Writable, AtLoop, Transfers

\* The first transfer leaves the queue, and the others keep their cars.
LEMMA PopEffect ==
  ASSUME IInv, Writable, PopTransfer,
         \A c \in Calls : car[c].held => car'[c].held,
         \A c \in Calls : state[c] \notin {"NEW", "READY"} => state'[c] \notin {"NEW", "READY"},
         wire' \in {wire, wire \cup {First.call}}
  PROVE  /\ outq' \in Seq(Transfers) /\ writing' \in BOOLEAN /\ QueueInv' /\ ReactorInv'
         /\ UNCHANGED <<conn, opened, negotiation, pending, wake, batch, phase, thread>>
<1>1. TransfersHaveCars /\ outq \in Seq(Transfers) /\ outq # <<>> /\ wire \subseteq Calls
  BY InvGivesParts DEF TypeOK, Writable
<1>2. /\ outq' = Tail(outq) /\ writing' = (Tail(outq) # <<>>)
      /\ UNCHANGED <<conn, opened, negotiation, pending, wake, batch, phase, thread>>
  BY DEF PopTransfer, taskVars
<1>3. /\ First \in Transfers /\ First.call \in Calls /\ First = outq[1] /\ 1 \in DOMAIN outq
      /\ state[First.call] \notin {"NEW", "READY"} /\ thread = "loop" /\ conn = "open"
  BY FirstTransfer
<1>4. /\ outq' \in Seq(Transfers) /\ Len(outq) \in Nat
      /\ DOMAIN outq = 1 .. Len(outq) /\ DOMAIN outq' = 1 .. Len(outq) - 1
      /\ \A i \in DOMAIN outq' : outq'[i] = outq[i + 1] /\ i + 1 \in DOMAIN outq
      /\ \A i \in DOMAIN outq : outq[i] \in Transfers
  BY <1>1, <1>2
<1>5. \A i \in DOMAIN outq : outq[i].call \in Calls
  BY <1>4 DEF Transfers
<1>6. ASSUME NEW i \in DOMAIN outq' PROVE outq'[i].call # First.call
  <2>1. i + 1 \in DOMAIN outq /\ i + 1 # 1
    BY <1>4
  <2> QED BY <1>1, <1>3, <1>4, <2>1 DEF TransfersHaveCars
<1>7. TransfersHaveCars'
  <2>1. ASSUME NEW i \in DOMAIN outq'
        PROVE  /\ car'[outq'[i].call].held
               /\ state'[outq'[i].call] \notin {"NEW", "READY"}
               /\ outq'[i].call \notin wire'
    BY <1>1, <1>4, <1>5, <1>6 DEF TransfersHaveCars
  <2>2. ASSUME NEW i \in DOMAIN outq', NEW j \in DOMAIN outq', outq'[i].call = outq'[j].call
        PROVE  i = j
    <3>1. i + 1 = j + 1
      BY <1>1, <1>4, <2>2 DEF TransfersHaveCars
    <3> QED BY <1>4, <3>1
  <2>3. ASSUME NEW c \in wire' PROVE state'[c] \notin {"NEW", "READY"}
    BY <1>1, <1>3 DEF TransfersHaveCars
  <2> QED BY <2>1, <2>2, <2>3 DEF TransfersHaveCars
<1>8. WriteInterestFollowsQueue' /\ writing' \in BOOLEAN
  BY <1>2 DEF WriteInterestFollowsQueue
<1>9. ReactorInv'
  BY <1>2, <1>3, HandlerKeepsReactor
<1> QED BY <1>2, <1>4, <1>7, <1>8, <1>9 DEF QueueInv

LEMMA HeldCar ==
  ASSUME NEW k \in Cars, k.held
  PROVE  /\ k \in [held : {TRUE}, call : BOOLEAN, timer : Timers]
         /\ [k EXCEPT !.call = FALSE] \in Cars
         /\ \A t \in Timers : [k EXCEPT !.timer = t] \in Cars
         /\ \A t \in Timers : [k EXCEPT !.call = FALSE, !.timer = t] \in Cars
<1>1. k # None
  BY DEF None
<1>2. k \in [held : {TRUE}, call : BOOLEAN, timer : Timers]
  BY <1>1 DEF Cars
<1> QED BY <1>2 DEF Cars

\* A call that its car holds is finished, and its car lets it go.
LEMMA CallEnds ==
  ASSUME IInv, NEW c \in Calls, NEW s \in FinishedStates, Live(c), Finish({c}, s),
         UNCHANGED <<pending, batch>>, ~Live(c)', \A d \in Calls : d # c => car'[d] = car[d]
  PROVE  /\ state' \in [Calls -> States] /\ callbacks' \in [Calls -> Nat]
         /\ CallbackOnce' /\ StatesFollowOwners'
         /\ \A d \in Calls : state[d] \notin {"NEW", "READY"} => state'[d] \notin {"NEW", "READY"}
<1>1. TypeOK /\ CallbackOnce /\ StatesFollowOwners
  BY InvGivesParts
<1>2. ~IsFinished(c) /\ state[c] \in {"ON_OUTBOUND_QUEUE", "SENT"}
  BY <1>1, LiveIsNotFinished
<1>3. /\ state' \in [Calls -> States] /\ callbacks' \in [Calls -> Nat] /\ CallbackOnce'
      /\ \A d \in Calls : state'[d] = IF d = c THEN s ELSE state[d]
  BY <1>1, <1>2, FinishEffect
<1>4. \A d \in Calls : d # c => (Live(d)' <=> Live(d))
  BY DEF Live
<1>5. StatesFollowOwners'
  BY <1>1, <1>2, <1>3, <1>4 DEF StatesFollowOwners, FinishedStates
<1> QED BY <1>3, <1>5 DEF FinishedStates

LEMMA SkipPreserves ==
  ASSUME IInv, SkipTimedOut
  PROVE  IInv'
<1>1. TypeOK /\ CallbackOnce /\ StatesFollowOwners /\ TimersFollowCalls
  BY InvGivesParts
<1>2. Writable /\ PopTransfer /\ UNCHANGED <<state, callbacks, car, wire>>
  BY DEF SkipTimedOut
<1>3. /\ outq' \in Seq(Transfers) /\ writing' \in BOOLEAN /\ QueueInv' /\ ReactorInv'
      /\ UNCHANGED <<conn, opened, negotiation, pending, wake, batch, phase, thread>>
  BY <1>2, PopEffect
<1>4. TypeOK'
  BY <1>1, <1>2, <1>3 DEF TypeOK
<1>5. CallbackOnce' /\ StatesFollowOwners' /\ TimersFollowCalls'
  BY <1>1, <1>2, <1>3 DEF CallbackOnce, IsFinished, StatesFollowOwners, TimersFollowCalls, Live
<1> QED BY <1>3, <1>4, <1>5 DEF IInv, CallsInv

LEMMA RejectPreserves ==
  ASSUME IInv, RejectUnsupported
  PROVE  IInv'
<1>0. PICK c \in Calls : c = First.call
  BY FirstTransfer DEF RejectUnsupported
<1>1. TypeOK /\ CallbackOnce /\ StatesFollowOwners /\ TimersFollowCalls
  BY InvGivesParts
<1>2. /\ Writable /\ PopTransfer /\ ~First.started /\ Sendable /\ c \in Unsupported
      /\ Finish({c}, "FINISHED_ERROR") /\ car' = [car EXCEPT ![c].call = FALSE] /\ wire' = wire
  BY <1>0 DEF RejectUnsupported
<1>3. c \in Calls /\ Live(c)
  BY <1>0, <1>2, FirstTransfer DEF Sendable, FirstCar, Live
<1>4. car[c] \in [held : {TRUE}, call : BOOLEAN, timer : Timers]
  BY <1>1, <1>3, HeldCar DEF TypeOK, Live
<1>5. /\ car'[c] = [car[c] EXCEPT !.call = FALSE] /\ car' \in [Calls -> Cars]
      /\ \A d \in Calls : d # c => car'[d] = car[d]
  <2>1. [car[c] EXCEPT !.call = FALSE] \in Cars
    BY <1>4 DEF Cars
  <2> QED BY <1>1, <1>2, <1>3, <2>1 DEF TypeOK
<1>6. car'[c].held /\ ~car'[c].call /\ car'[c].timer = car[c].timer /\ ~Live(c)'
  BY <1>4, <1>5 DEF Live
<1>7. \A d \in Calls : car[d].held => car'[d].held
  BY <1>5, <1>6
<1>8. UNCHANGED <<pending, batch>>
  BY <1>2 DEF PopTransfer, taskVars
<1>9. /\ state' \in [Calls -> States] /\ callbacks' \in [Calls -> Nat]
      /\ CallbackOnce' /\ StatesFollowOwners'
      /\ \A d \in Calls : state[d] \notin {"NEW", "READY"} => state'[d] \notin {"NEW", "READY"}
  <2>1. "FINISHED_ERROR" \in FinishedStates
    BY DEF FinishedStates
  <2> QED BY <1>2, <1>3, <1>5, <1>6, <1>8, <2>1, CallEnds
<1>10. /\ outq' \in Seq(Transfers) /\ writing' \in BOOLEAN /\ QueueInv' /\ ReactorInv'
       /\ UNCHANGED <<conn, opened, negotiation, pending, wake, batch, phase, thread>>
  BY <1>2, <1>7, <1>9, PopEffect
<1>11. TypeOK'
  BY <1>1, <1>2, <1>5, <1>9, <1>10 DEF TypeOK
<1>12. TimersFollowCalls'
  <2>1. RejectedHaveNoTimeout => car[c].timer = "off"
    BY <1>1, <1>2, <1>3 DEF RejectedHaveNoTimeout, TimersFollowCalls, Live
  <2>2. Timeout[c] = "none" => car[c].timer = "off"
    BY <1>1, <1>3 DEF TimersFollowCalls, Live
  <2> QED BY <1>1, <1>5, <1>6, <2>1, <2>2 DEF TimersFollowCalls
<1> QED BY <1>9, <1>10, <1>11, <1>12 DEF IInv, CallsInv

LEMMA SendPartPreserves ==
  ASSUME IInv, SendPart
  PROVE  IInv'
<1>1. /\ TypeOK /\ CallbackOnce /\ StatesFollowOwners /\ TimersFollowCalls
      /\ TransfersHaveCars /\ WriteInterestFollowsQueue
  BY InvGivesParts
<1>2. /\ Writable /\ outq' = [outq EXCEPT ![1].started = TRUE]
      /\ UNCHANGED <<state, callbacks, car, conn, opened, writing, wire, negotiation,
                     pending, wake, batch, phase, thread>>
  BY DEF SendPart, MaySend, taskVars
<1>3. /\ First \in Transfers /\ First = outq[1] /\ 1 \in DOMAIN outq
      /\ thread = "loop" /\ conn = "open"
  BY <1>2, FirstTransfer
<1>4. outq \in Seq(Transfers) /\ outq # <<>>
  BY <1>1, <1>2 DEF TypeOK, Writable
<1>5. /\ outq' \in Seq(Transfers) /\ DOMAIN outq' = DOMAIN outq /\ outq' # <<>>
      /\ \A i \in DOMAIN outq : outq'[i].call = outq[i].call
  <2>1. /\ [outq[1] EXCEPT !.started = TRUE] \in Transfers
        /\ [outq[1] EXCEPT !.started = TRUE].call = outq[1].call
    BY <1>3 DEF Transfers
  <2>2. outq' = [outq EXCEPT ![1] = [outq[1] EXCEPT !.started = TRUE]]
    BY <1>2
  <2> HIDE DEF Transfers
  <2>3. outq' \in Seq(Transfers) /\ DOMAIN outq' = DOMAIN outq
    BY <1>3, <1>4, <2>1, <2>2
  <2>4. \A i \in DOMAIN outq :
          outq'[i] = IF i = 1 THEN [outq[1] EXCEPT !.started = TRUE] ELSE outq[i]
    BY <1>3, <1>4, <2>2
  <2>5. outq' # <<>>
    BY <1>3, <2>3
  <2> QED BY <2>1, <2>3, <2>4, <2>5
<1>6. TransfersHaveCars' /\ WriteInterestFollowsQueue'
  BY <1>1, <1>2, <1>4, <1>5 DEF TransfersHaveCars, WriteInterestFollowsQueue
<1>7. ReactorInv'
  BY <1>2, <1>3, HandlerKeepsReactor
<1>8. TypeOK'
  BY <1>1, <1>2, <1>5 DEF TypeOK
<1>9. CallbackOnce' /\ StatesFollowOwners' /\ TimersFollowCalls'
  BY <1>1, <1>2 DEF CallbackOnce, IsFinished, StatesFollowOwners, TimersFollowCalls, Live
<1> QED BY <1>6, <1>7, <1>8, <1>9 DEF IInv, CallsInv, QueueInv

LEMMA SendRestPreserves ==
  ASSUME IInv, SendRest
  PROVE  IInv'
<1> DEFINE c == First.call
<1>1. TypeOK /\ CallbackOnce /\ StatesFollowOwners /\ TimersFollowCalls
  BY InvGivesParts
<1>2. /\ Writable /\ PopTransfer /\ TransferFinished(c) /\ wire' = wire \cup {c}
      /\ UNCHANGED <<callbacks, car>>
  BY DEF SendRest, MaySend
<1>3. c \in Calls /\ state[c] \notin {"NEW", "READY"}
  BY <1>2, FirstTransfer
<1> HIDE DEF c
<1>4. /\ state' \in [Calls -> States] /\ CallbackOnce'
      /\ \A d \in Calls :
           \/ state'[d] = state[d]
           \/ d = c /\ state[d] \in {"ON_OUTBOUND_QUEUE", "SENT"} /\ state'[d] = "SENT"
  <2>1. CASE IsFinished(c)
    BY <1>1, <1>2, <2>1 DEF TransferFinished, TypeOK, CallbackOnce, IsFinished
  <2>2. CASE ~IsFinished(c)
    <3>1. state' = [state EXCEPT ![c] = "SENT"]
      BY <1>2, <2>2 DEF TransferFinished
    <3>2. "SENT" \in States \ FinishedStates
      BY DEF States, FinishedStates
    <3>3. state[c] \in {"ON_OUTBOUND_QUEUE", "SENT"}
      BY <1>1, <1>3, <2>2 DEF TypeOK, States, IsFinished
    <3> QED BY <1>1, <1>2, <1>3, <2>2, <3>1, <3>2, <3>3, MoveEffect
  <2> QED BY <2>1, <2>2
<1>5. /\ outq' \in Seq(Transfers) /\ writing' \in BOOLEAN /\ QueueInv' /\ ReactorInv'
      /\ UNCHANGED <<conn, opened, negotiation, pending, wake, batch, phase, thread>>
  <2>1. \A d \in Calls : state[d] \notin {"NEW", "READY"} => state'[d] \notin {"NEW", "READY"}
    BY <1>4
  <2> QED BY <1>2, <2>1, PopEffect DEF c
<1>6. TypeOK'
  BY <1>1, <1>2, <1>3, <1>4, <1>5 DEF TypeOK
<1>7. StatesFollowOwners' /\ TimersFollowCalls'
  <2>1. \A d \in Calls : Live(d)' <=> Live(d)
    BY <1>2 DEF Live
  <2> QED BY <1>1, <1>2, <1>4, <1>5, <2>1 DEF StatesFollowOwners, TimersFollowCalls
<1> QED BY <1>4, <1>5, <1>6, <1>7 DEF IInv, CallsInv

LEMMA TransfersOfCalls ==
  ASSUME outq \in Seq(Transfers)
  PROVE  \A i \in DOMAIN outq : outq[i].call \in Calls
<1>1. \A i \in DOMAIN outq : outq[i] \in Transfers
  OBVIOUS
<1> QED BY <1>1 DEF Transfers

\* The transfers stay, and so do the cars, whatever they hold.
LEMMA CarsKept ==
  ASSUME TypeOK, QueueInv, UNCHANGED <<outq, conn, writing, wire>>,
         \A c \in Calls : car[c].held => car'[c].held,
         \A c \in Calls : state[c] \notin {"NEW", "READY"} => state'[c] \notin {"NEW", "READY"}
  PROVE  QueueInv'
<1>1. wire \subseteq Calls /\ \A i \in DOMAIN outq : outq[i].call \in Calls
  BY TransfersOfCalls DEF TypeOK
<1> QED BY <1>1 DEF QueueInv, TransfersHaveCars, WriteInterestFollowsQueue

LEMMA TimeoutPreserves ==
  ASSUME IInv, NEW c \in Calls, HandleTimeout(c)
  PROVE  IInv'
<1>1. TypeOK /\ CallbackOnce /\ StatesFollowOwners /\ TimersFollowCalls /\ QueueInv
  BY InvGivesParts DEF IInv
<1>2. CASE FirstTimeout(c)
  <2>1. /\ thread = "loop" /\ car[c].held /\ car[c].timer = "first"
        /\ car' = [car EXCEPT ![c].timer = "last"]
        /\ UNCHANGED <<state, callbacks, conn, opened, outq, writing, wire, negotiation,
                       pending, wake, batch, phase, thread>>
    BY <1>2 DEF FirstTimeout, AtLoop, SecondStage, taskVars
  <2>2. car[c] \in [held : {TRUE}, call : BOOLEAN, timer : Timers]
    BY <1>1, <2>1, HeldCar DEF TypeOK
  <2>3. /\ car'[c] = [car[c] EXCEPT !.timer = "last"] /\ car' \in [Calls -> Cars]
        /\ \A d \in Calls : d # c => car'[d] = car[d]
    <3>1. [car[c] EXCEPT !.timer = "last"] \in Cars
      BY <2>2 DEF Cars, Timers
    <3> QED BY <1>1, <2>1, <3>1 DEF TypeOK
  <2>4. /\ car'[c].held /\ car'[c].call = car[c].call
    BY <2>1, <2>2, <2>3
  <2>5. \A d \in Calls : (Live(d)' <=> Live(d)) /\ (car'[d].held <=> car[d].held)
    BY <2>1, <2>3, <2>4 DEF Live
  <2>6. TypeOK' /\ CallbackOnce' /\ StatesFollowOwners'
    BY <1>1, <2>1, <2>3, <2>5 DEF TypeOK, CallbackOnce, IsFinished, StatesFollowOwners
  <2>7. TimersFollowCalls'
    BY <1>1, <2>1, <2>3, <2>4 DEF TimersFollowCalls
  <2>8. QueueInv'
    BY <1>1, <2>1, <2>5, CarsKept
  <2>9. ReactorInv'
    BY <2>1, HandlerKeepsReactor
  <2> QED BY <2>6, <2>7, <2>8, <2>9 DEF IInv, CallsInv
<1>3. CASE HandleOutboundCallTimeout(c)
  <2>1. /\ thread = "loop" /\ Live(c) /\ Finish({c}, "TIMED_OUT")
        /\ car' = [car EXCEPT ![c] = [car[c] EXCEPT !.call = FALSE, !.timer = "off"]]
        /\ UNCHANGED <<conn, opened, outq, writing, wire, negotiation,
                       pending, wake, batch, phase, thread>>
    BY <1>3 DEF HandleOutboundCallTimeout, AtLoop, CarAfterTimeout, taskVars
  <2>2. car[c] \in [held : {TRUE}, call : BOOLEAN, timer : Timers]
    BY <1>1, <2>1, HeldCar DEF TypeOK, Live
  <2>3. /\ car'[c] = [car[c] EXCEPT !.call = FALSE, !.timer = "off"] /\ car' \in [Calls -> Cars]
        /\ \A d \in Calls : d # c => car'[d] = car[d]
    <3>1. [car[c] EXCEPT !.call = FALSE, !.timer = "off"] \in Cars
      BY <2>2 DEF Cars, Timers
    <3> QED BY <1>1, <2>1, <3>1 DEF TypeOK
  <2>4. car'[c].held /\ car'[c].timer = "off" /\ ~Live(c)'
    BY <2>2, <2>3 DEF Live
  <2>5. /\ state' \in [Calls -> States] /\ callbacks' \in [Calls -> Nat]
        /\ CallbackOnce' /\ StatesFollowOwners'
        /\ \A d \in Calls : state[d] \notin {"NEW", "READY"} => state'[d] \notin {"NEW", "READY"}
    <3>1. "TIMED_OUT" \in FinishedStates
      BY DEF FinishedStates
    <3> QED BY <2>1, <2>3, <2>4, <3>1, CallEnds
  <2>6. \A d \in Calls : car[d].held => car'[d].held
    BY <2>3, <2>4
  <2>7. TypeOK' /\ TimersFollowCalls'
    BY <1>1, <2>1, <2>3, <2>4, <2>5 DEF TypeOK, TimersFollowCalls
  <2>8. QueueInv'
    BY <1>1, <2>1, <2>5, <2>6, CarsKept
  <2>9. ReactorInv'
    BY <2>1, HandlerKeepsReactor
  <2> QED BY <2>5, <2>7, <2>8, <2>9 DEF IInv, CallsInv
<1> QED BY <1>2, <1>3 DEF HandleTimeout

LEMMA ResponsePreserves ==
  ASSUME IInv, NEW c \in Calls, NEW s \in {"FINISHED_SUCCESS", "FINISHED_ERROR"},
         HandleCallResponse(c, s)
  PROVE  IInv'
<1>1. /\ TypeOK /\ CallbackOnce /\ StatesFollowOwners /\ TimersFollowCalls
      /\ TransfersHaveCars /\ WriteInterestFollowsQueue
  BY InvGivesParts
<1>2. /\ thread = "loop" /\ c \in wire /\ wire' = wire \ {c} /\ car' = [car EXCEPT ![c] = None]
      /\ \/ Live(c) /\ Finish({c}, s)
         \/ ~Live(c) /\ UNCHANGED <<state, callbacks>>
      /\ UNCHANGED <<conn, opened, outq, writing, negotiation,
                     pending, wake, batch, phase, thread>>
  BY DEF HandleCallResponse, AtLoop, taskVars
<1>3. /\ car'[c] = None /\ ~None.held /\ None \in Cars /\ car' \in [Calls -> Cars]
      /\ \A d \in Calls : d # c => car'[d] = car[d]
  BY <1>1, <1>2 DEF TypeOK, None, Cars
<1>4. /\ ~Live(c)' /\ \A d \in Calls : d # c => (Live(d)' <=> Live(d))
  BY <1>3 DEF Live
<1>5. /\ state' \in [Calls -> States] /\ callbacks' \in [Calls -> Nat]
      /\ CallbackOnce' /\ StatesFollowOwners'
      /\ \A d \in Calls : state[d] \notin {"NEW", "READY"} => state'[d] \notin {"NEW", "READY"}
  <2>1. CASE Live(c) /\ Finish({c}, s)
    <3>1. s \in FinishedStates
      BY DEF FinishedStates
    <3> QED BY <1>2, <1>3, <1>4, <2>1, <3>1, CallEnds
  <2>2. CASE ~Live(c) /\ UNCHANGED <<state, callbacks>>
    BY <1>1, <1>2, <1>4, <2>2 DEF TypeOK, CallbackOnce, IsFinished, StatesFollowOwners
  <2> QED BY <1>2, <2>1, <2>2
<1>6. TypeOK' /\ TimersFollowCalls'
  BY <1>1, <1>2, <1>3, <1>5 DEF TypeOK, TimersFollowCalls
<1>7. /\ outq \in Seq(Transfers) /\ wire \subseteq Calls
      /\ \A i \in DOMAIN outq : outq[i].call \in Calls
  BY <1>1, TransfersOfCalls DEF TypeOK
<1>8. TransfersHaveCars' /\ WriteInterestFollowsQueue'
  BY <1>1, <1>2, <1>3, <1>5, <1>7 DEF TransfersHaveCars, WriteInterestFollowsQueue
<1>9. ReactorInv'
  BY <1>2, HandlerKeepsReactor
<1> QED BY <1>5, <1>6, <1>8, <1>9 DEF IInv, CallsInv, QueueInv

-----------------------------------------------------------------------------
(* Messenger::Shutdown.                                                    *)

LEMMA ShutdownPreserves ==
  ASSUME IInv, ShutdownPool \/ ShutdownReactor \/ ShutdownDone
  PROVE  IInv'
<1>1. TypeOK /\ TasksAreUnique /\ OneNegotiation /\ ShutdownIsInOrder
  BY InvGivesParts
<1>2. /\ UNCHANGED <<state, callbacks, car, conn, opened, outq, writing, wire,
                     pending, batch, thread>>
      /\ wake' \in BOOLEAN /\ phase' \in {"up", "pool", "closing", "done"}
      /\ negotiation' \in {"none", "queued", "running"}
      /\ negotiation' # "none" => negotiation # "none"
      /\ negotiation' = "queued" => phase' = "up"
      /\ closing' => negotiation' = "none"
      /\ closing => closing'
      /\ phase' = "done" => pending = <<>>
  <2>1. CASE ShutdownPool
    BY <1>1, <2>1 DEF ShutdownPool, taskVars, TypeOK, closing
  <2>2. CASE ShutdownReactor
    BY <1>1, <2>2 DEF ShutdownReactor, WakeOnShutdown, connVars, TypeOK, closing, ShutdownIsInOrder
  <2>3. CASE ShutdownDone
    BY <1>1, <2>3 DEF ShutdownDone, connVars, taskVars, TypeOK, closing, ShutdownIsInOrder
  <2> QED BY <2>1, <2>2, <2>3
<1>3. CallbackOnce' /\ StatesFollowOwners' /\ TimersFollowCalls' /\ QueueInv'
  BY <1>2, CallsUntouched
<1>4. TypeOK'
  BY <1>1, <1>2 DEF TypeOK
<1>5. TasksAreUnique' /\ OneNegotiation'
  BY <1>1, <1>2 DEF TasksAreUnique, OneNegotiation, Negotiated
<1>6. ShutdownIsInOrder'
  <2>1. \A c \in Calls : Live(c)' <=> Live(c)
    BY <1>2 DEF Live
  <2> QED BY <1>1, <1>2, <2>1 DEF ShutdownIsInOrder
<1> QED BY <1>3, <1>4, <1>5, <1>6 DEF IInv, CallsInv, ReactorInv

\* An aborted task is gone, and its call has failed.
LEMMA AbortPreserves ==
  ASSUME IInv, AbortTask
  PROVE  IInv'
<1> DEFINE t == Head(pending)
           cs == IF t.kind = "assign" THEN {t.call} ELSE {}
<1>1. /\ TypeOK /\ CallbackOnce /\ StatesFollowOwners /\ TimersFollowCalls /\ QueueInv
      /\ TasksAreUnique /\ OneNegotiation /\ ShutdownIsInOrder
  BY InvGivesParts DEF IInv
<1>2. /\ phase = "closing" /\ pending # <<>> /\ pending' = Tail(pending)
      /\ Finish(cs, "FINISHED_ERROR")
      /\ UNCHANGED <<car, conn, opened, outq, writing, wire, negotiation,
                     wake, batch, phase, thread>>
  BY DEF AbortTask, connVars
<1>3. /\ pending' \in Seq(Tasks) /\ t \in Tasks /\ HasTask(pending, t) /\ EachOnce(pending')
      /\ \A u : HasTask(pending, u) <=> HasTask(pending', u) \/ Alike(t, u)
      /\ \A u : HasTask(pending', u) => ~Alike(t, u)
  <2>1. pending \in Seq(Tasks) /\ EachOnce(pending)
    BY <1>1 DEF TypeOK, TasksAreUnique
  <2> QED BY <1>2, <2>1, TailHas
<1>4. /\ t.kind = "assign" => t.call \in Calls /\ t = AssignTask(t.call)
      /\ t.kind # "assign" => \E ok \in BOOLEAN : t = NegotiatedTask(ok)
  BY <1>3, TaskCases
<1>5. \A c \in Calls : c \in cs <=> Alike(t, AssignTask(c))
  BY <1>4 DEF Alike, AssignTask, NegotiatedTask
<1>6. \A c \in cs : c \in Calls /\ ~IsFinished(c) /\ state[c] = "READY"
  <2>1. ASSUME NEW c \in cs PROVE c \in Calls /\ state[c] = "READY"
    <3>1. c \in Calls /\ t = AssignTask(c)
      BY <1>4
    <3> QED BY <1>1, <1>3, <3>1 DEF StatesFollowOwners
  <2> QED BY <2>1 DEF IsFinished, FinishedStates
<1> HIDE DEF t, cs
<1>7. /\ state' \in [Calls -> States] /\ callbacks' \in [Calls -> Nat] /\ CallbackOnce'
      /\ \A c \in Calls : state'[c] = IF c \in cs THEN "FINISHED_ERROR" ELSE state[c]
  <2>1. "FINISHED_ERROR" \in FinishedStates
    BY DEF FinishedStates
  <2> QED BY <1>1, <1>2, <1>6, <2>1, FinishEffect
<1>8. ASSUME NEW c \in Calls
      PROVE  HasTask(pending', AssignTask(c)) \/ HasTask(batch', AssignTask(c)) <=>
               state[c] = "READY" /\ c \notin cs
  <2>1. HasTask(pending', AssignTask(c)) <=> HasTask(pending, AssignTask(c)) /\ c \notin cs
    BY <1>3, <1>5
  <2>2. HasTask(batch', AssignTask(c)) <=> HasTask(batch, AssignTask(c))
    BY <1>2
  <2>3. c \in cs => ~HasTask(batch, AssignTask(c))
    <3>1. ASSUME c \in cs, HasTask(batch, AssignTask(c)) PROVE FALSE
      <4>1. HasTask(pending, AssignTask(c)) /\ AssignTask(c) \in Tasks
        BY <1>3, <1>5, <3>1 DEF Tasks
      <4> QED BY <1>1, <3>1, <4>1 DEF TasksAreUnique
    <3> QED BY <3>1
  <2>4. state[c] = "READY" <=> HasTask(pending, AssignTask(c)) \/ HasTask(batch, AssignTask(c))
    BY <1>1 DEF StatesFollowOwners
  <2> QED BY <2>1, <2>2, <2>3, <2>4
<1>9. StatesFollowOwners'
  <2>1. \A c \in Calls : Live(c)' <=> Live(c)
    BY <1>2 DEF Live
  <2> QED BY <1>1, <1>6, <1>7, <1>8, <2>1 DEF StatesFollowOwners
<1>10. TypeOK' /\ TimersFollowCalls'
  BY <1>1, <1>2, <1>3, <1>7 DEF TypeOK, TimersFollowCalls
<1>11. QueueInv'
  BY <1>1, <1>2, <1>6, <1>7, QueueKept DEF TypeOK
<1>12. TasksAreUnique'
  BY <1>1, <1>2, <1>3 DEF TasksAreUnique
<1>13. OneNegotiation'
  <2>1. HasTask(pending', Negotiated) => HasTask(pending, Negotiated)
    BY <1>3
  <2> QED BY <1>1, <1>2, <2>1 DEF OneNegotiation, Negotiated
<1>14. ShutdownIsInOrder'
  BY <1>1, <1>2 DEF ShutdownIsInOrder, closing, Live
<1> QED BY <1>7, <1>9, <1>10, <1>11, <1>12, <1>13, <1>14 DEF IInv, CallsInv, ReactorInv

-----------------------------------------------------------------------------

LEMMA Inductive == IInv /\ [Next]_vars => IInv'
<1> SUFFICES ASSUME IInv, [Next]_vars PROVE IInv'
  OBVIOUS
<1>1. ASSUME NEW c \in Calls, AsyncRequest(c) PROVE IInv'
  BY <1>1, RequestPreserves
<1>2. CASE Negotiate
  BY <1>2, NegotiatePreserves
<1>3. CASE ReactorStep
  BY <1>3, AsyncHandlerPreserves, AssignPreserves, NegotiatedPreserves DEF ReactorStep
<1>4. CASE SocketError
  BY <1>4, SocketErrorPreserves
<1>5. CASE WriteHandler
  BY <1>5, SkipPreserves, RejectPreserves, SendPartPreserves, SendRestPreserves DEF WriteHandler
<1>6. ASSUME NEW c \in Calls, HandleTimeout(c) PROVE IInv'
  BY <1>6, TimeoutPreserves
<1>7. ASSUME NEW c \in Calls, NEW s \in {"FINISHED_SUCCESS", "FINISHED_ERROR"},
             HandleCallResponse(c, s)
      PROVE  IInv'
  BY <1>7, ResponsePreserves
<1>8. CASE ShutdownPool \/ ShutdownStep
  BY <1>8, ShutdownPreserves, AbortPreserves DEF ShutdownStep
<1>9. CASE UNCHANGED vars
  <2>1. UNCHANGED <<state, callbacks, car, conn, opened, outq, writing, wire, negotiation,
                    pending, wake, batch, phase, thread>>
    BY <1>9 DEF vars, connVars, taskVars
  <2>2. CallbackOnce' /\ StatesFollowOwners' /\ TimersFollowCalls' /\ QueueInv'
    BY <2>1, CallsUntouched
  <2>3. TypeOK' /\ TasksAreUnique' /\ OneNegotiation'
    BY <2>1, InvGivesParts DEF TypeOK, TasksAreUnique, OneNegotiation, Negotiated
  <2>4. ShutdownIsInOrder'
    BY <2>1, InvGivesParts DEF ShutdownIsInOrder, closing, Live
  <2> QED BY <2>2, <2>3, <2>4 DEF IInv, CallsInv, ReactorInv
<1> QED BY <1>1, <1>2, <1>3, <1>4, <1>5, <1>6, <1>7, <1>8, <1>9 DEF Next

-----------------------------------------------------------------------------
(* Theorems.                                                               *)

\* Whatever the calls, their timeouts and the features they require: each task and
\* each transfer has the call that waits for it, at every step of requests,
\* negotiation, timeouts, answers, lost connections and shutdown.
THEOREM Invariance == Spec => []IInv
<1>1. Init => IInv
  BY InitIInv
<1>2. IInv /\ [Next]_vars => IInv'
  BY Inductive
<1> QED BY <1>1, <1>2, PTL DEF Spec

LEMMA AtMostOneTask ==
  ASSUME NEW c \in Calls, NEW s, EachOnce(s), s \in Seq(Tasks)
  PROVE  Cardinality(InTasks(c, s)) = IF HasTask(s, AssignTask(c)) THEN 1 ELSE 0
<1>1. \A i \in DOMAIN s : s[i] = AssignTask(c) <=> Alike(s[i], AssignTask(c))
  <2>1. ASSUME NEW i \in DOMAIN s, Alike(s[i], AssignTask(c)) PROVE s[i] = AssignTask(c)
    <3>1. s[i] \in Tasks
      OBVIOUS
    <3>2. s[i].kind = "assign" /\ s[i].call = c
      BY <2>1 DEF Alike, AssignTask
    <3> QED BY <3>1, <3>2, TaskCases
  <2> QED BY <2>1 DEF Alike
<1>2. CASE HasTask(s, AssignTask(c))
  <2>1. PICK i \in DOMAIN s : Alike(s[i], AssignTask(c))
    BY <1>2 DEF HasTask
  <2>2. \A j \in DOMAIN s : Alike(s[j], AssignTask(c)) => j = i
    BY <2>1 DEF EachOnce, Alike
  <2>3. InTasks(c, s) = {i}
    BY <1>1, <2>1, <2>2 DEF InTasks
  <2> QED BY <1>2, <2>3, FS_Singleton
<1>3. CASE ~HasTask(s, AssignTask(c))
  <2>1. InTasks(c, s) = {}
    BY <1>1, <1>3 DEF InTasks, HasTask
  <2> QED BY <1>3, <2>1, FS_EmptySet
<1> QED BY <1>2, <1>3

\* A call that is under way is in one place: a pending task, a drained task or a
\* car. So it is finished, and its callback run, once.
THEOREM CallsFinishOnce == Spec => []EachCallFinishesOnce
<1>1. ASSUME IInv PROVE EachCallFinishesOnce
  <2>1. TypeOK /\ CallbackOnce /\ StatesFollowOwners /\ TasksAreUnique
    BY <1>1, InvGivesParts
  <2>2. ASSUME NEW c \in Calls
        PROVE  Cardinality(InTasks(c, pending)) + Cardinality(InTasks(c, batch))
                 + (IF Live(c) THEN 1 ELSE 0)
                 = IF state[c] = "NEW" \/ IsFinished(c) THEN 0 ELSE 1
    <3>1. /\ Cardinality(InTasks(c, pending)) = IF HasTask(pending, AssignTask(c)) THEN 1 ELSE 0
          /\ Cardinality(InTasks(c, batch)) = IF HasTask(batch, AssignTask(c)) THEN 1 ELSE 0
      BY <2>1, AtMostOneTask DEF TasksAreUnique, TypeOK
    <3>2. ~(HasTask(pending, AssignTask(c)) /\ HasTask(batch, AssignTask(c)))
      BY <2>1 DEF TasksAreUnique, Tasks
    <3>3. /\ state[c] = "READY" <=>
               HasTask(pending, AssignTask(c)) \/ HasTask(batch, AssignTask(c))
          /\ state[c] \in {"ON_OUTBOUND_QUEUE", "SENT"} <=> Live(c)
      BY <2>1 DEF StatesFollowOwners
    <3>4. state[c] \in States
      BY <2>1 DEF TypeOK
    <3>5. state[c] = "NEW" \/ IsFinished(c) <=>
            ~(state[c] = "READY" \/ state[c] \in {"ON_OUTBOUND_QUEUE", "SENT"})
      BY <3>4 DEF States, IsFinished, FinishedStates
    <3> QED BY <3>1, <3>2, <3>3, <3>5
  <2> QED BY <2>1, <2>2 DEF EachCallFinishesOnce, OneOwnerPerCall
<1> QED BY <1>1, Invariance, PTL

\* Where no call that the server would reject has a timeout, the connection's
\* assertions hold: WriteHandler finds the car of each transfer, and no timer runs
\* out without its call; and after the shutdown nothing is left.
THEOREM ConnectionIsSafe ==
  ASSUME RejectedHaveNoTimeout
  PROVE  Spec => []ConnectionInv
<1>1. ASSUME IInv PROVE ConnectionInv
  <2>1. /\ TypeOK /\ StatesFollowOwners /\ TimersFollowCalls
        /\ TransfersHaveCars /\ WriteInterestFollowsQueue
        /\ TasksAreUnique /\ OneNegotiation /\ ShutdownIsInOrder
    BY <1>1, InvGivesParts
  <2>2. ~MissingCar
    BY <1>1, FirstTransfer DEF MissingCar, FirstCar
  <2>3. \A c \in Calls : ~TimeoutWithoutCall(c)
    BY <2>1 DEF TimersFollowCalls, TimeoutWithoutCall
  <2>4. NothingLeftAfterShutdown
    <3> SUFFICES ASSUME phase = "done", thread = "exited"
                 PROVE  /\ \A c \in Calls : state[c] = "NEW" \/ IsFinished(c)
                        /\ pending = <<>> /\ batch = <<>> /\ outq = <<>>
      BY DEF NothingLeftAfterShutdown
    <3>1. /\ pending = <<>> /\ batch = <<>> /\ outq = <<>> /\ \A c \in Calls : ~Live(c)
      BY <2>1 DEF ShutdownIsInOrder
    <3>2. \A c \in Calls : state[c] \notin {"READY", "ON_OUTBOUND_QUEUE", "SENT"}
      BY <2>1, <3>1, EmptyHasNone DEF StatesFollowOwners
    <3>3. \A c \in Calls : state[c] \in States
      BY <2>1 DEF TypeOK
    <3> QED BY <3>1, <3>2, <3>3 DEF States, IsFinished
  <2> QED BY <2>1, <2>2, <2>3, <2>4 DEF ConnectionInv, ChecksHold
<1> QED BY <1>1, Invariance, PTL

\* A call whose caller was told that it timed out is not sent afterwards, unless a
\* part of it was on its way.
THEOREM NotSentAfterTimeout == Spec => TimedOutIsNotSent
<1> DEFINE A == \A c \in Calls :
                  state[c] = "TIMED_OUT" /\ c \in wire' \ wire =>
                    \E i \in DOMAIN outq : outq[i] = [call |-> c, started |-> TRUE]
<1>1. ASSUME IInv, Next PROVE A
  <2> SUFFICES ASSUME NEW c \in Calls, state[c] = "TIMED_OUT", c \in wire' \ wire
               PROVE  \E i \in DOMAIN outq : outq[i] = [call |-> c, started |-> TRUE]
    OBVIOUS
  <2>1. SendRest /\ c = First.call
    BY <1>1 DEF Next, AsyncRequest, Negotiate, StartNegotiating, CompleteNegotiation,
       ReactorStep, AsyncHandler, ShutdownConnection, AssignToConnection, QueueOutboundCall,
       AssignToNewConnection, AssignFails, NegotiationSucceeded, NegotiationFailed, SocketError,
       WriteHandler, SkipTimedOut, RejectUnsupported, SendPart, SendRest, HandleTimeout,
       FirstTimeout, HandleOutboundCallTimeout, HandleCallResponse, ShutdownPool, ShutdownStep,
       ShutdownReactor, AbortTask, ShutdownDone, connVars
  <2>2. Writable /\ Sendable
    BY <2>1 DEF SendRest, MaySend
  <2>3. First \in Transfers /\ First = outq[1] /\ 1 \in DOMAIN outq
    BY <1>1, <2>2, FirstTransfer
  <2>4. First.started
    <3>1. ~Live(c)
      BY <1>1, InvGivesParts, LiveIsNotFinished DEF IsFinished, FinishedStates
    <3> QED BY <2>1, <2>2, <3>1 DEF Sendable, FirstCar, Live
  <2>5. First = [call |-> c, started |-> TRUE]
    BY <2>1, <2>3, <2>4 DEF Transfers
  <2> QED BY <2>3, <2>5
<1>2. IInv /\ [Next]_vars => [A]_vars
  BY <1>1
<1> QED BY <1>2, Invariance, PTL DEF Spec, TimedOutIsNotSent
=============================================================================
