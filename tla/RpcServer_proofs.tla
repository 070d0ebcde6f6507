---------------------------- MODULE RpcServer_proofs ----------------------------
(***************************************************************************)
(* Theorems about RpcServer, for any finite sets of connections and call   *)
(* ids and any number of CPUs.                                             *)
(*                                                                         *)
(* The invariant has three groups.  TaskInv: a task is pending or drained, *)
(* once, and the tasks of a connection say how far it has come.  StopInv:  *)
(* the writer of the messenger's lock is alone, and the stopper's stages   *)
(* are in order.  CallInv: each call in calls_being_handled_ has one       *)
(* holder, where a response among the tasks counts once wherever it is;    *)
(* OwnersAreHolders then gives CallsOwnedOnce.  There is a lemma for each  *)
(* change of the task queues, each handler and each party that stops.      *)
(***************************************************************************)
EXTENDS RpcServer, SequenceTheorems, FiniteSetTheorems, TLAPS

\* Who has a call, with a task or a transfer counted once.
Held(k, id) ==
  One(reading.held /\ reading.conn = k /\ reading.id = id)
    + One(<<k, id>> \in worker) + One(<<k, id>> \in deferred)
    + One(ToTransfer(k, id)) + One(id \in SetOf(outq[k]))

HeldOnce == \A k \in Conns, id \in Ids : Held(k, id) = One(id \in calls[k])

TaskInv == TasksAreUnique /\ TasksFollowConnections

StopInv == WriterIsAlone /\ ShutdownIsInOrder /\ NoHandlerAfterUnregister

CallInv == CallsFollowConnections /\ HeldOnce /\ LostOnlyIfBroken

IInv == TypeOK /\ TaskInv /\ StopInv /\ CallInv

-----------------------------------------------------------------------------
(* Sequences.                                                              *)

LEMMA AppendSet ==
  ASSUME NEW S, NEW s \in Seq(S), NEW x \in S
  PROVE  /\ Append(s, x) \in Seq(S) /\ Append(s, x) # <<>>
         /\ SetOf(Append(s, x)) = SetOf(s) \cup {x}
         /\ OnceEach(s) /\ x \notin SetOf(s) => OnceEach(Append(s, x))
<1> DEFINE a == Append(s, x)
<1>1. /\ a \in Seq(S) /\ Len(a) = Len(s) + 1 /\ a[Len(s) + 1] = x
      /\ DOMAIN a = 1 .. Len(s) + 1 /\ DOMAIN s = 1 .. Len(s) /\ Len(s) \in Nat
      /\ \A i \in 1 .. Len(s) : a[i] = s[i]
  OBVIOUS
<1>2. a # <<>>
  BY <1>1
<1>3. ASSUME NEW y \in SetOf(a) PROVE y \in SetOf(s) \cup {x}
  <2>1. PICK i \in DOMAIN a : y = a[i]
    BY DEF SetOf
  <2>2. i \in 1 .. Len(s) \/ i = Len(s) + 1
    BY <1>1
  <2> QED BY <1>1, <2>1, <2>2 DEF SetOf
<1>4. x \in SetOf(a) /\ SetOf(s) \subseteq SetOf(a)
  <2>1. Len(s) + 1 \in DOMAIN a /\ \A i \in DOMAIN s : i \in DOMAIN a
    BY <1>1
  <2> QED BY <1>1, <2>1 DEF SetOf
<1>5. ASSUME OnceEach(s), x \notin SetOf(s), NEW i \in DOMAIN a, NEW j \in DOMAIN a, a[i] = a[j]
      PROVE  i = j
  <2>1. CASE i \in 1 .. Len(s) /\ j \in 1 .. Len(s)
    BY <1>1, <1>5, <2>1 DEF OnceEach
  <2>2. CASE i = Len(s) + 1 /\ j \in 1 .. Len(s)
    BY <1>1, <1>5, <2>2 DEF SetOf
  <2>3. CASE i \in 1 .. Len(s) /\ j = Len(s) + 1
    BY <1>1, <1>5, <2>3 DEF SetOf
  <2> QED BY <1>1, <1>5, <2>1, <2>2, <2>3
<1> QED BY <1>1, <1>2, <1>3, <1>4, <1>5 DEF OnceEach

LEMMA TailIndices ==
  ASSUME NEW S, NEW s \in Seq(S), s # <<>>
  PROVE  /\ Tail(s) \in Seq(S) /\ Head(s) \in S /\ Head(s) = s[1] /\ 1 \in DOMAIN s
         /\ \A i \in DOMAIN Tail(s) :
              i \in Nat /\ i + 1 \in DOMAIN s /\ i + 1 # 1 /\ Tail(s)[i] = s[i + 1]
         /\ \A i \in DOMAIN s : i # 1 => i - 1 \in DOMAIN Tail(s) /\ Tail(s)[i - 1] = s[i]
<1>1. /\ Tail(s) \in Seq(S) /\ Len(s) \in Nat \ {0}
      /\ DOMAIN Tail(s) = 1 .. Len(s) - 1 /\ DOMAIN s = 1 .. Len(s)
      /\ Head(s) = s[1] /\ s[1] \in S
      /\ \A i \in 1 .. Len(s) - 1 : Tail(s)[i] = s[i + 1]
  OBVIOUS
<1>2. ASSUME NEW i \in DOMAIN Tail(s)
      PROVE  i \in Nat /\ i + 1 \in DOMAIN s /\ i + 1 # 1 /\ Tail(s)[i] = s[i + 1]
  BY <1>1
<1>3. ASSUME NEW i \in DOMAIN s, i # 1
      PROVE  i - 1 \in DOMAIN Tail(s) /\ Tail(s)[i - 1] = s[i]
  <2>1. i - 1 \in 1 .. Len(s) - 1 /\ (i - 1) + 1 = i
    BY <1>1, <1>3
  <2>2. Tail(s)[i - 1] = s[(i - 1) + 1]
    BY <1>1, <2>1
  <2> QED BY <1>1, <2>1, <2>2
<1>4. 1 \in DOMAIN s
  BY <1>1
<1> QED BY <1>1, <1>2, <1>3, <1>4

LEMMA TailSet ==
  ASSUME NEW S, NEW s \in Seq(S), s # <<>>
  PROVE  /\ Tail(s) \in Seq(S) /\ Head(s) \in S
         /\ SetOf(s) = SetOf(Tail(s)) \cup {Head(s)}
         /\ OnceEach(s) => OnceEach(Tail(s)) /\ Head(s) \notin SetOf(Tail(s))
<1> DEFINE r == Tail(s)
<1>1. r \in Seq(S) /\ Head(s) \in S /\ Head(s) = s[1] /\ 1 \in DOMAIN s
  BY TailIndices
<1>2. /\ \A i \in DOMAIN r : i \in Nat /\ i + 1 \in DOMAIN s /\ i + 1 # 1 /\ r[i] = s[i + 1]
      /\ \A i \in DOMAIN s : i # 1 => i - 1 \in DOMAIN r /\ r[i - 1] = s[i]
  BY TailIndices
<1> HIDE DEF r
<1>3. SetOf(s) = SetOf(r) \cup {Head(s)}
  <2>1. ASSUME NEW y \in SetOf(s) PROVE y \in SetOf(r) \cup {Head(s)}
    <3>1. PICK i \in DOMAIN s : y = s[i]
      BY DEF SetOf
    <3> QED BY <1>1, <1>2, <3>1 DEF SetOf
  <2>2. Head(s) \in SetOf(s) /\ SetOf(r) \subseteq SetOf(s)
    BY <1>1, <1>2 DEF SetOf
  <2> QED BY <2>1, <2>2
<1>4. ASSUME OnceEach(s) PROVE OnceEach(r) /\ Head(s) \notin SetOf(r)
  <2>1. ASSUME NEW i \in DOMAIN r, NEW j \in DOMAIN r, r[i] = r[j] PROVE i = j
    <3>1. i + 1 = j + 1
      BY <1>2, <1>4, <2>1 DEF OnceEach
    <3> QED BY <1>1, <3>1
  <2>2. ASSUME NEW i \in DOMAIN r, Head(s) = r[i] PROVE FALSE
    BY <1>1, <1>2, <1>4, <2>2 DEF OnceEach
  <2> QED BY <2>1, <2>2 DEF OnceEach, SetOf
<1> QED BY <1>1, <1>3, <1>4 DEF r

LEMMA EmptyHasNone ==
  /\ EachOnce(<<>>) /\ OnceEach(<<>>) /\ SetOf(<<>>) = {}
  /\ \A t : ~HasTask(<<>>, t)
BY DEF EachOnce, OnceEach, SetOf, HasTask

-----------------------------------------------------------------------------
(* The queue of tasks.                                                     *)

LEMMA AlikeRegister ==
  ASSUME NEW k \in Conns
  PROVE  /\ \A l \in Conns : Alike(RegisterTask(k), RegisterTask(l)) <=> l = k
         /\ \A l \in Conns : ~Alike(RegisterTask(k), NegotiatedTask(l, TRUE))
         /\ \A l \in Conns : RegisterTask(k) # NegotiatedTask(l, FALSE)
         /\ \A l \in Conns, jd \in Ids : ~Alike(RegisterTask(k), TransferTask(l, jd))
         /\ ~Alike(RegisterTask(k), DumpTask)
BY DEF Alike, RegisterTask, NegotiatedTask, TransferTask, DumpTask

LEMMA AlikeNegotiated ==
  ASSUME NEW k \in Conns, NEW ok \in BOOLEAN
  PROVE  /\ \A l \in Conns : ~Alike(NegotiatedTask(k, ok), RegisterTask(l))
         /\ \A l \in Conns : Alike(NegotiatedTask(k, ok), NegotiatedTask(l, TRUE)) <=> l = k
         /\ \A l \in Conns : NegotiatedTask(k, ok) = NegotiatedTask(l, FALSE) => l = k /\ ~ok
         /\ \A l \in Conns, jd \in Ids : ~Alike(NegotiatedTask(k, ok), TransferTask(l, jd))
         /\ ~Alike(NegotiatedTask(k, ok), DumpTask)
BY DEF Alike, RegisterTask, NegotiatedTask, TransferTask, DumpTask

LEMMA AlikeTransfer ==
  ASSUME NEW k \in Conns, NEW id \in Ids
  PROVE  /\ \A l \in Conns : ~Alike(TransferTask(k, id), RegisterTask(l))
         /\ \A l \in Conns : ~Alike(TransferTask(k, id), NegotiatedTask(l, TRUE))
         /\ \A l \in Conns : TransferTask(k, id) # NegotiatedTask(l, FALSE)
         /\ \A l \in Conns, jd \in Ids :
              Alike(TransferTask(k, id), TransferTask(l, jd)) <=> l = k /\ jd = id
         /\ ~Alike(TransferTask(k, id), DumpTask)
BY DEF Alike, RegisterTask, NegotiatedTask, TransferTask, DumpTask

LEMMA AlikeDump ==
  /\ \A l \in Conns : ~Alike(DumpTask, RegisterTask(l))
  /\ \A l \in Conns : ~Alike(DumpTask, NegotiatedTask(l, TRUE))
  /\ \A l \in Conns : DumpTask # NegotiatedTask(l, FALSE)
  /\ \A l \in Conns, jd \in Ids : ~Alike(DumpTask, TransferTask(l, jd))
  /\ Alike(DumpTask, DumpTask)
BY DEF Alike, RegisterTask, NegotiatedTask, TransferTask, DumpTask

LEMMA TaskTypes ==
  /\ DumpTask \in Tasks
  /\ \A k \in Conns : RegisterTask(k) \in Tasks
  /\ \A k \in Conns, ok \in BOOLEAN : NegotiatedTask(k, ok) \in Tasks
  /\ \A k \in Conns, id \in Ids : TransferTask(k, id) \in Tasks
BY DEF Tasks

LEMMA TaskCases ==
  ASSUME NEW t \in Tasks
  PROVE  \/ t = DumpTask
         \/ \E k \in Conns : t = RegisterTask(k)
         \/ \E k \in Conns, ok \in BOOLEAN : t = NegotiatedTask(k, ok)
         \/ \E k \in Conns, id \in Ids : t = TransferTask(k, id)
BY DEF Tasks

LEMMA TaskKinds ==
  /\ DumpTask.kind = "dump"
  /\ \A k : RegisterTask(k).kind = "register" /\ RegisterTask(k).conn = k
  /\ \A k, ok : NegotiatedTask(k, ok).kind = "negotiated"
  /\ \A k, id : /\ TransferTask(k, id).kind = "transfer"
                /\ TransferTask(k, id).conn = k /\ TransferTask(k, id).id = id
BY DEF RegisterTask, NegotiatedTask, TransferTask, DumpTask

LEMMA AlikeIsEquivalence ==
  /\ \A t : Alike(t, t)
  /\ \A t, u : Alike(t, u) => Alike(u, t)
  /\ \A t, u, v : Alike(t, u) /\ Alike(u, v) => Alike(t, v)
BY DEF Alike

LEMMA AppendHas ==
  ASSUME NEW s \in Seq(Tasks), NEW t \in Tasks
  PROVE  /\ \A u : HasTask(Append(s, t), u) <=> HasTask(s, u) \/ Alike(t, u)
         /\ EachOnce(s) /\ ~HasTask(s, t) => EachOnce(Append(s, t))
<1> DEFINE a == Append(s, t)
<1>1. /\ Len(a) = Len(s) + 1 /\ a[Len(s) + 1] = t
      /\ DOMAIN a = 1 .. Len(s) + 1 /\ DOMAIN s = 1 .. Len(s) /\ Len(s) \in Nat
      /\ \A i \in 1 .. Len(s) : a[i] = s[i]
  OBVIOUS
<1>2. ASSUME NEW u PROVE HasTask(a, u) <=> HasTask(s, u) \/ Alike(t, u)
  <2>1. /\ HasTask(s, u) => HasTask(a, u)
        /\ Alike(t, u) => HasTask(a, u)
    BY <1>1 DEF HasTask
  <2>2. ASSUME NEW i \in DOMAIN a, Alike(a[i], u), ~Alike(t, u) PROVE HasTask(s, u)
    <3>1. i \in 1 .. Len(s)
      BY <1>1, <2>2
    <3> QED BY <1>1, <2>2, <3>1 DEF HasTask
  <2> QED BY <2>1, <2>2 DEF HasTask
<1>3. ASSUME EachOnce(s), ~HasTask(s, t), NEW i \in DOMAIN a, NEW j \in DOMAIN a, Alike(a[i], a[j])
      PROVE  i = j
  <2>1. CASE i \in 1 .. Len(s) /\ j \in 1 .. Len(s)
    BY <1>1, <1>3, <2>1 DEF EachOnce
  <2>2. CASE i = Len(s) + 1 /\ j \in 1 .. Len(s)
    BY <1>1, <1>3, <2>2, AlikeIsEquivalence DEF HasTask
  <2>3. CASE i \in 1 .. Len(s) /\ j = Len(s) + 1
    BY <1>1, <1>3, <2>3 DEF HasTask
  <2> QED BY <1>1, <1>3, <2>1, <2>2, <2>3
<1> QED BY <1>2, <1>3 DEF EachOnce

LEMMA TailHas ==
  ASSUME NEW s \in Seq(Tasks), s # <<>>
  PROVE  /\ \A u : HasTask(s, u) <=> HasTask(Tail(s), u) \/ Alike(Head(s), u)
         /\ EachOnce(s) => /\ EachOnce(Tail(s))
                           /\ \A u : HasTask(Tail(s), u) => ~Alike(Head(s), u)
<1> DEFINE r == Tail(s)
<1>1. Head(s) = s[1] /\ 1 \in DOMAIN s
  BY TailIndices
<1>2. /\ \A i \in DOMAIN r : i \in Nat /\ i + 1 \in DOMAIN s /\ i + 1 # 1 /\ r[i] = s[i + 1]
      /\ \A i \in DOMAIN s : i # 1 => i - 1 \in DOMAIN r /\ r[i - 1] = s[i]
  BY TailIndices
<1> HIDE DEF r
<1>3. ASSUME NEW u PROVE HasTask(s, u) <=> HasTask(r, u) \/ Alike(Head(s), u)
  BY <1>1, <1>2 DEF HasTask
<1>4. ASSUME EachOnce(s), NEW i \in DOMAIN r, NEW j \in DOMAIN r, Alike(r[i], r[j]) PROVE i = j
  <2>1. i + 1 = j + 1
    BY <1>2, <1>4 DEF EachOnce
  <2> QED BY <1>1, <2>1
<1>5. ASSUME EachOnce(s), NEW u, HasTask(r, u), Alike(Head(s), u) PROVE FALSE
  <2>1. PICK i \in DOMAIN r : Alike(r[i], u)
    BY <1>5 DEF HasTask
  <2>2. Alike(s[1], s[i + 1])
    BY <1>1, <1>2, <1>5, <2>1, AlikeIsEquivalence
  <2> QED BY <1>2, <1>5, <2>2 DEF EachOnce
<1> QED BY <1>3, <1>4, <1>5 DEF EachOnce, r

\* A new task is scheduled.
LEMMA ScheduleEffect ==
  ASSUME TypeOK, TasksAreUnique, NEW t \in Tasks, Schedule(t), batch' = batch, ~InTasks(t)
  PROVE  /\ pending' \in Seq(Tasks) /\ pending' # <<>> /\ wake' = TRUE /\ TasksAreUnique'
         /\ \A u : HasTask(pending', u) \/ HasTask(batch', u) <=> InTasks(u) \/ Alike(t, u)
         /\ SetOf(pending') \cup SetOf(batch') = SetOf(pending) \cup SetOf(batch) \cup {t}
<1>1. pending' = Append(pending, t) /\ wake' = TRUE /\ pending \in Seq(Tasks)
  BY DEF Schedule, TypeOK
<1>2. /\ pending' \in Seq(Tasks) /\ pending' # <<>> /\ SetOf(pending') = SetOf(pending) \cup {t}
      /\ \A u : HasTask(pending', u) <=> HasTask(pending, u) \/ Alike(t, u)
      /\ EachOnce(pending')
  BY <1>1, AppendSet, AppendHas DEF TasksAreUnique, InTasks
<1>3. \A u : Alike(t, u) /\ HasTask(batch, u) => HasTask(batch, t)
  BY AlikeIsEquivalence DEF HasTask
<1>4. TasksAreUnique'
  BY <1>2, <1>3 DEF TasksAreUnique, InTasks
<1>5. \A u : HasTask(pending', u) \/ HasTask(batch', u) <=> InTasks(u) \/ Alike(t, u)
  BY <1>2 DEF InTasks
<1>6. SetOf(pending') \cup SetOf(batch') = SetOf(pending) \cup SetOf(batch) \cup {t}
  BY <1>2
<1> QED BY <1>1, <1>2, <1>4, <1>5, <1>6

\* The step takes t from the queue or the batch.
Removes(t) ==
  /\ InTasks(t) /\ t \in SetOf(pending) \cup SetOf(batch)
  /\ \A u : HasTask(pending', u) \/ HasTask(batch', u) <=> InTasks(u) /\ ~Alike(t, u)
  /\ SetOf(pending') \cup SetOf(batch') \subseteq SetOf(pending) \cup SetOf(batch)

\* The reactor thread runs a task.
LEMMA RunTaskEffect ==
  ASSUME IInv, NEW t \in Tasks, RunTask(t)
  PROVE  /\ batch' \in Seq(Tasks) /\ TasksAreUnique' /\ Removes(t) /\ thread = "loop"
         /\ UNCHANGED <<broken, inbound, arrived, answered, reading, worker, deferred,
                        pending, wake, thread, stopper, flagged>>
<1>1. /\ batch # <<>> /\ Head(batch) = t /\ batch' = Tail(batch) /\ batch \in Seq(Tasks)
      /\ UNCHANGED <<broken, inbound, arrived, answered, reading, worker, deferred,
                     pending, wake, thread, stopper, flagged>>
  BY DEF RunTask, IInv, TypeOK, serviceVars
<1>2. TasksAreUnique /\ ShutdownIsInOrder /\ thread \in {"loop", "exited"}
  BY DEF IInv, TaskInv, StopInv, TypeOK
<1>3. /\ batch' \in Seq(Tasks) /\ SetOf(batch') \subseteq SetOf(batch) /\ t \in SetOf(batch)
      /\ \A u : HasTask(batch, u) <=> HasTask(batch', u) \/ Alike(t, u)
      /\ EachOnce(batch') /\ \A u : HasTask(batch', u) => ~Alike(t, u)
  BY <1>1, <1>2, TailSet, TailHas DEF TasksAreUnique
<1>4. HasTask(batch, t) /\ InTasks(t)
  BY <1>3, AlikeIsEquivalence DEF InTasks
<1>5. ~HasTask(pending, t) /\ TasksAreUnique'
  BY <1>1, <1>2, <1>3, <1>4 DEF TasksAreUnique
<1>6. thread = "loop"
  BY <1>1, <1>2 DEF ShutdownIsInOrder
<1>7. ASSUME NEW u, Alike(t, u) PROVE ~HasTask(pending, u)
  BY <1>5, <1>7, AlikeIsEquivalence DEF HasTask
<1>8. \A u : HasTask(pending', u) \/ HasTask(batch', u) <=> InTasks(u) /\ ~Alike(t, u)
  BY <1>1, <1>3, <1>7 DEF InTasks
<1>9. SetOf(pending') \cup SetOf(batch') \subseteq SetOf(pending) \cup SetOf(batch)
  BY <1>1, <1>3
<1>10. Removes(t)
  BY <1>3, <1>4, <1>8, <1>9 DEF Removes
<1> QED BY <1>1, <1>3, <1>5, <1>6, <1>10

\* The stopper aborts a task.
LEMMA AbortEffect ==
  ASSUME TypeOK, TasksAreUnique, pending # <<>>, pending' = Tail(pending), batch' = batch
  PROVE  /\ pending' \in Seq(Tasks) /\ Head(pending) \in Tasks
         /\ TasksAreUnique' /\ Removes(Head(pending))
<1> DEFINE t == Head(pending)
<1>1. pending \in Seq(Tasks)
  BY DEF TypeOK
<1>2. /\ pending' \in Seq(Tasks) /\ SetOf(pending') \subseteq SetOf(pending)
      /\ t \in Tasks /\ t \in SetOf(pending)
      /\ \A u : HasTask(pending, u) <=> HasTask(pending', u) \/ Alike(t, u)
      /\ EachOnce(pending') /\ \A u : HasTask(pending', u) => ~Alike(t, u)
  BY <1>1, TailSet, TailHas DEF TasksAreUnique
<1> HIDE DEF t
<1>3. HasTask(pending, t) /\ InTasks(t)
  BY <1>2, AlikeIsEquivalence DEF InTasks
<1>4. ~HasTask(batch, t) /\ TasksAreUnique'
  BY <1>2, <1>3 DEF TasksAreUnique
<1>5. ASSUME NEW u, Alike(t, u) PROVE ~HasTask(batch, u)
  BY <1>4, <1>5, AlikeIsEquivalence DEF HasTask
<1>6. \A u : HasTask(pending', u) \/ HasTask(batch', u) <=> InTasks(u) /\ ~Alike(t, u)
  BY <1>2, <1>5 DEF InTasks
<1>7. SetOf(pending') \cup SetOf(batch') \subseteq SetOf(pending) \cup SetOf(batch)
  BY <1>2
<1>8. Removes(t)
  BY <1>2, <1>3, <1>6, <1>7 DEF Removes
<1> QED BY <1>2, <1>4, <1>8 DEF t

\* One lemma per kind of task: what is left for whom.
LEMMA RegisterScheduled ==
  ASSUME TypeOK, TasksAreUnique, NEW k \in Conns, Schedule(RegisterTask(k)), batch' = batch,
         ~ToRegister(k)
  PROVE  /\ pending' \in Seq(Tasks) /\ pending' # <<>> /\ wake' = TRUE /\ TasksAreUnique'
         /\ \A l \in Conns : /\ ToRegister(l)' <=> ToRegister(l) \/ l = k
                             /\ Negotiated(l)' <=> Negotiated(l)
                             /\ FailedToNegotiate(l)' => FailedToNegotiate(l)
         /\ \A l \in Conns, jd \in Ids : ToTransfer(l, jd)' <=> ToTransfer(l, jd)
         /\ ToDump' <=> ToDump
<1> DEFINE t == RegisterTask(k)
<1>1. t \in Tasks /\ ~InTasks(t)
  BY TaskTypes DEF ToRegister
<1> HIDE DEF t
<1>2. /\ pending' \in Seq(Tasks) /\ pending' # <<>> /\ wake' = TRUE /\ TasksAreUnique'
      /\ \A u : HasTask(pending', u) \/ HasTask(batch', u) <=> InTasks(u) \/ Alike(t, u)
      /\ SetOf(pending') \cup SetOf(batch') = SetOf(pending) \cup SetOf(batch) \cup {t}
  BY <1>1, ScheduleEffect DEF t
<1>3. /\ \A l \in Conns : ToRegister(l)' <=> ToRegister(l) \/ l = k
      /\ \A l \in Conns : Negotiated(l)' <=> Negotiated(l)
      /\ \A l \in Conns, jd \in Ids : ToTransfer(l, jd)' <=> ToTransfer(l, jd)
      /\ ToDump' <=> ToDump
  BY <1>2, AlikeRegister DEF ToRegister, Negotiated, ToTransfer, ToDump, InTasks, t
<1>4. \A l \in Conns : FailedToNegotiate(l)' => FailedToNegotiate(l)
  BY <1>2, AlikeRegister DEF FailedToNegotiate, t
<1> QED BY <1>2, <1>3, <1>4

LEMMA NegotiatedScheduled ==
  ASSUME TypeOK, TasksAreUnique, NEW k \in Conns, NEW ok \in BOOLEAN,
         Schedule(NegotiatedTask(k, ok)), batch' = batch,
         ~InTasks(NegotiatedTask(k, ok))
  PROVE  /\ pending' \in Seq(Tasks) /\ pending' # <<>> /\ wake' = TRUE /\ TasksAreUnique'
         /\ \A l \in Conns : /\ ToRegister(l)' <=> ToRegister(l)
                             /\ Negotiated(l)' <=> Negotiated(l) \/ l = k
                             /\ FailedToNegotiate(l)' => FailedToNegotiate(l) \/ (l = k /\ ~ok)
         /\ \A l \in Conns, jd \in Ids :
              ToTransfer(l, jd)' <=> ToTransfer(l, jd)
         /\ ToDump' <=> ToDump
<1> DEFINE t == NegotiatedTask(k, ok)
<1>1. t \in Tasks /\ ~InTasks(t)
  BY TaskTypes DEF InTasks
<1> HIDE DEF t
<1>2. /\ pending' \in Seq(Tasks) /\ pending' # <<>> /\ wake' = TRUE /\ TasksAreUnique'
      /\ \A u : HasTask(pending', u) \/ HasTask(batch', u) <=> InTasks(u) \/ Alike(t, u)
      /\ SetOf(pending') \cup SetOf(batch') = SetOf(pending) \cup SetOf(batch) \cup {t}
  BY <1>1, ScheduleEffect DEF t
<1>3. /\ \A l \in Conns : ToRegister(l)' <=> ToRegister(l)
      /\ \A l \in Conns : Negotiated(l)' <=> Negotiated(l) \/ l = k
      /\ \A l \in Conns, jd \in Ids :
           ToTransfer(l, jd)' <=> ToTransfer(l, jd)
      /\ ToDump' <=> ToDump
  BY <1>2, AlikeNegotiated DEF ToRegister, Negotiated, ToTransfer, ToDump, InTasks, t
<1>4. ASSUME NEW l \in Conns, FailedToNegotiate(l)', ~FailedToNegotiate(l) PROVE l = k /\ ~ok
  <2>1. NegotiatedTask(l, FALSE) = t
    BY <1>2, <1>4 DEF FailedToNegotiate
  <2>2. NegotiatedTask(l, FALSE).conn = l /\ ~NegotiatedTask(l, FALSE).ok
    BY DEF NegotiatedTask
  <2>3. t.conn = k /\ t.ok = ok
    BY DEF t, NegotiatedTask
  <2> QED BY <2>1, <2>2, <2>3
<1> QED BY <1>2, <1>3, <1>4

LEMMA TransferScheduled ==
  ASSUME TypeOK, TasksAreUnique, NEW k \in Conns, NEW id \in Ids,
         Schedule(TransferTask(k, id)), batch' = batch,
         ~ToTransfer(k, id)
  PROVE  /\ pending' \in Seq(Tasks) /\ pending' # <<>> /\ wake' = TRUE /\ TasksAreUnique'
         /\ \A l \in Conns : /\ ToRegister(l)' <=> ToRegister(l)
                             /\ Negotiated(l)' <=> Negotiated(l)
                             /\ FailedToNegotiate(l)' => FailedToNegotiate(l)
         /\ \A l \in Conns, jd \in Ids :
              ToTransfer(l, jd)' <=> ToTransfer(l, jd) \/ (l = k /\ jd = id)
         /\ ToDump' <=> ToDump
<1> DEFINE t == TransferTask(k, id)
<1>1. t \in Tasks /\ ~InTasks(t)
  BY TaskTypes DEF ToTransfer
<1> HIDE DEF t
<1>2. /\ pending' \in Seq(Tasks) /\ pending' # <<>> /\ wake' = TRUE /\ TasksAreUnique'
      /\ \A u : HasTask(pending', u) \/ HasTask(batch', u) <=> InTasks(u) \/ Alike(t, u)
      /\ SetOf(pending') \cup SetOf(batch') = SetOf(pending) \cup SetOf(batch) \cup {t}
  BY <1>1, ScheduleEffect DEF t
<1>3. /\ \A l \in Conns : ToRegister(l)' <=> ToRegister(l)
      /\ \A l \in Conns : Negotiated(l)' <=> Negotiated(l)
      /\ ToDump' <=> ToDump
  BY <1>2, AlikeTransfer DEF ToRegister, Negotiated, ToTransfer, ToDump, InTasks, t
<1>5. ASSUME NEW l \in Conns, NEW jd \in Ids
      PROVE  ToTransfer(l, jd)' <=> ToTransfer(l, jd) \/ (l = k /\ jd = id)
  <2>1. ToTransfer(l, jd)' <=> ToTransfer(l, jd) \/ Alike(t, TransferTask(l, jd))
    BY <1>2 DEF ToTransfer, InTasks
  <2>2. Alike(t, TransferTask(l, jd)) <=> l = k /\ jd = id
    BY AlikeTransfer DEF t
  <2> QED BY <2>1, <2>2
<1>4. \A l \in Conns : FailedToNegotiate(l)' => FailedToNegotiate(l)
  BY <1>2, AlikeTransfer DEF FailedToNegotiate, t
<1> QED BY <1>2, <1>3, <1>4, <1>5

LEMMA DumpScheduled ==
  ASSUME TypeOK, TasksAreUnique, Schedule(DumpTask), batch' = batch,
         ~ToDump
  PROVE  /\ pending' \in Seq(Tasks) /\ pending' # <<>> /\ wake' = TRUE /\ TasksAreUnique'
         /\ \A l \in Conns : /\ ToRegister(l)' <=> ToRegister(l)
                             /\ Negotiated(l)' <=> Negotiated(l)
                             /\ FailedToNegotiate(l)' => FailedToNegotiate(l)
         /\ \A l \in Conns, jd \in Ids :
              ToTransfer(l, jd)' <=> ToTransfer(l, jd)
         /\ ToDump'
<1> DEFINE t == DumpTask
<1>1. t \in Tasks /\ ~InTasks(t)
  BY TaskTypes DEF ToDump
<1> HIDE DEF t
<1>2. /\ pending' \in Seq(Tasks) /\ pending' # <<>> /\ wake' = TRUE /\ TasksAreUnique'
      /\ \A u : HasTask(pending', u) \/ HasTask(batch', u) <=> InTasks(u) \/ Alike(t, u)
      /\ SetOf(pending') \cup SetOf(batch') = SetOf(pending) \cup SetOf(batch) \cup {t}
  BY <1>1, ScheduleEffect DEF t
<1>3. /\ \A l \in Conns : ToRegister(l)' <=> ToRegister(l)
      /\ \A l \in Conns : Negotiated(l)' <=> Negotiated(l)
      /\ \A l \in Conns, jd \in Ids :
           ToTransfer(l, jd)' <=> ToTransfer(l, jd)
      /\ ToDump'
  BY <1>2, AlikeDump DEF ToRegister, Negotiated, ToTransfer, ToDump, InTasks, t
<1>4. \A l \in Conns : FailedToNegotiate(l)' => FailedToNegotiate(l)
  BY <1>2, AlikeDump DEF FailedToNegotiate, t
<1> QED BY <1>2, <1>3, <1>4

LEMMA NegotiationsAreAlike ==
  ASSUME NEW k \in Conns, NEW ok \in BOOLEAN
  PROVE  /\ InTasks(NegotiatedTask(k, ok)) => Negotiated(k)
         /\ FailedToNegotiate(k) => Negotiated(k)
<1>1. Alike(NegotiatedTask(k, ok), NegotiatedTask(k, TRUE))
  BY AlikeNegotiated
<1>2. Alike(NegotiatedTask(k, FALSE), NegotiatedTask(k, TRUE))
  BY AlikeNegotiated
<1>3. ASSUME FailedToNegotiate(k) PROVE Negotiated(k)
  BY <1>2, <1>3 DEF FailedToNegotiate, Negotiated, InTasks, HasTask, SetOf
<1>4. ASSUME InTasks(NegotiatedTask(k, ok)) PROVE Negotiated(k)
  BY <1>1, <1>4, AlikeIsEquivalence DEF Negotiated, InTasks, HasTask
<1> QED BY <1>3, <1>4

LEMMA RegisterRemoved ==
  ASSUME NEW k \in Conns, Removes(RegisterTask(k))
  PROVE  /\ ToRegister(k)
         /\ \A l \in Conns : /\ ToRegister(l)' <=> ToRegister(l) /\ l # k
                             /\ Negotiated(l)' <=> Negotiated(l)
                             /\ FailedToNegotiate(l)' => FailedToNegotiate(l)
         /\ \A l \in Conns, jd \in Ids :
              ToTransfer(l, jd)' <=> ToTransfer(l, jd)
         /\ ToDump' <=> ToDump
<1> DEFINE t == RegisterTask(k)
<1> HIDE DEF t
<1>1. /\ InTasks(t) /\ t \in SetOf(pending) \cup SetOf(batch)
      /\ \A u : HasTask(pending', u) \/ HasTask(batch', u) <=> InTasks(u) /\ ~Alike(t, u)
      /\ SetOf(pending') \cup SetOf(batch') \subseteq SetOf(pending) \cup SetOf(batch)
  BY DEF Removes, t
<1>2. /\ \A l \in Conns : ToRegister(l)' <=> ToRegister(l) /\ l # k
      /\ \A l \in Conns : Negotiated(l)' <=> Negotiated(l)
      /\ ToDump' <=> ToDump
  BY <1>1, AlikeRegister DEF ToRegister, Negotiated, ToDump, InTasks, t
<1>3. ASSUME NEW l \in Conns, NEW jd \in Ids
      PROVE  ToTransfer(l, jd)' <=> ToTransfer(l, jd)
  <2>1. ToTransfer(l, jd)' <=> ToTransfer(l, jd) /\ ~Alike(t, TransferTask(l, jd))
    BY <1>1 DEF ToTransfer, InTasks
  <2> QED BY <2>1, AlikeRegister DEF t
<1>4. \A l \in Conns : FailedToNegotiate(l)' => FailedToNegotiate(l)
  BY <1>1 DEF FailedToNegotiate
<1>5. ToRegister(k)
  BY <1>1 DEF FailedToNegotiate, ToRegister, Negotiated, ToTransfer, ToDump, t
<1> QED BY <1>2, <1>3, <1>4, <1>5

LEMMA NegotiatedRemoved ==
  ASSUME NEW k \in Conns, NEW ok \in BOOLEAN, Removes(NegotiatedTask(k, ok))
  PROVE  /\ Negotiated(k) /\ (~ok => FailedToNegotiate(k))
         /\ \A l \in Conns : /\ ToRegister(l)' <=> ToRegister(l)
                             /\ Negotiated(l)' <=> Negotiated(l) /\ l # k
                             /\ FailedToNegotiate(l)' => FailedToNegotiate(l)
         /\ \A l \in Conns, jd \in Ids :
              ToTransfer(l, jd)' <=> ToTransfer(l, jd)
         /\ ToDump' <=> ToDump
<1> DEFINE t == NegotiatedTask(k, ok)
<1> HIDE DEF t
<1>1. /\ InTasks(t) /\ t \in SetOf(pending) \cup SetOf(batch)
      /\ \A u : HasTask(pending', u) \/ HasTask(batch', u) <=> InTasks(u) /\ ~Alike(t, u)
      /\ SetOf(pending') \cup SetOf(batch') \subseteq SetOf(pending) \cup SetOf(batch)
  BY DEF Removes, t
<1>2. /\ \A l \in Conns : ToRegister(l)' <=> ToRegister(l)
      /\ \A l \in Conns : Negotiated(l)' <=> Negotiated(l) /\ l # k
      /\ ToDump' <=> ToDump
  BY <1>1, AlikeNegotiated DEF ToRegister, Negotiated, ToDump, InTasks, t
<1>3. ASSUME NEW l \in Conns, NEW jd \in Ids
      PROVE  ToTransfer(l, jd)' <=> ToTransfer(l, jd)
  <2>1. ToTransfer(l, jd)' <=> ToTransfer(l, jd) /\ ~Alike(t, TransferTask(l, jd))
    BY <1>1 DEF ToTransfer, InTasks
  <2> QED BY <2>1, AlikeNegotiated DEF t
<1>4. \A l \in Conns : FailedToNegotiate(l)' => FailedToNegotiate(l)
  BY <1>1 DEF FailedToNegotiate
<1>5. Negotiated(k) /\ (~ok => FailedToNegotiate(k))
  <2>1. Negotiated(k)
    BY <1>1, NegotiationsAreAlike DEF t
  <2>2. ASSUME ~ok PROVE FailedToNegotiate(k)
    <3>1. ok = FALSE
      BY <2>2
    <3> QED BY <1>1, <3>1 DEF FailedToNegotiate, t
  <2> QED BY <2>1, <2>2
<1> QED BY <1>2, <1>3, <1>4, <1>5

LEMMA TransferRemoved ==
  ASSUME NEW k \in Conns, NEW id \in Ids, Removes(TransferTask(k, id))
  PROVE  /\ ToTransfer(k, id)
         /\ \A l \in Conns : /\ ToRegister(l)' <=> ToRegister(l)
                             /\ Negotiated(l)' <=> Negotiated(l)
                             /\ FailedToNegotiate(l)' => FailedToNegotiate(l)
         /\ \A l \in Conns, jd \in Ids :
              ToTransfer(l, jd)' <=> ToTransfer(l, jd) /\ ~(l = k /\ jd = id)
         /\ ToDump' <=> ToDump
<1> DEFINE t == TransferTask(k, id)
<1> HIDE DEF t
<1>1. /\ InTasks(t) /\ t \in SetOf(pending) \cup SetOf(batch)
      /\ \A u : HasTask(pending', u) \/ HasTask(batch', u) <=> InTasks(u) /\ ~Alike(t, u)
      /\ SetOf(pending') \cup SetOf(batch') \subseteq SetOf(pending) \cup SetOf(batch)
  BY DEF Removes, t
<1>2. /\ \A l \in Conns : ToRegister(l)' <=> ToRegister(l)
      /\ \A l \in Conns : Negotiated(l)' <=> Negotiated(l)
      /\ ToDump' <=> ToDump
  BY <1>1, AlikeTransfer DEF ToRegister, Negotiated, ToDump, InTasks, t
<1>3. ASSUME NEW l \in Conns, NEW jd \in Ids
      PROVE  ToTransfer(l, jd)' <=> ToTransfer(l, jd) /\ ~(l = k /\ jd = id)
  <2>1. ToTransfer(l, jd)' <=> ToTransfer(l, jd) /\ ~Alike(t, TransferTask(l, jd))
    BY <1>1 DEF ToTransfer, InTasks
  <2>2. Alike(t, TransferTask(l, jd)) <=> l = k /\ jd = id
    BY AlikeTransfer DEF t
  <2> QED BY <2>1, <2>2
<1>4. \A l \in Conns : FailedToNegotiate(l)' => FailedToNegotiate(l)
  BY <1>1 DEF FailedToNegotiate
<1>5. ToTransfer(k, id)
  BY <1>1 DEF FailedToNegotiate, ToRegister, Negotiated, ToTransfer, ToDump, t
<1> QED BY <1>2, <1>3, <1>4, <1>5

LEMMA DumpRemoved ==
  ASSUME Removes(DumpTask)
  PROVE  /\ ToDump
         /\ \A l \in Conns : /\ ToRegister(l)' <=> ToRegister(l)
                             /\ Negotiated(l)' <=> Negotiated(l)
                             /\ FailedToNegotiate(l)' => FailedToNegotiate(l)
         /\ \A l \in Conns, jd \in Ids :
              ToTransfer(l, jd)' <=> ToTransfer(l, jd)
         /\ ~ToDump'
<1> DEFINE t == DumpTask
<1> HIDE DEF t
<1>1. /\ InTasks(t) /\ t \in SetOf(pending) \cup SetOf(batch)
      /\ \A u : HasTask(pending', u) \/ HasTask(batch', u) <=> InTasks(u) /\ ~Alike(t, u)
      /\ SetOf(pending') \cup SetOf(batch') \subseteq SetOf(pending) \cup SetOf(batch)
  BY DEF Removes, t
<1>2. /\ \A l \in Conns : ToRegister(l)' <=> ToRegister(l)
      /\ \A l \in Conns : Negotiated(l)' <=> Negotiated(l)
      /\ ~ToDump'
  BY <1>1, AlikeDump DEF ToRegister, Negotiated, ToDump, InTasks, t
<1>3. ASSUME NEW l \in Conns, NEW jd \in Ids
      PROVE  ToTransfer(l, jd)' <=> ToTransfer(l, jd)
  <2>1. ToTransfer(l, jd)' <=> ToTransfer(l, jd) /\ ~Alike(t, TransferTask(l, jd))
    BY <1>1 DEF ToTransfer, InTasks
  <2> QED BY <2>1, AlikeDump DEF t
<1>4. \A l \in Conns : FailedToNegotiate(l)' => FailedToNegotiate(l)
  BY <1>1 DEF FailedToNegotiate
<1>5. ToDump
  BY <1>1 DEF FailedToNegotiate, ToRegister, Negotiated, ToTransfer, ToDump, t
<1> QED BY <1>2, <1>3, <1>4, <1>5

\* Nothing is scheduled and nothing is run.
LEMMA TasksKept ==
  ASSUME UNCHANGED <<pending, batch>>
  PROVE  /\ TasksAreUnique' <=> TasksAreUnique
         /\ \A l \in Conns : /\ ToRegister(l)' <=> ToRegister(l)
                             /\ Negotiated(l)' <=> Negotiated(l)
                             /\ FailedToNegotiate(l)' => FailedToNegotiate(l)
         /\ \A l \in Conns, jd \in Ids : ToTransfer(l, jd)' <=> ToTransfer(l, jd)
         /\ ToDump' <=> ToDump
<1>1. TasksAreUnique' <=> TasksAreUnique
  BY DEF TasksAreUnique
<1>2. \A l \in Conns : FailedToNegotiate(l)' => FailedToNegotiate(l)
  BY DEF FailedToNegotiate
<1> QED BY <1>1, <1>2 DEF ToRegister, Negotiated, ToTransfer, ToDump, InTasks

-----------------------------------------------------------------------------
(* Facts about the invariant.                                              *)

LEMMA InvParts ==
  ASSUME IInv
  PROVE  /\ TypeOK /\ TasksAreUnique /\ TasksFollowConnections
         /\ WriterIsAlone /\ ShutdownIsInOrder /\ NoHandlerAfterUnregister
         /\ CallsFollowConnections /\ HeldOnce /\ LostOnlyIfBroken
BY DEF IInv, TaskInv, StopInv, CallInv

LEMMA ReadingType ==
  ASSUME TypeOK, reading.held
  PROVE  reading.conn \in Conns /\ reading.id \in Ids /\ reading.cpu \in CPUs
BY DEF TypeOK, Reading, Nothing

LEMMA ReadingIsTyped ==
  /\ Nothing.held = FALSE
  /\ \A k, id, cpu : /\ Reading(k, id, cpu).held /\ Reading(k, id, cpu).conn = k
                     /\ Reading(k, id, cpu).id = id
BY DEF Nothing, Reading

\* Connections keep what their tasks rest on.
LEMMA TasksStillFollow ==
  ASSUME TasksFollowConnections, UNCHANGED <<negotiation, thread>>,
         \A k \in Conns : conn'[k] = conn[k] \/ (conn[k] = "open" /\ conn'[k] = "closed"),
         \A k \in Conns : broken[k] => broken'[k],
         \A k \in Conns : /\ ToRegister(k)' <=> ToRegister(k)
                          /\ Negotiated(k)' <=> Negotiated(k)
                          /\ FailedToNegotiate(k)' => FailedToNegotiate(k)
  PROVE  TasksFollowConnections'
<1>1. ASSUME NEW k \in Conns
      PROVE  /\ conn'[k] = "accepted" <=> conn[k] = "accepted"
             /\ conn'[k] = "negotiating" <=> conn[k] = "negotiating"
  OBVIOUS
<1> QED BY <1>1 DEF TasksFollowConnections

LEMMA StopperStillAlone ==
  ASSUME IInv, UNCHANGED <<negotiation, dumper, stopper, flagged, thread>>,
         worker' \subseteq worker \/ Registered,
         ToDump' => ToDump,
         closing => pending' = pending,
         thread = "loop" \/ (UNCHANGED <<conn, batch>> /\ ~reading'.held)
  PROVE  StopInv'
<1>1. WriterIsAlone /\ ShutdownIsInOrder /\ NoHandlerAfterUnregister
  BY InvParts
<1>2. WriterIsAlone'
  BY <1>1 DEF WriterIsAlone, DumperHolds
<1>3. ShutdownIsInOrder'
  BY <1>1 DEF ShutdownIsInOrder, PoolOpen, closing
<1>4. NoHandlerAfterUnregister'
  BY <1>1 DEF NoHandlerAfterUnregister, Registered
<1> QED BY <1>2, <1>3, <1>4 DEF StopInv

\* The parts of the calls' invariant for one call that changes hands.
LEMMA HeldMoves ==
  ASSUME HeldOnce, NEW k \in Conns, NEW id \in Ids,
         Held(k, id)' = One(id \in calls'[k]),
         \A l \in Conns, jd \in Ids : l # k \/ jd # id =>
           Held(l, jd)' = Held(l, jd) /\ (jd \in calls'[l] <=> jd \in calls[l])
  PROVE  HeldOnce'
<1>1. ASSUME NEW l \in Conns, NEW jd \in Ids PROVE Held(l, jd)' = One(jd \in calls'[l])
  <2>1. CASE l = k /\ jd = id
    BY <2>1
  <2>2. CASE l # k \/ jd # id
    <3>1. Held(l, jd)' = Held(l, jd) /\ (jd \in calls'[l] <=> jd \in calls[l])
      BY <2>2
    <3> QED BY <3>1 DEF HeldOnce, One
  <2> QED BY <2>1, <2>2
<1> QED BY <1>1 DEF HeldOnce

\* What a party that has a call may rely on.
LEMMA HolderIsAlone ==
  ASSUME IInv, NEW k \in Conns, NEW id \in Ids
  PROVE  /\ <<k, id>> \in worker =>
              /\ id \in calls[k] /\ ~(reading.held /\ reading.conn = k /\ reading.id = id)
              /\ <<k, id>> \notin deferred /\ ~ToTransfer(k, id) /\ id \notin SetOf(outq[k])
         /\ <<k, id>> \in deferred =>
              /\ id \in calls[k] /\ ~(reading.held /\ reading.conn = k /\ reading.id = id)
              /\ <<k, id>> \notin worker /\ ~ToTransfer(k, id) /\ id \notin SetOf(outq[k])
         /\ reading.held /\ reading.conn = k /\ reading.id = id =>
              /\ id \in calls[k] /\ <<k, id>> \notin worker /\ <<k, id>> \notin deferred
              /\ ~ToTransfer(k, id) /\ id \notin SetOf(outq[k])
         /\ id \in SetOf(outq[k]) =>
              /\ id \in calls[k] /\ ~(reading.held /\ reading.conn = k /\ reading.id = id)
              /\ <<k, id>> \notin worker /\ <<k, id>> \notin deferred /\ ~ToTransfer(k, id)
         /\ ToTransfer(k, id) =>
              /\ id \in calls[k] /\ ~(reading.held /\ reading.conn = k /\ reading.id = id)
              /\ <<k, id>> \notin worker /\ <<k, id>> \notin deferred
              /\ id \notin SetOf(outq[k])
         /\ id \notin calls[k] =>
              /\ ~(reading.held /\ reading.conn = k /\ reading.id = id)
              /\ <<k, id>> \notin worker /\ <<k, id>> \notin deferred
              /\ ~ToTransfer(k, id) /\ id \notin SetOf(outq[k])
         /\ id \in calls[k] =>
              \/ reading.held /\ reading.conn = k /\ reading.id = id
              \/ <<k, id>> \in worker \/ <<k, id>> \in deferred
              \/ ToTransfer(k, id) \/ id \in SetOf(outq[k])
<1>1. Held(k, id) = One(id \in calls[k])
  BY InvParts DEF HeldOnce
<1> DEFINE r == reading.held /\ reading.conn = k /\ reading.id = id
           w == <<k, id>> \in worker
           d == <<k, id>> \in deferred
           p == ToTransfer(k, id)
           q == id \in SetOf(outq[k])
           c == id \in calls[k]
<1>2. One(r) + One(w) + One(d) + One(p) + One(q) = One(c)
  BY <1>1 DEF Held
<1> HIDE DEF r, w, d, p, q, c
<1>3. /\ w => c /\ ~r /\ ~d /\ ~p /\ ~q
      /\ d => c /\ ~r /\ ~w /\ ~p /\ ~q
      /\ r => c /\ ~w /\ ~d /\ ~p /\ ~q
      /\ q => c /\ ~r /\ ~w /\ ~d /\ ~p
      /\ p => c /\ ~r /\ ~w /\ ~d /\ ~q
      /\ ~c => ~r /\ ~w /\ ~d /\ ~p /\ ~q
      /\ c => r \/ w \/ d \/ p \/ q
  BY <1>2 DEF One
<1> QED BY <1>3 DEF r, w, d, p, q, c

-----------------------------------------------------------------------------
(* Calls and their responses.                                              *)

\* The call's holder gives it to the reactor, or aborts it.
LEMMA ResponseEffect ==
  ASSUME IInv, NEW k \in Conns, NEW id \in Ids, id \in calls[k],
         ~ToTransfer(k, id), QueueResponseForCall(k, id),
         UNCHANGED <<conn, negotiation, broken, inbound, arrived, outq, answered, batch,
                     thread, dumper, stopper, flagged>>,
         reading' = reading \/ ~reading'.held,
         worker' \subseteq worker
  PROVE  /\ pending' \in Seq(Tasks) /\ wake' \in BOOLEAN /\ calls' \in [Conns -> SUBSET Ids]
         /\ TaskInv' /\ StopInv' /\ CallsFollowConnections' /\ LostOnlyIfBroken'
         /\ ToTransfer(k, id)' <=> id \in calls'[k]
         /\ \A l \in Conns, jd \in Ids : l # k \/ jd # id =>
              /\ ToTransfer(l, jd)' <=> ToTransfer(l, jd)
              /\ jd \in calls'[l] <=> jd \in calls[l]
<1>1. /\ TypeOK /\ TasksAreUnique /\ TasksFollowConnections /\ CallsFollowConnections
      /\ LostOnlyIfBroken /\ ShutdownIsInOrder
  BY InvParts
<1>2. CASE Accepts /\ Schedule(TransferTask(k, id)) /\ UNCHANGED calls
  <2>1. /\ pending' \in Seq(Tasks) /\ wake' = TRUE /\ TasksAreUnique'
        /\ \A l \in Conns : /\ ToRegister(l)' <=> ToRegister(l)
                            /\ Negotiated(l)' <=> Negotiated(l)
                            /\ FailedToNegotiate(l)' => FailedToNegotiate(l)
        /\ \A l \in Conns, jd \in Ids :
             ToTransfer(l, jd)' <=> ToTransfer(l, jd) \/ (l = k /\ jd = id)
        /\ ToDump' <=> ToDump
    BY <1>1, <1>2, TransferScheduled
  <2>2. TasksFollowConnections'
    BY <1>1, <2>1, TasksStillFollow
  <2>3. StopInv'
    <3>1. ~closing /\ thread = "loop"
      BY <1>1, <1>2 DEF TypeOK, ShutdownIsInOrder, Accepts
    <3> QED BY <2>1, <3>1, StopperStillAlone
  <2>4. CallsFollowConnections' /\ LostOnlyIfBroken'
    BY <1>1, <1>2 DEF CallsFollowConnections, LostOnlyIfBroken, closing
  <2>5. calls' \in [Conns -> SUBSET Ids]
    BY <1>1, <1>2 DEF TypeOK
  <2>6. ToTransfer(k, id)' <=> id \in calls'[k]
    BY <1>2, <2>1
  <2> QED BY <1>2, <2>1, <2>2, <2>3, <2>4, <2>5, <2>6 DEF TaskInv
<1>3. CASE ~Accepts /\ calls' = Erased(k, id) /\ UNCHANGED <<pending, wake>>
  <2>1. /\ calls' \in [Conns -> SUBSET Ids] /\ calls'[k] = calls[k] \ {id}
        /\ \A l \in Conns : l # k => calls'[l] = calls[l]
    BY <1>1, <1>3 DEF TypeOK, Erased
  <2>2. closing /\ closing'
    BY <1>3 DEF Accepts, closing
  <2>3. CallsFollowConnections' /\ LostOnlyIfBroken'
    BY <1>1, <2>1, <2>2 DEF CallsFollowConnections, LostOnlyIfBroken
  <2>4. /\ TasksAreUnique'
        /\ \A l \in Conns : /\ ToRegister(l)' <=> ToRegister(l)
                            /\ Negotiated(l)' <=> Negotiated(l)
                            /\ FailedToNegotiate(l)' => FailedToNegotiate(l)
        /\ \A l \in Conns, jd \in Ids : ToTransfer(l, jd)' <=> ToTransfer(l, jd)
        /\ ToDump' <=> ToDump
    BY <1>1, <1>3, TasksKept
  <2>5. TasksFollowConnections'
    BY <1>1, <2>4, TasksStillFollow
  <2>6. StopInv'
    <3>1. thread = "exited" => ~reading'.held
      BY <1>1 DEF ShutdownIsInOrder
    <3>2. thread \in {"loop", "exited"}
      BY <1>1 DEF TypeOK
    <3> QED BY <1>3, <2>4, <3>1, <3>2, StopperStillAlone
  <2>7. pending' \in Seq(Tasks) /\ wake' \in BOOLEAN
    BY <1>1, <1>3 DEF TypeOK
  <2> QED BY <2>1, <2>3, <2>4, <2>5, <2>6, <2>7 DEF TaskInv
<1> QED BY <1>2, <1>3 DEF QueueResponseForCall

LEMMA RespondPreserves ==
  ASSUME IInv, NEW k \in Conns, NEW id \in Ids, Respond(k, id)
  PROVE  IInv'
<1>1. TypeOK /\ HeldOnce
  BY InvParts
<1>2. /\ QueueResponseForCall(k, id)
      /\ UNCHANGED <<conn, negotiation, broken, inbound, arrived, outq, answered, batch, reading,
                     thread, dumper, stopper, flagged>>
      /\ \/ <<k, id>> \in worker /\ worker' = worker \ {<<k, id>>} /\ deferred' = deferred
         \/ <<k, id>> \in deferred /\ deferred' = deferred \ {<<k, id>>} /\ worker' = worker
  BY DEF Respond, HandlerResponds, DeferredResponds, otherVars
<1>3. /\ id \in calls[k] /\ ~(reading.held /\ reading.conn = k /\ reading.id = id)
      /\ <<k, id>> \notin worker \cap deferred /\ ~ToTransfer(k, id)
      /\ id \notin SetOf(outq[k])
  BY <1>2, HolderIsAlone
<1>4. /\ pending' \in Seq(Tasks) /\ wake' \in BOOLEAN /\ calls' \in [Conns -> SUBSET Ids]
      /\ TaskInv' /\ StopInv' /\ CallsFollowConnections' /\ LostOnlyIfBroken'
      /\ ToTransfer(k, id)' <=> id \in calls'[k]
      /\ \A l \in Conns, jd \in Ids : l # k \/ jd # id =>
           /\ ToTransfer(l, jd)' <=> ToTransfer(l, jd)
           /\ jd \in calls'[l] <=> jd \in calls[l]
  BY <1>2, <1>3, ResponseEffect
<1>5. <<k, id>> \notin worker' /\ <<k, id>> \notin deferred'
  BY <1>2, <1>3
<1>6. Held(k, id)' = One(id \in calls'[k])
  BY <1>2, <1>3, <1>4, <1>5 DEF Held, One
<1>7. ASSUME NEW l \in Conns, NEW jd \in Ids, l # k \/ jd # id PROVE Held(l, jd)' = Held(l, jd)
  <2>1. /\ <<l, jd>> \in worker' <=> <<l, jd>> \in worker
        /\ <<l, jd>> \in deferred' <=> <<l, jd>> \in deferred
    BY <1>2, <1>7
  <2> QED BY <1>2, <1>4, <1>7, <2>1 DEF Held, One
<1>8. HeldOnce'
  BY <1>1, <1>4, <1>6, <1>7, HeldMoves
<1>9. TypeOK'
  BY <1>1, <1>2, <1>4 DEF TypeOK
<1> QED BY <1>4, <1>8, <1>9 DEF IInv, CallInv

-----------------------------------------------------------------------------
(* Steps of the service and handlers of the reactor thread.                *)

LEMMA HeldStays ==
  ASSUME HeldOnce,
         \A l \in Conns, jd \in Ids :
           Held(l, jd)' = Held(l, jd) /\ (jd \in calls'[l] <=> jd \in calls[l])
  PROVE  HeldOnce'
<1>1. ASSUME NEW l \in Conns, NEW jd \in Ids PROVE Held(l, jd)' = One(jd \in calls'[l])
  <2>1. Held(l, jd)' = Held(l, jd) /\ (jd \in calls'[l] <=> jd \in calls[l])
    OBVIOUS
  <2> QED BY <2>1 DEF HeldOnce, One
<1> QED BY <1>1 DEF HeldOnce

\* Tasks move and nothing else about the calls changes.
LEMMA CallsKept ==
  ASSUME IInv, UNCHANGED <<conn, broken, inbound, arrived, calls, outq, answered, reading,
                           worker, deferred>>,
         closing => closing',
         \A l \in Conns, jd \in Ids : ToTransfer(l, jd)' <=> ToTransfer(l, jd)
  PROVE  CallInv'
<1>1. CallsFollowConnections /\ HeldOnce /\ LostOnlyIfBroken
  BY InvParts
<1>2. CallsFollowConnections' /\ LostOnlyIfBroken'
  BY <1>1 DEF CallsFollowConnections, LostOnlyIfBroken
<1>3. \A l \in Conns, jd \in Ids : Held(l, jd)' = Held(l, jd)
  BY DEF Held, One
<1> QED BY <1>1, <1>2, <1>3, HeldStays DEF CallInv

LEMMA HandlerReturnsPreserves ==
  ASSUME IInv, NEW k \in Conns, NEW id \in Ids, HandlerReturns(k, id)
  PROVE  IInv'
<1>1. /\ TypeOK /\ TasksAreUnique /\ TasksFollowConnections /\ CallsFollowConnections
      /\ HeldOnce /\ LostOnlyIfBroken /\ ShutdownIsInOrder
  BY InvParts
<1>2. /\ <<k, id>> \in worker /\ worker' = worker \ {<<k, id>>}
      /\ deferred' = deferred \cup {<<k, id>>}
      /\ UNCHANGED <<conn, negotiation, broken, inbound, arrived, calls, outq, answered, reading,
                     pending, wake, batch, thread, dumper, stopper, flagged>>
  BY DEF HandlerReturns, connVars, taskVars, otherVars
<1>3. /\ TasksAreUnique'
      /\ \A l \in Conns : /\ ToRegister(l)' <=> ToRegister(l)
                          /\ Negotiated(l)' <=> Negotiated(l)
                          /\ FailedToNegotiate(l)' => FailedToNegotiate(l)
      /\ \A l \in Conns, jd \in Ids : ToTransfer(l, jd)' <=> ToTransfer(l, jd)
      /\ ToDump' <=> ToDump
  BY <1>1, <1>2, TasksKept
<1>4. TypeOK'
  BY <1>1, <1>2 DEF TypeOK, AllCalls
<1>5. TaskInv'
  BY <1>1, <1>2, <1>3, TasksStillFollow DEF TaskInv
<1>6. StopInv'
  <2>1. thread = "loop" \/ ~reading.held
    BY <1>1 DEF TypeOK, ShutdownIsInOrder
  <2> QED BY <1>2, <1>3, <2>1, StopperStillAlone
<1>7. CallsFollowConnections' /\ LostOnlyIfBroken'
  BY <1>1, <1>2 DEF CallsFollowConnections, LostOnlyIfBroken, closing
<1>8. <<k, id>> \notin deferred
  BY <1>2, HolderIsAlone
<1>9. ASSUME NEW l \in Conns, NEW jd \in Ids PROVE Held(l, jd)' = Held(l, jd)
  <2>1. CASE l = k /\ jd = id
    BY <1>2, <1>3, <1>8, <2>1 DEF Held, One
  <2>2. CASE l # k \/ jd # id
    <3>1. /\ <<l, jd>> \in worker' <=> <<l, jd>> \in worker
          /\ <<l, jd>> \in deferred' <=> <<l, jd>> \in deferred
      BY <1>2, <2>2
    <3> QED BY <1>2, <1>3, <3>1 DEF Held, One
  <2> QED BY <2>1, <2>2
<1>10. HeldOnce'
  BY <1>1, <1>2, <1>9, HeldStays
<1> QED BY <1>4, <1>5, <1>6, <1>7, <1>10 DEF IInv, CallInv

LEMMA QueueInboundCallPreserves ==
  ASSUME IInv, QueueInboundCall
  PROVE  IInv'
<1>1. /\ TypeOK /\ TasksAreUnique /\ TasksFollowConnections /\ CallsFollowConnections
      /\ HeldOnce /\ LostOnlyIfBroken /\ ShutdownIsInOrder
  BY InvParts
<1>2. PICK k \in Conns, id \in Ids : reading.held /\ reading.conn = k /\ reading.id = id
  BY <1>1, ReadingType DEF QueueInboundCall
<1>3. /\ reading' = Nothing
      /\ \/ /\ Registered /\ worker' = worker \cup {<<k, id>>}
            /\ UNCHANGED <<calls, pending, wake>>
         \/ QueueResponseForCall(k, id) /\ worker' = worker
      /\ UNCHANGED <<conn, negotiation, broken, inbound, arrived, outq, answered, deferred, batch,
                     thread, dumper, stopper, flagged>>
  BY <1>2 DEF QueueInboundCall, otherVars
<1>4. /\ id \in calls[k] /\ <<k, id>> \notin worker /\ <<k, id>> \notin deferred
      /\ ~ToTransfer(k, id) /\ id \notin SetOf(outq[k])
  BY <1>2, HolderIsAlone
<1>5. ~reading'.held
  BY <1>3, ReadingIsTyped
<1>6. ASSUME NEW l \in Conns, NEW jd \in Ids, l # k \/ jd # id
      PROVE  ~(reading.held /\ reading.conn = l /\ reading.id = jd)
  BY <1>2, <1>6
<1>7. CASE /\ Registered /\ worker' = worker \cup {<<k, id>>}
           /\ UNCHANGED <<calls, pending, wake>>
  <2>1. /\ TasksAreUnique'
        /\ \A l \in Conns : /\ ToRegister(l)' <=> ToRegister(l)
                            /\ Negotiated(l)' <=> Negotiated(l)
                            /\ FailedToNegotiate(l)' => FailedToNegotiate(l)
        /\ \A l \in Conns, jd \in Ids : ToTransfer(l, jd)' <=> ToTransfer(l, jd)
        /\ ToDump' <=> ToDump
    BY <1>1, <1>3, <1>7, TasksKept
  <2>2. TypeOK'
    BY <1>1, <1>3, <1>7 DEF TypeOK, AllCalls
  <2>3. TaskInv'
    BY <1>1, <1>3, <1>7, <2>1, TasksStillFollow DEF TaskInv
  <2>4. StopInv'
    BY <1>3, <1>5, <1>7, <2>1, StopperStillAlone
  <2>5. CallsFollowConnections' /\ LostOnlyIfBroken'
    BY <1>1, <1>3, <1>7 DEF CallsFollowConnections, LostOnlyIfBroken, closing
  <2>6. Held(k, id)' = One(id \in calls'[k])
    BY <1>3, <1>4, <1>5, <1>7, <2>1 DEF Held, One
  <2>7. ASSUME NEW l \in Conns, NEW jd \in Ids, l # k \/ jd # id PROVE Held(l, jd)' = Held(l, jd)
    <3>1. <<l, jd>> \in worker' <=> <<l, jd>> \in worker
      BY <1>7, <2>7
    <3> QED BY <1>3, <1>5, <1>6, <2>1, <2>7, <3>1 DEF Held, One
  <2>8. HeldOnce'
    BY <1>1, <1>7, <2>6, <2>7, HeldMoves
  <2> QED BY <2>2, <2>3, <2>4, <2>5, <2>8 DEF IInv, CallInv
<1>8. CASE QueueResponseForCall(k, id) /\ worker' = worker
  <2>1. /\ pending' \in Seq(Tasks) /\ wake' \in BOOLEAN /\ calls' \in [Conns -> SUBSET Ids]
        /\ TaskInv' /\ StopInv' /\ CallsFollowConnections' /\ LostOnlyIfBroken'
        /\ ToTransfer(k, id)' <=> id \in calls'[k]
        /\ \A l \in Conns, jd \in Ids : l # k \/ jd # id =>
             /\ ToTransfer(l, jd)' <=> ToTransfer(l, jd)
             /\ jd \in calls'[l] <=> jd \in calls[l]
    BY <1>3, <1>4, <1>5, <1>8, ResponseEffect
  <2>2. TypeOK'
    BY <1>1, <1>3, <1>8, <2>1 DEF TypeOK
  <2>3. Held(k, id)' = One(id \in calls'[k])
    BY <1>3, <1>4, <1>5, <1>8, <2>1 DEF Held, One
  <2>4. ASSUME NEW l \in Conns, NEW jd \in Ids, l # k \/ jd # id PROVE Held(l, jd)' = Held(l, jd)
    BY <1>3, <1>5, <1>6, <1>8, <2>1, <2>4 DEF Held, One
  <2>5. HeldOnce'
    BY <1>1, <2>1, <2>3, <2>4, HeldMoves
  <2> QED BY <2>1, <2>2, <2>5 DEF IInv, CallInv
<1> QED BY <1>3, <1>7, <1>8

\* What every handler of the reactor thread leaves as it is.
LEMMA HandlerFrame ==
  ASSUME IInv, AtLoop, UNCHANGED <<negotiation, pending, wake, batch, thread, worker, deferred,
                                   dumper, stopper, flagged>>,
         \A k \in Conns : conn'[k] = conn[k] \/ (conn[k] = "open" /\ conn'[k] = "closed"),
         \A k \in Conns : broken[k] => broken'[k]
  PROVE  /\ TaskInv' /\ StopInv' /\ (closing <=> closing')
         /\ \A l \in Conns, jd \in Ids : ToTransfer(l, jd)' <=> ToTransfer(l, jd)
<1>1. TypeOK /\ TasksAreUnique /\ TasksFollowConnections
  BY InvParts
<1>2. /\ TasksAreUnique'
      /\ \A l \in Conns : /\ ToRegister(l)' <=> ToRegister(l)
                          /\ Negotiated(l)' <=> Negotiated(l)
                          /\ FailedToNegotiate(l)' => FailedToNegotiate(l)
      /\ \A l \in Conns, jd \in Ids : ToTransfer(l, jd)' <=> ToTransfer(l, jd)
      /\ ToDump' <=> ToDump
  BY <1>1, TasksKept
<1>3. TaskInv'
  BY <1>1, <1>2, TasksStillFollow DEF TaskInv
<1>4. StopInv'
  BY <1>2, StopperStillAlone DEF AtLoop
<1> QED BY <1>2, <1>3, <1>4 DEF closing

\* A part of a request comes in, or the request is dropped.
LEMMA ReadPreserves ==
  ASSUME IInv, NEW k \in Conns, ReadPart(k) \/ BadData(k)
  PROVE  IInv'
<1>1. TypeOK /\ CallsFollowConnections /\ HeldOnce /\ LostOnlyIfBroken
  BY InvParts
<1>2. /\ AtLoop /\ conn[k] = "open"
      /\ \E b \in BOOLEAN : inbound' = [inbound EXCEPT ![k] = b]
      /\ UNCHANGED <<conn, negotiation, broken, arrived, calls, outq, answered, reading, worker,
                     deferred, pending, wake, batch, thread, dumper, stopper, flagged>>
  BY DEF ReadPart, BadData, serviceVars, taskVars, otherVars
<1>3. /\ TaskInv' /\ StopInv' /\ (closing <=> closing')
      /\ \A l \in Conns, jd \in Ids : ToTransfer(l, jd)' <=> ToTransfer(l, jd)
  BY <1>2, HandlerFrame
<1>4. /\ inbound' \in [Conns -> BOOLEAN]
      /\ \A l \in Conns : l # k => inbound'[l] = inbound[l]
  BY <1>1, <1>2 DEF TypeOK
<1>5. TypeOK'
  BY <1>1, <1>2, <1>4 DEF TypeOK
<1>6. CallsFollowConnections' /\ LostOnlyIfBroken'
  BY <1>1, <1>2, <1>3, <1>4 DEF CallsFollowConnections, LostOnlyIfBroken
<1>7. \A l \in Conns, jd \in Ids : Held(l, jd)' = Held(l, jd)
  BY <1>2, <1>3 DEF Held, One
<1>8. HeldOnce'
  BY <1>1, <1>2, <1>7, HeldStays
<1> QED BY <1>3, <1>5, <1>6, <1>8 DEF IInv, CallInv

LEMMA HandleIncomingCallPreserves ==
  ASSUME IInv, NEW k \in Conns, NEW id \in Ids, NEW cpu \in CPUs, HandleIncomingCall(k, id, cpu)
  PROVE  IInv'
<1>1. TypeOK /\ CallsFollowConnections /\ HeldOnce /\ LostOnlyIfBroken
  BY InvParts
<1>2. /\ AtLoop /\ conn[k] = "open" /\ id \notin arrived[k] /\ ~reading.held
      /\ inbound' = [inbound EXCEPT ![k] = FALSE]
      /\ arrived' = [arrived EXCEPT ![k] = @ \cup {id}]
      /\ calls' = [calls EXCEPT ![k] = @ \cup {id}]
      /\ reading' = Reading(k, id, cpu)
      /\ UNCHANGED <<conn, negotiation, broken, outq, answered, worker, deferred, pending, wake,
                     batch, thread, dumper, stopper, flagged>>
  BY DEF HandleIncomingCall, AtLoop, serviceVars, taskVars, otherVars
<1>3. /\ TaskInv' /\ StopInv' /\ (closing <=> closing')
      /\ \A l \in Conns, jd \in Ids : ToTransfer(l, jd)' <=> ToTransfer(l, jd)
  BY <1>2, HandlerFrame
<1>4. /\ inbound' \in [Conns -> BOOLEAN] /\ ~inbound'[k]
      /\ arrived' \in [Conns -> SUBSET Ids] /\ arrived'[k] = arrived[k] \cup {id}
      /\ calls' \in [Conns -> SUBSET Ids] /\ calls'[k] = calls[k] \cup {id}
      /\ \A l \in Conns : l # k => /\ inbound'[l] = inbound[l] /\ arrived'[l] = arrived[l]
                                   /\ calls'[l] = calls[l]
  BY <1>1, <1>2 DEF TypeOK
<1>5. TypeOK'
  BY <1>1, <1>2, <1>4 DEF TypeOK
<1>6. CallsFollowConnections'
  BY <1>1, <1>2, <1>3, <1>4 DEF CallsFollowConnections
<1>7. LostOnlyIfBroken'
  BY <1>1, <1>2, <1>3, <1>4 DEF LostOnlyIfBroken
<1>8. id \notin calls[k]
  BY <1>1, <1>2 DEF CallsFollowConnections
<1>9. /\ <<k, id>> \notin worker /\ <<k, id>> \notin deferred
      /\ ~ToTransfer(k, id) /\ id \notin SetOf(outq[k])
  BY <1>8, HolderIsAlone
<1>10. reading'.held /\ reading'.conn = k /\ reading'.id = id
  BY <1>2, ReadingIsTyped
<1>11. Held(k, id)' = One(id \in calls'[k])
  BY <1>2, <1>3, <1>4, <1>9, <1>10 DEF Held, One
<1>12. ASSUME NEW l \in Conns, NEW jd \in Ids, l # k \/ jd # id
       PROVE  Held(l, jd)' = Held(l, jd) /\ (jd \in calls'[l] <=> jd \in calls[l])
  <2>1. Held(l, jd)' = Held(l, jd)
    BY <1>2, <1>3, <1>10, <1>12 DEF Held, One
  <2>2. jd \in calls'[l] <=> jd \in calls[l]
    BY <1>4, <1>12
  <2> QED BY <2>1, <2>2
<1>13. HeldOnce'
  BY <1>1, <1>11, <1>12, HeldMoves
<1> QED BY <1>3, <1>5, <1>6, <1>7, <1>13 DEF IInv, CallInv

LEMMA WriteHandlerPreserves ==
  ASSUME IInv, NEW k \in Conns, WriteHandler(k)
  PROVE  IInv'
<1>1. TypeOK /\ CallsFollowConnections /\ HeldOnce /\ LostOnlyIfBroken
  BY InvParts
<1>2. /\ AtLoop /\ conn[k] = "open" /\ outq[k] # <<>>
      /\ outq' = [outq EXCEPT ![k] = Tail(@)]
      /\ answered' = [answered EXCEPT ![k] = @ \cup {Head(outq[k])}]
      /\ calls' = [calls EXCEPT ![k] = @ \ {Head(outq[k])}]
      /\ UNCHANGED <<conn, negotiation, broken, inbound, arrived, reading, worker, deferred,
                     pending, wake, batch, thread, dumper, stopper, flagged>>
  BY DEF WriteHandler, Erased, serviceVars, taskVars, otherVars
<1>3. /\ TaskInv' /\ StopInv' /\ (closing <=> closing')
      /\ \A l \in Conns, jd \in Ids : ToTransfer(l, jd)' <=> ToTransfer(l, jd)
  BY <1>2, HandlerFrame
<1>4. /\ Tail(outq[k]) \in Seq(Ids) /\ Head(outq[k]) \in Ids /\ OnceEach(Tail(outq[k]))
      /\ SetOf(outq[k]) = SetOf(Tail(outq[k])) \cup {Head(outq[k])}
      /\ Head(outq[k]) \notin SetOf(Tail(outq[k]))
  <2>1. outq[k] \in Seq(Ids) /\ OnceEach(outq[k])
    BY <1>1 DEF TypeOK, CallsFollowConnections
  <2> QED BY <1>2, <2>1, TailSet
<1>5. PICK id \in Ids : id = Head(outq[k])
  BY <1>4
<1>6. /\ outq' \in [Conns -> Seq(Ids)] /\ OnceEach(outq'[k])
      /\ SetOf(outq[k]) = SetOf(outq'[k]) \cup {id} /\ id \notin SetOf(outq'[k])
      /\ answered' \in [Conns -> SUBSET Ids] /\ answered'[k] = answered[k] \cup {id}
      /\ calls' \in [Conns -> SUBSET Ids] /\ calls'[k] = calls[k] \ {id}
      /\ \A l \in Conns : l # k => /\ outq'[l] = outq[l] /\ answered'[l] = answered[l]
                                   /\ calls'[l] = calls[l]
  BY <1>1, <1>2, <1>4, <1>5 DEF TypeOK
<1>7. TypeOK'
  BY <1>1, <1>2, <1>6 DEF TypeOK
<1>8. CallsFollowConnections'
  BY <1>1, <1>2, <1>3, <1>6 DEF CallsFollowConnections
<1>9. LostOnlyIfBroken'
  BY <1>1, <1>2, <1>3, <1>6 DEF LostOnlyIfBroken
<1>10. /\ ~(reading.held /\ reading.conn = k /\ reading.id = id)
       /\ <<k, id>> \notin worker /\ <<k, id>> \notin deferred /\ ~ToTransfer(k, id)
  BY <1>6, HolderIsAlone
<1>11. Held(k, id)' = One(id \in calls'[k])
  BY <1>2, <1>3, <1>6, <1>10 DEF Held, One
<1>12. ASSUME NEW l \in Conns, NEW jd \in Ids, l # k \/ jd # id
       PROVE  Held(l, jd)' = Held(l, jd) /\ (jd \in calls'[l] <=> jd \in calls[l])
  <2>1. /\ jd \in SetOf(outq'[l]) <=> jd \in SetOf(outq[l])
        /\ jd \in calls'[l] <=> jd \in calls[l]
    BY <1>6, <1>12
  <2> QED BY <1>2, <1>3, <2>1 DEF Held, One
<1>13. HeldOnce'
  BY <1>1, <1>11, <1>12, HeldMoves
<1> QED BY <1>3, <1>7, <1>8, <1>9, <1>13 DEF IInv, CallInv

-----------------------------------------------------------------------------
(* Connections that are shut down.                                         *)

LEMMA ShutdownEffect ==
  ASSUME TypeOK, NEW ks \in SUBSET Conns, ShutdownConnections(ks)
  PROVE  /\ conn' \in [Conns -> {"none", "accepted", "negotiating", "open", "closed"}]
         /\ calls' \in [Conns -> SUBSET Ids] /\ outq' \in [Conns -> Seq(Ids)]
         /\ \A k \in ks : /\ conn'[k] = "closed" /\ calls'[k] = calls[k] \ SetOf(outq[k])
                          /\ outq'[k] = <<>>
         /\ \A k \in Conns : k \notin ks =>
              conn'[k] = conn[k] /\ calls'[k] = calls[k] /\ outq'[k] = outq[k]
<1>1. \A k \in Conns : conn'[k] = IF k \in ks THEN "closed" ELSE conn[k]
  BY DEF ShutdownConnections
<1>2. conn' \in [Conns -> {"none", "accepted", "negotiating", "open", "closed"}]
  BY DEF ShutdownConnections, TypeOK
<1>3. \A k \in Conns : calls'[k] = IF k \in ks THEN calls[k] \ SetOf(outq[k]) ELSE calls[k]
  BY DEF ShutdownConnections
<1>4. calls' \in [Conns -> SUBSET Ids]
  BY DEF ShutdownConnections, TypeOK
<1>5. \A k \in Conns : outq'[k] = IF k \in ks THEN <<>> ELSE outq[k]
  BY DEF ShutdownConnections
<1>6. outq' \in [Conns -> Seq(Ids)]
  <2>1. <<>> \in Seq(Ids)
    OBVIOUS
  <2> QED BY <2>1 DEF ShutdownConnections, TypeOK
<1> QED BY <1>1, <1>2, <1>3, <1>4, <1>5, <1>6

\* The calls of connections that are broken, that stop with the server or that have none.
LEMMA ShutdownCalls ==
  ASSUME IInv, NEW ks \in SUBSET Conns, ShutdownConnections(ks),
         UNCHANGED <<inbound, arrived, answered, reading, worker, deferred>>,
         closing => closing',
         \A k \in Conns : broken[k] => broken'[k],
         \A k \in ks : broken'[k] \/ closing \/ (calls[k] = {} /\ ~inbound[k]),
         \A l \in Conns, jd \in Ids : ToTransfer(l, jd)' <=> ToTransfer(l, jd)
  PROVE  CallInv'
<1>1. TypeOK /\ CallsFollowConnections /\ HeldOnce /\ LostOnlyIfBroken
  BY InvParts
<1>2. /\ \A k \in ks : /\ conn'[k] = "closed" /\ calls'[k] = calls[k] \ SetOf(outq[k])
                       /\ outq'[k] = <<>>
      /\ \A k \in Conns : k \notin ks =>
           conn'[k] = conn[k] /\ calls'[k] = calls[k] /\ outq'[k] = outq[k]
  BY <1>1, ShutdownEffect
<1>3. CallsFollowConnections'
  <2> SUFFICES ASSUME NEW k \in Conns
               PROVE  /\ calls'[k] \subseteq arrived'[k]
                      /\ conn'[k] \notin {"open", "closed"} => arrived'[k] = {} /\ ~inbound'[k]
                      /\ outq'[k] # <<>> => conn'[k] = "open"
                      /\ OnceEach(outq'[k])
                      /\ conn'[k] = "closed" => broken'[k] \/ closing' \/ calls'[k] = {}
    BY DEF CallsFollowConnections
  <2>1. CASE k \in ks
    BY <1>1, <1>2, <2>1, EmptyHasNone DEF CallsFollowConnections
  <2>2. CASE k \notin ks
    BY <1>1, <1>2, <2>2 DEF CallsFollowConnections
  <2> QED BY <2>1, <2>2
<1>4. LostOnlyIfBroken'
  <2> SUFFICES ASSUME NEW k \in Conns
               PROVE  \/ broken'[k] \/ closing'
                      \/ /\ arrived'[k] \subseteq calls'[k] \cup answered'[k]
                         /\ inbound'[k] => conn'[k] = "open"
    BY DEF LostOnlyIfBroken
  <2>1. CASE k \in ks
    BY <1>1, <1>2, <2>1 DEF LostOnlyIfBroken
  <2>2. CASE k \notin ks
    BY <1>1, <1>2, <2>2 DEF LostOnlyIfBroken
  <2> QED BY <2>1, <2>2
<1>5. HeldOnce'
  <2> SUFFICES ASSUME NEW k \in Conns, NEW id \in Ids PROVE Held(k, id)' = One(id \in calls'[k])
    BY DEF HeldOnce
  <2>1. Held(k, id) = One(id \in calls[k])
    BY <1>1 DEF HeldOnce
  <2>2. CASE k \notin ks
    BY <1>2, <2>1, <2>2 DEF Held, One
  <2>3. CASE k \in ks /\ id \in SetOf(outq[k])
    <3>1. id \notin calls'[k] /\ id \notin SetOf(outq'[k])
      BY <1>2, <2>3, EmptyHasNone
    <3>2. /\ ~(reading.held /\ reading.conn = k /\ reading.id = id)
          /\ <<k, id>> \notin worker /\ <<k, id>> \notin deferred /\ ~ToTransfer(k, id)
      BY <2>3, HolderIsAlone
    <3> QED BY <3>1, <3>2 DEF Held, One
  <2>4. CASE k \in ks /\ id \notin SetOf(outq[k])
    <3>1. (id \in calls'[k] <=> id \in calls[k]) /\ id \notin SetOf(outq'[k])
      BY <1>2, <2>4, EmptyHasNone
    <3> QED BY <2>1, <2>4, <3>1 DEF Held, One
  <2> QED BY <2>2, <2>3, <2>4
<1> QED BY <1>3, <1>4, <1>5 DEF CallInv

LEMMA PeerBreaksPreserves ==
  ASSUME IInv, NEW k \in Conns, PeerBreaks(k)
  PROVE  IInv'
<1>1. TypeOK
  BY InvParts
<1>2. /\ AtLoop /\ conn[k] = "open" /\ ShutdownConnections({k})
      /\ broken' = [broken EXCEPT ![k] = TRUE]
      /\ UNCHANGED <<negotiation, inbound, arrived, answered, reading, worker, deferred,
                     pending, wake, batch, thread, dumper, stopper, flagged>>
  BY DEF PeerBreaks, serviceVars, taskVars, otherVars
<1>3. /\ conn' \in [Conns -> {"none", "accepted", "negotiating", "open", "closed"}]
      /\ calls' \in [Conns -> SUBSET Ids] /\ outq' \in [Conns -> Seq(Ids)]
      /\ conn'[k] = "closed" /\ \A l \in Conns : l # k => conn'[l] = conn[l]
  BY <1>1, <1>2, ShutdownEffect
<1>4. /\ broken' \in [Conns -> BOOLEAN] /\ broken'[k]
      /\ \A l \in Conns : broken[l] => broken'[l]
  BY <1>1, <1>2 DEF TypeOK
<1>5. /\ TaskInv' /\ StopInv' /\ (closing <=> closing')
      /\ \A l \in Conns, jd \in Ids : ToTransfer(l, jd)' <=> ToTransfer(l, jd)
  BY <1>2, <1>3, <1>4, HandlerFrame
<1>6. TypeOK'
  BY <1>1, <1>2, <1>3, <1>4 DEF TypeOK
<1>7. CallInv'
  BY <1>2, <1>4, <1>5, ShutdownCalls
<1> QED BY <1>5, <1>6, <1>7 DEF IInv

LEMMA CloseIdlePreserves ==
  ASSUME IInv, NEW k \in Conns, CloseIdle(k)
  PROVE  IInv'
<1>1. TypeOK
  BY InvParts
<1>2. /\ AtLoop /\ conn[k] = "open" /\ ~inbound[k] /\ calls[k] = {}
      /\ ShutdownConnections({k})
      /\ UNCHANGED <<negotiation, broken, inbound, arrived, answered, reading, worker, deferred,
                     pending, wake, batch, thread, dumper, stopper, flagged>>
  BY DEF CloseIdle, Idle, serviceVars, taskVars, otherVars
<1>3. /\ conn' \in [Conns -> {"none", "accepted", "negotiating", "open", "closed"}]
      /\ calls' \in [Conns -> SUBSET Ids] /\ outq' \in [Conns -> Seq(Ids)]
      /\ conn'[k] = "closed" /\ \A l \in Conns : l # k => conn'[l] = conn[l]
  BY <1>1, <1>2, ShutdownEffect
<1>4. /\ TaskInv' /\ StopInv' /\ (closing <=> closing')
      /\ \A l \in Conns, jd \in Ids : ToTransfer(l, jd)' <=> ToTransfer(l, jd)
  BY <1>2, <1>3, HandlerFrame
<1>5. TypeOK'
  BY <1>1, <1>2, <1>3 DEF TypeOK
<1>6. CallInv'
  BY <1>2, <1>4, ShutdownCalls
<1> QED BY <1>4, <1>5, <1>6 DEF IInv

-----------------------------------------------------------------------------
(* Tasks of the reactor thread.                                            *)

\* What every task leaves the stopper.
LEMMA TaskFrame ==
  ASSUME IInv, thread = "loop", ToDump' => ToDump,
         UNCHANGED <<dumper, reading, worker, pending, thread, stopper, flagged>>,
         \A k \in Conns : negotiation'[k] = negotiation[k] \/ PoolOpen
  PROVE  StopInv' /\ (closing <=> closing')
<1>1. WriterIsAlone /\ ShutdownIsInOrder /\ NoHandlerAfterUnregister
  BY InvParts
<1>2. WriterIsAlone' /\ NoHandlerAfterUnregister'
  BY <1>1 DEF WriterIsAlone, DumperHolds, NoHandlerAfterUnregister
<1>3. ShutdownIsInOrder'
  BY <1>1 DEF ShutdownIsInOrder, PoolOpen, closing
<1> QED BY <1>2, <1>3 DEF StopInv, closing

LEMMA RegisterConnectionPreserves ==
  ASSUME IInv, NEW k \in Conns, RegisterConnection(k)
  PROVE  IInv'
<1>1. /\ TypeOK /\ TasksFollowConnections /\ CallsFollowConnections /\ HeldOnce
      /\ LostOnlyIfBroken
  BY InvParts
<1>2. /\ RunTask(RegisterTask(k)) /\ dumper' = dumper
      /\ \/ /\ PoolOpen /\ conn' = [conn EXCEPT ![k] = "negotiating"]
            /\ negotiation' = [negotiation EXCEPT ![k] = "queued"]
            /\ UNCHANGED <<calls, outq>>
         \/ ~PoolOpen /\ ShutdownConnections({k}) /\ negotiation' = negotiation
  BY DEF RegisterConnection
<1>3. /\ batch' \in Seq(Tasks) /\ TasksAreUnique' /\ thread = "loop"
      /\ Removes(RegisterTask(k))
      /\ UNCHANGED <<broken, inbound, arrived, answered, reading, worker, deferred,
                     pending, wake, thread, stopper, flagged>>
  BY <1>2, TaskTypes, RunTaskEffect
<1>4. /\ ToRegister(k)
      /\ \A l \in Conns : /\ ToRegister(l)' <=> ToRegister(l) /\ l # k
                          /\ Negotiated(l)' <=> Negotiated(l)
                          /\ FailedToNegotiate(l)' => FailedToNegotiate(l)
      /\ \A l \in Conns, jd \in Ids : ToTransfer(l, jd)' <=> ToTransfer(l, jd)
      /\ ToDump' <=> ToDump
  BY <1>3, RegisterRemoved
<1>5. /\ conn[k] = "accepted" /\ arrived[k] = {} /\ ~inbound[k] /\ calls[k] = {}
      /\ outq[k] = <<>> /\ negotiation[k] = "none" /\ ~Negotiated(k)
  <2>1. conn[k] = "accepted"
    BY <1>1, <1>4 DEF TasksFollowConnections
  <2>2. arrived[k] = {} /\ ~inbound[k] /\ outq[k] = <<>> /\ calls[k] \subseteq arrived[k]
    BY <1>1, <2>1 DEF CallsFollowConnections
  <2>3. negotiation[k] = "none" /\ ~Negotiated(k)
    BY <1>1, <1>3, <2>1 DEF TasksFollowConnections
  <2> QED BY <2>1, <2>2, <2>3
<1>6. CASE /\ PoolOpen /\ conn' = [conn EXCEPT ![k] = "negotiating"]
           /\ negotiation' = [negotiation EXCEPT ![k] = "queued"]
           /\ UNCHANGED <<calls, outq>>
  <2>1. /\ conn' \in [Conns -> {"none", "accepted", "negotiating", "open", "closed"}]
        /\ negotiation' \in [Conns -> {"none", "queued", "running"}]
        /\ conn'[k] = "negotiating" /\ negotiation'[k] = "queued"
        /\ \A l \in Conns : l # k => conn'[l] = conn[l] /\ negotiation'[l] = negotiation[l]
    BY <1>1, <1>6 DEF TypeOK
  <2>2. TypeOK'
    BY <1>1, <1>2, <1>3, <1>6, <2>1 DEF TypeOK
  <2>3. TasksFollowConnections'
    BY <1>1, <1>3, <1>4, <1>5, <2>1 DEF TasksFollowConnections
  <2>4. StopInv' /\ (closing <=> closing')
    BY <1>2, <1>3, <1>4, <1>6, TaskFrame
  <2>5. CallsFollowConnections' /\ LostOnlyIfBroken'
    BY <1>1, <1>3, <1>5, <1>6, <2>1, <2>4 DEF CallsFollowConnections, LostOnlyIfBroken
  <2>6. \A l \in Conns, jd \in Ids : Held(l, jd)' = Held(l, jd)
    BY <1>3, <1>4, <1>6 DEF Held, One
  <2>7. HeldOnce'
    BY <1>1, <1>6, <2>6, HeldStays
  <2> QED BY <1>3, <2>2, <2>3, <2>4, <2>5, <2>7 DEF IInv, TaskInv, CallInv
<1>7. CASE ~PoolOpen /\ ShutdownConnections({k}) /\ negotiation' = negotiation
  <2>1. /\ conn' \in [Conns -> {"none", "accepted", "negotiating", "open", "closed"}]
        /\ calls' \in [Conns -> SUBSET Ids] /\ outq' \in [Conns -> Seq(Ids)]
        /\ conn'[k] = "closed" /\ \A l \in Conns : l # k => conn'[l] = conn[l]
    BY <1>1, <1>7, ShutdownEffect
  <2>2. TypeOK'
    BY <1>1, <1>2, <1>3, <1>7, <2>1 DEF TypeOK
  <2>3. TasksFollowConnections'
    BY <1>1, <1>3, <1>4, <1>5, <1>7, <2>1 DEF TasksFollowConnections
  <2>4. StopInv' /\ (closing <=> closing')
    BY <1>2, <1>3, <1>4, <1>7, TaskFrame
  <2>5. CallInv'
    BY <1>3, <1>4, <1>5, <1>7, <2>4, ShutdownCalls
  <2> QED BY <1>3, <2>2, <2>3, <2>4, <2>5 DEF IInv, TaskInv
<1> QED BY <1>2, <1>6, <1>7

LEMMA NegotiationSucceededPreserves ==
  ASSUME IInv, NEW k \in Conns, NegotiationSucceeded(k)
  PROVE  IInv'
<1>1. /\ TypeOK /\ TasksFollowConnections /\ CallsFollowConnections /\ HeldOnce
      /\ LostOnlyIfBroken
  BY InvParts
<1>2. /\ RunTask(NegotiatedTask(k, TRUE)) /\ conn' = [conn EXCEPT ![k] = "open"]
      /\ UNCHANGED <<negotiation, calls, outq, dumper>>
  BY DEF NegotiationSucceeded
<1>3. NegotiatedTask(k, TRUE) \in Tasks
  BY TaskTypes
<1>4. /\ batch' \in Seq(Tasks) /\ TasksAreUnique' /\ thread = "loop"
      /\ Removes(NegotiatedTask(k, TRUE))
      /\ UNCHANGED <<broken, inbound, arrived, answered, reading, worker, deferred,
                     pending, wake, thread, stopper, flagged>>
  BY <1>2, <1>3, RunTaskEffect
<1>5. /\ Negotiated(k)
      /\ \A l \in Conns : /\ ToRegister(l)' <=> ToRegister(l)
                          /\ Negotiated(l)' <=> Negotiated(l) /\ l # k
                          /\ FailedToNegotiate(l)' => FailedToNegotiate(l)
      /\ \A l \in Conns, jd \in Ids : ToTransfer(l, jd)' <=> ToTransfer(l, jd)
      /\ ToDump' <=> ToDump
  BY <1>4, NegotiatedRemoved
<1>6. conn[k] = "negotiating" /\ negotiation[k] = "none"
  BY <1>1, <1>4, <1>5 DEF TasksFollowConnections
<1>7. /\ conn' \in [Conns -> {"none", "accepted", "negotiating", "open", "closed"}]
      /\ conn'[k] = "open" /\ \A l \in Conns : l # k => conn'[l] = conn[l]
  BY <1>1, <1>2 DEF TypeOK
<1>8. TypeOK'
  BY <1>1, <1>2, <1>4, <1>7 DEF TypeOK
<1>9. TasksFollowConnections'
  BY <1>1, <1>2, <1>4, <1>5, <1>6, <1>7 DEF TasksFollowConnections
<1>10. StopInv' /\ (closing <=> closing')
  BY <1>2, <1>4, <1>5, TaskFrame
<1>11. CallsFollowConnections' /\ LostOnlyIfBroken'
  BY <1>1, <1>2, <1>4, <1>6, <1>7, <1>10 DEF CallsFollowConnections, LostOnlyIfBroken
<1>12. \A l \in Conns, jd \in Ids : Held(l, jd)' = Held(l, jd)
  BY <1>2, <1>4, <1>5 DEF Held, One
<1>13. HeldOnce'
  BY <1>1, <1>2, <1>12, HeldStays
<1> QED BY <1>4, <1>8, <1>9, <1>10, <1>11, <1>13 DEF IInv, TaskInv, CallInv

LEMMA NegotiationFailedPreserves ==
  ASSUME IInv, NEW k \in Conns, NegotiationFailed(k)
  PROVE  IInv'
<1>1. TypeOK /\ TasksFollowConnections
  BY InvParts
<1>2. /\ RunTask(NegotiatedTask(k, FALSE)) /\ ShutdownConnections({k})
      /\ UNCHANGED <<negotiation, dumper>>
  BY DEF NegotiationFailed
<1>3. NegotiatedTask(k, FALSE) \in Tasks
  BY TaskTypes
<1>4. /\ batch' \in Seq(Tasks) /\ TasksAreUnique' /\ thread = "loop"
      /\ Removes(NegotiatedTask(k, FALSE))
      /\ UNCHANGED <<broken, inbound, arrived, answered, reading, worker, deferred,
                     pending, wake, thread, stopper, flagged>>
  BY <1>2, <1>3, RunTaskEffect
<1>5. /\ Negotiated(k) /\ FailedToNegotiate(k)
      /\ \A l \in Conns : /\ ToRegister(l)' <=> ToRegister(l)
                          /\ Negotiated(l)' <=> Negotiated(l) /\ l # k
                          /\ FailedToNegotiate(l)' => FailedToNegotiate(l)
      /\ \A l \in Conns, jd \in Ids : ToTransfer(l, jd)' <=> ToTransfer(l, jd)
      /\ ToDump' <=> ToDump
  BY <1>4, NegotiatedRemoved
<1>6. conn[k] = "negotiating" /\ negotiation[k] = "none" /\ broken[k]
  BY <1>1, <1>4, <1>5 DEF TasksFollowConnections
<1>7. /\ conn' \in [Conns -> {"none", "accepted", "negotiating", "open", "closed"}]
      /\ calls' \in [Conns -> SUBSET Ids] /\ outq' \in [Conns -> Seq(Ids)]
      /\ conn'[k] = "closed" /\ \A l \in Conns : l # k => conn'[l] = conn[l]
  BY <1>1, <1>2, ShutdownEffect
<1>8. TypeOK'
  BY <1>1, <1>2, <1>4, <1>7 DEF TypeOK
<1>9. TasksFollowConnections'
  BY <1>1, <1>2, <1>4, <1>5, <1>6, <1>7 DEF TasksFollowConnections
<1>10. StopInv' /\ (closing <=> closing')
  BY <1>2, <1>4, <1>5, TaskFrame
<1>11. CallInv'
  BY <1>2, <1>4, <1>5, <1>6, <1>10, ShutdownCalls
<1> QED BY <1>4, <1>8, <1>9, <1>10, <1>11 DEF IInv, TaskInv

LEMMA QueueOutboundPreserves ==
  ASSUME IInv, NEW k \in Conns, NEW id \in Ids, QueueOutbound(k, id)
  PROVE  IInv'
<1>1. /\ TypeOK /\ TasksFollowConnections /\ CallsFollowConnections /\ HeldOnce
      /\ LostOnlyIfBroken
  BY InvParts
<1>2. /\ RunTask(TransferTask(k, id))
      /\ \/ /\ conn[k] # "closed" /\ outq' = [outq EXCEPT ![k] = Append(@, id)]
            /\ calls' = calls
         \/ /\ conn[k] = "closed" /\ calls' = [calls EXCEPT ![k] = @ \ {id}]
            /\ outq' = outq
      /\ UNCHANGED <<conn, negotiation, dumper>>
  BY DEF QueueOutbound, Queueable, Erased
<1>3. TransferTask(k, id) \in Tasks
  BY TaskTypes
<1>4. /\ batch' \in Seq(Tasks) /\ TasksAreUnique' /\ thread = "loop"
      /\ Removes(TransferTask(k, id))
      /\ UNCHANGED <<broken, inbound, arrived, answered, reading, worker, deferred,
                     pending, wake, thread, stopper, flagged>>
  BY <1>2, <1>3, RunTaskEffect
<1>5. /\ ToTransfer(k, id)
      /\ \A l \in Conns : /\ ToRegister(l)' <=> ToRegister(l)
                          /\ Negotiated(l)' <=> Negotiated(l)
                          /\ FailedToNegotiate(l)' => FailedToNegotiate(l)
      /\ \A l \in Conns, jd \in Ids :
           ToTransfer(l, jd)' <=> ToTransfer(l, jd) /\ ~(l = k /\ jd = id)
      /\ ToDump' <=> ToDump
  BY <1>4, TransferRemoved
<1>6. /\ id \in calls[k] /\ ~(reading.held /\ reading.conn = k /\ reading.id = id)
      /\ <<k, id>> \notin worker /\ <<k, id>> \notin deferred /\ id \notin SetOf(outq[k])
  BY <1>5, HolderIsAlone
<1>7. conn[k] \in {"open", "closed"}
  BY <1>1, <1>6 DEF CallsFollowConnections
<1>8. TasksFollowConnections'
  BY <1>1, <1>2, <1>4, <1>5, TasksStillFollow
<1>9. StopInv' /\ (closing <=> closing')
  BY <1>2, <1>4, <1>5, TaskFrame
<1>10. CASE /\ conn[k] # "closed" /\ outq' = [outq EXCEPT ![k] = Append(@, id)]
            /\ calls' = calls
  <2>1. outq[k] \in Seq(Ids) /\ OnceEach(outq[k])
    BY <1>1 DEF TypeOK, CallsFollowConnections
  <2>2. /\ Append(outq[k], id) \in Seq(Ids) /\ OnceEach(Append(outq[k], id))
        /\ SetOf(Append(outq[k], id)) = SetOf(outq[k]) \cup {id}
    BY <1>6, <2>1, AppendSet
  <2>3. /\ outq' \in [Conns -> Seq(Ids)] /\ OnceEach(outq'[k])
        /\ SetOf(outq'[k]) = SetOf(outq[k]) \cup {id}
        /\ \A l \in Conns : l # k => outq'[l] = outq[l]
    BY <1>1, <1>10, <2>2 DEF TypeOK
  <2>4. TypeOK'
    BY <1>1, <1>2, <1>4, <1>10, <2>3 DEF TypeOK
  <2>5. CallsFollowConnections' /\ LostOnlyIfBroken'
    BY <1>1, <1>2, <1>4, <1>7, <1>9, <1>10, <2>3 DEF CallsFollowConnections, LostOnlyIfBroken
  <2>6. Held(k, id)' = One(id \in calls'[k])
    BY <1>4, <1>5, <1>6, <1>10, <2>3 DEF Held, One
  <2>7. ASSUME NEW l \in Conns, NEW jd \in Ids, l # k \/ jd # id PROVE Held(l, jd)' = Held(l, jd)
    <3>1. jd \in SetOf(outq'[l]) <=> jd \in SetOf(outq[l])
      BY <2>3, <2>7
    <3> QED BY <1>4, <1>5, <2>7, <3>1 DEF Held, One
  <2>8. HeldOnce'
    BY <1>1, <1>10, <2>6, <2>7, HeldMoves
  <2> QED BY <1>4, <1>8, <1>9, <2>4, <2>5, <2>8 DEF IInv, TaskInv, CallInv
<1>11. CASE /\ conn[k] = "closed" /\ calls' = [calls EXCEPT ![k] = @ \ {id}]
            /\ outq' = outq
  <2>1. /\ calls' \in [Conns -> SUBSET Ids] /\ calls'[k] = calls[k] \ {id}
        /\ \A l \in Conns : l # k => calls'[l] = calls[l]
    BY <1>1, <1>11 DEF TypeOK
  <2>2. broken[k] \/ closing
    BY <1>1, <1>6, <1>11 DEF CallsFollowConnections
  <2>3. TypeOK'
    BY <1>1, <1>2, <1>4, <1>11, <2>1 DEF TypeOK
  <2>4. CallsFollowConnections' /\ LostOnlyIfBroken'
    BY <1>1, <1>2, <1>4, <1>9, <1>11, <2>1, <2>2 DEF CallsFollowConnections, LostOnlyIfBroken
  <2>5. Held(k, id)' = One(id \in calls'[k])
    BY <1>4, <1>5, <1>6, <1>11, <2>1 DEF Held, One
  <2>6. ASSUME NEW l \in Conns, NEW jd \in Ids, l # k \/ jd # id
        PROVE  Held(l, jd)' = Held(l, jd) /\ (jd \in calls'[l] <=> jd \in calls[l])
    <3>1. jd \in calls'[l] <=> jd \in calls[l]
      BY <2>1, <2>6
    <3> QED BY <1>4, <1>5, <1>11, <2>6, <3>1 DEF Held, One
  <2>7. HeldOnce'
    BY <1>1, <2>5, <2>6, HeldMoves
  <2> QED BY <1>4, <1>8, <1>9, <2>3, <2>4, <2>7 DEF IInv, TaskInv, CallInv
<1> QED BY <1>2, <1>10, <1>11

LEMMA RunDumpPreserves ==
  ASSUME IInv, RunDump
  PROVE  IInv'
<1>1. TypeOK /\ TasksFollowConnections /\ WriterIsAlone /\ ShutdownIsInOrder
      /\ NoHandlerAfterUnregister
  BY InvParts
<1>2. /\ RunTask(DumpTask) /\ dumper' = [dumper EXCEPT !.at = "finished"]
      /\ UNCHANGED <<conn, negotiation, calls, outq>>
  BY DEF RunDump
<1>3. /\ batch' \in Seq(Tasks) /\ TasksAreUnique' /\ thread = "loop" /\ Removes(DumpTask)
      /\ UNCHANGED <<broken, inbound, arrived, answered, reading, worker, deferred,
                     pending, wake, thread, stopper, flagged>>
  BY <1>2, TaskTypes, RunTaskEffect
<1>4. /\ ToDump
      /\ \A l \in Conns : /\ ToRegister(l)' <=> ToRegister(l)
                          /\ Negotiated(l)' <=> Negotiated(l)
                          /\ FailedToNegotiate(l)' => FailedToNegotiate(l)
      /\ \A l \in Conns, jd \in Ids : ToTransfer(l, jd)' <=> ToTransfer(l, jd)
      /\ ~ToDump'
  BY <1>3, DumpRemoved
<1>5. /\ dumper' \in [at : DumperSteps, cpu : CPUs] /\ dumper'.at = "finished"
      /\ dumper'.cpu = dumper.cpu /\ dumper.at = "waiting"
  <2>1. dumper.at = "waiting"
    BY <1>1, <1>4 DEF WriterIsAlone
  <2>2. dumper \in [at : DumperSteps, cpu : CPUs] /\ "finished" \in DumperSteps
    BY <1>1 DEF TypeOK, DumperSteps
  <2> QED BY <1>2, <2>1, <2>2
<1>6. TypeOK'
  BY <1>1, <1>2, <1>3, <1>5 DEF TypeOK
<1>7. TasksFollowConnections'
  BY <1>1, <1>2, <1>3, <1>4, TasksStillFollow
<1>8. WriterIsAlone' /\ NoHandlerAfterUnregister'
  BY <1>1, <1>3, <1>4, <1>5 DEF WriterIsAlone, DumperHolds, NoHandlerAfterUnregister
<1>9. ShutdownIsInOrder'
  BY <1>1, <1>2, <1>3 DEF ShutdownIsInOrder, PoolOpen, closing
<1>10. CallInv'
  BY <1>2, <1>3, <1>4, CallsKept DEF closing
<1> QED BY <1>3, <1>6, <1>7, <1>8, <1>9, <1>10 DEF IInv, TaskInv, StopInv

\* The reactor thread takes the whole queue, or tears everything down.
LEMMA DrainEffect ==
  ASSUME TypeOK, TasksAreUnique, batch = <<>>, batch' = pending, pending' = <<>>
  PROVE  /\ pending' \in Seq(Tasks) /\ batch' \in Seq(Tasks) /\ TasksAreUnique'
         /\ \A l \in Conns : /\ ToRegister(l)' <=> ToRegister(l)
                             /\ Negotiated(l)' <=> Negotiated(l)
                             /\ FailedToNegotiate(l)' => FailedToNegotiate(l)
         /\ \A l \in Conns, jd \in Ids : ToTransfer(l, jd)' <=> ToTransfer(l, jd)
         /\ ToDump' <=> ToDump
<1>1. pending' \in Seq(Tasks) /\ batch' \in Seq(Tasks)
  BY DEF TypeOK
<1>2. \A t : ~HasTask(batch, t) /\ ~HasTask(pending', t)
  BY EmptyHasNone
<1>3. \A t : HasTask(pending', t) \/ HasTask(batch', t) <=> InTasks(t)
  BY <1>2 DEF InTasks
<1>4. TasksAreUnique'
  BY <1>2, EmptyHasNone DEF TasksAreUnique
<1>5. \A l \in Conns : FailedToNegotiate(l)' => FailedToNegotiate(l)
  BY EmptyHasNone DEF FailedToNegotiate
<1> QED BY <1>1, <1>3, <1>4, <1>5 DEF ToRegister, Negotiated, ToTransfer, ToDump, InTasks

LEMMA AsyncHandlerPreserves ==
  ASSUME IInv, AsyncHandler
  PROVE  IInv'
<1>1. /\ TypeOK /\ TasksAreUnique /\ TasksFollowConnections
      /\ WriterIsAlone /\ ShutdownIsInOrder /\ NoHandlerAfterUnregister
  BY InvParts
<1>2. /\ thread = "loop" /\ batch = <<>> /\ ~reading.held /\ wake' = FALSE
      /\ \/ /\ ~closing /\ batch' = pending /\ pending' = <<>>
            /\ UNCHANGED <<conn, calls, outq, thread>>
         \/ /\ closing /\ thread' = "exited"
            /\ ShutdownConnections({k \in Conns : conn[k] \in {"negotiating", "open"}})
            /\ UNCHANGED <<pending, batch>>
      /\ UNCHANGED <<negotiation, broken, inbound, arrived, answered, reading, worker, deferred,
                     dumper, stopper, flagged>>
  BY DEF AsyncHandler, AtLoop, serviceVars, otherVars
<1>3. /\ wake' \in BOOLEAN
      /\ UNCHANGED <<negotiation, broken, inbound, arrived, answered, reading, worker, deferred,
                     dumper, stopper, flagged>>
  BY <1>2
<1>4. CASE /\ ~closing /\ batch' = pending /\ pending' = <<>>
           /\ UNCHANGED <<conn, calls, outq, thread>>
  <2>1. /\ pending' \in Seq(Tasks) /\ batch' \in Seq(Tasks) /\ TasksAreUnique'
        /\ \A l \in Conns : /\ ToRegister(l)' <=> ToRegister(l)
                            /\ Negotiated(l)' <=> Negotiated(l)
                            /\ FailedToNegotiate(l)' => FailedToNegotiate(l)
        /\ \A l \in Conns, jd \in Ids : ToTransfer(l, jd)' <=> ToTransfer(l, jd)
        /\ ToDump' <=> ToDump
    BY <1>1, <1>2, <1>4, DrainEffect
  <2>2. TypeOK'
    BY <1>1, <1>4, <1>3, <2>1 DEF TypeOK
  <2>3. TasksFollowConnections'
    BY <1>1, <1>2, <1>4, <2>1, TasksStillFollow
  <2>4. StopInv'
    BY <1>2, <1>4, <2>1, StopperStillAlone
  <2>5. CallInv'
    BY <1>2, <1>4, <2>1, CallsKept DEF closing
  <2> QED BY <2>1, <2>2, <2>3, <2>4, <2>5 DEF IInv, TaskInv
<1>5. CASE /\ closing /\ thread' = "exited"
           /\ ShutdownConnections({k \in Conns : conn[k] \in {"negotiating", "open"}})
           /\ UNCHANGED <<pending, batch>>
  <2> DEFINE ks == {k \in Conns : conn[k] \in {"negotiating", "open"}}
  <2>1. /\ conn' \in [Conns -> {"none", "accepted", "negotiating", "open", "closed"}]
        /\ calls' \in [Conns -> SUBSET Ids] /\ outq' \in [Conns -> Seq(Ids)]
        /\ \A k \in ks : conn'[k] = "closed"
        /\ \A k \in Conns : k \notin ks => conn'[k] = conn[k]
    BY <1>1, <1>5, ShutdownEffect
  <2>2. /\ TasksAreUnique'
        /\ \A l \in Conns : /\ ToRegister(l)' <=> ToRegister(l)
                            /\ Negotiated(l)' <=> Negotiated(l)
                            /\ FailedToNegotiate(l)' => FailedToNegotiate(l)
        /\ \A l \in Conns, jd \in Ids : ToTransfer(l, jd)' <=> ToTransfer(l, jd)
        /\ ToDump' <=> ToDump
    BY <1>1, <1>5, TasksKept
  <2>3. TypeOK'
    BY <1>1, <1>5, <1>3, <2>1 DEF TypeOK
  <2>4. \A k \in Conns : negotiation[k] = "none"
    BY <1>1, <1>5 DEF ShutdownIsInOrder
  <2>5. TasksFollowConnections'
    <3>1. \A k \in Conns : conn'[k] = "accepted" <=> conn[k] = "accepted"
      BY <2>1
    <3> QED BY <1>1, <1>2, <1>5, <2>2, <2>4, <3>1 DEF TasksFollowConnections
  <2>6. WriterIsAlone' /\ NoHandlerAfterUnregister'
    BY <1>1, <1>2, <2>2 DEF WriterIsAlone, DumperHolds, NoHandlerAfterUnregister
  <2>7. ShutdownIsInOrder'
    <3>1. \A k \in Conns : conn'[k] \notin {"negotiating", "open"}
      BY <2>1
    <3> QED BY <1>1, <1>2, <1>5, <3>1 DEF ShutdownIsInOrder, PoolOpen, closing
  <2>8. CallInv'
    BY <1>2, <1>5, <2>2, ShutdownCalls DEF closing
  <2> QED BY <2>2, <2>3, <2>5, <2>6, <2>7, <2>8 DEF IInv, TaskInv, StopInv
<1> QED BY <1>2, <1>4, <1>5

-----------------------------------------------------------------------------
(* Acceptor and negotiation threads.                                       *)

LEMMA AcceptPreserves ==
  ASSUME IInv, NEW k \in Conns, Accept(k)
  PROVE  IInv'
<1>1. /\ TypeOK /\ TasksAreUnique /\ TasksFollowConnections /\ CallsFollowConnections
      /\ HeldOnce /\ LostOnlyIfBroken
      /\ WriterIsAlone /\ ShutdownIsInOrder /\ NoHandlerAfterUnregister
  BY InvParts
<1>2. /\ stopper = "up" /\ conn[k] = "none" /\ conn' = [conn EXCEPT ![k] = "accepted"]
      /\ Schedule(RegisterTask(k))
      /\ UNCHANGED <<negotiation, broken, inbound, arrived, calls, outq, answered, reading,
                     worker, deferred, batch, thread, dumper, stopper, flagged>>
  BY DEF Accept, serviceVars, otherVars
<1>3. ~ToRegister(k)
  BY <1>1, <1>2 DEF TasksFollowConnections
<1>4. /\ pending' \in Seq(Tasks) /\ wake' = TRUE /\ TasksAreUnique'
      /\ \A l \in Conns : /\ ToRegister(l)' <=> ToRegister(l) \/ l = k
                          /\ Negotiated(l)' <=> Negotiated(l)
                          /\ FailedToNegotiate(l)' => FailedToNegotiate(l)
      /\ \A l \in Conns, jd \in Ids : ToTransfer(l, jd)' <=> ToTransfer(l, jd)
      /\ ToDump' <=> ToDump
  BY <1>1, <1>2, <1>3, RegisterScheduled
<1>5. /\ conn' \in [Conns -> {"none", "accepted", "negotiating", "open", "closed"}]
      /\ conn'[k] = "accepted" /\ \A l \in Conns : l # k => conn'[l] = conn[l]
  BY <1>1, <1>2 DEF TypeOK
<1>6. TypeOK'
  BY <1>1, <1>2, <1>4, <1>5 DEF TypeOK
<1>7. ~closing /\ thread = "loop"
  BY <1>1, <1>2 DEF TypeOK, ShutdownIsInOrder, closing
<1>8. TasksFollowConnections'
  BY <1>1, <1>2, <1>4, <1>5, <1>7 DEF TasksFollowConnections
<1>9. WriterIsAlone' /\ NoHandlerAfterUnregister'
  BY <1>1, <1>2, <1>4 DEF WriterIsAlone, DumperHolds, NoHandlerAfterUnregister
<1>10. ShutdownIsInOrder'
  BY <1>2, <1>7 DEF ShutdownIsInOrder, PoolOpen, closing
<1>11. CallsFollowConnections' /\ LostOnlyIfBroken'
  BY <1>1, <1>2, <1>5, <1>7 DEF CallsFollowConnections, LostOnlyIfBroken, closing
<1>12. \A l \in Conns, jd \in Ids : Held(l, jd)' = Held(l, jd)
  BY <1>2, <1>4 DEF Held, One
<1>13. HeldOnce'
  BY <1>1, <1>2, <1>12, HeldStays
<1> QED
  BY <1>4, <1>6, <1>8, <1>9, <1>10, <1>11, <1>13 DEF IInv, TaskInv, StopInv, CallInv

LEMMA StartNegotiatingPreserves ==
  ASSUME IInv, NEW k \in Conns, StartNegotiating(k)
  PROVE  IInv'
<1>1. /\ TypeOK /\ TasksAreUnique /\ TasksFollowConnections
      /\ WriterIsAlone /\ ShutdownIsInOrder /\ NoHandlerAfterUnregister
  BY InvParts
<1>2. /\ negotiation[k] = "queued" /\ negotiation' = [negotiation EXCEPT ![k] = "running"]
      /\ UNCHANGED <<conn, broken, inbound, arrived, calls, outq, answered, reading, worker,
                     deferred, pending, wake, batch, thread, dumper, stopper, flagged>>
  BY DEF StartNegotiating, serviceVars, taskVars, otherVars
<1>3. /\ TasksAreUnique'
      /\ \A l \in Conns : /\ ToRegister(l)' <=> ToRegister(l)
                          /\ Negotiated(l)' <=> Negotiated(l)
                          /\ FailedToNegotiate(l)' => FailedToNegotiate(l)
      /\ \A l \in Conns, jd \in Ids : ToTransfer(l, jd)' <=> ToTransfer(l, jd)
      /\ ToDump' <=> ToDump
  BY <1>1, <1>2, TasksKept
<1>4. /\ negotiation' \in [Conns -> {"none", "queued", "running"}]
      /\ negotiation'[k] = "running"
      /\ \A l \in Conns : l # k => negotiation'[l] = negotiation[l]
  BY <1>1, <1>2 DEF TypeOK
<1>5. TypeOK'
  BY <1>1, <1>2, <1>4 DEF TypeOK
<1>6. TasksFollowConnections'
  BY <1>1, <1>2, <1>3, <1>4 DEF TasksFollowConnections
<1>7. WriterIsAlone' /\ NoHandlerAfterUnregister'
  BY <1>1, <1>2, <1>3 DEF WriterIsAlone, DumperHolds, NoHandlerAfterUnregister
<1>8. ShutdownIsInOrder'
  BY <1>1, <1>2, <1>4 DEF ShutdownIsInOrder, PoolOpen, closing
<1>9. CallInv'
  BY <1>2, <1>3, CallsKept DEF closing
<1> QED BY <1>3, <1>5, <1>6, <1>7, <1>8, <1>9 DEF IInv, TaskInv, StopInv

LEMMA CompleteNegotiationPreserves ==
  ASSUME IInv, NEW k \in Conns, NEW ok \in BOOLEAN, CompleteNegotiation(k, ok)
  PROVE  IInv'
<1>1. /\ TypeOK /\ TasksAreUnique /\ TasksFollowConnections /\ CallsFollowConnections
      /\ HeldOnce /\ LostOnlyIfBroken
      /\ WriterIsAlone /\ ShutdownIsInOrder /\ NoHandlerAfterUnregister
  BY InvParts
<1>2. /\ negotiation[k] = "running" /\ negotiation' = [negotiation EXCEPT ![k] = "none"]
      /\ broken' = [broken EXCEPT ![k] = ~ok]
      /\ Schedule(NegotiatedTask(k, ok))
      /\ UNCHANGED <<conn, inbound, arrived, calls, outq, answered, reading, worker,
                     deferred, batch, thread, dumper, stopper, flagged>>
  BY DEF CompleteNegotiation, serviceVars, otherVars
<1>3. conn[k] = "negotiating" /\ ~Negotiated(k)
  BY <1>1, <1>2 DEF TasksFollowConnections
<1>4. ~InTasks(NegotiatedTask(k, ok)) /\ ~FailedToNegotiate(k)
  BY <1>3, NegotiationsAreAlike
<1>5. /\ pending' \in Seq(Tasks) /\ wake' = TRUE /\ TasksAreUnique'
      /\ \A l \in Conns : /\ ToRegister(l)' <=> ToRegister(l)
                          /\ Negotiated(l)' <=> Negotiated(l) \/ l = k
                          /\ FailedToNegotiate(l)' => FailedToNegotiate(l) \/ (l = k /\ ~ok)
      /\ \A l \in Conns, jd \in Ids : ToTransfer(l, jd)' <=> ToTransfer(l, jd)
      /\ ToDump' <=> ToDump
  BY <1>1, <1>2, <1>4, NegotiatedScheduled
<1>6. /\ negotiation' \in [Conns -> {"none", "queued", "running"}]
      /\ negotiation'[k] = "none"
      /\ \A l \in Conns : l # k => negotiation'[l] = negotiation[l]
  BY <1>1, <1>2 DEF TypeOK
<1>7. /\ broken' \in [Conns -> BOOLEAN] /\ broken'[k] = ~ok
      /\ \A l \in Conns : l # k => broken'[l] = broken[l]
  BY <1>1, <1>2 DEF TypeOK
<1>8. TypeOK'
  BY <1>1, <1>2, <1>5, <1>6, <1>7 DEF TypeOK
<1>9. ~closing /\ thread = "loop"
  BY <1>1, <1>2 DEF TypeOK, ShutdownIsInOrder
<1>10. TasksFollowConnections'
  <2> SUFFICES ASSUME NEW l \in Conns
               PROVE  /\ conn'[l] = "accepted" <=> ToRegister(l)'
                      /\ negotiation'[l] # "none" => conn'[l] = "negotiating" /\ ~Negotiated(l)'
                      /\ Negotiated(l)' => conn'[l] = "negotiating" \/ thread' = "exited"
                      /\ FailedToNegotiate(l)' => broken'[l]
    BY DEF TasksFollowConnections
  <2>1. CASE l = k
    BY <1>1, <1>2, <1>3, <1>4, <1>5, <1>6, <1>7, <2>1 DEF TasksFollowConnections
  <2>2. CASE l # k
    BY <1>1, <1>2, <1>5, <1>6, <1>7, <2>2 DEF TasksFollowConnections
  <2> QED BY <2>1, <2>2
<1>11. WriterIsAlone' /\ NoHandlerAfterUnregister'
  BY <1>1, <1>2, <1>5 DEF WriterIsAlone, DumperHolds, NoHandlerAfterUnregister
<1>12. ShutdownIsInOrder'
  BY <1>1, <1>2, <1>6, <1>9 DEF ShutdownIsInOrder, PoolOpen, closing
<1>13. CallsFollowConnections' /\ LostOnlyIfBroken'
  BY <1>1, <1>2, <1>3, <1>7, <1>9 DEF CallsFollowConnections, LostOnlyIfBroken, closing
<1>14. \A l \in Conns, jd \in Ids : Held(l, jd)' = Held(l, jd)
  BY <1>2, <1>5 DEF Held, One
<1>15. HeldOnce'
  BY <1>1, <1>2, <1>14, HeldStays
<1> QED
  BY <1>5, <1>8, <1>10, <1>11, <1>12, <1>13, <1>15 DEF IInv, TaskInv, StopInv, CallInv

-----------------------------------------------------------------------------
(* The dumper.                                                             *)

\* Only the dumper moves, to a place where it may be.
LEMMA DumperMoves ==
  ASSUME IInv, UNCHANGED <<conn, negotiation, broken, inbound, arrived, calls, outq, answered,
                           reading, worker, deferred, batch, thread, stopper, flagged>>,
         dumper' \in [at : DumperSteps, cpu : CPUs],
         pending' \in Seq(Tasks), wake' \in BOOLEAN, TasksAreUnique',
         \A l \in Conns : /\ ToRegister(l)' <=> ToRegister(l)
                          /\ Negotiated(l)' <=> Negotiated(l)
                          /\ FailedToNegotiate(l)' => FailedToNegotiate(l),
         \A l \in Conns, jd \in Ids : ToTransfer(l, jd)' <=> ToTransfer(l, jd),
         ToDump' => dumper'.at = "waiting",
         DumperHolds' => (DumperHolds /\ dumper'.cpu = dumper.cpu) \/ ReaderEnters(dumper'.cpu),
         closing => pending' = pending
  PROVE  IInv'
<1>1. /\ TypeOK /\ TasksFollowConnections
      /\ WriterIsAlone /\ ShutdownIsInOrder /\ NoHandlerAfterUnregister
  BY InvParts
<1>2. TypeOK'
  BY <1>1 DEF TypeOK
<1>3. TasksFollowConnections'
  BY <1>1, TasksStillFollow
<1>4. WriterIsAlone'
  <2>1. CASE DumperHolds' => DumperHolds /\ dumper'.cpu = dumper.cpu
    BY <1>1, <2>1 DEF WriterIsAlone
  <2>2. CASE ReaderEnters(dumper'.cpu)
    <3>1. /\ flagged \in 0 .. NumCPUs /\ dumper'.cpu \in 0 .. NumCPUs - 1
          /\ dumper'.cpu >= flagged /\ NumCPUs \in Nat
      BY <1>1, <2>2, ServerAssumption DEF TypeOK, ReaderEnters, CPUs
    <3>2. flagged # NumCPUs /\ flagged <= dumper'.cpu + 1
      BY <3>1
    <3> QED BY <1>1, <3>2 DEF WriterIsAlone
  <2> QED BY <2>1, <2>2
<1>5. ShutdownIsInOrder'
  BY <1>1 DEF ShutdownIsInOrder, PoolOpen, closing
<1>6. NoHandlerAfterUnregister'
  BY <1>1 DEF NoHandlerAfterUnregister
<1>7. CallInv'
  BY CallsKept DEF closing
<1> QED BY <1>2, <1>3, <1>4, <1>5, <1>6, <1>7 DEF IInv, TaskInv, StopInv

LEMMA DumperPreserves ==
  ASSUME IInv, (\E cpu \in CPUs : StartDump(cpu)) \/ Dump
  PROVE  IInv'
<1>1. TypeOK /\ TasksAreUnique /\ WriterIsAlone /\ ShutdownIsInOrder
  BY InvParts
<1>2. UNCHANGED <<conn, negotiation, broken, inbound, arrived, calls, outq, answered,
                  reading, worker, deferred, batch, thread, stopper, flagged>>
  BY DEF StartDump, Dump, DumpLocks, ScheduleDump, DumpReturns, DumperOnly, connVars, serviceVars
<1>3. dumper \in [at : DumperSteps, cpu : CPUs] /\ pending \in Seq(Tasks) /\ wake \in BOOLEAN
  BY <1>1 DEF TypeOK
<1>4. DumperSteps = {"idle", "spinning", "locked", "waiting", "finished"}
  BY DEF DumperSteps
<1>5. CASE UNCHANGED <<pending, wake>>
  <2>1. /\ TasksAreUnique'
        /\ \A l \in Conns : /\ ToRegister(l)' <=> ToRegister(l)
                            /\ Negotiated(l)' <=> Negotiated(l)
                            /\ FailedToNegotiate(l)' => FailedToNegotiate(l)
        /\ \A l \in Conns, jd \in Ids : ToTransfer(l, jd)' <=> ToTransfer(l, jd)
        /\ ToDump' <=> ToDump
    BY <1>1, <1>2, <1>5, TasksKept
  <2>2. ToDump => dumper.at = "waiting"
    BY <1>1 DEF WriterIsAlone
  <2>3. CASE \E cpu \in CPUs : StartDump(cpu)
    <3>1. PICK cpu \in CPUs : dumper.at = "idle" /\ dumper' = [at |-> "spinning", cpu |-> cpu]
      BY <2>3 DEF StartDump
    <3>2. /\ dumper' \in [at : DumperSteps, cpu : CPUs] /\ ~DumperHolds' /\ ~ToDump'
      BY <1>4, <2>1, <2>2, <3>1 DEF DumperHolds
    <3> QED BY <1>2, <1>3, <1>5, <2>1, <3>2, DumperMoves
  <2>4. CASE DumpLocks
    <3>1. /\ dumper.at = "spinning" /\ ReaderEnters(dumper.cpu)
          /\ dumper' = [dumper EXCEPT !.at = "locked"]
      BY <2>4 DEF DumpLocks
    <3>2. /\ dumper' \in [at : DumperSteps, cpu : CPUs] /\ ReaderEnters(dumper'.cpu)
          /\ ~ToDump'
      BY <1>3, <1>4, <2>1, <2>2, <3>1
    <3> QED BY <1>2, <1>3, <1>5, <2>1, <3>2, DumperMoves
  <2>5. CASE ScheduleDump
    <3>1. /\ dumper.at = "locked"
          /\ dumper' = [dumper EXCEPT !.at = "finished"] \/ Schedule(DumpTask)
      BY <2>5 DEF ScheduleDump
    <3>2. ~Schedule(DumpTask)
      <4>1. Append(pending, DumpTask) # pending
        BY <1>3, TaskTypes
      <4> QED BY <1>5, <4>1 DEF Schedule
    <3>3. /\ dumper' \in [at : DumperSteps, cpu : CPUs] /\ dumper'.cpu = dumper.cpu
          /\ DumperHolds /\ ~ToDump'
      BY <1>3, <1>4, <2>1, <2>2, <3>1, <3>2 DEF DumperHolds
    <3> QED BY <1>2, <1>3, <1>5, <2>1, <3>3, DumperMoves
  <2>6. CASE DumpReturns
    <3>1. dumper.at = "finished" /\ dumper' = [at |-> "idle", cpu |-> 0]
      BY <2>6 DEF DumpReturns
    <3>2. 0 \in CPUs
      BY ServerAssumption DEF CPUs
    <3>3. /\ dumper' \in [at : DumperSteps, cpu : CPUs] /\ ~DumperHolds' /\ ~ToDump'
      BY <1>4, <2>1, <2>2, <3>1, <3>2 DEF DumperHolds
    <3> QED BY <1>2, <1>3, <1>5, <2>1, <3>3, DumperMoves
  <2> QED BY <2>3, <2>4, <2>5, <2>6 DEF Dump
<1>6. CASE /\ dumper.at = "locked" /\ Accepts /\ Schedule(DumpTask)
           /\ dumper' = [dumper EXCEPT !.at = "waiting"]
  <2>1. ~ToDump
    BY <1>1, <1>6 DEF WriterIsAlone
  <2>2. /\ pending' \in Seq(Tasks) /\ wake' = TRUE /\ TasksAreUnique'
        /\ \A l \in Conns : /\ ToRegister(l)' <=> ToRegister(l)
                            /\ Negotiated(l)' <=> Negotiated(l)
                            /\ FailedToNegotiate(l)' => FailedToNegotiate(l)
        /\ \A l \in Conns, jd \in Ids : ToTransfer(l, jd)' <=> ToTransfer(l, jd)
    BY <1>1, <1>2, <1>6, <2>1, DumpScheduled
  <2>3. /\ dumper' \in [at : DumperSteps, cpu : CPUs] /\ dumper'.at = "waiting"
        /\ dumper'.cpu = dumper.cpu /\ DumperHolds
    BY <1>3, <1>4, <1>6 DEF DumperHolds
  <2>4. ~closing
    BY <1>6 DEF Accepts
  <2> QED BY <1>2, <2>2, <2>3, <2>4, DumperMoves
<1> QED BY <1>5, <1>6 DEF StartDump, Dump, DumpLocks, ScheduleDump, DumpReturns

-----------------------------------------------------------------------------
(* The thread that stops the server.                                       *)

LEMMA StopperMoves ==
  ASSUME IInv, UNCHANGED <<conn, broken, inbound, arrived, calls, outq, answered, reading,
                           worker, deferred, pending, batch, thread, dumper>>,
         negotiation' \in [Conns -> {"none", "queued", "running"}],
         \A k \in Conns : negotiation'[k] = negotiation[k] \/ negotiation'[k] = "none",
         wake' \in BOOLEAN, flagged' \in 0 .. NumCPUs, stopper' \in StopperSteps,
         closing => closing',
         WriterIsAlone', ShutdownIsInOrder', NoHandlerAfterUnregister'
  PROVE  IInv'
<1>1. TypeOK /\ TasksAreUnique /\ TasksFollowConnections
  BY InvParts
<1>2. /\ TasksAreUnique'
      /\ \A l \in Conns : /\ ToRegister(l)' <=> ToRegister(l)
                          /\ Negotiated(l)' <=> Negotiated(l)
                          /\ FailedToNegotiate(l)' => FailedToNegotiate(l)
      /\ \A l \in Conns, jd \in Ids : ToTransfer(l, jd)' <=> ToTransfer(l, jd)
  BY <1>1, TasksKept
<1>3. TypeOK'
  BY <1>1 DEF TypeOK
<1>4. TasksFollowConnections'
  BY <1>1, <1>2 DEF TasksFollowConnections
<1>5. CallInv'
  BY <1>2, CallsKept
<1> QED BY <1>2, <1>3, <1>4, <1>5 DEF IInv, TaskInv, StopInv

\* The writer whose last reader is gone is alone with the lock.
LEMMA WriterExcludesDumper ==
  ASSUME TypeOK, WriterIsAlone, WriterHolds
  PROVE  flagged = NumCPUs /\ ~DumperHolds
<1>1. /\ flagged = NumCPUs /\ NumCPUs \in Nat \ {0}
      /\ DumperHolds => dumper.cpu # flagged - 1 /\ flagged <= dumper.cpu + 1
      /\ dumper.cpu \in 0 .. NumCPUs - 1
  BY ServerAssumption DEF TypeOK, WriterIsAlone, WriterHolds, ReadersGone, CPUs
<1> QED BY <1>1

LEMMA StopperPreserves ==
  ASSUME IInv, ShutdownAcceptors \/ (StopperStep /\ ~AbortTask)
  PROVE  IInv'
<1>1. /\ TypeOK /\ TasksFollowConnections
      /\ WriterIsAlone /\ ShutdownIsInOrder /\ NoHandlerAfterUnregister
  BY InvParts
<1>2. /\ wake \in BOOLEAN /\ flagged \in 0 .. NumCPUs /\ NumCPUs \in Nat \ {0}
      /\ negotiation \in [Conns -> {"none", "queued", "running"}]
      /\ thread \in {"loop", "exited"}
  BY <1>1, ServerAssumption DEF TypeOK
<1>3. StopperSteps = {"up", "acceptors", "unregister", "join", "unregistered",
                      "shutdown", "pool", "closing", "done"}
  BY DEF StopperSteps
<1>4. 0 \in 0 .. NumCPUs
  BY <1>2
<1>5. CASE \/ GoesOn("up", "acceptors") /\ UNCHANGED <<flagged, pending, wake>>
           \/ GoesOn("acceptors", "unregister") /\ UNCHANGED <<flagged, pending, wake>>
           \/ GoesOn("unregistered", "shutdown") /\ UNCHANGED <<flagged, pending, wake>>
  <2>1. /\ stopper \in {"up", "acceptors", "unregistered"}
        /\ stopper' \in {"acceptors", "unregister", "shutdown"}
        /\ stopper = "unregistered" <=> stopper' = "shutdown"
        /\ UNCHANGED <<conn, negotiation, broken, inbound, arrived, calls, outq, answered, reading,
                       worker, deferred, pending, wake, batch, thread, dumper, flagged>>
    BY <1>5 DEF GoesOn, StopperOnly, connVars, serviceVars
  <2>2. stopper' \in StopperSteps /\ ~closing /\ ~closing' /\ PoolOpen'
    BY <1>3, <2>1 DEF closing, PoolOpen
  <2>3. WriterIsAlone' /\ NoHandlerAfterUnregister'
    <3>1. ToDump' => ToDump
      BY <2>1, TasksKept
    <3> QED BY <1>1, <2>1, <3>1 DEF WriterIsAlone, DumperHolds, NoHandlerAfterUnregister
  <2>4. ShutdownIsInOrder'
    BY <1>1, <2>1, <2>2 DEF ShutdownIsInOrder
  <2> QED BY <1>2, <2>1, <2>2, <2>3, <2>4, StopperMoves
<1>6. CASE LockExclusively
  <2>1. /\ stopper \in {"unregister", "shutdown"} /\ stopper' = stopper
        /\ flagged < NumCPUs /\ ReadersGone /\ flagged' = flagged + 1
        /\ UNCHANGED <<conn, negotiation, broken, inbound, arrived, calls, outq, answered, reading,
                       worker, deferred, pending, wake, batch, thread, dumper>>
    BY <1>6 DEF LockExclusively, FlagNext, StopperOnly, connVars, serviceVars
  <2>2. flagged' \in 0 .. NumCPUs /\ stopper' \in StopperSteps
    BY <1>2, <1>3, <2>1
  <2>3. WriterIsAlone'
    <3>1. ToDump' => ToDump
      BY <2>1, TasksKept
    <3>2. dumper.cpu \in 0 .. NumCPUs - 1
      BY <1>1 DEF TypeOK, CPUs
    <3>3. DumperHolds => flagged' <= dumper.cpu + 1
      BY <1>1, <1>2, <2>1, <3>2 DEF WriterIsAlone, ReadersGone
    <3> QED BY <1>1, <2>1, <3>1, <3>3 DEF WriterIsAlone, DumperHolds
  <2>4. ShutdownIsInOrder' /\ NoHandlerAfterUnregister' /\ (closing => closing')
    BY <1>1, <2>1 DEF ShutdownIsInOrder, NoHandlerAfterUnregister, PoolOpen, closing
  <2> QED BY <1>2, <2>1, <2>2, <2>3, <2>4, StopperMoves
<1>7. CASE ClearServices
  <2>1. /\ WriterHolds /\ stopper = "unregister" /\ stopper' = "join"
        /\ UNCHANGED <<conn, negotiation, broken, inbound, arrived, calls, outq, answered, reading,
                       worker, deferred, pending, wake, batch, thread, dumper, flagged>>
    BY <1>7 DEF ClearServices, GoesOn, StopperOnly, connVars, serviceVars
  <2>2. stopper' \in StopperSteps /\ ~closing /\ ~closing' /\ PoolOpen'
    BY <1>3, <2>1 DEF closing, PoolOpen
  <2>3. WriterIsAlone' /\ NoHandlerAfterUnregister'
    <3>1. ToDump' => ToDump
      BY <2>1, TasksKept
    <3>2. flagged = NumCPUs /\ ~DumperHolds
      BY <1>1, <2>1, WriterExcludesDumper
    <3> QED BY <1>1, <2>1, <3>1, <3>2 DEF WriterIsAlone, DumperHolds, NoHandlerAfterUnregister
  <2>4. ShutdownIsInOrder'
    BY <1>1, <2>1, <2>2 DEF ShutdownIsInOrder
  <2> QED BY <1>2, <2>1, <2>2, <2>3, <2>4, StopperMoves
<1>8. CASE Unregistered
  <2>1. /\ worker = {} /\ stopper = "join" /\ stopper' = "unregistered" /\ flagged' = 0
        /\ UNCHANGED <<conn, negotiation, broken, inbound, arrived, calls, outq, answered, reading,
                       worker, deferred, pending, wake, batch, thread, dumper>>
    BY <1>8 DEF Unregistered, WorkersJoined, GoesOn, StopperOnly, connVars, serviceVars
  <2>2. stopper' \in StopperSteps /\ ~closing /\ ~closing' /\ PoolOpen'
    BY <1>3, <2>1 DEF closing, PoolOpen
  <2>3. WriterIsAlone' /\ NoHandlerAfterUnregister'
    <3>1. ToDump' => ToDump
      BY <2>1, TasksKept
    <3>2. ~DumperHolds
      BY <1>1, <2>1 DEF WriterIsAlone
    <3> QED BY <1>1, <2>1, <3>1, <3>2 DEF WriterIsAlone, DumperHolds, NoHandlerAfterUnregister
  <2>4. ShutdownIsInOrder'
    BY <1>1, <2>1, <2>2 DEF ShutdownIsInOrder
  <2> QED BY <1>2, <1>4, <2>1, <2>2, <2>3, <2>4, StopperMoves
<1>9. CASE ShutdownPool
  <2>1. /\ WriterHolds /\ stopper = "shutdown" /\ stopper' = "pool"
        /\ negotiation' = [k \in Conns |->
                             IF negotiation[k] = "queued" THEN "none" ELSE negotiation[k]]
        /\ UNCHANGED <<conn, broken, inbound, arrived, calls, outq, answered, reading,
                       worker, deferred, pending, wake, batch, thread, dumper, flagged>>
    BY <1>9 DEF ShutdownPool, serviceVars, taskVars
  <2>2. /\ stopper' \in StopperSteps /\ ~closing /\ ~closing'
        /\ negotiation' \in [Conns -> {"none", "queued", "running"}]
        /\ \A k \in Conns : /\ negotiation'[k] = negotiation[k] \/ negotiation'[k] = "none"
                            /\ negotiation'[k] # "queued"
    BY <1>2, <1>3, <2>1 DEF closing
  <2>3. WriterIsAlone' /\ NoHandlerAfterUnregister'
    <3>1. ToDump' => ToDump
      BY <2>1, TasksKept
    <3>2. flagged = NumCPUs /\ ~DumperHolds
      BY <1>1, <2>1, WriterExcludesDumper
    <3> QED BY <1>1, <2>1, <3>1, <3>2 DEF WriterIsAlone, DumperHolds, NoHandlerAfterUnregister
  <2>4. ShutdownIsInOrder'
    BY <1>1, <2>1, <2>2 DEF ShutdownIsInOrder
  <2> QED BY <1>2, <2>1, <2>2, <2>3, <2>4, StopperMoves
<1>10. CASE ShutdownReactor
  <2>1. /\ \A k \in Conns : negotiation[k] # "running"
        /\ stopper = "pool" /\ stopper' = "closing" /\ wake' = TRUE
        /\ UNCHANGED <<conn, negotiation, broken, inbound, arrived, calls, outq, answered, reading,
                       worker, deferred, pending, batch, thread, dumper, flagged>>
    BY <1>10 DEF ShutdownReactor, WakeOnShutdown, GoesOn, StopperOnly, connVars, serviceVars
  <2>2. stopper' \in StopperSteps /\ ~closing /\ closing' /\ ~PoolOpen
    BY <1>3, <2>1 DEF closing, PoolOpen
  <2>3. \A k \in Conns : negotiation[k] = "none"
    BY <1>1, <1>2, <2>1, <2>2 DEF ShutdownIsInOrder
  <2>4. WriterIsAlone' /\ NoHandlerAfterUnregister'
    <3>1. ToDump' => ToDump
      BY <2>1, TasksKept
    <3> QED BY <1>1, <2>1, <3>1 DEF WriterIsAlone, DumperHolds, NoHandlerAfterUnregister
  <2>5. ShutdownIsInOrder'
    BY <1>1, <2>1, <2>2, <2>3 DEF ShutdownIsInOrder
  <2> QED BY <1>2, <2>1, <2>2, <2>4, <2>5, StopperMoves
<1>11. CASE ShutdownDone
  <2>1. /\ pending = <<>> /\ stopper = "closing" /\ stopper' = "done" /\ flagged' = 0
        /\ UNCHANGED <<conn, negotiation, broken, inbound, arrived, calls, outq, answered, reading,
                       worker, deferred, pending, wake, batch, thread, dumper>>
    BY <1>11 DEF ShutdownDone, GoesOn, StopperOnly, connVars, serviceVars
  <2>2. stopper' \in StopperSteps /\ closing /\ closing' /\ ~PoolOpen
    BY <1>3, <2>1 DEF closing, PoolOpen
  <2>3. WriterIsAlone' /\ NoHandlerAfterUnregister'
    <3>1. ToDump' => ToDump
      BY <2>1, TasksKept
    <3>2. ~DumperHolds
      BY <1>1, <2>1 DEF WriterIsAlone
    <3> QED BY <1>1, <2>1, <3>1, <3>2 DEF WriterIsAlone, DumperHolds, NoHandlerAfterUnregister
  <2>4. ShutdownIsInOrder'
    BY <1>1, <2>1, <2>2 DEF ShutdownIsInOrder
  <2> QED BY <1>2, <1>4, <2>1, <2>2, <2>3, <2>4, StopperMoves
<1> QED
  BY <1>5, <1>6, <1>7, <1>8, <1>9, <1>10, <1>11
  DEF ShutdownAcceptors, StopperStep, StartUnregister, StartShutdown

LEMMA AbortTaskPreserves ==
  ASSUME IInv, AbortTask
  PROVE  IInv'
<1>1. /\ TypeOK /\ TasksAreUnique /\ TasksFollowConnections /\ CallsFollowConnections
      /\ HeldOnce /\ LostOnlyIfBroken
      /\ WriterIsAlone /\ ShutdownIsInOrder /\ NoHandlerAfterUnregister
  BY InvParts
<1>2. PICK t : t = Head(pending)
  OBVIOUS
<1>3. /\ stopper = "closing" /\ pending # <<>> /\ pending' = Tail(pending)
      /\ calls' = IF t.kind = "transfer" THEN Erased(t.conn, t.id) ELSE calls
      /\ conn' = IF t.kind = "register" THEN [conn EXCEPT ![t.conn] = "closed"] ELSE conn
      /\ UNCHANGED <<negotiation, broken, inbound, arrived, outq, answered, reading,
                     worker, deferred, wake, batch, thread, dumper, stopper, flagged>>
  BY <1>2 DEF AbortTask, serviceVars
<1>4. pending' \in Seq(Tasks) /\ t \in Tasks /\ TasksAreUnique' /\ Removes(t)
  BY <1>1, <1>2, <1>3, AbortEffect
<1>5. closing /\ closing' /\ ~DumperHolds /\ \A k \in Conns : negotiation[k] = "none"
  BY <1>1, <1>3 DEF closing, WriterIsAlone, ShutdownIsInOrder
<1>6. NoHandlerAfterUnregister'
  BY <1>1, <1>3 DEF NoHandlerAfterUnregister
<1>7. UNCHANGED <<negotiation, broken, inbound, arrived, outq, answered, reading,
                   worker, deferred, wake, batch, thread, dumper, stopper, flagged>>
  BY <1>3
<1>8. CASE t = DumpTask
  <2>1. dumper.at = "waiting"
    BY <1>1, <1>4, <1>8, DumpRemoved DEF WriterIsAlone
  <2> QED BY <1>5, <2>1 DEF DumperHolds
<1>9. CASE \E k \in Conns : t = RegisterTask(k)
  <2>1. PICK k \in Conns : t = RegisterTask(k)
    BY <1>9
  <2>2. calls' = calls /\ conn' = [conn EXCEPT ![k] = "closed"]
    BY <1>3, <2>1, TaskKinds
  <2>3. /\ ToRegister(k)
        /\ \A l \in Conns : /\ ToRegister(l)' <=> ToRegister(l) /\ l # k
                            /\ Negotiated(l)' <=> Negotiated(l)
                            /\ FailedToNegotiate(l)' => FailedToNegotiate(l)
        /\ \A l \in Conns, jd \in Ids : ToTransfer(l, jd)' <=> ToTransfer(l, jd)
        /\ ToDump' <=> ToDump
    BY <1>4, <2>1, RegisterRemoved
  <2>4. conn[k] = "accepted"
    BY <1>1, <2>3 DEF TasksFollowConnections
  <2>5. calls[k] = {} /\ outq[k] = <<>>
    BY <1>1, <2>4 DEF CallsFollowConnections
  <2>6. /\ conn' \in [Conns -> {"none", "accepted", "negotiating", "open", "closed"}]
        /\ conn'[k] = "closed" /\ \A l \in Conns : l # k => conn'[l] = conn[l]
    BY <1>1, <2>2 DEF TypeOK
  <2>7. TypeOK'
    BY <1>1, <1>3, <1>4, <2>2, <2>6 DEF TypeOK
  <2>8. TasksFollowConnections'
    BY <1>1, <1>3, <1>5, <2>3, <2>4, <2>6 DEF TasksFollowConnections
  <2>9. WriterIsAlone'
    BY <1>1, <1>3, <2>3 DEF WriterIsAlone, DumperHolds
  <2>10. ShutdownIsInOrder'
    BY <1>1, <1>3, <1>5, <2>6 DEF ShutdownIsInOrder, PoolOpen, closing
  <2>11. CallsFollowConnections' /\ LostOnlyIfBroken'
    BY <1>1, <1>3, <1>5, <2>2, <2>4, <2>5, <2>6 DEF CallsFollowConnections, LostOnlyIfBroken
  <2>12. \A l \in Conns, jd \in Ids : Held(l, jd)' = Held(l, jd)
    BY <1>3, <2>3 DEF Held, One
  <2>13. HeldOnce'
    BY <1>1, <2>2, <2>12, HeldStays
  <2> QED
    BY <1>4, <1>6, <2>7, <2>8, <2>9, <2>10, <2>11, <2>13 DEF IInv, TaskInv, StopInv, CallInv
<1>10. CASE \E k \in Conns, ok \in BOOLEAN : t = NegotiatedTask(k, ok)
  <2>1. PICK k \in Conns, ok \in BOOLEAN : t = NegotiatedTask(k, ok)
    BY <1>10
  <2>2. calls' = calls /\ conn' = conn
    <3>1. t.kind = "negotiated"
      BY <2>1, TaskKinds
    <3> QED BY <1>3, <3>1
  <2>3. /\ \A l \in Conns : /\ ToRegister(l)' <=> ToRegister(l)
                            /\ Negotiated(l)' <=> Negotiated(l) /\ l # k
                            /\ FailedToNegotiate(l)' => FailedToNegotiate(l)
        /\ \A l \in Conns, jd \in Ids : ToTransfer(l, jd)' <=> ToTransfer(l, jd)
        /\ ToDump' <=> ToDump
    BY <1>4, <2>1, NegotiatedRemoved
  <2>4. TypeOK'
    BY <1>1, <1>4, <1>7, <2>2 DEF TypeOK
  <2>5. TasksFollowConnections'
    BY <1>1, <1>3, <2>2, <2>3 DEF TasksFollowConnections
  <2>6. WriterIsAlone'
    BY <1>1, <1>3, <2>3 DEF WriterIsAlone, DumperHolds
  <2>7. ShutdownIsInOrder'
    BY <1>1, <1>3, <1>5, <2>2 DEF ShutdownIsInOrder, PoolOpen, closing
  <2>8. CallInv'
    BY <1>3, <1>5, <2>2, <2>3, CallsKept
  <2> QED BY <1>4, <1>6, <2>4, <2>5, <2>6, <2>7, <2>8 DEF IInv, TaskInv, StopInv
<1>11. CASE \E k \in Conns, id \in Ids : t = TransferTask(k, id)
  <2>1. PICK k \in Conns, id \in Ids : t = TransferTask(k, id)
    BY <1>11
  <2>2. calls' = [calls EXCEPT ![k] = @ \ {id}] /\ conn' = conn
    <3>1. t.kind = "transfer" /\ t.conn = k /\ t.id = id
      BY <2>1, TaskKinds
    <3> QED BY <1>3, <3>1 DEF Erased
  <2>3. /\ ToTransfer(k, id)
        /\ \A l \in Conns : /\ ToRegister(l)' <=> ToRegister(l)
                            /\ Negotiated(l)' <=> Negotiated(l)
                            /\ FailedToNegotiate(l)' => FailedToNegotiate(l)
        /\ \A l \in Conns, jd \in Ids :
             ToTransfer(l, jd)' <=> ToTransfer(l, jd) /\ ~(l = k /\ jd = id)
        /\ ToDump' <=> ToDump
    BY <1>4, <2>1, TransferRemoved
  <2>4. /\ calls' \in [Conns -> SUBSET Ids] /\ calls'[k] = calls[k] \ {id}
        /\ \A l \in Conns : l # k => calls'[l] = calls[l]
    BY <1>1, <2>2 DEF TypeOK
  <2>5. TypeOK'
    BY <1>1, <1>4, <1>7, <2>2, <2>4 DEF TypeOK
  <2>6. TasksFollowConnections'
    BY <1>1, <1>3, <2>2, <2>3, TasksStillFollow
  <2>7. WriterIsAlone'
    BY <1>1, <1>3, <2>3 DEF WriterIsAlone, DumperHolds
  <2>8. ShutdownIsInOrder'
    BY <1>1, <1>3, <1>5, <2>2 DEF ShutdownIsInOrder, PoolOpen, closing
  <2>9. CallsFollowConnections' /\ LostOnlyIfBroken'
    BY <1>1, <1>3, <1>5, <2>2, <2>4 DEF CallsFollowConnections, LostOnlyIfBroken
  <2>10. /\ ~(reading.held /\ reading.conn = k /\ reading.id = id)
         /\ <<k, id>> \notin worker /\ <<k, id>> \notin deferred /\ id \notin SetOf(outq[k])
    BY <2>3, HolderIsAlone
  <2>11. Held(k, id)' = One(id \in calls'[k])
    BY <1>3, <2>3, <2>4, <2>10 DEF Held, One
  <2>12. ASSUME NEW l \in Conns, NEW jd \in Ids, l # k \/ jd # id
         PROVE  Held(l, jd)' = Held(l, jd) /\ (jd \in calls'[l] <=> jd \in calls[l])
    <3>1. jd \in calls'[l] <=> jd \in calls[l]
      BY <2>4, <2>12
    <3> QED BY <1>3, <2>3, <2>12, <3>1 DEF Held, One
  <2>13. HeldOnce'
    BY <1>1, <2>11, <2>12, HeldMoves
  <2> QED
    BY <1>4, <1>6, <2>5, <2>6, <2>7, <2>8, <2>9, <2>13 DEF IInv, TaskInv, StopInv, CallInv
<1> QED BY <1>4, <1>8, <1>9, <1>10, <1>11, TaskCases

-----------------------------------------------------------------------------
(* The invariant.                                                          *)

LEMMA InitIInv == Init => IInv
<1> SUFFICES ASSUME Init PROVE IInv
  OBVIOUS
<1>1. TypeOK
  <2>1. <<>> \in Seq(Ids) /\ <<>> \in Seq(Tasks)
    OBVIOUS
  <2>2. 0 \in CPUs /\ 0 \in 0 .. NumCPUs
    BY ServerAssumption DEF CPUs
  <2>3. dumper \in [at : DumperSteps, cpu : CPUs] /\ stopper \in StopperSteps
    BY <2>2 DEF Init, DumperSteps, StopperSteps
  <2>4. outq \in [Conns -> Seq(Ids)] /\ pending \in Seq(Tasks) /\ batch \in Seq(Tasks)
    BY <2>1 DEF Init
  <2>5. /\ conn \in [Conns -> {"none", "accepted", "negotiating", "open", "closed"}]
        /\ negotiation \in [Conns -> {"none", "queued", "running"}]
        /\ broken \in [Conns -> BOOLEAN] /\ inbound \in [Conns -> BOOLEAN]
        /\ arrived \in [Conns -> SUBSET Ids] /\ calls \in [Conns -> SUBSET Ids]
        /\ answered \in [Conns -> SUBSET Ids]
    BY DEF Init
  <2>6. /\ reading = Nothing /\ worker \subseteq AllCalls /\ deferred \subseteq AllCalls
        /\ wake \in BOOLEAN /\ thread \in {"loop", "exited"} /\ flagged \in 0 .. NumCPUs
    BY <2>2 DEF Init
  <2> QED BY <2>3, <2>4, <2>5, <2>6 DEF TypeOK
<1>2. /\ TasksAreUnique /\ ~ToDump
      /\ \A k \in Conns : ~ToRegister(k) /\ ~Negotiated(k) /\ ~FailedToNegotiate(k)
      /\ \A k \in Conns, id \in Ids : ~ToTransfer(k, id)
  BY EmptyHasNone DEF Init, TasksAreUnique, ToDump, ToRegister, Negotiated, FailedToNegotiate,
                      ToTransfer, InTasks
<1>3. TaskInv
  BY <1>2 DEF Init, TaskInv, TasksFollowConnections
<1>4. StopInv
  BY <1>2 DEF Init, StopInv, WriterIsAlone, DumperHolds, ShutdownIsInOrder, PoolOpen, closing,
              NoHandlerAfterUnregister
<1>5. CallsFollowConnections /\ LostOnlyIfBroken
  BY EmptyHasNone DEF Init, CallsFollowConnections, LostOnlyIfBroken
<1>6. HeldOnce
  BY <1>2, EmptyHasNone, ReadingIsTyped DEF Init, HeldOnce, Held, One
<1> QED BY <1>1, <1>3, <1>4, <1>5, <1>6 DEF IInv, CallInv

LEMMA StutterPreserves ==
  ASSUME IInv, UNCHANGED vars
  PROVE  IInv'
<1>1. /\ TypeOK /\ TasksAreUnique /\ TasksFollowConnections
      /\ WriterIsAlone /\ ShutdownIsInOrder /\ NoHandlerAfterUnregister
  BY InvParts
<1>2. UNCHANGED <<conn, negotiation, broken, inbound, arrived, calls, outq, answered, reading,
                  worker, deferred, pending, wake, batch, thread, dumper, stopper, flagged>>
  BY DEF vars, connVars, serviceVars, taskVars, otherVars
<1>3. ToDump' => ToDump
  BY <1>2, TasksKept
<1>4. WriterIsAlone' /\ ShutdownIsInOrder' /\ NoHandlerAfterUnregister'
  BY <1>1, <1>2, <1>3 DEF WriterIsAlone, DumperHolds, ShutdownIsInOrder, PoolOpen, closing,
                         NoHandlerAfterUnregister
<1>5. /\ negotiation' \in [Conns -> {"none", "queued", "running"}]
      /\ wake' \in BOOLEAN /\ flagged' \in 0 .. NumCPUs /\ stopper' \in StopperSteps
  BY <1>1, <1>2 DEF TypeOK
<1>6. closing => closing'
  BY <1>2 DEF closing
<1> QED BY <1>2, <1>4, <1>5, <1>6, StopperMoves

LEMMA NextPreserves == IInv /\ [Next]_vars => IInv'
<1> SUFFICES ASSUME IInv, [Next]_vars PROVE IInv'
  OBVIOUS
<1>1. ASSUME NEW k \in Conns, Accept(k) \/ Negotiate(k) PROVE IInv'
  BY <1>1, AcceptPreserves, StartNegotiatingPreserves, CompleteNegotiationPreserves
  DEF Negotiate
<1>2. ASSUME NEW k \in Conns, NEW id \in Ids, Respond(k, id) \/ HandlerReturns(k, id) PROVE IInv'
  BY <1>2, RespondPreserves, HandlerReturnsPreserves
<1>3. CASE ReactorStep
  <2>1. CASE RunTasks
    BY <2>1, AsyncHandlerPreserves, RegisterConnectionPreserves, NegotiationSucceededPreserves,
       NegotiationFailedPreserves, QueueOutboundPreserves, RunDumpPreserves DEF RunTasks
  <2>2. ASSUME NEW k \in Conns, ReadHandler(k) \/ WriteHandler(k) \/ CloseIdle(k) PROVE IInv'
    BY <2>2, ReadPreserves, HandleIncomingCallPreserves, PeerBreaksPreserves,
       WriteHandlerPreserves, CloseIdlePreserves DEF ReadHandler
  <2> QED BY <1>3, <2>1, <2>2, QueueInboundCallPreserves DEF ReactorStep
<1>4. CASE (\E cpu \in CPUs : StartDump(cpu)) \/ Dump
  BY <1>4, DumperPreserves
<1>5. CASE ShutdownAcceptors \/ StopperStep
  BY <1>5, StopperPreserves, AbortTaskPreserves
<1>6. CASE UNCHANGED vars
  BY <1>6, StutterPreserves
<1> QED BY <1>1, <1>2, <1>3, <1>4, <1>5, <1>6 DEF Next

\* The invariant holds of every run: types, the tasks and what they are about, the
\* order of the shutdown, and who holds each call.
THEOREM Invariance == Spec => []IInv
<1>1. Init => IInv
  BY InitIInv
<1>2. IInv /\ [Next]_vars => IInv'
  BY NextPreserves
<1> QED BY <1>1, <1>2, PTL DEF Spec

-----------------------------------------------------------------------------
(* The properties of the runs.                                             *)

LEMMA CountOfOnce ==
  ASSUME NEW x, NEW s, \A i, j \in DOMAIN s : s[i] = x /\ s[j] = x => i = j
  PROVE  Count(x, s) = One(\E i \in DOMAIN s : s[i] = x)
<1>1. CASE \E i \in DOMAIN s : s[i] = x
  <2>1. PICK i \in DOMAIN s : s[i] = x
    BY <1>1
  <2>2. {j \in DOMAIN s : s[j] = x} = {i}
    BY <2>1
  <2> QED BY <1>1, <2>2, FS_Singleton DEF Count, One
<1>2. CASE ~\E i \in DOMAIN s : s[i] = x
  <2>1. {j \in DOMAIN s : s[j] = x} = {}
    BY <1>2
  <2> QED BY <1>2, <2>1, FS_EmptySet DEF Count, One
<1> QED BY <1>1, <1>2

LEMMA CountOfTransfers ==
  ASSUME NEW s \in Seq(Tasks), EachOnce(s), NEW k \in Conns, NEW id \in Ids
  PROVE  Count(TransferTask(k, id), s) = One(HasTask(s, TransferTask(k, id)))
<1> DEFINE t == TransferTask(k, id)
<1>1. ASSUME NEW i \in DOMAIN s PROVE s[i] = t <=> Alike(s[i], t)
  <2>1. s[i] \in Tasks
    OBVIOUS
  <2>2. ASSUME Alike(s[i], t) PROVE s[i] = t
    <3>1. s[i].kind = "transfer" /\ s[i].conn = k /\ s[i].id = id
      BY <2>2, TaskKinds DEF Alike
    <3>2. PICK l \in Conns, jd \in Ids : s[i] = TransferTask(l, jd)
      BY <2>1, <3>1, TaskCases, TaskKinds
    <3> QED BY <3>1, <3>2, TaskKinds
  <2> QED BY <2>2, AlikeIsEquivalence
<1> HIDE DEF t
<1>2. ASSUME NEW i \in DOMAIN s, NEW j \in DOMAIN s, s[i] = t, s[j] = t PROVE i = j
  BY <1>2, AlikeIsEquivalence DEF EachOnce
<1>3. Count(t, s) = One(\E i \in DOMAIN s : s[i] = t)
  BY <1>2, CountOfOnce
<1>4. (\E i \in DOMAIN s : s[i] = t) <=> HasTask(s, t)
  BY <1>1 DEF HasTask
<1> QED BY <1>3, <1>4 DEF t, One

LEMMA OwnersAreHolders ==
  ASSUME IInv, NEW k \in Conns, NEW id \in Ids
  PROVE  Owners(k, id) = Held(k, id)
<1>1. TypeOK /\ TasksAreUnique /\ CallsFollowConnections
  BY InvParts
<1> DEFINE p == HasTask(pending, TransferTask(k, id))
           b == HasTask(batch, TransferTask(k, id))
<1>2. Count(TransferTask(k, id), pending) = One(p) /\ Count(TransferTask(k, id), batch) = One(b)
  BY <1>1, CountOfTransfers DEF TypeOK, TasksAreUnique
<1>3. ~(p /\ b)
  BY <1>1, TaskTypes DEF TasksAreUnique
<1>4. ToTransfer(k, id) <=> p \/ b
  BY DEF ToTransfer, InTasks
<1> HIDE DEF p, b
<1>5. One(p) + One(b) = One(ToTransfer(k, id))
  BY <1>3, <1>4 DEF One
<1>6. Count(id, outq[k]) = One(id \in SetOf(outq[k]))
  <2>1. OnceEach(outq[k])
    BY <1>1 DEF CallsFollowConnections
  <2>2. Count(id, outq[k]) = One(\E i \in DOMAIN outq[k] : outq[k][i] = id)
    BY <2>1, CountOfOnce DEF OnceEach
  <2>3. (\E i \in DOMAIN outq[k] : outq[k][i] = id) <=> id \in SetOf(outq[k])
    BY DEF SetOf
  <2> QED BY <2>2, <2>3 DEF One
<1>7. \A c \in BOOLEAN : One(c) \in Int
  BY DEF One
<1> DEFINE r == One(reading.held /\ reading.conn = k /\ reading.id = id)
           w == One(<<k, id>> \in worker)
           d == One(<<k, id>> \in deferred)
           q == One(id \in SetOf(outq[k]))
<1>8. r \in Int /\ w \in Int /\ d \in Int /\ q \in Int /\ One(p) \in Int /\ One(b) \in Int
  BY DEF One
<1>9. Owners(k, id) = r + w + d + One(p) + One(b) + q
  BY <1>2, <1>6 DEF Owners
<1>10. Held(k, id) = r + w + d + One(ToTransfer(k, id)) + q
  BY DEF Held
<1> HIDE DEF r, w, d, q
<1> QED BY <1>5, <1>8, <1>9, <1>10

\* calls_being_handled_ holds exactly the calls that are not freed, each with one
\* owner (CallsOwnedOnce of the run rpc_server).
THEOREM CallsAreOwnedOnce == Spec => []CallsOwnedOnce
<1>1. IInv => CallsOwnedOnce
  <2> SUFFICES ASSUME IInv, NEW k \in Conns, NEW id \in Ids
               PROVE  Owners(k, id) = One(id \in calls[k])
    BY DEF CallsOwnedOnce
  <2>1. Held(k, id) = One(id \in calls[k])
    BY InvParts DEF HeldOnce
  <2> QED BY <2>1, OwnersAreHolders
<1> QED BY <1>1, Invariance, PTL

\* No request and no response is lost unless the connection broke or the server
\* stops (LostOnlyIfBroken of the run rpc_server).
THEOREM LossesAreExplained == Spec => []LostOnlyIfBroken
<1>1. IInv => LostOnlyIfBroken
  BY InvParts
<1> QED BY <1>1, Invariance, PTL

\* What each stage of the shutdown leaves (ShutdownInv of the run rpc_server): a
\* closed connection is quiet, no handler of the service runs or will run once it is
\* unregistered, and nothing but deferred calls is left at the end.
THEOREM ShutdownKeepsItsPromises == Spec => []ShutdownInv
<1>1. IInv => ShutdownInv
  <2> SUFFICES ASSUME IInv PROVE ShutdownInv
    OBVIOUS
  <2>1. /\ TypeOK /\ TasksAreUnique /\ TasksFollowConnections
        /\ WriterIsAlone /\ ShutdownIsInOrder /\ NoHandlerAfterUnregister
        /\ CallsFollowConnections
    BY InvParts
  <2>2. ClosedIsQuiet
    BY <2>1 DEF ClosedIsQuiet, CallsFollowConnections, TasksFollowConnections
  <2>3. NothingLeftAfterShutdown
    <3> SUFFICES ASSUME stopper = "done", thread = "exited"
                 PROVE  /\ pending = <<>> /\ batch = <<>>
                        /\ \A k \in Conns : /\ conn[k] \in {"none", "closed"}
                                            /\ \A id \in calls[k] : <<k, id>> \in deferred
      BY DEF NothingLeftAfterShutdown
    <3>1. pending = <<>> /\ batch = <<>> /\ ~reading.held /\ worker = {}
      BY <2>1 DEF ShutdownIsInOrder, NoHandlerAfterUnregister
    <3>2. \A t : ~InTasks(t)
      BY <3>1, EmptyHasNone DEF InTasks
    <3>3. ASSUME NEW k \in Conns PROVE conn[k] \in {"none", "closed"} /\ outq[k] = <<>>
      <4>1. conn[k] # "accepted"
        BY <2>1, <3>2 DEF TasksFollowConnections, ToRegister
      <4>2. conn[k] \notin {"negotiating", "open"}
        BY <2>1 DEF ShutdownIsInOrder
      <4>3. conn[k] \in {"none", "accepted", "negotiating", "open", "closed"}
        BY <2>1 DEF TypeOK
      <4> QED BY <2>1, <4>1, <4>2, <4>3 DEF CallsFollowConnections
    <3>4. ASSUME NEW k \in Conns, NEW id \in calls[k] PROVE <<k, id>> \in deferred
      <4>1. id \in Ids
        BY <2>1 DEF TypeOK
      <4>2. id \notin SetOf(outq[k]) /\ ~ToTransfer(k, id)
        BY <3>2, <3>3, EmptyHasNone DEF ToTransfer
      <4> QED BY <3>1, <4>1, <4>2, HolderIsAlone
    <3> QED BY <3>1, <3>3, <3>4
  <2> QED BY <2>1, <2>2, <2>3 DEF ShutdownInv
<1> QED BY <1>1, Invariance, PTL

\* Until the reactor closes only the reactor thread changes calls_being_handled_
\* (MapIsConfined of the run rpc_server).
THEOREM TheMapIsConfined == Spec => MapIsConfined
<1>1. ASSUME [Next]_vars, calls' # calls PROVE ReactorStep \/ closing
  <2>1. ASSUME NEW k \in Conns, NEW id \in Ids, QueueResponseForCall(k, id) PROVE closing
    BY <1>1, <2>1 DEF QueueResponseForCall, Accepts
  <2>2. ASSUME NEW k \in Conns, Accept(k) \/ Negotiate(k) PROVE FALSE
    BY <1>1, <2>2 DEF Accept, Negotiate, StartNegotiating, CompleteNegotiation
  <2>3. ASSUME NEW k \in Conns, NEW id \in Ids, Respond(k, id) \/ HandlerReturns(k, id)
        PROVE  closing
    BY <1>1, <2>1, <2>3 DEF Respond, HandlerResponds, DeferredResponds, HandlerReturns, connVars
  <2>4. CASE (\E cpu \in CPUs : StartDump(cpu)) \/ Dump
    BY <1>1, <2>4
    DEF StartDump, Dump, DumpLocks, ScheduleDump, DumpReturns, DumperOnly, connVars
  <2>5. CASE ShutdownAcceptors \/ StopperStep
    <3>1. AbortTask => closing
      BY DEF AbortTask, closing
    <3> QED
      BY <1>1, <2>5, <3>1
      DEF ShutdownAcceptors, StopperStep, StartUnregister, LockExclusively, ClearServices,
          Unregistered, StartShutdown, ShutdownPool, ShutdownReactor, ShutdownDone, GoesOn,
          StopperOnly, connVars
  <2>6. CASE UNCHANGED vars
    BY <1>1, <2>6 DEF vars, connVars
  <2> QED BY <1>1, <2>2, <2>3, <2>4, <2>5, <2>6 DEF Next
<1>2. [Next]_vars => [calls' # calls => ReactorStep \/ closing]_vars
  BY <1>1
<1> QED BY <1>2, PTL DEF Spec, MapIsConfined
=============================================================================
