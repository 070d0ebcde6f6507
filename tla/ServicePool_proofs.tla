------------------------- MODULE ServicePool_proofs -------------------------
(***************************************************************************)
(* Theorems about ServicePool, for any calls, workers and closers, any     *)
(* queue size and any deadlines.                                           *)
(***************************************************************************)
EXTENDS ServicePool, SequenceTheorems, FiniteSetTheorems, TLAPS

\* Where call c is: in the queue, handed to the workers H, given back by Put with the
\* refusals R, posted to M, held by K, answered n times.
Placed(c, q, H, R, M, K, n) ==
  /\ c \in queue <=> q
  /\ \A w \in Worker : /\ <<c, w>> \in handoff <=> w \in H
                       /\ mailbox[w] = c <=> w \in M
                       /\ worker[w].call = c <=> w \in K
  /\ \A o \in Refusal : <<c, o>> \in dropped <=> o \in R
  /\ Len(answers[c]) = n

\* EachCallHasOneOwner without its count.
HasOneOwner(c) ==
  IF c \in arrived
  THEN \/ Placed(c, TRUE, {}, {}, {}, {}, 0)
       \/ \E w \in Worker : \/ Placed(c, FALSE, {w}, {}, {}, {}, 0)
                            \/ Placed(c, FALSE, {}, {}, {w}, {}, 0)
                            \/ Placed(c, FALSE, {}, {}, {}, {w}, 0)
       \/ \E o \in Refusal : Placed(c, FALSE, {}, {o}, {}, {}, 0)
       \/ Placed(c, FALSE, {}, {}, {}, {}, 1)
  ELSE Placed(c, FALSE, {}, {}, {}, {}, 0)

OneOwner == \A c \in Call : HasOneOwner(c)

\* Who owns a call rests on who may be posted to, and the other way round.
IInv == QueueInv /\ OneOwner

-----------------------------------------------------------------------------
(* Facts about the operators.                                              *)

\* A call that no step touched.
LEMMA Untouched ==
  ASSUME NEW c \in Call, HasOneOwner(c),
         c \in arrived' <=> c \in arrived, c \in queue' <=> c \in queue,
         \A w \in Worker : /\ <<c, w>> \in handoff' <=> <<c, w>> \in handoff
                           /\ mailbox'[w] = c <=> mailbox[w] = c
                           /\ worker'[w].call = c <=> worker[w].call = c,
         \A o \in Refusal : <<c, o>> \in dropped' <=> <<c, o>> \in dropped,
         answers'[c] = answers[c]
  PROVE  HasOneOwner(c)'
BY DEF HasOneOwner, Placed

\* Nobody holds a call before it arrives, and one place each call after that.
LEMMA NotArrived ==
  ASSUME OneOwner, NEW c \in Call, c \notin arrived
  PROVE  Placed(c, FALSE, {}, {}, {}, {}, 0)
BY DEF OneOwner, HasOneOwner

LEMMA InQueueOnly ==
  ASSUME OneOwner, NEW c \in Call, c \in queue
  PROVE  c \in arrived /\ Placed(c, TRUE, {}, {}, {}, {}, 0)
BY DEF OneOwner, HasOneOwner, Placed

LEMMA InHandoffOnly ==
  ASSUME OneOwner, NEW c \in Call, NEW w \in Worker, <<c, w>> \in handoff
  PROVE  c \in arrived /\ Placed(c, FALSE, {w}, {}, {}, {}, 0)
BY DEF OneOwner, HasOneOwner, Placed

LEMMA DroppedOnly ==
  ASSUME OneOwner, NEW c \in Call, NEW o \in Refusal, <<c, o>> \in dropped
  PROVE  c \in arrived /\ Placed(c, FALSE, {}, {o}, {}, {}, 0)
BY DEF OneOwner, HasOneOwner, Placed

LEMMA InMailboxOnly ==
  ASSUME OneOwner, NEW c \in Call, NEW w \in Worker, mailbox[w] = c
  PROVE  c \in arrived /\ Placed(c, FALSE, {}, {}, {w}, {}, 0)
BY DEF OneOwner, HasOneOwner, Placed

LEMMA AtWorkerOnly ==
  ASSUME OneOwner, NEW c \in Call, NEW w \in Worker, worker[w].call = c
  PROVE  c \in arrived /\ Placed(c, FALSE, {}, {}, {}, {w}, 0)
BY DEF OneOwner, HasOneOwner, Placed

\* One answer more.
LEMMA Answered ==
  ASSUME answers \in [Call -> Seq(Outcome)], NEW c \in Call, NEW o \in Outcome, Respond(c, o)
  PROVE  /\ answers' \in [Call -> Seq(Outcome)]
         /\ \A d \in Call : d # c => answers'[d] = answers[d]
         /\ Len(answers'[c]) = Len(answers[c]) + 1
<1>1. answers[c] \in Seq(Outcome)
  OBVIOUS
<1>2. /\ Append(answers[c], o) \in Seq(Outcome)
      /\ Len(Append(answers[c], o)) = Len(answers[c]) + 1
  BY <1>1
<1>3. answers' = [answers EXCEPT ![c] = Append(answers[c], o)]
  BY DEF Respond
<1> QED BY <1>1, <1>2, <1>3

\* One worker moves.
LEMMA Moved ==
  ASSUME worker \in [Worker -> WorkerState], NEW w \in Worker, NEW p, NEW c,
         Move(w, p, c), At(p, c) \in WorkerState
  PROVE  /\ worker' \in [Worker -> WorkerState]
         /\ worker'[w].at = p /\ worker'[w].call = c
         /\ \A v \in Worker : v # w => worker'[v] = worker[v]
BY DEF Move, At

LEMMA States ==
  /\ \A p \in {"getting", "waiting", "exited"} : At(p, NoCall) \in WorkerState
  /\ \A p \in {"taken", "handling"}, c \in Call : At(p, c) \in WorkerState
  /\ \A s \in WorkerState : /\ s.at \in {"getting", "waiting", "exited"} => s.call = NoCall
                            /\ s.at \in {"taken", "handling"} => s.call \in Call
BY DEF At, WorkerState

-----------------------------------------------------------------------------

LEMMA InitIInv == Init => IInv
<1> SUFFICES ASSUME Init PROVE IInv
  OBVIOUS
<1>1. /\ worker \in [Worker -> WorkerState]
      /\ \A w \in Worker : worker[w].at = "getting" /\ worker[w].call = NoCall
  BY States DEF Init, At
<1>2. IsFiniteSet(queue) /\ Cardinality(queue) = 0
  BY FS_EmptySet DEF Init
<1>3. /\ answers \in [Call -> Seq(Outcome)] /\ waiting \in Seq(Worker) /\ Len(waiting) = 0
      /\ \A c \in Call : Len(answers[c]) = 0
  BY DEF Init
<1>4. TypeOK
  <2>1. Cardinality(queue) <= MaxQueueSize /\ now \in 0 .. MaxTime
    BY <1>2, PoolAssumption DEF Init
  <2> QED BY <1>1, <1>3, <2>1 DEF Init, TypeOK
<1>5. OnePostPerWait /\ NoIdleConsumerWhileQueued /\ OnlySleepersHaveMail /\ ClosersAgree
  BY <1>3 DEF Init, OnePostPerWait, NoIdleConsumerWhileQueued, OnlySleepersHaveMail, ClosersAgree
<1>6. OneOwner
  BY <1>1, <1>3, PoolAssumption DEF Init, OneOwner, HasOneOwner, Placed
<1> QED BY <1>2, <1>4, <1>5, <1>6 DEF IInv, QueueInv

LEMMA InvGivesParts ==
  ASSUME IInv
  PROVE  /\ TypeOK /\ IsFiniteSet(queue) /\ OnePostPerWait /\ NoIdleConsumerWhileQueued
         /\ OnlySleepersHaveMail /\ ClosersAgree /\ OneOwner
         /\ worker \in [Worker -> WorkerState] /\ answers \in [Call -> Seq(Outcome)]
         /\ waiting \in Seq(Worker) /\ Len(waiting) \in Nat
         /\ \A i \in 1 .. Len(waiting) : waiting[i] \in Worker
BY DEF IInv, QueueInv, TypeOK

-----------------------------------------------------------------------------
(* QueueInboundCall.                                                       *)

\* A call is answered as it arrives.
LEMMA AnsweredAtOncePreserves ==
  ASSUME IInv, NEW c \in Call, NEW o \in Outcome, Arrives(c), Respond(c, o),
         UNCHANGED <<queue, waiting, mailbox, handoff, dropped, shutdown>>
  PROVE  IInv'
<1> USE InvGivesParts
<1>1. /\ c \notin arrived /\ arrived' = arrived \cup {c}
      /\ UNCHANGED <<now, worker, closing, closer>>
  BY DEF Arrives, closeVars
<1>2. /\ answers' \in [Call -> Seq(Outcome)] /\ Len(answers'[c]) = Len(answers[c]) + 1
      /\ \A d \in Call : d # c => answers'[d] = answers[d]
  BY Answered
<1>3. TypeOK' /\ IsFiniteSet(queue)' /\ OnePostPerWait' /\ NoIdleConsumerWhileQueued'
      /\ OnlySleepersHaveMail' /\ ClosersAgree'
  BY <1>1, <1>2
     DEF TypeOK, OnePostPerWait, NoIdleConsumerWhileQueued, OnlySleepersHaveMail, ClosersAgree,
         ShutdownLockIsFree, Joined
<1>4. HasOneOwner(c)'
  <2>1. Placed(c, FALSE, {}, {}, {}, {}, 0)
    BY <1>1, NotArrived
  <2>2. Placed(c, FALSE, {}, {}, {}, {}, 1)'
    BY <1>1, <1>2, <2>1 DEF Placed
  <2> QED BY <1>1, <2>2 DEF HasOneOwner
<1>5. \A d \in Call : d # c => HasOneOwner(d)'
  BY <1>1, <1>2, Untouched DEF OneOwner
<1> QED BY <1>3, <1>4, <1>5 DEF IInv, QueueInv, OneOwner

\* What one more call given back does to dropped.
LEMMA DropAdds ==
  ASSUME NEW c \in Call, NEW o \in Refusal, Drop(c, o), dropped \subseteq Call \X Refusal
  PROVE  /\ dropped' \subseteq Call \X Refusal
         /\ \A b \in Call, x \in Refusal :
              <<b, x>> \in dropped' <=> (<<b, x>> \in dropped \/ (b = c /\ x = o))
<1>1. dropped' = dropped \cup {<<c, o>>} /\ <<c, o>> \in Call \X Refusal
  BY DEF Drop
<1>2. dropped' \subseteq Call \X Refusal
  BY <1>1
<1>3. \A b \in Call, x \in Refusal : <<b, x>> = <<c, o>> <=> b = c /\ x = o
  OBVIOUS
<1> QED BY <1>1, <1>2, <1>3

\* A call is given back as it arrives.
LEMMA RefusedAtOncePreserves ==
  ASSUME IInv, NEW c \in Call, NEW o \in Refusal, Arrives(c), Drop(c, o),
         UNCHANGED <<queue, waiting, mailbox, handoff, shutdown, answers>>
  PROVE  IInv'
<1> USE InvGivesParts
<1>1. /\ c \notin arrived /\ arrived' = arrived \cup {c}
      /\ UNCHANGED <<now, worker, closing, closer>>
  BY DEF Arrives, closeVars
<1>2. /\ dropped' \subseteq Call \X Refusal
      /\ \A b \in Call, x \in Refusal :
           <<b, x>> \in dropped' <=> (<<b, x>> \in dropped \/ (b = c /\ x = o))
  BY DropAdds DEF TypeOK
<1>3. TypeOK' /\ IsFiniteSet(queue)' /\ OnePostPerWait' /\ NoIdleConsumerWhileQueued'
      /\ OnlySleepersHaveMail' /\ ClosersAgree'
  BY <1>1, <1>2
     DEF TypeOK, OnePostPerWait, NoIdleConsumerWhileQueued, OnlySleepersHaveMail, ClosersAgree,
         ShutdownLockIsFree, Joined
<1>4. HasOneOwner(c)'
  <2>1. Placed(c, FALSE, {}, {}, {}, {}, 0)
    BY <1>1, NotArrived
  <2>2. Placed(c, FALSE, {}, {o}, {}, {}, 0)'
    BY <1>1, <1>2, <2>1 DEF Placed
  <2> QED BY <1>1, <2>2 DEF HasOneOwner
<1>5. \A d \in Call : d # c => HasOneOwner(d)'
  BY <1>1, <1>2, Untouched DEF OneOwner
<1> QED BY <1>3, <1>4, <1>5 DEF IInv, QueueInv, OneOwner

LEMMA PutToConsumerPreserves ==
  ASSUME IInv, NEW c \in Call, PutToConsumer(c)
  PROVE  IInv'
<1> USE InvGivesParts
<1> DEFINE n == Len(waiting)
<1>0. /\ n > 0
      /\ \E w \in Worker : w = waiting[n]
  BY DEF PutToConsumer, DirectHandOff
<1>w. PICK w \in Worker : w = waiting[n]
  BY <1>0
<1>1. /\ c \notin arrived /\ arrived' = arrived \cup {c} /\ ~shutdown
      /\ queue = {} /\ n > 0
      /\ handoff' = handoff \cup {<<c, w>>} /\ waiting' = SubSeq(waiting, 1, n - 1)
      /\ UNCHANGED <<now, worker, closing, closer, queue, mailbox, dropped, shutdown, answers>>
  BY <1>0, <1>w DEF PutToConsumer, Arrives, DirectHandOff, closeVars
<1>2. /\ waiting' \in Seq(Worker) /\ Len(waiting') = n - 1
      /\ \A i \in 1 .. (n - 1) : waiting'[i] = waiting[i]
  <2>1. \A i \in 1 .. (n - 1) : waiting[i] \in Worker
    OBVIOUS
  <2> HIDE DEF n
  <2>2. n \in Nat
    BY DEF n
  <2>3. 1 \in Int /\ n - 1 \in Int /\ n > 0
    BY <1>1, <2>2
  <2>4. /\ SubSeq(waiting, 1, n - 1) \in Seq(Worker)
        /\ Len(SubSeq(waiting, 1, n - 1)) = IF 1 <= n - 1 THEN (n - 1) - 1 + 1 ELSE 0
        /\ \A i \in 1 .. ((n - 1) - 1 + 1) : SubSeq(waiting, 1, n - 1)[i] = waiting[1 + i - 1]
    BY <2>1, <2>3, SubSeqProperties
  <2>5. \A i \in 1 .. (n - 1) : SubSeq(waiting, 1, n - 1)[i] = waiting[i]
    BY <2>2, <2>3, <2>4
  <2> QED BY <1>1, <2>2, <2>3, <2>4, <2>5
<1>3. TypeOK'
  BY <1>1, <1>2 DEF TypeOK
<1>4. OnePostPerWait'
  <2>1. /\ worker[w].at = "waiting" /\ mailbox[w] = NoPost
        /\ \A h \in handoff : h[2] # w
        /\ \A i \in 1 .. n : waiting[i] = w => i = n
    BY <1>1, <1>w DEF OnePostPerWait
  <2>2. <<c, w>>[2] = w
    OBVIOUS
  <2>3. \A h \in handoff' : h \in handoff \/ h = <<c, w>>
    BY <1>1
  <2>4. \A h \in handoff' : h \in handoff \/ h[2] = w
    BY <2>2, <2>3
  <2>5. \A h \in handoff' :
          /\ worker'[h[2]].at = "waiting" /\ mailbox'[h[2]] = NoPost
          /\ \A g \in handoff' : g[2] = h[2] => g = h
    <3>1. SUFFICES ASSUME NEW h \in handoff', NEW g \in handoff'
                   PROVE  /\ worker[h[2]].at = "waiting" /\ mailbox[h[2]] = NoPost
                          /\ g[2] = h[2] => g = h
      BY <1>1
    <3>2. CASE h \in handoff /\ g \in handoff
      BY <3>2 DEF OnePostPerWait
    <3>3. CASE h = <<c, w>>
      BY <2>1, <2>2, <2>3, <3>3
    <3>4. CASE h \in handoff /\ g = <<c, w>>
      BY <2>1, <2>2, <3>4 DEF OnePostPerWait
    <3> QED BY <2>3, <3>2, <3>3, <3>4
  <2>6. \A i, j \in 1 .. Len(waiting') :
          /\ worker'[waiting'[i]].at = "waiting" /\ mailbox'[waiting'[i]] = NoPost
          /\ \A h \in handoff' : h[2] # waiting'[i]
          /\ waiting'[i] = waiting'[j] => i = j
    BY <1>1, <1>2, <1>w, <2>1, <2>4 DEF OnePostPerWait
  <2> QED BY <2>5, <2>6 DEF OnePostPerWait
<1>5. IsFiniteSet(queue)' /\ NoIdleConsumerWhileQueued' /\ OnlySleepersHaveMail' /\ ClosersAgree'
  BY <1>1
     DEF NoIdleConsumerWhileQueued, OnlySleepersHaveMail, ClosersAgree, ShutdownLockIsFree, Joined
<1>6. HasOneOwner(c)'
  <2>1. Placed(c, FALSE, {}, {}, {}, {}, 0)
    BY <1>1, NotArrived
  <2>2. Placed(c, FALSE, {w}, {}, {}, {}, 0)'
    BY <1>1, <2>1 DEF Placed
  <2> QED BY <1>1, <2>2 DEF HasOneOwner
<1>7. \A d \in Call : d # c => HasOneOwner(d)'
  BY <1>1, Untouched DEF OneOwner
<1> QED BY <1>3, <1>4, <1>5, <1>6, <1>7 DEF IInv, QueueInv, OneOwner

\* A call goes on the queue, which may push one out.
LEMMA QueuedPreserves ==
  ASSUME IInv, NEW c \in Call, Arrives(c), ~shutdown, ~DirectHandOff,
         NEW out \in SUBSET queue, Cardinality(queue \ out) < MaxQueueSize,
         queue' = (queue \ out) \cup {c},
         dropped' \subseteq Call \X Refusal,
         \A d \in Call, x \in Refusal :
           <<d, x>> \in dropped' <=> (<<d, x>> \in dropped \/ (d \in out /\ x = "too_busy")),
         UNCHANGED <<waiting, mailbox, handoff, shutdown, answers>>
  PROVE  IInv'
<1> USE InvGivesParts
<1>1. /\ c \notin arrived /\ c \notin queue /\ arrived' = arrived \cup {c}
      /\ UNCHANGED <<now, worker, closing, closer>> /\ queue \subseteq arrived
  BY DEF Arrives, closeVars, TypeOK
<1>2. IsFiniteSet(queue') /\ Cardinality(queue') <= MaxQueueSize
  <2>1. IsFiniteSet(queue \ out) /\ Cardinality(queue \ out) \in Nat
    BY FS_Difference, FS_CardinalityType
  <2>2. IsFiniteSet(queue') /\ Cardinality(queue') = Cardinality(queue \ out) + 1
    BY <1>1, <2>1, FS_AddElement
  <2> QED BY <2>1, <2>2, PoolAssumption
<1>3. TypeOK'
  <2>1. queue' \subseteq arrived' /\ arrived' \subseteq Call
    BY <1>1 DEF TypeOK
  <2> QED BY <1>1, <1>2, <2>1 DEF TypeOK
<1>4. waiting = <<>>
  BY DEF DirectHandOff, NoIdleConsumerWhileQueued
<1>5. OnePostPerWait' /\ NoIdleConsumerWhileQueued' /\ OnlySleepersHaveMail'
  BY <1>1, <1>4 DEF OnePostPerWait, NoIdleConsumerWhileQueued, OnlySleepersHaveMail
<1>6. ClosersAgree'
  BY <1>1 DEF ClosersAgree, ShutdownLockIsFree, Joined
<1>7. HasOneOwner(c)'
  <2>1. Placed(c, FALSE, {}, {}, {}, {}, 0)
    BY <1>1, NotArrived
  <2>2. Placed(c, TRUE, {}, {}, {}, {}, 0)'
    BY <1>1, <2>1 DEF Placed
  <2> QED BY <1>1, <2>2 DEF HasOneOwner
<1>8. ASSUME NEW e \in out PROVE HasOneOwner(e)'
  <2>1. e \in Call /\ e # c /\ e \in arrived
    BY <1>1 DEF TypeOK
  <2>2. Placed(e, TRUE, {}, {}, {}, {}, 0)
    BY <2>1, InQueueOnly
  <2>3. "too_busy" \in Refusal
    BY DEF Refusal
  <2>4. Placed(e, FALSE, {}, {"too_busy"}, {}, {}, 0)'
    <3>1. e \notin queue' /\ Len(answers'[e]) = 0
      BY <2>1, <2>2 DEF Placed
    <3>2. \A x \in Refusal : <<e, x>> \in dropped' <=> x = "too_busy"
      BY <2>1, <2>2 DEF Placed
    <3> QED BY <1>1, <2>2, <3>1, <3>2 DEF Placed
  <2> QED BY <1>1, <2>1, <2>3, <2>4 DEF HasOneOwner
<1>9. \A d \in Call : d # c /\ d \notin out => HasOneOwner(d)'
  BY <1>1, Untouched DEF OneOwner
<1> QED BY <1>2, <1>3, <1>5, <1>6, <1>7, <1>8, <1>9 DEF IInv, QueueInv, OneOwner

LEMMA QueueInboundCallPreserves ==
  ASSUME IInv, NEW c \in Call, QueueInboundCall(c)
  PROVE  IInv'
<1> USE InvGivesParts
<1>0. "unsupported" \in Outcome /\ "shutting_down" \in Refusal /\ "too_busy" \in Refusal
  BY DEF Outcome, Refusal
<1>1. CASE RejectUnsupported(c)
  BY <1>0, <1>1, AnsweredAtOncePreserves DEF RejectUnsupported
<1>2. CASE PutAfterShutdown(c)
  BY <1>0, <1>2, RefusedAtOncePreserves DEF PutAfterShutdown
<1>3. CASE PutToConsumer(c)
  BY <1>3, PutToConsumerPreserves
<1>4. CASE PutInQueue(c)
  <2>1. queue \ {} = queue
    OBVIOUS
  <2>2. /\ Arrives(c) /\ ~shutdown /\ ~DirectHandOff /\ Cardinality(queue \ {}) < MaxQueueSize
        /\ queue' = (queue \ {}) \cup {c}
        /\ UNCHANGED <<waiting, mailbox, handoff, dropped, shutdown, answers>>
    BY <1>4, <2>1 DEF PutInQueue
  <2>3. \A d \in Call, x \in Refusal :
          <<d, x>> \in dropped' <=> (<<d, x>> \in dropped \/ (d \in {} /\ x = "too_busy"))
    BY <2>2
  <2>4. {} \in SUBSET queue /\ dropped' \subseteq Call \X Refusal
    BY <2>2 DEF TypeOK
  <2> QED BY <2>2, <2>3, <2>4, QueuedPreserves
<1>5. CASE PutWhenFull(c)
  <2>1. PICK e \in Last(queue) : Overflow(c, e)
    BY <1>5 DEF PutWhenFull
  <2>2. /\ e \in queue /\ e \in Call /\ Arrives(c) /\ ~shutdown /\ ~DirectHandOff
        /\ UNCHANGED <<waiting, mailbox, handoff, shutdown, answers>>
    BY <1>5, <2>1 DEF PutWhenFull, Last, TypeOK
  <2>3. CASE DeadlineLess(e, c)
    BY <1>0, <2>1, <2>2, <2>3, RefusedAtOncePreserves DEF Overflow
  <2>4. CASE ~DeadlineLess(e, c)
    <3>1. queue' = (queue \ {e}) \cup {c} /\ Drop(e, "too_busy")
      BY <2>1, <2>4 DEF Overflow
    <3>2. Cardinality(queue \ {e}) < MaxQueueSize
      <4>1. Cardinality(queue) \in Nat /\ Cardinality(queue \ {e}) = Cardinality(queue) - 1
        BY <2>2, FS_RemoveElement, FS_CardinalityType
      <4> QED BY <4>1, PoolAssumption DEF TypeOK
    <3>3. /\ dropped' \subseteq Call \X Refusal
          /\ \A d \in Call, x \in Refusal :
               <<d, x>> \in dropped' <=> (<<d, x>> \in dropped \/ (d = e /\ x = "too_busy"))
      BY <1>0, <2>2, <3>1, DropAdds DEF TypeOK
    <3>4. \A d \in Call : d \in {e} <=> d = e
      OBVIOUS
    <3>5. {e} \in SUBSET queue
      BY <2>2
    <3> QED BY <2>2, <3>1, <3>2, <3>3, <3>4, <3>5, QueuedPreserves
  <2> QED BY <2>3, <2>4
<1> QED BY <1>1, <1>2, <1>3, <1>4, <1>5 DEF QueueInboundCall

\* The thread that called Put answers what it was given back.
LEMMA RejectPreserves ==
  ASSUME IInv, NEW c \in Call, NEW o \in Refusal, Reject(c, o)
  PROVE  IInv'
<1> USE InvGivesParts
<1>1. /\ <<c, o>> \in dropped /\ dropped' = dropped \ {<<c, o>>} /\ Respond(c, o)
      /\ UNCHANGED <<now, arrived, queue, waiting, mailbox, handoff, shutdown, worker, closing,
                     closer>>
  BY DEF Reject, closeVars
<1>2. /\ answers' \in [Call -> Seq(Outcome)] /\ Len(answers'[c]) = Len(answers[c]) + 1
      /\ \A d \in Call : d # c => answers'[d] = answers[d]
  <2>1. o \in Outcome
    BY DEF Refusal, Outcome
  <2> QED BY <1>1, <2>1, Answered
<1>3. /\ dropped' \subseteq Call \X Refusal
      /\ \A d \in Call, x \in Refusal :
           <<d, x>> \in dropped' <=> (<<d, x>> \in dropped /\ ~(d = c /\ x = o))
  <2>1. \A d \in Call, x \in Refusal : <<d, x>> = <<c, o>> <=> d = c /\ x = o
    OBVIOUS
  <2> QED BY <1>1, <2>1 DEF TypeOK
<1>4. TypeOK' /\ IsFiniteSet(queue)' /\ OnePostPerWait' /\ NoIdleConsumerWhileQueued'
      /\ OnlySleepersHaveMail' /\ ClosersAgree'
  BY <1>1, <1>2, <1>3
     DEF TypeOK, OnePostPerWait, NoIdleConsumerWhileQueued, OnlySleepersHaveMail, ClosersAgree,
         ShutdownLockIsFree, Joined
<1>5. HasOneOwner(c)'
  <2>1. c \in arrived /\ Placed(c, FALSE, {}, {o}, {}, {}, 0)
    BY <1>1, DroppedOnly
  <2>2. Placed(c, FALSE, {}, {}, {}, {}, 1)'
    BY <1>1, <1>2, <1>3, <2>1 DEF Placed
  <2> QED BY <1>1, <2>1, <2>2 DEF HasOneOwner
<1>6. \A d \in Call : d # c => HasOneOwner(d)'
  BY <1>1, <1>2, <1>3, Untouched DEF OneOwner
<1> QED BY <1>4, <1>5, <1>6 DEF IInv, QueueInv, OneOwner

\* The producer posts the call to the consumer it popped, which still waits.
LEMMA PostPreserves ==
  ASSUME IInv, NEW c \in Call, NEW w \in Worker, Post(c, w)
  PROVE  IInv'
<1> USE InvGivesParts
<1>1. /\ <<c, w>> \in handoff /\ handoff' = handoff \ {<<c, w>>}
      /\ mailbox' = [mailbox EXCEPT ![w] = c]
      /\ UNCHANGED <<now, arrived, queue, waiting, dropped, shutdown, worker, answers, closing,
                     closer>>
  BY DEF Post, closeVars
<1>2. /\ worker[w].at = "waiting" /\ mailbox[w] = NoPost
      /\ \A g \in handoff : g[2] = w => g = <<c, w>>
      /\ \A i \in 1 .. Len(waiting) : waiting[i] # w
  <2>1. <<c, w>>[2] = w
    OBVIOUS
  <2> QED BY <1>1, <2>1 DEF OnePostPerWait
<1>3. /\ mailbox' \in [Worker -> {NoPost, WakeUp} \cup Call] /\ mailbox'[w] = c
      /\ \A v \in Worker : v # w => mailbox'[v] = mailbox[v]
  BY <1>1 DEF TypeOK
<1>4. TypeOK'
  BY <1>1, <1>3 DEF TypeOK
<1>5. OnePostPerWait'
  <2>1. \A h \in handoff' : h \in handoff /\ h[2] \in Worker /\ h[2] # w
    BY <1>1, <1>2 DEF TypeOK
  <2> QED BY <1>1, <1>2, <1>3, <2>1 DEF OnePostPerWait
<1>6. IsFiniteSet(queue)' /\ NoIdleConsumerWhileQueued' /\ ClosersAgree' /\ OnlySleepersHaveMail'
  BY <1>1, <1>2, <1>3
     DEF NoIdleConsumerWhileQueued, ClosersAgree, ShutdownLockIsFree, Joined, OnlySleepersHaveMail
<1>7. HasOneOwner(c)'
  <2>1. c \in arrived /\ Placed(c, FALSE, {w}, {}, {}, {}, 0)
    BY <1>1, InHandoffOnly
  <2>2. Placed(c, FALSE, {}, {}, {w}, {}, 0)'
    BY <1>1, <1>3, <2>1 DEF Placed
  <2> QED BY <1>1, <2>1, <2>2 DEF HasOneOwner
<1>8. \A d \in Call : d # c => HasOneOwner(d)'
  <2>1. \A d \in Call : d # NoPost
    BY PoolAssumption
  <2> QED BY <1>1, <1>2, <1>3, <2>1, Untouched DEF OneOwner
<1> QED BY <1>4, <1>5, <1>6, <1>7, <1>8 DEF IInv, QueueInv, OneOwner

-----------------------------------------------------------------------------
(* The workers.                                                            *)

\* What a step of a worker leaves alone, unless it wakes up.
LEMMA WorkerKeepsParts ==
  ASSUME IInv, NEW w \in Worker, NEW p, NEW c, Move(w, p, c), At(p, c) \in WorkerState,
         worker[w].at # "waiting", worker[w].at # "exited",
         UNCHANGED <<now, arrived, waiting, mailbox, handoff, dropped, shutdown, closing, closer>>,
         queue' \subseteq queue, answers' \in [Call -> Seq(Outcome)],
         p = "exited" => queue = {} /\ shutdown
  PROVE  TypeOK' /\ IsFiniteSet(queue)' /\ OnePostPerWait' /\ NoIdleConsumerWhileQueued'
         /\ OnlySleepersHaveMail' /\ ClosersAgree'
<1> USE InvGivesParts
<1>1. /\ worker' \in [Worker -> WorkerState] /\ worker'[w].at = p
      /\ \A v \in Worker : v # w => worker'[v] = worker[v]
  BY Moved
<1>2. IsFiniteSet(queue') /\ Cardinality(queue') <= MaxQueueSize /\ queue' \subseteq arrived
  <2>1. /\ IsFiniteSet(queue') /\ Cardinality(queue') <= Cardinality(queue)
        /\ Cardinality(queue') \in Nat /\ Cardinality(queue) \in Nat
    BY FS_Subset, FS_CardinalityType
  <2> QED BY <2>1, PoolAssumption DEF TypeOK
<1>3. TypeOK'
  BY <1>1, <1>2 DEF TypeOK
<1>4. OnePostPerWait'
  <2>1. \A h \in handoff : h[2] \in Worker /\ h[2] # w
    BY DEF OnePostPerWait, TypeOK
  <2>2. \A i \in 1 .. Len(waiting) : waiting[i] \in Worker /\ waiting[i] # w
    BY DEF OnePostPerWait
  <2> QED BY <1>1, <2>1, <2>2 DEF OnePostPerWait
<1>5. NoIdleConsumerWhileQueued' /\ OnlySleepersHaveMail'
  BY <1>1 DEF NoIdleConsumerWhileQueued, OnlySleepersHaveMail
<1>6. ClosersAgree'
  BY <1>1 DEF ClosersAgree, ShutdownLockIsFree, Joined
<1> QED BY <1>2, <1>3, <1>4, <1>5, <1>6

LEMMA TakeFirstPreserves ==
  ASSUME IInv, NEW w \in Worker, TakeFirst(w)
  PROVE  IInv'
<1> USE InvGivesParts
<1>1. PICK c \in First(queue) : Move(w, "taken", c) /\ queue' = queue \ {c}
  BY DEF TakeFirst
<1>2. /\ c \in queue /\ c \in Call /\ worker[w].at = "getting"
      /\ UNCHANGED <<now, arrived, waiting, mailbox, handoff, dropped, shutdown, answers, closing,
                     closer>>
  BY <1>1 DEF TakeFirst, First, TypeOK, closeVars
<1>3. At("taken", c) \in WorkerState /\ worker[w].call = NoCall
  BY <1>2, States
<1>4. /\ worker'[w].call = c /\ \A v \in Worker : v # w => worker'[v] = worker[v]
  BY <1>1, <1>3, Moved
<1>5. TypeOK' /\ IsFiniteSet(queue)' /\ OnePostPerWait' /\ NoIdleConsumerWhileQueued'
      /\ OnlySleepersHaveMail' /\ ClosersAgree'
  BY <1>1, <1>2, <1>3, WorkerKeepsParts
<1>6. HasOneOwner(c)'
  <2>1. c \in arrived /\ Placed(c, TRUE, {}, {}, {}, {}, 0)
    BY <1>2, InQueueOnly
  <2>2. Placed(c, FALSE, {}, {}, {}, {w}, 0)'
    BY <1>1, <1>2, <1>4, <2>1 DEF Placed
  <2> QED BY <1>2, <2>1, <2>2 DEF HasOneOwner
<1>7. \A d \in Call : d # c => HasOneOwner(d)'
  BY <1>1, <1>2, <1>3, <1>4, PoolAssumption, Untouched DEF OneOwner
<1> QED BY <1>5, <1>6, <1>7 DEF IInv, QueueInv, OneOwner

\* A worker without a call parks or exits.
LEMMA IdleWorkerPreserves ==
  ASSUME IInv, NEW w \in Worker, Park(w) \/ Exit(w)
  PROVE  IInv'
<1> USE InvGivesParts
<1>1. /\ worker[w].at = "getting" /\ worker[w].call = NoCall /\ queue = {}
      /\ UNCHANGED <<now, arrived, queue, mailbox, handoff, dropped, shutdown, answers, closing,
                     closer>>
  BY States DEF Park, MayPark, Exit, queueVars, closeVars
<1>2. PICK p \in {"waiting", "exited"} :
        /\ Move(w, p, NoCall)
        /\ p = "exited" => shutdown /\ waiting' = waiting
        /\ p = "waiting" => ~shutdown /\ waiting' = Append(waiting, w)
  BY DEF Park, MayPark, Exit, queueVars
<1>3. At(p, NoCall) \in WorkerState
  BY States
<1>4. /\ worker' \in [Worker -> WorkerState] /\ worker'[w].at = p /\ worker'[w].call = NoCall
      /\ \A v \in Worker : v # w => worker'[v] = worker[v]
  BY <1>2, <1>3, Moved
<1>5. TypeOK' /\ IsFiniteSet(queue)' /\ OnePostPerWait' /\ NoIdleConsumerWhileQueued'
      /\ OnlySleepersHaveMail' /\ ClosersAgree'
  <2>1. CASE p = "exited"
    BY <1>1, <1>2, <1>3, <2>1, WorkerKeepsParts
  <2>2. CASE p = "waiting"
    <3>1. /\ waiting' \in Seq(Worker) /\ Len(waiting') = Len(waiting) + 1
          /\ waiting'[Len(waiting')] = w
          /\ \A i \in 1 .. Len(waiting) : waiting'[i] = waiting[i] /\ waiting[i] # w
      <4>1. waiting' = Append(waiting, w) /\ \A i \in 1 .. Len(waiting) : waiting[i] # w
        BY <1>1, <1>2, <2>2 DEF OnePostPerWait
      <4> QED BY <4>1
    <3>2. \A h \in handoff : h[2] \in Worker /\ h[2] # w
      BY <1>1 DEF OnePostPerWait, TypeOK
    <3>3. mailbox[w] = NoPost
      BY <1>1 DEF OnlySleepersHaveMail
    <3>4. TypeOK'
      BY <1>1, <1>4, <3>1 DEF TypeOK
    <3>5. OnePostPerWait'
      <4>1. \A h \in handoff' : /\ worker'[h[2]].at = "waiting" /\ mailbox'[h[2]] = NoPost
                                /\ \A g \in handoff' : g[2] = h[2] => g = h
        BY <1>1, <1>4, <3>2 DEF OnePostPerWait
      <4>2. ASSUME NEW i \in 1 .. Len(waiting')
            PROVE  /\ worker'[waiting'[i]].at = "waiting" /\ mailbox'[waiting'[i]] = NoPost
                   /\ \A h \in handoff' : h[2] # waiting'[i]
        <5>1. CASE i = Len(waiting')
          BY <1>1, <1>4, <2>2, <3>1, <3>2, <3>3, <5>1
        <5>2. CASE i # Len(waiting')
          <6>1. i \in 1 .. Len(waiting)
            BY <3>1, <5>2
          <6> QED BY <1>1, <1>4, <3>1, <6>1 DEF OnePostPerWait
        <5> QED BY <5>1, <5>2
      <4>3. \A i, j \in 1 .. Len(waiting') : waiting'[i] = waiting'[j] => i = j
        BY <3>1 DEF OnePostPerWait
      <4> QED BY <4>1, <4>2, <4>3 DEF OnePostPerWait
    <3>6. IsFiniteSet(queue)' /\ NoIdleConsumerWhileQueued' /\ OnlySleepersHaveMail'
      BY <1>1, <1>4, <2>2 DEF NoIdleConsumerWhileQueued, OnlySleepersHaveMail
    <3>7. ClosersAgree'
      BY <1>1, <1>2, <1>4, <2>2 DEF ClosersAgree, ShutdownLockIsFree, Joined
    <3> QED BY <3>4, <3>5, <3>6, <3>7
  <2> QED BY <2>1, <2>2
<1>6. \A d \in Call : HasOneOwner(d)'
  BY <1>1, <1>4, PoolAssumption, Untouched DEF OneOwner
<1> QED BY <1>5, <1>6 DEF IInv, QueueInv, OneOwner

\* A worker that was posted to wakes up with the call, or to look at the queue.
LEMMA WakeUpPreserves ==
  ASSUME IInv, NEW w \in Worker, WakeUpConsumer(w)
  PROVE  IInv'
<1> USE InvGivesParts
<1>1. /\ worker[w].at = "waiting" /\ worker[w].call = NoCall /\ mailbox[w] # NoPost
      /\ mailbox' = [mailbox EXCEPT ![w] = NoPost]
      /\ UNCHANGED <<now, arrived, queue, waiting, handoff, dropped, shutdown, answers, closing,
                     closer>>
  BY States DEF WakeUpConsumer, Emptied, closeVars
<1>2. /\ mailbox' \in [Worker -> {NoPost, WakeUp} \cup Call] /\ mailbox'[w] = NoPost
      /\ \A v \in Worker : v # w => mailbox'[v] = mailbox[v]
      /\ mailbox[w] \in {WakeUp} \cup Call
  BY <1>1 DEF TypeOK
<1>3. PICK p \in {"getting", "taken"}, c \in {NoCall} \cup Call :
        /\ Move(w, p, c)
        /\ \/ p = "getting" /\ c = NoCall /\ mailbox[w] = WakeUp
           \/ p = "taken" /\ c \in Call /\ mailbox[w] = c
  BY <1>2 DEF WakeUpConsumer
<1>4. At(p, c) \in WorkerState
  BY <1>3, States
<1>5. /\ worker' \in [Worker -> WorkerState] /\ worker'[w].at = p /\ worker'[w].call = c
      /\ \A v \in Worker : v # w => worker'[v] = worker[v]
  BY <1>3, <1>4, Moved
<1>6. TypeOK'
  BY <1>1, <1>2, <1>5 DEF TypeOK
<1>7. OnePostPerWait'
  <2>1. \A h \in handoff : h[2] \in Worker /\ h[2] # w
    BY <1>1 DEF OnePostPerWait, TypeOK
  <2>2. \A i \in 1 .. Len(waiting) : waiting[i] \in Worker /\ waiting[i] # w
    BY <1>1 DEF OnePostPerWait
  <2> QED BY <1>1, <1>2, <1>5, <2>1, <2>2 DEF OnePostPerWait
<1>8. IsFiniteSet(queue)' /\ NoIdleConsumerWhileQueued' /\ OnlySleepersHaveMail'
  BY <1>1, <1>2, <1>5 DEF NoIdleConsumerWhileQueued, OnlySleepersHaveMail
<1>9. ClosersAgree'
  BY <1>1, <1>5 DEF ClosersAgree, ShutdownLockIsFree, Joined
<1>10. \A d \in Call : d # c => HasOneOwner(d)'
  BY <1>1, <1>2, <1>3, <1>5, PoolAssumption, Untouched DEF OneOwner
<1>11. c \in Call => HasOneOwner(c)'
  <2> SUFFICES ASSUME c \in Call PROVE HasOneOwner(c)'
    OBVIOUS
  <2>0. mailbox[w] = c /\ c # NoPost
    BY <1>3, PoolAssumption
  <2>1. c \in arrived /\ Placed(c, FALSE, {}, {}, {w}, {}, 0)
    BY <2>0, InMailboxOnly
  <2>2. Placed(c, FALSE, {}, {}, {}, {w}, 0)'
    BY <1>1, <1>2, <1>5, <2>0, <2>1 DEF Placed
  <2> QED BY <1>1, <2>1, <2>2 DEF HasOneOwner
<1> QED BY <1>6, <1>7, <1>8, <1>9, <1>10, <1>11 DEF IInv, QueueInv, OneOwner

\* The worker answers the call it holds.
LEMMA WorkerAnswersPreserves ==
  ASSUME IInv, NEW w \in Worker, SkipTimedOut(w) \/ HandlerReturns(w)
  PROVE  IInv'
<1> USE InvGivesParts
<1>1. /\ worker[w].at \in {"taken", "handling"} /\ Move(w, "getting", NoCall)
      /\ \E o \in Outcome : Respond(worker[w].call, o)
      /\ UNCHANGED <<now, arrived, queue, waiting, mailbox, handoff, dropped, shutdown, closing,
                     closer>>
  BY DEF SkipTimedOut, HandlerReturns, Outcome, queueVars, closeVars
<1>2. PICK c \in Call : c = worker[w].call
  BY <1>1, States
<1>3. /\ answers' \in [Call -> Seq(Outcome)] /\ Len(answers'[c]) = Len(answers[c]) + 1
      /\ \A d \in Call : d # c => answers'[d] = answers[d]
  BY <1>1, <1>2, Answered
<1>4. At("getting", NoCall) \in WorkerState
  BY States
<1>5. worker'[w].call = NoCall /\ \A v \in Worker : v # w => worker'[v] = worker[v]
  BY <1>1, <1>4, Moved
<1>6. TypeOK' /\ IsFiniteSet(queue)' /\ OnePostPerWait' /\ NoIdleConsumerWhileQueued'
      /\ OnlySleepersHaveMail' /\ ClosersAgree'
  BY <1>1, <1>3, <1>4, WorkerKeepsParts
<1>7. HasOneOwner(c)'
  <2>1. c \in arrived /\ Placed(c, FALSE, {}, {}, {}, {w}, 0)
    BY <1>2, AtWorkerOnly
  <2>2. Placed(c, FALSE, {}, {}, {}, {}, 1)'
    <3>1. c # NoCall /\ Len(answers'[c]) = 1 /\ c \notin queue'
      BY <1>1, <1>3, <2>1, PoolAssumption DEF Placed
    <3>2. \A v \in Worker : worker'[v].call # c
      BY <1>5, <2>1, <3>1 DEF Placed
    <3>3. \A v \in Worker : <<c, v>> \notin handoff' /\ mailbox'[v] # c
      BY <1>1, <2>1 DEF Placed
    <3>4. \A o \in Refusal : <<c, o>> \notin dropped'
      BY <1>1, <2>1 DEF Placed
    <3> QED BY <3>1, <3>2, <3>3, <3>4 DEF Placed
  <2> QED BY <1>1, <2>1, <2>2 DEF HasOneOwner
<1>8. \A d \in Call : d # c => HasOneOwner(d)'
  BY <1>1, <1>2, <1>3, <1>5, PoolAssumption, Untouched DEF OneOwner
<1> QED BY <1>6, <1>7, <1>8 DEF IInv, QueueInv, OneOwner

LEMMA HandlePreserves ==
  ASSUME IInv, NEW w \in Worker, Handle(w)
  PROVE  IInv'
<1> USE InvGivesParts
<1>1. /\ worker[w].at = "taken" /\ Move(w, "handling", worker[w].call)
      /\ UNCHANGED <<now, arrived, queue, waiting, mailbox, handoff, dropped, shutdown, answers,
                     closing, closer>>
  BY DEF Handle, queueVars, closeVars
<1>2. At("handling", worker[w].call) \in WorkerState
  BY <1>1, States
<1>3. /\ worker'[w].call = worker[w].call
      /\ \A v \in Worker : v # w => worker'[v] = worker[v]
  BY <1>1, <1>2, Moved
<1>4. TypeOK' /\ IsFiniteSet(queue)' /\ OnePostPerWait' /\ NoIdleConsumerWhileQueued'
      /\ OnlySleepersHaveMail' /\ ClosersAgree'
  BY <1>1, <1>2, WorkerKeepsParts
<1>5. \A d \in Call : HasOneOwner(d)'
  BY <1>1, <1>3, Untouched DEF OneOwner
<1> QED BY <1>4, <1>5 DEF IInv, QueueInv, OneOwner

-----------------------------------------------------------------------------
(* Shutdown.                                                               *)

\* The queue is shut down: the parked workers, whom nobody else posts to, are woken.
LEMMA ShutdownQueuePreserves ==
  ASSUME IInv, NEW k \in Closer, ShutdownQueue(k)
  PROVE  IInv'
<1> USE InvGivesParts
<1>1. /\ closer[k] = "idle" /\ shutdown' = TRUE /\ waiting' = <<>>
      /\ mailbox' = [w \in Worker |-> IF w \in Woken THEN WakeUp ELSE mailbox[w]]
      /\ closer' = [closer EXCEPT ![k] = "locking"]
      /\ UNCHANGED <<now, arrived, queue, handoff, dropped, worker, answers, closing>>
  BY DEF ShutdownQueue
<1>2. /\ waiting' \in Seq(Worker) /\ Len(waiting') = 0
      /\ closer' \in [Closer -> {"idle", "locking", "joining", "draining", "done"}]
      /\ closer'[k] = "locking" /\ \A j \in Closer : j # k => closer'[j] = closer[j]
  BY <1>1 DEF TypeOK
<1>3. \A w \in Woken : /\ w \in Worker /\ worker[w].at = "waiting" /\ mailbox[w] = NoPost
                       /\ \A h \in handoff : h[2] # w
  BY DEF Woken, OnePostPerWait
<1>4. TypeOK'
  <2>1. mailbox' \in [Worker -> {NoPost, WakeUp} \cup Call]
    BY <1>1 DEF TypeOK
  <2> QED BY <1>1, <1>2, <2>1 DEF TypeOK
<1>5. OnePostPerWait'
  <2>1. \A h \in handoff : h[2] \in Worker /\ mailbox'[h[2]] = mailbox[h[2]]
    BY <1>1, <1>3 DEF TypeOK
  <2> QED BY <1>1, <1>2, <2>1 DEF OnePostPerWait
<1>6. IsFiniteSet(queue)' /\ NoIdleConsumerWhileQueued' /\ OnlySleepersHaveMail'
  BY <1>1, <1>3 DEF NoIdleConsumerWhileQueued, OnlySleepersHaveMail
<1>7. ClosersAgree'
  BY <1>1, <1>2 DEF ClosersAgree, ShutdownLockIsFree, Joined
<1>8. \A d \in Call : HasOneOwner(d)'
  BY <1>1, <1>3, PoolAssumption, Untouched DEF OneOwner
<1> QED BY <1>4, <1>5, <1>6, <1>7, <1>8 DEF IInv, QueueInv, OneOwner

LEMMA CloserStepPreserves ==
  ASSUME IInv, NEW k \in Closer, CloserStep(k)
  PROVE  IInv'
<1> USE InvGivesParts
<1>1. UNCHANGED <<now, arrived, queue, waiting, mailbox, handoff, dropped, shutdown, worker,
                answers>>
  BY DEF CloserStep, Close, JoinWorkers, FinishShutdown, queueVars
<1>2. PICK p \in {"joining", "draining", "done"} : closer' = [closer EXCEPT ![k] = p]
  BY DEF CloserStep, Close, JoinWorkers, FinishShutdown
<1>3. /\ closer' \in [Closer -> {"idle", "locking", "joining", "draining", "done"}]
      /\ closer'[k] = p /\ \A j \in Closer : j # k => closer'[j] = closer[j]
  BY <1>2 DEF TypeOK
<1>4. TypeOK'
  <2>1. closing' \in BOOLEAN
    BY DEF CloserStep, Close, JoinWorkers, FinishShutdown, TypeOK
  <2> QED BY <1>1, <1>3, <2>1 DEF TypeOK
<1>5. IsFiniteSet(queue)' /\ OnePostPerWait' /\ NoIdleConsumerWhileQueued'
      /\ OnlySleepersHaveMail'
  BY <1>1 DEF OnePostPerWait, NoIdleConsumerWhileQueued, OnlySleepersHaveMail
<1>6. ClosersAgree'
  <2>1. CASE Close(k)
    <3>1. closer[k] = "locking" /\ closing' = TRUE /\ ShutdownLockIsFree
          /\ p = IF closing THEN "done" ELSE "joining"
      BY <1>3, <2>1 DEF Close, TypeOK
    <3> QED BY <1>1, <1>3, <3>1 DEF ClosersAgree, ShutdownLockIsFree, Joined
  <2>2. CASE JoinWorkers(k)
    <3>1. closer[k] = "joining" /\ Joined /\ p = "draining"
      BY <1>3, <2>2 DEF JoinWorkers, TypeOK
    <3> QED BY <1>1, <1>3, <3>1 DEF ClosersAgree, ShutdownLockIsFree, Joined
  <2>3. CASE FinishShutdown(k)
    <3>1. closer[k] = "draining" /\ queue = {} /\ shutdown /\ p = "done"
      BY <1>3, <2>3 DEF FinishShutdown, TypeOK
    <3> QED BY <1>1, <1>3, <3>1 DEF ClosersAgree, ShutdownLockIsFree, Joined
  <2> QED BY <2>1, <2>2, <2>3 DEF CloserStep
<1>7. \A d \in Call : HasOneOwner(d)'
  BY <1>1, Untouched DEF OneOwner
<1> QED BY <1>4, <1>5, <1>6, <1>7 DEF IInv, QueueInv, OneOwner

LEMMA TimePreserves ==
  ASSUME IInv, Tick \/ UNCHANGED vars
  PROVE  IInv'
<1> USE InvGivesParts
<1>1. UNCHANGED <<arrived, queue, waiting, mailbox, handoff, dropped, shutdown, worker, answers,
                closing, closer>>
  BY DEF Tick, vars, queueVars, closeVars
<1>2. now' \in 0 .. MaxTime
  BY PoolAssumption DEF Tick, vars, TypeOK
<1>3. TypeOK' /\ IsFiniteSet(queue)' /\ OnePostPerWait' /\ NoIdleConsumerWhileQueued'
      /\ OnlySleepersHaveMail' /\ ClosersAgree'
  BY <1>1, <1>2
     DEF TypeOK, OnePostPerWait, NoIdleConsumerWhileQueued, OnlySleepersHaveMail, ClosersAgree,
         ShutdownLockIsFree, Joined
<1>4. \A d \in Call : HasOneOwner(d)'
  BY <1>1, Untouched DEF OneOwner
<1> QED BY <1>3, <1>4 DEF IInv, QueueInv, OneOwner

-----------------------------------------------------------------------------

LEMMA NextPreserves == IInv /\ [Next]_vars => IInv'
<1> SUFFICES ASSUME IInv, [Next]_vars PROVE IInv'
  OBVIOUS
<1>1. ASSUME NEW c \in Call, QueueInboundCall(c) PROVE IInv'
  BY <1>1, QueueInboundCallPreserves
<1>2. ASSUME NEW c \in Call, NEW w \in Worker, Post(c, w) PROVE IInv'
  BY <1>2, PostPreserves
<1>6. ASSUME NEW c \in Call, NEW o \in Refusal, Reject(c, o) PROVE IInv'
  BY <1>6, RejectPreserves
<1>3. ASSUME NEW w \in Worker, WorkerStep(w) PROVE IInv'
  BY <1>3, TakeFirstPreserves, IdleWorkerPreserves, WakeUpPreserves, WorkerAnswersPreserves,
     HandlePreserves DEF WorkerStep
<1>4. ASSUME NEW k \in Closer, ShutdownQueue(k) \/ CloserStep(k) PROVE IInv'
  BY <1>4, ShutdownQueuePreserves, CloserStepPreserves
<1>5. CASE Tick \/ UNCHANGED vars
  BY <1>5, TimePreserves
<1> QED BY <1>1, <1>2, <1>3, <1>4, <1>5, <1>6 DEF Next

\* The strengthened invariant of the pool.
THEOREM Invariance == Spec => []IInv
<1> QED BY InitIInv, NextPreserves, PTL DEF Spec

\* What the queue asserts of its consumers holds, and the variables keep their
\* types: no consumer is posted to twice, by Put or by Shutdown, and none is parked
\* while a call is queued.
THEOREM QueueAssertionsHold == Spec => []QueueInv
<1>1. IInv => QueueInv
  BY DEF IInv
<1> QED BY <1>1, Invariance, PTL

LEMMA Images ==
  ASSUME NEW c, NEW w
  PROVE  /\ {<<"queue">> : x \in {}} = {} /\ {<<"queue">> : x \in {c}} = {<<"queue">>}
         /\ {<<"handoff", v>> : v \in {}} = {}
         /\ {<<"handoff", v>> : v \in {w}} = {<<"handoff", w>>}
         /\ {<<"dropped", v>> : v \in {}} = {}
         /\ {<<"dropped", v>> : v \in {w}} = {<<"dropped", w>>}
         /\ {<<"mailbox", v>> : v \in {}} = {}
         /\ {<<"mailbox", v>> : v \in {w}} = {<<"mailbox", w>>}
         /\ {<<"worker", v>> : v \in {}} = {}
         /\ {<<"worker", v>> : v \in {w}} = {<<"worker", w>>}
         /\ {<<"answered", i>> : i \in {}} = {}
         /\ {<<"answered", i>> : i \in {1}} = {<<"answered", 1>>}
<1>1. /\ {<<"queue">> : x \in {}} = {} /\ {<<"queue">> : x \in {c}} = {<<"queue">>}
      /\ {<<"handoff", v>> : v \in {}} = {} /\ {<<"handoff", v>> : v \in {w}} = {<<"handoff", w>>}
  BY Zenon
<1>2. /\ {<<"dropped", v>> : v \in {}} = {} /\ {<<"dropped", v>> : v \in {w}} = {<<"dropped", w>>}
      /\ {<<"answered", i>> : i \in {}} = {}
      /\ {<<"answered", i>> : i \in {1}} = {<<"answered", 1>>}
  BY Zenon
<1>3. /\ {<<"mailbox", v>> : v \in {}} = {} /\ {<<"mailbox", v>> : v \in {w}} = {<<"mailbox", w>>}
      /\ {<<"worker", v>> : v \in {}} = {} /\ {<<"worker", v>> : v \in {w}} = {<<"worker", w>>}
  BY Zenon
<1> QED BY <1>1, <1>2, <1>3

LEMMA PlacedIsHeldOnce ==
  ASSUME NEW c \in Call, HasOneOwner(c), answers[c] \in Seq(Outcome)
  PROVE  IF c \in arrived THEN \E h : Holders(c) = {h} ELSE Holders(c) = {}
<1>0. /\ Len(answers[c]) = 0 => DOMAIN answers[c] = {}
      /\ Len(answers[c]) = 1 => DOMAIN answers[c] = {1}
  <2>1. DOMAIN answers[c] = 1 .. Len(answers[c])
    OBVIOUS
  <2>2. 1 .. 0 = {} /\ 1 .. 1 = {1}
    OBVIOUS
  <2> QED BY <2>1, <2>2
<1>1. ASSUME Placed(c, TRUE, {}, {}, {}, {}, 0)
      PROVE  Holders(c) = {<<"queue">>}
  <2>1. {c} \cap queue = {c} /\ DOMAIN answers[c] = {}
    BY <1>0, <1>1 DEF Placed
  <2>2. {v \in Worker : <<c, v>> \in handoff} = {}
    BY <1>1 DEF Placed
  <2>3. /\ {v \in Worker : mailbox[v] = c} = {}
        /\ {v \in Worker : worker[v].call = c} = {}
        /\ {r \in Refusal : <<c, r>> \in dropped} = {}
    BY <1>1 DEF Placed
  <2> QED BY <2>1, <2>2, <2>3, Images, Zenon DEF Holders
<1>2. ASSUME NEW w \in Worker, Placed(c, FALSE, {w}, {}, {}, {}, 0)
      PROVE  Holders(c) = {<<"handoff", w>>}
  <2>1. {c} \cap queue = {} /\ DOMAIN answers[c] = {}
    BY <1>0, <1>2 DEF Placed
  <2>2. {v \in Worker : <<c, v>> \in handoff} = {w}
    BY <1>2 DEF Placed
  <2>3. /\ {v \in Worker : mailbox[v] = c} = {}
        /\ {v \in Worker : worker[v].call = c} = {}
        /\ {r \in Refusal : <<c, r>> \in dropped} = {}
    BY <1>2 DEF Placed
  <2> QED BY <2>1, <2>2, <2>3, Images, Zenon DEF Holders
<1>3. ASSUME NEW w \in Worker, Placed(c, FALSE, {}, {}, {w}, {}, 0)
      PROVE  Holders(c) = {<<"mailbox", w>>}
  <2>1. {c} \cap queue = {} /\ DOMAIN answers[c] = {}
    BY <1>0, <1>3 DEF Placed
  <2>2. {v \in Worker : <<c, v>> \in handoff} = {}
    BY <1>3 DEF Placed
  <2>3. /\ {v \in Worker : mailbox[v] = c} = {w}
        /\ {v \in Worker : worker[v].call = c} = {}
        /\ {r \in Refusal : <<c, r>> \in dropped} = {}
    BY <1>3 DEF Placed
  <2> QED BY <2>1, <2>2, <2>3, Images, Zenon DEF Holders
<1>4. ASSUME NEW w \in Worker, Placed(c, FALSE, {}, {}, {}, {w}, 0)
      PROVE  Holders(c) = {<<"worker", w>>}
  <2>1. {c} \cap queue = {} /\ DOMAIN answers[c] = {}
    BY <1>0, <1>4 DEF Placed
  <2>2. {v \in Worker : <<c, v>> \in handoff} = {}
    BY <1>4 DEF Placed
  <2>3. /\ {v \in Worker : mailbox[v] = c} = {}
        /\ {v \in Worker : worker[v].call = c} = {w}
        /\ {r \in Refusal : <<c, r>> \in dropped} = {}
    BY <1>4 DEF Placed
  <2> QED BY <2>1, <2>2, <2>3, Images, Zenon DEF Holders
<1>5. ASSUME Placed(c, FALSE, {}, {}, {}, {}, 1)
      PROVE  Holders(c) = {<<"answered", 1>>}
  <2>1. {c} \cap queue = {} /\ DOMAIN answers[c] = {1}
    BY <1>0, <1>5 DEF Placed
  <2>2. {v \in Worker : <<c, v>> \in handoff} = {}
    BY <1>5 DEF Placed
  <2>3. /\ {v \in Worker : mailbox[v] = c} = {}
        /\ {v \in Worker : worker[v].call = c} = {}
        /\ {r \in Refusal : <<c, r>> \in dropped} = {}
    BY <1>5 DEF Placed
  <2> QED BY <2>1, <2>2, <2>3, Images, Zenon DEF Holders
<1>6. ASSUME Placed(c, FALSE, {}, {}, {}, {}, 0)
      PROVE  Holders(c) = {}
  <2>1. {c} \cap queue = {} /\ DOMAIN answers[c] = {}
    BY <1>0, <1>6 DEF Placed
  <2>2. {v \in Worker : <<c, v>> \in handoff} = {}
    BY <1>6 DEF Placed
  <2>3. /\ {v \in Worker : mailbox[v] = c} = {}
        /\ {v \in Worker : worker[v].call = c} = {}
        /\ {r \in Refusal : <<c, r>> \in dropped} = {}
    BY <1>6 DEF Placed
  <2> QED BY <2>1, <2>2, <2>3, Images, Zenon DEF Holders
<1>7. ASSUME NEW o \in Refusal, Placed(c, FALSE, {}, {o}, {}, {}, 0)
      PROVE  Holders(c) = {<<"dropped", o>>}
  <2>1. {c} \cap queue = {} /\ DOMAIN answers[c] = {}
    BY <1>0, <1>7 DEF Placed
  <2>2. {v \in Worker : <<c, v>> \in handoff} = {}
    BY <1>7 DEF Placed
  <2>3. /\ {v \in Worker : mailbox[v] = c} = {}
        /\ {v \in Worker : worker[v].call = c} = {}
        /\ {r \in Refusal : <<c, r>> \in dropped} = {o}
    BY <1>7 DEF Placed
  <2> QED BY <2>1, <2>2, <2>3, Images, Zenon DEF Holders
<1> QED BY <1>1, <1>2, <1>3, <1>4, <1>5, <1>6, <1>7 DEF HasOneOwner

\* Each call that arrived is in exactly one place until it is answered, and is
\* answered once, through eviction, direct hand-off, time-out and shutdown.
THEOREM CallsAreOwnedOnce == Spec => []EachCallHasOneOwner
<1>1. IInv => EachCallHasOneOwner
  <2> SUFFICES ASSUME IInv, NEW c \in Call
               PROVE  Cardinality(Holders(c)) = IF c \in arrived THEN 1 ELSE 0
    BY DEF EachCallHasOneOwner
  <2>1. IF c \in arrived THEN \E h : Holders(c) = {h} ELSE Holders(c) = {}
    BY InvGivesParts, PlacedIsHeldOnce DEF OneOwner
  <2> QED BY <2>1, FS_EmptySet, FS_Singleton
<1> QED BY <1>1, Invariance, PTL

\* When any Shutdown returns, no worker is left, and each call that arrived was
\* answered, or is about to be by the thread whose Put refused or evicted it.
THEOREM NothingIsLeft == Spec => []ShutdownLeavesNothing
<1>1. IInv => ShutdownLeavesNothing
  <2> SUFFICES ASSUME IInv, NEW k \in Closer, closer[k] = "done"
               PROVE  /\ \A w \in Worker : worker[w].at = "exited"
                      /\ queue = {} /\ handoff = {}
                      /\ \A c \in arrived :
                           Len(answers[c]) = IF InHandsOfPutter(c) THEN 0 ELSE 1
    BY DEF ShutdownLeavesNothing
  <2> USE InvGivesParts
  <2>1. /\ queue = {}
        /\ \A w \in Worker : worker[w].at = "exited" /\ worker[w].call = NoCall
    BY States DEF ClosersAgree, Joined
  <2>2. handoff = {}
    <3>1. \A h \in handoff : h[2] \in Worker
      BY DEF TypeOK
    <3>2. \A h \in handoff : worker[h[2]].at = "waiting"
      BY DEF OnePostPerWait
    <3> QED BY <2>1, <3>1, <3>2
  <2>3. \A w \in Worker : mailbox[w] = NoPost
    BY <2>1 DEF OnlySleepersHaveMail
  <2>4. ASSUME NEW c \in arrived
        PROVE  Len(answers[c]) = IF InHandsOfPutter(c) THEN 0 ELSE 1
    <3>1. c \in Call /\ HasOneOwner(c)
      BY DEF TypeOK, OneOwner
    <3>2. \/ Placed(c, FALSE, {}, {}, {}, {}, 1)
          \/ \E o \in Refusal : Placed(c, FALSE, {}, {o}, {}, {}, 0)
      BY <2>1, <2>2, <2>3, <3>1, PoolAssumption DEF HasOneOwner, Placed
    <3> QED BY <3>2 DEF InHandsOfPutter, Placed
  <2> QED BY <2>1, <2>2, <2>4
<1> QED BY <1>1, Invariance, PTL

-----------------------------------------------------------------------------
(* A full queue drops the least urgent call.                               *)

Drops(c) == <<c, "too_busy">> \in dropped' \ dropped

\* Only Put on a full queue gives a call back for lack of room.
LEMMA OnlyOverflowDrops ==
  ASSUME [Next]_vars, NEW c \in Call, Drops(c)
  PROVE  \E d \in Call : PutWhenFull(d)
<1>1. ~(dropped' \subseteq dropped)
  BY DEF Drops
<1>2. ASSUME NEW d \in Call, QueueInboundCall(d) PROVE PutWhenFull(d)
  <2>1. ~PutAfterShutdown(d)
    BY DEF Drops, PutAfterShutdown, Drop
  <2> QED BY <1>1, <1>2, <2>1
          DEF QueueInboundCall, RejectUnsupported, PutToConsumer, PutInQueue
<1>3. ASSUME \/ \E d \in Call, o \in Refusal : Reject(d, o)
             \/ \E d \in Call, w \in Worker : Post(d, w)
             \/ \E w \in Worker : WorkerStep(w)
             \/ \E k \in Closer : ShutdownQueue(k) \/ CloserStep(k)
             \/ Tick \/ UNCHANGED vars
      PROVE  dropped' \subseteq dropped
  BY <1>3
     DEF Reject, Post, WorkerStep, TakeFirst, Exit, Park, WakeUpConsumer, SkipTimedOut, Handle,
         HandlerReturns, ShutdownQueue, CloserStep, Close, JoinWorkers, FinishShutdown, Tick,
         vars, queueVars
<1> QED BY <1>1, <1>2, <1>3 DEF Next

\* A call dropped for lack of room has the latest deadline of all.
THEOREM TheLeastUrgentGoes == Spec => DroppedCallIsTheLeastUrgent
<1>1. IInv /\ [Next]_vars =>
        [\A c \in Call : Drops(c) => \A d \in queue' : Deadline[d] <= Deadline[c]]_vars
  <2> SUFFICES ASSUME IInv, [Next]_vars, NEW c \in Call, Drops(c), NEW d \in queue'
               PROVE  Deadline[d] <= Deadline[c]
    OBVIOUS
  <2> USE InvGivesParts
  <2>1. PICK b \in Call : PutWhenFull(b)
    BY OnlyOverflowDrops
  <2>2. PICK e \in Last(queue) : Overflow(b, e)
    BY <2>1 DEF PutWhenFull
  <2>3. /\ e \in queue /\ queue \subseteq Call /\ \A x \in queue : ~DeadlineLess(e, x)
        /\ \A x \in Call : Deadline[x] \in Nat
    BY <2>2, PoolAssumption DEF Last, TypeOK
  <2>4. \A x \in queue : Deadline[x] <= Deadline[e]
    BY <2>3 DEF DeadlineLess
  <2>5. CASE DeadlineLess(e, b)
    <3>1. queue' = queue /\ Drop(b, "too_busy")
      BY <2>2, <2>5 DEF Overflow
    <3>2. c = b
      BY <3>1 DEF Drop, Drops
    <3> QED BY <2>3, <2>4, <2>5, <3>1, <3>2 DEF DeadlineLess
  <2>6. CASE ~DeadlineLess(e, b)
    <3>1. queue' = (queue \ {e}) \cup {b} /\ Drop(e, "too_busy")
      BY <2>2, <2>6 DEF Overflow
    <3>2. c = e
      BY <3>1 DEF Drop, Drops
    <3> QED BY <2>3, <2>4, <2>6, <3>1, <3>2 DEF DeadlineLess
  <2> QED BY <2>5, <2>6
<1> QED BY <1>1, Invariance, PTL DEF Spec, DroppedCallIsTheLeastUrgent, Drops
=============================================================================
