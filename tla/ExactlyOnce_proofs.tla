-------------------------- MODULE ExactlyOnce_proofs --------------------------
(***************************************************************************)
(* Theorems about ResultTracker and about ExactlyOnce, which extends it,   *)
(* for any clients and any sequence numbers and attempt numbers within the *)
(* naturals.  The tracker's inductive invariant is IInv, of either module, *)
(* since the tracker goes its way whatever clients and network do; the     *)
(* protocol adds IncompleteInv, which relates both ends, and so implements *)
(* AtMostOnceRpc.                                                          *)
(***************************************************************************)
EXTENDS ExactlyOnce, WellFoundedInduction, TLAPS

-----------------------------------------------------------------------------
(* The result tracker.                                                     *)

\* The inductive invariant implies the properties of the module.
LEMMA IInvImplies ==
  IInv => /\ AtMostOnce
          /\ HandlerDrivesItsRecord
          /\ WatermarkBelowRecords
          /\ OpenCallsAreAttached
<1> SUFFICES ASSUME IInv
             PROVE  /\ AtMostOnce
                    /\ HandlerDrivesItsRecord
                    /\ WatermarkBelowRecords
                    /\ OpenCallsAreAttached
  OBVIOUS
<1>1. AtMostOnce
  BY DEF IInv, RpcInv, AtMostOnce
<1>2. HandlerDrivesItsRecord
  <2> SUFFICES ASSUME NEW c \in Client, NEW s \in SeqNo, NEW a \in AttemptNo,
                      <<c, s, a>> \in running
               PROVE  /\ c \in known
                      /\ records[c][s].state = "IN_PROGRESS"
                      /\ records[c][s].driver = a
    BY DEF HandlerDrivesItsRecord
  <2>1. RpcInv(c, s)
    BY DEF IInv
  <2> QED BY <2>1 DEF RpcInv
<1>3. WatermarkBelowRecords
  BY DEF IInv, RpcInv, WatermarkBelowRecords
<1>4. OpenCallsAreAttached
  BY DEF IInv, RpcInv, OpenCallsAreAttached
<1> QED BY <1>1, <1>2, <1>3, <1>4

-----------------------------------------------------------------------------
(* Garbage collection.                                                     *)

\* A collection pass leaves every surviving record at or above the new
\* watermark and every deleted one below it.
LEMMA PrefixIsBelowWatermark ==
  ASSUME NEW c \in Client, NEW collectable, NEW n \in Int, NEW old \in Int,
         IsWatermarkAfter(n, old, DeletedPrefix(c, collectable)),
         \A t \in Tracked(c) : old <= t
  PROVE  \A t \in Tracked(c) :
           IF t \in DeletedPrefix(c, collectable)
           THEN t < n /\ t \in collectable
           ELSE n <= t
<1> DEFINE D == DeletedPrefix(c, collectable)
<1> TAKE t \in Tracked(c)
<1>0. t \in Int
  BY SeqNoAssumption DEF Tracked
<1>1. CASE t \in D
  <2>1. t < n
    BY <1>0, <1>1 DEF IsWatermarkAfter
  <2>2. t \in collectable
    BY <1>0, <1>1 DEF DeletedPrefix
  <2> QED BY <1>1, <2>1, <2>2
<1>2. CASE t \notin D
  <2>1. PICK u \in Tracked(c) : u <= t /\ u \notin collectable
    BY <1>2 DEF DeletedPrefix
  <2>2. \A d \in D : d < t
    <3> TAKE d \in D
    <3>1. d \in Int /\ u \in Int
      BY SeqNoAssumption DEF Tracked, DeletedPrefix
    <3>2. ~(u <= d)
      BY <2>1 DEF DeletedPrefix
    <3> QED BY <1>0, <2>1, <3>1, <3>2
  <2>3. CASE n = old
    BY <1>2, <2>3
  <2>4. CASE n # old
    <3>1. PICK d \in D : n = d + 1
      BY <2>4 DEF IsWatermarkAfter
    <3>2. d \in Int
      BY SeqNoAssumption DEF Tracked, DeletedPrefix
    <3> QED BY <1>0, <1>2, <2>2, <3>1, <3>2
  <2> QED BY <2>3, <2>4
<1> QED BY <1>1, <1>2

LEMMA WatermarkIsInt == Watermark \subseteq Int
<1>1. \A s \in SeqNo : s \in Int /\ s + 1 \in Int
  BY SeqNoAssumption
<1> QED BY <1>1 DEF Watermark

LEMMA TypeInit == Init => TypeOK
<1> SUFFICES ASSUME Init PROVE TypeOK
  OBVIOUS
<1>1. NoRecord \in Record
  BY DEF NoRecord, Record, Handler
<1>2. Absent \in CallStatus
  BY DEF Absent, Answer, CallStatus, Handler
<1> QED BY <1>1, <1>2 DEF Init, TypeOK, Watermark

-----------------------------------------------------------------------------
(* Type correctness.                                                       *)

LEMMA RowType ==
  ASSUME TypeOK, NEW c \in Client, NEW deleted
  PROVE  WithoutRecords(c, deleted) \in [SeqNo -> Record]
<1>1. NoRecord \in Record
  BY DEF NoRecord, Record, Handler
<1> QED BY <1>1 DEF TypeOK, WithoutRecords

LEMMA LookupType ==
  ASSUME TypeOK, NEW c \in Client, NEW s \in SeqNo, NEW a \in AttemptNo,
         NEW fi \in SeqNo, NEW deleted, Lookup(c, s, a, fi, deleted)
  PROVE  /\ known' \subseteq Client
         /\ silent' \subseteq known'
         /\ staleBefore' \in [Client -> Watermark]
BY DEF TypeOK, Lookup, HeardFrom

LEMMA TrackRpcType ==
  ASSUME TypeOK, NEW c \in Client, NEW s \in SeqNo, NEW a \in AttemptNo,
         NEW fi \in SeqNo, TrackRpc(c, s, a, fi)
  PROVE  TypeOK'
<1> DEFINE deleted == DeletedPrefix(c, DoneBefore(c, fi))
           row == WithoutRecords(c, deleted)
<1>1. row \in [SeqNo -> Record]
  BY RowType
<1>2. Open \in CallStatus /\ Answer("stale", NO_HANDLER) \in CallStatus
  BY DEF Open, Answer, CallStatus, Handler
<1>3. row[s].driver \in Handler
  BY <1>1 DEF Record
<1>4. CASE TrackRpcStale(c, s, a, fi)
  <2>1. StaleBeforeOnArrival(c, fi) \in Watermark
    BY DEF StaleBeforeOnArrival, TypeOK, Watermark
  <2> QED BY <1>2, <1>4, <2>1 DEF TypeOK, TrackRpcStale, HeardFrom
<1>5. CASE TrackRpcNew(c, s, a, fi)
  <2>1. [state |-> "IN_PROGRESS", driver |-> a,
         ongoing |-> {[handler |-> a, call |-> a]}, aged |-> FALSE] \in Record
    BY DEF Record, Ongoing, Handler
  <2>2. records' \in [Client -> [SeqNo -> Record]]
    BY <1>1, <1>5, <2>1 DEF TypeOK, TrackRpcNew
  <2> QED BY <1>2, <1>5, <2>2, LookupType DEF TypeOK, TrackRpcNew
<1>6. CASE TrackRpcCompleted(c, s, a, fi)
  <2>1. [row EXCEPT ![s].aged = FALSE] \in [SeqNo -> Record]
    BY <1>1 DEF Record
  <2>2. records' \in [Client -> [SeqNo -> Record]]
    BY <1>6, <2>1 DEF TypeOK, TrackRpcCompleted
  <2>3. Answer("success", row[s].driver) \in CallStatus
    BY <1>3 DEF Answer, CallStatus
  <2>4. calls' \in [Client -> [SeqNo -> [AttemptNo -> CallStatus]]]
    BY <1>6, <2>3 DEF TypeOK, TrackRpcCompleted
  <2> QED BY <1>6, <2>2, <2>4, LookupType DEF TypeOK, TrackRpcCompleted
<1>7. CASE TrackRpcInProgress(c, s, a, fi)
  <2>1. [row EXCEPT ![s].aged = FALSE,
                    ![s].ongoing = @ \cup {[handler |-> NO_HANDLER, call |-> a]}]
          \in [SeqNo -> Record]
    <3>1. [handler |-> NO_HANDLER, call |-> a] \in Ongoing
      BY DEF Ongoing, Handler
    <3>2. row[s].ongoing \cup {[handler |-> NO_HANDLER, call |-> a]}
            \in SUBSET Ongoing
      BY <1>1, <3>1 DEF Record
    <3> QED BY <1>1, <3>2 DEF Record
  <2>2. records' \in [Client -> [SeqNo -> Record]]
    BY <1>7, <2>1 DEF TypeOK, TrackRpcInProgress
  <2> QED BY <1>2, <1>7, <2>2, LookupType DEF TypeOK, TrackRpcInProgress
<1> QED BY <1>4, <1>5, <1>6, <1>7 DEF TrackRpc

LEMMA RespondType ==
  ASSUME TypeOK, NEW c \in Client, NEW s \in SeqNo, NEW a \in AttemptNo,
         Respond(c, s, a)
  PROVE  TypeOK'
<1> DEFINE handled == HandledBy(a, records[c][s])
<1>1. records[c][s] \in Record
  BY DEF TypeOK
<1>2. /\ Completed(records[c][s], handled) \in Record
      /\ Failed(records[c][s], handled) \in Record
  BY <1>1 DEF Completed, Failed, Record, NoRecord, Handler
<1>3. /\ Answer("success", a) \in CallStatus
      /\ Answer("failure", a) \in CallStatus
  BY DEF Answer, CallStatus, Handler
<1>4. CASE RecordCompletionAndRespond(c, s, a)
  <2>1. records' \in [Client -> [SeqNo -> Record]]
    BY <1>2, <1>4 DEF TypeOK, RecordCompletionAndRespond
  <2>2. calls' \in [Client -> [SeqNo -> [AttemptNo -> CallStatus]]]
    BY <1>3, <1>4 DEF TypeOK, RecordCompletionAndRespond, AnswerAll
  <2> QED BY <1>4, <2>1, <2>2 DEF TypeOK, RecordCompletionAndRespond
<1>5. CASE FailAndRespond(c, s, a)
  <2>1. records' \in [Client -> [SeqNo -> Record]]
    BY <1>2, <1>5 DEF TypeOK, FailAndRespond
  <2>2. calls' \in [Client -> [SeqNo -> [AttemptNo -> CallStatus]]]
    BY <1>3, <1>5 DEF TypeOK, FailAndRespond, AnswerAll
  <2> QED BY <1>5, <2>1, <2>2 DEF TypeOK, FailAndRespond
<1> QED BY <1>4, <1>5 DEF Respond

LEMMA TimeType ==
  ASSUME TypeOK,
         \/ \E c \in Client : ClientFallsSilent(c)
         \/ \E c \in Client, s \in SeqNo : RecordAges(c, s)
         \/ GCResults
  PROVE  TypeOK'
<1>1. CASE \E c \in Client : ClientFallsSilent(c)
  BY <1>1 DEF TypeOK, ClientFallsSilent
<1>2. CASE \E c \in Client, s \in SeqNo : RecordAges(c, s)
  <2> PICK c \in Client, s \in SeqNo : RecordAges(c, s)
    BY <1>2
  <2>0. records[c][s] \in Record
    BY DEF TypeOK
  <2>1. [records[c][s] EXCEPT !.aged = TRUE] \in Record
    BY <2>0 DEF Record
  <2>2. records' \in [Client -> [SeqNo -> Record]]
    BY <2>1 DEF TypeOK, RecordAges
  <2> QED BY <2>2 DEF TypeOK, RecordAges
<1>3. CASE GCResults
  <2>1. records' \in [Client -> [SeqNo -> Record]]
    BY <1>3, RowType DEF GCResults
  <2>2. staleBefore' \in [Client -> Watermark]
    BY <1>3 DEF GCResults, Watermark
  <2> QED BY <1>3, <2>1, <2>2 DEF TypeOK, GCResults
<1> QED BY <1>1, <1>2, <1>3

\* Every variable keeps its type.
THEOREM TypeCorrect == Spec => []TypeOK
<1>1. TypeOK /\ [Next]_vars => TypeOK'
  <2> SUFFICES ASSUME TypeOK, [Next]_vars PROVE TypeOK'
    OBVIOUS
  <2>1. CASE UNCHANGED vars
    BY <2>1 DEF TypeOK, vars
  <2> QED BY <2>1, TrackRpcType, RespondType, TimeType DEF Next
<1> QED BY TypeInit, <1>1, PTL DEF Spec

-----------------------------------------------------------------------------
(* Preservation of the inductive invariant, one lemma per kind of step.    *)

LEMMA InitIInv == Init => IInv
<1> SUFFICES ASSUME Init PROVE IInv
  OBVIOUS
<1>1. TypeOK
  BY TypeInit
<1>2. Absent # Open
  BY DEF Absent, Open, Answer
<1>3. ASSUME NEW c \in Client, NEW s \in SeqNo
      PROVE  RpcInv(c, s)
  BY <1>2 DEF Init, RpcInv, NoRecord
<1> QED BY <1>1, <1>3 DEF IInv

\* A step that leaves an RPC alone, or collects its finished record and raises
\* the watermark past it.
Untouched(c, s) ==
  /\ recorded'[c][s] = recorded[c][s]
  /\ \A a \in AttemptNo :
       /\ calls'[c][s][a] = Open <=> calls[c][s][a] = Open
       /\ <<c, s, a>> \in running' <=> <<c, s, a>> \in running

SurvivesOrCollected(c, s) ==
  \/ /\ records'[c][s] = records[c][s]
     /\ records[c][s].state # "NONE" => staleBefore'[c] <= s
  \/ /\ records'[c][s] = NoRecord
     /\ records[c][s].state = "COMPLETED"
     /\ s < staleBefore'[c]

StillKnown(c) ==
  c \in known => c \in known' /\ staleBefore[c] <= staleBefore'[c]

LEMMA ElsewhereHolds ==
  ASSUME IInv, TypeOK', NEW c \in Client, NEW s \in SeqNo,
         Untouched(c, s), SurvivesOrCollected(c, s), StillKnown(c)
  PROVE  RpcInv(c, s)'
<1>0. TypeOK /\ RpcInv(c, s)
  BY DEF IInv
<1>1. staleBefore[c] \in Int /\ staleBefore'[c] \in Int /\ s \in Int
  <2>1. staleBefore[c] \in Watermark /\ staleBefore'[c] \in Watermark
    BY <1>0 DEF TypeOK
  <2>2. s \in Int
    BY SeqNoAssumption
  <2> QED BY <2>1, <2>2, WatermarkIsInt
<1>2. CASE /\ records'[c][s] = records[c][s]
           /\ records[c][s].state # "NONE" => staleBefore'[c] <= s
  <2>1. records[c][s].state = "IN_PROGRESS" =>
          <<c, s, records[c][s].driver>> \in running'
    <3>1. records[c][s].state = "IN_PROGRESS" =>
            /\ <<c, s, records[c][s].driver>> \in running
            /\ records[c][s].driver \in AttemptNo
      BY <1>0 DEF RpcInv, TypeOK
    <3> QED BY <3>1 DEF Untouched
  <2>2. \A a \in AttemptNo : calls'[c][s][a] = Open
                              <=> \E rpc \in records[c][s].ongoing : rpc.call = a
    BY <1>0 DEF RpcInv, Untouched
  <2>3. records[c][s].state = "NONE" /\ recorded[c][s] # {} =>
          c \in known' /\ s < staleBefore'[c]
    BY <1>0, <1>1 DEF RpcInv, StillKnown
  <2> QED BY <1>0, <1>2, <2>1, <2>2, <2>3 DEF RpcInv, Untouched, StillKnown
<1>3. CASE /\ records'[c][s] = NoRecord
           /\ records[c][s].state = "COMPLETED"
           /\ s < staleBefore'[c]
  <2>1. /\ NoRecord.state = "NONE" /\ NoRecord.ongoing = {}
        /\ c \in known' /\ records[c][s].ongoing = {}
    BY <1>0, <1>3 DEF NoRecord, RpcInv, StillKnown
  <2>2. \A a \in AttemptNo : calls'[c][s][a] # Open
    BY <1>0, <2>1 DEF RpcInv, Untouched
  <2>3. \A a \in AttemptNo : <<c, s, a>> \notin running'
    BY <1>0, <1>3 DEF RpcInv, Untouched
  <2>4. \A a, b \in recorded'[c][s] : a = b
    BY <1>0 DEF RpcInv, Untouched
  <2> QED BY <1>3, <2>1, <2>2, <2>3, <2>4 DEF RpcInv
<1> QED BY <1>2, <1>3 DEF SurvivesOrCollected

\* What a lookup leaves behind: only finished RPCs below the watermark were
\* collected, everything else, the record looked for included, is untouched.
LEMMA LookupEffect ==
  ASSUME IInv, NEW c \in Client, NEW s \in SeqNo, NEW a \in AttemptNo,
         NEW fi \in SeqNo,
         Lookup(c, s, a, fi, DeletedPrefix(c, DoneBefore(c, fi)))
  PROVE  LET row == WithoutRecords(c, DeletedPrefix(c, DoneBefore(c, fi)))
         IN  /\ c \in known' /\ known \subseteq known'
             /\ staleBefore' = [staleBefore EXCEPT ![c] = staleBefore'[c]]
             /\ staleBefore'[c] <= s
             /\ c \in known => staleBefore[c] <= staleBefore'[c]
             /\ row \in [SeqNo -> Record]
             /\ row[s] = records[c][s]
             /\ \A t \in SeqNo :
                  \/ row[t] = records[c][t] /\ (row[t].state # "NONE"
                                                => staleBefore'[c] <= t)
                  \/ /\ row[t] = NoRecord
                     /\ records[c][t].state = "COMPLETED"
                     /\ t < staleBefore'[c]
<1> DEFINE D == DeletedPrefix(c, DoneBefore(c, fi))
           old == StaleBeforeOnArrival(c, fi)
           row == WithoutRecords(c, D)
<1> SUFFICES /\ c \in known' /\ known \subseteq known'
             /\ staleBefore' = [staleBefore EXCEPT ![c] = staleBefore'[c]]
             /\ staleBefore'[c] <= s
             /\ c \in known => staleBefore[c] <= staleBefore'[c]
             /\ row \in [SeqNo -> Record]
             /\ row[s] = records[c][s]
             /\ \A t \in SeqNo :
                  \/ row[t] = records[c][t] /\ (row[t].state # "NONE"
                                                => staleBefore'[c] <= t)
                  \/ /\ row[t] = NoRecord
                     /\ records[c][t].state = "COMPLETED"
                     /\ t < staleBefore'[c]
  OBVIOUS
<1>1. c \in known' /\ known \subseteq known'
  BY DEF Lookup, HeardFrom
<1>2. PICK n \in Watermark :
        /\ IsWatermarkAfter(n, old, D)
        /\ staleBefore' = [staleBefore EXCEPT ![c] = n]
  BY DEF Lookup
<1>3. TypeOK
  BY DEF IInv
<1>4. staleBefore'[c] = n
  BY <1>2, <1>3 DEF TypeOK
<1>5. n \in Int /\ old \in Int /\ s \in Int /\ fi \in Int
  <2>1. n \in Int /\ s \in Int /\ fi \in Int
    BY WatermarkIsInt, SeqNoAssumption
  <2>2. staleBefore[c] \in Int
    BY <1>3, WatermarkIsInt DEF TypeOK
  <2> QED BY <2>1, <2>2 DEF StaleBeforeOnArrival
<1>6. old <= s /\ fi <= s
  BY DEF Lookup
<1>7. \A t \in Tracked(c) : old <= t
  BY DEF IInv, RpcInv, Tracked, StaleBeforeOnArrival
<1>8. \A t \in Tracked(c) : IF t \in D THEN t < n /\ t \in DoneBefore(c, fi)
                                       ELSE n <= t
  BY <1>2, <1>5, <1>7, PrefixIsBelowWatermark
<1>9. \A d \in D : d \in Int /\ d < fi
  <2> TAKE d \in D
  <2>1. d \in Tracked(c) /\ d \in Int
    BY SeqNoAssumption DEF DeletedPrefix, Tracked
  <2>2. d \in DoneBefore(c, fi)
    BY <2>1 DEF DeletedPrefix
  <2> QED BY <2>1, <2>2 DEF DoneBefore
<1>10. s \notin D
  BY <1>5, <1>6, <1>9
<1>11. n <= s
  <2>1. CASE n = old
    BY <1>6, <2>1
  <2>2. CASE n # old
    <3>1. PICK d \in D : n = d + 1
      BY <1>2, <2>2 DEF IsWatermarkAfter
    <3> QED BY <1>5, <1>6, <1>9, <3>1
  <2> QED BY <2>1, <2>2
<1>12. c \in known => staleBefore[c] <= n
  BY <1>2 DEF IsWatermarkAfter, StaleBeforeOnArrival
<1>13. row \in [SeqNo -> Record] /\ row[s] = records[c][s]
  BY <1>3, <1>10, RowType DEF WithoutRecords
<1>14. ASSUME NEW t \in SeqNo
       PROVE  \/ row[t] = records[c][t] /\ (row[t].state # "NONE" => n <= t)
              \/ /\ row[t] = NoRecord
                 /\ records[c][t].state = "COMPLETED"
                 /\ t < n
  <2>1. CASE t \in D
    <3>1. t \in Tracked(c) /\ t \in DoneBefore(c, fi) /\ t < n
      BY <1>8, <2>1 DEF DeletedPrefix
    <3>2. records[c][t].state \in {"NONE", "IN_PROGRESS", "COMPLETED"}
      BY <1>3 DEF TypeOK, Record
    <3> QED BY <2>1, <3>1, <3>2 DEF Tracked, DoneBefore, WithoutRecords
  <2>2. CASE t \notin D
    <3>1. row[t] = records[c][t]
      BY <2>2 DEF WithoutRecords
    <3>2. records[c][t].state # "NONE" => n <= t
      BY <1>8, <2>2 DEF Tracked
    <3> QED BY <3>1, <3>2
  <2> QED BY <2>1, <2>2
<1> QED BY <1>1, <1>2, <1>4, <1>11, <1>12, <1>13, <1>14

LEMMA StalePreserves ==
  ASSUME IInv, NEW c \in Client, NEW s \in SeqNo, NEW a \in AttemptNo,
         NEW fi \in SeqNo, TrackRpcStale(c, s, a, fi)
  PROVE  IInv'
<1>1. TypeOK /\ TypeOK'
  BY TrackRpcType DEF IInv, TrackRpc
<1> SUFFICES ASSUME NEW d \in Client, NEW t \in SeqNo PROVE RpcInv(d, t)'
  BY <1>1 DEF IInv
<1>2. calls[c][s][a] # Open /\ calls'[c][s][a] # Open
  BY <1>1 DEF TrackRpcStale, TypeOK, Absent, Open, Answer
<1>3. Untouched(d, t)
  BY <1>1, <1>2 DEF TrackRpcStale, TypeOK, Untouched
<1>4. staleBefore[d] \in Int
  BY <1>1, WatermarkIsInt DEF TypeOK
<1>5. StillKnown(d)
  BY <1>1, <1>4 DEF TrackRpcStale, TypeOK, StaleBeforeOnArrival, HeardFrom, StillKnown
<1>6. SurvivesOrCollected(d, t)
  <2>1. records[d][t].state # "NONE" => d \in known /\ staleBefore[d] <= t
    BY DEF IInv, RpcInv
  <2>2. d \in known => staleBefore'[d] = staleBefore[d]
    BY <1>1 DEF TrackRpcStale, TypeOK, StaleBeforeOnArrival
  <2>3. records' = records
    BY DEF TrackRpcStale
  <2> QED BY <2>1, <2>2, <2>3 DEF SurvivesOrCollected
<1> QED BY <1>1, <1>3, <1>5, <1>6, ElsewhereHolds

\* What LookupEffect says of every RPC but the one looked up.
LEMMA LookupElsewhere ==
  ASSUME IInv, NEW c \in Client, NEW s \in SeqNo, NEW a \in AttemptNo,
         NEW fi \in SeqNo,
         Lookup(c, s, a, fi, DeletedPrefix(c, DoneBefore(c, fi))),
         NEW d \in Client, NEW t \in SeqNo, <<d, t>> # <<c, s>>,
         records'[d][t] =
           IF d = c
           THEN WithoutRecords(c, DeletedPrefix(c, DoneBefore(c, fi)))[t]
           ELSE records[d][t]
  PROVE  SurvivesOrCollected(d, t) /\ StillKnown(d)
<1> DEFINE row == WithoutRecords(c, DeletedPrefix(c, DoneBefore(c, fi)))
<1>1. TypeOK /\ RpcInv(d, t)
  BY DEF IInv
<1>2. /\ c \in known' /\ known \subseteq known'
      /\ staleBefore' = [staleBefore EXCEPT ![c] = staleBefore'[c]]
      /\ c \in known => staleBefore[c] <= staleBefore'[c]
      /\ \/ row[t] = records[c][t] /\ (row[t].state # "NONE"
                                       => staleBefore'[c] <= t)
         \/ /\ row[t] = NoRecord
            /\ records[c][t].state = "COMPLETED"
            /\ t < staleBefore'[c]
  BY LookupEffect
<1>3. staleBefore[d] \in Int
  BY <1>1, WatermarkIsInt DEF TypeOK
<1>4. CASE d = c
  BY <1>2, <1>4 DEF SurvivesOrCollected, StillKnown
<1>5. CASE d # c
  <2>1. staleBefore'[d] = staleBefore[d]
    BY <1>1, <1>2, <1>5 DEF TypeOK
  <2>2. records[d][t].state # "NONE" => staleBefore[d] <= t
    BY <1>1 DEF RpcInv
  <2> QED BY <1>2, <1>3, <1>5, <2>1, <2>2 DEF SurvivesOrCollected, StillKnown
<1> QED BY <1>4, <1>5

LEMMA NewPreserves ==
  ASSUME IInv, NEW c \in Client, NEW s \in SeqNo, NEW a \in AttemptNo,
         NEW fi \in SeqNo, TrackRpcNew(c, s, a, fi)
  PROVE  IInv'
<1> DEFINE row == WithoutRecords(c, DeletedPrefix(c, DoneBefore(c, fi)))
           fresh == [state |-> "IN_PROGRESS", driver |-> a,
                     ongoing |-> {[handler |-> a, call |-> a]}, aged |-> FALSE]
<1>1. TypeOK /\ TypeOK' /\ RpcInv(c, s)
  BY TrackRpcType DEF IInv, TrackRpc
<1>2. /\ Lookup(c, s, a, fi, DeletedPrefix(c, DoneBefore(c, fi)))
      /\ row[s].state = "NONE"
      /\ records' = [records EXCEPT ![c] = [row EXCEPT ![s] = fresh]]
      /\ running' = running \cup {<<c, s, a>>}
      /\ calls' = [calls EXCEPT ![c][s][a] = Open]
      /\ recorded' = recorded
  BY DEF TrackRpcNew
<1>3. /\ c \in known' /\ staleBefore'[c] <= s
      /\ c \in known => staleBefore[c] <= staleBefore'[c]
      /\ row \in [SeqNo -> Record]
      /\ row[s] = records[c][s]
  BY <1>2, LookupEffect
<1>4. records'[c][s] = fresh
  BY <1>1, <1>2, <1>3 DEF TypeOK
<1>5. ASSUME NEW d \in Client, NEW t \in SeqNo, <<d, t>> # <<c, s>>
      PROVE  RpcInv(d, t)'
  <2>1. records'[d][t] = IF d = c THEN row[t] ELSE records[d][t]
    BY <1>1, <1>2, <1>3, <1>5 DEF TypeOK
  <2>2. SurvivesOrCollected(d, t) /\ StillKnown(d)
    BY <1>2, <1>5, <2>1, LookupElsewhere
  <2>3. Untouched(d, t)
    BY <1>1, <1>2, <1>5 DEF TypeOK, Untouched
  <2> QED BY <1>1, <2>2, <2>3, ElsewhereHolds
<1>6. RpcInv(c, s)'
  <2>1. \A b \in AttemptNo : calls[c][s][b] # Open /\ <<c, s, b>> \notin running
    BY <1>1, <1>2, <1>3 DEF RpcInv
  <2>2. \A b \in AttemptNo : calls'[c][s][b] = Open <=> b = a
    <3>1. calls \in [Client -> [SeqNo -> [AttemptNo -> CallStatus]]]
      BY <1>1 DEF TypeOK
    <3>2. \A b \in AttemptNo : calls'[c][s][b] = IF b = a THEN Open ELSE calls[c][s][b]
      BY <1>2, <3>1
    <3> QED BY <2>1, <3>2
  <2>3. \A b \in AttemptNo : <<c, s, b>> \in running' <=> b = a
    BY <1>2, <2>1
  <2>4. recorded[c][s] = {}
    <3>1. s \in Int /\ staleBefore[c] \in Int /\ staleBefore'[c] \in Int
      <4>1. staleBefore[c] \in Watermark /\ staleBefore'[c] \in Watermark
        BY <1>1 DEF TypeOK
      <4>2. s \in Int
        BY SeqNoAssumption
      <4> QED BY <4>1, <4>2, WatermarkIsInt
    <3> QED BY <1>1, <1>2, <1>3, <3>1 DEF RpcInv
  <2>5. /\ fresh.state = "IN_PROGRESS" /\ fresh.driver = a
        /\ \A rpc \in fresh.ongoing : rpc.handler = a /\ rpc.call = a
        /\ \E rpc \in fresh.ongoing : rpc.call = a
    <3>1. /\ fresh.state = "IN_PROGRESS" /\ fresh.driver = a
          /\ fresh.ongoing = {[handler |-> a, call |-> a]}
      OBVIOUS
    <3>2. /\ [handler |-> a, call |-> a].handler = a
          /\ [handler |-> a, call |-> a].call = a
      OBVIOUS
    <3> HIDE DEF fresh
    <3> QED BY <3>1, <3>2
  <2>6. \A b \in AttemptNo :
          calls'[c][s][b] = Open <=> \E rpc \in fresh.ongoing : rpc.call = b
    BY <2>2, <2>5
  <2> QED BY <1>2, <1>3, <1>4, <2>3, <2>4, <2>5, <2>6 DEF RpcInv
<1> QED BY <1>1, <1>5, <1>6 DEF IInv

LEMMA CompletedPreserves ==
  ASSUME IInv, NEW c \in Client, NEW s \in SeqNo, NEW a \in AttemptNo,
         NEW fi \in SeqNo, TrackRpcCompleted(c, s, a, fi)
  PROVE  IInv'
<1> DEFINE row == WithoutRecords(c, DeletedPrefix(c, DoneBefore(c, fi)))
           found == [row[s] EXCEPT !.aged = FALSE]
<1>1. TypeOK /\ TypeOK' /\ RpcInv(c, s)
  BY TrackRpcType DEF IInv, TrackRpc
<1>2. /\ Lookup(c, s, a, fi, DeletedPrefix(c, DoneBefore(c, fi)))
      /\ row[s].state = "COMPLETED"
      /\ records' = [records EXCEPT ![c] = [row EXCEPT ![s].aged = FALSE]]
      /\ calls' = [calls EXCEPT ![c][s][a] = Answer("success", row[s].driver)]
      /\ calls[c][s][a] = Absent
      /\ running' = running
      /\ recorded' = recorded
  BY DEF TrackRpcCompleted, Lookup
<1>3. /\ c \in known' /\ staleBefore'[c] <= s
      /\ row \in [SeqNo -> Record]
      /\ row[s] = records[c][s]
  BY <1>2, LookupEffect
<1>4. /\ records'[c][s].state = records[c][s].state
      /\ records'[c][s].driver = records[c][s].driver
      /\ records'[c][s].ongoing = records[c][s].ongoing
  <2>1. row[s] \in Record
    BY <1>3
  <2>2. records'[c][s] = found
    BY <1>1, <1>2, <1>3 DEF TypeOK
  <2> QED BY <1>3, <2>1, <2>2 DEF Record
<1>5. \A d \in Client, t \in SeqNo, b \in AttemptNo :
        calls'[d][t][b] = Open <=> calls[d][t][b] = Open
  <2>1. Absent # Open /\ Answer("success", row[s].driver) # Open
    BY DEF Absent, Open, Answer
  <2> QED BY <1>1, <1>2, <2>1 DEF TypeOK
<1>6. ASSUME NEW d \in Client, NEW t \in SeqNo, <<d, t>> # <<c, s>>
      PROVE  RpcInv(d, t)'
  <2>1. records'[d][t] = IF d = c THEN row[t] ELSE records[d][t]
    BY <1>1, <1>2, <1>3, <1>6 DEF TypeOK
  <2>2. SurvivesOrCollected(d, t) /\ StillKnown(d)
    BY <1>2, <1>6, <2>1, LookupElsewhere
  <2>3. Untouched(d, t)
    BY <1>2, <1>5 DEF Untouched
  <2> QED BY <1>1, <2>2, <2>3, ElsewhereHolds
<1>7. RpcInv(c, s)'
  BY <1>1, <1>2, <1>3, <1>4, <1>5 DEF RpcInv
<1> QED BY <1>1, <1>6, <1>7 DEF IInv

LEMMA InProgressPreserves ==
  ASSUME IInv, NEW c \in Client, NEW s \in SeqNo, NEW a \in AttemptNo,
         NEW fi \in SeqNo, TrackRpcInProgress(c, s, a, fi)
  PROVE  IInv'
<1> DEFINE row == WithoutRecords(c, DeletedPrefix(c, DoneBefore(c, fi)))
           entry == [handler |-> NO_HANDLER, call |-> a]
<1>1. TypeOK /\ TypeOK' /\ RpcInv(c, s)
  BY TrackRpcType DEF IInv, TrackRpc
<1>2. /\ Lookup(c, s, a, fi, DeletedPrefix(c, DoneBefore(c, fi)))
      /\ row[s].state = "IN_PROGRESS"
      /\ records' = [records EXCEPT ![c] = [row EXCEPT
            ![s].aged = FALSE, ![s].ongoing = @ \cup {entry}]]
      /\ calls' = [calls EXCEPT ![c][s][a] = Open]
      /\ running' = running
      /\ recorded' = recorded
  BY DEF TrackRpcInProgress
<1>3. /\ c \in known' /\ staleBefore'[c] <= s
      /\ row \in [SeqNo -> Record]
      /\ row[s] = records[c][s]
  BY <1>2, LookupEffect
<1>4. /\ records'[c][s].state = "IN_PROGRESS"
      /\ records'[c][s].driver = records[c][s].driver
      /\ records'[c][s].ongoing = records[c][s].ongoing \cup {entry}
  <2>1. row[s] \in Record
    BY <1>3
  <2> QED BY <1>1, <1>2, <1>3, <2>1 DEF TypeOK, Record
<1>5. ASSUME NEW d \in Client, NEW t \in SeqNo, <<d, t>> # <<c, s>>
      PROVE  RpcInv(d, t)'
  <2>1. records'[d][t] = IF d = c THEN row[t] ELSE records[d][t]
    BY <1>1, <1>2, <1>3, <1>5 DEF TypeOK
  <2>2. SurvivesOrCollected(d, t) /\ StillKnown(d)
    BY <1>2, <1>5, <2>1, LookupElsewhere
  <2>3. Untouched(d, t)
    BY <1>1, <1>2, <1>5 DEF TypeOK, Untouched
  <2> QED BY <1>1, <2>2, <2>3, ElsewhereHolds
<1>6. RpcInv(c, s)'
  <2>1. \A b \in AttemptNo :
          calls'[c][s][b] = Open <=> calls[c][s][b] = Open \/ b = a
    BY <1>1, <1>2 DEF TypeOK
  <2>2. \A b \in AttemptNo :
          (\E rpc \in records'[c][s].ongoing : rpc.call = b)
          <=> (\E rpc \in records[c][s].ongoing : rpc.call = b) \/ b = a
    <3>1. entry.call = a
      OBVIOUS
    <3> HIDE DEF entry
    <3> QED BY <1>4, <3>1
  <2>3. \A rpc \in records'[c][s].ongoing :
          rpc.handler \in {records'[c][s].driver, NO_HANDLER}
    BY <1>1, <1>4 DEF RpcInv
  <2>4. \A b \in AttemptNo :
          calls'[c][s][b] = Open
          <=> \E rpc \in records'[c][s].ongoing : rpc.call = b
    BY <1>1, <2>1, <2>2 DEF RpcInv
  <2> QED BY <1>1, <1>2, <1>3, <1>4, <2>3, <2>4 DEF RpcInv
<1> QED BY <1>1, <1>5, <1>6 DEF IInv

LEMMA RespondPreserves ==
  ASSUME IInv, NEW c \in Client, NEW s \in SeqNo, NEW a \in AttemptNo,
         Respond(c, s, a)
  PROVE  IInv'
<1> DEFINE record == records[c][s]
           handled == HandledBy(a, record)
<1>1. TypeOK /\ TypeOK' /\ RpcInv(c, s)
  BY RespondType DEF IInv
<1>2. /\ <<c, s, a>> \in running
      /\ running' = running \ {<<c, s, a>>}
      /\ known' = known /\ staleBefore' = staleBefore
  BY DEF Respond, RecordCompletionAndRespond, FailAndRespond
<1>3. record \in Record /\ record.state = "IN_PROGRESS" /\ record.driver = a
  BY <1>1, <1>2 DEF RpcInv, TypeOK
<1>4. handled = record.ongoing
  BY <1>1, <1>3 DEF RpcInv, HandledBy, MustHandleRpc
<1>5. PICK answer \in CallStatus :
        /\ answer # Open
        /\ AnswerAll(c, s, handled, answer)
  <2>1. /\ Answer("success", a) \in CallStatus \ {Open}
        /\ Answer("failure", a) \in CallStatus \ {Open}
    BY DEF Answer, CallStatus, Handler, Open
  <2> QED BY <2>1 DEF Respond, RecordCompletionAndRespond, FailAndRespond
<1>6. \A b \in AttemptNo : calls'[c][s][b] # Open
  <2> SUFFICES ASSUME NEW b \in AttemptNo PROVE calls'[c][s][b] # Open
    OBVIOUS
  <2>1. calls'[c][s][b] = IF \E rpc \in record.ongoing : rpc.call = b
                          THEN answer ELSE calls[c][s][b]
    BY <1>1, <1>4, <1>5 DEF AnswerAll, TypeOK
  <2> QED BY <1>1, <1>5, <2>1 DEF RpcInv
<1>7. ASSUME NEW d \in Client, NEW t \in SeqNo, <<d, t>> # <<c, s>>
      PROVE  RpcInv(d, t)'
  <2>1. records'[d][t] = records[d][t] /\ recorded'[d][t] = recorded[d][t]
    BY <1>1, <1>7 DEF TypeOK, Respond, RecordCompletionAndRespond, FailAndRespond
  <2>2. \A b \in AttemptNo : calls'[d][t][b] = calls[d][t][b]
    BY <1>1, <1>5, <1>7 DEF TypeOK, AnswerAll
  <2>3. Untouched(d, t)
    BY <1>2, <1>7, <2>1, <2>2 DEF Untouched
  <2>4. RpcInv(d, t) /\ staleBefore[d] \in Int
    BY <1>1, WatermarkIsInt DEF IInv, TypeOK
  <2>5. SurvivesOrCollected(d, t) /\ StillKnown(d)
    BY <1>2, <2>1, <2>4 DEF RpcInv, SurvivesOrCollected, StillKnown
  <2> QED BY <1>1, <2>3, <2>5, ElsewhereHolds
<1>8. CASE RecordCompletionAndRespond(c, s, a)
  <2>1. records'[c][s] = Completed(record, handled)
    BY <1>1, <1>8 DEF TypeOK, RecordCompletionAndRespond
  <2>2. /\ records'[c][s].state = "COMPLETED"
        /\ records'[c][s].driver = a
        /\ records'[c][s].ongoing = {}
    BY <1>3, <1>4, <2>1 DEF Completed, Record
  <2>3. recorded'[c][s] = {a}
    BY <1>1, <1>3, <1>8 DEF TypeOK, RpcInv, RecordCompletionAndRespond
  <2>4. \A b \in AttemptNo : <<c, s, b>> \notin running'
    BY <1>1, <1>2, <1>3 DEF RpcInv
  <2>5. RpcInv(c, s)'
    BY <1>1, <1>2, <1>3, <1>6, <2>2, <2>3, <2>4 DEF RpcInv
  <2> QED BY <1>1, <1>7, <2>5 DEF IInv
<1>9. CASE FailAndRespond(c, s, a)
  <2>1. records'[c][s] = NoRecord
    BY <1>1, <1>3, <1>4, <1>9 DEF TypeOK, FailAndRespond, Failed
  <2>2. recorded'[c][s] = {}
    BY <1>1, <1>3, <1>9 DEF RpcInv, FailAndRespond
  <2>3. \A b \in AttemptNo : <<c, s, b>> \notin running'
    BY <1>1, <1>2, <1>3 DEF RpcInv
  <2>4. NoRecord.state = "NONE" /\ NoRecord.ongoing = {}
    BY DEF NoRecord
  <2>5. RpcInv(c, s)'
    BY <1>6, <2>1, <2>2, <2>3, <2>4 DEF RpcInv
  <2> QED BY <1>1, <1>7, <2>5 DEF IInv
<1> QED BY <1>8, <1>9 DEF Respond

LEMMA GCPreserves ==
  ASSUME IInv, GCResults
  PROVE  IInv'
<1>1. TypeOK /\ TypeOK'
  BY TimeType DEF IInv
<1> SUFFICES ASSUME NEW c \in Client, NEW s \in SeqNo PROVE RpcInv(c, s)'
  BY <1>1 DEF IInv
<1> DEFINE D == DeletedPrefix(c, Expired(c))
<1>2. RpcInv(c, s) /\ \A t \in SeqNo : RpcInv(c, t)
  BY DEF IInv
<1>3. PICK w \in [Client -> Watermark] :
        /\ IsWatermarkAfter(w[c], staleBefore[c], D)
        /\ staleBefore' = [d \in Client |-> IF d \in Forgotten THEN 0 ELSE w[d]]
  BY DEF GCResults
<1>4. /\ records'[c] = WithoutRecords(c, D)
      /\ known' = known \ Forgotten
      /\ running' = running /\ calls' = calls
      /\ recorded'[c] = IF c \in Forgotten THEN [t \in SeqNo |-> {}]
                                           ELSE recorded[c]
  BY DEF GCResults
<1>5. w[c] \in Int /\ staleBefore[c] \in Int /\ s \in Int
  <2>1. w[c] \in Watermark /\ staleBefore[c] \in Watermark
    BY <1>1 DEF TypeOK
  <2>2. s \in Int
    BY SeqNoAssumption
  <2> QED BY <2>1, <2>2, WatermarkIsInt
<1>6. \A t \in Tracked(c) : staleBefore[c] <= t
  BY <1>2 DEF RpcInv, Tracked
<1>7. \A t \in Tracked(c) : IF t \in D THEN t < w[c] /\ t \in Expired(c)
                                       ELSE w[c] <= t
  BY <1>3, <1>5, <1>6, PrefixIsBelowWatermark
<1>8. records[c][s].state \in {"NONE", "IN_PROGRESS", "COMPLETED"}
  BY <1>1 DEF TypeOK, Record
<1>9. D \subseteq Tracked(c)
  BY DEF DeletedPrefix
<1>10. CASE c \notin Forgotten
  <2>1. staleBefore'[c] = w[c] /\ staleBefore[c] <= w[c]
    BY <1>3, <1>10 DEF IsWatermarkAfter
  <2>2. Untouched(c, s)
    BY <1>4, <1>10 DEF Untouched
  <2>3. StillKnown(c)
    BY <1>4, <1>10, <2>1 DEF StillKnown
  <2>4. SurvivesOrCollected(c, s)
    <3>1. CASE s \in D
      BY <1>4, <1>7, <1>8, <1>9, <2>1, <3>1
      DEF SurvivesOrCollected, WithoutRecords, Tracked, Expired
    <3>2. CASE s \notin D
      BY <1>4, <1>7, <2>1, <3>2 DEF SurvivesOrCollected, WithoutRecords, Tracked
    <3> QED BY <3>1, <3>2
  <2> QED BY <1>1, <2>2, <2>3, <2>4, ElsewhereHolds
<1>11. CASE c \in Forgotten
  <2>1. \A t \in Tracked(c) : t \in Expired(c)
    BY <1>11 DEF Forgotten, Expired, Tracked
  <2>2. D = Tracked(c)
    BY <2>1 DEF DeletedPrefix
  <2>3. records'[c][s].state = "NONE" /\ records'[c][s].ongoing = {}
    <3>1. records[c][s].state = "NONE" => records[c][s].ongoing = {}
      BY <1>2 DEF RpcInv
    <3> QED BY <1>4, <2>2, <3>1 DEF WithoutRecords, Tracked, NoRecord
  <2>4. recorded'[c][s] = {}
    BY <1>4, <1>11
  <2>5. records[c][s].state # "IN_PROGRESS"
    BY <1>11 DEF Forgotten
  <2>6. /\ \A a \in AttemptNo : <<c, s, a>> \notin running'
        /\ \A a \in AttemptNo : calls'[c][s][a] # Open
    BY <1>2, <1>4, <2>5 DEF RpcInv
  <2> QED BY <2>3, <2>4, <2>6 DEF RpcInv
<1> QED BY <1>10, <1>11

LEMMA TimePreserves ==
  ASSUME IInv,
         \/ \E c \in Client : ClientFallsSilent(c)
         \/ \E c \in Client, s \in SeqNo : RecordAges(c, s)
         \/ UNCHANGED vars
  PROVE  IInv'
<1>1. TypeOK /\ TypeOK'
  BY TimeType DEF IInv, TypeOK, vars
<1> SUFFICES ASSUME NEW c \in Client, NEW s \in SeqNo PROVE RpcInv(c, s)'
  BY <1>1 DEF IInv
<1>2. RpcInv(c, s)
  BY DEF IInv
<1>3. /\ known' = known /\ staleBefore' = staleBefore /\ running' = running
      /\ calls' = calls /\ recorded' = recorded
  BY DEF ClientFallsSilent, RecordAges, vars
<1>4. /\ records'[c][s].state = records[c][s].state
      /\ records'[c][s].driver = records[c][s].driver
      /\ records'[c][s].ongoing = records[c][s].ongoing
  <2>1. CASE \E d \in Client, t \in SeqNo : RecordAges(d, t)
    <3> PICK d \in Client, t \in SeqNo : RecordAges(d, t)
      BY <2>1
    <3>1. records[c][s] \in Record
      BY <1>1 DEF TypeOK
    <3>2. records'[c][s] \in {records[c][s], [records[c][s] EXCEPT !.aged = TRUE]}
      BY <1>1 DEF TypeOK, RecordAges
    <3> QED BY <3>1, <3>2 DEF Record
  <2>2. CASE records' = records
    BY <2>2
  <2> QED BY <2>1, <2>2 DEF ClientFallsSilent, vars
<1> QED BY <1>2, <1>3, <1>4 DEF RpcInv

LEMMA Inductive == IInv /\ [Next]_vars => IInv'
<1> SUFFICES ASSUME IInv, [Next]_vars PROVE IInv'
  OBVIOUS
<1>1. ASSUME NEW c \in Client, NEW s \in SeqNo, NEW a \in AttemptNo,
             NEW fi \in SeqNo, TrackRpc(c, s, a, fi)
      PROVE  IInv'
  BY <1>1, StalePreserves, NewPreserves, CompletedPreserves, InProgressPreserves
  DEF TrackRpc
<1> QED BY <1>1, RespondPreserves, GCPreserves, TimePreserves DEF Next

\* In every reachable state of the result tracker the inductive invariant holds:
\* what the handlers know of their records is true whatever garbage collection,
\* retries and stale attempts came between.
THEOREM Invariance == Spec => []IInv
BY InitIInv, Inductive, PTL DEF Spec

-----------------------------------------------------------------------------
(* The theorems.                                                           *)

\* While a client is remembered, at most one attempt of each of its RPCs ever
\* records a response.
THEOREM ExecutedAtMostOnce == Spec => []AtMostOnce
BY Invariance, IInvImplies, PTL

\* No collection pulls a record from under the handler that drives it: the
\* assertions of RecordCompletionAndRespond and FailAndRespond cannot fail.
THEOREM HandlersFindTheirRecord == Spec => []HandlerDrivesItsRecord
BY Invariance, IInvImplies, PTL

\* A remembered RPC is never called stale.
THEOREM RecordsAboveWatermark == Spec => []WatermarkBelowRecords
BY Invariance, IInvImplies, PTL

\* No context is lost and none is answered twice.
THEOREM ContextsAreAttached == Spec => []OpenCallsAreAttached
BY Invariance, IInvImplies, PTL

-----------------------------------------------------------------------------
(* Answers carry the recorded response.                                    *)

\* An attempt that is answered with success in this step carries the response
\* that is recorded after it.
CarriesTheRecorded(c, s, a) ==
  /\ calls'[c][s][a].status = "success"
  /\ calls[c][s][a] # calls'[c][s][a]
  => recorded'[c][s] = {calls'[c][s][a].by}

\* TrackRpc changes one call, and answers it with success only from the cache.
LEMMA TrackRpcCarries ==
  ASSUME IInv, NEW c \in Client, NEW s \in SeqNo, NEW a \in AttemptNo,
         NEW fi \in SeqNo, TrackRpc(c, s, a, fi),
         NEW d \in Client, NEW t \in SeqNo, NEW b \in AttemptNo
  PROVE  CarriesTheRecorded(d, t, b)
<1>1. TypeOK /\ RpcInv(c, s)
  BY DEF IInv
<1>2. ASSUME NEW answer, calls' = [calls EXCEPT ![c][s][a] = answer],
             answer.status # "success"
      PROVE  CarriesTheRecorded(d, t, b)
  BY <1>1, <1>2 DEF TypeOK, CarriesTheRecorded
<1>3. Answer("stale", NO_HANDLER).status # "success" /\ Open.status # "success"
  BY DEF Answer, Open
<1>4. CASE TrackRpcCompleted(c, s, a, fi)
  <2> DEFINE row == WithoutRecords(c, DeletedPrefix(c, DoneBefore(c, fi)))
  <2>1. /\ Lookup(c, s, a, fi, DeletedPrefix(c, DoneBefore(c, fi)))
        /\ row[s].state = "COMPLETED"
        /\ calls' = [calls EXCEPT ![c][s][a] = Answer("success", row[s].driver)]
        /\ recorded' = recorded
    BY <1>4 DEF TrackRpcCompleted
  <2>2. row[s] = records[c][s]
    BY <2>1, LookupEffect
  <2>3. recorded'[c][s] = {records[c][s].driver}
    BY <1>1, <2>1, <2>2 DEF RpcInv
  <2>4. Answer("success", records[c][s].driver).by = records[c][s].driver
    BY DEF Answer
  <2>5. /\ calls'[c][s][a] = Answer("success", records[c][s].driver)
        /\ <<d, t, b>> # <<c, s, a>> => calls'[d][t][b] = calls[d][t][b]
    BY <1>1, <2>1, <2>2 DEF TypeOK
  <2> QED BY <2>3, <2>4, <2>5 DEF CarriesTheRecorded
<1> QED BY <1>2, <1>3, <1>4
    DEF TrackRpc, TrackRpcStale, TrackRpcNew, TrackRpcInProgress

\* A handler answers the calls of its own RPC, with the response it records.
LEMMA RespondCarries ==
  ASSUME IInv, NEW c \in Client, NEW s \in SeqNo, NEW a \in AttemptNo,
         Respond(c, s, a),
         NEW d \in Client, NEW t \in SeqNo, NEW b \in AttemptNo
  PROVE  CarriesTheRecorded(d, t, b)
<1>1. TypeOK /\ RpcInv(c, s)
  BY DEF IInv
<1>2. ASSUME NEW handled, NEW answer, AnswerAll(c, s, handled, answer)
      PROVE  \/ calls'[d][t][b] = calls[d][t][b]
             \/ d = c /\ t = s /\ calls'[d][t][b] = answer
  BY <1>1, <1>2 DEF TypeOK, AnswerAll
<1>3. CASE RecordCompletionAndRespond(c, s, a)
  <2>1. recorded'[c][s] = {a}
    BY <1>1, <1>3 DEF TypeOK, RpcInv, RecordCompletionAndRespond
  <2>2. Answer("success", a).by = a
    BY DEF Answer
  <2> QED BY <1>2, <1>3, <2>1, <2>2 DEF CarriesTheRecorded, RecordCompletionAndRespond
<1>4. CASE FailAndRespond(c, s, a)
  <2>1. Answer("failure", a).status # "success"
    BY DEF Answer
  <2> QED BY <1>2, <1>4, <2>1 DEF CarriesTheRecorded, FailAndRespond
<1> QED BY <1>3, <1>4 DEF Respond

LEMMA StepCarries ==
  ASSUME IInv, [Next]_vars,
         NEW d \in Client, NEW t \in SeqNo, NEW b \in AttemptNo
  PROVE  CarriesTheRecorded(d, t, b)
<1>1. ASSUME calls' = calls PROVE CarriesTheRecorded(d, t, b)
  BY <1>1 DEF CarriesTheRecorded
<1>2. CASE Next
  BY <1>1, <1>2, TrackRpcCarries, RespondCarries
  DEF Next, ClientFallsSilent, RecordAges, GCResults
<1>3. CASE UNCHANGED vars
  BY <1>1, <1>3 DEF vars
<1> QED BY <1>2, <1>3

\* Every successful answer, first-hand or from the cache, carries the one
\* response that was recorded for the RPC.
THEOREM AnswersCarryTheRecorded == Spec => SuccessIsTheRecordedResponse
<1>1. IInv /\ [Next]_vars =>
        [\A c \in Client, s \in SeqNo, a \in AttemptNo :
           /\ calls'[c][s][a].status = "success"
           /\ calls[c][s][a] # calls'[c][s][a]
           => recorded'[c][s] = {calls'[c][s][a].by}]_vars
  BY StepCarries DEF CarriesTheRecorded
<1> QED BY <1>1, Invariance, PTL DEF Spec, SuccessIsTheRecordedResponse

-----------------------------------------------------------------------------
(* The protocol.                                                           *)

SysInv == IInv /\ IncompleteInv

-----------------------------------------------------------------------------
(* Facts about the operators.                                              *)

\* The natural numbers are well ordered, so that there is a first incomplete one.
LEMMA FirstIsLeast ==
  ASSUME NEW c \in Client, incomplete[c] \subseteq SeqNo, incomplete[c] # {}
  PROVE  /\ FirstIncomplete(c) \in incomplete[c]
         /\ \A t \in incomplete[c] : FirstIncomplete(c) <= t
<1>1. incomplete[c] \subseteq Nat
  BY SeqNoAssumption
<1>2. PICK s \in incomplete[c] : \A t \in incomplete[c] : ~ (<<t, s>> \in OpToRel(<, Nat))
  BY <1>1, NatLessThanWellFounded, WFMin
<1>3. \A t \in incomplete[c] : ~ (t < s)
  BY <1>1, <1>2 DEF OpToRel
<1>4. \A t \in incomplete[c] : s <= t
  BY <1>1, <1>3
<1> QED BY <1>4 DEF FirstIncomplete

LEMMA InvGivesParts ==
  ASSUME SysInv, NEW c \in Client, NEW s \in SeqNo
  PROVE  /\ IInv /\ TypeOK /\ SysTypeOK /\ IncompleteIsPending /\ IncompleteIsNeverStale
         /\ EffectsAreKnown(c, s) /\ WatermarksAreLow(c, s) /\ RpcInv(c, s)
BY DEF SysInv, IncompleteInv, IInv

\* The tracker goes its way whatever the rest of the system does.
LEMMA TrackerInv ==
  ASSUME SysInv, [Next]_vars
  PROVE  IInv'
BY Inductive DEF SysInv

LEMMA Numbers ==
  ASSUME TypeOK, NEW c \in Client, NEW s \in SeqNo
  PROVE  s \in Nat /\ staleBefore[c] \in Int
BY SeqNoAssumption, WatermarkIsInt DEF TypeOK

-----------------------------------------------------------------------------

LEMMA InitSysInv == SysInit => SysInv
<1> SUFFICES ASSUME SysInit PROVE SysInv
  OBVIOUS
<1>1. IInv /\ TypeOK
  BY InitIInv DEF SysInit, IInv
<1>2. SysTypeOK
  BY <1>1 DEF SysInit, SysTypeOK, Phase
<1>3. IncompleteIsPending /\ IncompleteIsNeverStale
  BY DEF SysInit, Init, IncompleteIsPending, IncompleteIsNeverStale
<1>4. ASSUME NEW c \in Client, NEW s \in SeqNo
      PROVE  EffectsAreKnown(c, s) /\ WatermarksAreLow(c, s)
  <2>1. Absent.status # "success" /\ NoRecord.state = "NONE" /\ ~NoRecord.aged
    BY DEF Absent, Answer, NoRecord
  <2>2. /\ records[c][s] = NoRecord /\ recorded[c][s] = {} /\ executed[c][s] = 0
        /\ phase[c][s] = "unstarted" /\ incomplete[c] = {} /\ wire = {} /\ known = {}
        /\ \A a \in AttemptNo : calls[c][s][a] = Absent
        /\ \A t \in SeqNo : phase[c][t] = "unstarted"
    BY DEF SysInit, Init
  <2> QED BY <2>1, <2>2 DEF EffectsAreKnown, WatermarksAreLow, Fresh, Live
<1> QED BY <1>1, <1>2, <1>3, <1>4 DEF SysInv, IncompleteInv

-----------------------------------------------------------------------------
(* Steps of the client.                                                    *)

\* The client changes nothing that is known of effects, as long as what it begins
\* is fresh and what it reports as done is.
LEMMA ClientKeepsEffects ==
  ASSUME SysInv, UNCHANGED <<vars, history>>, NEW c \in Client, NEW s \in SeqNo,
         phase'[c][s] = "unstarted" => phase[c][s] = "unstarted",
         Live(c, s)' => Live(c, s) \/ phase[c][s] = "unstarted",
         phase'[c][s] = "ok" => phase[c][s] = "ok" \/ executed[c][s] = 1
  PROVE  EffectsAreKnown(c, s)'
<1>1. EffectsAreKnown(c, s)
  BY InvGivesParts
<1> QED BY <1>1 DEF EffectsAreKnown, Fresh, vars, history

\* One RPC moves on, its number stays incomplete or is given up.
LEMMA MovePreserves ==
  ASSUME SysInv, UNCHANGED <<vars, history, attempts, wire>>,
         NEW c \in Client, NEW s \in SeqNo, NEW p \in Phase \ {"unstarted", "sent"},
         phase[c][s] \in {"picking", "sent", "backoff"},
         phase' = [phase EXCEPT ![c][s] = p],
         \/ p \in {"picking", "backoff"} /\ incomplete' = incomplete
         \/ p \in {"ok", "failed"} /\ incomplete' = [incomplete EXCEPT ![c] = @ \ {s}],
         p = "ok" => executed[c][s] = 1
  PROVE  SysInv'
<1>1. /\ IInv /\ SysTypeOK /\ IncompleteIsPending /\ IncompleteIsNeverStale
      /\ s \in incomplete[c]
  BY InvGivesParts DEF IncompleteIsPending
<1>2. /\ phase' \in [Client -> [SeqNo -> Phase]] /\ phase'[c][s] = p
      /\ \A d \in Client, t \in SeqNo : <<d, t>> # <<c, s>> => phase'[d][t] = phase[d][t]
  BY <1>1 DEF SysTypeOK
<1>3. /\ incomplete' \in [Client -> SUBSET SeqNo]
      /\ \A d \in Client, t \in SeqNo :
           t \in incomplete'[d] <=>
             t \in incomplete[d] /\ (<<d, t>> # <<c, s>> \/ p \notin {"ok", "failed"})
  BY <1>1 DEF SysTypeOK
<1>4. IInv'
  BY TrackerInv DEF vars
<1>5. SysTypeOK'
  BY <1>1, <1>2, <1>3, <1>4 DEF SysTypeOK, IInv, history
<1>6. IncompleteIsPending' /\ IncompleteIsNeverStale'
  <2>1. IncompleteIsPending'
    BY <1>1, <1>2, <1>3 DEF IncompleteIsPending
  <2>2. IncompleteIsNeverStale'
    BY <1>1, <1>3 DEF IncompleteIsNeverStale, vars, history
  <2> QED BY <2>1, <2>2
<1>7. ASSUME NEW d \in Client, NEW t \in SeqNo
      PROVE  EffectsAreKnown(d, t)' /\ WatermarksAreLow(d, t)'
  <2>1. Live(d, t)' => Live(d, t)
    BY <1>3 DEF Live
  <2>2. /\ phase'[d][t] = "unstarted" => phase[d][t] = "unstarted"
        /\ phase'[d][t] = "ok" => phase[d][t] = "ok" \/ executed[d][t] = 1
    BY <1>2
  <2>3. EffectsAreKnown(d, t)'
    BY <2>1, <2>2, ClientKeepsEffects
  <2>4. \A u \in SeqNo : phase[d][u] = "unstarted" => phase'[d][u] = "unstarted"
    BY <1>2
  <2>5. phase'[d][t] = "sent" => phase[d][t] = "sent"
    BY <1>2
  <2>6. WatermarksAreLow(d, t) /\ (t \in incomplete'[d] => t \in incomplete[d])
    BY <1>3, InvGivesParts
  <2>7. WatermarksAreLow(d, t)'
    BY <2>2, <2>4, <2>5, <2>6 DEF WatermarksAreLow, vars, history
  <2> QED BY <2>3, <2>7
<1> QED BY <1>4, <1>5, <1>6, <1>7 DEF SysInv, IncompleteInv

\* A new RPC takes a number above all the others.
LEMMA StartPreserves ==
  ASSUME SysInv, NEW c \in Client, NEW s \in SeqNo, StartRpc(c, s)
  PROVE  SysInv'
<1>1. IInv /\ TypeOK /\ SysTypeOK /\ IncompleteIsPending /\ IncompleteIsNeverStale
  BY InvGivesParts
<1>2. /\ phase[c][s] = "unstarted" /\ \A t \in SeqNo : t < s => phase[c][t] # "unstarted"
      /\ incomplete' = [incomplete EXCEPT ![c] = @ \cup {s}]
      /\ phase' = [phase EXCEPT ![c][s] = "picking"]
      /\ UNCHANGED <<vars, attempts, wire, history>>
  BY DEF StartRpc, NewSeqNo
<1>3. /\ phase' \in [Client -> [SeqNo -> Phase]] /\ phase'[c][s] = "picking"
      /\ \A d \in Client, t \in SeqNo : <<d, t>> # <<c, s>> => phase'[d][t] = phase[d][t]
  BY <1>1, <1>2 DEF SysTypeOK, Phase
<1>4. /\ incomplete' \in [Client -> SUBSET SeqNo] /\ s \in incomplete'[c]
      /\ \A d \in Client, t \in SeqNo :
           <<d, t>> # <<c, s>> => (t \in incomplete'[d] <=> t \in incomplete[d])
  BY <1>1, <1>2 DEF SysTypeOK
<1>5. IInv'
  BY <1>2, TrackerInv DEF vars
<1>6. SysTypeOK'
  BY <1>1, <1>2, <1>3, <1>4, <1>5 DEF SysTypeOK, IInv, history
<1>7. WatermarksAreLow(c, s) /\ Fresh(c, s)
  BY <1>2, InvGivesParts DEF EffectsAreKnown
<1>8. IncompleteIsPending'
  BY <1>1, <1>3, <1>4 DEF IncompleteIsPending
<1>9. IncompleteIsNeverStale'
  <2> SUFFICES ASSUME ~expired', NEW d \in Client, NEW t \in SeqNo,
                      t \in incomplete'[d], d \in known'
               PROVE  staleBefore'[d] <= t
    BY DEF IncompleteIsNeverStale
  <2>1. CASE <<d, t>> = <<c, s>>
    BY <1>2, <1>7, <2>1 DEF WatermarksAreLow, vars
  <2>2. CASE <<d, t>> # <<c, s>>
    BY <1>1, <1>2, <1>4, <2>2 DEF IncompleteIsNeverStale, vars, history
  <2> QED BY <2>1, <2>2
<1>10. ASSUME NEW d \in Client, NEW t \in SeqNo
       PROVE  EffectsAreKnown(d, t)'
  <2>1. Live(d, t)' => Live(d, t) \/ phase[d][t] = "unstarted"
    BY <1>2, <1>4 DEF Live
  <2>2. /\ phase'[d][t] = "unstarted" => phase[d][t] = "unstarted"
        /\ phase'[d][t] = "ok" => phase[d][t] = "ok"
    BY <1>3
  <2> QED BY <1>2, <2>1, <2>2, ClientKeepsEffects
<1>11. ASSUME NEW t \in SeqNo, records[c][t].state # "NONE" PROVE t < s
  <2>1. phase[c][t] # "unstarted"
    BY <1>11, InvGivesParts DEF EffectsAreKnown, Fresh
  <2> QED BY <1>2, <1>7, <2>1, SeqNoAssumption DEF WatermarksAreLow
<1>12. ASSUME NEW d \in Client, NEW t \in SeqNo
       PROVE  WatermarksAreLow(d, t)'
  <2>1. WatermarksAreLow(d, t)
    BY InvGivesParts
  <2>2. CASE <<d, t>> = <<c, s>>
    <3>1. c = d /\ s = t
      BY <2>2
    <3> QED BY <1>2, <1>3, <1>4, <1>7, <1>11, <3>1 DEF WatermarksAreLow, vars, history
  <2>3. CASE <<d, t>> # <<c, s>>
    <3>1. phase'[d][t] = phase[d][t] /\ (t \in incomplete'[d] <=> t \in incomplete[d])
      BY <1>3, <1>4, <2>3
    <3>2. phase[d][t] = "unstarted" => \A u \in SeqNo : t < u => phase'[d][u] = "unstarted"
      <4> SUFFICES ASSUME phase[d][t] = "unstarted", NEW u \in SeqNo, t < u
                   PROVE  phase'[d][u] = "unstarted"
        OBVIOUS
      <4>1. phase[d][u] = "unstarted"
        BY <2>1 DEF WatermarksAreLow
      <4>2. <<d, u>> # <<c, s>>
        BY <1>2
      <4> QED BY <1>3, <4>1, <4>2
    <3> QED BY <1>2, <2>1, <3>1, <3>2 DEF WatermarksAreLow, vars, history
  <2> QED BY <2>2, <2>3
<1> QED BY <1>5, <1>6, <1>8, <1>9, <1>10, <1>12 DEF SysInv, IncompleteInv

\* A request carries the first incomplete number, which is not above its own.
LEMMA SendPreserves ==
  ASSUME SysInv, NEW c \in Client, NEW s \in SeqNo, SendAttempt(c, s)
  PROVE  SysInv'
<1> DEFINE fi == FirstIncomplete(c)
           n == attempts[c][s]
<1>1. IInv /\ TypeOK /\ SysTypeOK /\ IncompleteIsPending /\ IncompleteIsNeverStale
  BY InvGivesParts
<1>2. PICK r \in Request : r = [client |-> c, seq |-> s, attempt |-> n, fi |-> fi]
  <2>1. n \in AttemptNo /\ s \in incomplete[c] /\ incomplete[c] \subseteq SeqNo
    BY <1>1 DEF SendAttempt, IncompleteIsPending, SysTypeOK
  <2>2. fi \in SeqNo
    BY <2>1, FirstIsLeast
  <2> QED BY <2>1, <2>2 DEF Request
<1>3. /\ phase[c][s] = "picking" /\ n \in AttemptNo /\ wire' = wire \cup {r}
      /\ attempts' = [attempts EXCEPT ![c][s] = n + 1]
      /\ phase' = [phase EXCEPT ![c][s] = "sent"]
      /\ UNCHANGED <<vars, incomplete, history>>
  BY <1>2 DEF SendAttempt
<1>4. /\ s \in incomplete[c] /\ r.client = c /\ r.seq = s
      /\ \A t \in incomplete[c] : r.fi <= t
  BY <1>1, <1>2, <1>3, FirstIsLeast DEF IncompleteIsPending, SysTypeOK
<1>5. /\ phase' \in [Client -> [SeqNo -> Phase]] /\ phase'[c][s] = "sent"
      /\ \A d \in Client, t \in SeqNo : <<d, t>> # <<c, s>> => phase'[d][t] = phase[d][t]
  BY <1>1, <1>3 DEF SysTypeOK, Phase
<1>6. /\ attempts' \in [Client -> [SeqNo -> Nat]] /\ attempts'[c][s] - 1 \in AttemptNo
      /\ \A d \in Client, t \in SeqNo : <<d, t>> # <<c, s>> => attempts'[d][t] = attempts[d][t]
  <2>1. n \in Nat
    BY <1>1 DEF SysTypeOK
  <2>2. (n + 1) - 1 = n
    BY <2>1
  <2>3. attempts'[c][s] = n + 1
    BY <1>1, <1>3 DEF SysTypeOK
  <2> QED BY <1>1, <1>3, <2>1, <2>2, <2>3 DEF SysTypeOK
<1>7. IInv'
  BY <1>3, TrackerInv DEF vars
<1>8. SysTypeOK'
  BY <1>1, <1>2, <1>3, <1>5, <1>6, <1>7 DEF SysTypeOK, IInv, history
<1>9. IncompleteIsPending' /\ IncompleteIsNeverStale'
  <2>1. IncompleteIsPending'
    BY <1>1, <1>3, <1>5 DEF IncompleteIsPending
  <2>2. IncompleteIsNeverStale'
    BY <1>1, <1>3 DEF IncompleteIsNeverStale, vars, history
  <2> QED BY <2>1, <2>2
<1>10. ASSUME NEW d \in Client, NEW t \in SeqNo
       PROVE  EffectsAreKnown(d, t)'
  <2>1. Live(d, t)' => Live(d, t)
    BY <1>3, <1>4 DEF Live
  <2>2. /\ phase'[d][t] = "unstarted" => phase[d][t] = "unstarted"
        /\ phase'[d][t] = "ok" => phase[d][t] = "ok"
    BY <1>5
  <2> QED BY <1>3, <2>1, <2>2, ClientKeepsEffects
<1>11. ASSUME NEW d \in Client, NEW t \in SeqNo
       PROVE  WatermarksAreLow(d, t)'
  <2>1. WatermarksAreLow(d, t)
    BY InvGivesParts
  <2>2. \A u \in SeqNo : phase'[d][u] = "unstarted" <=> phase[d][u] = "unstarted"
    BY <1>3, <1>5
  <2>3. phase'[d][t] = "sent" => attempts'[d][t] - 1 \in AttemptNo
    BY <1>5, <1>6, <2>1 DEF WatermarksAreLow
  <2>4. ASSUME NEW q \in wire', q.client = d
        PROVE  /\ phase[d][t] = "unstarted" => q.fi <= t /\ q.seq # t
               /\ t \in incomplete[d] => q.fi <= t
    <3>1. CASE q \in wire
      BY <2>1, <2>4, <3>1 DEF WatermarksAreLow
    <3>2. CASE q = r
      <4>1. d = c /\ (t \in incomplete[c] => r.fi <= t)
        BY <1>4, <2>4, <3>2
      <4>2. phase[c][t] = "unstarted" => r.seq # t
        BY <1>3, <1>4
      <4>3. ASSUME phase[c][t] = "unstarted" PROVE r.fi <= t
        <5>1. ~ (t < s)
          BY <1>3, <2>1, <4>1, <4>3 DEF WatermarksAreLow
        <5>2. r.fi <= s /\ r.fi \in SeqNo
          BY <1>4 DEF Request
        <5>3. r.fi \in Nat /\ s \in Nat /\ t \in Nat
          BY <5>2, SeqNoAssumption
        <5> QED BY <5>1, <5>2, <5>3
      <4> QED BY <3>2, <4>1, <4>2, <4>3
    <3> QED BY <1>3, <3>1, <3>2
  <2> QED BY <1>3, <2>1, <2>2, <2>3, <2>4 DEF WatermarksAreLow, vars, history
<1> QED BY <1>7, <1>8, <1>9, <1>10, <1>11 DEF SysInv, IncompleteInv

LEMMA LosePreserves ==
  ASSUME SysInv, NEW r \in wire, Lose(r)
  PROVE  SysInv'
<1>1. IInv /\ TypeOK /\ SysTypeOK /\ IncompleteIsPending /\ IncompleteIsNeverStale
  BY DEF SysInv, IncompleteInv, IInv
<1>2. wire' \subseteq wire /\ UNCHANGED <<vars, incomplete, phase, attempts, history>>
  BY DEF Lose
<1>3. IInv'
  BY <1>2, TrackerInv DEF vars
<1>4. SysTypeOK' /\ IncompleteIsPending' /\ IncompleteIsNeverStale'
  BY <1>1, <1>2, <1>3
     DEF SysTypeOK, IInv, IncompleteIsPending, IncompleteIsNeverStale, vars, history
<1>5. ASSUME NEW d \in Client, NEW t \in SeqNo
      PROVE  EffectsAreKnown(d, t)' /\ WatermarksAreLow(d, t)'
  <2>1. EffectsAreKnown(d, t)'
    BY <1>2, ClientKeepsEffects DEF Live
  <2>2. WatermarksAreLow(d, t)'
    BY <1>2, InvGivesParts DEF WatermarksAreLow, vars, history
  <2> QED BY <2>1, <2>2
<1> QED BY <1>3, <1>4, <1>5 DEF SysInv, IncompleteInv

LEMMA ClientPreserves ==
  ASSUME SysInv, NEW c \in Client, NEW s \in SeqNo, ClientStep(c, s)
  PROVE  SysInv'
<1>1. SysTypeOK /\ EffectsAreKnown(c, s) /\ WatermarksAreLow(c, s)
  BY InvGivesParts
<1>2. {"picking", "backoff", "ok", "failed"} \subseteq Phase \ {"unstarted", "sent"}
  BY DEF Phase
<1>3. ASSUME RetryLater(c, s) \/ FinishRpc(c, s, "failed"),
             phase[c][s] \in {"picking", "sent", "backoff"},
             UNCHANGED <<vars, attempts, wire, history>>
      PROVE  SysInv'
  BY <1>2, <1>3, MovePreserves DEF RetryLater, FinishRpc, RpcCompleted
<1>4. CASE SendAttempt(c, s)
  BY <1>4, SendPreserves
<1>5. CASE LookupFails(c, s)
  BY <1>3, <1>5 DEF LookupFails
<1>6. CASE AttemptTimesOut(c, s)
  BY <1>3, <1>6 DEF AttemptTimesOut
<1>7. CASE ReceiveReply(c, s)
  <2> DEFINE reply == calls[c][s][attempts[c][s] - 1].status
  <2>1. phase[c][s] = "sent" /\ UNCHANGED <<vars, attempts, wire, history>>
    BY <1>7 DEF ReceiveReply
  <2>2. reply = "success" => executed[c][s] = 1
    BY <1>1, <2>1 DEF EffectsAreKnown, WatermarksAreLow
  <2>3. CASE reply = "success" /\ FinishRpc(c, s, "ok")
    BY <1>2, <2>1, <2>2, <2>3, MovePreserves DEF FinishRpc, RpcCompleted
  <2>4. CASE RetryLater(c, s) \/ FinishRpc(c, s, "failed")
    BY <1>3, <2>1, <2>4
  <2> QED BY <1>7, <2>3, <2>4 DEF ReceiveReply
<1>8. CASE RetryFires(c, s)
  <2>1. phase[c][s] = "backoff" /\ UNCHANGED <<vars, attempts, wire, history>>
    BY <1>8 DEF RetryFires
  <2>2. CASE phase' = [phase EXCEPT ![c][s] = "picking"] /\ UNCHANGED incomplete
    BY <1>2, <2>1, <2>2, MovePreserves
  <2>3. CASE FinishRpc(c, s, "failed")
    BY <1>3, <2>1, <2>3
  <2> QED BY <1>8, <2>2, <2>3 DEF RetryFires
<1> QED BY <1>4, <1>5, <1>6, <1>7, <1>8 DEF ClientStep

-----------------------------------------------------------------------------
(* Steps of the server.                                                    *)

\* What a lookup collects is below the request's own first incomplete number, and
\* so the watermark stays below whatever that one is below.
LEMMA LookupBound ==
  ASSUME TypeOK, NEW c \in Client, NEW s \in SeqNo, NEW a \in AttemptNo, NEW fi \in SeqNo,
         NEW u \in SeqNo, fi <= u, c \in known => staleBefore[c] <= u,
         TrackRpc(c, s, a, fi)
  PROVE  staleBefore'[c] <= u
<1> DEFINE D == DeletedPrefix(c, DoneBefore(c, fi))
           old == StaleBeforeOnArrival(c, fi)
<1>1. old <= u /\ old \in Int /\ fi \in Nat /\ u \in Nat
  BY Numbers, SeqNoAssumption DEF StaleBeforeOnArrival
<1>2. CASE TrackRpcStale(c, s, a, fi)
  <2>1. staleBefore' = [staleBefore EXCEPT ![c] = old]
    BY <1>2 DEF TrackRpcStale
  <2> QED BY <1>1, <2>1 DEF TypeOK
<1>3. CASE Lookup(c, s, a, fi, D)
  <2>1. PICK n \in Watermark :
          IsWatermarkAfter(n, old, D) /\ staleBefore' = [staleBefore EXCEPT ![c] = n]
    BY <1>3 DEF Lookup
  <2>2. n \in {old} \cup {d + 1 : d \in D} /\ staleBefore'[c] = n
    BY <2>1 DEF IsWatermarkAfter, TypeOK
  <2>3. \A d \in D : d \in Nat /\ d < fi
    <3> TAKE d \in D
    <3>1. d \in Tracked(c)
      BY DEF DeletedPrefix
    <3>2. d \in SeqNo /\ d \in Nat
      BY <3>1, SeqNoAssumption DEF Tracked
    <3>3. d \in DoneBefore(c, fi)
      BY <3>1, <3>2 DEF DeletedPrefix
    <3> QED BY <3>2, <3>3 DEF DoneBefore
  <2> QED BY <1>1, <2>2, <2>3
<1> QED BY <1>2, <1>3 DEF TrackRpc, TrackRpcNew, TrackRpcCompleted, TrackRpcInProgress

\* What TrackRpc does to the records and histories of every RPC.
LEMMA TrackRpcEffect ==
  ASSUME IInv, NEW c \in Client, NEW s \in SeqNo, NEW a \in AttemptNo, NEW fi \in SeqNo,
         TrackRpc(c, s, a, fi)
  PROVE  /\ recorded' = recorded /\ known' = known \cup {c} /\ silent' = silent \ {c}
         /\ \A d \in Client : d # c => staleBefore'[d] = staleBefore[d]
         /\ \A d \in Client, t \in SeqNo :
              /\ <<d, t>> # <<c, s>> => records'[d][t].state \in {records[d][t].state, "NONE"}
              /\ records'[d][t].aged => records[d][t].aged
              /\ d # c => records'[d][t] = records[d][t]
         /\ \A d \in Client, t \in SeqNo, b \in AttemptNo :
              calls'[d][t][b].status = "success" =>
                \/ calls[d][t][b].status = "success"
                \/ <<d, t>> = <<c, s>> /\ records[c][s].state = "COMPLETED"
<1> DEFINE row == WithoutRecords(c, DeletedPrefix(c, DoneBefore(c, fi)))
<1>1. TypeOK
  BY DEF IInv
<1>2. /\ recorded' = recorded /\ known' = known \cup {c} /\ silent' = silent \ {c}
      /\ \E n : staleBefore' = [staleBefore EXCEPT ![c] = n]
  BY DEF TrackRpc, TrackRpcStale, TrackRpcNew, TrackRpcCompleted, TrackRpcInProgress, Lookup,
         HeardFrom
<1>3. \A d \in Client : d # c => staleBefore'[d] = staleBefore[d]
  BY <1>1, <1>2 DEF TypeOK
<1>4. CASE TrackRpcStale(c, s, a, fi)
  <2>1. records' = records /\ calls' = [calls EXCEPT ![c][s][a] = Answer("stale", NO_HANDLER)]
        /\ Answer("stale", NO_HANDLER).status # "success"
    BY <1>4 DEF TrackRpcStale, Answer
  <2>2. \A d \in Client, t \in SeqNo, b \in AttemptNo :
          calls'[d][t][b].status = "success" => calls[d][t][b].status = "success"
    BY <1>1, <2>1 DEF TypeOK
  <2> QED BY <1>2, <1>3, <2>1, <2>2
<1>5. CASE ~TrackRpcStale(c, s, a, fi)
  <2>1. Lookup(c, s, a, fi, DeletedPrefix(c, DoneBefore(c, fi)))
    BY <1>5 DEF TrackRpc, TrackRpcNew, TrackRpcCompleted, TrackRpcInProgress
  <2>2. /\ row \in [SeqNo -> Record] /\ row[s] = records[c][s]
        /\ \A t \in SeqNo : row[t] \in {records[c][t], NoRecord}
    BY <2>1, LookupEffect
  <2>3. NoRecord.state = "NONE" /\ ~NoRecord.aged
    BY DEF NoRecord
  <2>4. PICK rec \in Record, answer \in CallStatus :
          /\ ~rec.aged
          /\ records' = [records EXCEPT ![c] = [row EXCEPT ![s] = rec]]
          /\ calls' = [calls EXCEPT ![c][s][a] = answer]
          /\ answer.status = "success" => row[s].state = "COMPLETED"
    <3>1. row[s] \in Record /\ Open \in CallStatus /\ Open.status # "success"
      BY <2>2 DEF Open, Answer, CallStatus, Handler
    <3>2. CASE TrackRpcNew(c, s, a, fi)
      <4> DEFINE fresh == [state |-> "IN_PROGRESS", driver |-> a,
                           ongoing |-> {[handler |-> a, call |-> a]}, aged |-> FALSE]
      <4>1. fresh \in Record /\ ~fresh.aged
        BY DEF Record, Ongoing, Handler
      <4>2. /\ records' = [records EXCEPT ![c] = [row EXCEPT ![s] = fresh]]
            /\ calls' = [calls EXCEPT ![c][s][a] = Open]
        BY <3>2 DEF TrackRpcNew
      <4> QED BY <3>1, <4>1, <4>2
    <3>3. CASE TrackRpcCompleted(c, s, a, fi)
      <4> DEFINE found == [row[s] EXCEPT !.aged = FALSE]
      <4>1. /\ found \in Record /\ ~found.aged
            /\ Answer("success", row[s].driver) \in CallStatus
        BY <3>1 DEF Record, Answer, CallStatus
      <4>2. /\ records' = [records EXCEPT ![c] = [row EXCEPT ![s] = found]]
            /\ calls' = [calls EXCEPT ![c][s][a] = Answer("success", row[s].driver)]
            /\ row[s].state = "COMPLETED"
        BY <2>2, <3>3 DEF TrackRpcCompleted
      <4> QED BY <4>1, <4>2
    <3>4. CASE TrackRpcInProgress(c, s, a, fi)
      <4> DEFINE entry == [handler |-> NO_HANDLER, call |-> a]
                 found == [row[s] EXCEPT !.aged = FALSE, !.ongoing = @ \cup {entry}]
      <4>1. entry \in Ongoing
        BY DEF Ongoing, Handler
      <4>2. found \in Record /\ ~found.aged
        BY <3>1, <4>1 DEF Record
      <4>3. /\ records' = [records EXCEPT ![c] = [row EXCEPT ![s] = found]]
            /\ calls' = [calls EXCEPT ![c][s][a] = Open]
        BY <2>2, <3>4 DEF TrackRpcInProgress
      <4> QED BY <3>1, <4>2, <4>3
    <3> QED BY <1>5, <3>2, <3>3, <3>4 DEF TrackRpc
  <2>5. \A d \in Client, t \in SeqNo :
          records'[d][t] = IF <<d, t>> = <<c, s>> THEN rec ELSE IF d = c THEN row[t]
                                                           ELSE records[d][t]
    BY <1>1, <2>2, <2>4 DEF TypeOK
  <2>6. \A d \in Client, t \in SeqNo :
          /\ <<d, t>> # <<c, s>> => records'[d][t].state \in {records[d][t].state, "NONE"}
          /\ records'[d][t].aged => records[d][t].aged
          /\ d # c => records'[d][t] = records[d][t]
    BY <2>2, <2>3, <2>4, <2>5
  <2>7. \A d \in Client, t \in SeqNo, b \in AttemptNo :
          calls'[d][t][b].status = "success" =>
            \/ calls[d][t][b].status = "success"
            \/ <<d, t>> = <<c, s>> /\ records[c][s].state = "COMPLETED"
    BY <1>1, <2>2, <2>4 DEF TypeOK
  <2> QED BY <1>2, <1>3, <2>6, <2>7
<1> QED BY <1>4, <1>5

LEMMA ExecutedOnceOrNot ==
  ASSUME SysInv, NEW c \in Client, NEW s \in SeqNo, executed[c][s] # 0
  PROVE  executed[c][s] = 1
<1>1. executed[c][s] \in Nat /\ executed[c][s] <= 1
  BY InvGivesParts DEF SysTypeOK, EffectsAreKnown
<1> QED BY <1>1

\* A request arrives: its client is known and heard from, its RPC is live.
LEMMA DeliverPreserves ==
  ASSUME SysInv, NEW r \in wire, Deliver(r)
  PROVE  SysInv'
<1>1. IInv /\ TypeOK /\ SysTypeOK /\ IncompleteIsPending /\ IncompleteIsNeverStale
  BY DEF SysInv, IncompleteInv, IInv
<1>2. PICK c \in Client, s \in SeqNo, a \in AttemptNo, fi \in SeqNo :
        c = r.client /\ s = r.seq /\ a = r.attempt /\ fi = r.fi
  BY <1>1 DEF SysTypeOK, Request
<1>3. /\ wire' = wire \ {r} /\ TrackRpc(c, s, a, fi)
      /\ UNCHANGED <<incomplete, phase, attempts, executed, expired>>
  BY <1>2 DEF Deliver, history
<1>4. IInv'
  BY <1>3, TrackerInv DEF Next
<1>5. SysTypeOK' /\ IncompleteIsPending'
  BY <1>1, <1>3, <1>4 DEF SysTypeOK, IInv, IncompleteIsPending
<1>6. /\ recorded' = recorded /\ known' = known \cup {c} /\ silent' = silent \ {c}
      /\ \A d \in Client : d # c => staleBefore'[d] = staleBefore[d]
      /\ \A d \in Client, t \in SeqNo :
           /\ <<d, t>> # <<c, s>> => records'[d][t].state \in {records[d][t].state, "NONE"}
           /\ records'[d][t].aged => records[d][t].aged
           /\ d # c => records'[d][t] = records[d][t]
      /\ \A d \in Client, t \in SeqNo, b \in AttemptNo :
           calls'[d][t][b].status = "success" =>
             \/ calls[d][t][b].status = "success"
             \/ <<d, t>> = <<c, s>> /\ records[c][s].state = "COMPLETED"
  BY <1>1, <1>3, TrackRpcEffect
<1>7. Live(c, s) /\ phase[c][s] # "unstarted"
  BY <1>2, InvGivesParts DEF Live, WatermarksAreLow
<1>8. ASSUME NEW t \in SeqNo, fi <= t, c \in known => staleBefore[c] <= t
      PROVE  staleBefore'[c] <= t
  BY <1>1, <1>3, <1>8, LookupBound
<1>9. IncompleteIsNeverStale'
  <2> SUFFICES ASSUME ~expired', NEW d \in Client, NEW t \in SeqNo,
                      t \in incomplete'[d], d \in known'
               PROVE  staleBefore'[d] <= t
    BY DEF IncompleteIsNeverStale
  <2>1. CASE d # c
    BY <1>1, <1>3, <1>6, <2>1 DEF IncompleteIsNeverStale
  <2>2. CASE d = c
    <3>1. fi <= t
      BY <1>2, <1>3, <2>2, InvGivesParts DEF WatermarksAreLow
    <3>2. c \in known => staleBefore[c] <= t
      BY <1>1, <1>3, <2>2 DEF IncompleteIsNeverStale
    <3> QED BY <1>8, <2>2, <3>1, <3>2
  <2> QED BY <2>1, <2>2
<1>10. ASSUME NEW d \in Client, NEW t \in SeqNo
       PROVE  EffectsAreKnown(d, t)'
  <2>1. EffectsAreKnown(d, t) /\ RpcInv(d, t)
    BY InvGivesParts
  <2>2. Live(d, t)' => Live(d, t)
    BY <1>3 DEF Live
  <2>3. \A b \in AttemptNo : calls'[d][t][b].status = "success" => executed[d][t] = 1
    <3>1. <<d, t>> = <<c, s>> /\ records[c][s].state = "COMPLETED" => executed[d][t] # 0
      BY <1>7, <2>1 DEF EffectsAreKnown, RpcInv
    <3> QED BY <1>6, <2>1, <3>1, ExecutedOnceOrNot DEF EffectsAreKnown
  <2>4. phase[d][t] = "unstarted" => Fresh(d, t)'
    BY <1>3, <1>6, <1>7, <2>1 DEF EffectsAreKnown, Fresh
  <2>5. Live(d, t)' /\ d \notin known' \ silent' => Fresh(d, t)'
    BY <1>3, <1>6, <2>1, <2>2 DEF EffectsAreKnown, Fresh
  <2>6. Live(d, t)' \/ records'[d][t].state = "IN_PROGRESS" =>
          (executed[d][t] = 0 <=> recorded[d][t] = {})
    BY <1>6, <1>7, <2>1, <2>2 DEF EffectsAreKnown
  <2> QED BY <1>3, <1>6, <2>1, <2>3, <2>4, <2>5, <2>6 DEF EffectsAreKnown
<1>11. ASSUME NEW d \in Client, NEW t \in SeqNo
       PROVE  WatermarksAreLow(d, t)'
  <2>1. WatermarksAreLow(d, t)
    BY InvGivesParts
  <2>2. ASSUME phase[d][t] = "unstarted", d \in known' PROVE staleBefore'[d] <= t
    <3>1. CASE d # c
      BY <1>6, <2>1, <2>2, <3>1 DEF WatermarksAreLow
    <3>2. CASE d = c
      BY <1>2, <1>8, <2>1, <2>2, <3>2 DEF WatermarksAreLow
    <3> QED BY <3>1, <3>2
  <2>3. t \in incomplete[d] /\ d \notin known' \ silent' =>
          \A u \in SeqNo : records'[d][u].state # "NONE" => u < t
    BY <1>6, <2>1 DEF WatermarksAreLow
  <2> QED BY <1>3, <1>6, <2>1, <2>2, <2>3 DEF WatermarksAreLow
<1> QED BY <1>4, <1>5, <1>9, <1>10, <1>11 DEF SysInv, IncompleteInv

\* A handler's response touches its own RPC only, which is in progress until then
\* and has not taken effect.
LEMMA RespondEffect ==
  ASSUME SysInv, NEW c \in Client, NEW s \in SeqNo, NEW a \in AttemptNo, Respond(c, s, a)
  PROVE  /\ records[c][s].state = "IN_PROGRESS" /\ executed[c][s] = 0 /\ recorded[c][s] = {}
         /\ phase[c][s] \notin {"unstarted", "ok"}
         /\ UNCHANGED <<known, silent, staleBefore>>
         /\ \A d \in Client, t \in SeqNo :
              /\ records'[d][t].state # "NONE" => records[d][t].state # "NONE"
              /\ records'[d][t].aged => records[d][t].aged
              /\ <<d, t>> # <<c, s>> =>
                   records'[d][t] = records[d][t] /\ calls'[d][t] = calls[d][t]
<1>1. TypeOK /\ RpcInv(c, s) /\ EffectsAreKnown(c, s)
  BY InvGivesParts
<1>2. <<c, s, a>> \in running
  BY DEF Respond, RecordCompletionAndRespond, FailAndRespond
<1>3. /\ records[c][s].state = "IN_PROGRESS" /\ recorded[c][s] = {} /\ executed[c][s] = 0
      /\ phase[c][s] \notin {"unstarted", "ok"}
  BY <1>1, <1>2 DEF RpcInv, EffectsAreKnown, Fresh
<1>4. UNCHANGED <<known, silent, staleBefore>>
  BY DEF Respond, RecordCompletionAndRespond, FailAndRespond
<1>5. PICK rec : records' = [records EXCEPT ![c][s] = rec] /\ ~rec.aged
  <2>1. records[c][s] \in Record
    BY <1>1 DEF TypeOK
  <2>2. ~Completed(records[c][s], HandledBy(a, records[c][s])).aged
        /\ ~Failed(records[c][s], HandledBy(a, records[c][s])).aged
    BY <2>1 DEF Completed, Failed, NoRecord, Record
  <2> QED BY <2>2 DEF Respond, RecordCompletionAndRespond, FailAndRespond
<1>6. \E row : calls' = [calls EXCEPT ![c][s] = row]
  BY DEF Respond, RecordCompletionAndRespond, FailAndRespond, AnswerAll
<1>7. \A d \in Client, t \in SeqNo :
        /\ <<d, t>> # <<c, s>> =>
             records'[d][t] = records[d][t] /\ calls'[d][t] = calls[d][t]
        /\ <<d, t>> = <<c, s>> => records'[d][t] = rec
  BY <1>1, <1>5, <1>6 DEF TypeOK
<1> QED BY <1>3, <1>4, <1>5, <1>7

LEMMA HandlerPreserves ==
  ASSUME SysInv, NEW c \in Client, NEW s \in SeqNo, NEW a \in AttemptNo,
         HandlerSucceeds(c, s, a) \/ HandlerFails(c, s, a)
  PROVE  SysInv'
<1>1. IInv /\ TypeOK /\ SysTypeOK /\ IncompleteIsPending /\ IncompleteIsNeverStale
  BY InvGivesParts
<1>2. /\ Respond(c, s, a) /\ UNCHANGED <<incomplete, phase, attempts, wire, expired>>
  BY DEF HandlerSucceeds, HandlerFails, Respond, clientVars, history
<1>3. /\ records[c][s].state = "IN_PROGRESS" /\ executed[c][s] = 0 /\ recorded[c][s] = {}
      /\ phase[c][s] \notin {"unstarted", "ok"}
      /\ UNCHANGED <<known, silent, staleBefore>>
      /\ \A d \in Client, t \in SeqNo :
           /\ records'[d][t].state # "NONE" => records[d][t].state # "NONE"
           /\ records'[d][t].aged => records[d][t].aged
           /\ <<d, t>> # <<c, s>> =>
                records'[d][t] = records[d][t] /\ calls'[d][t] = calls[d][t]
  BY <1>2, RespondEffect
<1>4. IInv'
  BY <1>2, TrackerInv DEF Next
<1>5. /\ executed' \in [Client -> [SeqNo -> Nat]]
      /\ \A d \in Client, t \in SeqNo : <<d, t>> # <<c, s>> =>
           executed'[d][t] = executed[d][t] /\ recorded'[d][t] = recorded[d][t]
      /\ \/ executed'[c][s] = 1 /\ recorded'[c][s] = {a}
         \/ /\ executed'[c][s] = 0 /\ recorded'[c][s] = {}
            /\ \A b \in AttemptNo : calls'[c][s][b].status = "success" =>
                                      calls[c][s][b].status = "success"
  <2>1. CASE HandlerSucceeds(c, s, a)
    <3>1. /\ executed' = [executed EXCEPT ![c][s] = @ + 1]
          /\ recorded' = [recorded EXCEPT ![c][s] = @ \cup {a}]
      BY <2>1 DEF HandlerSucceeds, RecordCompletionAndRespond
    <3> QED BY <1>1, <1>3, <3>1 DEF SysTypeOK, TypeOK
  <2>2. CASE HandlerFails(c, s, a)
    <3>1. executed' = executed /\ recorded' = recorded
      BY <2>2 DEF HandlerFails, FailAndRespond, history
    <3>2. calls' = [calls EXCEPT ![c][s] =
                      [b \in AttemptNo |-> IF \E rpc \in HandledBy(a, records[c][s]) : rpc.call = b
                                           THEN Answer("failure", a) ELSE calls[c][s][b]]]
      BY <2>2 DEF HandlerFails, FailAndRespond, AnswerAll
    <3>3. Answer("failure", a).status # "success"
      BY DEF Answer
    <3>4. \A b \in AttemptNo : calls'[c][s][b].status = "success" =>
                                 calls[c][s][b].status = "success"
      BY <1>1, <3>2, <3>3 DEF TypeOK
    <3> QED BY <1>1, <1>3, <3>1, <3>4 DEF SysTypeOK
  <2> QED BY <2>1, <2>2
<1>6. SysTypeOK' /\ IncompleteIsPending' /\ IncompleteIsNeverStale'
  BY <1>1, <1>2, <1>3, <1>4, <1>5
     DEF SysTypeOK, IInv, IncompleteIsPending, IncompleteIsNeverStale
<1>7. ASSUME NEW d \in Client, NEW t \in SeqNo
      PROVE  EffectsAreKnown(d, t)'
  <2>1. EffectsAreKnown(d, t) /\ (Live(d, t)' <=> Live(d, t))
    BY <1>2, InvGivesParts DEF Live
  <2>2. CASE <<d, t>> # <<c, s>>
    BY <1>2, <1>3, <1>5, <2>1, <2>2 DEF EffectsAreKnown, Fresh
  <2>3. CASE <<d, t>> = <<c, s>>
    <3>1. d = c /\ t = s
      BY <2>3
    <3>2. ~ (Live(c, s) /\ c \notin known \ silent)
      BY <1>3, <2>1, <3>1 DEF EffectsAreKnown, Fresh
    <3>3. \A b \in AttemptNo : calls'[c][s][b].status = "success" => executed'[c][s] = 1
      <4>1. \A b \in AttemptNo : calls[c][s][b].status # "success"
        <5>1. executed[c][s] # 1
          BY <1>3
        <5>2. EffectsAreKnown(c, s)
          BY <2>1, <3>1
        <5> QED BY <5>1, <5>2 DEF EffectsAreKnown
      <4>2. CASE executed'[c][s] = 1
        BY <4>2
      <4>3. CASE \A b \in AttemptNo : calls'[c][s][b].status = "success" =>
                                      calls[c][s][b].status = "success"
        BY <4>1, <4>3
      <4> QED BY <1>5, <4>2, <4>3
    <3>4. executed'[c][s] <= 1 /\ (executed'[c][s] = 0 <=> recorded'[c][s] = {})
      <4>1. {a} # {} /\ 0 <= 1 /\ 1 <= 1 /\ 1 # 0
        OBVIOUS
      <4>2. CASE executed'[c][s] = 1 /\ recorded'[c][s] = {a}
        BY <4>1, <4>2
      <4>3. CASE executed'[c][s] = 0 /\ recorded'[c][s] = {}
        BY <4>1, <4>3
      <4> QED BY <1>5, <4>2, <4>3
    <3>5. phase'[c][s] \notin {"unstarted", "ok"}
      BY <1>2, <1>3
    <3>6. ~ (Live(c, s)' /\ c \notin known' \ silent')
      BY <1>3, <2>1, <3>1, <3>2
    <3>7. EffectsAreKnown(c, s)'
      BY <3>3, <3>4, <3>5, <3>6 DEF EffectsAreKnown
    <3> QED BY <3>1, <3>7
  <2> QED BY <2>2, <2>3
<1>8. ASSUME NEW d \in Client, NEW t \in SeqNo
      PROVE  WatermarksAreLow(d, t)'
  BY <1>2, <1>3, InvGivesParts DEF WatermarksAreLow
<1> QED BY <1>4, <1>6, <1>7, <1>8 DEF SysInv, IncompleteInv

\* A client that falls silent has no live RPC left.
LEMMA LeavePreserves ==
  ASSUME SysInv, NEW c \in Client, ClientLeaves(c)
  PROVE  SysInv'
<1>1. IInv /\ TypeOK /\ SysTypeOK /\ IncompleteIsPending /\ IncompleteIsNeverStale
  BY DEF SysInv, IncompleteInv, IInv
<1>2. /\ silent' = silent \cup {c} /\ incomplete[c] = {} /\ \A r \in wire : r.client # c
      /\ UNCHANGED <<known, staleBefore, records, running, calls, recorded>>
      /\ UNCHANGED <<clientVars, history>>
  BY DEF ClientLeaves, ClientFallsSilent
<1>3. IInv'
  BY TrackerInv DEF Next, ClientLeaves
<1>4. SysTypeOK' /\ IncompleteIsPending' /\ IncompleteIsNeverStale'
  BY <1>1, <1>2, <1>3 DEF SysTypeOK, IInv, IncompleteIsPending, IncompleteIsNeverStale,
     clientVars, history
<1>5. ASSUME NEW d \in Client, NEW t \in SeqNo
      PROVE  EffectsAreKnown(d, t)' /\ WatermarksAreLow(d, t)'
  <2>1. EffectsAreKnown(d, t) /\ WatermarksAreLow(d, t)
    BY InvGivesParts
  <2>2. /\ Live(d, t)' <=> Live(d, t)
        /\ Fresh(d, t)' <=> Fresh(d, t)
        /\ Live(d, t) \/ t \in incomplete[d] => d # c
    BY <1>2 DEF Live, Fresh, clientVars, history
  <2>3. d # c => (d \in known' \ silent' <=> d \in known \ silent)
    BY <1>2
  <2>4. EffectsAreKnown(d, t)'
    BY <1>2, <2>1, <2>2, <2>3 DEF EffectsAreKnown, clientVars, history
  <2>5. WatermarksAreLow(d, t)'
    BY <1>2, <2>1, <2>2, <2>3 DEF WatermarksAreLow, clientVars, history
  <2> QED BY <2>4, <2>5
<1> QED BY <1>3, <1>4, <1>5 DEF SysInv, IncompleteInv

LEMMA ExpiryPreserves ==
  ASSUME SysInv, NEW c \in Client, NEW s \in SeqNo, ResponseExpires(c, s)
  PROVE  SysInv'
<1>1. IInv /\ TypeOK /\ SysTypeOK /\ IncompleteIsPending
  BY InvGivesParts
<1>2. /\ records' = [records EXCEPT ![c][s].aged = TRUE] /\ expired' = TRUE
      /\ UNCHANGED <<known, silent, staleBefore, running, calls, recorded>>
      /\ UNCHANGED <<incomplete, phase, attempts, wire, executed>>
  BY DEF ResponseExpires, RecordAges, clientVars
<1>3. IInv'
  BY TrackerInv DEF Next, ResponseExpires
<1>4. SysTypeOK' /\ IncompleteIsPending' /\ IncompleteIsNeverStale'
  BY <1>1, <1>2, <1>3 DEF SysTypeOK, IInv, IncompleteIsPending, IncompleteIsNeverStale
<1>5. \A d \in Client, t \in SeqNo : records'[d][t].state = records[d][t].state
  BY <1>1, <1>2 DEF TypeOK, Record
<1>6. ASSUME NEW d \in Client, NEW t \in SeqNo
      PROVE  EffectsAreKnown(d, t)' /\ WatermarksAreLow(d, t)'
  <2>1. EffectsAreKnown(d, t) /\ WatermarksAreLow(d, t)
    BY InvGivesParts
  <2>2. (Live(d, t)' <=> Live(d, t)) /\ (Fresh(d, t)' <=> Fresh(d, t))
    BY <1>2, <1>5 DEF Live, Fresh
  <2>3. EffectsAreKnown(d, t)'
    BY <1>2, <1>5, <2>1, <2>2 DEF EffectsAreKnown
  <2>4. WatermarksAreLow(d, t)'
    BY <1>2, <1>5, <2>1 DEF WatermarksAreLow
  <2> QED BY <2>3, <2>4
<1> QED BY <1>3, <1>4, <1>6 DEF SysInv, IncompleteInv

\* GCResults forgets the silent clients, whose live RPCs are fresh; it passes no
\* RPC that has not begun, and none that is incomplete unless a response expired.
LEMMA CollectPreserves ==
  ASSUME SysInv, CollectGarbage
  PROVE  SysInv'
<1>1. IInv /\ TypeOK /\ SysTypeOK /\ IncompleteIsPending /\ IncompleteIsNeverStale
  BY DEF SysInv, IncompleteInv, IInv
<1>2. GCResults /\ UNCHANGED <<incomplete, phase, attempts, wire, executed, expired>>
  BY DEF CollectGarbage, clientVars, history
<1>3. PICK w \in [Client -> Watermark] :
        /\ \A c \in Client :
             IsWatermarkAfter(w[c], staleBefore[c], DeletedPrefix(c, Expired(c)))
        /\ staleBefore' = [c \in Client |-> IF c \in Forgotten THEN 0 ELSE w[c]]
        /\ records' = [c \in Client |-> WithoutRecords(c, DeletedPrefix(c, Expired(c)))]
        /\ recorded' = [c \in Client |-> IF c \in Forgotten THEN [s \in SeqNo |-> {}]
                                                              ELSE recorded[c]]
        /\ known' = known \ Forgotten /\ silent' = silent \ Forgotten
        /\ UNCHANGED <<running, calls>>
  BY <1>2 DEF GCResults
<1>4. IInv'
  BY <1>2, TrackerInv DEF Next
<1>5. SysTypeOK' /\ IncompleteIsPending'
  BY <1>1, <1>2, <1>4 DEF SysTypeOK, IInv, IncompleteIsPending
<1>6. NoRecord.state = "NONE" /\ ~NoRecord.aged
  BY DEF NoRecord
<1>7. \A d \in Client, t \in SeqNo :
        /\ records'[d][t] \in {records[d][t], NoRecord}
        /\ d \notin Forgotten => recorded'[d][t] = recorded[d][t]
        /\ d \in Forgotten =>
             recorded'[d][t] = {} /\ d \in silent /\ records[d][t].state # "IN_PROGRESS"
  BY <1>3 DEF WithoutRecords, Forgotten
<1>8. known' \ silent' = known \ silent
  BY <1>3 DEF Forgotten
<1>9. ASSUME NEW d \in Client, NEW u \in SeqNo, d \in known', staleBefore[d] <= u,
             \A t \in DeletedPrefix(d, Expired(d)) : t < u
      PROVE  staleBefore'[d] <= u
  <2>1. staleBefore'[d] = w[d]
    BY <1>3, <1>9
  <2>2. w[d] \in {staleBefore[d]} \cup {t + 1 : t \in DeletedPrefix(d, Expired(d))}
    BY <1>3 DEF IsWatermarkAfter
  <2>3. \A t \in DeletedPrefix(d, Expired(d)) : t \in Nat
    BY SeqNoAssumption DEF DeletedPrefix, Tracked
  <2> QED BY <1>9, <2>1, <2>2, <2>3, SeqNoAssumption
<1>10. IncompleteIsNeverStale'
  <2> SUFFICES ASSUME ~expired', NEW d \in Client, NEW u \in SeqNo,
                      u \in incomplete'[d], d \in known'
               PROVE  staleBefore'[d] <= u
    BY DEF IncompleteIsNeverStale
  <2>1. staleBefore[d] <= u
    BY <1>1, <1>2, <1>3 DEF IncompleteIsNeverStale
  <2>2. ASSUME NEW t \in DeletedPrefix(d, Expired(d)) PROVE t < u
    <3>1. t \in Tracked(d) /\ t \in SeqNo /\ t \in Expired(d)
      <4>1. t \in Tracked(d) /\ t \in SeqNo
        BY DEF DeletedPrefix, Tracked
      <4> QED BY <4>1, SeqNoAssumption DEF DeletedPrefix
    <3>2. WatermarksAreLow(d, t) /\ WatermarksAreLow(d, u)
      BY <3>1, InvGivesParts
    <3>3. d \in silent
      BY <1>2, <3>1, <3>2 DEF Expired, WatermarksAreLow
    <3> QED BY <1>2, <3>1, <3>2, <3>3 DEF WatermarksAreLow, Tracked
  <2> QED BY <1>9, <2>1, <2>2
<1>11. ASSUME NEW d \in Client, NEW t \in SeqNo
       PROVE  EffectsAreKnown(d, t)'
  <2>1. EffectsAreKnown(d, t)
    BY InvGivesParts
  <2>2. (Live(d, t)' <=> Live(d, t)) /\ (Fresh(d, t) => Fresh(d, t)')
    BY <1>2, <1>6, <1>7 DEF Live, Fresh
  <2>3. Live(d, t)' \/ records'[d][t].state = "IN_PROGRESS" =>
          (executed'[d][t] = 0 <=> recorded'[d][t] = {})
    <3>1. CASE d \notin Forgotten
      BY <1>2, <1>6, <1>7, <2>1, <2>2, <3>1 DEF EffectsAreKnown
    <3>2. CASE d \in Forgotten
      BY <1>2, <1>6, <1>7, <2>1, <2>2, <3>2 DEF EffectsAreKnown, Fresh
    <3> QED BY <3>1, <3>2
  <2>4. /\ executed'[d][t] = executed[d][t] /\ phase'[d][t] = phase[d][t]
        /\ calls'[d][t] = calls[d][t]
    BY <1>2, <1>3
  <2> QED BY <1>8, <2>1, <2>2, <2>3, <2>4 DEF EffectsAreKnown
<1>12. ASSUME NEW d \in Client, NEW u \in SeqNo
       PROVE  WatermarksAreLow(d, u)'
  <2>1. WatermarksAreLow(d, u)
    BY InvGivesParts
  <2>2. ASSUME phase[d][u] = "unstarted", d \in known' PROVE staleBefore'[d] <= u
    <3>1. staleBefore[d] <= u
      BY <1>3, <2>1, <2>2 DEF WatermarksAreLow
    <3>2. ASSUME NEW t \in DeletedPrefix(d, Expired(d)) PROVE t < u
      <4>1. t \in SeqNo /\ records[d][t].state # "NONE"
        BY DEF DeletedPrefix, Tracked
      <4>2. phase[d][t] # "unstarted"
        BY <4>1, InvGivesParts DEF EffectsAreKnown, Fresh
      <4>3. ~ (u < t) /\ t # u
        BY <2>1, <2>2, <4>1, <4>2 DEF WatermarksAreLow
      <4> QED BY <4>1, <4>3, SeqNoAssumption
    <3> QED BY <1>9, <2>2, <3>1, <3>2
  <2>3. \A t \in SeqNo : records'[d][t].state # "NONE" => records[d][t].state # "NONE"
    BY <1>6, <1>7
  <2>4. records'[d][u].aged => records[d][u].aged
    BY <1>6, <1>7
  <2> QED BY <1>2, <1>8, <2>1, <2>2, <2>3, <2>4 DEF WatermarksAreLow
<1> QED BY <1>4, <1>5, <1>10, <1>11, <1>12 DEF SysInv, IncompleteInv

-----------------------------------------------------------------------------

LEMMA StutterPreserves == SysInv /\ UNCHANGED allVars => SysInv'
<1> SUFFICES ASSUME SysInv, UNCHANGED allVars PROVE SysInv'
  OBVIOUS
<1>1. UNCHANGED <<vars, incomplete, phase, attempts, wire, executed, expired>>
  BY DEF allVars, clientVars, history
<1>2. IInv'
  BY <1>1, TrackerInv
<1>3. SysTypeOK' /\ IncompleteIsPending' /\ IncompleteIsNeverStale'
  BY <1>1, <1>2 DEF SysInv, IncompleteInv, SysTypeOK, IInv, IncompleteIsPending,
     IncompleteIsNeverStale, vars
<1>4. ASSUME NEW d \in Client, NEW t \in SeqNo
      PROVE  EffectsAreKnown(d, t)' /\ WatermarksAreLow(d, t)'
  BY <1>1, InvGivesParts DEF EffectsAreKnown, WatermarksAreLow, Fresh, Live, vars
<1> QED BY <1>2, <1>3, <1>4 DEF SysInv, IncompleteInv

LEMMA SysInductive == SysInv /\ [SysNext]_allVars => SysInv'
<1> SUFFICES ASSUME SysInv, [SysNext]_allVars PROVE SysInv'
  OBVIOUS
<1> QED BY StutterPreserves, StartPreserves, ClientPreserves, DeliverPreserves, LosePreserves,
           HandlerPreserves, LeavePreserves, ExpiryPreserves, CollectPreserves DEF SysNext

THEOREM SysInvariance == SysSpec => []SysInv
BY InitSysInv, SysInductive, PTL DEF SysSpec

\* No watermark passes an RPC its client waits for, every RPC that is over has left
\* its client's set, and what the tracker remembers of a live one tells its effect.
THEOREM BothEndsAgree == SysSpec => []IncompleteInv
<1>1. SysInv => IncompleteInv
  BY DEF SysInv
<1> QED BY <1>1, SysInvariance, PTL

-----------------------------------------------------------------------------
(* The refinement: what the callers are told and what took effect.         *)

Told == [r \in Rpcs |-> OutcomeOf(phase[r[1]][r[2]])]
Effects == [r \in Rpcs |-> executed[r[1]][r[2]]]

LEMMA ToldMoves ==
  ASSUME SysTypeOK, NEW c \in Client, NEW s \in SeqNo, NEW p,
         phase' = [phase EXCEPT ![c][s] = p]
  PROVE  Told' = [Told EXCEPT ![<<c, s>>] = OutcomeOf(p)]
<1>1. /\ phase'[c][s] = p
      /\ \A d \in Client, t \in SeqNo : <<d, t>> # <<c, s>> => phase'[d][t] = phase[d][t]
  BY DEF SysTypeOK
<1>2. ASSUME NEW r \in Rpcs
      PROVE  OutcomeOf(phase'[r[1]][r[2]]) =
               IF r = <<c, s>> THEN OutcomeOf(p) ELSE OutcomeOf(phase[r[1]][r[2]])
  <2>1. PICK d \in Client, t \in SeqNo : r = <<d, t>>
    BY DEF Rpcs
  <2>2. r[1] = d /\ r[2] = t
    BY <2>1
  <2>3. CASE r = <<c, s>>
    BY <1>1, <2>1, <2>2, <2>3
  <2>4. CASE r # <<c, s>>
    BY <1>1, <2>1, <2>2, <2>4
  <2> QED BY <2>3, <2>4
<1>3. Told' = [r \in Rpcs |-> OutcomeOf(phase'[r[1]][r[2]])]
  BY DEF Told, OutcomeOf
<1>4. [Told EXCEPT ![<<c, s>>] = OutcomeOf(p)] =
        [r \in Rpcs |-> IF r = <<c, s>> THEN OutcomeOf(p) ELSE OutcomeOf(phase[r[1]][r[2]])]
  BY DEF Told
<1> QED BY <1>2, <1>3, <1>4

LEMMA RpcOf ==
  ASSUME NEW c \in Client, NEW s \in SeqNo
  PROVE  /\ <<c, s>> \in Rpcs /\ Told[<<c, s>>] = OutcomeOf(phase[c][s])
         /\ Effects[<<c, s>>] = executed[c][s]
BY DEF Rpcs, Told, Effects

\* A step that leaves executed alone moves one RPC's outcome, or none.
LEMMA OutcomeStep ==
  ASSUME SysInv, NEW c \in Client, NEW s \in SeqNo, NEW p, executed' = executed,
         phase' = [phase EXCEPT ![c][s] = p],
         \/ phase[c][s] = "unstarted" /\ p = "picking"
         \/ /\ phase[c][s] \in {"picking", "sent", "backoff"}
            /\ \/ p \in {"picking", "sent", "backoff", "failed"}
               \/ p = "ok" /\ executed[c][s] = 1
  PROVE  [Once!Next]_<<Effects, Told>>
<1>1. SysTypeOK
  BY InvGivesParts
<1>2. Effects' = Effects /\ Told' = [Told EXCEPT ![<<c, s>>] = OutcomeOf(p)]
  BY <1>1, ToldMoves DEF Effects
<1>3. /\ <<c, s>> \in Rpcs /\ Told[<<c, s>>] = OutcomeOf(phase[c][s])
      /\ Effects[<<c, s>>] = executed[c][s]
  BY RpcOf
<1>4. CASE phase[c][s] = "unstarted" /\ p = "picking"
  <2>1. Once!Begin(<<c, s>>)
    BY <1>2, <1>3, <1>4 DEF Once!Begin, OutcomeOf, Told, Effects
  <2> QED BY <1>3, <2>1 DEF Once!Next
<1>5. CASE phase[c][s] \in {"picking", "sent", "backoff"}
  <2>1. Told[<<c, s>>] = "pending"
    BY <1>3, <1>5 DEF OutcomeOf
  <2>2. CASE p \in {"picking", "sent", "backoff"}
    <3>1. Told' = Told
      BY <1>2, <2>1, <2>2 DEF OutcomeOf, Told
    <3> QED BY <1>2, <3>1
  <2>3. CASE p = "failed"
    <3>1. Once!ReportFailure(<<c, s>>)
      BY <1>2, <2>1, <2>3 DEF Once!ReportFailure, OutcomeOf, Told, Effects
    <3> QED BY <1>3, <3>1 DEF Once!Next
  <2>4. CASE p = "ok" /\ executed[c][s] = 1
    <3>1. Once!ReportSuccess(<<c, s>>)
      BY <1>2, <1>3, <2>1, <2>4 DEF Once!ReportSuccess, OutcomeOf, Told, Effects
    <3> QED BY <1>3, <3>1 DEF Once!Next
  <2> QED BY <1>5, <2>2, <2>3, <2>4
<1> QED BY <1>4, <1>5

\* The one step of the server that takes effect.
LEMMA EffectStep ==
  ASSUME SysInv, NEW c \in Client, NEW s \in SeqNo, NEW a \in AttemptNo,
         HandlerSucceeds(c, s, a)
  PROVE  [Once!Next]_<<Effects, Told>>
<1>1. SysTypeOK
  BY InvGivesParts
<1>2. executed' = [executed EXCEPT ![c][s] = @ + 1] /\ phase' = phase
  BY DEF HandlerSucceeds, clientVars
<1>3. executed[c][s] = 0 /\ phase[c][s] \in Phase \ {"unstarted", "ok"}
  <2>1. Respond(c, s, a)
    BY DEF HandlerSucceeds, Respond
  <2> QED BY <1>1, <2>1, RespondEffect DEF SysTypeOK
<1>4. /\ <<c, s>> \in Rpcs /\ Told[<<c, s>>] = OutcomeOf(phase[c][s])
      /\ Effects[<<c, s>>] = executed[c][s]
  BY RpcOf
<1>5. Told' = Told
  BY <1>2 DEF Told
<1>6. Effects' = [Effects EXCEPT ![<<c, s>>] = 1]
  <2>1. /\ executed'[c][s] = 1
        /\ \A d \in Client, t \in SeqNo : <<d, t>> # <<c, s>> => executed'[d][t] = executed[d][t]
    BY <1>1, <1>2, <1>3 DEF SysTypeOK
  <2>2. ASSUME NEW r \in Rpcs
        PROVE  executed'[r[1]][r[2]] = IF r = <<c, s>> THEN 1 ELSE executed[r[1]][r[2]]
    <3>1. PICK d \in Client, t \in SeqNo : r = <<d, t>>
      BY DEF Rpcs
    <3>2. r[1] = d /\ r[2] = t
      BY <3>1
    <3>3. CASE r = <<c, s>>
      BY <2>1, <3>1, <3>2, <3>3
    <3>4. CASE r # <<c, s>>
      BY <2>1, <3>1, <3>2, <3>4
    <3> QED BY <3>3, <3>4
  <2>3. Effects' = [r \in Rpcs |-> executed'[r[1]][r[2]]]
    BY DEF Effects
  <2>4. [Effects EXCEPT ![<<c, s>>] = 1] =
          [r \in Rpcs |-> IF r = <<c, s>> THEN 1 ELSE executed[r[1]][r[2]]]
    BY DEF Effects
  <2> QED BY <2>2, <2>3, <2>4
<1>7. Told[<<c, s>>] \in {"pending", "failed"}
  BY <1>3, <1>4 DEF OutcomeOf, Phase
<1>8. Once!Execute(<<c, s>>)
  BY <1>3, <1>4, <1>5, <1>6, <1>7 DEF Once!Execute, Told, Effects
<1> QED BY <1>4, <1>8 DEF Once!Next

LEMMA OnceStep ==
  SysInv /\ [SysNext]_allVars => [Once!Next]_<<Effects, Told>>
<1> SUFFICES ASSUME SysInv, [SysNext]_allVars PROVE [Once!Next]_<<Effects, Told>>
  OBVIOUS
<1>1. ASSUME UNCHANGED <<phase, executed>> PROVE [Once!Next]_<<Effects, Told>>
  BY <1>1 DEF Told, Effects
<1>2. ASSUME NEW c \in Client, NEW s \in SeqNo, StartRpc(c, s)
      PROVE  [Once!Next]_<<Effects, Told>>
  <2>1. phase[c][s] = "unstarted" /\ phase' = [phase EXCEPT ![c][s] = "picking"]
        /\ executed' = executed
    BY <1>2 DEF StartRpc, NewSeqNo, history
  <2> QED BY <2>1, OutcomeStep
<1>3. ASSUME NEW c \in Client, NEW s \in SeqNo, ClientStep(c, s)
      PROVE  [Once!Next]_<<Effects, Told>>
  <2>1. ASSUME RetryLater(c, s) \/ FinishRpc(c, s, "failed"), executed' = executed,
               phase[c][s] \in {"picking", "sent", "backoff"}
        PROVE  [Once!Next]_<<Effects, Told>>
    BY <2>1, OutcomeStep DEF RetryLater, FinishRpc
  <2>2. CASE SendAttempt(c, s)
    <3>1. phase[c][s] = "picking" /\ phase' = [phase EXCEPT ![c][s] = "sent"]
          /\ executed' = executed
      BY <2>2 DEF SendAttempt, history
    <3> QED BY <3>1, OutcomeStep
  <2>3. CASE LookupFails(c, s)
    BY <2>1, <2>3 DEF LookupFails, history
  <2>4. CASE AttemptTimesOut(c, s)
    BY <2>1, <2>4 DEF AttemptTimesOut, history
  <2>5. CASE ReceiveReply(c, s)
    <3> DEFINE reply == calls[c][s][attempts[c][s] - 1].status
    <3>1. phase[c][s] = "sent" /\ executed' = executed
      BY <2>5 DEF ReceiveReply, history
    <3>2. reply = "success" => executed[c][s] = 1
      BY <3>1, InvGivesParts DEF EffectsAreKnown, WatermarksAreLow
    <3>3. CASE reply = "success" /\ FinishRpc(c, s, "ok")
      BY <3>1, <3>2, <3>3, OutcomeStep DEF FinishRpc
    <3>4. CASE RetryLater(c, s) \/ FinishRpc(c, s, "failed")
      BY <2>1, <3>1, <3>4
    <3> QED BY <2>5, <3>3, <3>4 DEF ReceiveReply
  <2>6. CASE RetryFires(c, s)
    <3>1. phase[c][s] = "backoff" /\ executed' = executed
      BY <2>6 DEF RetryFires, history
    <3>2. CASE phase' = [phase EXCEPT ![c][s] = "picking"]
      BY <3>1, <3>2, OutcomeStep
    <3>3. CASE FinishRpc(c, s, "failed")
      BY <2>1, <3>1, <3>3
    <3> QED BY <2>6, <3>2, <3>3 DEF RetryFires
  <2> QED BY <1>3, <2>2, <2>3, <2>4, <2>5, <2>6 DEF ClientStep
<1>4. ASSUME NEW c \in Client, NEW s \in SeqNo, NEW a \in AttemptNo,
             HandlerSucceeds(c, s, a) \/ HandlerFails(c, s, a)
      PROVE  [Once!Next]_<<Effects, Told>>
  BY <1>1, <1>4, EffectStep DEF HandlerFails, clientVars, history
<1>5. CASE \/ \E r \in wire : Deliver(r) \/ Lose(r)
           \/ \E c \in Client : ClientLeaves(c)
           \/ \E c \in Client, s \in SeqNo : ResponseExpires(c, s)
           \/ CollectGarbage
           \/ UNCHANGED allVars
  BY <1>1, <1>5 DEF Deliver, Lose, ClientLeaves, ResponseExpires, CollectGarbage, allVars,
     clientVars, history
<1> QED BY <1>2, <1>3, <1>4, <1>5 DEF SysNext

\* The protocol implements AtMostOnceRpc: whatever is delayed, reordered, lost,
\* retried or collected, an RPC takes effect at most once, never before its caller
\* began, and has done so when its caller is told of success.
THEOREM ImplementsAtMostOnce == SysSpec => OnceSpec
<1>1. SysInit => Once!Init
  <2> SUFFICES ASSUME SysInit PROVE Once!Init
    OBVIOUS
  <2>1. \A r \in Rpcs : executed[r[1]][r[2]] = 0 /\ phase[r[1]][r[2]] = "unstarted"
    BY DEF SysInit, Rpcs
  <2> QED BY <2>1 DEF Once!Init, OutcomeOf
<1>2. SysInv /\ [SysNext]_allVars => [Once!Next]_<<[r \in Rpcs |-> executed[r[1]][r[2]]],
                        [r \in Rpcs |-> OutcomeOf(phase[r[1]][r[2]])]>>
  BY OnceStep DEF Told, Effects
<1> QED BY <1>1, <1>2, SysInvariance, PTL DEF SysSpec, OnceSpec, Once!Spec
=============================================================================
