---------------------------- MODULE ResultTracker ----------------------------
(***************************************************************************)
(* The server side of the exactly-once protocol: rpc/result_tracker.{h,cc} *)
(* as the RPC layer drives it (GeneratedServiceIf::Handle and the          *)
(* RpcContext::Respond* methods), with one handler per tracked RPC.        *)
(*                                                                         *)
(* Every public method holds ResultTracker::lock_ from entry to exit, so   *)
(* each is one action.  The clients are unconstrained: any attempt of any  *)
(* sequence number may arrive at any time, in any order, each at most      *)
(* once, with any first-incomplete watermark that does not exceed its own  *)
(* sequence number (a request is itself incomplete while it is sent).      *)
(***************************************************************************)
EXTENDS Integers

CONSTANTS
  Client,      \* the client ids
  SeqNo,       \* the sequence numbers the clients use
  AttemptNo    \* the attempt numbers of one RPC

ASSUME SeqNoAssumption   == SeqNo \subseteq Nat
ASSUME AttemptAssumption == AttemptNo \subseteq Nat

VARIABLES
  known,        \* the keys of clients_
  silent,       \* known clients whose last_heard_from is older than the TTL
  staleBefore,  \* ClientState::stale_before_seq_no
  records,      \* ClientState::completion_records; state NONE where absent
  running,      \* <<client, seq no, attempt>> of the handlers being executed
  calls,        \* what each attempt was answered
  recorded      \* history: attempts whose response was recorded for an RPC
                \* since its client was last created in clients_

vars == <<known, silent, staleBefore, records, running, calls, recorded>>

NO_HANDLER == -1
NoContext  == -1

Handler   == AttemptNo \cup {NO_HANDLER}
Ongoing   == [handler : Handler, call : AttemptNo \cup {NoContext}]
Watermark == {0} \cup SeqNo \cup {s + 1 : s \in SeqNo}

Record == [state   : {"NONE", "IN_PROGRESS", "COMPLETED"},
           driver  : Handler,
           ongoing : SUBSET Ongoing,
           aged    : BOOLEAN]

NoRecord == [state |-> "NONE", driver |-> NO_HANDLER,
             ongoing |-> {}, aged |-> FALSE]

\* "by" is the attempt whose execution produced the response.
CallStatus == [status : {"absent", "open", "success", "failure", "stale"},
               by     : Handler]

Answer(status, by) == [status |-> status, by |-> by]
Absent == Answer("absent", NO_HANDLER)
Open   == Answer("open", NO_HANDLER)

TypeOK ==
  /\ known \subseteq Client
  /\ silent \subseteq known
  /\ staleBefore \in [Client -> Watermark]
  /\ records \in [Client -> [SeqNo -> Record]]
  /\ running \subseteq Client \X SeqNo \X AttemptNo
  /\ calls \in [Client -> [SeqNo -> [AttemptNo -> CallStatus]]]
  /\ recorded \in [Client -> [SeqNo -> SUBSET AttemptNo]]

Init ==
  /\ known = {}
  /\ silent = {}
  /\ staleBefore = [c \in Client |-> 0]
  /\ records = [c \in Client |-> [s \in SeqNo |-> NoRecord]]
  /\ running = {}
  /\ calls = [c \in Client |-> [s \in SeqNo |-> [a \in AttemptNo |-> Absent]]]
  /\ recorded = [c \in Client |-> [s \in SeqNo |-> {}]]

-----------------------------------------------------------------------------
(* Garbage collection of one client's completion records.                  *)

Tracked(c) == {s \in SeqNo : records[c][s].state # "NONE"}

\* The completion records are visited in sequence order and the visit ends
\* at the first one that may not be collected.
DeletedPrefix(c, collectable) ==
  {s \in Tracked(c) : \A t \in Tracked(c) : t <= s => t \in collectable}

\* Every deleted record raises the client's watermark past it.
IsWatermarkAfter_NotRaised(n, old, deleted) == n = old

IsWatermarkAfter(n, old, deleted) ==
  /\ n \in {old} \cup {s + 1 : s \in deleted}
  /\ n >= old
  /\ \A s \in deleted : n > s

WithoutRecords(c, deleted) ==
  [s \in SeqNo |-> IF s \in deleted THEN NoRecord ELSE records[c][s]]

\* A client's records that its first-incomplete watermark makes collectable.
DoneBefore_EvenInProgress(c, fi) == {s \in SeqNo : s < fi}

DoneBefore(c, fi) ==
  {s \in SeqNo : records[c][s].state # "IN_PROGRESS" /\ s < fi}

\* The records GCResults may collect: any finished one of a silent client,
\* the finished ones past the response TTL of another.
Expired(c) ==
  {s \in SeqNo : /\ records[c][s].state # "IN_PROGRESS"
                 /\ c \in silent \/ records[c][s].aged}

-----------------------------------------------------------------------------
(* TrackRpc: an attempt arrives in GeneratedServiceIf::Handle.             *)

\* The watermark the request is compared with: a client state is created
\* with the request's own first-incomplete sequence number.
StaleBeforeOnArrival(c, fi) == IF c \in known THEN staleBefore[c] ELSE fi

HeardFrom(c) ==
  /\ known' = known \cup {c}
  /\ silent' = silent \ {c}

\* What the four outcomes of a call that is not stale share: collect what
\* the client no longer needs, then look the record up.
Lookup(c, s, a, fi, deleted) ==
  /\ calls[c][s][a] = Absent
  /\ fi <= s
  /\ s >= StaleBeforeOnArrival(c, fi)
  /\ HeardFrom(c)
  /\ \E n \in Watermark :
       /\ IsWatermarkAfter(n, StaleBeforeOnArrival(c, fi), deleted)
       /\ staleBefore' = [staleBefore EXCEPT ![c] = n]

TrackRpcStale(c, s, a, fi) ==
  /\ calls[c][s][a] = Absent
  /\ fi <= s
  /\ s < StaleBeforeOnArrival(c, fi)
  /\ HeardFrom(c)
  /\ staleBefore' = [staleBefore EXCEPT ![c] = StaleBeforeOnArrival(c, fi)]
  /\ calls' = [calls EXCEPT ![c][s][a] = Answer("stale", NO_HANDLER)]
  /\ UNCHANGED <<records, running, recorded>>

TrackRpcNew(c, s, a, fi) ==
  LET deleted == DeletedPrefix(c, DoneBefore(c, fi))
      row     == WithoutRecords(c, deleted)
  IN  /\ Lookup(c, s, a, fi, deleted)
      /\ row[s].state = "NONE"
      /\ records' = [records EXCEPT ![c] = [row EXCEPT ![s] =
            [state   |-> "IN_PROGRESS",
             driver  |-> a,
             ongoing |-> {[handler |-> a, call |-> a]},
             aged    |-> FALSE]]]
      /\ running' = running \cup {<<c, s, a>>}
      /\ calls' = [calls EXCEPT ![c][s][a] = Open]
      /\ UNCHANGED recorded

TrackRpcCompleted(c, s, a, fi) ==
  LET deleted == DeletedPrefix(c, DoneBefore(c, fi))
      row     == WithoutRecords(c, deleted)
  IN  /\ Lookup(c, s, a, fi, deleted)
      /\ row[s].state = "COMPLETED"
      /\ records' = [records EXCEPT ![c] = [row EXCEPT ![s].aged = FALSE]]
      /\ calls' = [calls EXCEPT ![c][s][a] = Answer("success", row[s].driver)]
      /\ UNCHANGED <<running, recorded>>

TrackRpcInProgress(c, s, a, fi) ==
  LET deleted == DeletedPrefix(c, DoneBefore(c, fi))
      row     == WithoutRecords(c, deleted)
  IN  /\ Lookup(c, s, a, fi, deleted)
      /\ row[s].state = "IN_PROGRESS"
      /\ records' = [records EXCEPT ![c] = [row EXCEPT
            ![s].aged = FALSE,
            ![s].ongoing = @ \cup {[handler |-> NO_HANDLER, call |-> a]}]]
      /\ calls' = [calls EXCEPT ![c][s][a] = Open]
      /\ UNCHANGED <<running, recorded>>

TrackRpc(c, s, a, fi) ==
  \/ TrackRpcStale(c, s, a, fi)
  \/ TrackRpcNew(c, s, a, fi)
  \/ TrackRpcCompleted(c, s, a, fi)
  \/ TrackRpcInProgress(c, s, a, fi)

-----------------------------------------------------------------------------
(* The handler of attempt a responds through its RpcContext.               *)

\* A handler answers its own attempt and, as the driver, the attached ones.
MustHandleRpc(a, record, rpc) ==
  \/ rpc.handler = a
  \/ record.driver = a /\ rpc.handler = NO_HANDLER

HandledBy(a, record) == {rpc \in record.ongoing : MustHandleRpc(a, record, rpc)}

AnswerAll(c, s, handled, answer) ==
  calls' = [calls EXCEPT ![c][s] =
              [b \in AttemptNo |-> IF \E rpc \in handled : rpc.call = b
                                   THEN answer ELSE calls[c][s][b]]]

Completed_EntriesKept(record, handled) ==
  [record EXCEPT !.state = "COMPLETED", !.aged = FALSE]

Completed(record, handled) ==
  [record EXCEPT !.state = "COMPLETED", !.aged = FALSE, !.ongoing = @ \ handled]

\* A failure is not stored: the record goes when nobody is left on it.
Failed_NeverErased(record, handled) ==
  [record EXCEPT !.aged = FALSE, !.ongoing = @ \ handled]

Failed_Cached(record, handled) ==
  [record EXCEPT !.state = "COMPLETED", !.aged = FALSE, !.ongoing = @ \ handled]

Failed(record, handled) ==
  IF record.ongoing \subseteq handled /\ record.state # "COMPLETED"
  THEN NoRecord
  ELSE [record EXCEPT !.aged = FALSE, !.ongoing = @ \ handled]

RecordCompletionAndRespond(c, s, a) ==
  LET record  == records[c][s]
      handled == HandledBy(a, record)
  IN  /\ <<c, s, a>> \in running
      /\ records' = [records EXCEPT ![c][s] = Completed(record, handled)]
      /\ AnswerAll(c, s, handled, Answer("success", a))
      /\ running' = running \ {<<c, s, a>>}
      /\ recorded' = [recorded EXCEPT ![c][s] = @ \cup {a}]
      /\ UNCHANGED <<known, silent, staleBefore>>

FailAndRespond(c, s, a) ==
  LET record  == records[c][s]
      handled == HandledBy(a, record)
  IN  /\ <<c, s, a>> \in running
      /\ records' = [records EXCEPT ![c][s] = Failed(record, handled)]
      /\ AnswerAll(c, s, handled, Answer("failure", a))
      /\ running' = running \ {<<c, s, a>>}
      /\ UNCHANGED <<known, silent, staleBefore, recorded>>

-----------------------------------------------------------------------------
(* The passing of time and the GC thread.                                  *)

\* remember_clients_ttl_ms has passed since the client was last heard from.
ClientFallsSilent(c) ==
  /\ c \in known \ silent
  /\ silent' = silent \cup {c}
  /\ UNCHANGED <<known, staleBefore, records, running, calls, recorded>>

\* remember_responses_ttl_ms has passed since the record was last updated.
RecordAges(c, s) ==
  /\ records[c][s].state # "NONE"
  /\ ~records[c][s].aged
  /\ records' = [records EXCEPT ![c][s].aged = TRUE]
  /\ UNCHANGED <<known, silent, staleBefore, running, calls, recorded>>

\* The client states one GC pass erases: silent ones with nothing in progress.
Forgotten ==
  {c \in silent : \A s \in SeqNo : records[c][s].state # "IN_PROGRESS"}

GCResults ==
  \E w \in [Client -> Watermark] :
    /\ \A c \in Client :
         IsWatermarkAfter(w[c], staleBefore[c], DeletedPrefix(c, Expired(c)))
    /\ staleBefore' = [c \in Client |-> IF c \in Forgotten THEN 0 ELSE w[c]]
    /\ records' = [c \in Client |->
                     WithoutRecords(c, DeletedPrefix(c, Expired(c)))]
    /\ recorded' = [c \in Client |->
                      IF c \in Forgotten THEN [s \in SeqNo |-> {}]
                                         ELSE recorded[c]]
    /\ known' = known \ Forgotten
    /\ silent' = silent \ Forgotten
    /\ UNCHANGED <<running, calls>>

-----------------------------------------------------------------------------

Respond(c, s, a) ==
  \/ RecordCompletionAndRespond(c, s, a)
  \/ FailAndRespond(c, s, a)

Next ==
  \/ \E c \in Client, s \in SeqNo, a \in AttemptNo, fi \in SeqNo :
       TrackRpc(c, s, a, fi)
  \/ \E c \in Client, s \in SeqNo, a \in AttemptNo : Respond(c, s, a)
  \/ \E c \in Client : ClientFallsSilent(c)
  \/ \E c \in Client, s \in SeqNo : RecordAges(c, s)
  \/ GCResults

Spec == Init /\ [][Next]_vars

-----------------------------------------------------------------------------
(* Properties.                                                             *)

\* An RPC takes effect at most once: as long as its client is remembered, at
\* most one attempt of a sequence number ever records a response, however
\* attempts, completions, failures and collections interleave
\* (RecordCompletionAndRespond against GCCompletionRecords and TrackRpc).
AtMostOnce ==
  \A c \in Client, s \in SeqNo :
    \A a, b \in recorded[c][s] : a = b

\* A handler that is still executing finds its record in progress with itself
\* as the driver: what FindCompletionRecordOrDie, CHECK_EQ(driver_attempt_no)
\* and the LOG(FATAL) of FailAndRespondInternal demand, whatever GC did since.
HandlerDrivesItsRecord ==
  \A c \in Client, s \in SeqNo, a \in AttemptNo :
    <<c, s, a>> \in running =>
      /\ c \in known
      /\ records[c][s].state = "IN_PROGRESS"
      /\ records[c][s].driver = a

\* The watermark separates the forgotten from the remembered: no record is
\* below its client's stale_before_seq_no, so a retry of a remembered RPC is
\* never called stale (the collection deletes a prefix only).
WatermarkBelowRecords ==
  \A c \in Client, s \in SeqNo :
    records[c][s].state # "NONE" => c \in known /\ staleBefore[c] <= s

\* A context is stored exactly while its call is unanswered, on a record whose
\* driver is executing: none is lost, and none is answered twice (the context
\* is deleted with the answer, so a stale entry would be a dangling pointer).
OpenCallsAreAttached ==
  \A c \in Client, s \in SeqNo, a \in AttemptNo :
    calls[c][s][a] = Open <=>
      /\ records[c][s].state = "IN_PROGRESS"
      /\ <<c, s, records[c][s].driver>> \in running
      /\ \E rpc \in records[c][s].ongoing : rpc.call = a

\* Every successful answer, first-hand or replayed from the cache, carries the
\* one response that was recorded for the RPC.
SuccessIsTheRecordedResponse ==
  [][\A c \in Client, s \in SeqNo, a \in AttemptNo :
       /\ calls'[c][s][a].status = "success"
       /\ calls[c][s][a] # calls'[c][s][a]
       => recorded'[c][s] = {calls'[c][s][a].by}]_vars

\* Every attempt that is attached or executing is answered in the end.
OpenCallsAreAnswered ==
  \A c \in Client, s \in SeqNo, a \in AttemptNo :
    calls[c][s][a] = Open ~> calls[c][s][a] # Open

-----------------------------------------------------------------------------
(* The inductive invariant: what the proofs need and TLC checks.           *)

\* What holds of each RPC.  Beyond the properties of ResultTracker:
\*  - in progress means that the driver is executing and nothing is recorded;
\*  - with a single handler every entry is the driver's own or attached;
\*  - what was recorded is still cached, or fenced off by the watermark.
RpcInv(c, s) ==
  LET record == records[c][s]
  IN  /\ record.state # "NONE" => c \in known /\ staleBefore[c] <= s
      /\ \A a \in AttemptNo :
           <<c, s, a>> \in running =>
             record.state = "IN_PROGRESS" /\ record.driver = a
      /\ record.state = "IN_PROGRESS" =>
           <<c, s, record.driver>> \in running /\ recorded[c][s] = {}
      /\ \A rpc \in record.ongoing :
           /\ record.state = "IN_PROGRESS"
           /\ rpc.handler \in {record.driver, NO_HANDLER}
      /\ \A a \in AttemptNo :
           calls[c][s][a] = Open <=> \E rpc \in record.ongoing : rpc.call = a
      /\ record.state = "COMPLETED" => recorded[c][s] = {record.driver}
      /\ record.state = "NONE" /\ recorded[c][s] # {} =>
           c \in known /\ s < staleBefore[c]
      /\ \A a, b \in recorded[c][s] : a = b

\* The type invariant and RpcInv: inductive for Next (ExactlyOnce_proofs).
IInv == TypeOK /\ \A c \in Client, s \in SeqNo : RpcInv(c, s)
=============================================================================
