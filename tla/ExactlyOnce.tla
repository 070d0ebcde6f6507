----------------------------- MODULE ExactlyOnce -----------------------------
(***************************************************************************)
(* The exactly-once protocol end to end: the clients' RequestTracker,      *)
(* RetriableRpc and RpcRetrier, a network that delays, reorders and loses  *)
(* requests, and one server's ResultTracker.                               *)
(*                                                                         *)
(* A RetriableRpc keeps its sequence number over all its attempts and      *)
(* takes a new attempt number for each; a reply to an attempt that the     *)
(* client no longer waits for is dropped by the RPC layer.                 *)
(***************************************************************************)
EXTENDS ResultTracker, FiniteSets

VARIABLES
  incomplete,   \* RequestTracker::incomplete_rpcs_
  phase,        \* where each RetriableRpc is
  attempts,     \* RetriableRpc::num_attempts_
  wire,         \* requests sent and not yet delivered or lost
  executed,     \* history: successes recorded for each RPC, ever
  expired       \* history: whether a response has passed its TTL

clientVars == <<incomplete, phase, attempts, wire>>
history == <<executed, expired>>
allVars == <<vars, clientVars, history>>

Phase == {"unstarted", "picking", "sent", "backoff", "ok", "failed"}

Request == [client : Client, seq : SeqNo, attempt : AttemptNo, fi : SeqNo]

SysTypeOK ==
  /\ TypeOK
  /\ incomplete \in [Client -> SUBSET SeqNo]
  /\ phase \in [Client -> [SeqNo -> Phase]]
  /\ attempts \in [Client -> [SeqNo -> Nat]]
  /\ wire \subseteq Request
  /\ executed \in [Client -> [SeqNo -> Nat]]
  /\ expired \in BOOLEAN

SysInit ==
  /\ Init
  /\ incomplete = [c \in Client |-> {}]
  /\ phase = [c \in Client |-> [s \in SeqNo |-> "unstarted"]]
  /\ attempts = [c \in Client |-> [s \in SeqNo |-> 0]]
  /\ wire = {}
  /\ executed = [c \in Client |-> [s \in SeqNo |-> 0]]
  /\ expired = FALSE

-----------------------------------------------------------------------------
(* The client.                                                             *)

\* next_ is the number of RPCs begun: sequence numbers are taken in order.
NewSeqNo(c, s) ==
  /\ phase[c][s] = "unstarted"
  /\ \A t \in SeqNo : t < s => phase[c][t] # "unstarted"
  /\ incomplete' = [incomplete EXCEPT ![c] = @ \cup {s}]

\* The watermark excludes the request's own number only by mistake.
FirstIncomplete_NextUnused(c) ==
  CHOOSE s \in SeqNo : \A t \in incomplete[c] : t <= s

FirstIncomplete(c) ==
  CHOOSE s \in incomplete[c] : \A t \in incomplete[c] : s <= t

\* A path out of an RPC that forgets to report it.
RpcCompleted_Leaked(c, s) ==
  incomplete' = incomplete

RpcCompleted(c, s) ==
  incomplete' = [incomplete EXCEPT ![c] = @ \ {s}]

\* SendRpc of a new RetriableRpc takes the sequence number and picks a server.
StartRpc(c, s) ==
  /\ NewSeqNo(c, s)
  /\ phase' = [phase EXCEPT ![c][s] = "picking"]
  /\ UNCHANGED <<vars, attempts, wire, history>>

\* RetryIfNeeded retries, or FinishInternal completes the sequence number.
RetryLater(c, s) ==
  /\ phase' = [phase EXCEPT ![c][s] = "backoff"]
  /\ UNCHANGED incomplete

FinishRpc(c, s, result) ==
  /\ RpcCompleted(c, s)
  /\ phase' = [phase EXCEPT ![c][s] = result]

\* ReplicaFoundCb with a server: the attempt is built and sent.
SendAttempt(c, s) ==
  /\ phase[c][s] = "picking"
  /\ attempts[c][s] \in AttemptNo
  /\ wire' = wire \cup {[client |-> c, seq |-> s, attempt |-> attempts[c][s],
                         fi |-> FirstIncomplete(c)]}
  /\ attempts' = [attempts EXCEPT ![c][s] = @ + 1]
  /\ phase' = [phase EXCEPT ![c][s] = "sent"]
  /\ UNCHANGED <<vars, incomplete, history>>

\* ReplicaFoundCb with an error, transient or not.
LookupFails(c, s) ==
  /\ phase[c][s] = "picking"
  /\ RetryLater(c, s) \/ FinishRpc(c, s, "failed")
  /\ UNCHANGED <<vars, attempts, wire, history>>

\* SendRpcCb with the reply to the attempt in flight.
ReceiveReply(c, s) ==
  /\ phase[c][s] = "sent"
  /\ LET reply == calls[c][s][attempts[c][s] - 1].status
     IN  \/ reply = "success" /\ FinishRpc(c, s, "ok")
         \/ reply \in {"failure", "stale"} /\ RetryLater(c, s)
         \/ reply \in {"failure", "stale"} /\ FinishRpc(c, s, "failed")
  /\ UNCHANGED <<vars, attempts, wire, history>>

\* SendRpcCb when the attempt timed out or its connection broke, whatever the
\* server is doing or has done with it.
AttemptTimesOut(c, s) ==
  /\ phase[c][s] = "sent"
  /\ RetryLater(c, s) \/ FinishRpc(c, s, "failed")
  /\ UNCHANGED <<vars, attempts, wire, history>>

\* DelayedRetryCb: another attempt under the same sequence number, or, past
\* the deadline, SendRpcCb with a timeout that is not retried.
RetryFires(c, s) ==
  /\ phase[c][s] = "backoff"
  /\ \/ /\ attempts[c][s] \in AttemptNo
        /\ phase' = [phase EXCEPT ![c][s] = "picking"]
        /\ UNCHANGED incomplete
     \/ FinishRpc(c, s, "failed")
  /\ UNCHANGED <<vars, attempts, wire, history>>

-----------------------------------------------------------------------------
(* The network and the server.                                             *)

Deliver(r) ==
  /\ r \in wire
  /\ wire' = wire \ {r}
  /\ TrackRpc(r.client, r.seq, r.attempt, r.fi)
  /\ UNCHANGED <<incomplete, phase, attempts, history>>

Lose(r) ==
  /\ r \in wire
  /\ wire' = wire \ {r}
  /\ UNCHANGED <<vars, incomplete, phase, attempts, history>>

HandlerSucceeds(c, s, a) ==
  /\ RecordCompletionAndRespond(c, s, a)
  /\ executed' = [executed EXCEPT ![c][s] = @ + 1]
  /\ UNCHANGED <<clientVars, expired>>

HandlerFails(c, s, a) ==
  /\ FailAndRespond(c, s, a)
  /\ UNCHANGED <<clientVars, history>>

\* remember_clients_ttl_ms outlives every request: a client falls silent only
\* when it has no RPC and no request of it is on its way.
ClientLeaves(c) ==
  /\ incomplete[c] = {}
  /\ \A r \in wire : r.client # c
  /\ ClientFallsSilent(c)
  /\ UNCHANGED <<clientVars, history>>

ResponseExpires(c, s) ==
  /\ RecordAges(c, s)
  /\ expired' = TRUE
  /\ UNCHANGED <<clientVars, executed>>

CollectGarbage ==
  /\ GCResults
  /\ UNCHANGED <<clientVars, history>>

ClientStep(c, s) ==
  \/ SendAttempt(c, s)
  \/ LookupFails(c, s)
  \/ ReceiveReply(c, s)
  \/ AttemptTimesOut(c, s)
  \/ RetryFires(c, s)

SysNext ==
  \/ \E c \in Client, s \in SeqNo : StartRpc(c, s)
  \/ \E c \in Client, s \in SeqNo : ClientStep(c, s)
  \/ \E r \in wire : Deliver(r)
  \/ \E r \in wire : Lose(r)
  \/ \E c \in Client, s \in SeqNo, a \in AttemptNo : HandlerSucceeds(c, s, a)
  \/ \E c \in Client, s \in SeqNo, a \in AttemptNo : HandlerFails(c, s, a)
  \/ \E c \in Client : ClientLeaves(c)
  \/ \E c \in Client, s \in SeqNo : ResponseExpires(c, s)
  \/ CollectGarbage

SysSpec == SysInit /\ [][SysNext]_allVars

\* The generated service method of a NEW call must respond in the end, with a
\* success or an error; clients, network, clock and GC owe nothing.
FairSysSpec ==
  /\ SysSpec
  /\ \A c \in Client, s \in SeqNo, a \in AttemptNo :
       WF_allVars(HandlerSucceeds(c, s, a) \/ HandlerFails(c, s, a))

-----------------------------------------------------------------------------
(* The abstract specification and the mapping to it.                       *)

OutcomeOf(p) == CASE p \in {"picking", "sent", "backoff"} -> "pending"
                  [] OTHER -> p

Rpcs == Client \X SeqNo

Once == INSTANCE AtMostOnceRpc WITH
  Rpc      <- Rpcs,
  executed <- [r \in Rpcs |-> executed[r[1]][r[2]]],
  outcome  <- [r \in Rpcs |-> OutcomeOf(phase[r[1]][r[2]])]

OnceSpec == Once!Spec

-----------------------------------------------------------------------------
(* Properties.                                                             *)

\* The watermark the server keeps never passes an RPC the client still waits
\* for, as long as no response TTL has expired: a retry is never refused as
\* stale because of what other RPCs of the client did (FirstIncomplete against
\* GCCompletionRecords, with requests delayed and reordered).
IncompleteIsNeverStale ==
  ~expired =>
    \A c \in Client, s \in SeqNo :
      s \in incomplete[c] /\ c \in known => staleBefore[c] <= s

\* A sequence number is incomplete from NewSeqNo until the RPC's callback is
\* due, on every path out of it (FinishInternal): one left behind would hold
\* the client's watermark, and the server's records, for ever.
IncompleteIsPending ==
  \A c \in Client, s \in SeqNo :
    s \in incomplete[c] <=> phase[c][s] \in {"picking", "sent", "backoff"}

\* A request of the RPC may be sent or is on its way.
Live(c, s) == s \in incomplete[c] \/ \E r \in wire : r.client = c /\ r.seq = s

\* The server knows nothing of the RPC, and never did.
Fresh(c, s) ==
  records[c][s].state = "NONE" /\ recorded[c][s] = {} /\ executed[c][s] = 0

\* What the tracker still knows of an RPC suffices to tell whether it took effect,
\* for as long as a request of it may arrive, although GCResults forgets: the
\* tracker forgets a client only when nothing of it is live.
EffectsAreKnown(c, s) ==
  /\ executed[c][s] <= 1
  /\ phase[c][s] = "unstarted" => Fresh(c, s)
  /\ Live(c, s) /\ c \notin known \ silent => Fresh(c, s)
  /\ Live(c, s) \/ records[c][s].state = "IN_PROGRESS" =>
       (executed[c][s] = 0 <=> recorded[c][s] = {})
  /\ \A a \in AttemptNo : calls[c][s][a].status = "success" => executed[c][s] = 1
  /\ phase[c][s] = "ok" => executed[c][s] = 1

\* Every watermark, on the wire or at the server, stays below the RPCs that are
\* not finished: RPCs begin in order, and only those before them are collected.
WatermarksAreLow(c, s) ==
  /\ \A r \in wire : r.client = c =>
       /\ phase[c][s] = "unstarted" => r.fi <= s /\ r.seq # s
       /\ s \in incomplete[c] => r.fi <= s
  /\ phase[c][s] = "unstarted" => s \notin incomplete[c] /\ (c \in known => staleBefore[c] <= s)
  /\ phase[c][s] = "unstarted" => \A t \in SeqNo : s < t => phase[c][t] = "unstarted"
  /\ s \in incomplete[c] /\ c \notin known \ silent =>
       \A t \in SeqNo : records[c][t].state # "NONE" => t < s
  /\ records[c][s].aged => expired
  /\ phase[c][s] = "sent" => attempts[c][s] - 1 \in AttemptNo

\* What both ends make of the incomplete sequence numbers, and the types.
IncompleteInv ==
  /\ SysTypeOK /\ IncompleteIsPending /\ IncompleteIsNeverStale
  /\ \A c \in Client, s \in SeqNo : EffectsAreKnown(c, s) /\ WatermarksAreLow(c, s)

\* result_tracker.h says of an error: "any future attempt with the same
\* sequence number and same client ID will be given a new chance to execute".
\* (An RPC its client has given up has no future attempts worth a chance.)
FailedRpcGetsNewChance ==
  [][\A c \in Client, s \in SeqNo, a, b \in AttemptNo :
       /\ s \in incomplete[c]
       /\ calls[c][s][a].status = "failure"
       /\ executed[c][s] = 0
       /\ calls[c][s][b] = Absent
       => calls'[c][s][b].status # "stale"]_allVars
=============================================================================
