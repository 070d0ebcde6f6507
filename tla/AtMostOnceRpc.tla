---------------------------- MODULE AtMostOnceRpc ----------------------------
(* What the retriable RPCs of a client promise, with no retries, servers,   *)
(* network or garbage collection in sight: an RPC takes effect at most once, *)
(* and a client that is told of success can rely on the effect.              *)
EXTENDS Naturals

CONSTANT Rpc    \* the RPCs, one for each sequence number of each client

VARIABLES
  executed,     \* how many times the server recorded a success
  outcome       \* what the caller was told

TypeOK ==
  /\ executed \in [Rpc -> 0 .. 1]
  /\ outcome \in [Rpc -> {"unstarted", "pending", "ok", "failed"}]

Init ==
  /\ executed = [r \in Rpc |-> 0]
  /\ outcome = [r \in Rpc |-> "unstarted"]

Begin(r) ==
  /\ outcome[r] = "unstarted"
  /\ outcome' = [outcome EXCEPT ![r] = "pending"]
  /\ UNCHANGED executed

\* A late attempt may take effect after the caller gave up, never before the
\* caller began.
Execute(r) ==
  /\ outcome[r] \in {"pending", "failed"}
  /\ executed[r] = 0
  /\ executed' = [executed EXCEPT ![r] = 1]
  /\ UNCHANGED outcome

ReportSuccess(r) ==
  /\ outcome[r] = "pending"
  /\ executed[r] = 1
  /\ outcome' = [outcome EXCEPT ![r] = "ok"]
  /\ UNCHANGED executed

ReportFailure(r) ==
  /\ outcome[r] = "pending"
  /\ outcome' = [outcome EXCEPT ![r] = "failed"]
  /\ UNCHANGED executed

Next ==
  \E r \in Rpc :
    Begin(r) \/ Execute(r) \/ ReportSuccess(r) \/ ReportFailure(r)

Spec == Init /\ [][Next]_<<executed, outcome>>
=============================================================================
