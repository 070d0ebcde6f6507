----------------------------- MODULE ServerClock -----------------------------
(***************************************************************************)
(* The clock a server is built with (server/server_base.cc): hybrid or     *)
(* logical by --use_hybrid_clock.  Both must meet Clock; the history past, *)
(* after, turn is that of the clock in use.                                *)
(***************************************************************************)
EXTENDS HybridClock

VARIABLES
  usesHybrid,     \* FLAGS_use_hybrid_clock
  now, update     \* the logical clock's

serverVars == <<hybridVars, usesHybrid, now, update>>

L == INSTANCE LogicalClock

ServerInit ==
  /\ usesHybrid \in BOOLEAN
  /\ Init
  /\ L!Init

HybridNext ==
  /\ usesHybrid
  /\ Next
  /\ UNCHANGED <<usesHybrid, now, update>>

LogicalNext ==
  /\ ~usesHybrid
  /\ L!Next
  /\ UNCHANGED <<wallVars, next, call, up, waited, peak, usesHybrid>>

ServerNext == HybridNext \/ LogicalNext

ServerSpec ==
  /\ ServerInit
  /\ [][ServerNext]_serverVars
  /\ \A t \in Thread : WF_serverVars(HybridNext /\ LoopsOrDies(t))

\* The inductive invariant of the clock in use.
ServerInv == IF usesHybrid THEN HybridInv ELSE L!LogicalInv
=============================================================================
