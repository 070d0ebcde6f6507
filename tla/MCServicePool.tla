---------------------------- MODULE MCServicePool ----------------------------
(* Small instances of ServicePool for TLC.                                 *)
EXTENDS ServicePool, TLC

CONSTANTS c1, c2, c3, c4

\* An early deadline, two equal ones and a late one, received in another
\* order than that of the deadlines.
Deadlines == c1 :> 0 @@ c2 :> 1 @@ c3 :> 1 @@ c4 :> 2
Arrivals  == c1 :> 3 @@ c2 :> 2 @@ c3 :> 1 @@ c4 :> 0

MCDeadline == [c \in Call |-> Deadlines[c]]
MCReceived == [c \in Call |-> Arrivals[c]]
=============================================================================
