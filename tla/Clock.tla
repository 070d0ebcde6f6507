-------------------------------- MODULE Clock --------------------------------
(***************************************************************************)
(* What server/clock.h asks of every clock of a server: Now() returns      *)
(* strictly increasing timestamps, above every timestamp the clock was     *)
(* moved past before (accepted by Update() or waited for locally).         *)
(*                                                                         *)
(* IsAfter() promises, without a condition (clock.h:74-76), that Now()     *)
(* goes above the timestamp it confirmed.  It does not move the clock, so  *)
(* that a clock which reads a physical source can keep this only while     *)
(* the source is not behind what IsAfter() read: that is the exception     *)
(* below, and a clock without a physical source is never behind.           *)
(***************************************************************************)
EXTENDS Integers

VARIABLES
  past,    \* the highest timestamp the clock went past; -1 before the first
  after,   \* the highest timestamp IsAfter() confirmed; -1 before the first
  behind,  \* the physical source shows less than IsAfter() has read
  turn     \* changes with every Now()

clockVars == <<past, after, behind, turn>>

Init ==
  /\ past = -1
  /\ after = -1
  /\ behind = FALSE
  /\ turn = FALSE

\* Now() goes past everything that was reported before.
Now ==
  /\ past' > past
  /\ ~behind => past' > after
  /\ turn' = ~turn
  /\ UNCHANGED <<after, behind>>

\* Update() accepts a timestamp, or a local wait for it ends.
Report ==
  /\ past' > past
  /\ UNCHANGED <<after, behind, turn>>

\* IsAfter() answers true.
Confirm ==
  /\ after' > after
  /\ UNCHANGED <<past, behind, turn>>

\* The physical source goes back, or catches up.
SourceMoves ==
  /\ behind' = ~behind
  /\ UNCHANGED <<past, after, turn>>

Next == Now \/ Report \/ Confirm \/ SourceMoves

Spec == Init /\ [][Next]_clockVars
=============================================================================
