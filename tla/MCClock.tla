------------------------------- MODULE MCClock -------------------------------
(***************************************************************************)
(* A small instance of ServerClock for TLC.  The timestamps are those      *)
(* around the wall clock readings, with which several readings of the      *)
(* system clock fit in before and after it is set back; and 0, where both  *)
(* clocks start.                                                           *)
(***************************************************************************)
EXTENDS ServerClock

CONSTANTS FirstTime, LastTime, FirstStamp, LastStamp

MCTime == FirstTime .. LastTime
MCStamp == {0} \cup FirstStamp .. LastStamp
=============================================================================
