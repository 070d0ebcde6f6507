---------------------------- MODULE LogicalClock ----------------------------
(***************************************************************************)
(* The logical clock of a server (server/logical_clock.cc): an atomic      *)
(* counter without a lock.  Update() loads it and tries a compare-and-swap *)
(* until the counter is at or past the timestamp; other threads call Now() *)
(* and Update() between the load and the swap.                             *)
(***************************************************************************)
EXTENDS Integers

CONSTANTS
  Thread,    \* threads inside Update
  Stamp      \* the timestamps callers pass

VARIABLES
  now,       \* now_
  update,    \* update[t]: the Update the thread is in
  past,      \* history: see Clock
  after,
  turn

logicalVars == <<now, update, past, after, turn>>

NoUpdate == [op |-> "none"]

TypeOK ==
  /\ now \in Nat
  /\ update \in [Thread -> {NoUpdate}
                   \cup [op : {"load"}, then : Stamp]
                   \cup [op : {"swap"}, then : Stamp, current : Nat]]
  /\ past \in Nat \cup {-1} /\ after \in Nat \cup {-1} /\ turn \in BOOLEAN

\* CreateStartingAt(kInitialTimestamp): the first Now() returns 1.
Init ==
  /\ now = 0
  /\ update = [t \in Thread |-> NoUpdate]
  /\ past = -1 /\ after = -1 /\ turn = FALSE

Later(a, b) == IF a > b THEN a ELSE b

Passed(stamp) == past' = Later(past, stamp)

\* Bound: no call begins once the counter has left Stamp.
Room == now \in Stamp

\* One atomic increment.
Now ==
  /\ Room
  /\ now' = now + 1
  /\ turn' = ~turn
  /\ Passed(now + 1)
  /\ UNCHANGED <<update, after>>

UpdateCalled(t, then) ==
  /\ Room /\ update[t] = NoUpdate
  /\ update' = [update EXCEPT ![t] = [op |-> "load", then |-> then]]
  /\ UNCHANGED <<now, past, after, turn>>

\* The clock is already there, or the swap is prepared with what was read.
UpdateLoads(t) ==
  /\ update[t].op = "load"
  /\ IF update[t].then <= now
     THEN /\ update' = [update EXCEPT ![t] = NoUpdate]
          /\ Passed(update[t].then)
     ELSE /\ update' = [update EXCEPT ![t] = [op |-> "swap",
                          then |-> update[t].then, current |-> now]]
          /\ UNCHANGED past
  /\ UNCHANGED <<now, after, turn>>

UpdateSwaps_Stores(t) ==
  /\ update[t].op = "swap"
  /\ now' = update[t].then
  /\ Passed(update[t].then)
  /\ update' = [update EXCEPT ![t] = NoUpdate]
  /\ UNCHANGED <<after, turn>>

\* The swap succeeds only if the counter is still what was read.
UpdateSwaps(t) ==
  /\ update[t].op = "swap"
  /\ IF now = update[t].current
     THEN /\ now' = update[t].then
          /\ Passed(update[t].then)
          /\ update' = [update EXCEPT ![t] = NoUpdate]
     ELSE /\ update' = [update EXCEPT ![t] = [op |-> "load",
                          then |-> update[t].then]]
          /\ UNCHANGED <<now, past>>
  /\ UNCHANGED <<after, turn>>

\* The counter at the timestamp is enough: the next reading is above it.
IsAfter(then) ==
  /\ now >= then
  /\ after' = Later(after, then)
  /\ UNCHANGED <<now, update, past, turn>>

\* Asks IsAfter and does not wait.
WaitUntilAfterLocally(then) ==
  /\ now >= then
  /\ Passed(then)
  /\ UNCHANGED <<now, update, after, turn>>

Next ==
  \/ Now
  \/ \E then \in Stamp : IsAfter(then) \/ WaitUntilAfterLocally(then)
  \/ \E t \in Thread, then \in Stamp : UpdateCalled(t, then)
  \/ \E t \in Thread : UpdateLoads(t) \/ UpdateSwaps(t)

Spec == Init /\ [][Next]_logicalVars

-----------------------------------------------------------------------------

C == INSTANCE Clock WITH behind <- FALSE

\* A prepared swap moves the counter up from what was read.
SwapsGoUp ==
  \A t \in Thread :
    update[t].op = "swap" => update[t].current < update[t].then

\* The inductive invariant: nothing above the counter was ever reported.
LogicalInv == TypeOK /\ past <= now /\ after <= now /\ SwapsGoUp

\* The contract of clock.h, kept without a lock and without exception.
ClockSpec == C!Spec
=============================================================================
