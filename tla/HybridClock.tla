----------------------------- MODULE HybridClock -----------------------------
(***************************************************************************)
(* The hybrid clock of a server (server/hybrid_clock.cc): a timestamp is   *)
(* the wall clock's reading in microseconds with a logical part below it.  *)
(* lock_ makes every reading of the clock atomic; IsAfter() reads the wall *)
(* clock before it takes the lock, and the two waits take it repeatedly.   *)
(* A call that takes several steps occupies a thread; Now() and Update()   *)
(* may come from any other thread in between.                              *)
(*                                                                         *)
(* The wall clock is the system's (wall +- err holds the true time, but it *)
(* may be set back, as at a leap second) or the mock of                    *)
(* --use_mock_wall_clock, which shows what it is told.                     *)
(***************************************************************************)
EXTENDS Integers

CONSTANTS
  Thread,     \* threads inside IsAfter or one of the waits
  Logical,    \* 1 << kBitsToShift: the logical values of one microsecond
  MaxError,   \* FLAGS_max_clock_sync_error_usec
  Time,       \* the readings of a system clock, and the true time
  Stamp       \* the timestamps callers pass

ASSUME HybridAssumption ==
  /\ Logical \in Nat \ {0}
  /\ MaxError \in Nat
  /\ Time \subseteq {now \in Nat : now > MaxError}
  /\ Stamp \subseteq Nat

VARIABLES
  mock,      \* FLAGS_use_mock_wall_clock
  trueTime,  \* in microseconds
  wall,      \* what WalltimeWithError reads: the time ...
  err,       \* ... and its maximum error
  next,      \* next_timestamp_
  call,      \* call[t]: the IsAfter or wait the thread is in
  up,        \* FALSE after LOG(FATAL)
  waited,    \* history: the latest time WaitUntilAfter has waited out
  peak,      \* history: the latest wall clock reading IsAfter has taken
  past,      \* history: see Clock
  after,
  turn

wallVars == <<mock, trueTime, wall, err>>
hybridVars == <<wallVars, next, call, up, waited, peak, past, after, turn>>

Idle == [op |-> "idle"]

Call ==
  {Idle}
    \cup [op : {"is_after"}, then : Stamp, wall : Nat]
    \cup [op : {"sleep"}, then : Stamp, until : Nat]
    \cup [op : {"wait_locally"}, then : Stamp]

TypeOK ==
  /\ mock \in BOOLEAN
  /\ trueTime \in Time /\ wall \in Nat /\ err \in Nat
  /\ next \in Nat
  /\ call \in [Thread -> Call]
  /\ up \in BOOLEAN
  /\ waited \in Nat
  /\ peak \in Nat
  /\ past \in Nat \cup {-1} /\ after \in Nat \cup {-1} /\ turn \in BOOLEAN

GetPhysicalValueMicros(stamp) == stamp \div Logical

\* A system clock is off by at most its error, whatever the error is.
Plausible(now, w, e) == w - e <= now /\ now <= w + e

\* Constructor and Init(), which refuses a system clock out of synchrony.
Init ==
  /\ mock \in BOOLEAN
  /\ trueTime \in Time
  /\ \/ mock /\ wall = 0 /\ err = 0
     \/ ~mock /\ wall \in Time /\ err \in 0 .. MaxError
              /\ Plausible(trueTime, wall, err)
  /\ next = 0
  /\ call = [t \in Thread |-> Idle]
  /\ up = TRUE
  /\ waited = 0
  /\ peak = 0
  /\ past = -1 /\ after = -1 /\ turn = FALSE

-----------------------------------------------------------------------------
(* The wall clock.                                                         *)

\* The system's may go back: a leap second is only logged (GetClockModes,
\* GetClockTime).
SystemClockMoves ==
  /\ ~mock
  /\ \E now, w \in Time, e \in 0 .. MaxError + 1 :
       /\ now >= trueTime /\ Plausible(now, w, e)
       /\ trueTime' = now /\ wall' = w /\ err' = e
  /\ UNCHANGED <<mock, next, call, up, waited, peak, past, after, turn>>

\* SetMockClockWallTimeForTests, which checks that the mock does not go back,
\* and SetMockMaxClockErrorForTests, while the true time passes.
SetMockWallClock ==
  /\ mock
  /\ \E now, w \in Time, e \in 0 .. MaxError + 1 :
       /\ now >= trueTime /\ w >= wall
       /\ trueTime' = now /\ wall' = w /\ err' = e
  /\ UNCHANGED <<mock, next, call, up, waited, peak, past, after, turn>>

InSync == err <= MaxError

-----------------------------------------------------------------------------
(* NowWithError, under lock_.                                              *)

Candidate == wall * Logical

\* The timestamp it returns ...
NowStamp == IF Candidate > next THEN Candidate ELSE next

\* ... and the error: the wall clock's own, or, when next_timestamp_ is
\* ahead, one broad enough for a true time as early as wall - err.
NowError_OfWall == err
NowError == IF Candidate > next
            THEN err
            ELSE GetPhysicalValueMicros(next) - (wall - err)

Synchronized == up /\ InSync

\* Bound: no call begins once next_timestamp_ has left Stamp.
Room == next \in Stamp

ReadClock_Twice == Synchronized /\ next' = NowStamp
ReadClock == Synchronized /\ next' = NowStamp + 1

\* WalltimeWithError fails: LOG(FATAL) in NowWithError, CHECK_OK in IsAfter.
ClockUnsynchronized ==
  /\ up /\ ~InSync
  /\ up' = FALSE
  /\ UNCHANGED <<wallVars, next, call, waited, peak, past, after, turn>>

Later(a, b) == IF a > b THEN a ELSE b

Passed(stamp) == past' = Later(past, stamp)
Confirmed(stamp) == after' = Later(after, stamp)

-----------------------------------------------------------------------------
(* The operations.                                                         *)

\* Now, NowLatest and GetGlobalLatest differ in what they add to the reading.
Now ==
  /\ Room
  /\ ReadClock
  /\ turn' = ~turn
  /\ Passed(NowStamp)
  /\ UNCHANGED <<wallVars, call, up, waited, peak, after>>

\* An accepted timestamp must not be more than MaxError ahead of a reading.
TooFarAhead(then) ==
  GetPhysicalValueMicros(then) - GetPhysicalValueMicros(NowStamp) > MaxError

Update(then) ==
  /\ Room /\ Synchronized
  /\ \/ NowStamp > then /\ next' = NowStamp + 1 /\ Passed(then)
     \/ NowStamp <= then /\ TooFarAhead(then) /\ next' = NowStamp + 1
          /\ UNCHANGED past
     \/ NowStamp <= then /\ ~TooFarAhead(then) /\ next' = then + 1
          /\ Passed(then)
  /\ UNCHANGED <<wallVars, call, up, waited, peak, after, turn>>

\* IsAfter reads the wall clock without the lock ...
IsAfterReadsWall(t, then) ==
  /\ up /\ InSync
  /\ call[t] = Idle
  /\ call' = [call EXCEPT ![t] = [op |-> "is_after", then |-> then,
                                  wall |-> wall]]
  /\ peak' = Later(peak, wall)
  /\ UNCHANGED <<wallVars, next, up, waited, past, after, turn>>

\* ... and compares with the later of it and next_timestamp_ under the lock.
IsAfterAnswers_AtMost(t) ==
  /\ up /\ call[t].op = "is_after"
  /\ IF call[t].then <= Later(next, call[t].wall * Logical)
     THEN Confirmed(call[t].then) ELSE UNCHANGED after
  /\ call' = [call EXCEPT ![t] = Idle]
  /\ UNCHANGED <<wallVars, next, up, waited, peak, past, turn>>

IsAfterAnswers(t) ==
  /\ up /\ call[t].op = "is_after"
  /\ IF call[t].then < Later(next, call[t].wall * Logical)
     THEN Confirmed(call[t].then) ELSE UNCHANGED after
  /\ call' = [call EXCEPT ![t] = Idle]
  /\ UNCHANGED <<wallVars, next, up, waited, peak, past, turn>>

\* The earliest time it can be, by a reading of the clock.
NowEarliest == GetPhysicalValueMicros(NowStamp) - NowError

\* WaitUntilAfter returns at once if the time is past (or the unsigned
\* difference wraps), gives up if the deadline comes first, or sleeps the
\* difference; SleepFor is kept for at least that much true time.
WaitUntilAfter(t, then) ==
  /\ Room /\ call[t] = Idle
  /\ ReadClock
  /\ LET physical == GetPhysicalValueMicros(then)
     IN  IF NowEarliest < 0 \/ physical < NowEarliest
         THEN waited' = Later(waited, physical) /\ UNCHANGED call
         ELSE /\ UNCHANGED waited
              /\ \/ UNCHANGED call
                 \/ call' = [call EXCEPT ![t] =
                      [op |-> "sleep", then |-> then,
                       until |-> trueTime + (physical - NowEarliest)]]
  /\ UNCHANGED <<wallVars, up, peak, past, after, turn>>

SleepEnds(t) ==
  /\ up /\ call[t].op = "sleep"
  /\ trueTime >= call[t].until
  /\ waited' = Later(waited, GetPhysicalValueMicros(call[t].then))
  /\ call' = [call EXCEPT ![t] = Idle]
  /\ UNCHANGED <<wallVars, next, up, peak, past, after, turn>>

WaitUntilAfterLocally(t, then) ==
  /\ Room /\ up /\ call[t] = Idle
  /\ call' = [call EXCEPT ![t] = [op |-> "wait_locally", then |-> then]]
  /\ UNCHANGED <<wallVars, next, up, waited, peak, past, after, turn>>

\* One round of its loop: past, or around again without a sleep.
WaitLocallyLoops(t) ==
  /\ call[t].op = "wait_locally"
  /\ ReadClock
  /\ \/ /\ NowStamp > call[t].then
        /\ Passed(call[t].then)
        /\ call' = [call EXCEPT ![t] = Idle]
     \/ /\ NowStamp <= call[t].then
        /\ UNCHANGED <<past, call>>
  /\ UNCHANGED <<wallVars, up, waited, peak, after, turn>>

\* CheckDeadlineNotWithinMicros after a round.
WaitLocallyTimesOut(t) ==
  /\ call[t].op = "wait_locally"
  /\ ReadClock
  /\ NowStamp <= call[t].then
  /\ call' = [call EXCEPT ![t] = Idle]
  /\ UNCHANGED <<wallVars, up, waited, peak, past, after, turn>>

ThreadStep(t) ==
  \/ \E then \in Stamp : IsAfterReadsWall(t, then)
  \/ IsAfterAnswers(t)
  \/ \E then \in Stamp : WaitUntilAfter(t, then)
  \/ SleepEnds(t)
  \/ \E then \in Stamp : WaitUntilAfterLocally(t, then)
  \/ WaitLocallyLoops(t)
  \/ WaitLocallyTimesOut(t)

Next ==
  \/ SystemClockMoves
  \/ SetMockWallClock
  \/ ClockUnsynchronized
  \/ Now
  \/ \E then \in Stamp : Update(then)
  \/ \E t \in Thread : ThreadStep(t)

Spec == Init /\ [][Next]_hybridVars

-----------------------------------------------------------------------------
(* Properties.                                                             *)

C == INSTANCE Clock WITH behind <- wall < peak

\* What the clock went past is below next_timestamp_, whatever the wall clock
\* does; what IsAfter confirmed is below it or below a wall clock reading.
PastIsCovered ==
  /\ past < next
  /\ after < next \/ after < peak * Logical

\* IsAfter holds a reading of the wall clock that was taken, and a sleep ends
\* when the time it waits for is reached.
CallsAreSound ==
  \A t \in Thread :
    /\ call[t].op = "is_after" => call[t].wall <= peak
    /\ call[t].op = "sleep" /\ ~mock =>
         GetPhysicalValueMicros(call[t].then) <= call[t].until

SystemClockIsPlausible ==
  ~mock => wall \in Time /\ Plausible(trueTime, wall, err) /\ waited <= trueTime

\* The inductive invariant of the proofs: what the clock has reported stays
\* below what it can return, with every call at any of its steps.
HybridInv ==
  TypeOK /\ PastIsCovered /\ CallsAreSound /\ SystemClockIsPlausible

\* The contract of clock.h: strictly increasing Now() above everything that
\* Update() accepted, also when the wall clock is set back; and IsAfter(),
\* although it compared with a wall clock read before it had the lock, holds
\* for every Now() that follows while the wall clock has not been set back
\* behind what IsAfter read.
ClockSpec == C!Spec

\* The comment in NowWithError: its error interval around the physical time
\* is correct also when next_timestamp_ is ahead of the wall clock because of
\* another machine's timestamp.
TrueTimeIsInInterval ==
  ~mock =>
    LET physical == GetPhysicalValueMicros(NowStamp)
    IN  physical - NowError <= trueTime /\ trueTime <= physical + NowError

\* WaitUntilAfter returns OK only when the true time has reached the time
\* waited for, however far next_timestamp_ was ahead when it computed the
\* sleep.
WaitedTimeIsPast == ~mock => waited <= trueTime

\* What the error bounds promise: every interval holds the true time, and what
\* was waited out with them is over.
ErrorBoundsHold == TrueTimeIsInInterval /\ WaitedTimeIsPast

\* WaitUntilAfterLocally does not sleep: its readings themselves move the
\* clock on, so that it ends although the wall clock may stand still.
LocalWaitEnds ==
  \A t \in Thread : call[t].op = "wait_locally" ~>
                      (call[t].op # "wait_locally" \/ ~up)

\* A thread in the loop reads the clock, or dies of it, again and again.
LoopsOrDies(t) ==
  WaitLocallyLoops(t) \/ (call[t].op = "wait_locally" /\ ClockUnsynchronized)
=============================================================================
