-------------------------- MODULE ServerClock_proofs --------------------------
(***************************************************************************)
(* Both clocks keep the contract of Clock, the hybrid one with a lock and  *)
(* the logical one without; the hybrid clock's error interval holds the    *)
(* true time, and WaitUntilAfter waits the time out.  For every width of   *)
(* the logical part, every maximum error and any threads, and for a wall   *)
(* clock that may be set back at any time, but for the one exception of    *)
(* Clock; and so for the server, whichever clock it has.                   *)
(***************************************************************************)
EXTENDS ServerClock, TLAPS

-----------------------------------------------------------------------------
(* The hybrid clock.                                                       *)

(* A reading is not below next_timestamp_ nor below the wall clock.        *)
LEMMA ReadingIsLatest ==
  ASSUME TypeOK
  PROVE  /\ Candidate \in Nat
         /\ NowStamp \in Nat
         /\ NowStamp >= next
         /\ NowStamp >= Candidate
  BY HybridAssumption DEF TypeOK, NowStamp, Candidate

(* The larger of two timestamps.                                           *)
LEMMA LaterIsLater ==
  ASSUME NEW a \in Int, NEW b \in Int
  PROVE  /\ Later(a, b) \in {a, b}
         /\ Later(a, b) >= a
         /\ Later(a, b) >= b
  BY DEF Later

(* The physical part of a timestamp: a natural number, and for a wall      *)
(* clock reading without a logical part the reading itself.                *)
LEMMA PhysicalOfStamp ==
  ASSUME NEW stamp \in Nat
  PROVE  GetPhysicalValueMicros(stamp) \in Nat
  BY HybridAssumption DEF GetPhysicalValueMicros

LEMMA PhysicalOfWall ==
  ASSUME NEW usec \in Nat
  PROVE  GetPhysicalValueMicros(usec * Logical) = usec
  BY HybridAssumption DEF GetPhysicalValueMicros

(* A later wall clock reading makes a later candidate.                     *)
LEMMA CandidateGrows ==
  ASSUME NEW w \in Nat, NEW u \in Nat, w <= u
  PROVE  w * Logical \in Nat /\ u * Logical \in Nat /\ w * Logical <= u * Logical
  BY HybridAssumption

(* What a call in progress holds.                                          *)
LEMMA CallFields ==
  ASSUME NEW c \in Call
  PROVE  /\ Idle \in Call
         /\ c.op = "is_after" => c.then \in Nat /\ c.wall \in Nat
         /\ c.op = "sleep" => c.then \in Nat /\ c.until \in Nat
         /\ c.op = "wait_locally" => c.then \in Nat
  <1>1. Idle \in Call
    BY DEF Call
  <1>2. CASE c = Idle
    BY <1>1, <1>2 DEF Idle
  <1>3. CASE c \in [op : {"is_after"}, then : Stamp, wall : Nat]
    BY <1>1, <1>3, HybridAssumption
  <1>4. CASE c \in [op : {"sleep"}, then : Stamp, until : Nat]
    BY <1>1, <1>4, HybridAssumption
  <1>5. CASE c \in [op : {"wait_locally"}, then : Stamp]
    BY <1>1, <1>5, HybridAssumption
  <1> QED BY <1>2, <1>3, <1>4, <1>5 DEF Call

(* The earliest time it can be by a reading is that of the wall clock,     *)
(* whether or not next_timestamp_ was ahead of it.                         *)
LEMMA EarliestIsOfWall ==
  ASSUME TypeOK
  PROVE  NowEarliest = wall - err
  <1>1. CASE Candidate > next
    BY <1>1, PhysicalOfWall DEF NowEarliest, NowStamp, NowError, Candidate, TypeOK
  <1>2. CASE ~(Candidate > next)
    <2>1. GetPhysicalValueMicros(next) \in Nat
      BY PhysicalOfStamp DEF TypeOK
    <2> QED BY <1>2, <2>1 DEF NowEarliest, NowStamp, NowError, TypeOK
  <1> QED BY <1>1, <1>2

(* Every action keeps the types: timestamps stay natural numbers.          *)
LEMMA TypeKept == TypeOK /\ [Next]_hybridVars => TypeOK'
  <1> SUFFICES ASSUME TypeOK, [Next]_hybridVars PROVE TypeOK'
    OBVIOUS
  <1> USE HybridAssumption
  <1>1. NowStamp \in Nat
    BY ReadingIsLatest
  <1>2. ASSUME NEW stamp \in Nat
        PROVE  /\ Later(past, stamp) \in Nat \cup {-1}
               /\ Later(after, stamp) \in Nat \cup {-1}
    BY LaterIsLater DEF TypeOK
  <1>3. CASE SystemClockMoves
    BY <1>3 DEF SystemClockMoves, TypeOK
  <1>4. CASE SetMockWallClock
    BY <1>4 DEF SetMockWallClock, TypeOK
  <1>5. CASE ClockUnsynchronized
    BY <1>5 DEF ClockUnsynchronized, wallVars, TypeOK
  <1>6. CASE Now
    BY <1>1, <1>2, <1>6 DEF Now, ReadClock, Passed, wallVars, TypeOK
  <1>7. ASSUME NEW then \in Stamp, Update(then) PROVE TypeOK'
    BY <1>1, <1>2, <1>7 DEF Update, Passed, wallVars, TypeOK
  <1>8. ASSUME NEW t \in Thread, NEW then \in Stamp, IsAfterReadsWall(t, then)
        PROVE  TypeOK'
    <2>1. [op |-> "is_after", then |-> then, wall |-> wall] \in Call
      BY DEF Call, TypeOK
    <2>2. Later(peak, wall) \in Nat
      BY LaterIsLater DEF TypeOK
    <2> QED BY <1>8, <2>1, <2>2 DEF IsAfterReadsWall, wallVars, TypeOK
  <1>9. ASSUME NEW t \in Thread, IsAfterAnswers(t) PROVE TypeOK'
    <2>1. call[t].then \in Nat /\ Idle \in Call
      BY <1>9, CallFields DEF IsAfterAnswers, TypeOK
    <2> QED BY <1>2, <1>9, <2>1 DEF IsAfterAnswers, Confirmed, wallVars, TypeOK
  <1>10. ASSUME NEW t \in Thread, NEW then \in Stamp, WaitUntilAfter(t, then)
         PROVE  TypeOK'
    <2> DEFINE physical == GetPhysicalValueMicros(then)
    <2>1. physical \in Nat /\ NowEarliest \in Int
      BY PhysicalOfStamp, EarliestIsOfWall DEF TypeOK
    <2>2. Later(waited, physical) \in Nat
      BY <2>1, LaterIsLater DEF TypeOK
    <2>3. ASSUME physical >= NowEarliest
          PROVE  [op |-> "sleep", then |-> then,
                  until |-> trueTime + (physical - NowEarliest)] \in Call
      <3>1. trueTime + (physical - NowEarliest) \in Nat
        BY <2>1, <2>3 DEF TypeOK
      <3> QED BY <3>1 DEF Call
    <2> QED
      BY <1>1, <1>10, <2>1, <2>2, <2>3
      DEF WaitUntilAfter, ReadClock, wallVars, TypeOK
  <1>11. ASSUME NEW t \in Thread, SleepEnds(t) PROVE TypeOK'
    <2>1. call[t].then \in Nat /\ Idle \in Call
      BY <1>11, CallFields DEF SleepEnds, TypeOK
    <2>2. Later(waited, GetPhysicalValueMicros(call[t].then)) \in Nat
      BY <2>1, PhysicalOfStamp, LaterIsLater DEF TypeOK
    <2> QED BY <1>11, <2>1, <2>2 DEF SleepEnds, wallVars, TypeOK
  <1>12. ASSUME NEW t \in Thread, NEW then \in Stamp,
                WaitUntilAfterLocally(t, then)
         PROVE  TypeOK'
    <2>1. [op |-> "wait_locally", then |-> then] \in Call
      BY DEF Call
    <2> QED BY <1>12, <2>1 DEF WaitUntilAfterLocally, wallVars, TypeOK
  <1>13. ASSUME NEW t \in Thread,
                WaitLocallyLoops(t) \/ WaitLocallyTimesOut(t)
         PROVE  TypeOK'
    <2>1. call[t].then \in Nat /\ Idle \in Call
      BY <1>13, CallFields DEF WaitLocallyLoops, WaitLocallyTimesOut, TypeOK
    <2> QED
      BY <1>1, <1>2, <1>13, <2>1
      DEF WaitLocallyLoops, WaitLocallyTimesOut, ReadClock, Passed, wallVars,
          TypeOK
  <1>14. CASE UNCHANGED hybridVars
    BY <1>14 DEF hybridVars, wallVars, TypeOK
  <1> QED
    BY <1>3, <1>4, <1>5, <1>6, <1>7, <1>8, <1>9, <1>10, <1>11, <1>12, <1>13,
       <1>14
    DEF Next, ThreadStep

-----------------------------------------------------------------------------
(* What was reported as passed, and the contract of Clock.                 *)

(* Each step either reads the clock past everything that was reported, or  *)
(* reports something the next reading is above anyway, or moves the wall   *)
(* clock; this is both the invariance of PastIsCovered and the step of the *)
(* refinement.                                                             *)
LEMMA StepKeepsClock ==
  ASSUME TypeOK, PastIsCovered, CallsAreSound, [Next]_hybridVars
  PROVE  PastIsCovered' /\ [C!Next]_C!clockVars
  <1> USE HybridAssumption
      DEF C!Next, C!Now, C!Report, C!Confirm, C!SourceMoves, C!clockVars
  <1>1. /\ Candidate \in Nat /\ NowStamp \in Nat
        /\ NowStamp >= next /\ NowStamp >= Candidate
        /\ NowStamp > past
    BY ReadingIsLatest DEF PastIsCovered, TypeOK
  <1>2. ASSUME NEW stamp \in Nat, Passed(stamp)
        PROVE  past' \in {past, stamp} /\ past' >= past /\ past' \in Int
    BY <1>2, LaterIsLater DEF Passed, TypeOK
  <1>3. ASSUME next' \in Nat, next' >= next,
               UNCHANGED <<past, peak, after, turn>>
        PROVE  PastIsCovered' /\ [C!Next]_C!clockVars
    <2>1. PastIsCovered'
      BY <1>3 DEF PastIsCovered, TypeOK
    <2>2. (wall < peak)' = (wall < peak) \/ (wall < peak)' = ~(wall < peak)
      OBVIOUS
    <2> QED BY <1>3, <2>1, <2>2
  <1>4. ASSUME next' \in Nat, past' \in Int, past' < next', next' >= next,
               past' = past \/ past' > past,
               UNCHANGED <<wallVars, peak, after, turn>>
        PROVE  PastIsCovered' /\ [C!Next]_C!clockVars
    <2>1. PastIsCovered'
      BY <1>4 DEF PastIsCovered, TypeOK
    <2>2. (wall < peak)' = (wall < peak)
      BY <1>4 DEF wallVars
    <2> QED BY <1>4, <2>1, <2>2
  <1>5. CASE SystemClockMoves \/ SetMockWallClock \/ ClockUnsynchronized
    BY <1>3, <1>5
    DEF SystemClockMoves, SetMockWallClock, ClockUnsynchronized, TypeOK
  <1>6. CASE Now
    <2>1. past' = NowStamp /\ next' = NowStamp + 1
      BY <1>1, <1>2, <1>6 DEF Now, ReadClock, Passed, Later, TypeOK
    <2>2. past' > past /\ past' < next' /\ next' \in Nat /\ next' >= next
      BY <1>1, <2>1 DEF TypeOK
    <2>3. ~(wall < peak) => past' > after
      <3>1. SUFFICES ASSUME wall >= peak PROVE past' > after
        BY DEF TypeOK
      <3>2. peak * Logical \in Nat /\ peak * Logical <= Candidate
        BY <3>1, CandidateGrows DEF Candidate, TypeOK
      <3> QED BY <1>1, <2>1, <3>2 DEF PastIsCovered, TypeOK
    <2>4. UNCHANGED <<wall, peak, after>> /\ turn' = ~turn
      BY <1>6 DEF Now, wallVars
    <2>5. PastIsCovered'
      BY <2>2, <2>4 DEF PastIsCovered, TypeOK
    <2>6. (wall < peak)' = (wall < peak)
      BY <2>4
    <2> QED BY <2>2, <2>3, <2>4, <2>5, <2>6
  <1>7. ASSUME NEW then \in Stamp, Update(then)
        PROVE  PastIsCovered' /\ [C!Next]_C!clockVars
    <2>1. UNCHANGED <<wallVars, peak, after, turn>>
      BY <1>7 DEF Update
    <2>2. CASE next' = NowStamp + 1 /\ NowStamp > then /\ Passed(then)
      BY <1>1, <1>2, <1>4, <2>1, <2>2 DEF TypeOK
    <2>3. CASE next' = NowStamp + 1 /\ UNCHANGED past
      BY <1>1, <1>3, <2>1, <2>3 DEF TypeOK
    <2>4. CASE NowStamp <= then /\ next' = then + 1 /\ Passed(then)
      BY <1>1, <1>2, <1>4, <2>1, <2>4 DEF TypeOK
    <2> QED BY <1>7, <2>2, <2>3, <2>4 DEF Update
  <1>8. ASSUME NEW t \in Thread, NEW then \in Stamp, IsAfterReadsWall(t, then)
        PROVE  PastIsCovered' /\ [C!Next]_C!clockVars
    <2>1. UNCHANGED <<wall, next, past, after, turn>> /\ peak' = Later(peak, wall)
      BY <1>8 DEF IsAfterReadsWall, wallVars
    <2>2. /\ peak' \in Nat /\ peak <= peak'
          /\ (wall < peak)' = (wall < peak)
      BY <2>1 DEF Later, TypeOK
    <2>3. peak * Logical \in Nat /\ peak' * Logical \in Nat
            /\ peak * Logical <= peak' * Logical
      BY <2>2, CandidateGrows DEF TypeOK
    <2>4. PastIsCovered'
      BY <2>1, <2>3 DEF PastIsCovered, TypeOK
    <2> QED BY <2>1, <2>2, <2>4
  <1>9. ASSUME NEW t \in Thread, IsAfterAnswers(t)
        PROVE  PastIsCovered' /\ [C!Next]_C!clockVars
    <2>1. call[t].then \in Nat /\ call[t].wall \in Nat /\ call[t].wall <= peak
      BY <1>9, CallFields DEF IsAfterAnswers, TypeOK, CallsAreSound
    <2>2. call[t].wall * Logical \in Nat /\ peak * Logical \in Nat
            /\ call[t].wall * Logical <= peak * Logical
      BY <2>1, CandidateGrows DEF TypeOK
    <2>3. UNCHANGED <<wall, next, past, peak, turn>>
      BY <1>9 DEF IsAfterAnswers, wallVars
    <2>4. CASE UNCHANGED after
      BY <1>3, <2>3, <2>4 DEF TypeOK
    <2>5. CASE /\ Confirmed(call[t].then)
               /\ call[t].then < Later(next, call[t].wall * Logical)
      <3>1. call[t].then < next \/ call[t].then < peak * Logical
        BY <2>1, <2>2, <2>5 DEF Later, TypeOK
      <3>2. after' = after \/ (after' = call[t].then /\ after' > after)
        <4>1. after \in Int /\ call[t].then \in Int
          BY <2>1 DEF TypeOK
        <4> QED BY <2>5, <4>1 DEF Confirmed, Later
      <3>3. PastIsCovered'
        BY <2>3, <3>1, <3>2 DEF PastIsCovered, TypeOK
      <3>4. (wall < peak)' = (wall < peak)
        BY <2>3
      <3> QED BY <2>3, <3>2, <3>3, <3>4
    <2> QED BY <1>9, <2>4, <2>5 DEF IsAfterAnswers
  <1>10. ASSUME NEW t \in Thread, NEW then \in Stamp,
                WaitUntilAfter(t, then) \/ WaitUntilAfterLocally(t, then)
         PROVE  PastIsCovered' /\ [C!Next]_C!clockVars
    BY <1>1, <1>3, <1>10
    DEF WaitUntilAfter, WaitUntilAfterLocally, ReadClock, TypeOK
  <1>11. ASSUME NEW t \in Thread, SleepEnds(t) \/ WaitLocallyTimesOut(t)
         PROVE  PastIsCovered' /\ [C!Next]_C!clockVars
    BY <1>1, <1>3, <1>11
    DEF SleepEnds, WaitLocallyTimesOut, ReadClock, TypeOK
  <1>12. ASSUME NEW t \in Thread, WaitLocallyLoops(t)
         PROVE  PastIsCovered' /\ [C!Next]_C!clockVars
    <2>1. call[t].then \in Nat
      BY <1>12, CallFields DEF WaitLocallyLoops, TypeOK
    <2>2. next' = NowStamp + 1 /\ UNCHANGED <<wallVars, peak, after, turn>>
      BY <1>12 DEF WaitLocallyLoops, ReadClock
    <2>3. CASE UNCHANGED past
      BY <1>1, <1>3, <2>2, <2>3 DEF TypeOK
    <2>4. CASE NowStamp > call[t].then /\ Passed(call[t].then)
      BY <1>1, <1>2, <1>4, <2>1, <2>2, <2>4 DEF TypeOK
    <2> QED BY <1>12, <2>3, <2>4 DEF WaitLocallyLoops
  <1>13. CASE UNCHANGED hybridVars
    BY <1>3, <1>13 DEF hybridVars, wallVars, TypeOK
  <1> QED
    BY <1>5, <1>6, <1>7, <1>8, <1>9, <1>10, <1>11, <1>12, <1>13
    DEF Next, ThreadStep

-----------------------------------------------------------------------------
(* The calls in progress and the true time.                                *)

LEMMA StepKeepsTime ==
  ASSUME TypeOK, TypeOK', CallsAreSound, SystemClockIsPlausible,
         [Next]_hybridVars
  PROVE  CallsAreSound' /\ SystemClockIsPlausible'
  <1> DEFINE Physical(stamp) == GetPhysicalValueMicros(stamp)
  <1>1. ASSUME UNCHANGED <<mock, call, waited, peak>>, trueTime' >= trueTime,
               ~mock => wall' \in Time /\ Plausible(trueTime', wall', err')
        PROVE  CallsAreSound' /\ SystemClockIsPlausible'
    <2>1. CallsAreSound'
      BY <1>1 DEF CallsAreSound, GetPhysicalValueMicros
    <2>2. SystemClockIsPlausible'
      <3>1. ~mock => waited <= trueTime'
        BY <1>1, HybridAssumption DEF SystemClockIsPlausible, TypeOK
      <3> QED BY <1>1, <3>1 DEF SystemClockIsPlausible, Plausible
    <2> QED BY <2>1, <2>2
  <1>2. ASSUME UNCHANGED <<wallVars, call, waited, peak>>
        PROVE  CallsAreSound' /\ SystemClockIsPlausible'
    BY <1>2
    DEF wallVars, CallsAreSound, SystemClockIsPlausible, Plausible,
        GetPhysicalValueMicros
  <1>3. ASSUME UNCHANGED <<wallVars, waited>>, peak' >= peak,
               NEW t \in Thread, NEW c, call' = [call EXCEPT ![t] = c],
               c.op = "is_after" => c.wall <= peak',
               c.op = "sleep" /\ ~mock => Physical(c.then) <= c.until
        PROVE  CallsAreSound' /\ SystemClockIsPlausible'
    <2>1. CallsAreSound'
      <3>1. ASSUME NEW u \in Thread, u # t, call[u].op = "is_after"
            PROVE  call[u].wall <= peak'
        <4>1. call[u].wall \in Nat
          BY <3>1, CallFields DEF TypeOK
        <4> QED BY <1>3, <3>1, <4>1 DEF CallsAreSound, TypeOK
      <3> QED
        BY <1>3, <3>1 DEF wallVars, CallsAreSound, GetPhysicalValueMicros, TypeOK
    <2> QED BY <1>3, <2>1 DEF wallVars, SystemClockIsPlausible, Plausible
  <1>4. Idle.op = "idle"
    BY DEF Idle
  <1>5. CASE SystemClockMoves
    BY <1>1, <1>5, HybridAssumption DEF SystemClockMoves, TypeOK
  <1>6. CASE SetMockWallClock
    BY <1>1, <1>6, HybridAssumption DEF SetMockWallClock, TypeOK
  <1>7. CASE ClockUnsynchronized
    BY <1>2, <1>7 DEF ClockUnsynchronized
  <1>8. CASE Now
    BY <1>2, <1>8 DEF Now
  <1>9. CASE \E then \in Stamp : Update(then)
    BY <1>2, <1>9 DEF Update
  <1>10. ASSUME NEW t \in Thread, NEW then \in Stamp, IsAfterReadsWall(t, then)
         PROVE  CallsAreSound' /\ SystemClockIsPlausible'
    <2> DEFINE c == [op |-> "is_after", then |-> then, wall |-> wall]
    <2>1. /\ UNCHANGED <<wallVars, waited>> /\ call' = [call EXCEPT ![t] = c]
          /\ peak' = Later(peak, wall)
      BY <1>10 DEF IsAfterReadsWall
    <2>2. c.op = "is_after" /\ c.wall <= peak' /\ peak' >= peak
      BY <2>1 DEF Later, TypeOK
    <2> HIDE DEF c
    <2> QED BY <1>3, <2>1, <2>2
  <1>11. ASSUME NEW t \in Thread,
                \/ IsAfterAnswers(t)
                \/ WaitLocallyLoops(t)
                \/ WaitLocallyTimesOut(t)
         PROVE  CallsAreSound' /\ SystemClockIsPlausible'
    <2>1. /\ UNCHANGED <<wallVars, waited, peak>>
          /\ UNCHANGED call \/ call' = [call EXCEPT ![t] = Idle]
      BY <1>11 DEF IsAfterAnswers, WaitLocallyLoops, WaitLocallyTimesOut
    <2> QED BY <1>2, <1>3, <1>4, <2>1 DEF TypeOK
  <1>12. ASSUME NEW t \in Thread, NEW then \in Stamp,
                WaitUntilAfterLocally(t, then)
         PROVE  CallsAreSound' /\ SystemClockIsPlausible'
    <2> DEFINE c == [op |-> "wait_locally", then |-> then]
    <2>1. c.op = "wait_locally"
      OBVIOUS
    <2>2. UNCHANGED <<wallVars, waited, peak>> /\ call' = [call EXCEPT ![t] = c]
      BY <1>12 DEF WaitUntilAfterLocally
    <2>3. peak' >= peak
      BY <2>2 DEF TypeOK
    <2> HIDE DEF c
    <2> QED BY <1>3, <2>1, <2>2, <2>3
  <1>13. ASSUME NEW t \in Thread, NEW then \in Stamp, WaitUntilAfter(t, then)
         PROVE  CallsAreSound' /\ SystemClockIsPlausible'
    <2> DEFINE c == [op |-> "sleep", then |-> then,
                     until |-> trueTime + (Physical(then) - NowEarliest)]
    <2>1. /\ Physical(then) \in Nat
          /\ NowEarliest = wall - err
          /\ ~mock => wall - err <= trueTime /\ wall - err >= 0
      <3>1. Physical(then) \in Nat /\ NowEarliest = wall - err
        BY PhysicalOfStamp, EarliestIsOfWall, HybridAssumption
      <3>2. InSync
        BY <1>13 DEF WaitUntilAfter, ReadClock, Synchronized
      <3>3. ~mock => wall > MaxError /\ wall - err <= trueTime
        BY HybridAssumption DEF SystemClockIsPlausible, Plausible
      <3> QED BY <3>1, <3>2, <3>3, HybridAssumption DEF InSync, TypeOK
    <2>2. CASE UNCHANGED <<call, waited>>
      BY <1>2, <1>13, <2>2 DEF WaitUntilAfter
    <2>3. CASE /\ UNCHANGED call
               /\ NowEarliest < 0 \/ Physical(then) < NowEarliest
               /\ waited' = Later(waited, Physical(then))
      <3>1. UNCHANGED <<wallVars, peak>>
        BY <1>13 DEF WaitUntilAfter
      <3>2. ~mock => waited' <= trueTime
        BY <2>1, <2>3, HybridAssumption
        DEF SystemClockIsPlausible, Later, TypeOK
      <3>3. CallsAreSound'
        BY <2>3, <3>1 DEF wallVars, CallsAreSound, GetPhysicalValueMicros
      <3> QED
        BY <3>1, <3>2, <3>3 DEF wallVars, SystemClockIsPlausible, Plausible
    <2>4. CASE UNCHANGED waited /\ call' = [call EXCEPT ![t] = c]
      <3>1. ~mock => Physical(then) <= trueTime + (Physical(then) - NowEarliest)
        BY <2>1, HybridAssumption DEF TypeOK
      <3>2. /\ c.op = "sleep"
            /\ ~mock => Physical(c.then) <= c.until
        BY <3>1
      <3>3. UNCHANGED <<wallVars, waited, peak>>
        BY <1>13, <2>4 DEF WaitUntilAfter
      <3>4. peak' >= peak
        BY <3>3 DEF TypeOK
      <3> HIDE DEF c
      <3> QED BY <1>3, <2>4, <3>2, <3>3, <3>4
    <2> QED BY <1>13, <2>2, <2>3, <2>4 DEF WaitUntilAfter
  <1>14. ASSUME NEW t \in Thread, SleepEnds(t)
         PROVE  CallsAreSound' /\ SystemClockIsPlausible'
    <2>1. /\ UNCHANGED <<wallVars, peak>>
          /\ call' = [call EXCEPT ![t] = Idle]
          /\ waited' = Later(waited, Physical(call[t].then))
      BY <1>14 DEF SleepEnds
    <2>2. ~mock => waited' <= trueTime
      <3>1. call[t].then \in Nat /\ call[t].until \in Nat
        BY <1>14, CallFields DEF SleepEnds, TypeOK
      <3>2. Physical(call[t].then) \in Nat
        BY <3>1, PhysicalOfStamp
      <3>3. ~mock => Physical(call[t].then) <= trueTime
        BY <1>14, <3>1, <3>2, HybridAssumption DEF SleepEnds, CallsAreSound, TypeOK
      <3> QED BY <2>1, <3>2, <3>3 DEF SystemClockIsPlausible, Later, TypeOK
    <2>3. CallsAreSound'
      BY <1>4, <2>1 DEF wallVars, CallsAreSound, GetPhysicalValueMicros, TypeOK
    <2> QED BY <2>1, <2>2, <2>3 DEF wallVars, SystemClockIsPlausible, Plausible
  <1>15. CASE UNCHANGED hybridVars
    BY <1>2, <1>15 DEF hybridVars
  <1> QED
    BY <1>5, <1>6, <1>7, <1>8, <1>9, <1>10, <1>11, <1>12, <1>13, <1>14, <1>15
    DEF Next, ThreadStep

-----------------------------------------------------------------------------
(* The theorems.                                                           *)

LEMMA InitHolds == Init => HybridInv /\ C!Init
  <1> SUFFICES ASSUME Init PROVE HybridInv /\ C!Init
    OBVIOUS
  <1>1. TypeOK
    <2>1. ASSUME wall = 0 /\ err = 0 PROVE wall \in Nat /\ err \in Nat
      BY <2>1
    <2>2. ASSUME wall \in Time /\ err \in 0 .. MaxError
          PROVE  wall \in Nat /\ err \in Nat
      BY <2>2, HybridAssumption
    <2>3. trueTime \in Time /\ wall \in Nat /\ err \in Nat
      BY <2>1, <2>2 DEF Init
    <2>4. call \in [Thread -> Call]
      BY DEF Init, Call
    <2>5. mock \in BOOLEAN /\ up \in BOOLEAN /\ turn \in BOOLEAN
      BY DEF Init
    <2>6. /\ next \in Nat /\ waited \in Nat /\ peak \in Nat
          /\ past \in Nat \cup {-1} /\ after \in Nat \cup {-1}
      BY DEF Init
    <2> QED BY <2>3, <2>4, <2>5, <2>6 DEF TypeOK
  <1>2. PastIsCovered
    BY DEF Init, PastIsCovered
  <1>3. CallsAreSound
    BY DEF Init, CallsAreSound, Idle
  <1>4. SystemClockIsPlausible
    BY HybridAssumption DEF Init, SystemClockIsPlausible
  <1>5. (wall < peak) = FALSE
    BY <1>1 DEF Init, TypeOK
  <1> QED BY <1>1, <1>2, <1>3, <1>4, <1>5 DEF HybridInv, Init, C!Init

(* HybridInv is an invariant: among the rest, whatever the clock returned, *)
(* accepted or waited for is below next_timestamp_, and what IsAfter()     *)
(* confirmed is below it or below a wall clock reading, with a wall clock  *)
(* that may be set back at any time.                                       *)
THEOREM HybridInvariant == Spec => []HybridInv
  <1>1. Init => HybridInv
    BY InitHolds
  <1>2. HybridInv /\ [Next]_hybridVars => HybridInv'
    BY TypeKept, StepKeepsClock, StepKeepsTime DEF HybridInv
  <1> QED BY <1>1, <1>2, PTL DEF Spec

(* The hybrid clock implements Clock: Now() strictly increases, past every *)
(* timestamp Update() accepted or a local wait waited for, whatever the    *)
(* wall clock does; and past every timestamp IsAfter() confirmed, unless   *)
(* the wall clock shows less than IsAfter() has read.                      *)
THEOREM HybridMeetsClock == Spec => ClockSpec
  <1>1. Init => C!Init
    BY InitHolds
  <1>2. HybridInv /\ [Next]_hybridVars => [C!Next]_C!clockVars
    BY StepKeepsClock DEF HybridInv
  <1> QED BY <1>1, <1>2, HybridInvariant, PTL DEF Spec, ClockSpec, C!Spec

(* A plausible wall clock is enough for the error bounds.                  *)
LEMMA PlausibleIsEnough ==
  ASSUME TypeOK, SystemClockIsPlausible
  PROVE  ErrorBoundsHold
  <1>1. WaitedTimeIsPast
    BY DEF SystemClockIsPlausible, WaitedTimeIsPast
  <1>2. TrueTimeIsInInterval
    <2> SUFFICES ASSUME ~mock
                 PROVE  LET physical == GetPhysicalValueMicros(NowStamp)
                        IN  /\ physical - NowError <= trueTime
                            /\ trueTime <= physical + NowError
      BY DEF TrueTimeIsInInterval
    <2>1. /\ wall - err <= trueTime /\ trueTime <= wall + err
          /\ wall \in Nat /\ err \in Nat /\ next \in Nat /\ trueTime \in Nat
      BY HybridAssumption
      DEF SystemClockIsPlausible, Plausible, TypeOK
    <2>2. CASE Candidate > next
      <3>1. GetPhysicalValueMicros(NowStamp) = wall /\ NowError = err
        BY <2>1, <2>2, PhysicalOfWall DEF NowStamp, NowError, Candidate
      <3> QED BY <2>1, <3>1
    <2>3. CASE ~(Candidate > next)
      <3>1. /\ NowStamp = next
            /\ NowError = GetPhysicalValueMicros(next) - (wall - err)
        BY <2>3 DEF NowStamp, NowError
      <3>2. GetPhysicalValueMicros(next) >= wall
        <4>1. Candidate \in Nat /\ Candidate <= next
          BY <2>1, <2>3, HybridAssumption DEF Candidate
        <4>2. GetPhysicalValueMicros(Candidate)
                <= GetPhysicalValueMicros(next)
          BY <2>1, <4>1, HybridAssumption DEF GetPhysicalValueMicros
        <4>3. GetPhysicalValueMicros(Candidate) = wall
          BY <2>1, PhysicalOfWall DEF Candidate
        <4> QED BY <4>2, <4>3
      <3>3. GetPhysicalValueMicros(next) \in Nat
        BY <2>1, PhysicalOfStamp
      <3> QED BY <2>1, <3>1, <3>2, <3>3
    <2> QED BY <2>2, <2>3
  <1> QED BY <1>1, <1>2 DEF ErrorBoundsHold

(* WaitUntilAfter returns OK only when the true time has been reached, and *)
(* the error interval of every reading holds the true time.                *)
THEOREM HybridBoundsHold == Spec => []ErrorBoundsHold
  <1>1. HybridInv => ErrorBoundsHold
    BY PlausibleIsEnough DEF HybridInv
  <1> QED BY <1>1, HybridInvariant, PTL

-----------------------------------------------------------------------------
(* The logical clock.                                                      *)

(* One step: the counter stays at or above what was reported, and what the *)
(* step does is a step of Clock or none.                                   *)
LEMMA LogicalStep ==
  ASSUME L!LogicalInv, [L!Next]_L!logicalVars
  PROVE  L!LogicalInv' /\ [L!C!Next]_L!C!clockVars
  <1>0. Stamp \subseteq Nat
    BY HybridAssumption
  <1> USE <1>0
      DEF L!LogicalInv, L!TypeOK, L!SwapsGoUp, L!C!Next, L!C!Now, L!C!Report,
          L!C!Confirm, L!C!clockVars
  <1>1. CASE L!Now
    <2>1. now' = now + 1 /\ past' = now + 1 /\ past' > past /\ past' > after
      BY <1>1 DEF L!Now, L!Passed, L!Later
    <2>2. L!LogicalInv'
      BY <1>1, <2>1 DEF L!Now
    <2> QED BY <1>1, <2>1, <2>2 DEF L!Now
  <1>7. ASSUME NEW then \in Stamp, L!IsAfter(then)
        PROVE  L!LogicalInv' /\ [L!C!Next]_L!C!clockVars
    <2>1. after' \in Nat \cup {-1} /\ after' >= after /\ after' <= now
      BY <1>7 DEF L!IsAfter, L!Later
    <2>2. after' > after \/ after' = after
      BY <2>1
    <2> QED BY <1>7, <2>1, <2>2 DEF L!IsAfter
  <1>2. ASSUME NEW then \in Stamp, L!WaitUntilAfterLocally(then)
        PROVE  L!LogicalInv' /\ [L!C!Next]_L!C!clockVars
    <2>1. past' \in Nat \cup {-1} /\ past' >= past /\ past' <= now
      BY <1>2 DEF L!WaitUntilAfterLocally, L!Passed, L!Later
    <2>2. past' > past \/ past' = past
      BY <2>1
    <2> QED BY <1>2, <2>1, <2>2 DEF L!WaitUntilAfterLocally
  <1>3. ASSUME NEW t \in Thread, NEW then \in Stamp, L!UpdateCalled(t, then)
        PROVE  L!LogicalInv' /\ [L!C!Next]_L!C!clockVars
    BY <1>3 DEF L!UpdateCalled
  <1>4. ASSUME NEW t \in Thread, L!UpdateLoads(t)
        PROVE  L!LogicalInv' /\ [L!C!Next]_L!C!clockVars
    <2>1. update[t] \in [op : {"load"}, then : Stamp]
      BY <1>4 DEF L!UpdateLoads, L!NoUpdate
    <2>2. past' \in Nat \cup {-1} /\ past' >= past /\ past' <= now
      BY <1>4, <2>1 DEF L!UpdateLoads, L!Passed, L!Later
    <2>3. past' > past \/ past' = past
      BY <2>2
    <2>4. update' \in [Thread -> {L!NoUpdate}
                         \cup [op : {"load"}, then : Stamp]
                         \cup [op : {"swap"}, then : Stamp, current : Nat]]
      BY <1>4, <2>1 DEF L!UpdateLoads
    <2>5. CASE update' = [update EXCEPT ![t] = L!NoUpdate]
      <3>1. L!SwapsGoUp'
        BY <2>5 DEF L!NoUpdate
      <3> QED BY <1>4, <2>2, <2>3, <2>4, <3>1 DEF L!UpdateLoads
    <2>6. CASE /\ update[t].then > now
               /\ update' = [update EXCEPT ![t] = [op |-> "swap",
                    then |-> update[t].then, current |-> now]]
      <3>1. L!SwapsGoUp'
        BY <2>1, <2>6
      <3> QED BY <1>4, <2>2, <2>3, <2>4, <3>1 DEF L!UpdateLoads
    <2> QED BY <1>4, <2>1, <2>5, <2>6 DEF L!UpdateLoads
  <1>5. ASSUME NEW t \in Thread, L!UpdateSwaps(t)
        PROVE  L!LogicalInv' /\ [L!C!Next]_L!C!clockVars
    <2>1. update[t] \in [op : {"swap"}, then : Stamp, current : Nat]
      BY <1>5 DEF L!UpdateSwaps, L!NoUpdate
    <2>2. update' \in [Thread -> {L!NoUpdate}
                         \cup [op : {"load"}, then : Stamp]
                         \cup [op : {"swap"}, then : Stamp, current : Nat]]
      BY <1>5, <2>1 DEF L!UpdateSwaps
    <2>3. CASE UNCHANGED <<now, past>>
      BY <1>5, <2>2, <2>3 DEF L!UpdateSwaps, L!NoUpdate
    <2>4. CASE /\ now = update[t].current
               /\ now' = update[t].then
               /\ L!Passed(update[t].then)
               /\ update' = [update EXCEPT ![t] = L!NoUpdate]
      <3>1. past' = update[t].then /\ past' > past /\ past' = now'
        BY <1>5, <2>1, <2>4 DEF L!UpdateSwaps, L!Passed, L!Later
      <3>2. L!SwapsGoUp'
        BY <2>4 DEF L!NoUpdate
      <3>3. L!LogicalInv'
        BY <1>5, <2>1, <2>2, <2>4, <3>1, <3>2 DEF L!UpdateSwaps
      <3> QED BY <1>5, <3>1, <3>3 DEF L!UpdateSwaps
    <2> QED BY <1>5, <2>3, <2>4 DEF L!UpdateSwaps
  <1>6. CASE UNCHANGED L!logicalVars
    BY <1>6 DEF L!logicalVars
  <1> QED BY <1>1, <1>2, <1>3, <1>4, <1>5, <1>6, <1>7 DEF L!Next

LEMMA LogicalInitHolds == L!Init => L!LogicalInv /\ L!C!Init
  <1> SUFFICES ASSUME L!Init PROVE L!LogicalInv /\ L!C!Init
    OBVIOUS
  <1>1. L!TypeOK
    BY DEF L!Init, L!TypeOK
  <1>2. past <= now /\ after <= now /\ L!C!Init
    BY DEF L!Init, L!C!Init
  <1>3. L!SwapsGoUp
    BY DEF L!Init, L!SwapsGoUp, L!NoUpdate
  <1> QED BY <1>1, <1>2, <1>3 DEF L!LogicalInv

(* LogicalInv is an invariant of the logical clock.                        *)
THEOREM LogicalInvariant == L!Spec => []L!LogicalInv
  <1>1. L!LogicalInv /\ [L!Next]_L!logicalVars => L!LogicalInv'
    BY LogicalStep
  <1> QED BY <1>1, LogicalInitHolds, PTL DEF L!Spec

(* The logical clock implements Clock, although Update() swaps in a value  *)
(* some time after it read the counter; it has no physical source, so that *)
(* every timestamp IsAfter() confirmed has passed without exception.       *)
THEOREM LogicalMeetsClock == L!Spec => L!ClockSpec
  <1>1. L!LogicalInv /\ [L!Next]_L!logicalVars => [L!C!Next]_L!C!clockVars
    BY LogicalStep
  <1> QED
    BY <1>1, LogicalInitHolds, LogicalInvariant, PTL DEF L!Spec, L!ClockSpec, L!C!Spec

-----------------------------------------------------------------------------
(* The server's clock.                                                     *)

(* The clock in use keeps its invariant, and the hybrid clock's part of    *)
(* the state keeps what its error bounds rest on, also when it is not.     *)
ClockInv ==
  /\ usesHybrid \in BOOLEAN
  /\ TypeOK /\ CallsAreSound /\ SystemClockIsPlausible
  /\ IF usesHybrid THEN PastIsCovered ELSE L!LogicalInv

LEMMA ServerStep ==
  ASSUME ClockInv, [ServerNext]_serverVars
  PROVE  ClockInv' /\ [C!Next]_C!clockVars
  <1>1. CASE HybridNext
    <2>1. usesHybrid /\ usesHybrid' /\ HybridInv /\ Next
      BY <1>1 DEF HybridNext, HybridInv, ClockInv
    <2>2. HybridInv' /\ [C!Next]_C!clockVars
      BY <2>1, TypeKept, StepKeepsClock, StepKeepsTime DEF HybridInv
    <2> QED BY <2>1, <2>2 DEF HybridInv, ClockInv
  <1>2. CASE LogicalNext
    <2>1. /\ ~usesHybrid /\ usesHybrid' = usesHybrid /\ L!LogicalInv /\ L!Next
          /\ UNCHANGED <<wallVars, next, call, up, waited, peak>>
      BY <1>2 DEF LogicalNext, ClockInv
    <2>2. L!LogicalInv' /\ [L!C!Next]_L!C!clockVars
      BY <2>1, LogicalStep
    <2>3. past' \in Nat \cup {-1} /\ after' \in Nat \cup {-1} /\ turn' \in BOOLEAN
      BY <2>2 DEF L!LogicalInv, L!TypeOK
    <2>4. TypeOK'
      BY <2>1, <2>3 DEF ClockInv, TypeOK, wallVars
    <2>5. CallsAreSound' /\ SystemClockIsPlausible'
      BY <2>1 DEF ClockInv, CallsAreSound, SystemClockIsPlausible, Plausible, wallVars
    <2>6. [C!Next]_C!clockVars
      <3>1. (wall < peak)' = (wall < peak)
        BY <2>1 DEF wallVars
      <3> QED
        BY <2>2, <3>1
        DEF C!Next, C!Now, C!Report, C!Confirm, C!clockVars, L!C!Next, L!C!Now,
            L!C!Report, L!C!Confirm, L!C!SourceMoves, L!C!clockVars
    <2> QED BY <2>1, <2>2, <2>4, <2>5, <2>6 DEF ClockInv
  <1>3. CASE UNCHANGED serverVars
    <2>1. UNCHANGED <<mock, trueTime, wall, err, next, call, up, waited, peak,
                      past, after, turn, usesHybrid, now, update>>
      BY <1>3 DEF serverVars, hybridVars, wallVars
    <2>2. TypeOK' /\ CallsAreSound' /\ SystemClockIsPlausible'
      BY <2>1 DEF ClockInv, TypeOK, CallsAreSound, SystemClockIsPlausible, Plausible
    <2>3. usesHybrid => PastIsCovered'
      BY <2>1 DEF ClockInv, PastIsCovered
    <2>4. ~usesHybrid => L!LogicalInv'
      BY <2>1 DEF ClockInv, L!LogicalInv, L!TypeOK, L!SwapsGoUp
    <2> QED BY <2>1, <2>2, <2>3, <2>4 DEF ClockInv, C!clockVars
  <1> QED BY <1>1, <1>2, <1>3 DEF ServerNext

LEMMA ServerInitHolds == ServerInit => ClockInv /\ C!Init
  BY InitHolds, LogicalInitHolds DEF ServerInit, ClockInv, HybridInv

LEMMA ServerInvariance == ServerSpec => []ClockInv
  <1>1. ClockInv /\ [ServerNext]_serverVars => ClockInv'
    BY ServerStep
  <1> QED BY <1>1, ServerInitHolds, PTL DEF ServerSpec

(* The invariant of the clock in use (ServerInv of the run server_clock).  *)
THEOREM ServerInvariant == ServerSpec => []ServerInv
  <1>1. ClockInv => ServerInv
    BY DEF ClockInv, ServerInv, HybridInv
  <1> QED BY <1>1, ServerInvariance, PTL

(* Whichever clock a server is built with, Now() strictly increases, past  *)
(* every timestamp accepted or waited for, and past every one that         *)
(* IsAfter() confirmed while the wall clock is not set back behind what    *)
(* IsAfter() read (ClockSpec of the run).                                  *)
THEOREM ServerMeetsClock == ServerSpec => ClockSpec
  <1>1. ClockInv /\ [ServerNext]_serverVars => [C!Next]_C!clockVars
    BY ServerStep
  <1> QED
    BY <1>1, ServerInitHolds, ServerInvariance, PTL DEF ServerSpec, ClockSpec, C!Spec

(* The error bounds hold on every server (ErrorBoundsHold of the run).     *)
THEOREM ServerBoundsHold == ServerSpec => []ErrorBoundsHold
  <1>1. ClockInv => ErrorBoundsHold
    BY PlausibleIsEnough DEF ClockInv
  <1> QED BY <1>1, ServerInvariance, PTL
=============================================================================
