---------------------------- MODULE Devices_proofs ----------------------------
(***************************************************************************)
(* What the programs of nodes/ drive and speak, for all constants: widths  *)
(* of the system time, parameters, sets of levels and requests.  One       *)
(* section per component; no component knows of another.                   *)
(***************************************************************************)
EXTENDS Devices, TLAPS

-----------------------------------------------------------------------------
(* The counting input, for every width of the system time and every        *)
(* minimum time: a counted rise was stable in all samples.                 *)

EventTypeOK ==
  /\ pad \in {0, 1} /\ lastState \in {0, 1} /\ lastStableState \in {0, 1}
  /\ stableMin \in MinStable
  /\ changeAge \in 0 .. COUNT_WRAP - 1
  /\ sampledHigh \in 0 .. COUNT_WRAP
  /\ eventCount \in Nat /\ pulses \in Nat

(* While the last change was to high, all samples since then were high:    *)
(* a change age that has wrapped is younger than that, never older.        *)
HighSinceChange == stableMin # 0 /\ lastState = 1 => sampledHigh > changeAge

(* A rise that is still to be counted has its pulse.                       *)
EachHasPulse ==
  IF pad = 1 /\ lastStableState = 0 THEN eventCount < pulses ELSE eventCount <= pulses

CountInv == EventTypeOK /\ HighSinceChange /\ EachHasPulse

LEMMA AgeAdvances ==
  ASSUME NEW a \in 0 .. COUNT_WRAP - 1
  PROVE  /\ (a + 1) % COUNT_WRAP \in 0 .. COUNT_WRAP - 1
         /\ (a + 1) % COUNT_WRAP <= a + 1
<1> DEFINE n == a + 1
<1>1. n \in Nat /\ COUNT_WRAP \in Nat \ {0} /\ n <= COUNT_WRAP
  BY EventAssumption
<1>2. n % COUNT_WRAP \in 0 .. COUNT_WRAP - 1
  BY <1>1
<1>3. n < COUNT_WRAP => n % COUNT_WRAP = n
  BY <1>1
<1>4. n % COUNT_WRAP <= n
  BY <1>1, <1>2, <1>3
<1>5. QED
  BY <1>2, <1>4

LEMMA CountInv_init == EventInit => CountInv
<1>1. 0 \in 0 .. COUNT_WRAP - 1 /\ 0 \in 0 .. COUNT_WRAP
  BY EventAssumption
<1>2. QED
  BY <1>1 DEF EventInit, CountInv, EventTypeOK, HighSinceChange, EachHasPulse

LEMMA CountInv_change == CountInv /\ ChangePad => CountInv'
BY DEF CountInv, ChangePad, EventTypeOK, HighSinceChange, EachHasPulse

LEMMA CountInv_pass == CountInv /\ EventPass => CountInv'
<1> SUFFICES ASSUME CountInv, EventPass PROVE CountInv'
  OBVIOUS
<1>1. /\ changeAge' \in 0 .. COUNT_WRAP - 1
      /\ changeAge' <= changeAge + 1
  BY AgeAdvances DEF CountInv, EventTypeOK, EventPass
<1>2. EventTypeOK'
  BY <1>1, EventAssumption DEF CountInv, EventTypeOK, EventPass
<1>3. HighSinceChange'
  BY <1>1, EventAssumption DEF CountInv, EventTypeOK, HighSinceChange, EventPass
<1>4. EachHasPulse'
  BY DEF CountInv, EachHasPulse, EventPass
<1>5. QED
  BY <1>2, <1>3, <1>4 DEF CountInv

LEMMA CountInv_acquire == CountInv /\ eventcount_acquire => CountInv'
<1> SUFFICES ASSUME CountInv, eventcount_acquire PROVE CountInv'
  OBVIOUS
<1>1. COUNT_WRAP \in Nat \ {0}
  BY EventAssumption
<1>2. EventTypeOK'
  BY <1>1 DEF CountInv, EventTypeOK, eventcount_acquire
<1>3. HighSinceChange'
  BY <1>1 DEF CountInv, EventTypeOK, HighSinceChange, eventcount_acquire, isStable
<1>4. EachHasPulse'
  BY DEF CountInv, EventTypeOK, EachHasPulse, eventcount_acquire
<1>5. QED
  BY <1>2, <1>3, <1>4 DEF CountInv

LEMMA CountInv_step == CountInv /\ [EventNext]_eventVars => CountInv'
<1> SUFFICES ASSUME CountInv, [EventNext]_eventVars PROVE CountInv'
  OBVIOUS
<1>1. CASE ChangePad
  BY <1>1, CountInv_change
<1>2. CASE EventPass
  BY <1>2, CountInv_pass
<1>3. CASE eventcount_acquire
  BY <1>3, CountInv_acquire
<1>4. CASE UNCHANGED eventVars
  BY <1>4 DEF eventVars, CountInv, EventTypeOK, HighSinceChange, EachHasPulse
<1>5. QED
  BY <1>1, <1>2, <1>3, <1>4 DEF EventNext

(* The invariant behind the count. *)
THEOREM CountInvariant == EventSpec => []CountInv
BY CountInv_init, CountInv_step, PTL DEF EventSpec

(* A rise is only counted when all samples were high for more than the     *)
(* minimum time, and the counter is never ahead of the input               *)
(* (eventcount_acquire), also over the wrap of the system time.            *)
THEOREM OnlyStableCounted == EventSpec => CountsStable
<1>1. ASSUME CountInv, [EventNext]_eventVars
      PROVE  [eventCount' > eventCount =>
                /\ stableMin = 0 \/ sampledHigh > stableMin + 1
                /\ eventCount' <= pulses]_eventVars
  <2> SUFFICES ASSUME eventCount' > eventCount
               PROVE  /\ stableMin = 0 \/ sampledHigh > stableMin + 1
                      /\ eventCount' <= pulses
    OBVIOUS
  <2>1. eventcount_acquire
    BY <1>1 DEF EventNext, ChangePad, EventPass, eventVars, CountInv, EventTypeOK
  <2>2. isStable /\ pad = 1 /\ lastStableState = 0 /\ eventCount' = eventCount + 1
    BY <1>1, <2>1 DEF eventcount_acquire, CountInv, EventTypeOK
  <2>3. eventCount' <= pulses
    BY <1>1, <2>2 DEF CountInv, EventTypeOK, EachHasPulse
  <2>4. stableMin = 0 \/ sampledHigh > stableMin + 1
    BY <1>1, <2>2, EventAssumption DEF isStable, CountInv, EventTypeOK, HighSinceChange
  <2>5. QED
    BY <2>3, <2>4
<1>2. QED
  BY <1>1, CountInvariant, PTL DEF EventSpec, CountsStable

-----------------------------------------------------------------------------
(* The motion messages of the hallway, for every width of the system time. *)

MotionTypeOK ==
  /\ system_time \in 0 .. TIME_WRAP - 1
  /\ trigger_time \in 0 .. TIME_WRAP - 1
  /\ last_trigger_time \in 0 .. TIME_WRAP - 1
  /\ telling \in BOOLEAN /\ unreported \in BOOLEAN

(* Without motion since the last message there is no stamp later than that *)
(* of the last message: the one is read after the other was sent.          *)
NothingNew ==
  ~unreported /\ ~telling => trigger_time <= last_trigger_time \/ trigger_time = 0

MotionInv == MotionTypeOK /\ NothingNew

LEMMA TimeAdvances ==
  ASSUME NEW t \in 0 .. TIME_WRAP - 1
  PROVE  (t + 1) % TIME_WRAP \in 0 .. TIME_WRAP - 1
<1>1. t + 1 \in Nat /\ TIME_WRAP \in Nat \ {0, 1}
  BY MotionAssumption
<1>2. QED
  BY <1>1

LEMMA MotionInv_step ==
  ASSUME MotionInv, [MotionNext]_motionVars
  PROVE  MotionInv'
<1>1. CASE Pass
  BY <1>1, TimeAdvances DEF Pass, MotionInv, MotionTypeOK, NothingNew
<1>2. CASE MotionSeen
  BY <1>2 DEF MotionSeen, MotionInv, MotionTypeOK, NothingNew
<1>3. CASE TellMotion
  <2>1. lastTriggerTime \in 0 .. TIME_WRAP - 1 /\ isNewTrigger \in BOOLEAN
    BY DEF lastTriggerTime, isNewTrigger, MotionInv, MotionTypeOK
  <2>2. MotionTypeOK'
    BY <1>3, <2>1 DEF TellMotion, MotionInv, MotionTypeOK
  <2>3. CASE isNewTrigger
    <3>1. telling'
      BY <1>3, <2>3 DEF TellMotion
    <3>2. QED
      BY <2>2, <3>1 DEF MotionInv, NothingNew
  <2>4. CASE ~isNewTrigger
    <3>1. last_trigger_time' = lastTriggerTime /\ trigger_time' = trigger_time
      BY <1>3 DEF TellMotion
    <3>2. ~(trigger_time > lastTriggerTime)
      BY <2>4 DEF isNewTrigger
    <3>3. trigger_time' <= last_trigger_time'
      BY <3>1, <3>2, <2>1 DEF MotionInv, MotionTypeOK
    <3>4. QED
      BY <2>2, <3>3 DEF MotionInv, NothingNew
  <2>5. QED
    BY <2>3, <2>4
<1>4. CASE KeepTrigger
  <2>1. MotionTypeOK'
    BY <1>4 DEF KeepTrigger, MotionInv, MotionTypeOK
  <2>2. trigger_time' = trigger_time /\ last_trigger_time' = trigger_time
    BY <1>4 DEF KeepTrigger
  <2>3. trigger_time' <= last_trigger_time'
    BY <2>2 DEF MotionInv, MotionTypeOK
  <2>4. QED
    BY <2>1, <2>3 DEF MotionInv, NothingNew
<1>5. CASE UNCHANGED motionVars
  BY <1>5 DEF motionVars, MotionInv, MotionTypeOK, NothingNew
<1>6. QED
  BY <1>1, <1>2, <1>3, <1>4, <1>5 DEF MotionNext

(* The invariant behind the messages. *)
THEOREM MotionInvariant == MotionSpec => []MotionInv
<1>1. MotionInit => MotionInv
  <2>1. 0 \in 0 .. TIME_WRAP - 1 /\ 1 \in 0 .. TIME_WRAP - 1
    BY MotionAssumption
  <2>2. QED
    BY <2>1 DEF MotionInit, MotionInv, MotionTypeOK, NothingNew
<1>2. MotionInv /\ [MotionNext]_motionVars => MotionInv'
  BY MotionInv_step
<1>3. QED
  BY <1>1, <1>2, PTL DEF MotionSpec

(* Every motion message follows a motion of its own (app_tick): no stamp   *)
(* is told twice, also not after the wrap of the system time.              *)
THEOREM EachToldOnce == MotionSpec => ToldOnce
<1>1. ASSUME MotionInv, [MotionNext]_motionVars
      PROVE  [telling' /\ ~telling => unreported]_motionVars
  <2> SUFFICES ASSUME telling', ~telling PROVE unreported
    OBVIOUS
  <2>1. TellMotion /\ isNewTrigger
    BY <1>1 DEF MotionNext, Pass, MotionSeen, TellMotion, KeepTrigger, motionVars
  <2>2. trigger_time > lastTriggerTime
    BY <2>1 DEF isNewTrigger
  <2>3. QED
    BY <1>1, <2>2, MotionAssumption
    DEF lastTriggerTime, MotionInv, MotionTypeOK, NothingNew
<1>2. QED
  BY <1>1, MotionInvariant, PTL DEF MotionSpec, ToldOnce

-----------------------------------------------------------------------------
(* The greywater pump, for every width of the system time and every time   *)
(* limit: it never runs on, and rests after its source ran empty.          *)

Times == 0 .. PUMP_WRAP - 1

PumpTypeOK ==
  /\ pumpClock \in Times
  /\ pump_on_time \in Times /\ refill_on_time \in Times
  /\ last_empty_source_pump_stop \in Times
  /\ pump_state \in {"WAIT", "PUMP", "REFILL_ONLY", "REFILL_PUMP", "ERROR"}
  /\ pumpOnFor \in Nat /\ refillOnFor \in Nat /\ stoppedFor \in Nat
  /\ source_is_empty \in BOOLEAN

(* Until then no deadline wraps. *)
ClockOK == pumpClock + Longest < PUMP_WRAP

(* The stamps are the past. *)
StampsOK ==
  /\ pump_on_time <= pumpClock /\ refill_on_time <= pumpClock
  /\ last_empty_source_pump_stop <= pumpClock

(* What the stamps say of the times they stand for; the refilling begins   *)
(* before the pump helps it.                                               *)
HistoryOK ==
  /\ pumpOn(pump_state) => pumpOnFor <= pumpClock - pump_on_time
  /\ ~pumpOn(pump_state) => pumpOnFor = 0
  /\ refillOn(pump_state) => refillOnFor <= pumpClock - refill_on_time
  /\ ~refillOn(pump_state) => refillOnFor = 0
  /\ pump_state = "REFILL_PUMP" => pumpOnFor <= refillOnFor
  /\ stoppedFor < COOLDOWN => pumpClock - last_empty_source_pump_stop <= stoppedFor
  /\ ticked /\ pump_state = "PUMP" => pumpOnFor <= MAX_PUMP_ON
  /\ ticked /\ refillOn(pump_state) => refillOnFor <= MAX_REFILL

PumpInv == PumpTypeOK /\ (~wrapped => ClockOK /\ StampsOK /\ HistoryOK)

-----------------------------------------------------------------------------

LEMMA LongestIsLongest ==
  /\ Longest \in 1 .. PUMP_WRAP - 1
  /\ MAX_PUMP_ON <= Longest /\ MAX_REFILL <= Longest /\ COOLDOWN <= Longest
<1> DEFINE T == {MAX_PUMP_ON, MAX_REFILL, COOLDOWN}
<1>1. T \subseteq 1 .. PUMP_WRAP - 1 /\ PUMP_WRAP \in Nat
  BY PumpAssumption
<1>2. \E t \in T : \A u \in T : u <= t
  <2>1. CASE MAX_PUMP_ON >= MAX_REFILL /\ MAX_PUMP_ON >= COOLDOWN
    BY <1>1, <2>1
  <2>2. CASE MAX_REFILL >= MAX_PUMP_ON /\ MAX_REFILL >= COOLDOWN
    BY <1>1, <2>2
  <2>3. CASE COOLDOWN >= MAX_PUMP_ON /\ COOLDOWN >= MAX_REFILL
    BY <1>1, <2>3
  <2>4. QED
    BY <1>1, <2>1, <2>2, <2>3
<1>3. Longest \in T /\ \A u \in T : u <= Longest
  BY <1>2 DEF Longest
<1>4. QED
  BY <1>1, <1>3

(* Near no wrap a deadline is the sum it is meant to be. *)
LEMMA DeadlineIsSum ==
  ASSUME NEW stamp \in Times, NEW length \in 0 .. Longest,
         ClockOK, pumpClock \in Times, stamp <= pumpClock
  PROVE  deadline(stamp, length) = stamp + length
<1>1. Longest \in Nat /\ PUMP_WRAP \in Nat \ {0}
  BY LongestIsLongest, PumpAssumption
<1>2. stamp + length \in Nat /\ stamp + length < PUMP_WRAP
  BY <1>1 DEF ClockOK, Times
<1>3. QED
  BY <1>1, <1>2 DEF deadline

LEMMA PumpInv_init == PumpInit => PumpInv
<1> SUFFICES ASSUME PumpInit PROVE PumpInv
  OBVIOUS
<1>1. PUMP_WRAP \in Nat \ {0} /\ COOLDOWN \in Nat /\ 0 \in Times
  BY PumpAssumption DEF Times
<1>2. PumpTypeOK
  BY <1>1 DEF PumpInit, PumpTypeOK
<1>3. ClockOK
  BY <1>1, LongestIsLongest DEF PumpInit, ClockOK
<1>4. StampsOK
  BY DEF PumpInit, StampsOK
<1>5. HistoryOK
  BY <1>1 DEF PumpInit, HistoryOK, pumpOn, refillOn
<1>6. QED
  BY <1>2, <1>3, <1>4, <1>5 DEF PumpInv

LEMMA PumpInv_data == PumpInv /\ on_conduction_sensor_data => PumpInv'
BY DEF PumpInv, on_conduction_sensor_data, PumpTypeOK, ClockOK, StampsOK, HistoryOK, pumpOn,
       refillOn

LEMMA PumpInv_pass ==
  ASSUME PumpInv, PumpPass
  PROVE  PumpInv'
<1>1. /\ Longest \in 1 .. PUMP_WRAP - 1 /\ PUMP_WRAP \in Nat \ {0} /\ COOLDOWN \in Nat
  BY LongestIsLongest, PumpAssumption
<1>2. ~wrapped /\ ClockOK /\ StampsOK /\ HistoryOK /\ PumpTypeOK
  BY DEF PumpInv, PumpPass
<1>3. pumpClock' = pumpClock + 1 /\ pumpClock' \in Times
  <2>1. pumpClock + 1 \in Nat /\ pumpClock + 1 < PUMP_WRAP
    BY <1>1, <1>2 DEF ClockOK, PumpTypeOK, Times
  <2>2. (pumpClock + 1) % PUMP_WRAP = pumpClock + 1
    BY <1>1, <2>1
  <2>3. QED
    BY <2>1, <2>2, <1>1 DEF PumpPass, Times
<1>4. PumpTypeOK'
  BY <1>1, <1>2, <1>3 DEF PumpPass, RunsOn, PumpTypeOK
<1>5. ASSUME ~wrapped' PROVE ClockOK'
  <2>1. ~(pumpClock' + Longest >= PUMP_WRAP)
    BY <1>5, Zenon DEF PumpPass
  <2>2. QED
    BY <1>1, <1>3, <2>1 DEF ClockOK, Times
<1>6. StampsOK'
  BY <1>2, <1>3 DEF PumpPass, StampsOK, PumpTypeOK, Times
<1>7. HistoryOK'
  <2>1. UNCHANGED <<pump_state, pump_on_time, refill_on_time,
                    last_empty_source_pump_stop>> /\ ~ticked'
    BY DEF PumpPass
  <2>2. ASSUME pumpOn(pump_state)
        PROVE  pumpOnFor' <= pumpClock' - pump_on_time'
    BY <1>1, <1>2, <1>3, <2>2 DEF PumpPass, RunsOn, HistoryOK, PumpTypeOK, Times
  <2>3. ASSUME ~pumpOn(pump_state) PROVE pumpOnFor' = 0
    BY <1>2, <2>3 DEF PumpPass, RunsOn, HistoryOK
  <2>4. ASSUME refillOn(pump_state)
        PROVE  refillOnFor' <= pumpClock' - refill_on_time'
    BY <1>1, <1>2, <1>3, <2>4 DEF PumpPass, RunsOn, HistoryOK, PumpTypeOK, Times
  <2>5. ASSUME ~refillOn(pump_state) PROVE refillOnFor' = 0
    BY <1>2, <2>5 DEF PumpPass, RunsOn, HistoryOK
  <2>6. ASSUME pump_state = "REFILL_PUMP" PROVE pumpOnFor' <= refillOnFor'
    <3>1. pumpOn(pump_state) /\ refillOn(pump_state)
      BY <2>6 DEF pumpOn, refillOn
    <3>2. pumpOnFor <= refillOnFor /\ pumpOnFor \in Nat /\ refillOnFor \in Nat
      BY <1>2, <2>6 DEF HistoryOK, PumpTypeOK
    <3>3. QED
      BY <1>1, <3>1, <3>2 DEF PumpPass, RunsOn
  <2>7. ASSUME stoppedFor' < COOLDOWN
        PROVE  pumpClock' - last_empty_source_pump_stop' <= stoppedFor'
    BY <1>1, <1>2, <1>3, <2>7 DEF PumpPass, HistoryOK, PumpTypeOK, Times
  <2>8. QED
    BY <2>1, <2>2, <2>3, <2>4, <2>5, <2>6, <2>7 DEF HistoryOK
<1>8. QED
  BY <1>4, <1>5, <1>6, <1>7 DEF PumpInv

-----------------------------------------------------------------------------
(* The tick *)

NextState(empty, unsteady) == IF override THEN "WAIT" ELSE transition(empty, unsteady)

(* Which states lead to a running pump, and which to running water. *)
LEMMA WhenOn ==
  ASSUME PumpTypeOK, NEW empty \in BOOLEAN, NEW unsteady \in BOOLEAN,
         pumpOn(NextState(empty, unsteady)) \/ refillOn(NextState(empty, unsteady))
  PROVE  \/ /\ pump_state = "WAIT" /\ NextState(empty, unsteady) = "REFILL_ONLY"
         \/ /\ pump_state \in {"REFILL_ONLY", "REFILL_PUMP"}
            /\ NextState(empty, unsteady) = "REFILL_ONLY"
            /\ ~tooLong(refill_on_time, MAX_REFILL)
         \/ /\ pump_state = "WAIT" /\ NextState(empty, unsteady) = "PUMP" /\ ~recentlyStopped
         \/ /\ pump_state = "PUMP" /\ NextState(empty, unsteady) = "PUMP"
            /\ ~tooLong(pump_on_time, MAX_PUMP_ON)
         \/ /\ pump_state = "REFILL_ONLY" /\ NextState(empty, unsteady) = "REFILL_PUMP"
            /\ ~recentlyStopped /\ ~tooLong(refill_on_time, MAX_REFILL)
         \/ /\ pump_state = "REFILL_PUMP" /\ NextState(empty, unsteady) = "REFILL_PUMP"
            /\ ~tooLong(refill_on_time, MAX_REFILL)
BY DEF PumpTypeOK, NextState, transition, pumpOn, refillOn

LEMMA NextStateType ==
  ASSUME PumpTypeOK, NEW empty, NEW unsteady
  PROVE  NextState(empty, unsteady) \in {"WAIT", "PUMP", "REFILL_ONLY", "REFILL_PUMP", "ERROR"}
BY DEF PumpTypeOK, NextState, transition

LEMMA PumpInv_tick ==
  ASSUME PumpInv, pump_receiver_tick
  PROVE  PumpInv'
<1>1. PICK level \in {"low", "between", "high"}, unsteady \in BOOLEAN :
        LET empty == Source(level)
            next  == NextState(empty, unsteady)
        IN  /\ source_is_empty' = empty
            /\ pump_state' = next
            /\ pump_on_time' = IF pumpOn(next) /\ ~pumpOn(pump_state) THEN pumpClock ELSE pump_on_time
            /\ refill_on_time' = IF refillOn(next) /\ ~refillOn(pump_state) THEN pumpClock ELSE refill_on_time
            /\ last_empty_source_pump_stop' =
                 IF sourceStops(empty, unsteady) THEN pumpClock ELSE last_empty_source_pump_stop
            /\ stoppedFor' = IF pumpOn(pump_state) /\ ~pumpOn(next) /\ empty /\ ~refillEnds
                             THEN 0 ELSE stoppedFor
            /\ pumpOnFor' = IF pumpOn(next) THEN pumpOnFor ELSE 0
            /\ refillOnFor' = IF refillOn(next) THEN refillOnFor ELSE 0
            /\ ticked' = TRUE
            /\ UNCHANGED <<pumpClock, target, target_data_update_time, wrapped>>
  BY DEF pump_receiver_tick, NextState
<1> DEFINE empty == Source(level)
           next  == NextState(empty, unsteady)
<1>2. empty \in BOOLEAN
  BY DEF Source, PumpInv, PumpTypeOK
<1>3. PumpTypeOK
  BY DEF PumpInv
<1>4. next \in {"WAIT", "PUMP", "REFILL_ONLY", "REFILL_PUMP", "ERROR"}
  BY <1>3, NextStateType
<1> HIDE DEF empty, next
<1>5. /\ source_is_empty' = empty /\ pump_state' = next /\ ticked' = TRUE
      /\ pump_on_time' = IF pumpOn(next) /\ ~pumpOn(pump_state) THEN pumpClock ELSE pump_on_time
      /\ refill_on_time' = IF refillOn(next) /\ ~refillOn(pump_state) THEN pumpClock ELSE refill_on_time
      /\ last_empty_source_pump_stop' =
           IF sourceStops(empty, unsteady) THEN pumpClock ELSE last_empty_source_pump_stop
      /\ stoppedFor' = IF pumpOn(pump_state) /\ ~pumpOn(next) /\ empty /\ ~refillEnds
                       THEN 0 ELSE stoppedFor
      /\ pumpOnFor' = IF pumpOn(next) THEN pumpOnFor ELSE 0
      /\ refillOnFor' = IF refillOn(next) THEN refillOnFor ELSE 0
      /\ pumpClock' = pumpClock /\ wrapped' = wrapped
  BY <1>1 DEF empty, next
<1>6. PumpTypeOK'
  BY <1>2, <1>3, <1>4, <1>5 DEF PumpTypeOK, Times
<1>7. SUFFICES ASSUME ~wrapped, ClockOK, StampsOK, HistoryOK
               PROVE  ClockOK' /\ StampsOK' /\ HistoryOK'
  BY <1>5, <1>6 DEF PumpInv
<1>8. ClockOK'
  BY <1>5, <1>7 DEF ClockOK
<1>9. /\ next = "PUMP" =>
           \/ pump_state = "WAIT"
           \/ pump_state = "PUMP" /\ ~tooLong(pump_on_time, MAX_PUMP_ON)
      /\ next \in {"REFILL_ONLY", "REFILL_PUMP"} =>
           \/ pump_state = "WAIT" /\ next = "REFILL_ONLY"
           \/ /\ pump_state \in {"REFILL_ONLY", "REFILL_PUMP"}
              /\ ~tooLong(refill_on_time, MAX_REFILL)
  BY <1>2, <1>3, WhenOn DEF next, pumpOn, refillOn
<1>10. StampsOK'
  BY <1>3, <1>5, <1>7 DEF StampsOK, PumpTypeOK, Times
<1>11. /\ Longest \in Nat /\ MAX_PUMP_ON \in 0 .. Longest /\ MAX_REFILL \in 0 .. Longest
       /\ pumpOnFor \in Nat /\ refillOnFor \in Nat
  BY <1>3, LongestIsLongest, PumpAssumption DEF PumpTypeOK
<1>12. ASSUME pumpOn(next)
       PROVE  pumpOnFor' <= pumpClock' - pump_on_time'
  <2>1. CASE pumpOn(pump_state)
    BY <1>12, <2>1, <1>5, <1>7 DEF HistoryOK
  <2>2. CASE ~pumpOn(pump_state)
    BY <1>12, <2>2, <1>3, <1>5, <1>7 DEF HistoryOK, PumpTypeOK, Times
  <2>3. QED
    BY <2>1, <2>2
<1>13. ASSUME refillOn(next)
       PROVE  refillOnFor' <= pumpClock' - refill_on_time'
  <2>1. CASE refillOn(pump_state)
    BY <1>13, <2>1, <1>5, <1>7 DEF HistoryOK
  <2>2. CASE ~refillOn(pump_state)
    BY <1>13, <2>2, <1>3, <1>5, <1>7 DEF HistoryOK, PumpTypeOK, Times
  <2>3. QED
    BY <2>1, <2>2
<1>14. ASSUME next = "REFILL_PUMP" PROVE pumpOnFor' <= refillOnFor'
  <2>1. pump_state \in {"REFILL_ONLY", "REFILL_PUMP"}
    BY <1>9, <1>14
  <2>2. pumpOnFor' = pumpOnFor /\ refillOnFor' = refillOnFor
    BY <1>5, <1>14 DEF pumpOn, refillOn
  <2>3. CASE pump_state = "REFILL_ONLY"
    BY <1>7, <1>11, <2>2, <2>3 DEF HistoryOK, pumpOn
  <2>4. CASE pump_state = "REFILL_PUMP"
    BY <1>7, <2>2, <2>4 DEF HistoryOK
  <2>5. QED
    BY <2>1, <2>3, <2>4
<1>15. ASSUME stoppedFor' < COOLDOWN
       PROVE  pumpClock' - last_empty_source_pump_stop' <= stoppedFor'
  <2>1. CASE sourceStops(empty, unsteady)
    BY <2>1, <1>3, <1>5 DEF PumpTypeOK, Times
  <2>2. CASE ~sourceStops(empty, unsteady)
    <3>1. ~(pumpOn(pump_state) /\ ~pumpOn(next) /\ empty /\ ~refillEnds)
      BY <2>2 DEF sourceStops, pumpOn
    <3>2. stoppedFor' = stoppedFor
      BY <3>1, <1>5
    <3>3. QED
      BY <3>2, <2>2, <1>15, <1>5, <1>7 DEF HistoryOK
  <2>3. QED
    BY <2>1, <2>2
<1>16. ASSUME next = "PUMP" PROVE pumpOnFor' <= MAX_PUMP_ON
  <2>1. pumpOnFor' = pumpOnFor
    BY <1>5, <1>16 DEF pumpOn
  <2>2. CASE pump_state = "WAIT"
    BY <1>7, <1>11, <2>1, <2>2 DEF HistoryOK, pumpOn
  <2>3. CASE pump_state = "PUMP"
    <3>1. ~tooLong(pump_on_time, MAX_PUMP_ON)
      BY <1>9, <1>16, <2>3
    <3>2. deadline(pump_on_time, MAX_PUMP_ON) = pump_on_time + MAX_PUMP_ON
      BY <1>3, <1>7, <1>11, DeadlineIsSum DEF PumpTypeOK, StampsOK
    <3>3. pumpOnFor <= pumpClock - pump_on_time
      BY <2>3, <1>7 DEF HistoryOK, pumpOn
    <3>4. ~(pump_on_time + MAX_PUMP_ON < pumpClock)
      BY <3>1, <3>2 DEF tooLong
    <3>5. QED
      BY <3>3, <3>4, <2>1, <1>3, <1>11 DEF PumpTypeOK, Times
  <2>4. QED
    BY <1>9, <1>16, <2>2, <2>3
<1>17. ASSUME refillOn(next) PROVE refillOnFor' <= MAX_REFILL
  <2>1. refillOnFor' = refillOnFor
    BY <1>5, <1>17
  <2>2. CASE pump_state = "WAIT"
    BY <1>7, <1>11, <2>1, <2>2 DEF HistoryOK, refillOn
  <2>3. CASE pump_state \in {"REFILL_ONLY", "REFILL_PUMP"}
    <3>1. ~tooLong(refill_on_time, MAX_REFILL)
      BY <1>9, <1>17, <2>3 DEF refillOn
    <3>2. deadline(refill_on_time, MAX_REFILL) = refill_on_time + MAX_REFILL
      BY <1>3, <1>7, <1>11, DeadlineIsSum DEF PumpTypeOK, StampsOK
    <3>3. refillOnFor <= pumpClock - refill_on_time
      BY <2>3, <1>7 DEF HistoryOK, refillOn
    <3>4. ~(refill_on_time + MAX_REFILL < pumpClock)
      BY <3>1, <3>2 DEF tooLong
    <3>5. QED
      BY <3>3, <3>4, <2>1, <1>3, <1>11 DEF PumpTypeOK, Times
  <2>4. QED
    BY <1>9, <1>17, <2>2, <2>3 DEF refillOn
<1>18. HistoryOK'
  <2>1. ~pumpOn(next) => pumpOnFor' = 0
    BY <1>5
  <2>2. ~refillOn(next) => refillOnFor' = 0
    BY <1>5
  <2>3. QED
    BY <2>1, <2>2, <1>5, <1>12, <1>13, <1>14, <1>15, <1>16, <1>17 DEF HistoryOK
<1>19. QED
  BY <1>8, <1>10, <1>18

LEMMA PumpInv_step == PumpInv /\ [PumpNext]_pumpVars => PumpInv'
<1> SUFFICES ASSUME PumpInv, [PumpNext]_pumpVars PROVE PumpInv'
  OBVIOUS
<1>1. CASE on_conduction_sensor_data
  BY <1>1, PumpInv_data
<1>2. CASE pump_receiver_tick
  BY <1>2, PumpInv_tick
<1>3. CASE PumpPass
  BY <1>3, PumpInv_pass
<1>4. CASE UNCHANGED pumpVars
  BY <1>4 DEF pumpVars, PumpInv, PumpTypeOK, ClockOK, StampsOK, HistoryOK, pumpOn,
              refillOn
<1>5. QED
  BY <1>1, <1>2, <1>3, <1>4 DEF PumpNext

-----------------------------------------------------------------------------

(* The invariant behind both. *)
THEOREM PumpInvariant == PumpSpec => []PumpInv
BY PumpInv_init, PumpInv_step, PTL DEF PumpSpec

(* After every tick pump and fresh water are off or within the time of     *)
(* their mode (pump_receiver_tick), up to the wrap of the system time.     *)
THEOREM PumpAlwaysEnds == PumpSpec => []PumpEnds
<1>1. ASSUME PumpInv PROVE PumpEnds
  <2> SUFFICES ASSUME ticked, ~wrapped
               PROVE  /\ pump_state = "PUMP" => pumpOnFor <= MAX_PUMP_ON
                      /\ refillOn(pump_state) => refillOnFor <= MAX_REFILL
                      /\ pump_state = "REFILL_PUMP" => pumpOnFor <= MAX_REFILL
    BY DEF PumpEnds
  <2>1. HistoryOK /\ PumpTypeOK /\ MAX_REFILL \in Nat
    BY <1>1, PumpAssumption DEF PumpInv
  <2>2. ASSUME pump_state = "REFILL_PUMP" PROVE pumpOnFor <= MAX_REFILL
    <3>1. pumpOnFor <= refillOnFor /\ refillOnFor <= MAX_REFILL
      BY <2>1, <2>2 DEF HistoryOK, refillOn
    <3>2. QED
      BY <3>1, <2>1 DEF PumpTypeOK
  <2>3. QED
    BY <2>1, <2>2 DEF HistoryOK
<1>2. QED
  BY <1>1, PumpInvariant, PTL

(* A pump that stopped because its source was empty rests for the          *)
(* cool-down time (pump_recently_stopped_because_source_empty), up to the  *)
(* wrap of the system time.                                                *)
THEOREM SourceAlwaysRests == PumpSpec => SourceRests
<1>1. ASSUME PumpInv, [PumpNext]_pumpVars
      PROVE  [~wrapped /\ ~pumpOn(pump_state) /\ pumpOn(pump_state') =>
                stoppedFor >= COOLDOWN]_pumpVars
  <2> SUFFICES ASSUME ~wrapped, ~pumpOn(pump_state), pumpOn(pump_state')
               PROVE  stoppedFor >= COOLDOWN
    OBVIOUS
  <2>1. pump_receiver_tick
    BY <1>1 DEF PumpNext, PumpPass, on_conduction_sensor_data, pumpVars
  <2>2. PICK level \in {"low", "between", "high"}, unsteady \in BOOLEAN :
          pump_state' = NextState(Source(level), unsteady)
    BY <2>1 DEF pump_receiver_tick, NextState
  <2>3. Source(level) \in BOOLEAN /\ PumpTypeOK
    BY <1>1 DEF Source, PumpInv, PumpTypeOK
  <2>4. ~recentlyStopped
    BY <2>2, <2>3, WhenOn DEF pumpOn
  <2>5. COOLDOWN \in 0 .. Longest /\ Longest \in Nat
    BY LongestIsLongest, PumpAssumption
  <2>6. ClockOK /\ StampsOK /\ HistoryOK
    BY <1>1 DEF PumpInv
  <2>7. deadline(last_empty_source_pump_stop, COOLDOWN) = last_empty_source_pump_stop + COOLDOWN
    BY <2>3, <2>5, <2>6, DeadlineIsSum DEF PumpTypeOK, StampsOK
  <2>8. ~(last_empty_source_pump_stop + COOLDOWN > pumpClock)
    BY <2>4, <2>7 DEF recentlyStopped
  <2>9. QED
    BY <2>3, <2>5, <2>6, <2>8 DEF HistoryOK, PumpTypeOK, Times
<1>2. QED
  BY <1>1, PumpInvariant, PTL DEF PumpSpec, SourceRests

-----------------------------------------------------------------------------
(* Key switches and time of day of the heating, for every set of switch    *)
(* positions, length of an hour and a day, and set of time ranges.         *)

(* Ticks since a column was read. *)
ReadAgo(c) == IF c < currentKey THEN currentKey - c ELSE currentKey + 3 - c

KeysTypeOK ==
  /\ currentKey \in Columns
  /\ switch \in [Columns -> Positions]
  /\ key \in [Columns -> Positions] /\ key_next \in [Columns -> Positions]
  /\ still \in 0 .. StillEnough

(* A column that was read since the switches rest has their position in    *)
(* key_next, and in key if that was not the first time.                    *)
KeysInv ==
  /\ KeysTypeOK
  /\ driven = currentKey
  /\ \A c \in Columns :
       /\ still >= ReadAgo(c) => key_next[c] = switch[c]
       /\ still >= ReadAgo(c) + 3 => key[c] = switch[c]

ClockTypeOK ==
  /\ time \in TimeOfDay /\ range \in Ranges
  /\ current_h \in -1 .. HOURS - 1
  /\ torn \in BOOLEAN

(* The hour was read of the time that holds, or the time was set since. *)
ClockInv == ClockTypeOK /\ (current_h # -1 /\ ~torn => current_h = time.h)

-----------------------------------------------------------------------------
(* Keys *)

LEMMA NextColumn ==
  ASSUME KeysTypeOK, currentKey' = (currentKey + 1) % 3
  PROVE  /\ currentKey' \in Columns
         /\ \A c \in Columns : c = currentKey => ReadAgo(c) = 3 /\ ReadAgo(c)' = 1
         /\ \A c \in Columns \ {currentKey} : ReadAgo(c) \in 1 .. 2 /\ ReadAgo(c)' = ReadAgo(c) + 1
<1>1. currentKey \in 0 .. 2
  BY DEF KeysTypeOK, Columns
<1>2. currentKey' = IF currentKey = 2 THEN 0 ELSE currentKey + 1
  BY <1>1
<1>3. currentKey' \in Columns
  BY <1>1, <1>2 DEF Columns
<1>4. ASSUME NEW c \in Columns, c = currentKey
      PROVE  ReadAgo(c) = 3 /\ ReadAgo(c)' = 1
  BY <1>1, <1>2, <1>4 DEF ReadAgo, Columns
<1>5. ASSUME NEW c \in Columns \ {currentKey}
      PROVE  ReadAgo(c) \in 1 .. 2 /\ ReadAgo(c)' = ReadAgo(c) + 1
  BY <1>1, <1>2 DEF ReadAgo, Columns
<1>6. QED
  BY <1>3, <1>4, <1>5

LEMMA KeysInv_init == InputsInit => KeysInv
BY HeatingInputsAssumption DEF InputsInit, KeysInv, KeysTypeOK, ReadAgo, Columns, StillEnough

LEMMA KeysInv_scan ==
  ASSUME KeysInv, ScanKeys
  PROVE  KeysInv'
<1> DEFINE in == switch[currentKey]
<1>1. /\ KeysTypeOK /\ driven = currentKey /\ in \in Positions
  BY DEF KeysInv, KeysTypeOK
<1>2. /\ key' = IF key_next[currentKey] = in THEN [key EXCEPT ![currentKey] = in] ELSE key
      /\ key_next' = [key_next EXCEPT ![currentKey] = in]
      /\ currentKey' = (currentKey + 1) % 3 /\ driven' = (driven + 1) % 3
      /\ still' = IF still < StillEnough THEN still + 1 ELSE still
      /\ switch' = switch
  BY <1>1 DEF ScanKeys
<1> HIDE DEF in
<1>3. /\ currentKey' \in Columns
      /\ \A c \in Columns : c = currentKey => ReadAgo(c) = 3 /\ ReadAgo(c)' = 1
      /\ \A c \in Columns \ {currentKey} :
           ReadAgo(c) \in 1 .. 2 /\ ReadAgo(c)' = ReadAgo(c) + 1
  BY <1>1, <1>2, NextColumn
<1>4. KeysTypeOK'
  BY <1>1, <1>2, <1>3 DEF KeysTypeOK, StillEnough
<1>5. still' <= still + 1 /\ still \in Nat /\ still' \in Nat
  BY <1>1, <1>2 DEF KeysTypeOK, StillEnough
<1>6. ASSUME NEW c \in Columns
      PROVE  /\ still' >= ReadAgo(c)' => key_next'[c] = switch'[c]
             /\ still' >= ReadAgo(c)' + 3 => key'[c] = switch'[c]
  <2>1. CASE c = currentKey
    <3>1. key_next'[c] = switch'[c]
      BY <1>1, <1>2, <2>1 DEF KeysTypeOK, in
    <3>2. ASSUME still' >= ReadAgo(c)' + 3
          PROVE  key'[c] = switch'[c]
      <4>1. still >= ReadAgo(c)
        BY <1>3, <1>5, <2>1, <3>2
      <4>2. key_next[c] = switch[c]
        BY <4>1 DEF KeysInv
      <4>3. QED
        BY <1>1, <1>2, <2>1, <4>2 DEF KeysTypeOK, in
    <3>3. QED
      BY <3>1, <3>2
  <2>2. CASE c # currentKey
    <3>1. ReadAgo(c) \in 1 .. 2 /\ ReadAgo(c)' = ReadAgo(c) + 1
      BY <1>3, <2>2
    <3>2. key_next'[c] = key_next[c] /\ key'[c] = key[c] /\ switch'[c] = switch[c]
      BY <1>1, <1>2, <2>2 DEF KeysTypeOK
    <3>3. /\ still' >= ReadAgo(c)' => still >= ReadAgo(c)
          /\ still' >= ReadAgo(c)' + 3 => still >= ReadAgo(c) + 3
      BY <3>1, <1>5
    <3>4. QED
      BY <3>2, <3>3 DEF KeysInv
  <2>3. QED
    BY <2>1, <2>2
<1>7. driven' = currentKey'
  BY <1>1, <1>2
<1>8. QED
  BY <1>4, <1>6, <1>7 DEF KeysInv

LEMMA KeysInv_move ==
  ASSUME KeysInv, MoveSwitch
  PROVE  KeysInv'
<1>1. /\ KeysTypeOK /\ driven = currentKey
      /\ UNCHANGED <<currentKey, driven, key, key_next>> /\ still' = 0
  BY DEF KeysInv, MoveSwitch
<1>2. switch' \in [Columns -> Positions]
  BY <1>1 DEF MoveSwitch, KeysTypeOK
<1>3. KeysTypeOK'
  BY <1>1, <1>2 DEF KeysTypeOK, StillEnough
<1>4. \A c \in Columns : ReadAgo(c)' \in 1 .. 3
  BY <1>1 DEF ReadAgo, KeysTypeOK, Columns
<1>5. QED
  BY <1>1, <1>3, <1>4 DEF KeysInv

LEMMA KeysInv_step == KeysInv /\ [InputsNext]_inputVars => KeysInv'
<1> SUFFICES ASSUME KeysInv, [InputsNext]_inputVars PROVE KeysInv'
  OBVIOUS
<1>1. CASE MoveSwitch
  BY <1>1, KeysInv_move
<1>2. CASE ScanKeys
  BY <1>2, KeysInv_scan
<1>3. CASE ClockNext \/ UNCHANGED inputVars
  <2>1. UNCHANGED keyVars
    BY <1>3 DEF ClockNext, on_time_data, ReadHour, ReadMinute, SetRange, inputVars, keyVars
  <2>2. QED
    BY <2>1 DEF keyVars, KeysInv, KeysTypeOK, ReadAgo
<1>4. QED
  BY <1>1, <1>2, <1>3 DEF InputsNext, KeysNext

(* The invariant behind the keys. *)
THEOREM KeysInvariant == InputsSpec => []KeysInv
BY KeysInv_init, KeysInv_step, PTL DEF InputsSpec

(* Switches left alone for two scans are known as what they are            *)
(* (app_fast_tick): none is taken for that of another column.              *)
THEOREM KeysAreKnown == InputsSpec => []KeysFollowSwitches
<1>1. ASSUME KeysInv PROVE KeysFollowSwitches
  <2> SUFFICES ASSUME still = StillEnough PROVE key = switch
    BY DEF KeysFollowSwitches
  <2>1. \A c \in Columns : ReadAgo(c) \in 1 .. 3
    BY <1>1 DEF ReadAgo, KeysInv, KeysTypeOK, Columns
  <2>2. \A c \in Columns : key[c] = switch[c]
    BY <1>1, <2>1 DEF KeysInv, StillEnough
  <2>3. QED
    BY <1>1, <2>2 DEF KeysInv, KeysTypeOK
<1>2. QED
  BY <1>1, KeysInvariant, PTL

-----------------------------------------------------------------------------
(* Time of day *)

LEMMA ClockInv_init == InputsInit => ClockInv
<1>1. 0 \in 0 .. HOURS - 1 /\ 0 \in 0 .. MINUTES - 1 /\ -1 \in -1 .. HOURS - 1
  BY HeatingInputsAssumption
<1>2. [h |-> 0, m |-> 0] \in TimeOfDay
  BY <1>1 DEF TimeOfDay
<1>3. SUFFICES ASSUME InputsInit PROVE ClockInv
  OBVIOUS
<1>4. current_h = -1 /\ time = [h |-> 0, m |-> 0] /\ torn = FALSE /\ range \in Ranges
  BY <1>3 DEF InputsInit
<1>5. QED
  BY <1>1, <1>2, <1>4 DEF ClockInv, ClockTypeOK

LEMMA ClockInv_step == ClockInv /\ [InputsNext]_inputVars => ClockInv'
<1> SUFFICES ASSUME ClockInv, [InputsNext]_inputVars PROVE ClockInv'
  OBVIOUS
<1>1. CASE on_time_data
  <2>1. ClockTypeOK'
    BY <1>1 DEF on_time_data, ClockInv, ClockTypeOK
  <2>2. current_h' # -1 /\ ~torn' => time' = time /\ ~torn /\ current_h' = current_h
    BY <1>1, Zenon DEF on_time_data
  <2>3. QED
    BY <2>1, <2>2 DEF ClockInv
<1>2. CASE ReadHour
  <2>1. current_h' = time.h /\ time' = time /\ range' = range /\ torn' = FALSE
    BY <1>2 DEF ReadHour
  <2>2. time.h \in -1 .. HOURS - 1
    BY HeatingInputsAssumption DEF ClockInv, ClockTypeOK, TimeOfDay
  <2>3. QED
    BY <2>1, <2>2 DEF ClockInv, ClockTypeOK
<1>3. CASE ReadMinute
  <2>1. current_h' = -1 /\ -1 \in -1 .. HOURS - 1
    BY <1>3, HeatingInputsAssumption DEF ReadMinute
  <2>2. time' = time /\ range' = range /\ torn' = FALSE
    BY <1>3 DEF ReadMinute
  <2>3. QED
    BY <2>1, <2>2 DEF ClockInv, ClockTypeOK
<1>4. CASE SetRange
  BY <1>4 DEF SetRange, ClockInv, ClockTypeOK
<1>5. CASE KeysNext \/ UNCHANGED inputVars
  <2>1. UNCHANGED timeVars
    BY <1>5 DEF KeysNext, MoveSwitch, ScanKeys, inputVars, timeVars
  <2>2. QED
    BY <2>1 DEF timeVars, ClockInv, ClockTypeOK
<1>6. QED
  BY <1>1, <1>2, <1>3, <1>4, <1>5 DEF InputsNext, ClockNext

(* An earlier hour is earlier, whatever the minutes. *)
LEMMA HoursFirst ==
  ASSUME NEW a \in TimeOfDay, NEW b \in TimeOfDay, a.h < b.h
  PROVE  Minutes(a) < Minutes(b)
<1> DEFINE d == b.h - a.h - 1
<1>1. /\ a.h \in Nat /\ b.h \in Nat /\ a.m \in Nat /\ b.m \in Nat
      /\ a.m < MINUTES /\ MINUTES \in Nat
  BY HeatingInputsAssumption DEF TimeOfDay
<1>2. d \in Nat /\ b.h = a.h + 1 + d
  BY <1>1
<1> HIDE DEF d
<1>3. b.h * MINUTES = a.h * MINUTES + MINUTES + d * MINUTES
  BY <1>1, <1>2
<1>4. d * MINUTES \in Nat /\ a.h * MINUTES \in Nat
  BY <1>1, <1>2
<1>5. QED
  BY <1>1, <1>3, <1>4 DEF Minutes

(* The invariant behind the time of day. *)
THEOREM ClockInvariant == InputsSpec => []ClockInv
BY ClockInv_init, ClockInv_step, PTL DEF InputsSpec

(* inTimeRange says when it is between start and stop, for ranges that end *)
(* in a later hour, unless the time is set while it is read.               *)
THEOREM DayIsTheRange == InputsSpec => DayFromStartToStop
<1>1. ASSUME ClockInv, [InputsNext]_inputVars
      PROVE  [ReadMinute /\ ~torn /\ range.start.h < range.stop.h =>
                day' = (/\ Minutes(range.start) <= Minutes(time)
                        /\ Minutes(time) < Minutes(range.stop))]_inputVars
  <2> SUFFICES ASSUME ReadMinute, ~torn, range.start.h < range.stop.h
               PROVE  day' = (/\ Minutes(range.start) <= Minutes(time)
                              /\ Minutes(time) < Minutes(range.stop))
    OBVIOUS
  <2> DEFINE start == range.start
             stop  == range.stop
  <2>1. start \in TimeOfDay /\ stop \in TimeOfDay /\ time \in TimeOfDay
    BY <1>1, HeatingInputsAssumption DEF ClockInv, ClockTypeOK
  <2>2. day' = inTimeRange(time.h, time.m)
    BY <1>1 DEF ReadMinute, ClockInv
  <2>3. /\ start.h \in Nat /\ stop.h \in Nat /\ time.h \in Nat /\ start.h < stop.h
        /\ start.m \in Nat /\ stop.m \in Nat /\ time.m \in Nat /\ MINUTES \in Nat
    BY <2>1, HeatingInputsAssumption DEF TimeOfDay
  <2>4. inTimeRange(time.h, time.m) <=>
           \/ time.h > start.h /\ time.h < stop.h
           \/ time.h = start.h /\ time.m >= start.m
           \/ time.h = stop.h /\ time.m < stop.m
    BY DEF inTimeRange
  <2> HIDE DEF start, stop
  <2>5. Minutes(start) \in Nat /\ Minutes(stop) \in Nat /\ Minutes(time) \in Nat
    BY <2>3 DEF Minutes
  <2>6. Minutes(start) <= Minutes(time) <=>
           time.h > start.h \/ (time.h = start.h /\ time.m >= start.m)
    <3>1. CASE time.h > start.h
      BY <3>1, <2>1, <2>3, <2>5, HoursFirst
    <3>2. CASE time.h < start.h
      BY <3>2, <2>1, <2>3, <2>5, HoursFirst
    <3>3. CASE time.h = start.h
      <4>1. start.h * MINUTES \in Nat /\ time.h * MINUTES = start.h * MINUTES
        BY <3>3, <2>3
      <4>2. QED
        BY <4>1, <3>3, <2>3 DEF Minutes
    <3>4. QED
      BY <3>1, <3>2, <3>3, <2>3
  <2>7. Minutes(time) < Minutes(stop) <=>
           time.h < stop.h \/ (time.h = stop.h /\ time.m < stop.m)
    <3>1. CASE time.h > stop.h
      BY <3>1, <2>1, <2>3, <2>5, HoursFirst
    <3>2. CASE time.h < stop.h
      BY <3>2, <2>1, <2>3, <2>5, HoursFirst
    <3>3. CASE time.h = stop.h
      <4>1. stop.h * MINUTES \in Nat /\ time.h * MINUTES = stop.h * MINUTES
        BY <3>3, <2>3
      <4>2. QED
        BY <4>1, <3>3, <2>3 DEF Minutes
    <3>4. QED
      BY <3>1, <3>2, <3>3, <2>3
  <2>8. inTimeRange(time.h, time.m) <=>
           /\ Minutes(start) <= Minutes(time) /\ Minutes(time) < Minutes(stop)
    BY <2>3, <2>4, <2>6, <2>7
  <2>9. inTimeRange(time.h, time.m) \in BOOLEAN
    BY DEF inTimeRange
  <2>10. QED
    BY <2>2, <2>8, <2>9 DEF start, stop
<1>2. QED
  BY <1>1, ClockInvariant, PTL DEF InputsSpec, DayFromStartToStop

-----------------------------------------------------------------------------
(* The yellow LED of the bathroom, for every blink speed: node and fast    *)
(* thread leave it as the state of the room demands.                       *)

IndicatorTypeOK ==
  /\ yellow \in {0, 1} /\ blinkSpeed \in {0, BLINK_SPEED} /\ blinkState \in {0, 1}
  /\ blinkTicks \in Nat /\ ticks \in 0 .. 2
  /\ shown \in {"EMPTY", "OPEN_IN_USE", "IN_USE", "PRIVATE"}

(* A LED that is on or off: from its second tick on it does not blink when *)
(* it is set, so nobody undoes that.                                       *)
SteadyOK(set, level) ==
  /\ todo \in {<<set, "stop">>, <<"stop">>, <<>>}
  /\ todo = <<>> \/ ticks > 0 => blinkSpeed = 0
  /\ ticks > 0 /\ todo # <<set, "stop">> => yellow = level

(* A blinking LED, once its speed is set. *)
BlinkingOK ==
  /\ todo \in {<<"speed", "state", "on">>, <<"state", "on">>, <<"on">>, <<>>}
  /\ todo # <<"speed", "state", "on">> => blinkSpeed = BLINK_SPEED

(* In private mode the blinking is stopped before the LED is set. *)
PrivateOK ==
  /\ todo \in {<<"stop", "off">>, <<"off">>, <<>>}
  /\ todo # <<"stop", "off">> => blinkSpeed = 0
  /\ todo = <<>> => yellow = 0

IndicatorInv ==
  /\ IndicatorTypeOK
  /\ shown = "EMPTY" => SteadyOK("off", 0)
  /\ shown = "IN_USE" => SteadyOK("on", 1)
  /\ shown = "OPEN_IN_USE" => BlinkingOK
  /\ shown = "PRIVATE" => PrivateOK

LEMMA TwoSteps ==
  ASSUME NEW a, NEW b
  PROVE  /\ Head(<<a, b>>) = a /\ Tail(<<a, b>>) = <<b>>
         /\ Head(<<b>>) = b /\ Tail(<<b>>) = <<>>
         /\ <<a, b>> # <<b>> /\ <<a, b>> # <<>> /\ <<b>> # <<>>
OBVIOUS

LEMMA ThreeSteps ==
  ASSUME NEW a, NEW b, NEW c
  PROVE  /\ Head(<<a, b, c>>) = a /\ Tail(<<a, b, c>>) = <<b, c>>
         /\ <<a, b, c>> # <<b, c>> /\ <<a, b, c>> # <<c>> /\ <<a, b, c>> # <<>>
OBVIOUS

LEMMA IndicatorInv_init == IndicatorInit => IndicatorInv
<1> SUFFICES ASSUME IndicatorInit PROVE IndicatorInv
  OBVIOUS
<1>1. IndicatorTypeOK
  BY DEF IndicatorInit, IndicatorTypeOK
<1>2. SteadyOK("off", 0)
  BY DEF IndicatorInit, SteadyOK
<1> QED
  BY <1>1, <1>2 DEF IndicatorInit, IndicatorInv

LEMMA IndicatorInv_tick == IndicatorInv /\ IndicatorTick => IndicatorInv'
<1> SUFFICES ASSUME IndicatorInv, IndicatorTick PROVE IndicatorInv'
  OBVIOUS
<1>1. PICK state \in {"EMPTY", "OPEN_IN_USE", "IN_USE", "PRIVATE"} :
        /\ shown' = state /\ todo' = Steps(state)
        /\ ticks' = IF state # shown THEN 0 ELSE IF ticks < 2 THEN ticks + 1 ELSE ticks
  BY DEF IndicatorTick
<1>2. todo = <<>> /\ UNCHANGED <<yellow, blinkSpeed, blinkTicks, blinkState>>
  BY DEF IndicatorTick
<1>3. IndicatorTypeOK' /\ (ticks' > 0 => state = shown)
  BY <1>1, <1>2 DEF IndicatorInv, IndicatorTypeOK
<1>4. CASE state = "EMPTY"
  <2>1. todo' = <<"off", "stop">>
    BY <1>1, <1>4 DEF Steps
  <2>2. SteadyOK("off", 0)'
    BY <1>2, <1>3, <1>4, <2>1 DEF SteadyOK, IndicatorInv
  <2> QED
    BY <1>1, <1>3, <1>4, <2>2 DEF IndicatorInv
<1>5. CASE state = "IN_USE"
  <2>1. todo' = <<"on", "stop">>
    BY <1>1, <1>5 DEF Steps
  <2>2. SteadyOK("on", 1)'
    BY <1>2, <1>3, <1>5, <2>1 DEF SteadyOK, IndicatorInv
  <2> QED
    BY <1>1, <1>3, <1>5, <2>2 DEF IndicatorInv
<1>6. CASE state = "OPEN_IN_USE"
  <2>1. todo' = IF blinkSpeed = BLINK_SPEED THEN <<>> ELSE <<"speed", "state", "on">>
    BY <1>1, <1>6 DEF Steps, startBlink
  <2>2. BlinkingOK'
    BY <1>2, <2>1 DEF BlinkingOK
  <2> QED
    BY <1>1, <1>3, <1>6, <2>2 DEF IndicatorInv
<1>7. CASE state = "PRIVATE"
  <2>1. todo' = <<"stop", "off">>
    BY <1>1, <1>7 DEF Steps
  <2>2. PrivateOK'
    BY <2>1, TwoSteps DEF PrivateOK
  <2> QED
    BY <1>1, <1>3, <1>7, <2>2 DEF IndicatorInv
<1> QED
  BY <1>4, <1>5, <1>6, <1>7

(* One step of the list, whatever the room. *)
LEMMA SetLedDoes ==
  ASSUME SetLed
  PROVE  /\ todo # <<>> /\ todo' = Tail(todo)
         /\ UNCHANGED <<shown, blinkTicks, ticks>>
         /\ Head(todo) = "on" => yellow' = 1 /\ UNCHANGED <<blinkSpeed, blinkState>>
         /\ Head(todo) = "off" => yellow' = 0 /\ UNCHANGED <<blinkSpeed, blinkState>>
         /\ Head(todo) = "speed" => blinkSpeed' = BLINK_SPEED /\ UNCHANGED <<yellow, blinkState>>
         /\ Head(todo) = "stop" => blinkSpeed' = 0 /\ UNCHANGED <<yellow, blinkState>>
         /\ Head(todo) = "state" => blinkState' = 1 /\ UNCHANGED <<yellow, blinkSpeed>>
BY DEF SetLed

LEMMA SteadyOK_set ==
  ASSUME IndicatorTypeOK, NEW set, NEW level, SteadyOK(set, level), SetLed,
         \/ set = "on" /\ level = 1
         \/ set = "off" /\ level = 0
  PROVE  IndicatorTypeOK' /\ SteadyOK(set, level)'
<1>1. CASE todo = <<set, "stop">>
  <2>1. Head(todo) = set /\ todo' = <<"stop">>
    BY <1>1, SetLedDoes, TwoSteps
  <2>2. yellow' = level /\ UNCHANGED <<shown, blinkTicks, ticks, blinkSpeed, blinkState>>
    BY <2>1, SetLedDoes
  <2> QED
    BY <1>1, <2>1, <2>2, TwoSteps DEF SteadyOK, IndicatorTypeOK
<1>2. CASE todo = <<"stop">>
  <2>1. Head(todo) = "stop" /\ todo' = <<>>
    BY <1>2, SetLedDoes, TwoSteps
  <2>2. blinkSpeed' = 0 /\ UNCHANGED <<shown, blinkTicks, ticks, yellow, blinkState>>
    BY <2>1, SetLedDoes
  <2> QED
    BY <1>2, <2>1, <2>2, TwoSteps DEF SteadyOK, IndicatorTypeOK
<1> QED
  BY <1>1, <1>2, SetLedDoes DEF SteadyOK

LEMMA BlinkingOK_set ==
  ASSUME IndicatorTypeOK, BlinkingOK, SetLed
  PROVE  IndicatorTypeOK' /\ BlinkingOK'
<1>1. CASE todo = <<"speed", "state", "on">>
  <2>1. Head(todo) = "speed" /\ todo' = <<"state", "on">>
    BY <1>1, SetLedDoes, ThreeSteps
  <2>2. /\ blinkSpeed' = BLINK_SPEED
        /\ UNCHANGED <<shown, blinkTicks, ticks, yellow, blinkState>>
    BY <2>1, SetLedDoes
  <2> QED
    BY <2>1, <2>2 DEF BlinkingOK, IndicatorTypeOK
<1>2. CASE todo = <<"state", "on">>
  <2>1. Head(todo) = "state" /\ todo' = <<"on">>
    BY <1>2, SetLedDoes, TwoSteps
  <2>2. blinkState' = 1 /\ UNCHANGED <<shown, blinkTicks, ticks, yellow, blinkSpeed>>
    BY <2>1, SetLedDoes
  <2>3. blinkSpeed = BLINK_SPEED
    BY <1>2, ThreeSteps DEF BlinkingOK
  <2> QED
    BY <2>1, <2>2, <2>3 DEF BlinkingOK, IndicatorTypeOK
<1>3. CASE todo = <<"on">>
  <2>1. Head(todo) = "on" /\ todo' = <<>>
    BY <1>3, SetLedDoes, TwoSteps
  <2>2. yellow' = 1 /\ UNCHANGED <<shown, blinkTicks, ticks, blinkSpeed, blinkState>>
    BY <2>1, SetLedDoes
  <2>3. blinkSpeed = BLINK_SPEED
    BY <1>3, ThreeSteps DEF BlinkingOK
  <2> QED
    BY <2>1, <2>2, <2>3 DEF BlinkingOK, IndicatorTypeOK
<1> QED
  BY <1>1, <1>2, <1>3, SetLedDoes DEF BlinkingOK

LEMMA PrivateOK_set ==
  ASSUME IndicatorTypeOK, PrivateOK, SetLed
  PROVE  IndicatorTypeOK' /\ PrivateOK'
<1>1. CASE todo = <<"stop", "off">>
  <2>1. Head(todo) = "stop" /\ todo' = <<"off">>
    BY <1>1, SetLedDoes, TwoSteps
  <2>2. blinkSpeed' = 0 /\ UNCHANGED <<shown, blinkTicks, ticks, yellow, blinkState>>
    BY <2>1, SetLedDoes
  <2> QED
    BY <2>1, <2>2, TwoSteps DEF PrivateOK, IndicatorTypeOK
<1>2. CASE todo = <<"off">>
  <2>1. Head(todo) = "off" /\ todo' = <<>>
    BY <1>2, SetLedDoes, TwoSteps
  <2>2. yellow' = 0 /\ UNCHANGED <<shown, blinkTicks, ticks, blinkSpeed, blinkState>>
    BY <2>1, SetLedDoes
  <2>3. blinkSpeed = 0
    BY <1>2, TwoSteps DEF PrivateOK
  <2> QED
    BY <2>1, <2>2, <2>3 DEF PrivateOK, IndicatorTypeOK
<1> QED
  BY <1>1, <1>2, SetLedDoes DEF PrivateOK

LEMMA IndicatorInv_set == IndicatorInv /\ SetLed => IndicatorInv'
<1> SUFFICES ASSUME IndicatorInv, SetLed PROVE IndicatorInv'
  OBVIOUS
<1>1. IndicatorTypeOK /\ shown' = shown
  BY SetLedDoes DEF IndicatorInv
<1>2. CASE shown = "EMPTY"
  BY <1>1, <1>2, SteadyOK_set DEF IndicatorInv
<1>3. CASE shown = "IN_USE"
  BY <1>1, <1>3, SteadyOK_set DEF IndicatorInv
<1>4. CASE shown = "OPEN_IN_USE"
  BY <1>1, <1>4, BlinkingOK_set DEF IndicatorInv
<1>5. CASE shown = "PRIVATE"
  BY <1>1, <1>5, PrivateOK_set DEF IndicatorInv
<1> QED
  BY <1>1, <1>2, <1>3, <1>4, <1>5 DEF IndicatorTypeOK

(* The fast thread only moves a LED that blinks. *)
LEMMA IndicatorInv_blink == IndicatorInv /\ Blink => IndicatorInv'
<1> SUFFICES ASSUME IndicatorInv, Blink PROVE IndicatorInv'
  OBVIOUS
<1>1. blinkSpeed # 0 /\ UNCHANGED <<shown, todo, blinkSpeed, ticks>>
  BY BlinkAssumption DEF Blink, IndicatorInv, IndicatorTypeOK
<1>2. IndicatorTypeOK'
  BY BlinkAssumption DEF Blink, IndicatorInv, IndicatorTypeOK
<1>3. (shown = "EMPTY" => SteadyOK("off", 0)') /\ (shown = "IN_USE" => SteadyOK("on", 1)')
  BY <1>1 DEF IndicatorInv, SteadyOK
<1>4. (shown = "OPEN_IN_USE" => BlinkingOK') /\ (shown = "PRIVATE" => PrivateOK')
  BY <1>1 DEF IndicatorInv, BlinkingOK, PrivateOK
<1> QED
  BY <1>1, <1>2, <1>3, <1>4 DEF IndicatorInv

(* The invariant behind the LED. *)
THEOREM IndicatorInvariant == IndicatorSpec => []IndicatorInv
<1>1. IndicatorInv /\ UNCHANGED indicatorVars => IndicatorInv'
  BY DEF indicatorVars, IndicatorInv, IndicatorTypeOK, SteadyOK, BlinkingOK, PrivateOK
<1>2. IndicatorInv /\ [IndicatorNext]_indicatorVars => IndicatorInv'
  BY <1>1, IndicatorInv_tick, IndicatorInv_set, IndicatorInv_blink DEF IndicatorNext
<1> QED
  BY IndicatorInv_init, <1>2, PTL DEF IndicatorSpec

(* LedSettles: whenever the fast thread comes between the steps of the     *)
(* node thread, the LED shows the state of the room from its second tick   *)
(* on, and the private mode at once (occupancyIndicatorTick).              *)
THEOREM LedShowsTheRoom == IndicatorSpec => []LedSettles
<1>1. IndicatorInv => LedSettles
  <2> SUFFICES ASSUME IndicatorInv, todo = <<>>, ticks > 0 \/ shown = "PRIVATE"
               PROVE  LedSettles
    BY DEF LedSettles
  <2>1. (shown = "EMPTY" => blinkSpeed = 0 /\ yellow = 0)
        /\ (shown = "IN_USE" => blinkSpeed = 0 /\ yellow = 1)
    BY TwoSteps DEF IndicatorInv, SteadyOK
  <2>2. shown = "OPEN_IN_USE" => blinkSpeed = BLINK_SPEED
    BY ThreeSteps DEF IndicatorInv, BlinkingOK
  <2>3. shown = "PRIVATE" => blinkSpeed = 0 /\ yellow = 0
    BY TwoSteps DEF IndicatorInv, PrivateOK
  <2> QED
    BY <2>1, <2>2, <2>3 DEF LedSettles, IndicatorInv, IndicatorTypeOK
<1> QED
  BY <1>1, IndicatorInvariant, PTL

-----------------------------------------------------------------------------
(* The fan of the bathroom, for every range of the system time and every   *)
(* set of run-out times.                                                   *)

AirTypeOK ==
  /\ fanRunning \in 0 .. 2 /\ fanAge \in 0 .. AIR_WRAP - 1
  /\ fanRunOutTime \in RunOutTimes /\ untriggered \in 0 .. AIR_WRAP

(* A fan that runs out: the stamp is that of the last trigger, or the      *)
(* clock has wrapped since and makes it look younger.                      *)
AirInv == AirTypeOK /\ (fanRunning = 1 => untriggered > fanAge)

LEMMA AgeWraps ==
  ASSUME NEW a \in 0 .. AIR_WRAP - 1
  PROVE  (a + 1) % AIR_WRAP \in 0 .. AIR_WRAP - 1 /\ (a + 1) % AIR_WRAP <= a + 1
<1>1. a + 1 \in Nat /\ a + 1 <= AIR_WRAP /\ AIR_WRAP \in Nat \ {0}
  BY AirAssumption
<1>2. (a + 1) % AIR_WRAP \in 0 .. AIR_WRAP - 1
  BY <1>1
<1>3. a + 1 < AIR_WRAP => (a + 1) % AIR_WRAP = a + 1
  BY <1>1
<1> QED
  BY <1>1, <1>2, <1>3

(* What a tick does to the fan. *)
LEMMA FanTick ==
  ASSUME AirInv, fanControlTick, UNCHANGED fanRunOutTime
  PROVE  /\ AirInv'
         /\ fanRunning # 0 /\ fanRunning' = 0 => untriggered' > fanRunOutTime
<1> DEFINE running(trigger) ==
             IF trigger THEN 2 ELSE IF fanRunning = 2 THEN 1 ELSE fanRunning
           age(trigger) == IF stamped(trigger) THEN 0 ELSE (fanAge + 1) % AIR_WRAP
<1>1. PICK trigger \in BOOLEAN :
        /\ fanRunning' = IF ~trigger /\ age(trigger) > fanRunOutTime THEN 0 ELSE running(trigger)
        /\ fanAge' = age(trigger)
        /\ untriggered' = IF trigger THEN 0
                          ELSE IF untriggered < AIR_WRAP THEN untriggered + 1
                          ELSE untriggered
  BY DEF fanControlTick
<1>2. /\ fanRunning \in 0 .. 2 /\ fanAge \in 0 .. AIR_WRAP - 1 /\ untriggered \in 0 .. AIR_WRAP
      /\ fanRunOutTime \in Nat /\ AIR_WRAP \in Nat \ {0}
      /\ fanRunning = 1 => untriggered > fanAge
  BY AirAssumption DEF AirInv, AirTypeOK
<1>3. /\ age(trigger) \in 0 .. AIR_WRAP - 1
      /\ age(trigger) <= fanAge + 1
  BY <1>2, AgeWraps
<1>4. ~trigger /\ fanRunning = 2 => age(trigger) = 0
  BY DEF stamped
<1>. HIDE DEF age
<1>5. CASE trigger
  <2>1. fanRunning' = 2 /\ untriggered' = 0
    BY <1>1, <1>5
  <2> QED
    BY <1>1, <1>2, <1>3, <2>1 DEF AirInv, AirTypeOK
<1>6. CASE ~trigger
  <2>1. untriggered' \in 0 .. AIR_WRAP /\ untriggered' >= 1
    BY <1>1, <1>2, <1>6
  <2>2. fanRunning # 0 => untriggered' > age(trigger)
    BY <1>1, <1>2, <1>3, <1>4, <1>6
  <2>3. /\ fanRunning' \in 0 .. 2
        /\ fanRunning' # 0 => fanRunning # 0
        /\ fanRunning' = 0 /\ fanRunning # 0 => age(trigger) > fanRunOutTime
    BY <1>1, <1>2, <1>6
  <2>4. AirInv'
    BY <1>1, <1>3, <2>1, <2>2, <2>3 DEF AirInv, AirTypeOK
  <2> QED
    BY <2>1, <2>2, <2>3, <2>4, <1>2, <1>3
<1> QED
  BY <1>5, <1>6

LEMMA AirInv_step ==
  ASSUME AirInv, [AirNext]_airVars
  PROVE  /\ AirInv'
         /\ fanRunning # 0 /\ fanRunning' = 0 => untriggered' > fanRunOutTime
<1>1. CASE AirTick
  BY <1>1, FanTick DEF AirTick
<1>2. CASE SetRunOutTime
  BY <1>2 DEF SetRunOutTime, AirInv, AirTypeOK
<1>3. CASE UNCHANGED airVars
  BY <1>3 DEF airVars, AirInv, AirTypeOK
<1> QED
  BY <1>1, <1>2, <1>3 DEF AirNext

(* The invariant behind the run-out time. *)
THEOREM AirInvariant == AirSpec => []AirInv
<1>1. AirInit => AirInv
  <2> SUFFICES ASSUME AirInit PROVE AirInv
    OBVIOUS
  <2>1. AIR_WRAP \in Nat /\ 0 \in 0 .. AIR_WRAP - 1
    BY AirAssumption DEF AirInit
  <2> QED
    BY <2>1 DEF AirInit, AirInv, AirTypeOK
<1> QED
  BY <1>1, AirInv_step, PTL DEF AirSpec

(* FanRunsOut: the fan runs until the air was good for the run-out time,   *)
(* whenever it was triggered, the parameter set or the clock wrapped       *)
(* (fanControlTick).                                                       *)
THEOREM FanAlwaysRunsOut == AirSpec => FanRunsOut
BY AirInvariant, AirInv_step, PTL DEF AirSpec, FanRunsOut

-----------------------------------------------------------------------------
(* The conduction sensors, for all levels above 200/255 that an undriven   *)
(* line may have.                                                          *)

ConductionTypeOK ==
  /\ contact \in [Contacts -> BOOLEAN] /\ shorted \in BOOLEAN
  /\ step \in {"reference", "sensor 1", "sensor 2", "reference again", "passivate", "idle"}
  /\ polarity \in {0, 1} /\ SensorRefPolarity \in {0, 1}
  /\ SensorRaw \in [Contacts -> Int]
  /\ seen \in [Contacts -> BOOLEAN]

(* The level kept of a contact is one measured with this polarity.         *)
KeptOf(s, p) == SensorRaw[s] \in Level((p = 1) # seen[s])

(* The levels of a measurement are of its polarity; when it is done that   *)
(* is kept with them.                                                      *)
ConductionInv ==
  /\ ConductionTypeOK
  /\ step \in {"sensor 2", "reference again", "passivate"} => KeptOf(0, polarity)
  /\ step \in {"reference again", "passivate"} => KeptOf(1, polarity)
  /\ step = "idle" => \A s \in Contacts : KeptOf(s, SensorRefPolarity)
  /\ EvaluatesContact

(* A line pulled up is high, one pulled down low. *)
LEMMA LevelIs ==
  ASSUME NEW high \in BOOLEAN, NEW v \in Level(high)
  PROVE  /\ v \in Int
         /\ high => v \in 13 .. 16
         /\ ~high => v \in 0 .. 3
<1>1. CASE high
  BY <1>1, ConductionAssumption DEF Level, ANALOG_MAX
<1>2. CASE ~high
  <2>1. PICK l \in Open : v = ANALOG_MAX - l
    BY <1>2 DEF Level
  <2> QED
    BY <1>2, <2>1, ConductionAssumption DEF ANALOG_MAX
<1> QED
  BY <1>1, <1>2

LEMMA MeasuredIsKept ==
  ASSUME ConductionInv, NEW s \in Contacts, NEW from, NEW to, MeasureSensor(s, from, to),
         UNCHANGED <<contact, shorted, polarity>>
  PROVE  /\ SensorRaw' \in [Contacts -> Int] /\ seen' \in [Contacts -> BOOLEAN]
         /\ KeptOf(s, polarity)'
         /\ \A r \in Contacts \ {s} : SensorRaw'[r] = SensorRaw[r] /\ seen'[r] = seen[r]
<1>1. /\ SensorRaw \in [Contacts -> Int] /\ seen \in [Contacts -> BOOLEAN]
      /\ contact[s] \in BOOLEAN /\ shorted \in BOOLEAN
  BY DEF ConductionInv, ConductionTypeOK
<1>2. PICK v \in Measured(contact[s]) : SensorRaw' = [SensorRaw EXCEPT ![s] = v]
  BY DEF MeasureSensor
<1>3. seen' = [seen EXCEPT ![s] = contact[s] \/ shorted]
  BY DEF MeasureSensor
<1>4. v \in Level((polarity = 1) # (contact[s] \/ shorted))
  BY <1>2 DEF Measured
<1>5. v \in Int
  BY <1>4, LevelIs
<1>6. SensorRaw'[s] = v /\ seen'[s] = (contact[s] \/ shorted)
  BY <1>1, <1>2, <1>3
<1>7. KeptOf(s, polarity)'
  BY <1>4, <1>6 DEF KeptOf, Level
<1> QED
  BY <1>1, <1>2, <1>3, <1>5, <1>7

LEMMA ConductionInv_acquire == ConductionInv /\ conduction_acquire => ConductionInv'
<1> SUFFICES ASSUME ConductionInv, conduction_acquire PROVE ConductionInv'
  OBVIOUS
<1>1. EvaluatesContact' /\ ConductionTypeOK
  BY DEF conduction_acquire, ConductionInv, EvaluatesContact
<1>2. CASE /\ step = "idle" /\ step' = "reference"
           /\ UNCHANGED <<contact, shorted, polarity, SensorRaw, SensorRefPolarity, seen>>
  BY <1>1, <1>2 DEF ConductionInv, ConductionTypeOK
<1>3. CASE /\ Reference("reference", "sensor 1") \/ Reference("reference again", "passivate")
           /\ UNCHANGED <<contact, shorted, polarity, SensorRaw, SensorRefPolarity, seen>>
  <2>1. \/ step = "reference" /\ step' = "sensor 1"
        \/ step = "reference again" /\ step' = "passivate"
    BY <1>3 DEF Reference
  <2> QED
    BY <1>1, <1>3, <2>1 DEF ConductionInv, ConductionTypeOK, KeptOf, Level
<1>4. CASE /\ MeasureSensor(0, "sensor 1", "sensor 2")
           /\ UNCHANGED <<contact, shorted, polarity, SensorRefPolarity>>
  <2>1. step' = "sensor 2"
    BY <1>4 DEF MeasureSensor
  <2> QED
    BY <1>1, <1>4, <2>1, MeasuredIsKept DEF ConductionInv, ConductionTypeOK, Contacts
<1>5. CASE /\ MeasureSensor(1, "sensor 2", "reference again")
           /\ UNCHANGED <<contact, shorted, polarity, SensorRefPolarity>>
  <2>1. step = "sensor 2" /\ step' = "reference again"
    BY <1>5 DEF MeasureSensor
  <2>2. KeptOf(0, polarity)'
    BY <1>5, <2>1, MeasuredIsKept DEF ConductionInv, KeptOf, Level, Contacts
  <2> QED
    BY <1>1, <1>5, <2>1, <2>2, MeasuredIsKept DEF ConductionInv, ConductionTypeOK, Contacts
<1>6. CASE Passivate /\ UNCHANGED <<contact, shorted, SensorRaw, seen>>
  <2>1. /\ step = "passivate" /\ step' = "idle"
        /\ SensorRefPolarity' = polarity /\ polarity' = 1 - polarity
    BY <1>6 DEF Passivate
  <2>2. \A s \in Contacts : KeptOf(s, SensorRefPolarity)'
    BY <1>6, <2>1 DEF ConductionInv, KeptOf, Level, Contacts
  <2> QED
    BY <1>1, <1>6, <2>1, <2>2 DEF ConductionInv, ConductionTypeOK
<1> QED
  BY <1>2, <1>3, <1>4, <1>5, <1>6 DEF conduction_acquire

(* A level is above 200/255 of the range, of the other end if the polarity *)
(* is reversed, exactly when the contact was closed.                       *)
LEMMA EvaluateTells ==
  ASSUME ConductionInv, conduction_evaluate
  PROVE  EvaluatesContact'
<1>1. PICK s \in Contacts :
        LET v == IF SensorRefPolarity = 1 THEN ANALOG_MAX - SensorRaw[s] ELSE SensorRaw[s]
        IN  answer' = <<v * 255 > 200 * ANALOG_MAX, seen[s]>>
  BY DEF conduction_evaluate
<1> DEFINE v == IF SensorRefPolarity = 1 THEN ANALOG_MAX - SensorRaw[s] ELSE SensorRaw[s]
           above == v * 255 > 200 * ANALOG_MAX
<1>2. /\ SensorRaw[s] \in Level((SensorRefPolarity = 1) # seen[s])
      /\ SensorRefPolarity \in {0, 1} /\ seen[s] \in BOOLEAN
  BY DEF conduction_evaluate, ConductionInv, ConductionTypeOK, KeptOf
<1>3. above <=> seen[s]
  <2>1. CASE SensorRefPolarity = 1 /\ seen[s] = TRUE
    <3>1. SensorRaw[s] \in 0 .. 3
      BY <1>2, <2>1, LevelIs
    <3> QED
      BY <2>1, <3>1 DEF ANALOG_MAX
  <2>2. CASE SensorRefPolarity = 1 /\ seen[s] = FALSE
    <3>1. SensorRaw[s] \in 13 .. 16
      BY <1>2, <2>2, LevelIs
    <3> QED
      BY <2>2, <3>1 DEF ANALOG_MAX
  <2>3. CASE SensorRefPolarity = 0 /\ seen[s] = TRUE
    <3>1. SensorRaw[s] \in 13 .. 16
      BY <1>2, <2>3, LevelIs
    <3> QED
      BY <2>3, <3>1 DEF ANALOG_MAX
  <2>4. CASE SensorRefPolarity = 0 /\ seen[s] = FALSE
    <3>1. SensorRaw[s] \in 0 .. 3
      BY <1>2, <2>4, LevelIs
    <3> QED
      BY <2>4, <3>1 DEF ANALOG_MAX
  <2> QED
    BY <1>2, <2>1, <2>2, <2>3, <2>4
<1>4. answer' = <<above, seen[s]>> /\ above \in BOOLEAN
  BY <1>1
<1> HIDE DEF above
<1>5. above = seen[s]
  BY <1>2, <1>3, <1>4
<1> QED
  BY <1>4, <1>5 DEF EvaluatesContact

LEMMA ConductionInv_step == ConductionInv /\ [ConductionNext]_conductionVars => ConductionInv'
<1> SUFFICES ASSUME ConductionInv, [ConductionNext]_conductionVars PROVE ConductionInv'
  OBVIOUS
<1>1. CASE conduction_acquire
  BY <1>1, ConductionInv_acquire
<1>2. CASE conduction_evaluate
  BY <1>2, EvaluateTells DEF conduction_evaluate, ConductionInv, ConductionTypeOK, KeptOf
<1>3. CASE conduction_getClearError
  BY <1>3
  DEF conduction_getClearError, ConductionInv, ConductionTypeOK, KeptOf, EvaluatesContact
<1>4. CASE WaterMoves
  BY <1>4 DEF WaterMoves, ConductionInv, ConductionTypeOK, KeptOf, EvaluatesContact
<1>5. CASE UNCHANGED conductionVars
  BY <1>5 DEF conductionVars, ConductionInv, ConductionTypeOK, KeptOf, EvaluatesContact
<1> QED
  BY <1>1, <1>2, <1>3, <1>4, <1>5 DEF ConductionNext

(* The invariant behind the answers. *)
THEOREM ConductionInvariant == ConductionSpec => []ConductionInv
<1>1. ConductionInit => ConductionInv
  <2> SUFFICES ASSUME ConductionInit PROVE ConductionInv
    OBVIOUS
  <2>1. SensorRaw \in [Contacts -> Int]
    BY DEF ConductionInit
  <2>2. seen \in [Contacts -> BOOLEAN] /\ contact \in [Contacts -> BOOLEAN]
    BY DEF ConductionInit
  <2>3. shorted \in BOOLEAN
    BY DEF ConductionInit
  <2>4. ConductionTypeOK
    BY <2>1, <2>2, <2>3 DEF ConductionInit, ConductionTypeOK
  <2> QED
    BY <2>4 DEF ConductionInit, ConductionInv, EvaluatesContact
<1> QED
  BY <1>1, ConductionInv_step, PTL DEF ConductionSpec

(* EvaluatesContact: what a reader is told of a contact is what was        *)
(* measured of it, with either polarity (conduction_acquire and            *)
(* conduction_evaluate).                                                   *)
THEOREM ContactIsTold == ConductionSpec => []EvaluatesContact
<1>1. ConductionInv => EvaluatesContact
  BY DEF ConductionInv
<1> QED
  BY <1>1, ConductionInvariant, PTL

-----------------------------------------------------------------------------
(* Requests for a parameter, for all types and lengths of the parameters   *)
(* and all requests.                                                       *)

(* Every parameter has a value, whatever was set. *)
ParamInv == DOMAIN stored = Params

(* A request is for the parameter it means, or for none. *)
LEMMA MeansOne ==
  ASSUME NEW r \in Requests
  PROVE  /\ config_id(r) \in Params => config_id(r) = Meant(r)
         /\ Meant(r) \in Params => config_id(r) = Meant(r)
<1>1. r.name \in Params \cup {NoName, UnknownName} /\ UnknownName \notin Params
      /\ UnknownName # NoName /\ 65535 \notin Params
  BY ParamAssumption
<1>2. CASE r.name = NoName
  BY <1>1, <1>2 DEF config_id, Meant
<1>3. CASE r.name # NoName /\ r.name = UnknownName
  BY <1>1, <1>3 DEF config_id, Meant
<1>4. CASE r.name # NoName /\ r.name # UnknownName
  BY <1>4 DEF config_id, Meant
<1> QED
  BY <1>2, <1>3, <1>4

(* The bytes of an integer that were cut off, and are zero, are filled up. *)
LEMMA FilledUp ==
  ASSUME NEW v \in [1 .. INT64 -> 0 .. BYTE - 1], NEW p \in Params,
         \A i \in ParamLength[p] + 1 .. INT64 : v[i] = 0
  PROVE  Padded(Kept(p, v), INT64) = v
<1>1. ParamLength[p] \in Nat /\ Len(v) = INT64 /\ v \in Seq(0 .. BYTE - 1)
  <2>1. ParamLength[p] \in Nat /\ INT64 \in Nat
    BY ParamAssumption DEF INT64
  <2>2. v \in Seq(0 .. BYTE - 1)
    <3>1. \A S : \A n \in Nat : [1 .. n -> S] \subseteq Seq(S)
      OBVIOUS
    <3> QED
      BY <2>1, <3>1
  <2> QED
    BY <2>1, <2>2
<1>2. CASE Len(v) > ParamLength[p]
  <2>1. Kept(p, v) = [i \in 1 .. ParamLength[p] |-> v[i]] /\ Len(Kept(p, v)) = ParamLength[p]
    BY <1>1, <1>2 DEF Kept
  <2>2. \A i \in 1 .. INT64 : (IF i <= Len(Kept(p, v)) THEN Kept(p, v)[i] ELSE 0) = v[i]
    BY <1>1, <1>2, <2>1 DEF INT64
  <2> QED
    BY <2>2 DEF Padded
<1>3. CASE ~(Len(v) > ParamLength[p])
  <2>1. Kept(p, v) = v
    BY <1>3 DEF Kept
  <2>2. \A i \in 1 .. INT64 : (IF i <= Len(v) THEN v[i] ELSE 0) = v[i]
    BY <1>1
  <2> QED
    BY <2>1, <2>2 DEF Padded
<1> QED
  BY <1>2, <1>3

LEMMA ParamInv_step == ParamInv /\ [ParamNext]_paramVars => ParamInv'
BY DEF ParamInv, ParamNext, onParamGetSet, paramVars

(* AnswersWhatIsMeant: a request reads and writes the parameter it means   *)
(* and no other, and an integer that fits is read back as it was set       *)
(* (onParamGetSet).                                                        *)
THEOREM MeantIsAnswered == ParamSpec => AnswersWhatIsMeant
<1> DEFINE Answer ==
      /\ \A p \in Params : stored'[p] # stored[p] => p = Meant(asked')
      /\ reply'.param # NoParameter => reply'.param = Meant(asked')
      /\ ~Invalid(asked') /\ FitsParam(asked') => reply'.bytes = asked'.value
<1>1. ParamInit => ParamInv
  BY DEF ParamInit, ParamInv
<1>2. ASSUME ParamInv, NEW r \in Requests, onParamGetSet(r)
      PROVE  Answer
  <2>1. asked' = r
    BY <1>2 DEF onParamGetSet
  <2>2. CASE Invalid(r) /\ reply' = Silence /\ UNCHANGED stored
    BY <2>1, <2>2 DEF Silence
  <2>3. CASE ~Invalid(r) /\ config_id(r) \notin Params /\ reply' = EmptyOnes /\ UNCHANGED stored
    BY <2>1, <2>3, MeansOne DEF EmptyOnes, FitsParam
  <2>4. CASE /\ ~Invalid(r) /\ config_id(r) \in Params
             /\ stored' = [stored EXCEPT ![config_id(r)] = AfterSet(config_id(r), r)]
             /\ reply' = [sent  |-> TRUE, param |-> config_id(r),
                          bytes |-> Response(config_id(r), AfterSet(config_id(r), r))]
    <3>1. config_id(r) = Meant(r)
      BY <2>4, MeansOne
    <3>2. \A p \in Params : stored'[p] # stored[p] => p = Meant(asked')
      BY <1>2, <2>1, <2>4, <3>1 DEF ParamInv
    <3>3. ASSUME FitsParam(r) PROVE reply'.bytes = r.value
      <4>1. /\ r.unionTag = 1 /\ ParamType[Meant(r)] = "INT"
            /\ r.value \in [1 .. INT64 -> 0 .. BYTE - 1]
        BY <2>4, <3>3, ParamAssumption DEF FitsParam, Invalid
      <4>2. reply'.bytes = Padded(Kept(Meant(r), r.value), INT64)
        BY <2>4, <3>1, <4>1 DEF Response, AfterSet
      <4> QED
        BY <3>3, <4>1, <4>2, FilledUp DEF FitsParam
    <3> QED
      BY <2>1, <2>4, <3>1, <3>2, <3>3
  <2> QED
    BY <1>2, <2>2, <2>3, <2>4 DEF onParamGetSet
<1>3. ParamInv /\ [ParamNext]_paramVars => [Answer]_paramVars
  BY <1>2 DEF ParamNext
<1> QED
  BY <1>1, <1>3, ParamInv_step, PTL DEF ParamSpec, AnswersWhatIsMeant

-----------------------------------------------------------------------------
(* The composition: in Devices every part does what its own specification  *)
(* says, so what is proved of a part holds of the whole.                   *)

LEMMA PartsInit ==
  DevicesInit => /\ PeersInit /\ IndicatorInit /\ AirInit /\ MotionInit /\ InputsInit
                 /\ SmlInit /\ MessagesInit /\ EventInit /\ PumpInit /\ ConductionInit /\ ParamInit
BY DEF DevicesInit

LEMMA PartsStep ==
  [DevicesNext]_deviceVars =>
    /\ [PeersNext]_peerVars /\ [IndicatorNext]_indicatorVars /\ [AirNext]_airVars
    /\ [MotionNext]_motionVars /\ [InputsNext]_inputVars /\ [EventNext]_eventVars
    /\ [SmlNext]_smlVars /\ [MessagesNext]_messageVars
    /\ [PumpNext]_pumpVars /\ [ConductionNext]_conductionVars /\ [ParamNext]_paramVars
BY DEF DevicesNext, deviceVars, InputsNext

(* Every part of Devices keeps to its specification. *)
THEOREM PartsKeepTheirSpec ==
  DevicesSpec => /\ PeersSpec /\ IndicatorSpec /\ AirSpec /\ MotionSpec /\ InputsSpec
                 /\ SmlSpec /\ MessagesSpec /\ EventSpec /\ PumpSpec /\ ConductionSpec /\ ParamSpec
BY PartsInit, PartsStep, PTL
   DEF DevicesSpec, PeersSpec, IndicatorSpec, AirSpec, MotionSpec, InputsSpec, SmlSpec,
       MessagesSpec, EventSpec, PumpSpec, ConductionSpec, ParamSpec

=============================================================================
