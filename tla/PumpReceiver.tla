----------------------------- MODULE PumpReceiver -----------------------------
(***************************************************************************)
(* The greywater pump (pump_receiver.c).  The pump fills a tank that       *)
(* another node watches, from a source that may run empty; then it is      *)
(* refilled with fresh water.  Deadlines are a stamp plus a time, compared *)
(* with a system time that wraps.                                          *)
(***************************************************************************)
EXTENDS Naturals

CONSTANTS
  PUMP_WRAP,               \* range of the system time (2^32)
  MAX_PUMP_ON, MAX_REFILL, COOLDOWN, FRESH     \* 180 s, 600 s, 20 s, 3 s

ASSUME PumpAssumption ==
  /\ PUMP_WRAP \in Nat \ {0}
  /\ {MAX_PUMP_ON, MAX_REFILL, COOLDOWN, FRESH} \subseteq 1 .. PUMP_WRAP - 1

Longest == CHOOSE t \in {MAX_PUMP_ON, MAX_REFILL, COOLDOWN} :
             \A u \in {MAX_PUMP_ON, MAX_REFILL, COOLDOWN} : u <= t

VARIABLES
  pumpClock,
  target,                  \* flags of the target node: [error, full, empty]
  target_data_update_time,
  source_is_empty,
  pump_state,              \* state: "WAIT", "PUMP", "REFILL_ONLY", "REFILL_PUMP", "ERROR"
  pump_on_time, refill_on_time,
  last_empty_source_pump_stop,
  wrapped,                 \* history: a deadline may have wrapped by now
  pumpOnFor, refillOnFor,  \* time each has been on, up to Longest + 1
  stoppedFor,              \* time since an empty source stopped it, up to COOLDOWN
  ticked                   \* there was a tick at this time

pumpVars == <<pumpClock, target, target_data_update_time, source_is_empty, pump_state, pump_on_time,
              refill_on_time, last_empty_source_pump_stop, wrapped, pumpOnFor, refillOnFor,
              stoppedFor, ticked>>

PumpInit ==
  /\ pumpClock = 0
  /\ target = [error |-> TRUE, full |-> TRUE, empty |-> FALSE]
  /\ target_data_update_time = 0 /\ source_is_empty = FALSE
  /\ pump_state = "WAIT" /\ pump_on_time = 0 /\ refill_on_time = 0
  /\ last_empty_source_pump_stop = 0
  /\ wrapped = FALSE /\ pumpOnFor = 0 /\ refillOnFor = 0 /\ stoppedFor = COOLDOWN /\ ticked = FALSE

pumpOn(state) == state \in {"PUMP", "REFILL_PUMP"}
refillOn(state) == state \in {"REFILL_ONLY", "REFILL_PUMP"}

deadline(stamp, time) == (stamp + time) % PUMP_WRAP

isUpToDate == deadline(target_data_update_time, FRESH) > pumpClock
recentlyStopped == deadline(last_empty_source_pump_stop, COOLDOWN) > pumpClock
tooLong(stamp, max) == deadline(stamp, max) < pumpClock

(* Receive thread, from the node that is followed. *)
on_conduction_sensor_data ==
  /\ \E error, full, empty \in BOOLEAN : target' = [error |-> error, full |-> full, empty |-> empty]
  /\ target_data_update_time' = pumpClock
  /\ UNCHANGED <<pumpClock, source_is_empty, pump_state, pump_on_time, refill_on_time,
                 last_empty_source_pump_stop, wrapped, pumpOnFor, refillOnFor,
                 stoppedFor, ticked>>

(* The filtered level is below, within or above the hysteresis (205, 210). *)
Source(level) ==
  CASE level = "low" -> TRUE [] level = "high" -> FALSE [] level = "between" -> source_is_empty

(* Variant: the refill time is not looked at while the pump runs too. *)
transition_refillPump(empty, unsteady) ==
  CASE pump_state = "WAIT" ->
         IF ~target.empty THEN "WAIT"
         ELSE IF empty \/ recentlyStopped THEN "REFILL_ONLY" ELSE "PUMP"
    [] pump_state = "PUMP" ->
         IF empty \/ target.full THEN "WAIT"
         ELSE IF tooLong(pump_on_time, MAX_PUMP_ON) THEN "ERROR" ELSE "PUMP"
    [] pump_state = "REFILL_ONLY" ->
         IF tooLong(refill_on_time, MAX_REFILL) THEN "ERROR"
         ELSE IF ~empty /\ ~recentlyStopped THEN "REFILL_PUMP" ELSE "REFILL_ONLY"
    [] pump_state = "REFILL_PUMP" ->
         IF empty \/ unsteady THEN "REFILL_ONLY" ELSE "REFILL_PUMP"
    [] pump_state = "ERROR" -> "ERROR"

transition(empty, unsteady) ==
  CASE pump_state = "WAIT" ->
         IF ~target.empty THEN "WAIT"
         ELSE IF empty \/ recentlyStopped THEN "REFILL_ONLY" ELSE "PUMP"
    [] pump_state = "PUMP" ->
         IF empty \/ target.full THEN "WAIT"
         ELSE IF tooLong(pump_on_time, MAX_PUMP_ON) THEN "ERROR" ELSE "PUMP"
    [] pump_state = "REFILL_ONLY" ->
         IF tooLong(refill_on_time, MAX_REFILL) THEN "ERROR"
         ELSE IF ~empty /\ ~recentlyStopped THEN "REFILL_PUMP" ELSE "REFILL_ONLY"
    [] pump_state = "REFILL_PUMP" ->
         IF tooLong(refill_on_time, MAX_REFILL) THEN "ERROR"
         ELSE IF empty \/ unsteady THEN "REFILL_ONLY" ELSE "REFILL_PUMP"
    [] pump_state = "ERROR" -> "ERROR"

refillEnds == refillOn(pump_state) /\ tooLong(refill_on_time, MAX_REFILL)

sourceStops(empty, unsteady) ==
  \/ pump_state = "PUMP" /\ empty
  \/ pump_state = "REFILL_PUMP" /\ (empty \/ unsteady) /\ ~refillEnds

override == target.full \/ target.error \/ ~isUpToDate

pump_receiver_tick ==
  \E level \in {"low", "between", "high"}, unsteady \in BOOLEAN :
    LET empty == Source(level)
        next  == IF override THEN "WAIT" ELSE transition(empty, unsteady)
    IN  /\ source_is_empty' = empty
        /\ pump_state' = next
        /\ pump_on_time' = IF pumpOn(next) /\ ~pumpOn(pump_state) THEN pumpClock ELSE pump_on_time
        /\ refill_on_time' = IF refillOn(next) /\ ~refillOn(pump_state) THEN pumpClock ELSE refill_on_time
        /\ last_empty_source_pump_stop' =
             IF sourceStops(empty, unsteady) THEN pumpClock ELSE last_empty_source_pump_stop
        /\ stoppedFor' = IF pumpOn(pump_state) /\ ~pumpOn(next) /\ empty /\ ~refillEnds
                         THEN 0 ELSE stoppedFor
        /\ pumpOnFor' = IF pumpOn(next) THEN pumpOnFor ELSE 0
        /\ refillOnFor' = IF refillOn(next) THEN refillOnFor ELSE 0
        /\ ticked' = TRUE
        /\ UNCHANGED <<pumpClock, target, target_data_update_time, wrapped>>

RunsOn(on, for) == IF on /\ for <= Longest THEN for + 1 ELSE for

(* The time goes on between the ticks of the node thread; here until a     *)
(* deadline may have wrapped, from when on the properties say nothing.     *)
PumpPass ==
  /\ ~wrapped
  /\ pumpClock' = (pumpClock + 1) % PUMP_WRAP
  /\ wrapped' = (wrapped \/ pumpClock' + Longest >= PUMP_WRAP)
  /\ pumpOnFor' = RunsOn(pumpOn(pump_state), pumpOnFor)
  /\ refillOnFor' = RunsOn(refillOn(pump_state), refillOnFor)
  /\ stoppedFor' = IF stoppedFor < COOLDOWN THEN stoppedFor + 1 ELSE stoppedFor
  /\ ticked' = FALSE
  /\ UNCHANGED <<target, target_data_update_time, source_is_empty, pump_state, pump_on_time,
                 refill_on_time, last_empty_source_pump_stop>>

PumpNext == on_conduction_sensor_data \/ pump_receiver_tick \/ PumpPass

PumpSpec == PumpInit /\ [][PumpNext]_pumpVars

(* Until the system time comes near its wrap (after 119 h) pump and fresh  *)
(* water are off or in time after every tick, each in the mode it is in:   *)
(* whatever the other node reports, and however often the pump goes off    *)
(* and on while the water runs, both are switched off when they have run   *)
(* too long.                                                               *)
PumpEnds ==
  ticked /\ ~wrapped =>
    /\ pump_state = "PUMP" => pumpOnFor <= MAX_PUMP_ON
    /\ refillOn(pump_state) => refillOnFor <= MAX_REFILL
    /\ pump_state = "REFILL_PUMP" => pumpOnFor <= MAX_REFILL

(* Until then the pump is not switched on again within the cool-down time  *)
(* after it stopped with the source empty (at the end of the refill time   *)
(* the source is not looked at).                                           *)
SourceRests ==
  [][~wrapped /\ ~pumpOn(pump_state) /\ pumpOn(pump_state') => stoppedFor >= COOLDOWN]_pumpVars

=============================================================================
