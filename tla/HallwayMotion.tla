---------------------------- MODULE HallwayMotion ----------------------------
(***************************************************************************)
(* The motion sensor of the hallway (hallway_light.c).  The faster thread  *)
(* stamps the motion and lights the hallway for a while after it; the node *)
(* thread tells the other nodes of a stamp newer than the last.  The       *)
(* system time wraps (every 119 h), and the stamps are compared as they    *)
(* are.                                                                    *)
(***************************************************************************)
EXTENDS Naturals

CONSTANTS
  TIME_WRAP,               \* of the system time (2^32)
  MOTION_SENSOR_MAX        \* HALLWAY_MOTION_SENSOR_MAX_SECONDS (45 s)

ASSUME MotionAssumption ==
  /\ TIME_WRAP \in Nat \ {0, 1} /\ MOTION_SENSOR_MAX \in Nat /\ MOTION_SENSOR_MAX < TIME_WRAP

VARIABLES
  system_time,
  trigger_time,            \* hallway_motion_sensor_trigger_time
  last_trigger_time,
  telling,                 \* node thread: message sent, last_trigger_time not yet written
  sinceMotion,             \* history: time since the last motion, up to TIME_WRAP
  unreported               \* history: there was motion since the last message

motionVars ==
  <<system_time, trigger_time, last_trigger_time, telling, sinceMotion, unreported>>

MotionInit ==
  /\ system_time = 1 /\ trigger_time = 0 /\ last_trigger_time = 0
  /\ telling = FALSE /\ sinceMotion = TIME_WRAP /\ unreported = FALSE

Pass ==
  /\ system_time' = (system_time + 1) % TIME_WRAP
  /\ sinceMotion' = IF sinceMotion < TIME_WRAP THEN sinceMotion + 1 ELSE sinceMotion
  /\ UNCHANGED <<trigger_time, last_trigger_time, telling, unreported>>

(* app_fast_tick with the pad high. *)
MotionSeen ==
  /\ trigger_time' = system_time
  /\ sinceMotion' = 0 /\ unreported' = TRUE
  /\ UNCHANGED <<system_time, last_trigger_time, telling>>

(* What LightTick takes for motion. *)
motionActive == (trigger_time + MOTION_SENSOR_MAX) % TIME_WRAP > system_time

lastTriggerTime == IF last_trigger_time = 0 THEN system_time ELSE last_trigger_time

isNewTrigger == trigger_time > lastTriggerTime

(* app_tick; the faster thread can come between the message and the        *)
(* assignment, which reads the stamp again.                                *)
TellMotion ==
  /\ ~telling
  /\ last_trigger_time' = lastTriggerTime
  /\ telling' = isNewTrigger
  /\ unreported' = (unreported /\ ~isNewTrigger)
  /\ UNCHANGED <<system_time, trigger_time, sinceMotion>>

KeepTrigger ==
  /\ telling
  /\ telling' = FALSE
  /\ last_trigger_time' = trigger_time
  /\ UNCHANGED <<system_time, trigger_time, sinceMotion, unreported>>

MotionNext == Pass \/ MotionSeen \/ TellMotion \/ KeepTrigger

(* A message says that there was motion since the last one: no stamp is    *)
(* told twice, also not after the wrap of the time.                        *)
ToldOnce == [][telling' /\ ~telling => unreported]_motionVars

MotionSpec == MotionInit /\ [][MotionNext]_motionVars

=============================================================================
