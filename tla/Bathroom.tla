------------------------------- MODULE Bathroom -------------------------------
(***************************************************************************)
(* Who is in the bathroom (nodes/bathroom.c): door and key debounced by    *)
(* the fast thread, the occupancy state machine in app_tick (here          *)
(* bathroom_tick) of the node thread.  BathroomIndicator has the           *)
(* LEDs, BathroomAir the fan and the light.                                *)
(*                                                                         *)
(* Time stamps are kept as ages modulo the system time, in half seconds: a *)
(* tick is every second, and what the fast thread stamps is half a second  *)
(* before the next.                                                        *)
(***************************************************************************)
EXTENDS Integers

CONSTANTS
  ROOM_WRAP,                     \* of the system time, in half seconds
  \* in half seconds:
  MOTION_TRIGGER_ACTIVE, MOTION_TRIGGER_ACTIVE_DOOR_CLOSED,
  MOTION_TRIGGER_BLOCK_AFTER_DOOR_CLOSE,
  MOTION_TRIGGER_AFTER_DOOR_CLOSE_NOT_EMPTY,
  PRIVATE_MODE_BUTTON_VALID_FOR,
  MOTION_NOW,               \* motion that opens an empty room (2 s)
  DOOR_COUNT, KEY_COUNT     \* samples (100, 10)

ASSUME BathroomAssumption ==
  /\ ROOM_WRAP \in Nat /\ ROOM_WRAP % 2 = 0
  /\ ROOM_WRAP > MOTION_TRIGGER_ACTIVE_DOOR_CLOSED + 2
  /\ DOOR_COUNT \in Nat /\ KEY_COUNT \in Nat

VARIABLES
  motion_sensor,            \* age of motion_sensor_last_active
  door_sensor,              \* age of door_sensor_last_open, -1: since the tick
  doorSensorLast, doorSensorCount, door_closed,
  occupancySwitchCount, occupancySwitchPressed,
  state,
  occupancyPressedAt,       \* its age, or None for 0
  motion_sensor_active_since_door_closed,
  quiet                     \* history: half seconds without motion, up to ROOM_WRAP

None == -1

buttonVars == <<door_sensor, doorSensorLast, doorSensorCount, door_closed,
                occupancySwitchCount, occupancySwitchPressed>>
roomVars == <<motion_sensor, state, occupancyPressedAt,
              motion_sensor_active_since_door_closed, quiet>>
bathroomVars == <<buttonVars, roomVars>>

(* The first tick is more than 5 s after the start of the clock. *)
BathroomInit ==
  /\ motion_sensor = MOTION_NOW /\ door_sensor = MOTION_NOW
  /\ doorSensorLast = 0 /\ doorSensorCount = 0 /\ door_closed = FALSE
  /\ occupancySwitchCount = 0 /\ occupancySwitchPressed = FALSE
  /\ state = "EMPTY" /\ occupancyPressedAt = None
  /\ motion_sensor_active_since_door_closed = FALSE
  /\ quiet = ROOM_WRAP

-----------------------------------------------------------------------------
(* app_fast_tick: readButtons.  A pad reads 0 when the door is closed or a *)
(* key is pressed.  occupancySwitchLast is never assigned and is 0, so the *)
(* count is that of the samples in which the key is pressed.               *)

Door(pad) ==
  IF pad = doorSensorLast
  THEN IF doorSensorCount > DOOR_COUNT
       THEN /\ door_closed' = (pad = 0)
            /\ door_sensor' = IF pad = 0 THEN door_sensor ELSE -1
            /\ UNCHANGED <<doorSensorLast, doorSensorCount>>
       ELSE /\ doorSensorCount' = doorSensorCount + 1
            /\ UNCHANGED <<doorSensorLast, door_closed, door_sensor>>
  ELSE /\ doorSensorCount' = 0
       /\ doorSensorLast' = pad
       /\ UNCHANGED <<door_closed, door_sensor>>

OccupancySwitch(pad) ==
  /\ occupancySwitchPressed' =
       (occupancySwitchPressed \/ (pad = 0 /\ occupancySwitchCount = KEY_COUNT))
  /\ occupancySwitchCount' =
       IF pad = 1 THEN 0
       ELSE IF occupancySwitchCount > KEY_COUNT THEN occupancySwitchCount
       ELSE occupancySwitchCount + 1

readButtons ==
  /\ \E pad \in 0 .. 1 : Door(pad)
  /\ \E pad \in 0 .. 1 : OccupancySwitch(pad)
  /\ UNCHANGED roomVars

-----------------------------------------------------------------------------
(* bathroom_tick *)

Later(age) == (age + 2) % ROOM_WRAP

(* Variant: an open door counts as motion. *)
motionSensorActiveAgo_door(motion) ==
  IF motion \/ ~door_closed THEN 0 ELSE Later(motion_sensor)

(* What the tick finds: the ages after readMotionSensor. *)
motionSensorActiveAgo(motion) == IF motion THEN 0 ELSE Later(motion_sensor)
doorOpenAgo == Later(door_sensor)

activeSinceDoorClosed(motion) ==
  IF ~door_closed THEN FALSE
  ELSE \/ motion_sensor_active_since_door_closed
       \/ /\ doorOpenAgo >= MOTION_TRIGGER_BLOCK_AFTER_DOOR_CLOSE
          /\ motionSensorActiveAgo(motion) <
               doorOpenAgo - MOTION_TRIGGER_BLOCK_AFTER_DOOR_CLOSE

shouldHaveBeenActive ==
  door_closed /\ doorOpenAgo > MOTION_TRIGGER_AFTER_DOOR_CLOSE_NOT_EMPTY

(* The age of a press that still counts.  A press at the system time 0 is  *)
(* stamped 1, in the future, and forgotten at once (atZero).               *)
pressedFor(atZero) ==
  LET age == IF occupancySwitchPressed THEN IF atZero THEN ROOM_WRAP - 1 ELSE 0
             ELSE IF occupancyPressedAt = None THEN None
             ELSE occupancyPressedAt + 2
  IN  IF age > PRIVATE_MODE_BUTTON_VALID_FOR THEN None ELSE age

(* Variant: private mode ends only when nobody is seen to have come in. *)
NextState_noTimeout(motion, pressed) ==
  LET ago == motionSensorActiveAgo(motion)
  IN  CASE state = "EMPTY" -> IF ago < MOTION_NOW THEN "OPEN_IN_USE" ELSE state
        [] state = "OPEN_IN_USE" ->
             IF pressed THEN "PRIVATE" ELSE IF ago > MOTION_TRIGGER_ACTIVE THEN "EMPTY" ELSE state
        [] state = "IN_USE" ->
             IF pressed THEN "PRIVATE" ELSE IF ago > MOTION_TRIGGER_ACTIVE THEN "EMPTY" ELSE state
        [] state = "PRIVATE" ->
             IF pressed THEN "IN_USE"
             ELSE IF shouldHaveBeenActive /\ ~activeSinceDoorClosed(motion) THEN "EMPTY"
             ELSE state

NextState(motion, pressed) ==
  LET ago == motionSensorActiveAgo(motion)
  IN  CASE state = "EMPTY" ->
             IF ago < MOTION_NOW THEN "OPEN_IN_USE" ELSE state
        [] state = "OPEN_IN_USE" ->
             IF pressed THEN "PRIVATE"
             ELSE IF ago > MOTION_TRIGGER_ACTIVE THEN "EMPTY"
             ELSE IF door_closed /\ activeSinceDoorClosed(motion) THEN "IN_USE"
             ELSE state
        [] state = "IN_USE" ->
             IF pressed THEN "PRIVATE"
             ELSE IF ago > MOTION_TRIGGER_ACTIVE THEN "EMPTY"
             ELSE IF ~door_closed THEN "OPEN_IN_USE"
             ELSE state
        [] state = "PRIVATE" ->
             IF pressed THEN "IN_USE"
             ELSE IF \/ ago > MOTION_TRIGGER_ACTIVE_DOOR_CLOSED
                     \/ shouldHaveBeenActive /\ ~activeSinceDoorClosed(motion)
             THEN "EMPTY" ELSE state

(* Only the empty room keeps a press for later. *)
occupancyIndicatorTick(motion, atZero) ==
  LET age == pressedFor(atZero)
  IN  /\ state' = NextState(motion, age # None)
      /\ occupancyPressedAt' = IF state = "EMPTY" THEN age ELSE None
      /\ motion_sensor_active_since_door_closed' = activeSinceDoorClosed(motion)
      /\ occupancySwitchPressed' = FALSE

RoomTick(motion, atZero) ==
  /\ motion_sensor' = motionSensorActiveAgo(motion)
  /\ door_sensor' = doorOpenAgo
  /\ occupancyIndicatorTick(motion, atZero)
  /\ quiet' = IF motion THEN 0 ELSE IF quiet < ROOM_WRAP THEN quiet + 2 ELSE ROOM_WRAP
  /\ UNCHANGED <<doorSensorLast, doorSensorCount, door_closed, occupancySwitchCount>>

bathroom_tick == \E motion, atZero \in BOOLEAN : RoomTick(motion, atZero)

BathroomNext == readButtons \/ bathroom_tick

BathroomSpec == BathroomInit /\ [][BathroomNext]_bathroomVars

-----------------------------------------------------------------------------
(* Properties *)

(* An empty room comes into use only when somebody moves in it: at most    *)
(* two ticks after a motion.  The exception is the wrap of the clock,      *)
(* after which an old motion looks new: once in 119 h without one.         *)
OnlyMotionOpens ==
  [][state = "EMPTY" /\ state' # "EMPTY" =>
       quiet' < MOTION_NOW \/ quiet' >= ROOM_WRAP]_bathroomVars

(* A room in which nobody moves is empty in the end, whatever mode, door   *)
(* and wrap of the clock, unless somebody keeps pressing the key.          *)
Stillness == <>[](quiet > 0 /\ ~occupancySwitchPressed)

EmptiesInTheEnd == Stillness => []<>(state = "EMPTY")

=============================================================================
