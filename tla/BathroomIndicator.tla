-------------------------- MODULE BathroomIndicator --------------------------
(***************************************************************************)
(* The yellow LED at the bathroom door, which two threads switch: the node *)
(* thread sets it and starts or stops its blinking as the state of the     *)
(* room demands (end of occupancyIndicatorTick), and the faster thread     *)
(* blinks it (app_fast_tick) and can come between any two of those steps.  *)
(* The other LEDs are only switched by the node thread.                    *)
(***************************************************************************)
EXTENDS Naturals, Sequences

CONSTANT BLINK_SPEED       \* fast ticks (70)

ASSUME BlinkAssumption == BLINK_SPEED \in Nat \ {0}

VARIABLES
  shown,                   \* state of the room, when the LED was last set
  todo,                    \* what the node thread has still to do
  yellow,                  \* the LED
  blinkSpeed, blinkTicks, blinkState,
  ticks                    \* history: ticks since shown changed, up to 2

indicatorVars == <<shown, todo, yellow, blinkSpeed, blinkTicks, blinkState, ticks>>

IndicatorInit ==
  /\ shown = "EMPTY" /\ todo = <<>>
  /\ yellow = 0 /\ blinkSpeed = 0 /\ blinkTicks = 0 /\ blinkState = 0
  /\ ticks = 0

(* blinkLed(LED_YELLOW, 70) and (LED_YELLOW, 0) change nothing if the      *)
(* speed is set already.                                                   *)
startBlink == IF blinkSpeed = BLINK_SPEED THEN <<>> ELSE <<"speed", "state", "on">>

(* Variant: the blinking is not stopped in private mode. *)
Steps_private(state) ==
  CASE state = "EMPTY"       -> <<"off", "stop">>
    [] state = "IN_USE"      -> <<"on", "stop">>
    [] state = "OPEN_IN_USE" -> startBlink
    [] state = "PRIVATE"     -> <<"off">>

Steps(state) ==
  CASE state = "EMPTY"       -> <<"off", "stop">>
    [] state = "IN_USE"      -> <<"on", "stop">>
    [] state = "OPEN_IN_USE" -> startBlink
    [] state = "PRIVATE"     -> <<"stop", "off">>

IndicatorTick ==
  /\ todo = <<>>
  /\ \E state \in {"EMPTY", "OPEN_IN_USE", "IN_USE", "PRIVATE"} :
       /\ shown' = state
       /\ todo' = Steps(state)
       /\ ticks' = IF state # shown THEN 0 ELSE IF ticks < 2 THEN ticks + 1 ELSE ticks
  /\ UNCHANGED <<yellow, blinkSpeed, blinkTicks, blinkState>>

SetLed ==
  /\ todo # <<>>
  /\ todo' = Tail(todo)
  /\ CASE Head(todo) \in {"on", "off"} ->
            /\ yellow' = IF Head(todo) = "on" THEN 1 ELSE 0
            /\ UNCHANGED <<blinkSpeed, blinkState>>
       [] Head(todo) \in {"speed", "stop"} ->
            /\ blinkSpeed' = IF Head(todo) = "speed" THEN BLINK_SPEED ELSE 0
            /\ UNCHANGED <<yellow, blinkState>>
       [] Head(todo) = "state" ->
            /\ blinkState' = 1
            /\ UNCHANGED <<yellow, blinkSpeed>>
  /\ UNCHANGED <<shown, blinkTicks, ticks>>

(* app_fast_tick, after readButtons. *)
Blink ==
  /\ blinkSpeed > 0
  /\ IF blinkTicks + 1 >= blinkSpeed
     THEN blinkTicks' = 0 /\ blinkState' = 1 - blinkState /\ yellow' = 1 - blinkState
     ELSE blinkTicks' = blinkTicks + 1 /\ UNCHANGED <<blinkState, yellow>>
  /\ UNCHANGED <<shown, todo, blinkSpeed, ticks>>

IndicatorNext == IndicatorTick \/ SetLed \/ Blink

IndicatorSpec == IndicatorInit /\ [][IndicatorNext]_indicatorVars

(* The LED shows the state of the room.  The fast thread can undo the LED  *)
(* before the blinking is stopped (lines 321 and 323 are in the order that *)
(* allows it, 338 and 339 in the other), so this holds from the second     *)
(* tick of a state on, and of the private mode from the first.             *)
LedSettles ==
  todo = <<>> /\ (ticks > 0 \/ shown = "PRIVATE") =>
    CASE shown = "OPEN_IN_USE" -> blinkSpeed = BLINK_SPEED
      [] shown = "IN_USE"      -> blinkSpeed = 0 /\ yellow = 1
      [] OTHER                 -> blinkSpeed = 0 /\ yellow = 0

=============================================================================
