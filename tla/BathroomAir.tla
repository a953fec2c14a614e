----------------------------- MODULE BathroomAir -----------------------------
(***************************************************************************)
(* The other controls of the bathroom: the moving average of the           *)
(* brightness (readLdr), which leaves out what the light itself adds, the  *)
(* light (lightTick), and the fan with its run-out time (fanControlTick).  *)
(* Who is in the room, Bathroom has: here somebody may come or go in any   *)
(* tick.                                                                   *)
(***************************************************************************)
EXTENDS Integers

CONSTANTS
  LDR_WINDOW_LENGTH,       \* readings (128)
  Brightness,              \* what the LDR reads, dark is 0 (0 .. 255)
  DARK,                    \* average below which brightness is 0 (32)
  UINT16,                  \* 2^16
  AIR_WRAP,                \* of the system time, in seconds
  RunOutTimes              \* parameter, in seconds

ASSUME AirAssumption ==
  /\ LDR_WINDOW_LENGTH \in Nat \ {0}
  /\ Brightness \subseteq Nat /\ 0 \in Brightness
  /\ AIR_WRAP \in Nat /\ RunOutTimes \subseteq 0 .. AIR_WRAP - 2

VARIABLES
  window, windowPointer, sum,
  person_inside, bright, light,
  fanRunning,              \* 2: triggered, 1: runs out, 0: off
  fanAge,                  \* of fanNotTriggeredAnymoreAt
  fanRunOutTime,
  untriggered              \* history: seconds without trigger, up to AIR_WRAP

ldrVars == <<window, windowPointer, sum>>
lightVars == <<person_inside, bright, light>>
airVars == <<ldrVars, lightVars, fanRunning, fanAge, fanRunOutTime, untriggered>>

Places == 0 .. LDR_WINDOW_LENGTH - 1

AirInit ==
  /\ window = [i \in Places |-> 0] /\ windowPointer = 0 /\ sum = 0
  /\ person_inside = FALSE /\ bright = FALSE /\ light = 0
  /\ fanRunning = 0 /\ fanAge = 0
  /\ fanRunOutTime \in RunOutTimes
  /\ untriggered = AIR_WRAP

(* Every LDR_TICK_INTERVAL_S.  With the bright light on it counts as dark, *)
(* with somebody inside the last value is taken again.                     *)
readingOf(reading) ==
  IF bright THEN 0 ELSE IF person_inside THEN window[windowPointer] ELSE reading

readLdr(v) ==
  LET next == (windowPointer + 1) % LDR_WINDOW_LENGTH
  IN  /\ sum' = (sum + v - window[next]) % UINT16
      /\ window' = [window EXCEPT ![next] = v]
      /\ windowPointer' = next

ReadLdr ==
  \/ \E reading \in Brightness : readLdr(readingOf(reading))
  \/ UNCHANGED ldrVars

(* Variant: the run-out time is counted from the first trigger. *)
stamped_first(trigger) == trigger /\ fanRunning = 0

stamped(trigger) == ~trigger /\ fanRunning = 2

(* Trigger: humidity above the limit, or a wall below the dew point. *)
fanControlTick ==
  \E trigger \in BOOLEAN :
    LET running == IF trigger THEN 2 ELSE IF fanRunning = 2 THEN 1 ELSE fanRunning
        age     == IF stamped(trigger) THEN 0 ELSE (fanAge + 1) % AIR_WRAP
    IN  /\ fanRunning' = IF ~trigger /\ age > fanRunOutTime THEN 0 ELSE running
        /\ fanAge' = age
        /\ untriggered' = IF trigger THEN 0
                          ELSE IF untriggered < AIR_WRAP THEN untriggered + 1
                          ELSE untriggered

(* The key toggles the bright light, which lasts as long as somebody is    *)
(* inside.  light is 1 (dimmed) only when it is dark.                      *)
lightTick ==
  \E brightnessSwitchPressed \in BOOLEAN :
    LET isBright == IF brightnessSwitchPressed THEN ~bright ELSE bright
    IN  /\ bright' = (isBright /\ person_inside')
        /\ light' = IF ~person_inside' THEN 0
                    ELSE IF isBright THEN 2
                    ELSE IF sum' \div LDR_WINDOW_LENGTH < DARK THEN 1 ELSE 0

(* app_tick, in its order: readLdr takes person_inside of the last tick.   *)
AirTick ==
  /\ ReadLdr
  /\ person_inside' \in BOOLEAN
  /\ fanControlTick
  /\ lightTick
  /\ UNCHANGED fanRunOutTime

SetRunOutTime ==
  /\ fanRunOutTime' \in RunOutTimes
  /\ UNCHANGED <<ldrVars, lightVars, fanRunning, fanAge, untriggered>>

AirNext == AirTick \/ SetRunOutTime

AirSpec == AirInit /\ [][AirNext]_airVars

(* The fan is not switched off before the air was good for the run-out     *)
(* time, through new triggers, changes of the time and the clock's wrap.   *)
FanRunsOut ==
  [][fanRunning # 0 /\ fanRunning' = 0 => untriggered' > fanRunOutTime]_airVars

=============================================================================
