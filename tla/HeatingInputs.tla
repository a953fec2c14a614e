---------------------------- MODULE HeatingInputs ----------------------------
(***************************************************************************)
(* What the heating controller is told: the six key switches, scanned by   *)
(* the fast thread in three columns (app_fast_tick), and the time of day,  *)
(* received from node 100 and read by the node thread (inTimeRange).       *)
(*                                                                         *)
(* The two switches of a column are scanned alike; a position is that of   *)
(* both.  The pads read the column that is driven, so the switch whose     *)
(* turn it is has to be selected in the tick before.                       *)
(***************************************************************************)
EXTENDS Integers

CONSTANTS
  Positions,       \* of the switches of a column, as read; 0 at the start
  HOURS, MINUTES,  \* of a day (24) and of an hour (60)
  Ranges           \* [start, stop], each [h, m]: time1Start and time1Stop

Columns == 0 .. 2

TimeOfDay == [h : 0 .. HOURS - 1, m : 0 .. MINUTES - 1]

ASSUME HeatingInputsAssumption ==
  /\ 0 \in Positions
  /\ HOURS \in Nat \ {0} /\ MINUTES \in Nat \ {0}
  /\ Ranges \subseteq [start : TimeOfDay, stop : TimeOfDay]

VARIABLES
  currentKey,      \* column read in the next tick
  driven,          \* column whose output pin is set
  key, key_next,
  switch,          \* where the switches are
  still,           \* fast ticks since a switch was moved
  time,            \* time_hour and time_minute
  current_h,       \* hour the node thread has read, -1 if it reads none
  torn,            \* history: the time was set since then
  range,           \* time1Start, time1Stop
  day              \* last result of inTimeRange

inputVars == <<currentKey, driven, key, key_next, switch, still, time, current_h,
               torn, range, day>>

keyVars == <<currentKey, driven, key, key_next, switch, still>>
timeVars == <<time, current_h, torn, range, day>>

(* Two scans of all columns, and one tick. *)
StillEnough == 2 * 3 + 1

InputsInit ==
  /\ currentKey = 0 /\ driven = 0
  /\ key = [c \in Columns |-> 0] /\ key_next = [c \in Columns |-> 0]
  /\ switch \in [Columns -> Positions]
  /\ still = 0
  /\ time = [h |-> 0, m |-> 0]
  /\ current_h = -1 /\ torn = FALSE
  /\ range \in Ranges
  /\ day = FALSE

-----------------------------------------------------------------------------
(* Keys *)

MoveSwitch ==
  /\ \E c \in Columns, p \in Positions : switch' = [switch EXCEPT ![c] = p]
  /\ still' = 0
  /\ UNCHANGED <<currentKey, driven, key, key_next, timeVars>>

(* Variant: the next column is selected a tick too late. *)
ScanKeys_late ==
  LET in == switch[driven]
  IN  /\ key' = IF key_next[currentKey] = in THEN [key EXCEPT ![currentKey] = in] ELSE key
      /\ key_next' = [key_next EXCEPT ![currentKey] = in]
      /\ driven' = currentKey
      /\ currentKey' = (currentKey + 1) % 3
      /\ still' = IF still < StillEnough THEN still + 1 ELSE still
      /\ UNCHANGED <<switch, timeVars>>

(* A position counts when two scans in a row have read it. *)
ScanKeys ==
  LET in == switch[driven]
  IN  /\ key' = IF key_next[currentKey] = in THEN [key EXCEPT ![currentKey] = in] ELSE key
      /\ key_next' = [key_next EXCEPT ![currentKey] = in]
      /\ currentKey' = (currentKey + 1) % 3
      /\ driven' = (driven + 1) % 3
      /\ still' = IF still < StillEnough THEN still + 1 ELSE still
      /\ UNCHANGED <<switch, timeVars>>

-----------------------------------------------------------------------------
(* Time *)

(* The receive thread sets minute and hour without a wait in between.      *)
(* Times of other nodes than 100 are ignored and no step of this model.    *)
on_time_data ==
  /\ time' \in TimeOfDay
  /\ torn' = (current_h # -1 /\ (torn \/ time' # time))
  /\ UNCHANGED <<keyVars, current_h, range, day>>

(* inTimeRange, up to where the receive thread may come between. *)
ReadHour ==
  /\ current_h = -1
  /\ current_h' = time.h
  /\ torn' = FALSE
  /\ UNCHANGED <<keyVars, time, range, day>>

(* Variant: the minute of the stop belongs to the range. *)
inTimeRange_closed(h, m) ==
  \/ h > range.start.h /\ h < range.stop.h
  \/ h = range.start.h /\ m >= range.start.m
  \/ h = range.stop.h /\ m <= range.stop.m

inTimeRange(h, m) ==
  \/ h > range.start.h /\ h < range.stop.h
  \/ h = range.start.h /\ m >= range.start.m
  \/ h = range.stop.h /\ m < range.stop.m

ReadMinute ==
  /\ current_h # -1
  /\ day' = inTimeRange(current_h, time.m)
  /\ current_h' = -1
  /\ torn' = FALSE
  /\ UNCHANGED <<keyVars, time, range>>

SetRange ==
  /\ range' \in Ranges
  /\ UNCHANGED <<keyVars, time, current_h, torn, day>>

KeysNext == MoveSwitch \/ ScanKeys

ClockNext == on_time_data \/ ReadHour \/ ReadMinute \/ SetRange

InputsNext == KeysNext \/ ClockNext

InputsSpec == InputsInit /\ [][InputsNext]_inputVars

-----------------------------------------------------------------------------
(* Properties *)

(* A switch that is left alone is known after two scans, as what it is and *)
(* not as the switch of another column: the order of reading a column and  *)
(* selecting the next one must be right through the whole cycle.           *)
KeysFollowSwitches == still = StillEnough => key = switch

(* "Temp 1 is active from time1Start to time1Stop" (line 111), for ranges  *)
(* that end in a later hour of the day than they begin in, and unless the  *)
(* receive thread sets the time while it is read.  (Ranges within an hour  *)
(* and over midnight are not handled: README.md.)                          *)
Minutes(t) == t.h * MINUTES + t.m

DayFromStartToStop ==
  [][ReadMinute /\ ~torn /\ range.start.h < range.stop.h =>
       day' = (/\ Minutes(range.start) <= Minutes(time)
               /\ Minutes(time) < Minutes(range.stop))]_inputVars

=============================================================================
