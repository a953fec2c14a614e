-------------------------------- MODULE Boiler --------------------------------
(***************************************************************************)
(* The heater of a boiler node and the three threads that switch it:       *)
(*                                                                         *)
(*   receive thread   meter readings (on_obis_data, regulate), the status  *)
(*                    of other boilers, parameters (reconfigure)           *)
(*   fast thread      app_fast_tick every 5 ms, dimmer_tick                *)
(*   node thread      app_tick every second                                *)
(*                                                                         *)
(* Receive and fast thread have one priority: each runs until it waits,    *)
(* for canardMtx or for the EEPROM.  The node thread, of lower priority,   *)
(* can be interrupted anywhere.  The receive thread runs all its handlers  *)
(* with canardMtx locked, and every send locks it.                         *)
(*                                                                         *)
(* Temperatures, outputs and limits are small ordered sets of numbers; the *)
(* controller (pid_tick) may give any output.  A second is one app_tick.   *)
(***************************************************************************)
EXTENDS BoilerPeers, Sequences

CONSTANTS
  CONTROLLER_TIMEOUT,     \* seconds (15)
  FAST_START,             \* seconds until the fast thread starts (5)
  HYSTERESIS,             \* 300 centidegrees
  Temperatures,
  Outputs,                \* of the controller, clipped, a subset of 0 .. 100
  Limits,                 \* what can be configured: records max, min, target
  DutyCycles              \* CONFIG_DIMMER_DUTY_CYCLE

ASSUME BoilerAssumption ==
  /\ CONTROLLER_TIMEOUT \in Nat /\ AGE_WRAP > CONTROLLER_TIMEOUT + 1
  /\ FAST_START \in 1 .. CONTROLLER_TIMEOUT
  /\ Temperatures \subseteq Int /\ HYSTERESIS \in Nat
  /\ Outputs \subseteq 0 .. 100 /\ DutyCycles \subseteq 0 .. 100
  /\ Limits \subseteq [max : Int, min : Int, target : Int]

VARIABLES
  controller_dc, controller_update,
  controller_age,       \* of controller_last_update, 0 at the start, modulo AGE_WRAP
  boiler_dc,
  dimmer,               \* halfwaves_on, as a duty cycle
  boiler_temperature,
  limits,               \* max_, min_ and target_boiler_temperature
  meter,                \* last_180meter_reading # 0, last_280... # 0, fresh180reading
  canardMtx,            \* the thread that holds it, or "free"
  waiting,              \* receive and fast thread waiting for it, in order
  rx, fast, node,       \* where the threads are
  frame,                \* what the receive thread is handling
  fast_in,              \* seconds until the fast thread starts
  \* history
  silent,               \* seconds since the last controller output
  hot,                  \* seconds the temperature was measured above max
  reloaded              \* dimmer_read_config has run since app_tick last stopped it

controlVars == <<controller_dc, controller_update, controller_age>>
heaterVars == <<boiler_dc, dimmer>>
lockVars == <<canardMtx, waiting>>
vars == <<peerVars, controlVars, heaterVars, boiler_temperature, limits, meter,
          lockVars, rx, fast, node, frame, fast_in, silent, hot, reloaded>>

MaxSilent == CONTROLLER_TIMEOUT + 1
MaxHot == CONTROLLER_TIMEOUT + 2
NoFrame == [kind |-> "none"]

Frames ==
  [kind : {"180", "280"}, zero : BOOLEAN]
    \cup [kind : {"status"}, from : Nodes, priority : Priorities]
    \cup [kind : {"set"}, limits : Limits, dc : DutyCycles]

(* After app_init: the threads run, the dimmer is at its configured duty cycle. *)
Init ==
  /\ PeersInit
  /\ controller_dc = 0 /\ controller_update = FALSE /\ controller_age = 0
  /\ boiler_dc = 0
  /\ dimmer \in DutyCycles
  /\ boiler_temperature = 0
  /\ limits \in Limits
  /\ meter = [last180 |-> FALSE, last280 |-> FALSE, fresh180 |-> FALSE]
  /\ canardMtx = "free" /\ waiting = << >>
  /\ rx = "idle" /\ fast = "idle" /\ node = "idle"
  /\ frame = NoFrame
  /\ fast_in = FAST_START
  /\ silent = 0 /\ hot = 0 /\ reloaded = TRUE

-----------------------------------------------------------------------------
(* canardMtx: a thread that unlocks it hands it to the first that waits. *)

Lock(t) ==
  IF canardMtx = "free"
  THEN canardMtx' = t /\ UNCHANGED waiting
  ELSE waiting' = Append(waiting, t) /\ UNCHANGED canardMtx

Unlock ==
  IF waiting = << >>
  THEN canardMtx' = "free" /\ UNCHANGED waiting
  ELSE canardMtx' = Head(waiting) /\ waiting' = Tail(waiting)

-----------------------------------------------------------------------------
(* Receive thread *)

calculate_priority ==
  IF boiler_temperature > limits.max THEN 0
  ELSE IF boiler_temperature < limits.target THEN 2 ELSE 1

regulate ==
  /\ get_target_power(calculate_priority)
  /\ \E result \in Outputs : controller_dc' = result
  /\ controller_age' = 0
  /\ controller_update' = TRUE
  /\ silent' = 0

(* on_obis_data: consumption, then delivery; power is their difference     *)
(* since the readings before.                                              *)
on_obis_data ==
  \/ /\ frame.kind = "180"
     /\ meter' = [meter EXCEPT !.last180 = ~frame.zero,
                               !.fresh180 = @ \/ meter.last180]
     /\ UNCHANGED <<controlVars, tableVars, silent>>
  \/ /\ frame.kind = "280"
     /\ IF meter.last280 /\ meter.fresh180
        THEN /\ regulate
             /\ meter' = [meter EXCEPT !.last280 = ~frame.zero, !.fresh180 = FALSE]
        ELSE /\ meter' = [meter EXCEPT !.last280 = ~frame.zero]
             /\ UNCHANGED <<controlVars, tableVars, silent>>

(* A frame comes and the receive thread locks the mutex to handle it. *)
Receive(f) ==
  /\ rx = "idle"
  /\ rx' = "lock"
  /\ frame' = f
  /\ Lock("rx")
  /\ UNCHANGED <<peerVars, controlVars, heaterVars, boiler_temperature, limits,
                 meter, fast, node, fast_in, silent, hot, reloaded>>

HasFrame(kinds) == rx = "lock" /\ canardMtx = "rx" /\ frame.kind \in kinds

Handled == rx' = "idle" /\ frame' = NoFrame /\ Unlock

HandleObis ==
  /\ HasFrame({"180", "280"})
  /\ on_obis_data
  /\ Handled
  /\ UNCHANGED <<historyVars, heaterVars, boiler_temperature, limits, fast, node,
                 fast_in, hot, reloaded>>

HandleStatus ==
  /\ HasFrame({"status"})
  /\ on_boilerstatus_data(frame.from, frame.priority)
  /\ Handled
  /\ UNCHANGED <<controlVars, heaterVars, boiler_temperature, limits, meter, fast,
                 node, fast_in, silent, hot, reloaded>>

(* config_set, in which the thread waits with the mutex locked; then       *)
(* app_config_update, in which it waits before each parameter it reads.    *)
HandleSet ==
  /\ HasFrame({"set"})
  /\ rx' = "max"
  /\ UNCHANGED <<peerVars, controlVars, heaterVars, boiler_temperature, limits,
                 meter, lockVars, fast, node, frame, fast_in, silent, hot, reloaded>>

(* reconfigure; the controller's parameters are not told apart. *)
reconfigure ==
  /\ \/ /\ rx = "max" /\ rx' = "min"
        /\ limits' = [limits EXCEPT !.max = frame.limits.max]
        /\ hot' = 0
        /\ UNCHANGED <<dimmer, reloaded, frame, lockVars>>
     \/ /\ rx = "min" /\ rx' = "target"
        /\ limits' = [limits EXCEPT !.min = frame.limits.min]
        /\ UNCHANGED <<dimmer, reloaded, frame, lockVars, hot>>
     \/ /\ rx = "target" /\ rx' = "dimmer"
        /\ limits' = [limits EXCEPT !.target = frame.limits.target]
        /\ UNCHANGED <<dimmer, reloaded, frame, lockVars, hot>>
     \/ /\ rx = "dimmer"                              \* dimmer_read_config
        /\ dimmer' = frame.dc
        /\ reloaded' = TRUE
        /\ Handled
        /\ UNCHANGED <<limits, hot>>
  /\ UNCHANGED <<peerVars, controlVars, boiler_dc, boiler_temperature, meter, fast,
                 node, fast_in, silent>>

-----------------------------------------------------------------------------
(* Fast thread *)

fastRuns == fast = "idle" /\ fast_in = 0

(* Variant: the limit is applied before the minimum. *)
target_dc_minLast ==
  LET low == \/ boiler_temperature < limits.min
             \/ boiler_dc = 100 /\ boiler_temperature < limits.min + HYSTERESIS
  IN  IF low THEN 100
      ELSE IF boiler_temperature > limits.max THEN 0 ELSE controller_dc

target_dc ==
  LET low == \/ boiler_temperature < limits.min
             \/ boiler_dc = 100 /\ boiler_temperature < limits.min + HYSTERESIS
  IN  IF boiler_temperature > limits.max THEN 0
      ELSE IF low THEN 100 ELSE controller_dc

(* app_fast_tick, with set_dc up to its send ... *)
app_fast_tick ==
  /\ fastRuns
  /\ controller_update
  /\ boiler_dc' = target_dc /\ dimmer' = target_dc
  /\ IF canardMtx = "free"
     THEN controller_update' = FALSE /\ UNCHANGED <<fast, lockVars>>
     ELSE fast' = "send" /\ Lock("fast") /\ UNCHANGED controller_update
  /\ UNCHANGED <<peerVars, controller_dc, controller_age, boiler_temperature,
                 limits, meter, rx, node, frame, fast_in, silent, hot, reloaded>>

(* ... and from there, if it had to wait for the mutex. *)
FastSent ==
  /\ fast = "send"
  /\ canardMtx = "fast"
  /\ fast' = "idle"
  /\ controller_update' = FALSE
  /\ Unlock
  /\ UNCHANGED <<peerVars, controller_dc, controller_age, heaterVars, meter,
                 boiler_temperature, limits, rx, node, frame, fast_in, silent,
                 hot, reloaded>>

-----------------------------------------------------------------------------
(* Node thread: process1HzTasks *)

(* It runs while the other two wait. *)
nodeRuns == /\ ~(rx = "lock" /\ canardMtx = "rx")
            /\ ~(fast = "send" /\ canardMtx = "fast")

Step(from, to) == nodeRuns /\ node = from /\ node' = to

Quiet ==
  /\ rx = "idle" /\ fast # "send" /\ node = "idle"
  /\ controller_update => ~fastRuns

(* A second passes, in which every thread has done what it could. *)
Tick ==
  /\ Quiet
  /\ node' = "status"
  /\ controller_age' = Older(controller_age)
  /\ silent' = UpTo(MaxSilent, silent)
  /\ fast_in' = IF fast_in > 0 THEN fast_in - 1 ELSE 0
  /\ GrowOlder
  /\ UNCHANGED <<controller_dc, controller_update, heaterVars, boiler_temperature,
                 limits, meter, lockVars, rx, fast, frame, hot, reloaded>>

(* Variant: nothing is done if boiler_dc is 0 already. *)
app_tick_ifOn ==
  /\ \E t \in Temperatures :
       /\ boiler_temperature' = t
       /\ hot' = IF t <= limits.max THEN 0 ELSE UpTo(MaxHot, hot)
  /\ reloaded' = (reloaded /\ controller_age <= CONTROLLER_TIMEOUT)
  /\ \E to \in {IF controller_age > CONTROLLER_TIMEOUT /\ boiler_dc # 0
                 THEN "debug" ELSE "idle"} : Step("app", to)
  /\ UNCHANGED <<peerVars, controlVars, heaterVars, limits, meter, lockVars, rx,
                 fast, frame, fast_in, silent>>

(* app_tick: the temperature, and the age of the last reading. *)
app_tick ==
  /\ \E t \in Temperatures :
       /\ boiler_temperature' = t
       /\ hot' = IF t <= limits.max THEN 0 ELSE UpTo(MaxHot, hot)
  /\ reloaded' = (reloaded /\ controller_age <= CONTROLLER_TIMEOUT)
  /\ \E to \in {IF controller_age > CONTROLLER_TIMEOUT THEN "debug" ELSE "idle"} :
       Step("app", to)
  /\ UNCHANGED <<peerVars, controlVars, heaterVars, limits, meter, lockVars, rx,
                 fast, frame, fast_in, silent>>

(* The thread locks the mutex to send: the node status before app_tick     *)
(* (processTx, which locks it as well, adds nothing to that), node_debug   *)
(* and the status of its set_dc.                                           *)
NodeLocks ==
  /\ nodeRuns
  /\ node \in {"status", "debug", "send"}
  /\ canardMtx = "free"
  /\ Lock("node")
  /\ UNCHANGED <<peerVars, controlVars, heaterVars, boiler_temperature, limits,
                 meter, rx, fast, node, frame, fast_in, silent, hot, reloaded>>

NodeUnlocks ==
  /\ canardMtx = "node"
  /\ node' = CASE node = "status" -> "app"
                [] node = "debug"  -> "dc"
                [] node = "send"   -> "idle"
  /\ Unlock
  /\ UNCHANGED <<peerVars, controlVars, heaterVars, boiler_temperature, limits,
                 meter, rx, fast, frame, fast_in, silent, hot, reloaded>>

(* The two assignments of set_dc(0). *)
StopDc ==
  /\ Step("dc", "dimmer")
  /\ boiler_dc' = 0
  /\ UNCHANGED <<peerVars, controlVars, dimmer, boiler_temperature, limits, meter,
                 lockVars, rx, fast, frame, fast_in, silent, hot, reloaded>>

StopDimmer ==
  /\ Step("dimmer", "send")
  /\ dimmer' = 0
  /\ UNCHANGED <<peerVars, controlVars, boiler_dc, boiler_temperature, limits, meter,
                 lockVars, rx, fast, frame, fast_in, silent, hot, reloaded>>

-----------------------------------------------------------------------------

Next ==
  \/ \E f \in Frames : Receive(f)
  \/ HandleObis \/ HandleStatus \/ HandleSet \/ reconfigure
  \/ app_fast_tick \/ FastSent
  \/ Tick \/ app_tick \/ NodeLocks \/ NodeUnlocks
  \/ StopDc \/ StopDimmer

Spec == Init /\ [][Next]_vars

-----------------------------------------------------------------------------
(* Properties *)

(* The pin is only switched by dimmer_tick, in the fast thread. *)
Heats == fast_in = 0 /\ dimmer > 0

(* boiler.c: "if no controller output is generated in that time in seconds *)
(* [...] turn off the boiler", whatever the threads do to each other and   *)
(* however long the silence lasts: from the app_tick that finds it out to  *)
(* the next output, over every wrap of controller_age.  Only a parameter   *)
(* that is set may turn it on again, until the next app_tick that finds    *)
(* the timeout exceeded.                                                   *)
HeaterOffWhenSilent ==
  Quiet /\ silent > CONTROLLER_TIMEOUT /\ ~reloaded => ~Heats

(* The heater does not stay on above the maximum temperature: either a     *)
(* reading turns it off or their absence does, also after a parameter was  *)
(* set and while controller_age wraps.                                     *)
HeaterOffWhenHot ==
  Quiet /\ hot > CONTROLLER_TIMEOUT + 1 => ~Heats

=============================================================================
