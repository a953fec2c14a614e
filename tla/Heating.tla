------------------------------- MODULE Heating -------------------------------
(***************************************************************************)
(* The heating controller (nodes/viessmann_trimatik.c): burner and         *)
(* circulation pump, decided once a second in app_tick.                    *)
(*                                                                         *)
(* Temperatures are what the filters and the heating curve make of them;   *)
(* here they are inputs of a tick.  Time stamps are kept as ages modulo    *)
(* the 32 bit system time.  lastBurnerStop is only read while the burner   *)
(* is off and lastBurnerRequestStart while it is on, so burnerAge is the   *)
(* age of the one that will be read.  HeatingInputs has the key switches   *)
(* and the time of day.                                                    *)
(***************************************************************************)
EXTENDS Integers

CONSTANTS
  WRAP,                    \* ticks after which the system time wraps (2^32)
  SECOND,                  \* ticks of a second (10000)
  FirstStop,               \* lastBurnerStop at the start, in ticks (0x8FF00)
  BURNER_REQUEST_DELAY,    \* seconds (50)
  INT16,                   \* 2^15, the width of burnerLidFor
  DEVIATION_LIMIT,         \* factor that limits the integral (8)
  KELVIN,                  \* hysteresis of the circulation (100)
  Configs,                 \* parameters a client may set
  Inputs,                  \* what a tick may find: see InputType
  MaxOff                   \* bound of the history variable off

Modes == {"OFF", "DAY_OFF", "DAY_NIGHT", "DAY_DAY", "NIGHT_NIGHT", "WATER", "DEBUG"}

(* mode and slope: key switches; targetTemp: of the room; targetFlowTemp:  *)
(* of the heating curve; weight: size of the weighted deviation; late:     *)
(* ticks by which the tick is later than a second after the last one.      *)
InputType ==
  [mode : Modes, slope : 0 .. 15, targetTemp : Int, targetFlowTemp : Int,
   flowTemp : Int, burnerTemp : Int, weight : Nat, late : Nat]

ConfigType ==
  [flowHysteresisTurnOff : Int, flowHysteresisTurnOn : Int,
   minFlowTempToEnable : Nat, minTempToEnableCirculation : Nat,
   burnerStopTempRiseTime : Nat, burnerMinOffTime : Nat,
   circulationMinOnTimeForThreshold : Nat, deviationHysteresis : Int]

ASSUME HeatingAssumption ==
  /\ WRAP \in Nat \ {0} /\ SECOND \in Nat \ {0}
  /\ FirstStop \in 0 .. WRAP
  /\ MaxOff \in Nat /\ MaxOff <= WRAP
  /\ Configs \subseteq ConfigType
  /\ \A c \in Configs : c.burnerMinOffTime * SECOND <= MaxOff
  /\ Inputs \subseteq InputType

VARIABLES
  currentBurnerState, burnerAge,
  currentCirculationState, circulationAge,
  extendThisCycleFlowTemp,
  flowTempDeviation,
  config,                  \* the variables read_config sets
  off,                     \* history: ticks the burner is, or was last, off
  cold                     \* history: the last step was a tick that found the house cold

vars == <<currentBurnerState, burnerAge, currentCirculationState, circulationAge,
          extendThisCycleFlowTemp, flowTempDeviation, config, off, cold>>

Ticks == 0 .. WRAP - 1

(* The static variables of app_tick.  Nothing is known of the time before. *)
Init ==
  /\ currentBurnerState = FALSE
  /\ burnerAge = (WRAP - FirstStop) % WRAP
  /\ currentCirculationState = FALSE
  /\ circulationAge = 0
  /\ extendThisCycleFlowTemp = 0
  /\ flowTempDeviation = 0
  /\ config \in Configs
  /\ off = MaxOff
  /\ cold = FALSE

-----------------------------------------------------------------------------

(* TIME_I2S rounds up. *)
TIME_I2S(ticks) == (ticks + SECOND - 1) \div SECOND

Int16(n) == ((n + INT16) % (2 * INT16)) - INT16

Passed(in) == SECOND + in.late
Elapsed(age, in) == (age + Passed(in)) % WRAP

burnerLidFor(in) ==
  Int16((IF currentBurnerState THEN TIME_I2S(Elapsed(burnerAge, in)) ELSE 0)
        - BURNER_REQUEST_DELAY)

circulationRunningFor(in) ==
  IF currentCirculationState THEN TIME_I2S(Elapsed(circulationAge, in)) ELSE 0

(* Of the difference between actual and target power of the radiators only *)
(* the sign is known.                                                      *)
getWeightedFlowDeviation(in) ==
  IF in.targetFlowTemp <= in.targetTemp \/ in.flowTemp = in.targetFlowTemp THEN 0
  ELSE IF in.flowTemp < in.targetFlowTemp THEN -in.weight ELSE in.weight

Limited(deviation) ==
  LET limit == DEVIATION_LIMIT * config.deviationHysteresis
  IN  CASE deviation > limit  -> limit
        [] deviation < -limit -> -limit
        [] OTHER              -> deviation

Integral(in) == Limited(flowTempDeviation + getWeightedFlowDeviation(in))

heats(in) == in.targetFlowTemp > config.minFlowTempToEnable

NextDeviation(in) ==
  CASE in.mode = "DAY_NIGHT" -> IF heats(in) THEN Integral(in) ELSE 0
    [] in.mode = "DAY_OFF"   -> 0
    [] OTHER                 -> flowTempDeviation

-----------------------------------------------------------------------------
(* What app_tick wants of burner and circulation *)

(* Variant: the integral is compared with the wrong sign. *)
TurnsOn_sign(in) ==
  IF config.deviationHysteresis = 0
  THEN in.flowTemp < in.targetFlowTemp - config.flowHysteresisTurnOn
  ELSE Integral(in) > config.deviationHysteresis

TurnsOn(in) ==
  IF config.deviationHysteresis = 0
  THEN in.flowTemp < in.targetFlowTemp - config.flowHysteresisTurnOn
  ELSE Integral(in) < -config.deviationHysteresis

TurnsOff(in) ==
  \/ \E t \in {in.flowTemp, in.burnerTemp} :
       /\ t > in.targetFlowTemp + config.flowHysteresisTurnOff
       /\ t > in.targetFlowTemp + extendThisCycleFlowTemp
  \/ /\ config.deviationHysteresis # 0
     /\ Integral(in) > config.deviationHysteresis
  \/ /\ in.burnerTemp > in.flowTemp
     /\ burnerLidFor(in) > config.burnerStopTempRiseTime
     /\ circulationRunningFor(in) > config.circulationMinOnTimeForThreshold

WantsBurner(in) ==
  CASE in.mode = "DEBUG"     -> in.slope % 2 = 1
    [] in.mode = "DAY_NIGHT" ->
         heats(in) /\ IF currentBurnerState THEN ~TurnsOff(in) ELSE TurnsOn(in)
    [] OTHER                 -> FALSE

hot(in) == \E t \in {in.flowTemp, in.burnerTemp} : t > config.minTempToEnableCirculation

WantsCirculation(in) ==
  CASE in.mode = "DEBUG"     -> (in.slope \div 2) % 2 = 1
    [] in.mode = "DAY_NIGHT" ->
         \/ hot(in)
         \/ /\ currentCirculationState
            /\ in.flowTemp > config.minTempToEnableCirculation - KELVIN
    [] in.mode = "DAY_OFF"   -> hot(in)
    [] OTHER                 -> FALSE

MayStart(in) == TIME_I2S(Elapsed(burnerAge, in)) >= config.burnerMinOffTime

NextBurner(in) == WantsBurner(in) /\ (currentBurnerState \/ MayStart(in))

-----------------------------------------------------------------------------

(* Variant: the stop is only recorded in the mode that regulates. *)
Burner_stopByMode(in) ==
  /\ currentBurnerState' = NextBurner(in)
  /\ burnerAge' = IF \/ currentBurnerState' /\ ~currentBurnerState
                     \/ ~currentBurnerState' /\ currentBurnerState /\ in.mode = "DAY_NIGHT"
                  THEN 0 ELSE Elapsed(burnerAge, in)
  /\ UNCHANGED extendThisCycleFlowTemp
  /\ off' = IF currentBurnerState THEN IF currentBurnerState' THEN off ELSE 0
            ELSE IF off + Passed(in) < MaxOff THEN off + Passed(in) ELSE MaxOff

Burner(in) ==
  /\ currentBurnerState' = NextBurner(in)
  /\ burnerAge' = IF currentBurnerState' # currentBurnerState
                  THEN 0 ELSE Elapsed(burnerAge, in)
  /\ extendThisCycleFlowTemp' =
       IF currentBurnerState' /\ ~currentBurnerState
       THEN LET missing == in.targetFlowTemp - in.flowTemp
                most    == 2 * config.flowHysteresisTurnOff
            IN  IF missing > most THEN most ELSE missing
       ELSE extendThisCycleFlowTemp
  /\ off' = IF currentBurnerState THEN IF currentBurnerState' THEN off ELSE 0
            ELSE IF off + Passed(in) < MaxOff THEN off + Passed(in) ELSE MaxOff

(* The age of the start is only read while the pump runs. *)
Circulation(in) ==
  /\ currentCirculationState' = WantsCirculation(in)
  /\ circulationAge' = IF currentCirculationState /\ WantsCirculation(in)
                       THEN Elapsed(circulationAge, in) ELSE 0

(* Heat is asked for and the water is colder than asked. *)
Cold(in) ==
  /\ in.mode = "DAY_NIGHT"
  /\ heats(in) /\ in.targetFlowTemp > in.targetTemp
  /\ in.flowTemp < in.targetFlowTemp - config.flowHysteresisTurnOn
  /\ in.weight > 0

app_tick(in) ==
  /\ cold' = Cold(in)
  /\ flowTempDeviation' = NextDeviation(in)
  /\ Circulation(in)
  /\ Burner(in)
  /\ UNCHANGED config

(* read_config, by the receive thread between two ticks.  Parameters come  *)
(* one by one, so Configs has the mixtures as well.                        *)
app_config_update ==
  /\ config' \in Configs
  /\ cold' = FALSE
  /\ UNCHANGED <<currentBurnerState, burnerAge, currentCirculationState,
                 circulationAge, extendThisCycleFlowTemp, flowTempDeviation, off>>

(* A reset releases both relays and forgets the last stop. *)
Reset ==
  /\ currentBurnerState' = FALSE
  /\ burnerAge' = (WRAP - FirstStop) % WRAP
  /\ currentCirculationState' = FALSE
  /\ circulationAge' = 0
  /\ extendThisCycleFlowTemp' = 0
  /\ flowTempDeviation' = 0
  /\ off' = MaxOff
  /\ cold' = FALSE
  /\ UNCHANGED config

Tick == \E in \in Inputs : app_tick(in)

Next == Tick \/ app_config_update \/ Reset

Spec == Init /\ [][Next]_vars

(* CanNodeThread calls app_tick every second. *)
FairSpec == Spec /\ WF_vars(Tick)

-----------------------------------------------------------------------------
(* Properties *)

(* "When burner stops, it is not allowed to start within given timeframe"  *)
(* (line 97): whatever the modes, parameters and clock did in between, it  *)
(* was off for that long, counted in seconds begun.  A reset forgets the   *)
(* stop, so this is said of stops since the last one.                      *)
BurnerRests ==
  [][~currentBurnerState /\ currentBurnerState' =>
       TIME_I2S(off') >= config.burnerMinOffTime]_vars

(* The house is not left cold: if from some time on the switch is at       *)
(* DAY_NIGHT, heat is asked for and the water is colder than asked, the    *)
(* burner is on again and again.                                           *)
HeatsInTheEnd == <>[]cold => []<>currentBurnerState

=============================================================================
