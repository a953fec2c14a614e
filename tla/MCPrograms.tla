----------------------------- MODULE MCPrograms -----------------------------
(* Two melodies with pauses; temperatures below, at and above a target of  *)
(* the water of 3, or a curve that asks for none (1), in a room of 1.      *)
EXTENDS Programs

MCMelodies == << <<1, 0>>, <<1>> >>

MCInputs ==
  [mode : {"DAY_NIGHT"}, slope : {0}, targetTemp : {1}, targetFlowTemp : {3},
   flowTemp : {0, 5}, burnerTemp : {0, 3}, weight : {1}, late : {0}]
  \cup
  [mode : {"DAY_NIGHT", "OFF", "DAY_OFF"}, slope : {0}, targetTemp : {1},
   targetFlowTemp : {1}, flowTemp : {0}, burnerTemp : {5}, weight : {1}, late : {0}]
  \cup
  [mode : {"DEBUG"}, slope : {0, 3}, targetTemp : {1},
   targetFlowTemp : {3}, flowTemp : {0}, burnerTemp : {0}, weight : {1}, late : {0, 1}]

MCConfig(minOffTime, hysteresis) ==
  [flowHysteresisTurnOff |-> 1, flowHysteresisTurnOn |-> 1, minFlowTempToEnable |-> 1,
   minTempToEnableCirculation |-> 2, burnerStopTempRiseTime |-> 1,
   burnerMinOffTime |-> minOffTime, circulationMinOnTimeForThreshold |-> 1,
   deviationHysteresis |-> hysteresis]

MCConfigs == {MCConfig(3, 0), MCConfig(3, 1), MCConfig(0, 0)}

=============================================================================
