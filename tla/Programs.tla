------------------------------ MODULE Programs ------------------------------
(***************************************************************************)
(* What an application node runs: the threads of node.c, and the program   *)
(* of one of nodes/, which the Makefile links (NODE = ...) and which    *)
(* those threads call.  The programs share no variable with each other or  *)
(* with the threads, so one part is explored at a time and the others rest *)
(* in their initial state.  Here are the parts with a liveness property;   *)
(* Devices has the others.                                                 *)
(***************************************************************************)
EXTENDS Node, Bathroom, HallwayLight, HumidityAlarm, Heating

VARIABLE part

Parts == {"node", "bathroom", "hallway", "alarm", "heating"}

programVars == <<part, nodeVars, bathroomVars, hallwayVars, alarmVars, vars>>

\* a part that rests has one of its initial states
ProgramsInit ==
  /\ part \in Parts
  /\ NodeInit /\ BathroomInit /\ HallwayInit /\ AlarmInit /\ Init
  /\ part # "alarm" =>
       /\ firstAlarmAfter = CHOOSE i \in Intervals : TRUE
       /\ repeatAlarmEvery = firstAlarmAfter
  /\ part # "heating" => config = CHOOSE c \in Configs : TRUE

ProgramsNext ==
  \/ /\ part = "node" /\ NodeNext
     /\ UNCHANGED <<part, bathroomVars, hallwayVars, alarmVars, vars>>
  \/ /\ part = "bathroom" /\ BathroomNext
     /\ UNCHANGED <<part, nodeVars, hallwayVars, alarmVars, vars>>
  \/ /\ part = "hallway" /\ HallwayNext
     /\ UNCHANGED <<part, nodeVars, bathroomVars, alarmVars, vars>>
  \/ /\ part = "alarm" /\ AlarmNext
     /\ UNCHANGED <<part, nodeVars, bathroomVars, hallwayVars, vars>>
  \/ /\ part = "heating" /\ Next
     /\ UNCHANGED <<part, nodeVars, bathroomVars, hallwayVars, alarmVars>>

\* the threads run: node.c calls app_tick every second and app_fast_tick every
\* 5 ms, and time goes on
ProgramsFairness ==
  /\ WF_nodeVars(part = "node" /\ CanNodeThread)
  /\ WF_nodeVars(part = "node" /\ MainDone)
  /\ WF_nodeVars(part = "node" /\ SystemTick)
  /\ WF_nodeVars(part = "node" /\ WatchdogReset)
  /\ WF_bathroomVars(part = "bathroom" /\ bathroom_tick)
  /\ WF_hallwayVars(part = "hallway" /\ HallwayTick)
  /\ WF_alarmVars(part = "alarm" /\ node_thread)
  /\ WF_vars(part = "heating" /\ Tick)

ProgramsSpec == ProgramsInit /\ [][ProgramsNext]_programVars /\ ProgramsFairness

-----------------------------------------------------------------------------
(* Liveness of the parts that run; the others rest *)

\* HallwayLight: the lamps come to the wanted brightness.
HallwayFollows == part = "hallway" => LampsFollow

\* HumidityAlarm: the alarm sounds as long as it is wet.
AlarmIsHeard == part = "alarm" => AlarmSounds

\* Heating: a house that asks for heat gets it.
HouseIsHeated == part = "heating" => HeatsInTheEnd

=============================================================================
