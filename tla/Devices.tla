------------------------------ MODULE Devices ------------------------------
(***************************************************************************)
(* What the programs of nodes/ drive and speak: keys, sensors, LEDs, fan,  *)
(* pump and meter, the messages and parameters of all nodes, and the table *)
(* of the other boilers.  None shares a variable with another, so one part *)
(* is explored at a time and the others rest in an initial state.          *)
(* Programs has the parts with a liveness property.                        *)
(***************************************************************************)
EXTENDS BoilerPeers, BathroomIndicator, BathroomAir, HallwayMotion, HeatingInputs,
        Sml, Messages, EventCount, PumpReceiver, Conduction, ParamGetSet

VARIABLE part

Parts == {"peers", "indicator", "air", "motion", "keys", "clock", "meter", "messages",
          "counter", "pump", "contacts", "parameters"}

deviceVars ==
  <<part, peerVars, indicatorVars, airVars, motionVars, inputVars, smlVars,
    messageVars, eventVars, pumpVars, conductionVars, paramVars>>

DevicesInit ==
  /\ part \in Parts
  /\ PeersInit /\ IndicatorInit /\ AirInit /\ MotionInit /\ InputsInit /\ SmlInit
  /\ MessagesInit /\ EventInit /\ PumpInit /\ ConductionInit /\ ParamInit
  /\ part # "air"        => fanRunOutTime = CHOOSE t \in RunOutTimes : TRUE
  /\ part # "keys"       => switch = [c \in Columns |-> 0]
  /\ part # "clock"      => range = CHOOSE r \in Ranges : TRUE
  /\ part # "counter"    => pad = 0 /\ stableMin = CHOOSE t \in MinStable : TRUE
  /\ part # "contacts"   => contact = [s \in Contacts |-> FALSE]
  /\ part # "parameters" => asked = CHOOSE r \in Requests : TRUE

DevicesNext ==
  \/ /\ part = "peers" /\ PeersNext
     /\ UNCHANGED <<part, indicatorVars, airVars, motionVars, inputVars, smlVars,
                    messageVars, eventVars, pumpVars, conductionVars, paramVars>>
  \/ /\ part = "indicator" /\ IndicatorNext
     /\ UNCHANGED <<part, peerVars, airVars, motionVars, inputVars, smlVars,
                    messageVars, eventVars, pumpVars, conductionVars, paramVars>>
  \/ /\ part = "air" /\ AirNext
     /\ UNCHANGED <<part, peerVars, indicatorVars, motionVars, inputVars, smlVars,
                    messageVars, eventVars, pumpVars, conductionVars, paramVars>>
  \/ /\ part = "motion" /\ MotionNext
     /\ UNCHANGED <<part, peerVars, indicatorVars, airVars, inputVars, smlVars,
                    messageVars, eventVars, pumpVars, conductionVars, paramVars>>
  \/ /\ part = "keys" /\ KeysNext
     /\ UNCHANGED <<part, peerVars, indicatorVars, airVars, motionVars, smlVars,
                    messageVars, eventVars, pumpVars, conductionVars, paramVars>>
  \/ /\ part = "clock" /\ ClockNext
     /\ UNCHANGED <<part, peerVars, indicatorVars, airVars, motionVars, smlVars,
                    messageVars, eventVars, pumpVars, conductionVars, paramVars>>
  \/ /\ part = "meter" /\ SmlNext
     /\ UNCHANGED <<part, peerVars, indicatorVars, airVars, motionVars, inputVars,
                    messageVars, eventVars, pumpVars, conductionVars, paramVars>>
  \/ /\ part = "messages" /\ MessagesNext
     /\ UNCHANGED <<part, peerVars, indicatorVars, airVars, motionVars, inputVars,
                    smlVars, eventVars, pumpVars, conductionVars, paramVars>>
  \/ /\ part = "counter" /\ EventNext
     /\ UNCHANGED <<part, peerVars, indicatorVars, airVars, motionVars, inputVars,
                    smlVars, messageVars, pumpVars, conductionVars, paramVars>>
  \/ /\ part = "pump" /\ PumpNext
     /\ UNCHANGED <<part, peerVars, indicatorVars, airVars, motionVars, inputVars,
                    smlVars, messageVars, eventVars, conductionVars, paramVars>>
  \/ /\ part = "contacts" /\ ConductionNext
     /\ UNCHANGED <<part, peerVars, indicatorVars, airVars, motionVars, inputVars,
                    smlVars, messageVars, eventVars, pumpVars, paramVars>>
  \/ /\ part = "parameters" /\ ParamNext
     /\ UNCHANGED <<part, peerVars, indicatorVars, airVars, motionVars, inputVars,
                    smlVars, messageVars, eventVars, pumpVars, conductionVars>>

DevicesSpec == DevicesInit /\ [][DevicesNext]_deviceVars

=============================================================================
