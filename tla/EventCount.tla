------------------------------ MODULE EventCount ------------------------------
(***************************************************************************)
(* A counting input (eventcount.c): it is sampled now and then, and counts *)
(* the rises of a level that was stable for a time.                        *)
(***************************************************************************)
EXTENDS Naturals

CONSTANTS
  COUNT_WRAP,              \* range of the system time (2^32)
  MinStable,               \* values of the parameter MIN_STABLE_MS, in ticks
  COUNTS                   \* bound: of the counter that is checked

ASSUME EventAssumption ==
  COUNT_WRAP \in Nat \ {0} /\ MinStable \subseteq 0 .. COUNT_WRAP - 1 /\ COUNTS \in Nat

VARIABLES
  pad,
  stableMin,               \* EventStableMinST
  changeAge,               \* of LastStateChange
  lastState, lastStableState,
  eventCount,
  sampledHigh,             \* history: 0 after a low sample; else 1 and the time since the
                           \* first of the samples that were all high, up to COUNT_WRAP
  pulses                   \* history: rises of the pad

eventVars ==
  <<pad, stableMin, changeAge, lastState, lastStableState, eventCount, sampledHigh, pulses>>

(* eventcount_init; the input has a pull-up, the states start with 0.      *)
EventInit ==
  /\ pad \in {0, 1} /\ stableMin \in MinStable
  /\ changeAge = 0 /\ lastState = 0 /\ lastStableState = 0 /\ eventCount = 0
  /\ sampledHigh = 0 /\ pulses = pad

ChangePad ==
  /\ pulses + 1 - pad <= COUNTS
  /\ pad' = 1 - pad
  /\ pulses' = pulses + 1 - pad
  /\ UNCHANGED <<stableMin, changeAge, lastState, lastStableState, eventCount, sampledHigh>>

EventPass ==
  /\ changeAge' = (changeAge + 1) % COUNT_WRAP
  /\ sampledHigh' = IF sampledHigh \in 1 .. COUNT_WRAP - 1 THEN sampledHigh + 1 ELSE sampledHigh
  /\ UNCHANGED <<pad, stableMin, lastState, lastStableState, eventCount, pulses>>

(* Variant: the last state is not compared. *)
isStable_any == stableMin = 0 \/ changeAge > stableMin

isStable == stableMin = 0 \/ (pad = lastState /\ changeAge > stableMin)

eventcount_acquire ==
  /\ IF isStable
     THEN /\ lastStableState' = pad
          /\ eventCount' = eventCount + (IF pad = 1 /\ lastStableState = 0 THEN 1 ELSE 0)
          /\ UNCHANGED <<lastState, changeAge>>
     ELSE /\ lastState' = pad
          /\ changeAge' = IF pad # lastState THEN 0 ELSE changeAge
          /\ UNCHANGED <<lastStableState, eventCount>>
  /\ sampledHigh' = CASE pad = 0 -> 0 [] pad = 1 /\ sampledHigh = 0 -> 1 [] OTHER -> sampledHigh
  /\ UNCHANGED <<pad, stableMin, pulses>>

EventNext == ChangePad \/ EventPass \/ eventcount_acquire

EventSpec == EventInit /\ [][EventNext]_eventVars

(* A rise is counted only when every sample was high for the minimum time, *)
(* through bounces, irregular sampling and the wrap of the time; and so    *)
(* the counter never runs ahead of the input.                              *)
CountsStable ==
  [][eventCount' > eventCount =>
       /\ stableMin = 0 \/ sampledHigh > stableMin + 1
       /\ eventCount' <= pulses]_eventVars

=============================================================================
