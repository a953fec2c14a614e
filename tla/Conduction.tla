------------------------------ MODULE Conduction ------------------------------
(***************************************************************************)
(* The conduction sensors of conduction_sensor.c.  Two contacts share one  *)
(* analog line.  A measurement drives them one after the other, between    *)
(* two measurements of the open line, and the next one does the same with  *)
(* the other polarity; a reader gets the contact back from the level and   *)
(* the polarity.  Levels are those of the filtered input in sixteenths of  *)
(* its range: what the code tells apart is 5, 11 and 200/255 of it.        *)
(*                                                                         *)
(* The file is in the repository but not in the Makefile's list of         *)
(* sources, and its calls in the pump node are commented out.              *)
(***************************************************************************)
EXTENDS Integers

CONSTANT Open       \* levels of a line pulled or driven up; a contact in between is not modelled

ANALOG_MAX == 16
Contacts == {0, 1}  \* SensorRaw[] and sensor number

\* above 200/255 of the range
ASSUME ConductionAssumption == Open \subseteq 13 .. ANALOG_MAX

VARIABLES
  contact,            \* the real world: is there water at the contact?
  shorted,            \* ... and is the common line shorted to the other level?
  step,               \* where conduction_acquire is
  polarity,
  SensorRaw,
  SensorRefPolarity,
  error,
  seen,               \* the contact each level was measured of
  answer              \* the last conduction_evaluate: of sensor, contact, what it had seen

conductionVars == <<contact, shorted, step, polarity, SensorRaw, SensorRefPolarity, error, seen,
                    answer>>

\* conduction_init measures once before anybody reads
ConductionInit ==
  /\ contact \in [Contacts -> BOOLEAN] /\ shorted = FALSE
  /\ step = "reference" /\ polarity = 1
  /\ SensorRaw = [s \in Contacts |-> 0] /\ SensorRefPolarity = 0
  /\ error = FALSE
  /\ seen = [s \in Contacts |-> FALSE] /\ answer = <<>>

-----------------------------------------------------------------------------
\* the level of the pulled line, alone or with a contact driven against it
Level(high) == IF high THEN Open ELSE {ANALOG_MAX - l : l \in Open}
Measured(driven) == Level((polarity = 1) # (driven \/ shorted))

checkReferenceLevel(v) ==
  error' = (error \/ (polarity = 1 /\ v < 11) \/ (polarity = 0 /\ v > 5))

Reference(from, to) ==
  /\ step = from
  /\ \E v \in Measured(FALSE) : checkReferenceLevel(v)
  /\ step' = to

MeasureSensor(s, from, to) ==
  /\ step = from
  /\ \E v \in Measured(contact[s]) : SensorRaw' = [SensorRaw EXCEPT ![s] = v]
  /\ seen' = [seen EXCEPT ![s] = contact[s] \/ shorted]
  /\ step' = to

\* (the polarity of the next measurement is kept with the levels of this one)
Passivate_toggledFirst ==
  /\ step = "passivate"
  /\ SensorRefPolarity' = 1 - polarity
  /\ polarity' = 1 - polarity
  /\ step' = "idle"

Passivate ==
  /\ step = "passivate"
  /\ SensorRefPolarity' = polarity
  /\ polarity' = 1 - polarity
  /\ step' = "idle"

\* the mutex is held from the first step to the last
conduction_acquire ==
  \/ /\ step = "idle" /\ step' = "reference"
     /\ UNCHANGED <<contact, shorted, polarity, SensorRaw, SensorRefPolarity, error, seen, answer>>
  \/ /\ Reference("reference", "sensor 1") \/ Reference("reference again", "passivate")
     /\ UNCHANGED <<contact, shorted, polarity, SensorRaw, SensorRefPolarity, seen, answer>>
  \/ /\ MeasureSensor(0, "sensor 1", "sensor 2") \/ MeasureSensor(1, "sensor 2", "reference again")
     /\ UNCHANGED <<contact, shorted, polarity, SensorRefPolarity, error, answer>>
  \/ /\ Passivate
     /\ UNCHANGED <<contact, shorted, SensorRaw, error, seen, answer>>

-----------------------------------------------------------------------------
\* the readers

conduction_evaluate ==
  /\ step = "idle"
  /\ \E s \in Contacts :
       LET v == IF SensorRefPolarity = 1 THEN ANALOG_MAX - SensorRaw[s] ELSE SensorRaw[s]
       IN  answer' = <<v * 255 > 200 * ANALOG_MAX, seen[s]>>
  /\ UNCHANGED <<contact, shorted, step, polarity, SensorRaw, SensorRefPolarity, error, seen>>

\* the reader of the error does not take the mutex
conduction_getClearError ==
  /\ error' = FALSE
  /\ UNCHANGED <<contact, shorted, step, polarity, SensorRaw, SensorRefPolarity, seen, answer>>

WaterMoves ==
  /\ \/ \E s \in Contacts : contact' = [contact EXCEPT ![s] = ~@] /\ UNCHANGED shorted
     \/ shorted' = ~shorted /\ UNCHANGED contact
  /\ UNCHANGED <<step, polarity, SensorRaw, SensorRefPolarity, error, seen, answer>>

ConductionNext ==
  conduction_acquire \/ conduction_evaluate \/ conduction_getClearError \/ WaterMoves

ConductionSpec == ConductionInit /\ [][ConductionNext]_conductionVars

-----------------------------------------------------------------------------
\* What a reader is told is the contact the level was measured of, with either
\* polarity of the measurement (conduction_acquire, conduction_evaluate).
EvaluatesContact == answer # <<>> => answer[1] = answer[2]

=============================================================================
