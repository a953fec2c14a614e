---------------------------- MODULE HumidityAlarm ----------------------------
(***************************************************************************)
(* The humidity alarm (humidity_alarm.c): the temperature another node     *)
(* sends (modules/temperature_receiver.c), the comparison of a cold wall   *)
(* with the dew point (modules/dewpoint.c), the alarm after a time and     *)
(* then repeated, and the melodies (modules/melodies.c), which the faster  *)
(* thread plays note by note.                                              *)
(*                                                                         *)
(* The stamps of the system time are kept as ages modulo its range.        *)
(***************************************************************************)
EXTENDS Naturals, Sequences

CONSTANTS
  ALARM_WRAP,              \* range of the system time, in seconds (119 h)
  MAX_AGE,                 \* OUTSIDE_TEMPERATURE_MAX_AGE_S, MAX_VALID_AGE (24 h)
  Intervals,               \* parameters FIRST_AFTER_S and REPEAT_INTERVAL_S
  FAST_SECOND,                  \* fast ticks in a second (200)
  Melodies                 \* the durations of the notes of each melody

MelodyIds == DOMAIN Melodies

(* Fast ticks that a melody takes: its notes, and the end mark. *)
Duration(m) ==
  LET sum[i \in 0 .. Len(Melodies[m])] ==
        IF i = 0 THEN 1 ELSE sum[i - 1] + Melodies[m][i] + 1
  IN  sum[Len(Melodies[m])]

(* The parameters the node is used with: no melody is cut by the next.     *)
ASSUME AlarmAssumption ==
  /\ {ALARM_WRAP, MAX_AGE, FAST_SECOND} \subseteq Nat \ {0} /\ MAX_AGE + 1 < ALARM_WRAP
  /\ Intervals \subseteq 1 .. ALARM_WRAP - 1
  /\ \A i \in Intervals, m \in MelodyIds : Duration(m) <= FAST_SECOND * i

NoMelody == 0              \* a null pointer

Invalid == ALARM_WRAP      \* an age of -1, larger than any other
Unread == ALARM_WRAP + 1

VARIABLES
  temperatureValid, receivedAge,     \* of temperatureReceivedAt
  alarmType, alarmAge,               \* of lastAlarmAt
  firstAlarmAfter, repeatAlarmEvery,
  fastTicks,                         \* of this second
  usedAge,                           \* node thread: the age it has read in this tick, if it has
  active_melody, song_pos, note_pos,
  trueAge,                           \* history: seconds since a temperature came
  wet                                \* history: the last reading was wet

receiverVars == <<temperatureValid, receivedAge, trueAge>>
parameterVars == <<firstAlarmAfter, repeatAlarmEvery>>
melodyVars == <<active_melody, song_pos, note_pos>>
alarmVars == <<receiverVars, alarmType, alarmAge, parameterVars, fastTicks, usedAge, melodyVars, wet>>

AlarmInit ==
  /\ temperatureValid = FALSE /\ receivedAge = 0 /\ trueAge = ALARM_WRAP
  /\ alarmType = 0 /\ alarmAge = 0
  /\ firstAlarmAfter \in Intervals /\ repeatAlarmEvery \in Intervals
  /\ fastTicks = 0 /\ usedAge = Unread /\ wet = FALSE
  /\ active_melody = NoMelody /\ song_pos = 0 /\ note_pos = 0

(* Receive thread; also setReceiverTarget leaves an older temperature.     *)
on_environment_data ==
  /\ temperatureValid' = TRUE
  /\ receivedAge' = 0 /\ trueAge' = 0
  /\ UNCHANGED <<alarmType, alarmAge, parameterVars, fastTicks, usedAge, melodyVars, wet>>

(* app_config_update. *)
read_config ==
  /\ firstAlarmAfter' \in Intervals /\ repeatAlarmEvery' \in Intervals
  /\ UNCHANGED <<receiverVars, alarmType, alarmAge, fastTicks, usedAge, melodyVars, wet>>

melody_tick ==
  CASE note_pos > 0 -> note_pos' = note_pos - 1 /\ UNCHANGED <<active_melody, song_pos>>
    [] note_pos = 0 /\ song_pos < Len(Melodies[active_melody]) ->
         /\ song_pos' = song_pos + 1
         /\ note_pos' = Melodies[active_melody][song_pos + 1]
         /\ UNCHANGED active_melody
    [] OTHER -> active_melody' = NoMelody /\ song_pos' = 0 /\ note_pos' = 0

app_fast_tick ==
  /\ fastTicks < FAST_SECOND
  /\ fastTicks' = fastTicks + 1
  /\ IF active_melody = NoMelody THEN UNCHANGED melodyVars ELSE melody_tick
  /\ UNCHANGED <<receiverVars, alarmType, alarmAge, parameterVars, usedAge, wet>>

(* Variant: an old temperature is left out, and not made invalid. *)
getTargetTemperature_keeps ==
  /\ usedAge' = IF receivedAge > MAX_AGE \/ ~temperatureValid THEN Invalid ELSE receivedAge
  /\ UNCHANGED temperatureValid

getTargetTemperature ==
  IF receivedAge > MAX_AGE \/ ~temperatureValid
  THEN temperatureValid' = FALSE /\ usedAge' = Invalid
  ELSE usedAge' = receivedAge /\ UNCHANGED temperatureValid

(* app_tick, up to the temperature; a sensor (bme_presence) is there.      *)
ReadTemperature ==
  /\ fastTicks = FAST_SECOND /\ usedAge = Unread
  /\ getTargetTemperature
  /\ UNCHANGED <<receivedAge, trueAge, alarmType, alarmAge, parameterVars, fastTicks, melodyVars, wet>>

(* approximateWallTemperatureDifferenceToDewPoint: not dry, or no result.  *)
Readings == IF usedAge < MAX_AGE THEN {"dry", "wet"} ELSE {"none"}

(* melody_play: a melody that still plays is replaced where it is.         *)
melody_play == active_melody' \in MelodyIds /\ UNCHANGED <<song_pos, note_pos>>

begins == alarmType = 0
age == IF begins THEN 0 ELSE alarmAge

(* Variant: every wet reading starts the time again. *)
humidity_alarm_tick_stamps ==
  CASE alarmType < 2 /\ alarmAge >= firstAlarmAfter ->
         alarmType' = 2 /\ alarmAge' = 0 /\ melody_play
    [] alarmType = 2 /\ alarmAge >= repeatAlarmEvery ->
         alarmAge' = 0 /\ melody_play /\ UNCHANGED alarmType
    [] OTHER -> /\ alarmType' = IF begins THEN 1 ELSE alarmType
                /\ alarmAge' = 0 /\ UNCHANGED melodyVars

(* With a wet reading.  The repetition also looks at the stamp of a first  *)
(* alarm of the same tick, which is too young for it.                      *)
humidity_alarm_tick ==
  CASE alarmType < 2 /\ age >= firstAlarmAfter ->
         alarmType' = 2 /\ alarmAge' = 0 /\ melody_play
    [] alarmType = 2 /\ age >= repeatAlarmEvery ->
         alarmAge' = 0 /\ melody_play /\ UNCHANGED alarmType
    [] OTHER -> /\ alarmType' = IF begins THEN 1 ELSE alarmType
                /\ alarmAge' = age /\ UNCHANGED melodyVars

(* The rest of app_tick. *)
UseTemperature ==
  /\ usedAge # Unread
  /\ \E reading \in Readings :
       /\ CASE reading = "wet"  -> humidity_alarm_tick
            [] reading = "dry"  -> alarmType' = 0 /\ UNCHANGED <<alarmAge, melodyVars>>
            [] reading = "none" -> UNCHANGED <<alarmType, alarmAge, melodyVars>>
       /\ wet' = (reading = "wet")
  /\ usedAge' = Unread /\ fastTicks' = FAST_SECOND + 1
  /\ UNCHANGED <<receiverVars, parameterVars>>

NextSecond ==
  /\ fastTicks = FAST_SECOND + 1
  /\ fastTicks' = 0
  /\ receivedAge' = (receivedAge + 1) % ALARM_WRAP
  /\ alarmAge' = (alarmAge + 1) % ALARM_WRAP
  /\ trueAge' = IF trueAge < ALARM_WRAP THEN trueAge + 1 ELSE trueAge
  /\ UNCHANGED <<temperatureValid, alarmType, parameterVars, usedAge, melodyVars, wet>>

node_thread == app_fast_tick \/ ReadTemperature \/ UseTemperature \/ NextSecond

AlarmNext == on_environment_data \/ read_config \/ node_thread

AlarmSpec == AlarmInit /\ [][AlarmNext]_alarmVars

(* A temperature is not used when it is a day old, and not either when the *)
(* system time has wrapped since and it looks like a new one.              *)
NoStaleTemperature ==
  [][usedAge = Unread /\ usedAge' < MAX_AGE => trueAge < MAX_AGE]_alarmVars

(* As long as every reading is wet the alarm sounds again and again.       *)
AlarmSounds == <>[]wet => []<>(active_melody # NoMelody)

=============================================================================
