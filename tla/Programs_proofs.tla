---------------------------- MODULE Programs_proofs ----------------------------
(***************************************************************************)
(* The safety properties of the parts of Programs, for every value of the  *)
(* constants: who opens the bathroom, what the lamps of the hallway get,   *)
(* which temperature the humidity alarm uses, how long the burner rests,   *)
(* and when a node restarts.  Each is proved of the part alone; the last   *)
(* theorem carries them over to Programs.                                  *)
(***************************************************************************)
EXTENDS Programs, FiniteSets, FiniteSetTheorems, TLAPS

-----------------------------------------------------------------------------
(* The burner's minimum off time, for any clock width, modes, temperatures *)
(* and sets of parameters.                                                 *)

(* As long as the burner was off for less than any off time that can be    *)
(* asked for, the age of lastBurnerStop is the time it was off: the clock  *)
(* cannot have wrapped since.                                              *)
StopInv == ~currentBurnerState /\ off < MaxOff => burnerAge = off

TimesOK == /\ currentBurnerState \in BOOLEAN
           /\ burnerAge \in Ticks
           /\ off \in 0 .. MaxOff
           /\ config \in Configs

RestInv == TimesOK /\ StopInv

LEMMA ElapsedInTicks ==
  ASSUME NEW since \in Ticks, NEW in \in Inputs
  PROVE  /\ Passed(in) \in Nat
         /\ Elapsed(since, in) \in Ticks
         /\ since + Passed(in) < WRAP => Elapsed(since, in) = since + Passed(in)
<1>1. Passed(in) \in Nat
  BY HeatingAssumption DEF Passed, InputType
<1>2. QED
  <2> DEFINE n == since + Passed(in)
  <2>1. n \in Nat /\ WRAP \in Nat \ {0}
    BY <1>1, HeatingAssumption DEF Ticks
  <2>2. n % WRAP \in 0 .. WRAP - 1
    BY <2>1
  <2>3. n < WRAP => n % WRAP = n
    BY <2>1
  <2>4. QED
    BY <1>1, <2>2, <2>3 DEF Elapsed, Ticks

(* Rounding up is monotonic, and exact on whole seconds. *)
LEMMA RoundsUp ==
  ASSUME NEW m \in Nat, NEW t \in Nat, m * SECOND <= t
  PROVE  TIME_I2S(t) >= m
<1> DEFINE S == SECOND
           q == (t + S - 1) \div S
<1>1. S \in Nat \ {0} /\ m * S \in Nat
  BY HeatingAssumption
<1>2. /\ q \in Int
      /\ t + S - 1 < S * (q + 1)
  BY <1>1
<1>3. SUFFICES ASSUME q < m PROVE FALSE
  BY <1>2 DEF TIME_I2S
<1>4. S * (q + 1) <= S * m
  BY <1>1, <1>2, <1>3
<1>5. S * m = m * S
  BY <1>1
<1>6. QED
  BY <1>1, <1>2, <1>4, <1>5

LEMMA RestInv_init == Init => RestInv
<1> SUFFICES ASSUME Init PROVE RestInv
  OBVIOUS
<1>1. (WRAP - FirstStop) % WRAP \in Ticks
  <2>1. WRAP - FirstStop \in Nat /\ WRAP \in Nat \ {0}
    BY HeatingAssumption
  <2>2. QED
    BY <2>1 DEF Ticks
<1>2. MaxOff \in 0 .. MaxOff /\ ~(MaxOff < MaxOff)
  BY HeatingAssumption
<1>3. QED
  BY <1>1, <1>2 DEF Init, RestInv, TimesOK, StopInv

LEMMA RestInv_tick ==
  ASSUME RestInv, NEW in \in Inputs, app_tick(in)
  PROVE  RestInv'
<1>1. Burner(in) /\ UNCHANGED config
  BY DEF app_tick
<1>2. NextBurner(in) \in BOOLEAN /\ currentBurnerState \in BOOLEAN
  BY DEF NextBurner, WantsBurner, MayStart, RestInv, TimesOK
<1>3. /\ burnerAge \in Ticks /\ Passed(in) \in Nat
      /\ Elapsed(burnerAge, in) \in Ticks
      /\ burnerAge + Passed(in) < WRAP =>
           Elapsed(burnerAge, in) = burnerAge + Passed(in)
  BY ElapsedInTicks DEF RestInv, TimesOK
<1>4. /\ WRAP \in Nat \ {0} /\ MaxOff \in Nat /\ MaxOff <= WRAP
      /\ off \in 0 .. MaxOff
  BY HeatingAssumption DEF RestInv, TimesOK
<1>5. TimesOK'
  BY <1>1, <1>2, <1>3, <1>4 DEF Burner, RestInv, TimesOK, Ticks
<1>6. StopInv'
  <2> SUFFICES ASSUME ~currentBurnerState', off' < MaxOff
               PROVE  burnerAge' = off'
    BY DEF StopInv
  <2>1. ~NextBurner(in)
    BY <1>1 DEF Burner
  <2>2. CASE currentBurnerState
    BY <1>1, <2>1, <2>2, <1>2 DEF Burner
  <2>3. CASE ~currentBurnerState
    <3>1. burnerAge' = Elapsed(burnerAge, in)
      BY <1>1, <1>2, <2>1, <2>3 DEF Burner
    <3>2. off' = off + Passed(in) /\ off + Passed(in) < MaxOff
      BY <1>1, <1>3, <1>4, <2>3 DEF Burner
    <3>3. burnerAge = off
      BY <3>2, <1>3, <1>4, <2>3 DEF RestInv, StopInv
    <3>4. QED
      BY <3>1, <3>2, <3>3, <1>3, <1>4
  <2>4. QED
    BY <2>2, <2>3
<1>7. QED
  BY <1>5, <1>6 DEF RestInv

LEMMA RestInv_step == RestInv /\ [Next]_vars => RestInv'
<1> SUFFICES ASSUME RestInv, [Next]_vars PROVE RestInv'
  OBVIOUS
<1>1. CASE Tick
  BY <1>1, RestInv_tick DEF Tick
<1>2. CASE app_config_update
  BY <1>2 DEF app_config_update, RestInv, TimesOK, StopInv
<1>3. CASE Reset
  <2>1. (WRAP - FirstStop) % WRAP \in Ticks
    <3>1. WRAP - FirstStop \in Nat /\ WRAP \in Nat \ {0}
      BY HeatingAssumption
    <3>2. QED
      BY <3>1 DEF Ticks
  <2>2. MaxOff \in 0 .. MaxOff /\ ~(MaxOff < MaxOff)
    BY HeatingAssumption
  <2>3. QED
    BY <1>3, <2>1, <2>2 DEF Reset, RestInv, TimesOK, StopInv
<1>4. CASE UNCHANGED vars
  BY <1>4 DEF vars, RestInv, TimesOK, StopInv
<1>5. QED
  BY <1>1, <1>2, <1>3, <1>4 DEF Next

(* The invariant behind the minimum off time. *)
THEOREM RestInvariant == Spec => []RestInv
BY RestInv_init, RestInv_step, PTL DEF Spec

(* The burner only starts when it was off for burnerMinOffTime, whatever   *)
(* modes, parameters and the wrap of the clock (app_tick, line 609).       *)
THEOREM BurnerAlwaysRests == Spec => BurnerRests
<1>1. ASSUME RestInv, [Next]_vars
      PROVE  [~currentBurnerState /\ currentBurnerState' =>
                TIME_I2S(off') >= config.burnerMinOffTime]_vars
  <2> SUFFICES ASSUME ~currentBurnerState, currentBurnerState'
               PROVE  TIME_I2S(off') >= config.burnerMinOffTime
    OBVIOUS
  <2>1. PICK in \in Inputs : app_tick(in)
    BY <1>1 DEF Next, Tick, app_config_update, Reset, vars
  <2>2. Burner(in) /\ NextBurner(in) /\ currentBurnerState \in BOOLEAN
    BY <2>1, <1>1 DEF app_tick, Burner, RestInv, TimesOK
  <2>3. TIME_I2S(Elapsed(burnerAge, in)) >= config.burnerMinOffTime
    BY <2>2 DEF NextBurner, MayStart
  <2>4. /\ burnerAge \in Ticks /\ off \in 0 .. MaxOff
        /\ Passed(in) \in Nat /\ MaxOff \in Nat /\ WRAP \in Nat /\ MaxOff <= WRAP
        /\ burnerAge + Passed(in) < WRAP =>
             Elapsed(burnerAge, in) = burnerAge + Passed(in)
    BY <1>1, HeatingAssumption, ElapsedInTicks DEF RestInv, TimesOK
  <2>5. off' = IF off + Passed(in) < MaxOff THEN off + Passed(in) ELSE MaxOff
    BY <2>2 DEF Burner
  <2>6. CASE off + Passed(in) < MaxOff
    <3>1. off < MaxOff
      BY <2>4, <2>6
    <3>2. burnerAge = off
      BY <1>1, <3>1 DEF RestInv, StopInv
    <3>3. Elapsed(burnerAge, in) = off'
      BY <2>4, <2>5, <2>6, <3>2
    <3>4. QED
      BY <2>3, <3>3
  <2>7. CASE ~(off + Passed(in) < MaxOff)
    <3>1. off' = MaxOff
      BY <2>5, <2>7
    <3>2. config \in Configs
      BY <1>1 DEF RestInv, TimesOK
    <3>3. config.burnerMinOffTime \in Nat
      BY <3>2, HeatingAssumption DEF ConfigType
    <3>4. config.burnerMinOffTime * SECOND <= MaxOff
      BY <3>2, HeatingAssumption
    <3>5. QED
      BY <3>1, <3>3, <3>4, <2>4, RoundsUp
  <2>8. QED
    BY <2>6, <2>7
<1>2. QED
  BY <1>1, RestInvariant, PTL DEF Spec, BurnerRests

-----------------------------------------------------------------------------
(* The bathroom, for any clock width and all time limits.                  *)

(* Until the clock has wrapped since the last motion, the age of its stamp *)
(* is the time since then.                                                 *)
RoomInv ==
  /\ quiet \in 0 .. ROOM_WRAP /\ quiet % 2 = 0
  /\ quiet < ROOM_WRAP => motion_sensor = quiet

LEMMA RoomInv_tick ==
  ASSUME RoomInv, NEW motion \in BOOLEAN, NEW atZero \in BOOLEAN, RoomTick(motion, atZero)
  PROVE  RoomInv'
<1>1. ROOM_WRAP \in Nat /\ ROOM_WRAP % 2 = 0 /\ quiet \in 0 .. ROOM_WRAP /\ quiet % 2 = 0
  BY BathroomAssumption DEF RoomInv
<1>2. CASE motion
  BY <1>1, <1>2 DEF RoomTick, RoomInv, motionSensorActiveAgo
<1>3. CASE ~motion /\ quiet < ROOM_WRAP
  <2>1. quiet' = quiet + 2 /\ motion_sensor' = (quiet + 2) % ROOM_WRAP
    BY <1>3 DEF RoomTick, RoomInv, motionSensorActiveAgo, Later
  <2>2. quiet + 2 <= ROOM_WRAP /\ (quiet + 2) % 2 = 0
    BY <1>1, <1>3
  <2>3. quiet + 2 < ROOM_WRAP => (quiet + 2) % ROOM_WRAP = quiet + 2
    BY <1>1
  <2> QED
    BY <1>1, <2>1, <2>2, <2>3 DEF RoomInv
<1>4. CASE ~motion /\ ~(quiet < ROOM_WRAP)
  BY <1>1, <1>4 DEF RoomTick, RoomInv
<1> QED
  BY <1>2, <1>3, <1>4

LEMMA RoomInv_step == RoomInv /\ [BathroomNext]_bathroomVars => RoomInv'
<1> SUFFICES ASSUME RoomInv, [BathroomNext]_bathroomVars PROVE RoomInv'
  OBVIOUS
<1>1. CASE bathroom_tick
  BY <1>1, RoomInv_tick DEF bathroom_tick
<1>2. CASE readButtons
  BY <1>2 DEF readButtons, roomVars, RoomInv
<1>3. CASE UNCHANGED bathroomVars
  BY <1>3 DEF bathroomVars, roomVars, RoomInv
<1> QED
  BY <1>1, <1>2, <1>3 DEF BathroomNext

(* The invariant behind the age of the last motion. *)
THEOREM RoomInvariant == BathroomSpec => []RoomInv
<1>1. BathroomInit => RoomInv
  BY BathroomAssumption DEF BathroomInit, RoomInv
<1> QED
  BY <1>1, RoomInv_step, PTL DEF BathroomSpec

(* OnlyMotionOpens: an empty room comes into use only just after a motion, *)
(* or when the clock has wrapped since the last one                        *)
(* (occupancyIndicatorTick).                                               *)
THEOREM MotionOpens == BathroomSpec => OnlyMotionOpens
<1>1. ASSUME RoomInv, RoomInv', [BathroomNext]_bathroomVars
      PROVE  [state = "EMPTY" /\ state' # "EMPTY" =>
                quiet' < MOTION_NOW \/ quiet' >= ROOM_WRAP]_bathroomVars
  <2> SUFFICES ASSUME state = "EMPTY", state' # "EMPTY"
               PROVE  quiet' < MOTION_NOW \/ quiet' >= ROOM_WRAP
    OBVIOUS
  <2>1. PICK motion, atZero \in BOOLEAN : RoomTick(motion, atZero)
    BY <1>1 DEF BathroomNext, bathroom_tick, readButtons, bathroomVars, roomVars
  <2>2. motion_sensor' = motionSensorActiveAgo(motion) /\ motionSensorActiveAgo(motion) < MOTION_NOW
    BY <2>1 DEF RoomTick, occupancyIndicatorTick, NextState
  <2> QED
    BY <1>1, <2>2, BathroomAssumption DEF RoomInv
<1> QED
  BY <1>1, RoomInvariant, PTL DEF BathroomSpec, OnlyMotionOpens

-----------------------------------------------------------------------------
(* The humidity alarm, for any clock width, age limit, and melodies.       *)

(* This second the node thread has looked at the age of the temperature. *)
Looked == usedAge # Unread \/ fastTicks = FAST_SECOND + 1

(* A temperature that counts as valid has its true age: the node thread    *)
(* looks every second and makes an old one invalid before its stamp could  *)
(* wrap.                                                                   *)
AlarmInv ==
  /\ fastTicks \in Nat
  /\ usedAge # Unread => fastTicks = FAST_SECOND
  /\ temperatureValid =>
       /\ receivedAge = trueAge
       /\ receivedAge \in 0 .. MAX_AGE + 1
       /\ Looked => receivedAge <= MAX_AGE

LEMMA AlarmNumbers ==
  ALARM_WRAP \in Nat /\ MAX_AGE \in Nat /\ FAST_SECOND \in Nat /\ MAX_AGE + 1 < ALARM_WRAP
BY AlarmAssumption

LEMMA AlarmInv_step == AlarmInv /\ [AlarmNext]_alarmVars => AlarmInv'
<1> SUFFICES ASSUME AlarmInv, [AlarmNext]_alarmVars PROVE AlarmInv'
  OBVIOUS
<1> USE AlarmNumbers
<1>1. CASE on_environment_data
  BY <1>1 DEF on_environment_data, AlarmInv, Looked
<1>2. CASE read_config
  BY <1>2 DEF read_config, AlarmInv, Looked, receiverVars
<1>3. CASE app_fast_tick
  BY <1>3 DEF app_fast_tick, AlarmInv, Looked, receiverVars
<1>4. CASE ReadTemperature
  BY <1>4 DEF ReadTemperature, getTargetTemperature, AlarmInv, Looked
<1>5. CASE UseTemperature
  BY <1>5 DEF UseTemperature, AlarmInv, Looked, receiverVars
<1>6. CASE NextSecond
  <2>1. usedAge = Unread /\ usedAge' = Unread /\ fastTicks' = 0
    BY <1>6 DEF NextSecond, AlarmInv
  <2>2. ASSUME temperatureValid'
        PROVE  receivedAge' = trueAge' /\ receivedAge' \in 0 .. MAX_AGE + 1
    <3>1. receivedAge = trueAge /\ receivedAge \in 0 .. MAX_AGE
      BY <1>6, <2>2 DEF NextSecond, AlarmInv, Looked
    <3>2. (receivedAge + 1) % ALARM_WRAP = receivedAge + 1
      BY <3>1
    <3> QED
      BY <1>6, <3>1, <3>2 DEF NextSecond
  <2> QED
    BY <2>1, <2>2 DEF AlarmInv, Looked
<1>7. CASE UNCHANGED alarmVars
  BY <1>7 DEF alarmVars, receiverVars, AlarmInv, Looked
<1> QED
  BY <1>1, <1>2, <1>3, <1>4, <1>5, <1>6, <1>7 DEF AlarmNext, node_thread

(* The invariant behind the age of the temperature. *)
THEOREM AlarmInvariant == AlarmSpec => []AlarmInv
<1>1. AlarmInit => AlarmInv
  BY DEF AlarmInit, AlarmInv
<1> QED
  BY <1>1, AlarmInv_step, PTL DEF AlarmSpec

(* NoStaleTemperature: no temperature is used that is a day old, whenever  *)
(* the clock wraps (temperature_receiver_getTargetTemperature).            *)
THEOREM TemperatureIsFresh == AlarmSpec => NoStaleTemperature
<1>1. ASSUME AlarmInv, [AlarmNext]_alarmVars
      PROVE  [usedAge = Unread /\ usedAge' < MAX_AGE => trueAge < MAX_AGE]_alarmVars
  <2> SUFFICES ASSUME usedAge = Unread, usedAge' < MAX_AGE PROVE trueAge < MAX_AGE
    OBVIOUS
  <2>1. ~(Unread < MAX_AGE) /\ ~(Invalid < MAX_AGE)
    BY AlarmNumbers DEF Unread, Invalid
  <2>2. ReadTemperature
    BY <1>1, <2>1 DEF AlarmNext, node_thread, on_environment_data, read_config, app_fast_tick,
                      UseTemperature, NextSecond, alarmVars
  <2> QED
    BY <1>1, <2>1, <2>2 DEF ReadTemperature, getTargetTemperature, AlarmInv
<1> QED
  BY <1>1, AlarmInvariant, PTL DEF AlarmSpec, NoStaleTemperature

-----------------------------------------------------------------------------
(* The lamps of the hallway, for any number of them, lengths of the        *)
(* animations and brightnesses.                                            *)

Animations == [from : 0 .. DUSK, to : 0 .. DUSK, counter : Nat, lights_index : Orders]

(* The animation stays within its length and between brightnesses that can *)
(* be wanted, also when it is turned back.                                 *)
AnimationOK(kind, a) ==
  /\ a \in Animations
  /\ kind = "FADE" => a.counter <= FADE_LENGTH
  /\ kind = "PLAY" => a.counter < PLAY_LENGTH

HallwayInv ==
  /\ hallway_brightness \in 0 .. DUSK
  /\ hallway_animation \in {"NONE", "FADE", "PLAY"}
  /\ AnimationOK(hallway_animation, animation)
  /\ hallway_animation = "PLAY" => animation.from = hallway_brightness
  /\ NoFlash

LEMMA HallwayNumbers ==
  /\ HALLWAY_LIGHTS \in Nat \ {0} /\ FADE_LENGTH \in Nat /\ PLAY_LENGTH \in Nat
  /\ PLAY_LENGTH \div 2 \in Nat \ {0} /\ PLAY_LENGTH \div 4 \in 0 .. PLAY_LENGTH - 1
  /\ Offset \in Nat \ {0} /\ FADE_LENGTH - HALLWAY_LIGHTS * Offset \in Nat \ {0}
  /\ DUSK \in Nat /\ {0, DUSK, EVENING, NIGHT_MOTION, NIGHT} \subseteq 0 .. DUSK
<1>1. /\ HALLWAY_LIGHTS \in Nat \ {0} /\ FADE_LENGTH \in Nat /\ PLAY_LENGTH \in Nat
      /\ PLAY_LENGTH >= 2
      /\ Offset > 0 /\ DUSK \in Nat /\ {EVENING, NIGHT_MOTION, NIGHT} \subseteq 0 .. DUSK
  BY HallwayAssumption
<1>2. PLAY_LENGTH \div 2 \in Nat \ {0} /\ PLAY_LENGTH \div 4 \in 0 .. PLAY_LENGTH - 1
  BY <1>1
<1>3. Offset \in Nat \ {0} /\ FADE_LENGTH - HALLWAY_LIGHTS * Offset \in Nat \ {0}
  <2> DEFINE H == HALLWAY_LIGHTS
             F == FADE_LENGTH
  <2>1. F \div (H + 1) \in Nat /\ (H + 1) * (F \div (H + 1)) <= F
    BY <1>1
  <2>2. (H + 1) * (F \div (H + 1)) = H * (F \div (H + 1)) + (F \div (H + 1))
    BY <1>1, <2>1
  <2>3. H * (F \div (H + 1)) \in Nat
    BY <1>1, <2>1
  <2> QED
    BY <1>1, <2>1, <2>2, <2>3 DEF Offset
<1> QED
  BY <1>1, <1>2, <1>3

(* A part of a difference is not more than the difference. *)
LEMMA PartOf ==
  ASSUME NEW d \in Nat, NEW n \in Nat \ {0}, NEW s \in 0 .. n
  PROVE  d * s \in Nat /\ (d * s) \div n \in 0 .. d
<1>1. d * s \in Nat /\ d * s <= d * n /\ d * n = n * d
  BY SMTT(30)
<1>2. DEFINE p == d * s
<1>3. p \div n \in Nat /\ n * (p \div n) <= p
  BY <1>1
<1>4. SUFFICES ASSUME p \div n >= d + 1 PROVE FALSE
  BY <1>1, <1>3
<1>5. n * (p \div n) >= n * (d + 1) /\ n * (d + 1) = n * d + n
  BY <1>3, <1>4, SMTT(30)
<1> QED
  BY <1>1, <1>3, <1>5

(* get_fade_val stays between its ends, from whatever step it is asked. *)
LEMMA FadeStaysBetween ==
  ASSUME NEW from \in Nat, NEW to \in Nat,
         NEW step \in Int, NEW length \in Nat \ {0}
  PROVE  /\ get_fade_val(step, from, to, length) \in Nat
         /\ Between(get_fade_val(step, from, to, length), from, to)
<1>1. CASE step < 0
  BY <1>1 DEF get_fade_val, Between
<1>2. CASE step > length
  BY <1>2 DEF get_fade_val, Between
<1>3. CASE step \in 0 .. length
  <2>1. get_fade_val(step, from, to, length) = from + Quotient((to - from) * step, length)
    BY <1>3 DEF get_fade_val
  <2>2. CASE from <= to
    <3>1. to - from \in Nat
      BY <2>2
    <3>2. (to - from) * step \in Nat /\ ((to - from) * step) \div length \in 0 .. to - from
      BY <1>3, <3>1, PartOf
    <3> QED
      BY <2>1, <2>2, <3>2 DEF Quotient, Between
  <2>3. CASE to < from
    <3>1. from - to \in Nat
      BY <2>3
    <3>2. (from - to) * step \in Nat /\ ((from - to) * step) \div length \in 0 .. from - to
      BY <1>3, <3>1, PartOf
    <3>3. (to - from) * step = -((from - to) * step)
      BY <1>3
    <3>4. CASE (from - to) * step = 0
      <4>1. Quotient((to - from) * step, length) = 0
        BY <3>3, <3>4 DEF Quotient
      <4> QED
        BY <2>1, <2>3, <4>1 DEF Between
    <3>5. CASE (from - to) * step > 0
      <4>1. Quotient((to - from) * step, length) = -(((from - to) * step) \div length)
        BY <3>2, <3>3, <3>5 DEF Quotient
      <4> QED
        BY <2>1, <2>3, <3>2, <4>1 DEF Between
    <3> QED
      BY <3>2, <3>4, <3>5
  <2> QED
    BY <2>2, <2>3
<1> QED
  BY <1>1, <1>2, <1>3

(* Every lamp has a place in the order. *)
LEMMA EveryLampHasAPlace ==
  ASSUME NEW order \in Orders, NEW l \in Lamps
  PROVE  (CHOOSE j \in Lamps : order[j] = l) \in Lamps
<1>1. IsFiniteSet(Lamps)
  BY HallwayNumbers, FS_Interval DEF Lamps
<1>2. order \in Injection(Lamps, Lamps)
  BY DEF Orders, Injection, IsInjective
<1>3. order \in Surjection(Lamps, Lamps)
  BY <1>1, <1>2, FS_Injection
<1>4. \E j \in Lamps : order[j] = l
  BY <1>3 DEF Surjection
<1> QED
  BY <1>4

(* What an animation places on the lamps: a fade nothing beyond its ends,  *)
(* the play nothing beyond the swing around its brightness.                *)
LEMMA PlacedInRange ==
  ASSUME NEW kind \in {"FADE", "PLAY"}, NEW a, AnimationOK(kind, a), NEW l \in Lamps
  PROVE  /\ kind = "FADE" => Between(Placed(kind, a)[l], a.from, a.to)
         /\ kind = "PLAY" => Placed(kind, a)[l] \in Swing(a.from)
<1> DEFINE i == CHOOSE j \in Lamps : a.lights_index[j] = l
<1>1. i \in Lamps
  BY EveryLampHasAPlace DEF AnimationOK, Animations
<1>2. i \in Int /\ a.from \in Nat /\ a.to \in Nat
  BY <1>1, HallwayNumbers DEF Lamps, AnimationOK, Animations
<1> HIDE DEF i
<1>3. CASE kind = "FADE"
  <2>1. a.counter - Offset * i \in Int
    BY <1>2, <1>3, HallwayNumbers DEF AnimationOK, Animations
  <2>2. Between(fadeOf(a, i), a.from, a.to)
    BY <1>2, <2>1, HallwayNumbers, FadeStaysBetween DEF fadeOf
  <2> QED
    BY <1>3, <2>2 DEF Placed, i
<1>4. CASE kind = "PLAY"
  <2> DEFINE high == (a.from * 14) \div 10
             low  == (a.from * 6) \div 10
             s == a.counter % (PLAY_LENGTH \div 2)
             rising  == get_fade_val(s, low, high, PLAY_LENGTH \div 2)
             falling == get_fade_val(s, high, low, PLAY_LENGTH \div 2)
  <2>1. /\ low \in Nat /\ high \in Nat /\ low <= high
        /\ a.from \in low .. high
    BY <1>2
  <2>2. s \in Int
    BY <1>4, HallwayNumbers DEF AnimationOK, Animations
  <2> HIDE DEF high, low, s
  <2>3. /\ rising \in Nat /\ Between(rising, low, high)
        /\ falling \in Nat /\ Between(falling, high, low)
    BY <2>1, <2>2, HallwayNumbers, FadeStaysBetween
  <2> HIDE DEF rising, falling
  <2>4. rising \in low .. high /\ falling \in low .. high
    BY <2>1, <2>3 DEF Between
  <2>5. playOf(a, i) \in {a.from, rising, falling}
    BY DEF playOf, high, low, s, rising, falling
  <2>6. playOf(a, i) \in low .. high
    BY <2>1, <2>4, <2>5
  <2> QED
    BY <1>4, <2>6 DEF Placed, Swing, i, low, high
<1> QED
  BY <1>3, <1>4

(* The lamps in the order of their numbers. *)
LEMMA IdentityIsAnOrder == [i \in Lamps |-> i] \in Orders
BY DEF Orders

(* An animation that is turned back, and one that begins to play. *)
LEMMA Reversed ==
  ASSUME NEW a \in Animations, a.counter <= FADE_LENGTH
  PROVE  reverse(a) \in Animations /\ reverse(a).counter <= FADE_LENGTH
<1> DEFINE b == [a EXCEPT !.counter = FADE_LENGTH - @]
           c == [b EXCEPT !.from = a.to]
           d == [c EXCEPT !.to = a.from]
<1>1. a.to \in 0 .. DUSK /\ a.from \in 0 .. DUSK /\ FADE_LENGTH - a.counter \in 0 .. FADE_LENGTH
  BY HallwayNumbers DEF Animations
<1>2. b \in Animations /\ b.counter <= FADE_LENGTH
  BY <1>1 DEF Animations
<1> HIDE DEF b
<1>3. c \in Animations /\ c.counter <= FADE_LENGTH
  BY <1>1, <1>2 DEF Animations
<1> HIDE DEF c
<1>4. d \in Animations /\ d.counter <= FADE_LENGTH
  BY <1>1, <1>3 DEF Animations
<1>5. reverse(a) = d
  BY DEF reverse, b, c
<1> QED
  BY <1>4, <1>5

LEMMA Played ==
  ASSUME animation \in Animations, NEW from \in 0 .. DUSK
  PROVE  playing(from) \in Animations /\ playing(from).counter < PLAY_LENGTH
<1> DEFINE b == [animation EXCEPT !.from = from]
           quarter == PLAY_LENGTH \div 4
           c == [b EXCEPT !.counter = quarter]
           d == [c EXCEPT !.lights_index = [i \in Lamps |-> i]]
<1>1. /\ PLAY_LENGTH \in Nat /\ quarter \in Nat /\ quarter < PLAY_LENGTH
      /\ [i \in Lamps |-> i] \in Orders
  BY HallwayNumbers, IdentityIsAnOrder
<1> HIDE DEF quarter
<1>2. b \in Animations
  BY DEF Animations
<1> HIDE DEF b
<1>3. c \in Animations /\ c.counter < PLAY_LENGTH
  BY <1>1, <1>2 DEF Animations
<1> HIDE DEF c
<1>4. d \in Animations /\ d.counter < PLAY_LENGTH
  BY <1>1, <1>3 DEF Animations
<1>5. playing(from) = d
  BY DEF playing, b, c, quarter
<1> QED
  BY <1>4, <1>5

(* A step of an animation keeps the invariant. *)
LEMMA AnimateKeeps ==
  ASSUME NEW kind \in {"FADE", "PLAY"}, NEW a, AnimationOK(kind, a), Animate(kind, a),
         hallway_brightness' \in 0 .. DUSK,
         kind = "PLAY" => a.from = hallway_brightness'
  PROVE  HallwayInv'
<1>1. /\ AnimationOK(kind, a) /\ Animate(kind, a)
      /\ \A l \in Lamps : kind = "FADE" => Between(Placed(kind, a)[l], a.from, a.to)
      /\ \A l \in Lamps : kind = "PLAY" => Placed(kind, a)[l] \in Swing(a.from)
  BY PlacedInRange
<1>2. CASE kind = "FADE" /\ a.counter < FADE_LENGTH
  <2>1. /\ lamp' = Placed("FADE", a) /\ hallway_animation' = "FADE"
        /\ animation' = [a EXCEPT !.counter = @ + 1]
    <3>1. ~(kind = "FADE" /\ a.counter >= FADE_LENGTH) /\ kind # "PLAY"
      BY <1>1, <1>2, HallwayNumbers DEF AnimationOK, Animations
    <3> QED
      BY <1>1, <1>2, <3>1 DEF Animate
  <2>2. /\ animation' \in Animations /\ animation'.counter <= FADE_LENGTH
        /\ animation'.from = a.from /\ animation'.to = a.to
    BY <1>1, <1>2, <2>1, HallwayNumbers DEF AnimationOK, Animations
  <2>3. AnimationOK(hallway_animation', animation')
    BY <2>1, <2>2 DEF AnimationOK
  <2>4. NoFlash'
    <3> SUFFICES ASSUME NEW l \in Lamps
                 PROVE  Between(lamp'[l], animation'.from, animation'.to)
      BY <2>1 DEF NoFlash
    <3> QED
      BY <1>1, <1>2, <2>1, <2>2
  <2> QED
    BY <2>1, <2>3, <2>4 DEF HallwayInv
<1>3. CASE kind = "FADE" /\ ~(a.counter < FADE_LENGTH)
  <2>1. UNCHANGED lamp /\ hallway_animation' = "NONE" /\ animation' = a
    <3>1. a.counter >= FADE_LENGTH
      BY <1>1, <1>3, HallwayNumbers DEF AnimationOK, Animations
    <3> QED
      BY <1>1, <1>3, <3>1 DEF Animate
  <2> QED
    BY <1>1, <1>3, <2>1 DEF HallwayInv, AnimationOK, NoFlash
<1>4. CASE kind = "PLAY"
  <2>1. /\ lamp' = Placed("PLAY", a) /\ hallway_animation' = "PLAY"
        /\ animation' = [a EXCEPT !.counter = (@ + 1) % PLAY_LENGTH]
    BY <1>1, <1>4 DEF Animate
  <2>2. (a.counter + 1) % PLAY_LENGTH \in 0 .. PLAY_LENGTH - 1
    BY <1>1, <1>4, HallwayNumbers DEF AnimationOK, Animations
  <2>3. AnimationOK("PLAY", animation') /\ animation'.from = hallway_brightness'
    BY <1>1, <1>4, <2>1, <2>2, HallwayNumbers DEF AnimationOK, Animations
  <2>4. AnimationOK(hallway_animation', animation')
    BY <2>1, <2>3
  <2>5. NoFlash'
    <3> SUFFICES ASSUME NEW l \in Lamps
                 PROVE  lamp'[l] \in Swing(hallway_brightness')
      BY <2>1 DEF NoFlash
    <3> QED
      BY <1>1, <1>4, <2>1
  <2> QED
    BY <2>1, <2>3, <2>4, <2>5 DEF HallwayInv
<1> QED
  BY <1>2, <1>3, <1>4

LEMMA HallwayInv_init == HallwayInit => HallwayInv
BY HallwayNumbers, IdentityIsAnOrder DEF HallwayInit, HallwayInv, AnimationOK, Animations, NoFlash

LEMMA HallwayInv_tick ==
  ASSUME HallwayInv, NEW light \in {"evening", "night", "dusk", "day"}, NEW motion \in BOOLEAN,
         LightTick(light, motion)
  PROVE  HallwayInv'
<1> DEFINE next == Wanted(light, motion)
           a == animation
<1>1. next \in 0 .. DUSK /\ hallway_brightness' = next
  BY HallwayNumbers DEF Wanted, LightTick
<1>2. /\ AnimationOK(hallway_animation, a) /\ hallway_brightness \in 0 .. DUSK
      /\ hallway_animation = "PLAY" => a.from = hallway_brightness
      /\ hallway_animation \in {"NONE", "FADE", "PLAY"}
  BY DEF HallwayInv
<1> HIDE DEF next
<1>3. CASE next # hallway_brightness /\ hallway_animation = "FADE"
  <2>1. Animate("FADE", reverse(a))
    BY <1>3 DEF LightTick, next
  <2>2. AnimationOK("FADE", reverse(a))
    BY <1>2, <1>3, Reversed DEF AnimationOK, Animations
  <2> QED
    BY <1>1, <2>1, <2>2, AnimateKeeps
<1>4. CASE next # hallway_brightness /\ hallway_animation # "FADE"
  <2>1. PICK order \in Orders : Animate("FADE", fading(hallway_brightness, next, order))
    BY <1>4 DEF LightTick, next
  <2>2. AnimationOK("FADE", fading(hallway_brightness, next, order))
    BY <1>1, <1>2, HallwayNumbers DEF AnimationOK, Animations, fading
  <2> QED
    BY <1>1, <2>1, <2>2, AnimateKeeps
<1>5. CASE next = hallway_brightness /\ hallway_animation # "NONE"
  <2>1. Animate(hallway_animation, a) /\ hallway_animation \in {"FADE", "PLAY"}
    BY <1>2, <1>5 DEF LightTick, next
  <2> QED
    BY <1>1, <1>2, <1>5, <2>1, AnimateKeeps
<1>6. CASE next = hallway_brightness /\ hallway_animation = "NONE"
  <2>1. /\ lamp' = [l \in Lamps |-> next]
        /\ animation' = playing(next) /\ hallway_animation' = "PLAY"
    BY <1>6 DEF LightTick, next
  <2>2. AnimationOK("PLAY", playing(next)) /\ playing(next).from = next
    <3>1. animation \in Animations
      BY <1>2 DEF AnimationOK
    <3>2. playing(next) \in Animations /\ playing(next).counter < PLAY_LENGTH
      BY <1>1, <3>1, Played
    <3> QED
      BY <3>1, <3>2 DEF AnimationOK, playing, Animations
  <2>3. AnimationOK(hallway_animation', animation')
    BY <2>1, <2>2
  <2>4. next \in Swing(next)
    BY <1>1, HallwayNumbers DEF Swing
  <2>5. NoFlash'
    BY <1>1, <2>1, <2>4 DEF NoFlash
  <2> QED
    BY <1>1, <2>1, <2>2, <2>3, <2>5 DEF HallwayInv
<1> QED
  BY <1>3, <1>4, <1>5, <1>6

LEMMA HallwayInv_step == HallwayInv /\ [HallwayNext]_hallwayVars => HallwayInv'
<1> SUFFICES ASSUME HallwayInv, [HallwayNext]_hallwayVars PROVE HallwayInv'
  OBVIOUS
<1>1. CASE HallwayTick
  BY <1>1, HallwayInv_tick DEF HallwayTick
<1>2. CASE UNCHANGED hallwayVars
  BY <1>2 DEF hallwayVars, HallwayInv, NoFlash
<1> QED
  BY <1>1, <1>2 DEF HallwayNext

(* NoFlash: no lamp gets a value beyond the ends of the fade it is in, nor *)
(* beyond the swing around the brightness it plays with, whatever fade is  *)
(* turned back at whatever moment (get_fade_val, app_fast_tick).           *)
THEOREM LampsNeverFlash == HallwaySpec => []NoFlash
<1>1. HallwayInv => NoFlash
  BY DEF HallwayInv
<1> QED
  BY <1>1, HallwayInv_init, HallwayInv_step, PTL DEF HallwaySpec

-----------------------------------------------------------------------------
(* The restart of a node, for every width of the system time, length of a  *)
(* second and of the longest run of the 1 Hz tasks.                        *)

Times == 0 .. SYSTIME_WRAP - 1

NodeTypeOK ==
  /\ now \in Times /\ currentTime \in Times /\ lastInvocation \in Times
  /\ NodeRestartAt \in Times

(* The 1 Hz tasks run on time; those that run began after the last ones.   *)
TasksOnTime ==
  /\ TimeElapsedSince(lastInvocation) <= PERIOD
  /\ canNode # "loop" => TimeElapsedSince(currentTime) <= TimeElapsedSince(lastInvocation)

AskedAt(r) == (r + SYSTIME_WRAP - SYSTIME_SECOND) % SYSTIME_WRAP

(* The last tasks that saw no reason to restart began at most a second     *)
(* after the request.                                                      *)
SeenSinceAsked ==
  NodeRestartAt \in 1 .. SYSTIME_WRAP - PERIOD - 1 =>
    TimeElapsedSince(AskedAt(NodeRestartAt)) <= TimeElapsedSince(lastInvocation) + SYSTIME_SECOND

NodeInv == NodeTypeOK /\ TasksOnTime /\ SeenSinceAsked

LEMMA NodeNumbers ==
  /\ SYSTIME_WRAP \in Nat /\ PERIOD \in Nat /\ SYSTIME_SECOND \in Nat
  /\ SYSTIME_SECOND > 0 /\ SYSTIME_SECOND < PERIOD /\ PERIOD < SYSTIME_WRAP
BY NodeAssumption

LEMMA WrapsOnce ==
  ASSUME NEW x \in Int, 0 <= x, x < 2 * SYSTIME_WRAP
  PROVE  x % SYSTIME_WRAP = IF x < SYSTIME_WRAP THEN x ELSE x - SYSTIME_WRAP
BY NodeNumbers

(* The difference of two system times, and of one a second earlier. *)
LEMMA ElapsedIs ==
  ASSUME now \in Times, NEW t \in Times
  PROVE  TimeElapsedSince(t) = IF now >= t THEN now - t ELSE now + SYSTIME_WRAP - t
<1>1. now \in Int /\ t \in Int /\ 0 <= now + SYSTIME_WRAP - t /\ now + SYSTIME_WRAP - t < 2 * SYSTIME_WRAP
  BY NodeNumbers DEF Times
<1> QED
  BY <1>1, WrapsOnce, NodeNumbers DEF TimeElapsedSince

LEMMA AskedIs ==
  ASSUME NEW r \in Times
  PROVE  /\ AskedAt(r) \in Times
         /\ AskedAt(r) = IF r >= SYSTIME_SECOND THEN r - SYSTIME_SECOND
                         ELSE r + SYSTIME_WRAP - SYSTIME_SECOND
<1>1. /\ r \in Int /\ 0 <= r + SYSTIME_WRAP - SYSTIME_SECOND
      /\ r + SYSTIME_WRAP - SYSTIME_SECOND < 2 * SYSTIME_WRAP
  BY NodeNumbers DEF Times
<1> QED
  BY <1>1, WrapsOnce, NodeNumbers DEF AskedAt, Times

(* What was asked for now was asked for now. *)
LEMMA AskedNow ==
  ASSUME NEW t \in Times
  PROVE  /\ (t + SYSTIME_SECOND) % SYSTIME_WRAP \in Times
         /\ AskedAt((t + SYSTIME_SECOND) % SYSTIME_WRAP) = t
<1> DEFINE r == (t + SYSTIME_SECOND) % SYSTIME_WRAP
<1>1. r = IF t + SYSTIME_SECOND < SYSTIME_WRAP THEN t + SYSTIME_SECOND
          ELSE t + SYSTIME_SECOND - SYSTIME_WRAP
  BY WrapsOnce, NodeNumbers DEF Times
<1>2. r \in Times
  BY <1>1, NodeNumbers DEF Times
<1> HIDE DEF r
<1>3. AskedAt(r) = t
  BY <1>1, <1>2, AskedIs, NodeNumbers DEF Times
<1> QED
  BY <1>2, <1>3 DEF r

(* A tick makes every time that has passed a tick longer, or 0. *)
LEMMA ElapsedTicks ==
  ASSUME now \in Times, now' = (now + 1) % SYSTIME_WRAP, NEW t \in Times
  PROVE  /\ now' \in Times
         /\ LET n == TimeElapsedSince(t)
                m == (now' + SYSTIME_WRAP - t) % SYSTIME_WRAP
            IN  m = IF n + 1 = SYSTIME_WRAP THEN 0 ELSE n + 1
<1>1. now' = IF now + 1 < SYSTIME_WRAP THEN now + 1 ELSE 0
  <2>1. 0 <= now + 1 /\ now + 1 < 2 * SYSTIME_WRAP /\ now + 1 \in Int
    BY NodeNumbers DEF Times
  <2> QED
    BY <2>1, WrapsOnce, NodeNumbers DEF Times
<1>2. now' \in Times
  BY <1>1, NodeNumbers DEF Times
<1>3. (now' + SYSTIME_WRAP - t) % SYSTIME_WRAP
        = IF now' >= t THEN now' - t ELSE now' + SYSTIME_WRAP - t
  <2>1. /\ 0 <= now' + SYSTIME_WRAP - t /\ now' + SYSTIME_WRAP - t < 2 * SYSTIME_WRAP
        /\ now' + SYSTIME_WRAP - t \in Int
    BY <1>2, NodeNumbers DEF Times
  <2> DEFINE x == now' + SYSTIME_WRAP - t
  <2>2. x % SYSTIME_WRAP = IF x < SYSTIME_WRAP THEN x ELSE x - SYSTIME_WRAP
    <3> HIDE DEF x
    <3> QED
      BY <2>1, WrapsOnce DEF x
  <2> QED
    BY <1>2, <2>2, NodeNumbers DEF Times
<1>4. TimeElapsedSince(t) = IF now >= t THEN now - t ELSE now + SYSTIME_WRAP - t
  BY ElapsedIs
<1> QED
  BY <1>1, <1>2, <1>3, <1>4, NodeNumbers DEF Times

LEMMA NodeInv_reset == SystemReset => NodeInv'
<1> SUFFICES ASSUME SystemReset PROVE NodeInv'
  OBVIOUS
<1>1. /\ now' = 0 /\ currentTime' = 0 /\ lastInvocation' = 0 /\ NodeRestartAt' = 0
      /\ canNode' = "loop"
  BY DEF SystemReset, AfterReset
<1>2. (0 + SYSTIME_WRAP - 0) % SYSTIME_WRAP = 0
  BY WrapsOnce, NodeNumbers
<1> QED
  BY <1>1, <1>2, NodeNumbers
     DEF NodeInv, NodeTypeOK, TasksOnTime, SeenSinceAsked, TimeElapsedSince, Times

(* Steps that leave the times alone. *)
LEMMA NodeInv_other ==
  ASSUME NodeInv, UNCHANGED <<now, lastInvocation, currentTime, NodeRestartAt>>,
         canNode' = canNode \/ (canNode # "loop" /\ canNode' # "loop")
  PROVE  NodeInv'
BY DEF NodeInv, NodeTypeOK, TasksOnTime, SeenSinceAsked, TimeElapsedSince

LEMMA NodeInv_request ==
  ASSUME NodeInv, requestNodeRestart, UNCHANGED <<now, lastInvocation, currentTime, canNode>>
  PROVE  NodeInv'
<1>1. CASE NodeRestartAt # 0
  BY <1>1, NodeInv_other DEF requestNodeRestart
<1>2. CASE NodeRestartAt = 0
  <2>1. NodeRestartAt' = (now + SYSTIME_SECOND) % SYSTIME_WRAP /\ now \in Times
    BY <1>2 DEF requestNodeRestart, NodeInv, NodeTypeOK
  <2>2. NodeRestartAt' \in Times /\ AskedAt(NodeRestartAt') = now
    BY <2>1, AskedNow
  <2>3. TimeElapsedSince(now) = 0
    BY <2>1, ElapsedIs DEF Times
  <2>4. TimeElapsedSince(lastInvocation) \in Nat
    BY ElapsedIs, NodeNumbers DEF NodeInv, NodeTypeOK, Times
  <2>5. TimeElapsedSince(lastInvocation)' = TimeElapsedSince(lastInvocation)
        /\ TimeElapsedSince(currentTime)' = TimeElapsedSince(currentTime)
    BY DEF TimeElapsedSince
  <2>6. TimeElapsedSince(AskedAt(NodeRestartAt))' = 0
    BY <2>2, <2>3 DEF TimeElapsedSince, AskedAt
  <2>7. SeenSinceAsked'
    BY <2>4, <2>5, <2>6, NodeNumbers DEF SeenSinceAsked
  <2>8. TasksOnTime'
    BY <2>5 DEF TasksOnTime, NodeInv
  <2> QED
    BY <2>2, <2>7, <2>8 DEF NodeInv, NodeTypeOK
<1> QED
  BY <1>1, <1>2

LEMMA NodeInv_begin ==
  ASSUME NodeInv, Begin1HzTasks
  PROVE  NodeInv'
<1>1. /\ currentTime' = now /\ now' = now /\ lastInvocation' = lastInvocation
      /\ NodeRestartAt' = NodeRestartAt
  BY DEF Begin1HzTasks
<1>2. now \in Times /\ lastInvocation \in Times
  BY DEF NodeInv, NodeTypeOK
<1>3. TimeElapsedSince(now) = 0 /\ TimeElapsedSince(lastInvocation) \in Nat
  BY <1>2, ElapsedIs, NodeNumbers DEF Times
<1>4. TimeElapsedSince(lastInvocation)' = TimeElapsedSince(lastInvocation)
      /\ TimeElapsedSince(currentTime)' = TimeElapsedSince(now)
      /\ TimeElapsedSince(AskedAt(NodeRestartAt))' = TimeElapsedSince(AskedAt(NodeRestartAt))
  BY <1>1 DEF TimeElapsedSince, AskedAt
<1> QED
  BY <1>1, <1>2, <1>3, <1>4 DEF NodeInv, NodeTypeOK, TasksOnTime, SeenSinceAsked

(* Tasks that end without a restart began before its time: no later than   *)
(* a second after the request, since the system time did not wrap.         *)
LEMMA NodeInv_end ==
  ASSUME NodeInv, End1HzTasks
  PROVE  NodeInv'
<1>1. CASE RestartNow /\ SystemReset
  BY <1>1, NodeInv_reset
<1>2. CASE ~RestartNow /\ lastInvocation' = currentTime /\ canNode' = "loop"
           /\ UNCHANGED <<now, NodeRestartAt, currentTime>>
  <2>1. /\ now \in Times /\ currentTime \in Times /\ lastInvocation \in Times
        /\ NodeRestartAt \in Times
    BY DEF NodeInv, NodeTypeOK
  <2> DEFINE l == TimeElapsedSince(lastInvocation)
             m == TimeElapsedSince(currentTime)
             a == TimeElapsedSince(AskedAt(NodeRestartAt))
  <2>2. l <= PERIOD /\ m <= l
    BY DEF NodeInv, TasksOnTime, End1HzTasks
  <2>3. l \in Nat /\ m \in Nat /\ m = IF now >= currentTime THEN now - currentTime
                                      ELSE now + SYSTIME_WRAP - currentTime
    BY <2>1, ElapsedIs, NodeNumbers DEF Times
  <2>4. ASSUME NodeRestartAt \in 1 .. SYSTIME_WRAP - PERIOD - 1
        PROVE  a <= m + SYSTIME_SECOND
    <3>1. currentTime <= NodeRestartAt
      BY <1>2, <2>1, <2>4, NodeNumbers DEF RestartNow, isNodeRestartRequested, Times
    <3>2. now = currentTime + m
      BY <2>1, <2>2, <2>3, <2>4, <3>1, NodeNumbers DEF Times
    <3>3. a <= l + SYSTIME_SECOND
      BY <2>4 DEF NodeInv, SeenSinceAsked
    <3>4. /\ AskedAt(NodeRestartAt) \in Times
          /\ AskedAt(NodeRestartAt) = IF NodeRestartAt >= SYSTIME_SECOND
                                      THEN NodeRestartAt - SYSTIME_SECOND
                                      ELSE NodeRestartAt + SYSTIME_WRAP - SYSTIME_SECOND
      BY <2>1, AskedIs
    <3>5. a = IF now >= AskedAt(NodeRestartAt) THEN now - AskedAt(NodeRestartAt)
              ELSE now + SYSTIME_WRAP - AskedAt(NodeRestartAt)
      BY <2>1, <3>4, ElapsedIs
    <3> QED
      BY <2>1, <2>2, <2>3, <2>4, <3>1, <3>2, <3>3, <3>4, <3>5, NodeNumbers DEF Times
  <2>5. TimeElapsedSince(lastInvocation)' = m
        /\ TimeElapsedSince(AskedAt(NodeRestartAt))' = a
    BY <1>2 DEF TimeElapsedSince, AskedAt
  <2> QED
    BY <1>2, <2>1, <2>2, <2>3, <2>4, <2>5, NodeNumbers
       DEF NodeInv, NodeTypeOK, TasksOnTime, SeenSinceAsked
<1> QED
  BY <1>1, <1>2 DEF End1HzTasks

LEMMA NodeInv_tick ==
  ASSUME NodeInv, SystemTick
  PROVE  NodeInv'
<1>1. /\ now \in Times /\ currentTime \in Times /\ lastInvocation \in Times
      /\ NodeRestartAt \in Times
  BY DEF NodeInv, NodeTypeOK
<1>2. /\ now' = (now + 1) % SYSTIME_WRAP
      /\ UNCHANGED <<canNode, currentTime, lastInvocation, NodeRestartAt>>
      /\ TimeElapsedSince(lastInvocation) < PERIOD
  BY DEF SystemTick
<1> DEFINE TickAfter(n) == IF n + 1 = SYSTIME_WRAP THEN 0 ELSE n + 1
<1>3. AskedAt(NodeRestartAt) \in Times
  BY <1>1, AskedIs
<1>4. now' \in Times
  BY <1>1, <1>2, ElapsedTicks
<1>5. /\ TimeElapsedSince(lastInvocation)' = TickAfter(TimeElapsedSince(lastInvocation))
      /\ TimeElapsedSince(currentTime)' = TickAfter(TimeElapsedSince(currentTime))
      /\ TimeElapsedSince(AskedAt(NodeRestartAt))' = TickAfter(TimeElapsedSince(AskedAt(NodeRestartAt)))
  <2>1. \A t \in Times : (now' + SYSTIME_WRAP - t) % SYSTIME_WRAP = TickAfter(TimeElapsedSince(t))
    BY <1>1, <1>2, ElapsedTicks
  <2>2. /\ TimeElapsedSince(lastInvocation)' = (now' + SYSTIME_WRAP - lastInvocation) % SYSTIME_WRAP
        /\ TimeElapsedSince(currentTime)' = (now' + SYSTIME_WRAP - currentTime) % SYSTIME_WRAP
        /\ TimeElapsedSince(AskedAt(NodeRestartAt))'
             = (now' + SYSTIME_WRAP - AskedAt(NodeRestartAt)) % SYSTIME_WRAP
    BY <1>2 DEF TimeElapsedSince, AskedAt
  <2> HIDE DEF TickAfter
  <2> QED
    BY <1>1, <1>3, <2>1, <2>2
<1>6. /\ TimeElapsedSince(lastInvocation) \in Nat
      /\ TimeElapsedSince(currentTime) \in Nat
      /\ TimeElapsedSince(AskedAt(NodeRestartAt)) \in Nat
  BY <1>1, <1>3, ElapsedIs, NodeNumbers DEF Times
<1>7. TasksOnTime'
  BY <1>2, <1>5, <1>6, NodeNumbers DEF NodeInv, TasksOnTime
<1>8. SeenSinceAsked'
  BY <1>2, <1>5, <1>6, NodeNumbers DEF NodeInv, SeenSinceAsked
<1> QED
  BY <1>1, <1>2, <1>4, <1>7, <1>8 DEF NodeInv, NodeTypeOK

LEMMA NodeInv_step == NodeInv /\ [NodeNext]_nodeVars => NodeInv'
<1> SUFFICES ASSUME NodeInv, [NodeNext]_nodeVars PROVE NodeInv'
  OBVIOUS
<1>1. CASE onGetNodeInfo \/ broadcast_node_status \/ run_app_tick \/ processTx \/ MainDone
           \/ FastTasksThread \/ FrameSent \/ BusChanges
  BY <1>1, NodeInv_other
     DEF onGetNodeInfo, broadcast_node_status, run_app_tick, processTx, MainDone,
         FastTasksThread, FrameSent, BusChanges
<1>2. CASE onRestartNode
  BY <1>2, NodeInv_request, NodeInv_other DEF onRestartNode
<1>3. CASE onBeginFirmwareUpdate
  BY <1>3, NodeInv_request, NodeInv_other DEF onBeginFirmwareUpdate
<1>4. CASE Begin1HzTasks
  BY <1>4, NodeInv_begin
<1>5. CASE End1HzTasks
  BY <1>5, NodeInv_end
<1>6. CASE SystemTick
  BY <1>6, NodeInv_tick
<1>7. CASE WatchdogReset
  BY <1>7, NodeInv_reset DEF WatchdogReset
<1>8. CASE UNCHANGED nodeVars
  BY <1>8, NodeInv_other DEF nodeVars
<1> QED
  BY <1>1, <1>2, <1>3, <1>4, <1>5, <1>6, <1>7, <1>8 DEF NodeNext, CanNodeThread

(* In every state of a node the tasks run on time and a pending restart    *)
(* was overlooked by none that should have seen it (CanNodeThread).        *)
THEOREM NodeInvariant == NodeSteps => []NodeInv
<1>1. NodeInit => NodeInv
  <2>1. (0 + SYSTIME_WRAP - 0) % SYSTIME_WRAP = 0
    BY WrapsOnce, NodeNumbers
  <2> QED
    BY <2>1, NodeNumbers DEF NodeInit, AfterReset, NodeInv, NodeTypeOK, TasksOnTime,
       SeenSinceAsked, TimeElapsedSince, Times
<1> QED
  BY <1>1, NodeInv_step, PTL DEF NodeSteps

(* A promised restart pends at most a second and a run of the 1 Hz tasks   *)
(* (requestNodeRestart, CanNodeThread).                                    *)
THEOREM RestartNeverLate == NodeSteps => []RestartIsPrompt
<1>1. NodeInv => RestartIsPrompt
  <2> SUFFICES ASSUME NodeInv, NodeRestartAt \in 1 .. SYSTIME_WRAP - PERIOD - 1
               PROVE  TimeElapsedSince(AskedAt(NodeRestartAt)) <= SYSTIME_SECOND + PERIOD
    BY DEF RestartIsPrompt, AskedAt
  <2>1. /\ now \in Times /\ lastInvocation \in Times /\ AskedAt(NodeRestartAt) \in Times
    BY AskedIs DEF NodeInv, NodeTypeOK
  <2>2. TimeElapsedSince(lastInvocation) \in Nat /\ TimeElapsedSince(AskedAt(NodeRestartAt)) \in Nat
    BY <2>1, ElapsedIs, NodeNumbers DEF Times
  <2> QED
    BY <2>2, NodeNumbers DEF NodeInv, TasksOnTime, SeenSinceAsked
<1> QED
  BY <1>1, NodeInvariant, PTL

-----------------------------------------------------------------------------
(* The composition: in Programs every part does what its own specification *)
(* says, so what is proved of a part holds of the whole.                   *)

(* Every part of Programs keeps to its specification. *)
THEOREM ProgramsKeepTheirSpec ==
  ProgramsSpec => NodeSteps /\ BathroomSpec /\ HallwaySpec /\ AlarmSpec /\ Spec
<1>1. ProgramsInit => NodeInit /\ BathroomInit /\ HallwayInit /\ AlarmInit /\ Init
  BY DEF ProgramsInit
<1>2. [ProgramsNext]_programVars =>
        /\ [NodeNext]_nodeVars /\ [BathroomNext]_bathroomVars /\ [HallwayNext]_hallwayVars
        /\ [AlarmNext]_alarmVars /\ [Next]_vars
  BY DEF ProgramsNext, programVars
<1> QED
  BY <1>1, <1>2, PTL DEF ProgramsSpec, NodeSteps, BathroomSpec, HallwaySpec, AlarmSpec, Spec

=============================================================================
