---------------------------- MODULE HallwayLight ----------------------------
(***************************************************************************)
(* The lamps of the hallway (hallway_light.c): the brightness wanted by    *)
(* daylight, hour and motion, and the animations that lead there.  A fade  *)
(* changes the lamps one after the other in a random order; it is turned   *)
(* back when another brightness is wanted before its end.  Constant light  *)
(* is made to swing a little (play).                                       *)
(***************************************************************************)
EXTENDS Integers

CONSTANTS
  HALLWAY_LIGHTS,          \* number of lamps (5)
  FADE_LENGTH,             \* ticks (600)
  PLAY_LENGTH,             \* ticks (1024)
  DUSK,                    \* motion brightness at dusk and in the evening (20000)
  EVENING,                 \* (500)
  NIGHT_MOTION, NIGHT      \* (2500 and 70)

Offset == FADE_LENGTH \div (HALLWAY_LIGHTS + 1)
Lamps == 0 .. HALLWAY_LIGHTS - 1

ASSUME HallwayAssumption ==
  /\ HALLWAY_LIGHTS \in Nat \ {0} /\ FADE_LENGTH \in Nat /\ Offset > 0
  /\ PLAY_LENGTH \in Nat /\ PLAY_LENGTH >= 2
  /\ DUSK \in Nat /\ {EVENING, NIGHT_MOTION, NIGHT} \subseteq 0 .. DUSK

VARIABLES
  lamp,                    \* duty cycles
  hallway_brightness,
  hallway_animation,       \* "NONE", "FADE", "PLAY"
  animation                \* [from, to, counter, lights_index]

hallwayVars == <<lamp, hallway_brightness, hallway_animation, animation>>

Orders == {f \in [Lamps -> Lamps] : \A i, j \in Lamps : f[i] = f[j] => i = j}

(* app_init: 10 %. *)
HallwayInit ==
  /\ lamp = [i \in Lamps |-> EVENING]
  /\ hallway_brightness = 0 /\ hallway_animation = "NONE"
  /\ animation = [from |-> 0, to |-> 0, counter |-> 0, lights_index |-> [i \in Lamps |-> i]]

(* brightness < 2: dark, in the evening or at night; < 5: dusk. *)
Wanted(light, motion) ==
  CASE light = "evening" -> IF motion THEN DUSK ELSE EVENING
    [] light = "night"   -> IF motion THEN NIGHT_MOTION ELSE NIGHT
    [] light = "dusk"    -> IF motion THEN DUSK ELSE 0
    [] light = "day"     -> 0

(* Integer division of C, toward zero. *)
Quotient(a, b) == IF a < 0 THEN -((-a) \div b) ELSE a \div b

(* Variant: no regard to a lamp whose turn has not come. *)
get_fade_val_early(step, from, to, length) ==
  IF step > length THEN to ELSE from + Quotient((to - from) * step, length)

get_fade_val(step, from, to, length) ==
  CASE step < 0      -> from
    [] step > length -> to
    [] OTHER         -> from + Quotient((to - from) * step, length)

(* The lamp at place i of the order. *)
fadeOf(a, i) ==
  get_fade_val(a.counter - Offset * i, a.from, a.to, FADE_LENGTH - HALLWAY_LIGHTS * Offset)

playOf(a, i) ==
  LET high == (a.from * 14) \div 10
      low  == (a.from * 6) \div 10
      up   == (i % 2 > 0) # (a.counter >= PLAY_LENGTH \div 2)
  IN  IF i = 2 THEN a.from
      ELSE get_fade_val(a.counter % (PLAY_LENGTH \div 2),
                        IF up THEN low ELSE high, IF up THEN high ELSE low, PLAY_LENGTH \div 2)

fading(from, to, order) == [from |-> from, to |-> to, counter |-> 0, lights_index |-> order]

reverse(a) == [a EXCEPT !.counter = FADE_LENGTH - @, !.from = a.to, !.to = a.from]

playing(from) ==
  [animation EXCEPT !.from = from, !.counter = PLAY_LENGTH \div 4,
                    !.lights_index = [i \in Lamps |-> i]]

Placed(kind, a) ==
  [l \in Lamps |->
     LET i == CHOOSE j \in Lamps : a.lights_index[j] = l
     IN  IF kind = "FADE" THEN fadeOf(a, i) ELSE playOf(a, i)]

(* Variant: at its end a fade begins again, as the play does. *)
Animate_endless(kind, a) ==
  IF kind = "FADE"
  THEN /\ lamp' = Placed("FADE", a) /\ hallway_animation' = "FADE"
       /\ animation' = [a EXCEPT !.counter = (@ + 1) % FADE_LENGTH]
  ELSE /\ lamp' = Placed("PLAY", a) /\ hallway_animation' = "PLAY"
       /\ animation' = [a EXCEPT !.counter = (@ + 1) % PLAY_LENGTH]

Animate(kind, a) ==
  CASE kind = "FADE" /\ a.counter < FADE_LENGTH ->
         /\ lamp' = Placed("FADE", a) /\ hallway_animation' = "FADE"
         /\ animation' = [a EXCEPT !.counter = @ + 1]
    [] kind = "FADE" /\ a.counter >= FADE_LENGTH ->
         /\ hallway_animation' = "NONE" /\ animation' = a
         /\ UNCHANGED lamp
    [] kind = "PLAY" ->
         /\ lamp' = Placed("PLAY", a) /\ hallway_animation' = "PLAY"
         /\ animation' = [a EXCEPT !.counter = (@ + 1) % PLAY_LENGTH]

(* app_fast_tick, with HAS_LIGHT_CONTROL. *)
LightTick(light, motion) ==
  LET next == Wanted(light, motion) IN
  /\ hallway_brightness' = next
  /\ CASE next # hallway_brightness /\ hallway_animation = "FADE" ->
            Animate("FADE", reverse(animation))
       [] next # hallway_brightness /\ hallway_animation # "FADE" ->
            \E order \in Orders : Animate("FADE", fading(hallway_brightness, next, order))
       [] next = hallway_brightness /\ hallway_animation # "NONE" ->
            Animate(hallway_animation, animation)
       [] next = hallway_brightness /\ hallway_animation = "NONE" ->
            /\ lamp' = [l \in Lamps |-> next]
            /\ animation' = playing(next) /\ hallway_animation' = "PLAY"

HallwayTick ==
  \E light \in {"evening", "night", "dusk", "day"}, motion \in BOOLEAN : LightTick(light, motion)

HallwayNext == HallwayTick

HallwaySpec == HallwayInit /\ [][HallwayNext]_hallwayVars

Swing(level) == (level * 6) \div 10 .. (level * 14) \div 10
Between(value, a, b) == (a <= value /\ value <= b) \/ (b <= value /\ value <= a)

(* No lamp flashes: in a fade each is between the brightness it comes from *)
(* and the one it leads to, whatever fade is turned back at whatever       *)
(* moment (a value past its ends would be a flash, below 0 the brightest   *)
(* of all in 16 bits), and in the play within the swing around the wanted  *)
(* brightness, whatever fade came before.                                  *)
NoFlash ==
  \A l \in Lamps :
    /\ hallway_animation = "FADE" => Between(lamp[l], animation.from, animation.to)
    /\ hallway_animation = "PLAY" => lamp[l] \in Swing(hallway_brightness)

(* A fade that was turned back leads to the brightness before the last one *)
(* and not to the wanted one; still, once nothing else is wanted any more, *)
(* the lamps come to swing around the wanted brightness.                   *)
LampsFollow ==
  \A v \in {0, DUSK, EVENING, NIGHT_MOTION, NIGHT} :
    <>[](hallway_brightness = v) => <>[](\A l \in Lamps : lamp[l] \in Swing(v))

=============================================================================
