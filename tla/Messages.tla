------------------------------- MODULE Messages -------------------------------
(***************************************************************************)
(* The messages of the house on the bus: the generated encoders and        *)
(* decoders (dsdl/homeautomation/*.c), which all go through a list of      *)
(* fields, and the senders that put the fields into the frame themselves   *)
(* (modules/bme280.c, viessmann_trimatik.c, sml.c, pump_receiver.c).       *)
(*                                                                         *)
(* A value is the sequence of its bits, the lowest first, in the width of  *)
(* the C type; a list of fields stands for the four functions of the       *)
(* message.                                                                *)
(***************************************************************************)
EXTENDS Integers, SequencesExt

CONSTANTS
  Patterns,                \* of values: subset of 1 .. 8
  Items                    \* numbers of array items: subset of 0 .. 7

ASSUME MessagesAssumption == Patterns \subseteq 1 .. 8 /\ Items \subseteq 0 .. 7

VARIABLES
  sender,                  \* [kind, byHand, length, fill]: length says that the length of
                           \* an array is sent, fill is in the bits that nobody writes
  source,                  \* values of the fields, then of the array items
  frame,                   \* bits, filled up to bytes
  received                 \* <<>>, or what the decoder returned: <<values>>, <<Error>>

messageVars == <<sender, source, frame, received>>

Field(bits, storage, signed) == [bits |-> bits, storage |-> storage, signed |-> signed]
Unsigned(bits, storage) == Field(bits, storage, FALSE)
Signed(bits, storage) == Field(bits, storage, TRUE)
Bool == Unsigned(1, 1)
Array(n, field) == [i \in 1 .. n |-> field]

Environment == <<Bool, Bool, Signed(19, 32), Unsigned(17, 32), Unsigned(18, 32)>>
HeaterStatus == Array(4, Signed(15, 16)) \o Array(3, Bool)
BathroomStatus == <<Unsigned(3, 8)>> \o Array(4, Bool)
BoilerStatus == <<Unsigned(8, 8), Signed(19, 32), Unsigned(3, 8)>>
Obis == Array(3, Unsigned(8, 8)) \o <<Unsigned(8, 8), Signed(64, 64)>>
Time == <<Unsigned(56, 64), Bool>>
Motion == <<Bool>>
Meter == <<Unsigned(64, 64)>>
GreywaterPumpStatus == <<Unsigned(8, 8)>>
WaterRefillStatus == <<Unsigned(8, 8), Unsigned(32, 32), Unsigned(16, 16)>>
ConductionSensor == Array(8, Bool)           \* and an array of qualities
EventCount == <<>>                           \* and an array of counts

Fields ==
  [Environment |-> Environment, HeaterStatus |-> HeaterStatus,
   BathroomStatus |-> BathroomStatus, BoilerStatus |-> BoilerStatus, Obis |-> Obis,
   Time |-> Time, Motion |-> Motion, Meter |-> Meter,
   GreywaterPumpStatus |-> GreywaterPumpStatus, WaterRefillStatus |-> WaterRefillStatus,
   ConductionSensor |-> ConductionSensor, EventCount |-> EventCount]

ArrayItem == [ConductionSensor |-> Unsigned(8, 8), EventCount |-> Unsigned(32, 32)]
LENGTH_BITS == 3

hasArray(kind) == kind \in DOMAIN ArrayItem

(* Sent by hand: the two flags of the Environment are one scalar. *)
EnvironmentByHand == <<Unsigned(2, 8), Signed(19, 32), Unsigned(17, 32), Unsigned(18, 32)>>

ByHand ==
  [kind \in {"Environment", "HeaterStatus", "Obis", "GreywaterPumpStatus"} |->
     IF kind = "Environment" THEN EnvironmentByHand ELSE Fields[kind]]

(* CANARD_INTERNAL_SATURATE and _UNSIGNED. *)
Ones(n) == [i \in 1 .. n |-> 1]
Low(v, n) == [i \in 1 .. n |-> v[i]]

SaturateUnsigned(v, n) == IF \E i \in n + 1 .. Len(v) : v[i] = 1 THEN Ones(n) ELSE Low(v, n)

SaturateSigned(v, n) ==
  LET negative == v[Len(v)] = 1
      beyond   == \E i \in n .. Len(v) : v[i] # v[Len(v)]
      smallest == \A i \in 1 .. n - 1 : v[i] = 0
  IN  CASE ~negative /\ beyond -> [i \in 1 .. n |-> IF i < n THEN 1 ELSE 0]
        [] negative /\ (beyond \/ smallest) -> [i \in 1 .. n |-> IF i \in {1, n} THEN 1 ELSE 0]
        [] OTHER -> Low(v, n)

Saturate(field, v) ==
  IF field.bits = field.storage THEN v
  ELSE IF field.signed THEN SaturateSigned(v, field.bits) ELSE SaturateUnsigned(v, field.bits)

(* canardEncodeScalar and canardDecodeScalar: the bytes of a scalar follow *)
(* each other from the lowest, each with its highest bit first.            *)
onWire(i, bits) ==
  LET byte == (i - 1) \div 8
      size == IF bits - 8 * byte < 8 THEN bits - 8 * byte ELSE 8
  IN  8 * byte + size - ((i - 1) % 8)

(* Variant: negative numbers are not extended. *)
Extend_not(field, v) ==
  [i \in 1 .. field.storage |-> IF i <= field.bits THEN v[i] ELSE 0]

Extend(field, v) ==
  [i \in 1 .. field.storage |->
     IF i <= field.bits THEN v[i] ELSE IF field.signed THEN v[field.bits] ELSE 0]

ScalarAt(bits, offset, field) ==
  LET v == [i \in 1 .. field.bits |-> bits[offset + onWire(i, field.bits)]]
  IN  Extend(field, v)

(* Where each field begins; the last offset is where the message ends.     *)
offsets(fields) ==
  LET offset[i \in 1 .. Len(fields) + 1] ==
        IF i = 1 THEN 0 ELSE offset[i - 1] + fields[i - 1].bits
  IN  offset

end(fields) == offsets(fields)[Len(fields) + 1]

fieldAt(fields, bit) ==
  CHOOSE i \in DOMAIN fields : offsets(fields)[i] < bit /\ bit <= offsets(fields)[i + 1]

(* The bits of a frame, in whole bytes.  Its buffer is on the stack, and   *)
(* not cleared.                                                            *)
Encoded(fields, values, fill) ==
  LET offset == offsets(fields)
  IN  [bit \in 1 .. 8 * ((end(fields) + 7) \div 8) |->
         IF bit > end(fields) THEN fill
         ELSE LET i == fieldAt(fields, bit)
              IN  values[i][onWire(bit - offset[i], fields[i].bits)]]

(* The fields of what is sent, with n array items; the generated encoders  *)
(* take each value to the range of its field.  The array of the outermost  *)
(* message goes without its length.                                        *)
LengthField == Unsigned(LENGTH_BITS, LENGTH_BITS)
lengthBits(n) == <<n % 2, (n \div 2) % 2, (n \div 4) % 2>>

valueFields(kind, byHand, n) ==
  IF byHand THEN ByHand[kind]
  ELSE IF hasArray(kind) THEN Fields[kind] \o Array(n, ArrayItem[kind]) ELSE Fields[kind]

encode(s, values) ==
  LET fixed  == Len(Fields[s.kind])
      n      == Len(values) - fixed
      fields == valueFields(s.kind, s.byHand, n)
      sent   == IF s.byHand THEN values
                ELSE [i \in DOMAIN values |-> Saturate(fields[i], values[i])]
  IN  IF s.length
      THEN Encoded(InsertAt(fields, fixed + 1, LengthField),
                   InsertAt(sent, fixed + 1, lengthBits(n)), s.fill)
      ELSE Encoded(fields, sent, s.fill)

(* The decoders.  A field the frame does not hold is an error.             *)
Error == <<<<>>, <<>>>>    \* no values, which all have bits

decodeFields(fields, bits) ==
  IF end(fields) > Len(bits) THEN Error
  ELSE [i \in DOMAIN fields |-> ScalarAt(bits, offsets(fields)[i], fields[i])]

NumberAt(bits, offset) ==
  LET v == ScalarAt(bits, offset, LengthField)
  IN  v[1] + 2 * v[2] + 4 * v[3]

(* With the length in the frame, and if that is an error once more with    *)
(* the length from that of the frame (tail array optimization).            *)
decodeWithLength(fields, item, bits) ==
  IF end(fields) + LENGTH_BITS > Len(bits) THEN Error
  ELSE decodeFields(fields \o <<LengthField>> \o Array(NumberAt(bits, end(fields)), item), bits)

decodeTail(fields, item, bits) ==
  IF bits = <<>> \/ end(fields) > Len(bits) THEN Error
  ELSE decodeFields(fields \o Array((Len(bits) - end(fields)) \div item.bits, item), bits)

decode(kind, bits) ==
  LET fields == Fields[kind]
      first  == decodeWithLength(fields, ArrayItem[kind], bits)
  IN  IF ~hasArray(kind) THEN decodeFields(fields, bits)
      ELSE IF first # Error THEN RemoveAt(first, Len(fields) + 1)
      ELSE decodeTail(fields, ArrayItem[kind], bits)

(* Values at the ends of the range of the field, within that of its type.  *)
Pattern(p, field) ==
  LET b == field.bits
  IN  [i \in 1 .. field.storage |->
         CASE p = 1 -> 0
           [] p = 2 -> IF i = 1 THEN 1 ELSE 0
           [] p = 3 -> 1
           [] p = 4 -> IF i < b THEN 1 ELSE 0
           [] p = 5 -> IF i = b THEN 1 ELSE 0
           [] p = 6 -> IF i = b + 1 THEN 1 ELSE 0
           [] p = 7 -> IF i >= b THEN 1 ELSE 0
           [] p = 8 -> IF i # b THEN 1 ELSE 0]

Sources(fields) ==
  {[i \in DOMAIN fields |-> Pattern(IF i <= k THEN p ELSE q, fields[i])] :
     k \in DOMAIN fields, p, q \in Patterns}
  \cup (IF fields = <<>> THEN {<<>>} ELSE {})

(* By hand the values go as they are, of the Environment with both flags.  *)
SourcesByHand(kind) ==
  IF kind = "Environment"
  THEN {<<[i \in 1 .. 8 |-> IF i <= 2 THEN 1 ELSE 0]>> \o v : v \in Sources(Tail(ByHand[kind]))}
  ELSE Sources(ByHand[kind])

MessagesInit ==
  sender = <<>> /\ source = <<>> /\ frame = <<>> /\ received = <<>>

Send ==
  /\ received = <<>> /\ frame = <<>>
  /\ \E kind \in DOMAIN Fields, byHand, length \in BOOLEAN, fill \in {0, 1}, n \in Items :
       /\ byHand => kind \in DOMAIN ByHand
       /\ hasArray(kind) \/ (~length /\ n = 0)
       /\ sender' = [kind |-> kind, byHand |-> byHand, length |-> length, fill |-> fill]
       /\ source' \in IF byHand THEN SourcesByHand(kind)
                      ELSE Sources(valueFields(kind, byHand, n))
       /\ frame' = encode(sender', source')
  /\ UNCHANGED received

Receive ==
  /\ frame # <<>> /\ received = <<>>
  /\ \E bytes \in {Len(frame) \div 8, (Len(frame) \div 8) - 1} :
       /\ frame' = SubSeq(frame, 1, 8 * bytes)
       /\ received' = <<decode(sender.kind, frame')>>
  /\ UNCHANGED <<sender, source>>

NextMessage ==
  /\ received # <<>>
  /\ sender' = <<>> /\ source' = <<>> /\ frame' = <<>> /\ received' = <<>>

MessagesNext == Send \/ Receive \/ NextMessage

MessagesSpec == MessagesInit /\ [][MessagesNext]_messageVars

(* What a field can say, and the value of it that is nearest to v: the     *)
(* range of a signed field is as long below zero as above.                 *)
inRange(field, v) ==
  \A i \in field.bits + 1 .. field.storage : v[i] = IF field.signed THEN v[field.bits] ELSE 0

Nearest(field, v) ==
  LET b        == field.bits
      negative == field.signed /\ v[field.storage] = 1
      lowest   == inRange(field, v) /\ \A i \in 1 .. b - 1 : v[i] = 0
  IN  CASE b = field.storage -> v
        [] b # field.storage /\ negative /\ (lowest \/ ~inRange(field, v)) ->
             [i \in 1 .. field.storage |-> IF i = 1 \/ i >= b THEN 1 ELSE 0]
        [] b # field.storage /\ ~negative /\ ~inRange(field, v) ->
             [i \in 1 .. field.storage |-> IF i < b \/ (i = b /\ ~field.signed) THEN 1 ELSE 0]
        [] OTHER -> v

(* From a generated encoder: each value as the nearest its field can say.  *)
Generated(got) ==
  LET fields == valueFields(sender.kind, FALSE, Len(source) - Len(Fields[sender.kind]))
  IN  got = [i \in DOMAIN source |-> Nearest(fields[i], source[i])]

(* From a frame filled in by hand: both flags, and each value in range.    *)
FilledByHand(got) ==
  LET more == IF sender.kind = "Environment" THEN 1 ELSE 0
  IN  /\ DOMAIN got = 1 .. Len(source) + more
      /\ more = 1 => got[1] = <<1>> /\ got[2] = <<1>>
      /\ \A i \in DOMAIN source :
           i > more /\ inRange(ByHand[sender.kind][i], source[i]) => got[i + more] = source[i]

(* A message comes out of the receiver's decoder as it went into the       *)
(* sender's encoder, or into the frame by hand, and one that is too short  *)
(* is an error.  An array without its length, or shortened, is left out:   *)
(* the decoder first takes its first bits for the length.                  *)
RoundTrip ==
  received # <<>> =>
    LET got   == received[1]
        whole == Len(frame) = Len(encode(sender, source))
    IN  IF hasArray(sender.kind) THEN whole /\ sender.length => Generated(got)
        ELSE IF ~whole THEN got = Error
        ELSE IF sender.byHand THEN FilledByHand(got) ELSE Generated(got)

=============================================================================
