--------------------------- MODULE Messages_proofs ---------------------------
(***************************************************************************)
(* A message comes out as it went in, for all values that a sender puts    *)
(* in, all numbers of array items, and whatever is in the bits nobody      *)
(* writes.                                                                 *)
(*                                                                         *)
(* What is shown of a list of fields holds for every list: fields begin    *)
(* where the ones before end, so a bit of the frame belongs to one field,  *)
(* and the decoder finds there what the encoder put there.  The offsets    *)
(* are recursive; what holds of all of them is shown by a least            *)
(* counterexample.                                                         *)
(***************************************************************************)
EXTENDS Messages, WellFoundedInduction, TLAPS

Bits == {0, 1}

FieldTypes ==
  {f \in [bits : 1 .. 64, storage : 1 .. 64, signed : BOOLEAN] : f.bits <= f.storage}

(* How long the fields are on the wire. *)
widths(fields) == [i \in DOMAIN fields |-> fields[i].bits]

(* How long their message is. *)
bytesOf(fields) == (end(fields) + 7) \div 8

(* One value for each field. *)
Fit(fields, values) ==
  /\ DOMAIN values = DOMAIN fields
  /\ \A i \in DOMAIN fields : DOMAIN values[i] = 1 .. fields[i].storage

-----------------------------------------------------------------------------
(* Where the fields are *)

(* A set of numbers has a least one: what is left of induction without a   *)
(* rule that has a predicate as a parameter.                               *)
LEMMA Least ==
  ASSUME NEW T \in SUBSET Nat, T # {}
  PROVE  \E n \in T : \A m \in T : n <= m
<1>1. PICK n \in T : \A m \in T : ~(<<m, n>> \in OpToRel(<, Nat))
  BY NatLessThanWellFounded, WFMin
<1>2. \A m \in T : ~(m < n)
  BY <1>1 DEF OpToRel
<1> QED
  BY <1>2

(* The offsets of the first n fields. *)
Begin(fields, n, o) ==
  /\ DOMAIN o = 1 .. n /\ (n >= 1 => o[1] = 0)
  /\ \A i \in 1 .. n : i > 1 => o[i] = o[i - 1] + fields[i - 1].bits

(* They exist, for any number of fields. *)
LEMMA OffsetsExist ==
  ASSUME NEW fields \in Seq(FieldTypes), NEW n \in 0 .. Len(fields) + 1
  PROVE  \E o : Begin(fields, n, o)
<1> DEFINE T == {i \in 0 .. Len(fields) + 1 : ~\E o : Begin(fields, i, o)}
<1> SUFFICES ASSUME T # {} PROVE FALSE
  OBVIOUS
<1>1. PICK i \in T : \A j \in T : i <= j
  <2>1. T \in SUBSET Nat
    OBVIOUS
  <2> HIDE DEF T
  <2> QED
    BY <2>1, Least
<1>2. i # 0
  <2>1. Begin(fields, 0, [j \in 1 .. 0 |-> 0])
    BY DEF Begin
  <2> QED
    BY <1>1, <2>1
<1>3. i # 1
  <2>1. Begin(fields, 1, [j \in 1 .. 1 |-> 0])
    BY DEF Begin
  <2> QED
    BY <1>1, <2>1
<1>4. i - 1 \in 0 .. Len(fields) + 1 /\ i - 1 \notin T
  BY <1>1, <1>2
<1>5. PICK o : Begin(fields, i - 1, o)
  BY <1>4
<1> DEFINE p == [j \in 1 .. i |-> IF j < i THEN o[j] ELSE o[i - 1] + fields[i - 1].bits]
<1>6. p[1] = 0
  BY <1>2, <1>3, <1>5 DEF Begin
<1>7. ASSUME NEW j \in 1 .. i, j > 1
      PROVE  p[j] = p[j - 1] + fields[j - 1].bits
  <2>1. CASE j = i
    BY <1>7, <2>1
  <2>2. CASE j # i
    <3>1. j \in 1 .. i - 1 /\ p[j] = o[j] /\ p[j - 1] = o[j - 1]
      BY <1>7, <2>2
    <3> QED
      BY <1>5, <1>7, <3>1 DEF Begin
  <2> QED
    BY <2>1, <2>2
<1>8. Begin(fields, i, p)
  BY <1>6, <1>7 DEF Begin
<1> QED
  BY <1>1, <1>8

(* Offsets o of n fields of lengths w. *)
Ladder(o, w, n) ==
  /\ n \in Nat /\ o[1] = 0
  /\ \A i \in 1 .. n : w[i] \in 1 .. 64 /\ o[i + 1] = o[i] + w[i]

(* The recursive function is what its definition says. *)
LEMMA OffsetsDefined ==
  ASSUME NEW fields \in Seq(FieldTypes)
  PROVE  Ladder(offsets(fields), widths(fields), Len(fields))
<1> DEFINE Def(o) == o = [i \in 1 .. Len(fields) + 1 |->
                            IF i = 1 THEN 0 ELSE o[i - 1] + fields[i - 1].bits]
<1>1. PICK o : Begin(fields, Len(fields) + 1, o)
  BY OffsetsExist
<1> DEFINE g == [i \in 1 .. Len(fields) + 1 |-> o[i]]
<1>2. Def(g)
  <2>1. ASSUME NEW i \in 1 .. Len(fields) + 1
        PROVE  g[i] = IF i = 1 THEN 0 ELSE g[i - 1] + fields[i - 1].bits
    BY <1>1 DEF Begin
  <2> QED
    BY <2>1
<1>3. Def(offsets(fields))
  <2>1. offsets(fields) = CHOOSE f : Def(f)
    BY DEF offsets
  <2> HIDE DEF Def
  <2> QED
    BY <1>2, <2>1
<1>4. ASSUME NEW i \in 1 .. Len(fields)
      PROVE  offsets(fields)[i + 1] = offsets(fields)[i] + widths(fields)[i]
  <2>1. i + 1 \in 1 .. Len(fields) + 1 /\ i + 1 # 1 /\ (i + 1) - 1 = i
    OBVIOUS
  <2>2. offsets(fields)[i + 1] = offsets(fields)[i] + fields[i].bits
    BY <1>3, <2>1
  <2>3. widths(fields)[i] = fields[i].bits
    BY DEF widths
  <2> QED
    BY <2>2, <2>3
<1>5. ASSUME NEW i \in 1 .. Len(fields)
      PROVE  widths(fields)[i] \in 1 .. 64
  <2>1. fields[i] \in FieldTypes
    OBVIOUS
  <2>2. fields[i].bits \in 1 .. 64
    BY <2>1 DEF FieldTypes
  <2>3. widths(fields)[i] = fields[i].bits
    BY DEF widths
  <2> QED
    BY <2>2, <2>3
<1>6. Len(fields) \in Nat /\ offsets(fields)[1] = 0
  BY <1>3
<1> QED
  BY <1>4, <1>5, <1>6 DEF Ladder

(* Every offset is a number. *)
LEMMA OffsetsAreNumbers ==
  ASSUME NEW o, NEW w, NEW n, Ladder(o, w, n), NEW i \in 1 .. n + 1
  PROVE  o[i] \in Nat
<1> DEFINE T == {j \in 1 .. n + 1 : o[j] \notin Nat}
<1>1. n \in Nat
  BY DEF Ladder
<1> SUFFICES ASSUME T # {} PROVE FALSE
  OBVIOUS
<1>2. PICK j \in T : \A k \in T : j <= k
  <2>1. T \in SUBSET Nat
    BY <1>1
  <2> HIDE DEF T
  <2> QED
    BY <2>1, Least
<1>3. j # 1
  BY DEF Ladder
<1>4. j - 1 \in 1 .. n /\ j - 1 \notin T /\ (j - 1) + 1 = j
  BY <1>1, <1>2, <1>3
<1>5. o[j - 1] \in Nat /\ w[j - 1] \in 1 .. 64 /\ o[j] = o[j - 1] + w[j - 1]
  BY <1>4 DEF Ladder
<1> QED
  BY <1>5

(* A field ends before any later one begins. *)
LEMMA LaterOffset ==
  ASSUME NEW o, NEW w, NEW n, Ladder(o, w, n), NEW i \in 1 .. n, NEW j \in i + 1 .. n + 1
  PROVE  o[i + 1] <= o[j]
<1> DEFINE T == {k \in i + 1 .. n + 1 : ~(o[i + 1] <= o[k])}
<1>1. n \in Nat
  BY DEF Ladder
<1> SUFFICES ASSUME T # {} PROVE FALSE
  OBVIOUS
<1>2. PICK k \in T : \A m \in T : k <= m
  <2>1. T \in SUBSET Nat
    BY <1>1
  <2> HIDE DEF T
  <2> QED
    BY <2>1, Least
<1>3. o[i + 1] \in Nat /\ o[k] \in Nat
  BY <1>1, OffsetsAreNumbers
<1>4. k # i + 1
  BY <1>3
<1>5. k - 1 \in 1 .. n /\ k - 1 \in i + 1 .. n + 1 /\ k - 1 \notin T /\ (k - 1) + 1 = k
  BY <1>1, <1>2, <1>4
<1>6. o[k - 1] \in Nat
  BY <1>1, <1>5, OffsetsAreNumbers
<1>7. o[k] = o[k - 1] + w[k - 1] /\ w[k - 1] \in 1 .. 64
  BY <1>5 DEF Ladder
<1> QED
  BY <1>3, <1>5, <1>6, <1>7

(* A bit of a field is in no other field. *)
LEMMA OneField ==
  ASSUME NEW o, NEW w, NEW n, Ladder(o, w, n), NEW i \in 1 .. n, NEW k \in 1 .. w[i]
  PROVE  /\ o[i] < o[i] + k /\ o[i] + k <= o[i + 1]
         /\ o[i] + k \in 1 .. o[n + 1]
         /\ \A j \in 1 .. n : o[j] < o[i] + k /\ o[i] + k <= o[j + 1] => j = i
<1>1. n \in Nat /\ \A j \in 1 .. n : w[j] \in 1 .. 64 /\ o[j + 1] = o[j] + w[j]
  BY DEF Ladder
<1>2. \A j \in 1 .. n + 1 : o[j] \in Nat
  BY OffsetsAreNumbers
<1>3. o[i] \in Nat /\ o[i + 1] \in Nat /\ o[i + 1] = o[i] + w[i] /\ w[i] \in 1 .. 64
  BY <1>1, <1>2
<1>4. o[i + 1] <= o[n + 1] /\ o[n + 1] \in Nat
  BY <1>1, <1>2, LaterOffset
<1>5. ASSUME NEW j \in 1 .. n, o[j] < o[i] + k, o[i] + k <= o[j + 1], j # i
      PROVE  FALSE
  <2>1. o[j] \in Nat /\ o[j + 1] \in Nat
    BY <1>1, <1>2
  <2>2. CASE j < i
    <3>1. i \in j + 1 .. n + 1
      BY <1>1, <2>2
    <3>2. o[j + 1] <= o[i]
      BY <3>1, LaterOffset
    <3> QED
      BY <1>3, <1>5, <2>1, <3>2
  <2>3. CASE i < j
    <3>1. o[i + 1] <= o[j]
      BY <1>1, <2>3, LaterOffset
    <3> QED
      BY <1>3, <1>5, <2>1, <3>1
  <2> QED
    BY <1>1, <1>5, <2>2, <2>3
<1> QED
  BY <1>3, <1>4, <1>5

(* Lists that begin alike have the same offsets there. *)
LEMMA SameOffsets ==
  ASSUME NEW o, NEW w, NEW n, Ladder(o, w, n), NEW p, NEW v, NEW m, Ladder(p, v, m),
         NEW k \in 1 .. n + 1, k <= m + 1, \A i \in 1 .. k - 1 : w[i] = v[i]
  PROVE  o[k] = p[k]
<1> DEFINE T == {i \in 1 .. k : o[i] # p[i]}
<1>1. n \in Nat /\ m \in Nat
  BY DEF Ladder
<1> SUFFICES ASSUME T # {} PROVE FALSE
  BY <1>1
<1>2. PICK i \in T : \A j \in T : i <= j
  <2>1. T \in SUBSET Nat
    BY <1>1
  <2> HIDE DEF T
  <2> QED
    BY <2>1, Least
<1>3. i # 1
  BY DEF Ladder
<1>4. /\ i - 1 \in 1 .. n /\ i - 1 \in 1 .. m /\ i - 1 \in 1 .. k - 1
      /\ i - 1 \notin T /\ (i - 1) + 1 = i
  BY <1>1, <1>2, <1>3
<1>5. o[i] = o[i - 1] + w[i - 1] /\ p[i] = p[i - 1] + v[i - 1]
  BY <1>4 DEF Ladder
<1> QED
  BY <1>4, <1>5

-----------------------------------------------------------------------------
(* A scalar is decoded as it was encoded *)

(* The order on the wire is its own inverse. *)
LEMMA OnWire ==
  ASSUME NEW n \in 1 .. 64, NEW i \in 1 .. n
  PROVE  /\ onWire(i, n) \in 1 .. n
         /\ onWire(onWire(i, n), n) = i
<1> DEFINE byte == (i - 1) \div 8
           rest == (i - 1) % 8
           size == IF n - 8 * byte < 8 THEN n - 8 * byte ELSE 8
<1>1. byte \in Nat /\ rest \in 0 .. 7 /\ i - 1 = 8 * byte + rest
  OBVIOUS
<1>2. size \in rest + 1 .. 8 /\ 8 * byte + size <= n
  BY <1>1
<1>3. onWire(i, n) = 8 * byte + (size - rest)
  BY <1>1 DEF onWire
<1> DEFINE w == onWire(i, n)
<1>4. (w - 1) \div 8 = byte /\ (w - 1) % 8 = (size - rest) - 1
  <2>1. w - 1 = 8 * byte + ((size - rest) - 1) /\ (size - rest) - 1 \in 0 .. 7
    BY <1>1, <1>2, <1>3
  <2> HIDE DEF byte, size, rest, w
  <2> QED
    BY <1>1, <2>1
<1>5. onWire(w, n) = 8 * byte + size - ((size - rest) - 1)
  BY <1>4 DEF onWire
<1> HIDE DEF byte, size, rest
<1> QED
  BY <1>1, <1>2, <1>3, <1>5

(* The bits of a field are those of its value. *)
LEMMA EncodedBit ==
  ASSUME NEW fields \in Seq(FieldTypes), NEW values, NEW fill,
         NEW i \in 1 .. Len(fields), NEW k \in 1 .. widths(fields)[i]
  PROVE  /\ offsets(fields)[i] + k \in DOMAIN Encoded(fields, values, fill)
         /\ Encoded(fields, values, fill)[offsets(fields)[i] + k]
              = values[i][onWire(k, fields[i].bits)]
<1> DEFINE o == offsets(fields)
           n == Len(fields)
           bit == o[i] + k
           bytes == (end(fields) + 7) \div 8
<1>1. Ladder(o, widths(fields), n)
  BY OffsetsDefined
<1>2. end(fields) = o[n + 1] /\ DOMAIN fields = 1 .. n /\ n \in Nat
  BY DEF end
<1>3. fieldAt(fields, bit) = i
  <2> DEFINE Holds(j) == o[j] < bit /\ bit <= o[j + 1]
  <2>1. Holds(i) /\ \A j \in 1 .. n : Holds(j) => j = i
    <3>1. i \in 1 .. n /\ k \in 1 .. widths(fields)[i]
      OBVIOUS
    <3> HIDE DEF o, n
    <3> QED
      BY <1>1, <3>1, OneField
  <2>2. fieldAt(fields, bit) = CHOOSE j \in DOMAIN fields : Holds(j)
    BY DEF fieldAt
  <2> HIDE DEF Holds, o, n, bit
  <2> QED
    BY <1>2, <2>1, <2>2 DEF n
<1>4. bit \in 1 .. o[n + 1] /\ o[n + 1] \in Nat
  <2> HIDE DEF o, n
  <2>1. n + 1 \in 1 .. n + 1
    BY <1>2
  <2> QED
    BY <1>1, <2>1, OneField, OffsetsAreNumbers DEF n
<1>5. bit \in 1 .. 8 * bytes /\ ~(bit > end(fields))
  <2> HIDE DEF bit, o, n
  <2> QED
    BY <1>2, <1>4
<1>6. bit - o[i] = k
  <2>1. o[i] \in Nat
    <3> HIDE DEF o, n
    <3>1. i \in 1 .. n + 1
      BY <1>2 DEF n
    <3> QED
      BY <1>1, <3>1, OffsetsAreNumbers
  <2>2. k \in Int
    OBVIOUS
  <2> HIDE DEF o
  <2> QED
    BY <2>1, <2>2
<1> DEFINE value(b) == values[fieldAt(fields, b)]
                         [onWire(b - o[fieldAt(fields, b)], fields[fieldAt(fields, b)].bits)]
<1>7. Encoded(fields, values, fill) =
        [b \in 1 .. 8 * bytes |-> IF b > end(fields) THEN fill ELSE value(b)]
  BY DEF Encoded
<1>8. value(bit) = values[i][onWire(k, fields[i].bits)]
  <2> HIDE DEF bit, o
  <2> QED
    BY <1>3, <1>6
<1> HIDE DEF bit, bytes, value
<1>9. /\ bit \in DOMAIN Encoded(fields, values, fill)
      /\ Encoded(fields, values, fill)[bit] = value(bit)
  BY <1>5, <1>7
<1> QED
  BY <1>8, <1>9 DEF bit

Elements(f, n) == {f[i] : i \in 1 .. n}

LEMMA FunctionIsSequence ==
  ASSUME NEW S, NEW n \in Nat, NEW f \in [1 .. n -> S]
  PROVE  f \in Seq(S) /\ Len(f) = n
OBVIOUS

LEMMA ASequence ==
  ASSUME NEW n \in Nat, NEW f, f = [i \in 1 .. n |-> f[i]]
  PROVE  f \in Seq(Elements(f, n)) /\ Len(f) = n /\ DOMAIN f = 1 .. n
<1> DEFINE S == Elements(f, n)
<1>1. \A i \in 1 .. n : f[i] \in S
  BY DEF Elements
<1> HIDE DEF S
<1>2. f \in [1 .. n -> S]
  BY <1>1
<1>3. f \in Seq(S)
  BY <1>2
<1>4. DOMAIN f = 1 .. n
  BY <1>2
<1>5. Len(f) = n
  BY <1>3, <1>4
<1> QED
  BY <1>3, <1>4, <1>5 DEF S

LEMMA EndIsANumber ==
  ASSUME NEW fields \in Seq(FieldTypes)
  PROVE  end(fields) \in Nat
<1>1. Len(fields) \in Nat /\ Len(fields) + 1 \in 1 .. Len(fields) + 1
  OBVIOUS
<1> QED
  BY <1>1, OffsetsDefined, OffsetsAreNumbers DEF end

LEMMA EncodedLength ==
  ASSUME NEW fields \in Seq(FieldTypes), NEW values, NEW fill
  PROVE  /\ bytesOf(fields) \in Nat /\ end(fields) <= 8 * bytesOf(fields)
         /\ \A m \in Nat : m < bytesOf(fields) => 8 * m < end(fields)
         /\ Len(Encoded(fields, values, fill)) = 8 * bytesOf(fields)
         /\ Encoded(fields, values, fill)
              \in Seq(Elements(Encoded(fields, values, fill), 8 * bytesOf(fields)))
<1> DEFINE bits == Encoded(fields, values, fill)
           bytes == bytesOf(fields)
<1>1. bytes \in Nat /\ end(fields) <= 8 * bytes /\ \A m \in Nat : m < bytes => 8 * m < end(fields)
  BY EndIsANumber DEF bytesOf
<1>2. bits = [i \in 1 .. 8 * bytes |-> bits[i]]
  BY DEF Encoded, bytesOf
<1> HIDE DEF bits, bytes
<1>3. 8 * bytes \in Nat
  BY <1>1
<1>4. bits \in Seq(Elements(bits, 8 * bytes)) /\ Len(bits) = 8 * bytes
  BY <1>2, <1>3, ASequence
<1> QED
  BY <1>1, <1>4 DEF bits, bytes

(* A scalar is read as it was written. *)
LEMMA ScalarRead ==
  ASSUME NEW field \in FieldTypes, NEW value, NEW bits, NEW offset,
         \A k \in 1 .. field.bits : bits[offset + k] = value[onWire(k, field.bits)]
  PROVE  ScalarAt(bits, offset, field) = Extend(field, value)
<1> DEFINE b == field.bits
           v == [k \in 1 .. b |-> bits[offset + onWire(k, b)]]
<1>1. b \in 1 .. 64
  BY DEF FieldTypes
<1>2. ASSUME NEW k \in 1 .. b
      PROVE  v[k] = value[k]
  <2>1. onWire(k, b) \in 1 .. b /\ onWire(onWire(k, b), b) = k
    BY <1>1, OnWire
  <2> QED
    BY <2>1
<1>3. ScalarAt(bits, offset, field) = Extend(field, v)
  BY DEF ScalarAt
<1>4. Extend(field, v) = Extend(field, value)
  <2>1. b \in 1 .. b
    BY <1>1
  <2> HIDE DEF v
  <2>2. v[field.bits] = value[field.bits]
    BY <1>2, <2>1
  <2>3. ASSUME NEW i \in 1 .. field.storage
        PROVE  (IF i <= field.bits THEN v[i] ELSE IF field.signed THEN v[field.bits] ELSE 0)
               = IF i <= field.bits THEN value[i]
                 ELSE IF field.signed THEN value[field.bits] ELSE 0
    <3>1. CASE i <= field.bits
      <4>1. i \in 1 .. b
        BY <1>1, <3>1 
      <4> QED
        BY <1>2, <3>1, <4>1
    <3>2. CASE ~(i <= field.bits)
      BY <2>2, <3>2
    <3> QED
      BY <3>1, <3>2
  <2> QED
    BY <2>3 DEF Extend
<1> QED
  BY <1>3, <1>4

(* A field of the message is read as it was written. *)
LEMMA FieldRead ==
  ASSUME NEW fields \in Seq(FieldTypes), NEW values, NEW fill, NEW i \in 1 .. Len(fields)
  PROVE  ScalarAt(Encoded(fields, values, fill), offsets(fields)[i], fields[i])
           = Extend(fields[i], values[i])
<1> DEFINE bits == Encoded(fields, values, fill)
<1>1. fields[i] \in FieldTypes
  OBVIOUS
<1>2. widths(fields)[i] = fields[i].bits
  BY DEF widths
<1>3. \A k \in 1 .. fields[i].bits :
        bits[offsets(fields)[i] + k] = values[i][onWire(k, fields[i].bits)]
  BY <1>2, EncodedBit
<1> HIDE DEF bits
<1>4. ScalarAt(bits, offsets(fields)[i], fields[i]) = Extend(fields[i], values[i])
  BY <1>1, <1>3, ScalarRead
<1> QED
  BY <1>4 DEF bits

(* All fields come out with the values they went in with, *)
LEMMA DecodeEncoded ==
  ASSUME NEW fields \in Seq(FieldTypes), NEW values, NEW fill
  PROVE  decodeFields(fields, Encoded(fields, values, fill))
           = [i \in DOMAIN fields |-> Extend(fields[i], values[i])]
<1> DEFINE bits == Encoded(fields, values, fill)
<1>1. end(fields) <= Len(bits) /\ Len(bits) \in Nat /\ end(fields) \in Nat
  <2>1. end(fields) \in Nat /\ bytesOf(fields) \in Nat /\ end(fields) <= 8 * bytesOf(fields)
    BY EncodedLength, EndIsANumber
  <2>2. Len(bits) = 8 * bytesOf(fields)
    BY EncodedLength
  <2> HIDE DEF bits
  <2> QED
    BY <2>1, <2>2
<1>2. \A i \in DOMAIN fields :
        ScalarAt(bits, offsets(fields)[i], fields[i]) = Extend(fields[i], values[i])
  <2>1. DOMAIN fields = 1 .. Len(fields)
    OBVIOUS
  <2> QED
    BY <2>1, FieldRead, Zenon
<1> HIDE DEF bits
<1>3. ~(end(fields) > Len(bits))
  BY <1>1
<1>4. decodeFields(fields, bits) = [i \in DOMAIN fields |-> Extend(fields[i], values[i])]
  BY <1>2, <1>3 DEF decodeFields
<1> QED
  BY <1>4 DEF bits

(* but none of a message that is too short. *)
LEMMA DecodeShort ==
  ASSUME NEW fields \in Seq(FieldTypes), NEW values, NEW fill, NEW bytes \in Nat,
         8 * bytes < Len(Encoded(fields, values, fill))
  PROVE  decodeFields(fields, SubSeq(Encoded(fields, values, fill), 1, 8 * bytes)) = Error
<1> DEFINE bits == Encoded(fields, values, fill)
           all == bytesOf(fields)
<1>1. /\ all \in Nat /\ Len(bits) = 8 * all /\ bits \in Seq(Elements(bits, 8 * all))
      /\ \A m \in Nat : m < all => 8 * m < end(fields)
  <2> HIDE DEF bits, all
  <2>1. /\ all \in Nat /\ \A m \in Nat : m < all => 8 * m < end(fields)
    BY EncodedLength DEF all
  <2>2. Len(bits) = 8 * all
    BY EncodedLength DEF all, bits
  <2>3. bits \in Seq(Elements(bits, 8 * all))
    BY EncodedLength, Zenon DEF all, bits
  <2> QED
    BY <2>1, <2>2, <2>3
<1> HIDE DEF bits, all
<1>2. bytes < all /\ end(fields) \in Nat
  BY <1>1, EndIsANumber DEF bits
<1>3. Len(SubSeq(bits, 1, 8 * bytes)) = 8 * bytes
  BY <1>1, <1>2
<1>4. end(fields) > Len(SubSeq(bits, 1, 8 * bytes))
  BY <1>1, <1>2, <1>3
<1> QED
  BY <1>4 DEF decodeFields, bits

-----------------------------------------------------------------------------
(* The receiver extends what the sender saturates *)

Values(field) == [1 .. field.storage -> Bits]

(* A field says exactly what is in its range. *)
LEMMA InRangeExtended ==
  ASSUME NEW field \in FieldTypes, NEW v \in Values(field), inRange(field, v)
  PROVE  Extend(field, v) = v
<1>1. ASSUME NEW i \in 1 .. field.storage
      PROVE  (IF i <= field.bits THEN v[i] ELSE IF field.signed THEN v[field.bits] ELSE 0) = v[i]
  <2>1. field.bits \in 1 .. 64 /\ field.storage \in 1 .. 64
    BY DEF FieldTypes
  <2>2. CASE ~(i <= field.bits)
    <3>1. i \in field.bits + 1 .. field.storage
      BY <2>1, <2>2
    <3> QED
      BY <2>2, <3>1 DEF inRange
  <2> QED
    BY <2>2
<1>2. v = [i \in 1 .. field.storage |-> v[i]]
  BY DEF Values
<1> QED
  BY <1>1, <1>2, Zenon DEF Extend

LEMMA Saturated ==
  ASSUME NEW field \in FieldTypes, NEW v \in Values(field)
  PROVE  Extend(field, Saturate(field, v)) = Nearest(field, v)
<1>1. PICK b \in 1 .. 64, s \in 1 .. 64, signed \in BOOLEAN :
        b = field.bits /\ s = field.storage /\ (signed <=> field.signed) /\ b <= s
  BY DEF FieldTypes
<1> DEFINE ext(u) == [i \in 1 .. s |-> IF i <= b THEN u[i] ELSE IF signed THEN u[b] ELSE 0]
           lowest == \A i \in 1 .. b - 1 : v[i] = 0
           fits == \A i \in b + 1 .. s : v[i] = IF signed THEN v[b] ELSE 0
           negative == v[s] = 1
           beyond == \E i \in b .. s : v[i] # v[s]
           top == [i \in 1 .. s |-> IF i < b \/ (i = b /\ ~signed) THEN 1 ELSE 0]
           bottom == [i \in 1 .. s |-> IF i = 1 \/ i >= b THEN 1 ELSE 0]
<1>2. v \in [1 .. s -> Bits] /\ v = [i \in 1 .. s |-> v[i]]
  BY <1>1 DEF Values
<1>3. Len(v) = s
  <2>1. s \in Nat
    OBVIOUS
  <2> QED
    BY <1>2, <2>1, ASequence
<1>4. \A i \in 1 .. s : v[i] = 0 \/ v[i] = 1
  BY <1>2 DEF Bits
<1>5. \A u : Extend(field, u) = ext(u)
  BY <1>1, Zenon DEF Extend
<1>6. inRange(field, v) <=> fits
  BY <1>1, Zenon DEF inRange
<1>7. CASE b = s
  <2>1. Saturate(field, v) = v /\ Nearest(field, v) = v
    BY <1>1, <1>7 DEF Saturate, Nearest
  <2>2. fits
    BY <1>7
  <2> HIDE DEF fits
  <2> QED
    BY <1>6, <2>1, <2>2, InRangeExtended
<1>8. CASE b # s
  <2> DEFINE near == CASE signed /\ negative /\ (lowest \/ ~fits) -> bottom
                       [] ~(signed /\ negative) /\ ~fits -> top
                       [] OTHER -> v
  <2>1. Nearest(field, v) = near
    <3> HIDE DEF fits
    <3> QED
      BY <1>1, <1>6, <1>8 DEF Nearest
  <2>2. ext(Low(v, b)) = v \/ ~fits
    <3> SUFFICES ASSUME fits PROVE ext(Low(v, b)) = v
      OBVIOUS
    <3>1. ASSUME NEW i \in 1 .. s
          PROVE  ext(Low(v, b))[i] = v[i]
      <4>1. b \in 1 .. b
        OBVIOUS
      <4>2. CASE i <= b
        <5>1. i \in 1 .. b
          BY <4>2
        <5> QED
          BY <4>2, <5>1 DEF Low
      <4>3. CASE ~(i <= b)
        <5>1. i \in b + 1 .. s
          BY <4>3
        <5>2. v[i] = IF signed THEN v[b] ELSE 0
          BY <5>1
        <5> QED
          BY <4>1, <4>3, <5>2 DEF Low
      <4> QED
        BY <4>2, <4>3
    <3>2. ext(Low(v, b)) = [i \in 1 .. s |-> ext(Low(v, b))[i]]
      OBVIOUS
    <3> HIDE DEF ext
    <3> QED
      BY <1>2, <3>1, <3>2
  <2>3. CASE ~signed
    <3>1. fits <=> ~\E i \in b + 1 .. Len(v) : v[i] = 1
      <4>1. \A i \in b + 1 .. s : i \in 1 .. s
        OBVIOUS
      <4> QED
        BY <1>3, <1>4, <2>3, <4>1
    <3>2. Saturate(field, v) = IF fits THEN Low(v, b) ELSE Ones(b)
      <4> HIDE DEF fits
      <4> QED
        BY <1>1, <1>8, <2>3, <3>1 DEF Saturate, SaturateUnsigned
    <3>3. ext(Ones(b)) = top
      BY <2>3 DEF Ones
    <3> HIDE DEF fits, ext, top, lowest, negative
    <3> QED
      BY <1>5, <2>1, <2>2, <2>3, <3>2, <3>3
  <2>4. CASE signed
    <3> DEFINE high == [i \in 1 .. b |-> IF i < b THEN 1 ELSE 0]
               deep == [i \in 1 .. b |-> IF i \in {1, b} THEN 1 ELSE 0]
    <3>1. beyond <=> ~fits
      <4>1. ASSUME fits, NEW i \in b .. s
            PROVE  v[i] = v[s]
        <5>1. v[s] = v[b]
          BY <1>1, <1>8, <2>4, <4>1
        <5> QED
          BY <1>1, <2>4, <4>1, <5>1
      <4>2. ASSUME ~beyond, NEW i \in b + 1 .. s
            PROVE  v[i] = v[b]
        BY <1>1, <4>2
      <4> QED
        BY <2>4, <4>1, <4>2
    <3>2. Saturate(field, v) = CASE ~negative /\ beyond -> high
                                 [] negative /\ (beyond \/ lowest) -> deep
                                 [] OTHER -> Low(v, b)
      BY <1>1, <1>3, <1>8, <2>4 DEF Saturate, SaturateSigned
    <3>3. ext(high) = top
      BY <2>4
    <3>4. ext(deep) = bottom
      BY <2>4
    <3> HIDE DEF fits, ext, top, bottom, lowest, negative, beyond, high, deep
    <3>5. CASE ~negative /\ ~fits
      BY <1>5, <2>1, <3>1, <3>2, <3>3, <3>5
    <3>6. CASE negative /\ (~fits \/ lowest)
      BY <1>5, <2>1, <2>4, <3>1, <3>2, <3>4, <3>6
    <3>7. CASE fits /\ ~(negative /\ lowest)
      BY <1>5, <2>1, <2>2, <3>1, <3>2, <3>7
    <3> QED
      BY <3>5, <3>6, <3>7
  <2> QED
    BY <2>3, <2>4
<1> QED
  BY <1>7, <1>8

-----------------------------------------------------------------------------
(* The messages are lists of fields *)

LEMMA FieldTyped ==
  ASSUME NEW b \in 1 .. 64, NEW s \in 1 .. 64, b <= s
  PROVE  Unsigned(b, s) \in FieldTypes /\ Signed(b, s) \in FieldTypes
BY DEF Unsigned, Signed, Field, FieldTypes

LEMMA ArrayTyped ==
  ASSUME NEW n \in Nat, NEW field \in FieldTypes
  PROVE  /\ Array(n, field) \in Seq(FieldTypes) /\ Len(Array(n, field)) = n
         /\ \A i \in 1 .. n : Array(n, field)[i] = field
<1>1. Array(n, field) = [i \in 1 .. n |-> field]
  BY DEF Array
<1> HIDE DEF Array
<1>2. Array(n, field) \in [1 .. n -> FieldTypes]
  BY <1>1
<1>3. Array(n, field) \in Seq(FieldTypes)
  BY <1>2
<1> QED
  BY <1>1, <1>3

LEMMA Joined ==
  ASSUME NEW f \in Seq(FieldTypes), NEW g \in Seq(FieldTypes)
  PROVE  f \o g \in Seq(FieldTypes)
OBVIOUS

Kinds ==
  {"Environment", "HeaterStatus", "BathroomStatus", "BoilerStatus", "Obis", "Time", "Motion",
   "Meter", "GreywaterPumpStatus", "WaterRefillStatus", "ConductionSensor", "EventCount"}

LEMMA FieldsAreLists ==
  /\ DOMAIN Fields = Kinds
  /\ \A kind \in Kinds : Fields[kind] \in Seq(FieldTypes)
<1>1. /\ Unsigned(1, 1) \in FieldTypes /\ Unsigned(3, 8) \in FieldTypes
      /\ Unsigned(8, 8) \in FieldTypes /\ Unsigned(16, 16) \in FieldTypes
      /\ Unsigned(17, 32) \in FieldTypes /\ Unsigned(18, 32) \in FieldTypes
      /\ Unsigned(32, 32) \in FieldTypes /\ Unsigned(56, 64) \in FieldTypes
      /\ Unsigned(64, 64) \in FieldTypes /\ Signed(15, 16) \in FieldTypes
      /\ Signed(19, 32) \in FieldTypes /\ Signed(64, 64) \in FieldTypes
  BY FieldTyped
<1>2. Bool \in FieldTypes
  BY <1>1 DEF Bool
<1>3. /\ Array(3, Bool) \in Seq(FieldTypes) /\ Array(4, Bool) \in Seq(FieldTypes)
      /\ Array(8, Bool) \in Seq(FieldTypes) /\ Array(4, Signed(15, 16)) \in Seq(FieldTypes)
      /\ Array(3, Unsigned(8, 8)) \in Seq(FieldTypes)
  <2>1. 3 \in Nat /\ 4 \in Nat /\ 8 \in Nat
    OBVIOUS
  <2>2. \A n \in Nat, field \in FieldTypes : Array(n, field) \in Seq(FieldTypes)
    BY ArrayTyped
  <2> QED
    BY <1>1, <1>2, <2>1, <2>2, Zenon
<1>4. /\ <<Unsigned(3, 8)>> \in Seq(FieldTypes)
      /\ <<Unsigned(8, 8), Signed(64, 64)>> \in Seq(FieldTypes)
  BY <1>1
<1>5. Environment \in Seq(FieldTypes)
  BY <1>1, <1>2 DEF Environment
<1>6. HeaterStatus \in Seq(FieldTypes)
  BY <1>3, Joined DEF HeaterStatus
<1>7. BathroomStatus \in Seq(FieldTypes)
  BY <1>3, <1>4, Joined DEF BathroomStatus
<1>8. BoilerStatus \in Seq(FieldTypes)
  BY <1>1 DEF BoilerStatus
<1>9. Obis \in Seq(FieldTypes)
  BY <1>3, <1>4, Joined DEF Obis
<1>10. Time \in Seq(FieldTypes) /\ Motion \in Seq(FieldTypes) /\ Meter \in Seq(FieldTypes)
  BY <1>1, <1>2 DEF Time, Motion, Meter
<1>11. GreywaterPumpStatus \in Seq(FieldTypes) /\ WaterRefillStatus \in Seq(FieldTypes)
  BY <1>1 DEF GreywaterPumpStatus, WaterRefillStatus
<1>12. ConductionSensor \in Seq(FieldTypes) /\ EventCount \in Seq(FieldTypes)
  BY <1>3 DEF ConductionSensor, EventCount
<1>13. DOMAIN Fields = Kinds
  BY DEF Fields, Kinds
<1>14. ASSUME NEW kind \in Kinds
       PROVE  Fields[kind] \in Seq(FieldTypes)
  BY <1>5, <1>6, <1>7, <1>8, <1>9, <1>10, <1>11, <1>12 DEF Fields, Kinds
<1> QED
  BY <1>13, <1>14

LEMMA ItemsAreFields ==
  /\ DOMAIN ArrayItem = {"ConductionSensor", "EventCount"}
  /\ \A kind \in DOMAIN ArrayItem :
       ArrayItem[kind] \in FieldTypes /\ ArrayItem[kind].bits = ArrayItem[kind].storage
<1>1. Unsigned(8, 8) \in FieldTypes /\ Unsigned(32, 32) \in FieldTypes
  BY FieldTyped
<1>2. Unsigned(8, 8).bits = Unsigned(8, 8).storage /\ Unsigned(32, 32).bits = Unsigned(32, 32).storage
  BY DEF Unsigned, Field
<1> QED
  BY <1>1, <1>2 DEF ArrayItem

LEMMA ByHandAreLists ==
  /\ DOMAIN ByHand \subseteq Kinds /\ \A kind \in DOMAIN ByHand : ~hasArray(kind)
  /\ ByHand["Environment"] = EnvironmentByHand
  /\ \A kind \in DOMAIN ByHand : kind # "Environment" => ByHand[kind] = Fields[kind]
  /\ \A kind \in DOMAIN ByHand : ByHand[kind] \in Seq(FieldTypes)
  /\ EnvironmentByHand \in Seq(FieldTypes)
<1>1. /\ Unsigned(2, 8) \in FieldTypes /\ Signed(19, 32) \in FieldTypes
      /\ Unsigned(17, 32) \in FieldTypes /\ Unsigned(18, 32) \in FieldTypes
  BY FieldTyped
<1>2. EnvironmentByHand \in Seq(FieldTypes)
  BY <1>1 DEF EnvironmentByHand
<1>3. DOMAIN ByHand = {"Environment", "HeaterStatus", "Obis", "GreywaterPumpStatus"}
      /\ ByHand["Environment"] = EnvironmentByHand
      /\ \A kind \in DOMAIN ByHand : kind # "Environment" => ByHand[kind] = Fields[kind]
  BY DEF ByHand
<1>4. DOMAIN ByHand \subseteq Kinds
  BY <1>3 DEF Kinds
<1>5. \A kind \in DOMAIN ByHand : ~hasArray(kind)
  BY <1>3, ItemsAreFields DEF hasArray
<1>6. \A kind \in DOMAIN ByHand : ByHand[kind] \in Seq(FieldTypes)
  BY <1>2, <1>3, <1>4, FieldsAreLists
<1> QED
  BY <1>2, <1>3, <1>4, <1>5, <1>6

LEMMA ValueFieldsTyped ==
  ASSUME NEW kind \in Kinds, NEW n \in Nat
  PROVE  valueFields(kind, FALSE, n) \in Seq(FieldTypes)
<1>1. Fields[kind] \in Seq(FieldTypes)
  BY FieldsAreLists
<1>2. CASE hasArray(kind)
  <2>1. ArrayItem[kind] \in FieldTypes
    BY <1>2, ItemsAreFields DEF hasArray
  <2>2. Fields[kind] \o Array(n, ArrayItem[kind]) \in Seq(FieldTypes)
    BY <1>1, <2>1, ArrayTyped, Joined
  <2> QED
    BY <1>2, <2>2 DEF valueFields
<1> QED
  BY <1>1, <1>2 DEF valueFields

(* A source has a value for each of its fields. *)
LEMMA SourceTyped ==
  ASSUME NEW fields \in Seq(FieldTypes), NEW v \in Sources(fields)
  PROVE  /\ v = [i \in 1 .. Len(fields) |-> v[i]]
         /\ \A i \in 1 .. Len(fields) : v[i] \in Values(fields[i])
<1>1. CASE fields = <<>> /\ v = <<>>
  BY <1>1
<1>2. CASE \E k \in DOMAIN fields, p, q \in Patterns :
             v = [i \in DOMAIN fields |-> Pattern(IF i <= k THEN p ELSE q, fields[i])]
  <2>1. PICK k \in DOMAIN fields, p \in Patterns, q \in Patterns :
          v = [i \in DOMAIN fields |-> Pattern(IF i <= k THEN p ELSE q, fields[i])]
    BY <1>2
  <2>2. ASSUME NEW r \in Patterns, NEW field
        PROVE  Pattern(r, field) \in Values(field)
    <3>1. r \in 1 .. 8
      BY MessagesAssumption
    <3>2. \A c : (IF c THEN 1 ELSE 0) \in Bits
      BY DEF Bits
    <3> QED
      BY <3>1 DEF Pattern, Values, Bits
  <2> QED
    BY <2>1, <2>2
<1> QED
  BY <1>1, <1>2 DEF Sources

-----------------------------------------------------------------------------
(* The Environment that is filled in by hand *)

LEMMA EnvironmentOffsets ==
  LET h == offsets(EnvironmentByHand)
      e == offsets(Environment)
  IN  /\ h[1] = 0 /\ h[2] = 2 /\ h[3] = 21 /\ h[4] = 38 /\ end(EnvironmentByHand) = 56
      /\ e[1] = 0 /\ e[2] = 1 /\ e[3] = 2 /\ e[4] = 21 /\ e[5] = 38 /\ end(Environment) = 56
<1>1. /\ EnvironmentByHand \in Seq(FieldTypes) /\ Environment \in Seq(FieldTypes)
  BY ByHandAreLists, FieldsAreLists DEF Fields, Kinds
<1>2. /\ Len(EnvironmentByHand) = 4 /\ DOMAIN EnvironmentByHand = 1 .. 4
      /\ Len(Environment) = 5 /\ DOMAIN Environment = 1 .. 5
  BY DEF EnvironmentByHand, Environment
<1>3. /\ EnvironmentByHand[1].bits = 2 /\ EnvironmentByHand[2].bits = 19
      /\ EnvironmentByHand[3].bits = 17 /\ EnvironmentByHand[4].bits = 18
  BY DEF EnvironmentByHand, Unsigned, Signed, Field
<1>4. /\ Environment[1].bits = 1 /\ Environment[2].bits = 1 /\ Environment[3].bits = 19
      /\ Environment[4].bits = 17 /\ Environment[5].bits = 18
  BY DEF Environment, Bool, Unsigned, Signed, Field
<1> DEFINE h == offsets(EnvironmentByHand)
           v == widths(EnvironmentByHand)
           e == offsets(Environment)
           w == widths(Environment)
<1>5. Ladder(h, v, 4) /\ Ladder(e, w, 5)
  BY <1>1, <1>2, OffsetsDefined
<1>6. v[1] = 2 /\ v[2] = 19 /\ v[3] = 17 /\ v[4] = 18
  BY <1>2, <1>3 DEF widths
<1>7. w[1] = 1 /\ w[2] = 1 /\ w[3] = 19 /\ w[4] = 17 /\ w[5] = 18
  BY <1>2, <1>4 DEF widths
<1>8. end(EnvironmentByHand) = h[5] /\ end(Environment) = e[6]
  BY <1>2 DEF end
<1> HIDE DEF h, v, e, w
<1>9. h[1] = 0 /\ h[2] = 2 /\ h[3] = 21 /\ h[4] = 38 /\ h[5] = 56
  <2>1. /\ h[1] = 0 /\ h[1 + 1] = h[1] + v[1] /\ h[2 + 1] = h[2] + v[2]
        /\ h[3 + 1] = h[3] + v[3] /\ h[4 + 1] = h[4] + v[4]
    BY <1>5 DEF Ladder
  <2> QED
    BY <1>6, <2>1
<1>10. e[1] = 0 /\ e[2] = 1 /\ e[3] = 2 /\ e[4] = 21 /\ e[5] = 38 /\ e[6] = 56
  <2>1. /\ e[1] = 0 /\ e[1 + 1] = e[1] + w[1] /\ e[2 + 1] = e[2] + w[2]
        /\ e[3 + 1] = e[3] + w[3] /\ e[4 + 1] = e[4] + w[4] /\ e[5 + 1] = e[5] + w[5]
    BY <1>5 DEF Ladder
  <2> QED
    BY <1>7, <2>1
<1> QED
  BY <1>8, <1>9, <1>10 DEF h, e

FLAGS == [i \in 1 .. 8 |-> IF i <= 2 THEN 1 ELSE 0]

LEMMA EnvironmentSource ==
  ASSUME NEW v \in SourcesByHand("Environment")
  PROVE  /\ Len(v) = 4 /\ DOMAIN v = 1 .. 4 /\ v[1] = FLAGS
         /\ \A i \in 2 .. 4 : v[i] \in Values(EnvironmentByHand[i])
<1> DEFINE f == <<Signed(19, 32), Unsigned(17, 32), Unsigned(18, 32)>>
<1>1. Tail(ByHand["Environment"]) = f
  BY ByHandAreLists DEF EnvironmentByHand
<1>2. /\ Signed(19, 32) \in FieldTypes /\ Unsigned(17, 32) \in FieldTypes
      /\ Unsigned(18, 32) \in FieldTypes
  BY FieldTyped
<1>3. /\ f \in Seq(FieldTypes) /\ Len(f) = 3
      /\ f[1] = Signed(19, 32) /\ f[2] = Unsigned(17, 32) /\ f[3] = Unsigned(18, 32)
  BY <1>2
<1>4. /\ EnvironmentByHand[2] = Signed(19, 32) /\ EnvironmentByHand[3] = Unsigned(17, 32)
      /\ EnvironmentByHand[4] = Unsigned(18, 32)
  BY DEF EnvironmentByHand
<1> HIDE DEF f
<1>5. PICK u \in Sources(f) : v = <<FLAGS>> \o u
  BY <1>1 DEF SourcesByHand, FLAGS
<1>6. u = [i \in 1 .. 3 |-> u[i]] /\ \A i \in 1 .. 3 : u[i] \in Values(f[i])
  BY <1>3, SourceTyped
<1>7. u \in Seq(Elements(u, 3)) /\ Len(u) = 3
  BY <1>6, ASequence
<1> DEFINE S == Elements(u, 3) \cup {FLAGS}
<1>8. u \in Seq(S) /\ <<FLAGS>> \in Seq(S)
  <2>1. FLAGS \in S /\ \A i \in 1 .. 3 : u[i] \in S
    BY DEF Elements
  <2> HIDE DEF S
  <2>2. u \in [1 .. 3 -> S]
    BY <1>6, <2>1
  <2>3. u \in Seq(S)
    BY <2>2, FunctionIsSequence
  <2>4. <<FLAGS>> \in Seq(S)
    BY <2>1
  <2> QED
    BY <2>3, <2>4
<1> HIDE DEF S
<1>9. /\ Len(v) = 1 + Len(u) /\ v \in Seq(S)
      /\ v[1] = FLAGS /\ \A i \in 1 .. Len(u) : v[i + 1] = u[i]
  BY <1>5, <1>8
<1>10. Len(v) = 4 /\ DOMAIN v = 1 .. 4 /\ v[1] = FLAGS
       /\ v[2] = u[1] /\ v[3] = u[2] /\ v[4] = u[3]
  <2>1. v[1 + 1] = u[1] /\ v[2 + 1] = u[2] /\ v[3 + 1] = u[3]
    BY <1>7, <1>9
  <2> QED
    BY <1>7, <1>9, <2>1
<1>11. /\ u[1] \in Values(f[1]) /\ u[2] \in Values(f[2]) /\ u[3] \in Values(f[3])
  BY <1>6
<1> QED
  BY <1>3, <1>4, <1>10, <1>11

(* The two flags are one scalar for the sender and two for the receiver. *)
LEMMA EnvironmentDecoded ==
  ASSUME NEW v \in SourcesByHand("Environment"), NEW fill
  PROVE  LET got == decodeFields(Environment, Encoded(EnvironmentByHand, v, fill))
         IN  /\ DOMAIN got = 1 .. 5 /\ got[1] = <<1>> /\ got[2] = <<1>>
             /\ \A i \in 2 .. 4 : got[i + 1] = Extend(EnvironmentByHand[i], v[i])
<1> DEFINE bits == Encoded(EnvironmentByHand, v, fill)
           got == decodeFields(Environment, bits)
           at(i) == ScalarAt(bits, offsets(Environment)[i], Environment[i])
<1>1. EnvironmentByHand \in Seq(FieldTypes)
  BY ByHandAreLists
<1>2. /\ Len(EnvironmentByHand) = 4 /\ DOMAIN EnvironmentByHand = 1 .. 4
      /\ DOMAIN Environment = 1 .. 5
  BY DEF EnvironmentByHand, Environment
<1>3. got = [i \in 1 .. 5 |-> at(i)]
  <2>1. Len(bits) = 8 * bytesOf(EnvironmentByHand)
    BY <1>1, EncodedLength
  <2>2. bytesOf(EnvironmentByHand) = 7 /\ end(Environment) = 56
    BY EnvironmentOffsets DEF bytesOf
  <2> HIDE DEF bits
  <2>3. ~(end(Environment) > Len(bits))
    BY <2>1, <2>2
  <2> QED
    BY <1>2, <2>3 DEF decodeFields
<1>4. /\ EnvironmentByHand[1].bits = 2
      /\ Environment[1] = Bool /\ Environment[2] = Bool
      /\ Environment[3] = EnvironmentByHand[2] /\ Environment[4] = EnvironmentByHand[3]
      /\ Environment[5] = EnvironmentByHand[4]
  BY DEF EnvironmentByHand, Environment, Unsigned, Field
<1>5. ASSUME NEW i \in 1 .. 4, NEW k \in 1 .. EnvironmentByHand[i].bits
      PROVE  bits[offsets(EnvironmentByHand)[i] + k] = v[i][onWire(k, EnvironmentByHand[i].bits)]
  <2>1. widths(EnvironmentByHand)[i] = EnvironmentByHand[i].bits
    BY <1>2 DEF widths
  <2>2. i \in 1 .. Len(EnvironmentByHand) /\ k \in 1 .. widths(EnvironmentByHand)[i]
    BY <1>2, <2>1
  <2> QED
    BY <1>1, <2>2, EncodedBit
<1>6. bits[1] = 1 /\ bits[2] = 1
  <2>1. onWire(1, 2) = 2 /\ onWire(2, 2) = 1
    BY DEF onWire
  <2>2. 1 \in 1 .. EnvironmentByHand[1].bits /\ 2 \in 1 .. EnvironmentByHand[1].bits /\ 1 \in 1 .. 4
    BY <1>4
  <2>3. v[1] = FLAGS
    BY EnvironmentSource
  <2>4. FLAGS[1] = 1 /\ FLAGS[2] = 1
    BY DEF FLAGS
  <2>5. /\ bits[offsets(EnvironmentByHand)[1] + 1] = v[1][onWire(1, 2)]
        /\ bits[offsets(EnvironmentByHand)[1] + 2] = v[1][onWire(2, 2)]
    BY <1>4, <1>5, <2>2
  <2>6. offsets(EnvironmentByHand)[1] = 0
    BY EnvironmentOffsets
  <2> HIDE DEF bits
  <2>7. bits[0 + 1] = FLAGS[2] /\ bits[0 + 2] = FLAGS[1]
    BY <2>1, <2>3, <2>5, <2>6
  <2> QED
    BY <2>4, <2>7
<1>7. \A offset \in {0, 1} : ScalarAt(bits, offset, Bool) = <<1>>
  <2> HIDE DEF bits
  <2>1. Bool.bits = 1 /\ Bool.storage = 1
    BY DEF Bool, Unsigned, Field
  <2>2. onWire(1, 1) = 1
    BY DEF onWire
  <2>3. ASSUME NEW offset \in {0, 1}
        PROVE  ScalarAt(bits, offset, Bool) = <<1>>
    <3> DEFINE u == [i \in 1 .. Bool.bits |-> bits[offset + onWire(i, Bool.bits)]]
    <3>1. ScalarAt(bits, offset, Bool) = Extend(Bool, u)
      BY DEF ScalarAt
    <3>2. u[1] = 1
      BY <1>6, <2>1, <2>2
    <3> HIDE DEF u
    <3>3. Extend(Bool, u) = [i \in 1 .. 1 |-> u[1]]
      BY <2>1 DEF Extend
    <3> QED
      BY <3>1, <3>2, <3>3
  <2> QED
    BY <2>3
<1>8. at(1) = <<1>> /\ at(2) = <<1>>
  <2> HIDE DEF bits
  <2> QED
    BY <1>4, <1>7, EnvironmentOffsets
<1>9. ASSUME NEW i \in 1 .. 4
      PROVE  ScalarAt(bits, offsets(EnvironmentByHand)[i], EnvironmentByHand[i])
               = Extend(EnvironmentByHand[i], v[i])
  <2>1. EnvironmentByHand[i] \in FieldTypes
    <3>1. i \in 1 .. Len(EnvironmentByHand)
      BY <1>2
    <3> QED
      BY <1>1, <3>1
  <2> HIDE DEF bits
  <2> QED
    BY <1>5, <2>1, ScalarRead
<1>10. ASSUME NEW i \in 2 .. 4
       PROVE  got[i + 1] = Extend(EnvironmentByHand[i], v[i])
  <2>1. got[i + 1] = at(i + 1)
    <3> HIDE DEF got, at
    <3>1. i + 1 \in 1 .. 5
      OBVIOUS
    <3> QED
      BY <1>3, <3>1
  <2>2. /\ offsets(Environment)[i + 1] = offsets(EnvironmentByHand)[i]
        /\ Environment[i + 1] = EnvironmentByHand[i]
    <3>1. i = 2 \/ i = 3 \/ i = 4
      OBVIOUS
    <3>2. /\ 2 + 1 = 3 /\ 3 + 1 = 4 /\ 4 + 1 = 5
      OBVIOUS
    <3> QED
      BY <1>4, <3>1, <3>2, EnvironmentOffsets
  <2> HIDE DEF bits, got
  <2> QED
    BY <1>9, <2>1, <2>2
<1> HIDE DEF at
<1> QED
  BY <1>3, <1>8, <1>10

-----------------------------------------------------------------------------
(* Arrays with their length *)

(* The parts of two lists that are joined. *)
LEMMA JoinedParts ==
  ASSUME NEW S, NEW f \in Seq(S), NEW g \in Seq(S)
  PROVE  /\ f \o g \in Seq(S) /\ Len(f \o g) = Len(f) + Len(g)
         /\ \A i \in 1 .. Len(f) : (f \o g)[i] = f[i]
         /\ \A i \in 1 .. Len(g) : (f \o g)[Len(f) + i] = g[i]
OBVIOUS

LEMMA SameSequence ==
  ASSUME NEW S, NEW T, NEW s \in Seq(S), NEW t \in Seq(T), Len(s) = Len(t),
         \A i \in 1 .. Len(s) : s[i] = t[i]
  PROVE  s = t
OBVIOUS

(* a and c are the first n and the other m elements of s. *)
Halved(S, s, n, m, a, c) ==
  /\ s \in Seq(S) /\ n \in Nat /\ m \in Nat /\ Len(s) = n + m
  /\ a = SubSeq(s, 1, n) /\ c = SubSeq(s, n + 1, n + m)

Halves(S, s, n, m, a, c) ==
  /\ a \in Seq(S) /\ Len(a) = n /\ \A i \in 1 .. n : a[i] = s[i]
  /\ c \in Seq(S) /\ Len(c) = m /\ \A i \in 1 .. m : c[i] = s[n + i]
  /\ s = a \o c

LEMMA HalvesOf ==
  ASSUME NEW S, NEW s, NEW n, NEW m, NEW a, NEW c, Halved(S, s, n, m, a, c)
  PROVE  Halves(S, s, n, m, a, c)
<1>1. s \in Seq(S) /\ n \in Nat /\ m \in Nat /\ Len(s) = n + m
  BY DEF Halved
<1>2. a \in Seq(S) /\ Len(a) = n /\ \A i \in 1 .. n : a[i] = s[i]
  BY <1>1 DEF Halved
<1>3. c \in Seq(S) /\ Len(c) = m /\ \A i \in 1 .. m : c[i] = s[n + i]
  BY <1>1 DEF Halved
<1>4. s = a \o c
  <2> DEFINE t == a \o c
  <2>1. /\ t \in Seq(S) /\ Len(t) = n + m
        /\ \A i \in 1 .. n : t[i] = a[i]
        /\ \A i \in 1 .. m : t[n + i] = c[i]
    <3>1. a \in Seq(S) /\ c \in Seq(S)
      BY <1>2, <1>3
    <3>2. /\ t \in Seq(S) /\ Len(t) = Len(a) + Len(c)
          /\ \A i \in 1 .. Len(a) : t[i] = a[i]
          /\ \A i \in 1 .. Len(c) : t[Len(a) + i] = c[i]
      BY <3>1, JoinedParts
    <3> HIDE DEF t
    <3> QED
      BY <1>2, <1>3, <3>2
  <2> HIDE DEF t
  <2>2. ASSUME NEW i \in 1 .. n + m
        PROVE  s[i] = t[i]
    <3>1. CASE i \in 1 .. n
      BY <1>2, <2>1, <3>1
    <3>2. CASE i \in n + 1 .. n + m
      <4>1. PICK j \in 1 .. m : i = n + j
        <5>1. i - n \in 1 .. m /\ i = n + (i - n)
          BY <1>1, <3>2
        <5> QED
          BY <5>1
      <4> QED
        BY <1>3, <2>1, <4>1
    <3> QED
      BY <1>1, <3>1, <3>2
  <2>3. s = t
    BY <1>1, <2>1, <2>2, SameSequence
  <2> QED
    BY <2>3 DEF t
<1> QED
  BY <1>2, <1>3, <1>4 DEF Halves

(* s is f and g with x between them, *)
InsertedInto(S, f, g, x, n, s) ==
  /\ f \in Seq(S) /\ g \in Seq(S) /\ x \in S /\ n = Len(f)
  /\ s = InsertAt(f \o g, n + 1, x)

(* so its parts are those, and without x it is f and g. *)
Parts(S, f, g, x, n, s) ==
  /\ s \in Seq(S) /\ Len(s) = n + 1 + Len(g)
  /\ \A i \in 1 .. n : s[i] = f[i]
  /\ s[n + 1] = x
  /\ \A i \in 1 .. Len(g) : s[n + 1 + i] = g[i]
  /\ s = f \o <<x>> \o g
  /\ RemoveAt(s, n + 1) = f \o g

LEMMA Inserted ==
  ASSUME NEW S, NEW f, NEW g, NEW x, NEW n, NEW s, InsertedInto(S, f, g, x, n, s)
  PROVE  Parts(S, f, g, x, n, s)
<1> DEFINE t == f \o <<x>> \o g
<1>1. f \in Seq(S) /\ g \in Seq(S) /\ x \in S
  BY DEF InsertedInto
<1>2. SubSeq(f \o g, 1, (Len(f) + 1) - 1) = f
  BY <1>1
<1>3. SubSeq(f \o g, Len(f) + 1, Len(f \o g)) = g
  BY <1>1
<1>4. s = t /\ n = Len(f)
  BY <1>2, <1>3 DEF InsertAt, InsertedInto
<1>5. /\ t \in Seq(S) /\ Len(t) = Len(f) + 1 + Len(g)
      /\ \A i \in 1 .. Len(f) : t[i] = f[i]
      /\ t[Len(f) + 1] = x
      /\ \A i \in 1 .. Len(g) : t[Len(f) + 1 + i] = g[i]
  BY <1>1
<1>6. SubSeq(t, 1, (Len(f) + 1) - 1) = f
  BY <1>1
<1>7. SubSeq(t, (Len(f) + 1) + 1, Len(t)) = g
  BY <1>1
<1>8. RemoveAt(t, Len(f) + 1) = f \o g
  BY <1>6, <1>7 DEF RemoveAt
<1>9. Parts(S, f, g, x, Len(f), t)
  BY <1>5, <1>8, Zenon DEF Parts
<1> HIDE DEF t
<1> QED
  BY <1>4, <1>9

(* The last fields end with the message. *)
LEMMA OffsetBeforeEnd ==
  ASSUME NEW fields \in Seq(FieldTypes), NEW i \in 1 .. Len(fields)
  PROVE  /\ offsets(fields)[i + 1] = offsets(fields)[i] + fields[i].bits
         /\ offsets(fields)[i] \in Nat /\ offsets(fields)[i + 1] <= end(fields)
<1> DEFINE o == offsets(fields)
           w == widths(fields)
           n == Len(fields)
<1>1. Ladder(o, w, n) /\ end(fields) = o[n + 1]
  BY OffsetsDefined DEF end
<1>2. n \in Nat /\ i \in 1 .. n /\ w[i] = fields[i].bits
  BY DEF widths
<1> HIDE DEF o, w, n
<1>3. o[i + 1] = o[i] + w[i] /\ w[i] \in 1 .. 64
  BY <1>1, <1>2 DEF Ladder
<1>4. i \in 1 .. n + 1 /\ i + 1 \in 1 .. n + 1 /\ n + 1 \in 1 .. n + 1
  BY <1>2
<1>5. o[i] \in Nat /\ o[i + 1] \in Nat /\ o[n + 1] \in Nat
  BY <1>1, <1>4, OffsetsAreNumbers
<1>6. o[i + 1] <= o[n + 1]
  <2>1. n + 1 \in i + 1 .. n + 1
    BY <1>2
  <2> QED
    BY <1>1, <1>2, <2>1, LaterOffset
<1>7. o[i + 1] = o[i] + fields[i].bits /\ o[i] \in Nat /\ o[i + 1] <= end(fields)
  BY <1>1, <1>2, <1>3, <1>5, <1>6
<1> QED
  BY <1>7 DEF o

(* The parts of a message begin where the parts before them end. *)
LEMMA PrefixEnds ==
  ASSUME NEW f \in Seq(FieldTypes), NEW g \in Seq(FieldTypes), Len(f) <= Len(g),
         \A i \in 1 .. Len(f) : f[i] = g[i]
  PROVE  offsets(g)[Len(f) + 1] = end(f)
<1> DEFINE n == Len(f)
           m == Len(g)
           o == offsets(f)
           p == offsets(g)
           w == widths(f)
           v == widths(g)
<1>1. Ladder(o, w, n) /\ Ladder(p, v, m) /\ end(f) = o[n + 1]
  BY OffsetsDefined DEF end
<1>2. n \in Nat /\ m \in Nat /\ n <= m
  OBVIOUS
<1>3. \A i \in 1 .. n : w[i] = v[i]
  BY DEF widths
<1> HIDE DEF n, m, o, p, w, v
<1>4. n + 1 \in 1 .. n + 1 /\ n + 1 <= m + 1 /\ \A i \in 1 .. (n + 1) - 1 : w[i] = v[i]
  BY <1>2, <1>3
<1>5. o[n + 1] = p[n + 1]
  BY <1>1, <1>4, SameOffsets
<1>6. p[n + 1] = end(f)
  BY <1>1, <1>5
<1> QED
  BY <1>6 DEF n, p

(* The length of an array as its sender wrote it. *)
LEMMA LengthRead ==
  ASSUME NEW n \in 0 .. 7, NEW bits, NEW offset,
         ScalarAt(bits, offset, LengthField) = Extend(LengthField, lengthBits(n))
  PROVE  NumberAt(bits, offset) = n
<1> DEFINE v == Extend(LengthField, lengthBits(n))
<1>1. LengthField.bits = 3 /\ LengthField.storage = 3
  BY DEF LengthField, LENGTH_BITS, Unsigned, Field
<1>2. v = [i \in 1 .. 3 |-> lengthBits(n)[i]]
  BY <1>1 DEF Extend
<1>3. /\ lengthBits(n)[1] = n % 2 /\ lengthBits(n)[2] = (n \div 2) % 2
      /\ lengthBits(n)[3] = (n \div 4) % 2
  BY DEF lengthBits
<1>4. v[1] = n % 2 /\ v[2] = (n \div 2) % 2 /\ v[3] = (n \div 4) % 2
  <2> HIDE DEF v
  <2> QED
    BY <1>2, <1>3
<1>5. (n % 2) + 2 * ((n \div 2) % 2) + 4 * ((n \div 4) % 2) = n
  OBVIOUS
<1>6. NumberAt(bits, offset) = v[1] + 2 * v[2] + 4 * v[3]
  BY DEF NumberAt
<1> HIDE DEF v
<1> QED
  BY <1>4, <1>5, <1>6

(* An array that is sent with its length *)
ArraySent(kind, n, S, sent) ==
  /\ kind \in DOMAIN ArrayItem /\ n \in 0 .. 7
  /\ sent \in Seq(S) /\ Len(sent) = Len(Fields[kind]) + n

(* is read again with it. *)
ArrayRead(kind, n, sent, fill) ==
  decode(kind, Encoded(InsertAt(valueFields(kind, FALSE, n), Len(Fields[kind]) + 1, LengthField),
                       InsertAt(sent, Len(Fields[kind]) + 1, lengthBits(n)), fill))
    = [i \in 1 .. Len(sent) |-> Extend(valueFields(kind, FALSE, n)[i], sent[i])]

LEMMA ArrayDecoded ==
  ASSUME NEW kind, NEW n, NEW fill, NEW S, NEW sent, ArraySent(kind, n, S, sent)
  PROVE  ArrayRead(kind, n, sent, fill)
<1> SUFFICES ASSUME kind \in DOMAIN ArrayItem, n \in 0 .. 7, sent \in Seq(S),
                    Len(sent) = Len(Fields[kind]) + n
             PROVE  ArrayRead(kind, n, sent, fill)
  BY DEF ArraySent
<1> DEFINE f == Fields[kind]
           F == Len(f)
           item == ArrayItem[kind]
           items == Array(n, item)
           vf == valueFields(kind, FALSE, n)
           all == InsertAt(vf, F + 1, LengthField)
           values == InsertAt(sent, F + 1, lengthBits(n))
           bits == Encoded(all, values, fill)
<1>1. f \in Seq(FieldTypes) /\ F \in Nat /\ F = Len(f)
  <2>1. kind \in Kinds
    BY ItemsAreFields DEF Kinds
  <2>2. f \in Seq(FieldTypes)
    BY <2>1, FieldsAreLists
  <2> HIDE DEF f
  <2> QED
    BY <2>2
<1>2. item \in FieldTypes /\ LengthField \in FieldTypes /\ n \in Nat
  <2>1. item \in FieldTypes
    BY ItemsAreFields
  <2>2. LengthField \in FieldTypes
    BY FieldTyped DEF LengthField, LENGTH_BITS
  <2> QED
    BY <2>1, <2>2
<1>3. items \in Seq(FieldTypes) /\ Len(items) = n
  BY <1>2, ArrayTyped
<1>4. vf = f \o items /\ hasArray(kind)
  BY DEF valueFields, hasArray
<1>5. LengthField.bits = 3 /\ LENGTH_BITS = 3
  BY DEF LengthField, LENGTH_BITS, Unsigned, Field
<1> HIDE DEF f, F, item, items, vf, all, values
<1>6. /\ all \in Seq(FieldTypes) /\ Len(all) = F + 1 + n
      /\ \A i \in 1 .. F : all[i] = f[i]
      /\ all[F + 1] = LengthField
      /\ \A i \in 1 .. n : all[F + 1 + i] = items[i]
      /\ all = f \o <<LengthField>> \o items
  <2>1. all = InsertAt(f \o items, F + 1, LengthField)
    BY <1>4 DEF all
  <2>2. InsertedInto(FieldTypes, f, items, LengthField, F, all)
    BY <1>1, <1>2, <1>3, <2>1 DEF InsertedInto
  <2>3. Parts(FieldTypes, f, items, LengthField, F, all)
    BY <2>2, Inserted
  <2> QED
    BY <1>3, <2>3 DEF Parts
<1>7. /\ \A i \in 1 .. F : vf[i] = f[i]
      /\ \A i \in 1 .. n : vf[F + i] = items[i]
  BY <1>1, <1>3, <1>4, JoinedParts
<1> DEFINE a == SubSeq(sent, 1, F)
           c == SubSeq(sent, F + 1, F + n)
           T == S \cup {lengthBits(n)}
<1>8. /\ a \in Seq(T) /\ Len(a) = F /\ c \in Seq(T) /\ Len(c) = n
      /\ \A i \in 1 .. F : a[i] = sent[i]
      /\ \A i \in 1 .. n : c[i] = sent[F + i]
      /\ sent = a \o c
  <2>1. sent \in Seq(T) /\ Len(sent) = F + n
    BY DEF F, f
  <2>2. a = SubSeq(sent, 1, F) /\ c = SubSeq(sent, F + 1, F + n)
    OBVIOUS
  <2> HIDE DEF T, a, c
  <2>3. Halved(T, sent, F, n, a, c)
    BY <1>1, <1>2, <2>1, <2>2 DEF Halved
  <2> QED
    BY <2>3, HalvesOf DEF Halves
<1> HIDE DEF a, c
<1>9. /\ \A i \in 1 .. F : values[i] = sent[i]
      /\ values[F + 1] = lengthBits(n)
      /\ \A i \in 1 .. n : values[F + 1 + i] = sent[F + i]
  <2>1. lengthBits(n) \in T
    OBVIOUS
  <2> HIDE DEF T
  <2>2. values = InsertAt(a \o c, F + 1, lengthBits(n))
    BY <1>8 DEF values
  <2>3. InsertedInto(T, a, c, lengthBits(n), F, values)
    BY <1>8, <2>1, <2>2 DEF InsertedInto
  <2>4. Parts(T, a, c, lengthBits(n), F, values)
    BY <2>3, Inserted
  <2> QED
    BY <1>8, <2>4 DEF Parts
<1> HIDE DEF T
<1>10. /\ offsets(all)[F + 1] = end(f) /\ end(f) \in Nat
       /\ offsets(all)[F + 1 + 1] = end(f) + 3 /\ end(f) + 3 <= end(all)
  <2>1. offsets(all)[F + 1] = end(f)
    <3>1. Len(f) <= Len(all) /\ \A i \in 1 .. Len(f) : f[i] = all[i]
      BY <1>1, <1>2, <1>6
    <3>2. offsets(all)[Len(f) + 1] = end(f)
      BY <1>1, <1>6, <3>1, PrefixEnds
    <3> QED
      BY <1>1, <3>2
  <2>2. end(f) \in Nat
    BY <1>1, EndIsANumber
  <2>3. F + 1 \in 1 .. Len(all)
    BY <1>1, <1>2, <1>6
  <2>4. /\ offsets(all)[(F + 1) + 1] = offsets(all)[F + 1] + all[F + 1].bits
        /\ offsets(all)[(F + 1) + 1] <= end(all)
    BY <1>6, <2>3, OffsetBeforeEnd
  <2>5. all[F + 1].bits = 3
    BY <1>5, <1>6
  <2> QED
    BY <2>1, <2>2, <2>4, <2>5
<1>11. Len(bits) \in Nat /\ end(all) \in Nat /\ end(all) <= Len(bits)
  <2>1. Len(bits) = 8 * bytesOf(all)
    BY <1>6, EncodedLength
  <2>2. bytesOf(all) \in Nat /\ end(all) <= 8 * bytesOf(all) /\ end(all) \in Nat
    BY <1>6, EncodedLength, EndIsANumber
  <2> HIDE DEF bits
  <2> QED
    BY <2>1, <2>2
<1>12. NumberAt(bits, end(f)) = n
  <2>1. F + 1 \in 1 .. Len(all)
    BY <1>1, <1>2, <1>6
  <2>2. ScalarAt(bits, offsets(all)[F + 1], all[F + 1]) = Extend(all[F + 1], values[F + 1])
    <3>1. all \in Seq(FieldTypes)
      BY <1>6
    <3> QED
      BY <2>1, <3>1, FieldRead, Zenon
  <2> HIDE DEF bits
  <2>3. ScalarAt(bits, end(f), LengthField) = Extend(LengthField, lengthBits(n))
    BY <1>6, <1>9, <1>10, <2>2
  <2> QED
    BY <2>3, LengthRead
<1> DEFINE got == [i \in DOMAIN all |-> Extend(all[i], values[i])]
<1>13. decodeFields(all, bits) = got
  BY <1>6, DecodeEncoded
<1> HIDE DEF bits, got
<1>14. decodeWithLength(f, item, bits) = got
  <2>1. ~(end(f) + LENGTH_BITS > Len(bits))
    BY <1>5, <1>10, <1>11
  <2> QED
    BY <1>6, <1>12, <1>13, <2>1 DEF decodeWithLength, items
<1>15. got # Error
  <2>1. 1 \in DOMAIN all /\ all[1] \in FieldTypes
    <3>1. 1 \in 1 .. Len(all)
      BY <1>1, <1>2, <1>6
    <3> QED
      BY <1>6, <3>1
  <2>2. DOMAIN got[1] = 1 .. all[1].storage
    BY <2>1 DEF got, Extend
  <2>3. 1 \in DOMAIN got[1]
    <3>1. all[1].storage \in 1 .. 64
      BY <2>1 DEF FieldTypes
    <3>2. \A k \in 1 .. 64 : 1 \in 1 .. k
      OBVIOUS
    <3> QED
      BY <2>2, <3>1, <3>2
  <2>4. DOMAIN Error[1] = {}
    BY DEF Error
  <2> QED
    BY <2>3, <2>4
<1> DEFINE ga == [i \in 1 .. F |-> Extend(f[i], a[i])]
           gc == [i \in 1 .. n |-> Extend(items[i], c[i])]
           x == Extend(LengthField, lengthBits(n))
           V == {Extend(g, u) : g \in FieldTypes, u \in T}
<1>16. RemoveAt(got, F + 1) = ga \o gc
  <2>1. ga \in Seq(V) /\ Len(ga) = F /\ gc \in Seq(V) /\ Len(gc) = n /\ x \in V
    <3>1. ga \in [1 .. F -> V]
      BY <1>1, <1>8 DEF F
    <3>2. gc \in [1 .. n -> V]
      BY <1>3, <1>8
    <3>3. x \in V
      BY <1>2 DEF T
    <3> HIDE DEF ga, gc, V, x
    <3> QED
      BY <1>1, <1>2, <3>1, <3>2, <3>3, FunctionIsSequence
  <2> HIDE DEF V
  <2> DEFINE s == InsertAt(ga \o gc, F + 1, x)
  <2>2. /\ s \in Seq(V) /\ Len(s) = F + 1 + n
        /\ \A i \in 1 .. F : s[i] = ga[i]
        /\ s[F + 1] = x
        /\ \A i \in 1 .. n : s[F + 1 + i] = gc[i]
        /\ RemoveAt(s, F + 1) = ga \o gc
    <3> HIDE DEF ga, gc, x, s
    <3>1. s = InsertAt(ga \o gc, F + 1, x)
      BY DEF s
    <3>2. InsertedInto(V, ga, gc, x, F, s)
      BY <2>1, <3>1 DEF InsertedInto
    <3>3. Parts(V, ga, gc, x, F, s)
      BY <3>2, Inserted
    <3> QED
      BY <2>1, <3>3 DEF Parts
  <2>3. DOMAIN got = 1 .. F + 1 + n
    BY <1>6 DEF got
  <2>4. \A i \in 1 .. F + 1 + n : got[i] = Extend(all[i], values[i])
    BY <1>6 DEF got
  <2>5. ASSUME NEW i \in 1 .. F + 1 + n
        PROVE  got[i] = s[i]
    <3> HIDE DEF s
    <3>1. CASE i \in 1 .. F
      <4>1. s[i] = Extend(f[i], a[i])
        BY <2>2, <3>1
      <4>2. all[i] = f[i] /\ values[i] = a[i]
        BY <1>6, <1>8, <1>9, <3>1
      <4> QED
        BY <2>4, <4>1, <4>2, Zenon
    <3>2. CASE i = F + 1
      BY <1>6, <1>9, <2>2, <2>4, <3>2
    <3>3. CASE i \in F + 2 .. F + 1 + n
      <4>1. PICK j \in 1 .. n : i = F + 1 + j
        <5>1. i - (F + 1) \in 1 .. n /\ i = F + 1 + (i - (F + 1))
          BY <1>1, <1>2, <3>3
        <5> QED
          BY <5>1
      <4>2. s[i] = Extend(items[j], c[j])
        BY <2>2, <4>1
      <4>3. all[i] = items[j] /\ values[i] = c[j]
        BY <1>6, <1>8, <1>9, <4>1
      <4> QED
        BY <2>4, <4>2, <4>3, Zenon
    <3> QED
      BY <1>1, <1>2, <3>1, <3>2, <3>3
  <2>6. got = s
    <3>1. got = [i \in 1 .. F + 1 + n |-> got[i]]
      BY <2>3 DEF got
    <3>2. s = [i \in 1 .. F + 1 + n |-> s[i]]
      <4> HIDE DEF s
      <4> QED
        BY <2>2
    <3> HIDE DEF s
    <3> QED
      BY <2>5, <3>1, <3>2
  <2> HIDE DEF s
  <2> QED
    BY <2>2, <2>6
<1>17. ga \o gc = [i \in 1 .. F + n |-> Extend(vf[i], sent[i])]
  <2> DEFINE t == ga \o gc
  <2>1. /\ ga \in Seq(V) /\ Len(ga) = F /\ gc \in Seq(V) /\ Len(gc) = n
    <3>1. ga \in [1 .. F -> V]
      BY <1>1, <1>8 DEF F
    <3>2. gc \in [1 .. n -> V]
      BY <1>3, <1>8
    <3> HIDE DEF ga, gc, V
    <3> QED
      BY <1>1, <1>2, <3>1, <3>2, FunctionIsSequence
  <2>2. /\ t \in Seq(V) /\ Len(t) = F + n
        /\ \A i \in 1 .. F : t[i] = ga[i]
        /\ \A i \in 1 .. n : t[F + i] = gc[i]
    <3> HIDE DEF ga, gc, V
    <3> QED
      BY <2>1, JoinedParts
  <2>3. ASSUME NEW i \in 1 .. F + n
        PROVE  t[i] = Extend(vf[i], sent[i])
    <3> HIDE DEF t, V
    <3>1. CASE i \in 1 .. F
      <4>1. t[i] = Extend(f[i], a[i])
        BY <2>2, <3>1
      <4>2. vf[i] = f[i] /\ sent[i] = a[i]
        BY <1>7, <1>8, <3>1
      <4> QED
        BY <4>1, <4>2, Zenon
    <3>2. CASE i \in F + 1 .. F + n
      <4>1. PICK j \in 1 .. n : i = F + j
        <5>1. i - F \in 1 .. n /\ i = F + (i - F)
          BY <1>1, <1>2, <3>2
        <5> QED
          BY <5>1
      <4>2. t[i] = Extend(items[j], c[j])
        BY <2>2, <4>1
      <4>3. vf[i] = items[j] /\ sent[i] = c[j]
        BY <1>7, <1>8, <4>1
      <4> QED
        BY <4>2, <4>3, Zenon
    <3> QED
      BY <1>1, <1>2, <3>1, <3>2
  <2> HIDE DEF t
  <2>4. t = [i \in 1 .. F + n |-> t[i]]
    BY <2>2
  <2>5. t = [i \in 1 .. F + n |-> Extend(vf[i], sent[i])]
    BY <2>3, <2>4
  <2> QED
    BY <2>5 DEF t
<1>18. decode(kind, bits) = RemoveAt(got, F + 1)
  BY <1>4, <1>14, <1>15 DEF decode, f, F, item
<1>19. decode(kind, bits) = [i \in 1 .. Len(sent) |-> Extend(vf[i], sent[i])]
  <2>1. Len(sent) = F + n
    BY DEF F, f
  <2> HIDE DEF ga, gc
  <2> QED
    BY <1>16, <1>17, <1>18, <2>1, Zenon
<1> QED
  BY <1>19 DEF ArrayRead, vf, bits, all, values, F, f

-----------------------------------------------------------------------------
(* What is sent *)

(* What Send makes of the sender and of the source. *)
Sent(s, v) ==
  \E kind \in DOMAIN Fields, byHand, length \in BOOLEAN, fill \in {0, 1}, n \in Items :
    /\ byHand => kind \in DOMAIN ByHand
    /\ hasArray(kind) \/ (~length /\ n = 0)
    /\ s = [kind |-> kind, byHand |-> byHand, length |-> length, fill |-> fill]
    /\ v \in IF byHand THEN SourcesByHand(kind) ELSE Sources(valueFields(kind, byHand, n))

LEMMA SentByHand ==
  ASSUME NEW s, NEW v, Sent(s, v), s.byHand
  PROVE  /\ s.kind \in DOMAIN ByHand /\ ~hasArray(s.kind)
         /\ v \in SourcesByHand(s.kind)
         /\ encode(s, v) = Encoded(ByHand[s.kind], v, s.fill)
<1>1. PICK kind \in DOMAIN Fields, byHand \in BOOLEAN, length \in BOOLEAN, fill \in {0, 1},
           n \in Items :
             /\ byHand => kind \in DOMAIN ByHand
             /\ hasArray(kind) \/ (~length /\ n = 0)
             /\ s = [kind |-> kind, byHand |-> byHand, length |-> length, fill |-> fill]
             /\ v \in IF byHand THEN SourcesByHand(kind) ELSE Sources(valueFields(kind, byHand, n))
  BY DEF Sent
<1>2. s.kind = kind /\ (s.byHand <=> byHand) /\ (s.length <=> length) /\ byHand
  BY <1>1
<1>3. kind \in DOMAIN ByHand
  BY <1>1, <1>2
<1>4. ~hasArray(kind)
  BY <1>3, ByHandAreLists
<1>5. ~s.length
  BY <1>1, <1>2, <1>4
<1>6. v \in SourcesByHand(kind)
  BY <1>1, <1>2
<1>7. encode(s, v) = Encoded(ByHand[s.kind], v, s.fill)
  BY <1>2, <1>5 DEF encode, valueFields
<1> QED
  BY <1>2, <1>3, <1>4, <1>6, <1>7

LEMMA SentFields ==
  ASSUME NEW s, NEW v, Sent(s, v), ~s.byHand, ~hasArray(s.kind)
  PROVE  /\ s.kind \in Kinds
         /\ v \in Sources(Fields[s.kind])
         /\ encode(s, v) = Encoded(Fields[s.kind],
                                   [i \in DOMAIN v |-> Saturate(Fields[s.kind][i], v[i])], s.fill)
<1>1. PICK kind \in DOMAIN Fields, byHand \in BOOLEAN, length \in BOOLEAN, fill \in {0, 1},
           n \in Items :
             /\ byHand => kind \in DOMAIN ByHand
             /\ hasArray(kind) \/ (~length /\ n = 0)
             /\ s = [kind |-> kind, byHand |-> byHand, length |-> length, fill |-> fill]
             /\ v \in IF byHand THEN SourcesByHand(kind) ELSE Sources(valueFields(kind, byHand, n))
  BY DEF Sent
<1>2. s.kind = kind /\ (s.byHand <=> byHand) /\ (s.length <=> length) /\ ~byHand
  BY <1>1
<1>3. \A m : valueFields(kind, FALSE, m) = Fields[kind]
  BY <1>2 DEF valueFields
<1>4. ~s.length /\ v \in Sources(Fields[kind])
  <2>1. byHand = FALSE
    BY <1>2
  <2> QED
    BY <1>1, <1>2, <1>3, <2>1
<1>5. encode(s, v) = Encoded(Fields[s.kind],
                             [i \in DOMAIN v |-> Saturate(Fields[s.kind][i], v[i])], s.fill)
  <2>1. \A m : valueFields(s.kind, s.byHand, m) = Fields[s.kind]
    BY <1>2 DEF valueFields
  <2> QED
    BY <1>4, <2>1 DEF encode
<1> QED
  BY <1>2, <1>4, <1>5, FieldsAreLists

(* A source is a sequence with as many values as there are fields. *)
LEMMA SourceLength ==
  ASSUME NEW fields \in Seq(FieldTypes), NEW v \in Sources(fields)
  PROVE  /\ Len(v) = Len(fields) /\ DOMAIN v = 1 .. Len(fields)
         /\ v \in Seq(Elements(v, Len(fields)))
<1>1. v = [i \in 1 .. Len(fields) |-> v[i]]
  BY SourceTyped
<1>2. Len(fields) \in Nat
  OBVIOUS
<1> QED
  BY <1>1, <1>2, ASequence

LEMMA SentArray ==
  ASSUME NEW s, NEW v, Sent(s, v), hasArray(s.kind)
  PROVE  \E n \in 0 .. 7 :
           LET fixed  == Len(Fields[s.kind])
               fields == valueFields(s.kind, FALSE, n)
               sent   == [i \in DOMAIN v |-> Saturate(fields[i], v[i])]
           IN  /\ s.kind \in Kinds /\ ~s.byHand /\ fields \in Seq(FieldTypes)
               /\ Len(fields) = fixed + n /\ v \in Sources(fields)
               /\ encode(s, v) =
                    IF s.length
                    THEN Encoded(InsertAt(fields, fixed + 1, LengthField),
                                 InsertAt(sent, fixed + 1, lengthBits(n)), s.fill)
                    ELSE Encoded(fields, sent, s.fill)
<1>1. PICK kind \in DOMAIN Fields, byHand \in BOOLEAN, length \in BOOLEAN, fill \in {0, 1},
           n \in Items :
             /\ byHand => kind \in DOMAIN ByHand
             /\ hasArray(kind) \/ (~length /\ n = 0)
             /\ s = [kind |-> kind, byHand |-> byHand, length |-> length, fill |-> fill]
             /\ v \in IF byHand THEN SourcesByHand(kind) ELSE Sources(valueFields(kind, byHand, n))
  BY DEF Sent
<1>2. s.kind = kind /\ (s.byHand <=> byHand) /\ kind \in Kinds /\ n \in 0 .. 7
  BY <1>1, FieldsAreLists, MessagesAssumption
<1>3. byHand = FALSE /\ ~s.byHand
  BY <1>1, <1>2, ByHandAreLists, ItemsAreFields DEF hasArray
<1> DEFINE fixed == Len(Fields[kind])
           fields == valueFields(kind, FALSE, n)
           sent == [i \in DOMAIN v |-> Saturate(fields[i], v[i])]
<1>4. fields \in Seq(FieldTypes) /\ fixed \in Nat
  <2>1. Fields[kind] \in Seq(FieldTypes)
    BY <1>2, FieldsAreLists
  <2>2. n \in Nat
    BY <1>2
  <2>3. fields \in Seq(FieldTypes)
    BY <1>2, <2>2, ValueFieldsTyped
  <2> HIDE DEF fields
  <2> QED
    BY <2>1, <2>3
<1>5. Len(fields) = fixed + n
  <2>1. Fields[kind] \in Seq(FieldTypes) /\ ArrayItem[kind] \in FieldTypes /\ n \in Nat
    BY <1>2, FieldsAreLists, ItemsAreFields DEF hasArray
  <2>2. Array(n, ArrayItem[kind]) \in Seq(FieldTypes) /\ Len(Array(n, ArrayItem[kind])) = n
    BY <2>1, ArrayTyped
  <2>3. fields = Fields[kind] \o Array(n, ArrayItem[kind])
    BY <1>2 DEF valueFields
  <2> DEFINE g == Array(n, ArrayItem[kind])
  <2>4. Len(Fields[kind] \o g) = Len(Fields[kind]) + Len(g)
    <3>1. g \in Seq(FieldTypes)
      BY <2>2
    <3> HIDE DEF g
    <3> QED
      BY <2>1, <3>1, JoinedParts
  <2> HIDE DEF fields, g
  <2>5. Len(g) = n
    BY <2>2 DEF g
  <2>6. fields = Fields[kind] \o g
    BY <2>3 DEF g
  <2> QED
    BY <2>4, <2>5, <2>6, Zenon
<1>6. v \in Sources(fields)
  BY <1>1, <1>3
<1>7. Len(v) - fixed = n
  <2>1. Len(v) = Len(fields)
    BY <1>4, <1>6, SourceLength
  <2> HIDE DEF fields, fixed
  <2> QED
    BY <1>2, <1>4, <1>5, <2>1
<1>8. encode(s, v) = IF s.length
                     THEN Encoded(InsertAt(fields, fixed + 1, LengthField),
                                  InsertAt(sent, fixed + 1, lengthBits(n)), s.fill)
                     ELSE Encoded(fields, sent, s.fill)
  <2>1. valueFields(s.kind, s.byHand, Len(v) - Len(Fields[s.kind])) = fields
    BY <1>2, <1>3, <1>7 DEF valueFields
  <2> HIDE DEF fields
  <2> QED
    BY <1>2, <1>3, <1>7, <2>1 DEF encode
<1> QED
  BY <1>2, <1>3, <1>4, <1>5, <1>6, <1>8

-----------------------------------------------------------------------------
(* The invariant *)

(* What is on the bus is what the sender encoded, or the first bytes of    *)
(* it, and what is received is what the decoder makes of it.               *)
MessagesInv ==
  frame # <<>> \/ received # <<>> =>
    /\ Sent(sender, source)
    /\ \E bytes \in Nat : /\ 8 * bytes <= Len(encode(sender, source))
                          /\ frame = SubSeq(encode(sender, source), 1, 8 * bytes)
    /\ IF received = <<>> THEN frame = encode(sender, source)
       ELSE received = <<decode(sender.kind, frame)>>

(* A message is a sequence of whole bytes. *)
LEMMA SentLength ==
  ASSUME NEW s, NEW v, Sent(s, v)
  PROVE  \E bytes \in Nat : /\ Len(encode(s, v)) = 8 * bytes
                            /\ encode(s, v) = SubSeq(encode(s, v), 1, 8 * bytes)
                            /\ \A m \in 0 .. bytes : Len(SubSeq(encode(s, v), 1, 8 * m)) = 8 * m
<1>1. ASSUME NEW fields \in Seq(FieldTypes), NEW values,
             encode(s, v) = Encoded(fields, values, s.fill)
      PROVE  \E bytes \in Nat :
               /\ Len(encode(s, v)) = 8 * bytes
               /\ encode(s, v) = SubSeq(encode(s, v), 1, 8 * bytes)
               /\ \A m \in 0 .. bytes : Len(SubSeq(encode(s, v), 1, 8 * m)) = 8 * m
  <2> DEFINE bits == Encoded(fields, values, s.fill)
             bytes == bytesOf(fields)
  <2>1. bytes \in Nat /\ Len(bits) = 8 * bytes /\ bits \in Seq(Elements(bits, 8 * bytes))
    BY EncodedLength
  <2> HIDE DEF bits, bytes
  <2>2. bits = SubSeq(bits, 1, 8 * bytes)
    BY <2>1
  <2>3. ASSUME NEW m \in 0 .. bytes
        PROVE  Len(SubSeq(bits, 1, 8 * m)) = 8 * m
    BY <2>1
  <2>4. encode(s, v) = bits
    BY <1>1 DEF bits
  <2> QED
    BY <2>1, <2>2, <2>3, <2>4
<1>2. CASE s.byHand
  <2>1. ByHand[s.kind] \in Seq(FieldTypes) /\ encode(s, v) = Encoded(ByHand[s.kind], v, s.fill)
    BY <1>2, SentByHand, ByHandAreLists
  <2> QED
    BY <1>1, <2>1
<1>3. CASE ~s.byHand /\ ~hasArray(s.kind)
  <2>1. /\ Fields[s.kind] \in Seq(FieldTypes)
        /\ encode(s, v) = Encoded(Fields[s.kind],
                                  [i \in DOMAIN v |-> Saturate(Fields[s.kind][i], v[i])], s.fill)
    BY <1>3, SentFields, FieldsAreLists
  <2> QED
    BY <1>1, <2>1
<1>4. CASE hasArray(s.kind)
  <2> DEFINE fixed == Len(Fields[s.kind])
             fields(n) == valueFields(s.kind, FALSE, n)
             sent(n) == [i \in DOMAIN v |-> Saturate(fields(n)[i], v[i])]
  <2>1. PICK n \in 0 .. 7 :
          /\ s.kind \in Kinds /\ fields(n) \in Seq(FieldTypes) /\ Len(fields(n)) = fixed + n
          /\ encode(s, v) =
               IF s.length
               THEN Encoded(InsertAt(fields(n), fixed + 1, LengthField),
                            InsertAt(sent(n), fixed + 1, lengthBits(n)), s.fill)
               ELSE Encoded(fields(n), sent(n), s.fill)
    BY <1>4, SentArray
  <2>2. InsertAt(fields(n), fixed + 1, LengthField) \in Seq(FieldTypes)
    <3>1. /\ Fields[s.kind] \in Seq(FieldTypes) /\ ArrayItem[s.kind] \in FieldTypes
          /\ LengthField \in FieldTypes /\ n \in Nat
      <4>1. LengthField \in FieldTypes
        BY FieldTyped DEF LengthField, LENGTH_BITS
      <4>2. Fields[s.kind] \in Seq(FieldTypes) /\ ArrayItem[s.kind] \in FieldTypes
        BY <1>4, <2>1, FieldsAreLists, ItemsAreFields DEF hasArray
      <4> QED
        BY <4>1, <4>2
    <3> DEFINE items == Array(n, ArrayItem[s.kind])
               all == InsertAt(fields(n), fixed + 1, LengthField)
    <3>2. items \in Seq(FieldTypes)
      BY <3>1, ArrayTyped
    <3>3. fields(n) = Fields[s.kind] \o items
      BY <1>4 DEF valueFields
    <3>4. InsertedInto(FieldTypes, Fields[s.kind], items, LengthField, fixed, all)
      BY <3>1, <3>2, <3>3 DEF InsertedInto
    <3> HIDE DEF all
    <3>5. Parts(FieldTypes, Fields[s.kind], items, LengthField, fixed, all)
      BY <3>4, Inserted
    <3>6. all \in Seq(FieldTypes)
      BY <3>5 DEF Parts
    <3> QED
      BY <3>6 DEF all
  <2> HIDE DEF fields, fixed, sent
  <2>3. CASE s.length
    BY <1>1, <2>1, <2>2, <2>3
  <2>4. CASE ~s.length
    BY <1>1, <2>1, <2>4
  <2> QED
    BY <2>3, <2>4
<1> QED
  BY <1>2, <1>3, <1>4

LEMMA MessagesStart == MessagesInit => MessagesInv
BY DEF MessagesInit, MessagesInv

LEMMA MessagesStep == MessagesInv /\ [MessagesNext]_messageVars => MessagesInv'
<1> SUFFICES ASSUME MessagesInv, [MessagesNext]_messageVars
             PROVE  MessagesInv'
  OBVIOUS
<1>1. CASE Send
  <2>1. Sent(sender', source') /\ frame' = encode(sender', source') /\ received' = <<>>
    BY <1>1 DEF Send, Sent
  <2>2. PICK bytes \in Nat : /\ Len(encode(sender', source')) = 8 * bytes
                             /\ encode(sender', source')
                                  = SubSeq(encode(sender', source'), 1, 8 * bytes)
    BY <2>1, SentLength
  <2>3. 8 * bytes <= Len(encode(sender', source'))
    BY <2>2
  <2>4. frame' = SubSeq(encode(sender', source'), 1, 8 * bytes)
    BY <2>1, <2>2, Zenon
  <2> QED
    BY <2>1, <2>3, <2>4 DEF MessagesInv
<1>2. CASE Receive
  <2>1. /\ frame # <<>> /\ received = <<>>
        /\ sender' = sender /\ source' = source /\ received' = <<decode(sender.kind, frame')>>
    BY <1>2 DEF Receive
  <2>2. Sent(sender, source) /\ frame = encode(sender, source)
    BY <2>1 DEF MessagesInv
  <2>3. PICK all \in Nat :
          /\ Len(encode(sender, source)) = 8 * all
          /\ encode(sender, source) = SubSeq(encode(sender, source), 1, 8 * all)
    BY <2>2, SentLength
  <2>4. PICK bytes \in {Len(frame) \div 8, (Len(frame) \div 8) - 1} :
          frame' = SubSeq(frame, 1, 8 * bytes)
    BY <1>2 DEF Receive
  <2>5. bytes \in Nat /\ 8 * bytes <= Len(encode(sender, source))
    <3>1. all # 0
      <4>1. encode(sender, source) = SubSeq(encode(sender, source), 1, 8 * all)
        BY <2>3
      <4> QED
        BY <2>1, <2>2, <4>1
    <3>2. Len(frame) = 8 * all /\ (8 * all) \div 8 = all
      BY <2>2, <2>3
    <3> QED
      BY <2>2, <2>3, <2>4, <3>1, <3>2
  <2>6. SubSeq(encode(sender, source), 1, 8 * bytes) = frame'
    BY <2>2, <2>4
  <2>7. received' # <<>>
    BY <2>1
  <2>8. sender' = sender /\ source' = source
    BY <2>1
  <2>9. /\ Sent(sender', source') /\ 8 * bytes <= Len(encode(sender', source'))
        /\ SubSeq(encode(sender', source'), 1, 8 * bytes) = frame'
    BY <2>2, <2>5, <2>6, <2>8, Zenon
  <2>10. received' = <<decode(sender'.kind, frame')>>
    BY <2>1, <2>8, Zenon
  <2> QED
    BY <2>5, <2>7, <2>9, <2>10, Zenon DEF MessagesInv
<1>3. CASE NextMessage
  BY <1>3 DEF NextMessage, MessagesInv
<1>4. CASE UNCHANGED messageVars
  BY <1>4 DEF messageVars, MessagesInv, Sent
<1> QED
  BY <1>1, <1>2, <1>3, <1>4 DEF MessagesNext

-----------------------------------------------------------------------------
(* What is received *)

(* Generated encoder and decoder. *)
LEMMA FieldsComeOut ==
  ASSUME NEW s, NEW v, Sent(s, v), ~s.byHand, ~hasArray(s.kind)
  PROVE  /\ decode(s.kind, encode(s, v)) = [i \in DOMAIN v |-> Nearest(Fields[s.kind][i], v[i])]
         /\ \A bytes \in Nat : 8 * bytes < Len(encode(s, v)) =>
              decode(s.kind, SubSeq(encode(s, v), 1, 8 * bytes)) = Error
<1> DEFINE fields == Fields[s.kind]
           sent == [i \in DOMAIN v |-> Saturate(fields[i], v[i])]
           bits == Encoded(fields, sent, s.fill)
<1>1. fields \in Seq(FieldTypes) /\ v \in Sources(fields) /\ encode(s, v) = bits
  BY SentFields, FieldsAreLists
<1>2. \A b : decode(s.kind, b) = decodeFields(fields, b)
  BY DEF decode
<1> HIDE DEF fields
<1>3. DOMAIN v = 1 .. Len(fields) /\ DOMAIN fields = 1 .. Len(fields)
  BY <1>1, SourceLength
<1>4. decodeFields(fields, bits) = [i \in DOMAIN fields |-> Extend(fields[i], sent[i])]
  BY <1>1, DecodeEncoded
<1>5. ASSUME NEW i \in DOMAIN v
      PROVE  Extend(fields[i], sent[i]) = Nearest(fields[i], v[i])
  <2>1. fields[i] \in FieldTypes /\ v[i] \in Values(fields[i])
    BY <1>1, <1>3, SourceTyped
  <2> QED
    BY <2>1, Saturated
<1>6. \A bytes \in Nat : 8 * bytes < Len(bits) =>
        decodeFields(fields, SubSeq(bits, 1, 8 * bytes)) = Error
  BY <1>1, DecodeShort
<1> HIDE DEF bits, sent
<1>7. decode(s.kind, encode(s, v)) = [i \in DOMAIN v |-> Nearest(fields[i], v[i])]
  BY <1>1, <1>2, <1>3, <1>4, <1>5
<1> QED
  BY <1>1, <1>2, <1>6, <1>7 DEF fields

(* What Generated says of s and v. *)
FromGenerated(s, v, got) ==
  got = [i \in DOMAIN v |->
           Nearest(valueFields(s.kind, FALSE, Len(v) - Len(Fields[s.kind]))[i], v[i])]

(* An array with its length. *)
LEMMA ArrayComesOut ==
  ASSUME NEW s, NEW v, Sent(s, v), hasArray(s.kind), s.length
  PROVE  FromGenerated(s, v, decode(s.kind, encode(s, v)))
<1> DEFINE fixed == Len(Fields[s.kind])
           fields(n) == valueFields(s.kind, FALSE, n)
           sent(n) == [i \in DOMAIN v |-> Saturate(fields(n)[i], v[i])]
<1>1. PICK n \in 0 .. 7 :
        /\ s.kind \in Kinds /\ fields(n) \in Seq(FieldTypes) /\ Len(fields(n)) = fixed + n
        /\ v \in Sources(fields(n))
        /\ encode(s, v) = Encoded(InsertAt(fields(n), fixed + 1, LengthField),
                                  InsertAt(sent(n), fixed + 1, lengthBits(n)), s.fill)
  BY SentArray
<1> DEFINE f == fields(n)
           u == [i \in DOMAIN v |-> Saturate(f[i], v[i])]
           m == Len(v)
           all == InsertAt(f, fixed + 1, LengthField)
           values == InsertAt(u, fixed + 1, lengthBits(n))
<1>2. /\ f \in Seq(FieldTypes) /\ Len(f) = fixed + n /\ v \in Sources(f)
      /\ encode(s, v) = Encoded(all, values, s.fill)
      /\ f = valueFields(s.kind, FALSE, n)
  BY <1>1
<1>3. fixed \in Nat /\ s.kind \in DOMAIN ArrayItem
  BY <1>1, FieldsAreLists DEF hasArray
<1>4. \A g \in Seq(FieldTypes) : v \in Sources(g) =>
        /\ Len(v) = Len(g) /\ DOMAIN v = 1 .. Len(g)
        /\ \A i \in 1 .. Len(g) : g[i] \in FieldTypes /\ v[i] \in Values(g[i])
  <2>1. ASSUME NEW g \in Seq(FieldTypes), v \in Sources(g), NEW i \in 1 .. Len(g)
        PROVE  g[i] \in FieldTypes /\ v[i] \in Values(g[i])
    <3>1. g[i] \in FieldTypes
      OBVIOUS
    <3> QED
      BY <2>1, <3>1, SourceTyped
  <2>2. ASSUME NEW g \in Seq(FieldTypes), v \in Sources(g)
        PROVE  Len(v) = Len(g) /\ DOMAIN v = 1 .. Len(g)
    BY <2>2, SourceLength
  <2> QED
    BY <2>1, <2>2
<1> HIDE DEF fixed, fields, f, all, values
<1>5. /\ m = fixed + n /\ DOMAIN v = 1 .. m /\ m \in Nat
      /\ \A i \in 1 .. m : f[i] \in FieldTypes /\ v[i] \in Values(f[i])
  <2>1. /\ m = Len(f) /\ DOMAIN v = 1 .. Len(f)
        /\ \A i \in 1 .. Len(f) : f[i] \in FieldTypes /\ v[i] \in Values(f[i])
    BY <1>2, <1>4
  <2>2. Len(f) = fixed + n /\ Len(f) \in Nat
    BY <1>2, <1>3
  <2> HIDE DEF m
  <2>3. m = Len(f)
    BY <2>1
  <2> QED
    BY <2>1, <2>2, <2>3, Zenon
<1> HIDE DEF m
<1>6. \A i \in 1 .. m : u[i] = Saturate(f[i], v[i])
  BY <1>5
<1>7. u \in Seq(Elements(u, m)) /\ Len(u) = m
  <2>1. u = [i \in 1 .. m |-> u[i]]
    BY <1>5
  <2> HIDE DEF u
  <2> QED
    BY <1>5, <2>1, ASequence
<1> HIDE DEF u
<1>8. decode(s.kind, encode(s, v)) = [i \in 1 .. m |-> Extend(f[i], u[i])]
  <2>1. Len(u) = Len(Fields[s.kind]) + n
    BY <1>5, <1>7 DEF fixed
  <2> DEFINE S == Elements(u, m)
  <2>2. u \in Seq(S)
    BY <1>7
  <2> HIDE DEF S
  <2>3. decode(s.kind, Encoded(InsertAt(valueFields(s.kind, FALSE, n), Len(Fields[s.kind]) + 1,
                                        LengthField),
                               InsertAt(u, Len(Fields[s.kind]) + 1, lengthBits(n)), s.fill))
          = [i \in 1 .. Len(u) |-> Extend(valueFields(s.kind, FALSE, n)[i], u[i])]
    <3>1. ArraySent(s.kind, n, S, u)
      BY <1>1, <1>3, <2>1, <2>2 DEF ArraySent
    <3>2. ArrayRead(s.kind, n, u, s.fill)
      BY <3>1, ArrayDecoded
    <3> QED
      BY <3>2, Zenon DEF ArrayRead
  <2>4. decode(s.kind, Encoded(all, values, s.fill)) = [i \in 1 .. Len(u) |-> Extend(f[i], u[i])]
    BY <1>2, <2>3, Zenon DEF fixed, all, values
  <2> QED
    BY <1>2, <1>7, <2>4, Zenon
<1>9. ASSUME NEW i \in 1 .. m
      PROVE  Extend(f[i], u[i]) = Nearest(f[i], v[i])
  <2>1. f[i] \in FieldTypes /\ v[i] \in Values(f[i]) /\ u[i] = Saturate(f[i], v[i])
    BY <1>5, <1>6
  <2> QED
    BY <2>1, Saturated
<1>10. n = Len(v) - Len(Fields[s.kind])
  BY <1>3, <1>5 DEF m, fixed
<1>11. decode(s.kind, encode(s, v)) = [i \in DOMAIN v |-> Nearest(f[i], v[i])]
  BY <1>5, <1>8, <1>9
<1> QED
  BY <1>2, <1>10, <1>11 DEF FromGenerated

(* What FilledByHand says of s and v. *)
FromByHandWith(more, s, v, got) ==
  /\ DOMAIN got = 1 .. Len(v) + more
  /\ more = 1 => got[1] = <<1>> /\ got[2] = <<1>>
  /\ \A i \in DOMAIN v :
       i > more /\ inRange(ByHand[s.kind][i], v[i]) => got[i + more] = v[i]

FromByHand(s, v, got) == FromByHandWith(IF s.kind = "Environment" THEN 1 ELSE 0, s, v, got)

(* A frame that is filled in by hand. *)
LEMMA FilledComesOut ==
  ASSUME NEW s, NEW v, Sent(s, v), s.byHand
  PROVE  /\ FromByHand(s, v, decode(s.kind, encode(s, v)))
         /\ \A bytes \in Nat : 8 * bytes < Len(encode(s, v)) =>
              decode(s.kind, SubSeq(encode(s, v), 1, 8 * bytes)) = Error
<1>1. /\ s.kind \in DOMAIN ByHand /\ ~hasArray(s.kind)
      /\ v \in SourcesByHand(s.kind)
      /\ encode(s, v) = Encoded(ByHand[s.kind], v, s.fill)
  BY SentByHand
<1>2. \A b : decode(s.kind, b) = decodeFields(Fields[s.kind], b)
  BY <1>1 DEF decode
<1>3. CASE s.kind # "Environment"
  <2> DEFINE list == Fields[s.kind]
  <2>1. /\ ByHand[s.kind] = list /\ Fields[s.kind] = list
        /\ list \in Seq(FieldTypes) /\ v \in Sources(list)
    <3>1. ByHand[s.kind] = list
      BY <1>1, <1>3, ByHandAreLists
    <3>2. list \in Seq(FieldTypes)
      BY <1>1, ByHandAreLists, FieldsAreLists
    <3> QED
      BY <1>1, <1>3, <3>1, <3>2 DEF SourcesByHand
  <2> HIDE DEF list
  <2>2. Len(v) = Len(list) /\ DOMAIN v = 1 .. Len(v) /\ DOMAIN list = 1 .. Len(v)
    BY <2>1, SourceLength
  <2>3. decodeFields(list, Encoded(list, v, s.fill))
          = [i \in DOMAIN list |-> Extend(list[i], v[i])]
    BY <2>1, DecodeEncoded
  <2>4. ASSUME NEW i \in DOMAIN v, inRange(list[i], v[i])
        PROVE  Extend(list[i], v[i]) = v[i]
    <3>1. list[i] \in FieldTypes /\ v[i] \in Values(list[i])
      BY <2>1, <2>2, SourceTyped
    <3> QED
      BY <2>4, <3>1, InRangeExtended
  <2>5. \A bytes \in Nat : 8 * bytes < Len(Encoded(list, v, s.fill)) =>
          decodeFields(list, SubSeq(Encoded(list, v, s.fill), 1, 8 * bytes)) = Error
    BY <2>1, DecodeShort
  <2>6. decode(s.kind, encode(s, v)) = [i \in 1 .. Len(v) |-> Extend(list[i], v[i])]
    BY <1>1, <1>2, <2>1, <2>2, <2>3
  <2> DEFINE got == decode(s.kind, encode(s, v))
  <2>7. DOMAIN got = 1 .. Len(v) /\ \A i \in 1 .. Len(v) : got[i] = Extend(list[i], v[i])
    BY <2>6
  <2>8. Len(v) \in Nat
    BY <2>1, <2>2
  <2> HIDE DEF got
  <2>9. FromByHand(s, v, got)
    <3>1. \A i \in DOMAIN v : inRange(ByHand[s.kind][i], v[i]) => got[i] = v[i]
      BY <2>1, <2>2, <2>4, <2>7
    <3>2. \A i \in DOMAIN v : i + 0 = i
      BY <2>2
    <3>3. Len(v) + 0 = Len(v)
      BY <2>8
    <3>4. (IF s.kind = "Environment" THEN 1 ELSE 0) = 0
      BY <1>3
    <3>5. FromByHandWith(0, s, v, got)
      BY <2>7, <3>1, <3>2, <3>3 DEF FromByHandWith
    <3> QED
      BY <3>4, <3>5 DEF FromByHand
  <2>10. encode(s, v) = Encoded(list, v, s.fill)
    BY <1>1, <2>1
  <2>11. \A b : decode(s.kind, b) = decodeFields(list, b)
    BY <1>2, <2>1
  <2> QED
    BY <2>5, <2>9, <2>10, <2>11 DEF got
<1>4. CASE s.kind = "Environment"
  <2>1. /\ ByHand[s.kind] = EnvironmentByHand /\ Fields[s.kind] = Environment
        /\ EnvironmentByHand \in Seq(FieldTypes) /\ DOMAIN EnvironmentByHand = 1 .. 4
        /\ Len(EnvironmentByHand) = 4
        /\ v \in SourcesByHand("Environment")
    <3>1. ByHand[s.kind] = EnvironmentByHand
      BY <1>4, ByHandAreLists
    <3>2. Fields[s.kind] = Environment
      BY <1>4 DEF Fields
    <3>3. EnvironmentByHand \in Seq(FieldTypes)
      BY ByHandAreLists
    <3>4. Len(EnvironmentByHand) = 4 /\ DOMAIN EnvironmentByHand = 1 .. 4
      BY DEF EnvironmentByHand
    <3> QED
      BY <1>1, <1>4, <3>1, <3>2, <3>3, <3>4
  <2> DEFINE bits == Encoded(EnvironmentByHand, v, s.fill)
             got == decodeFields(Environment, bits)
  <2>2. /\ DOMAIN got = 1 .. 5 /\ got[1] = <<1>> /\ got[2] = <<1>>
        /\ \A i \in 2 .. 4 : got[i + 1] = Extend(EnvironmentByHand[i], v[i])
    BY <2>1, EnvironmentDecoded
  <2>3. /\ Len(v) = 4 /\ DOMAIN v = 1 .. 4
        /\ \A i \in 2 .. 4 : v[i] \in Values(EnvironmentByHand[i])
    BY <2>1, EnvironmentSource
  <2>4. ASSUME NEW bytes \in Nat, 8 * bytes < Len(bits)
        PROVE  decodeFields(Environment, SubSeq(bits, 1, 8 * bytes)) = Error
    <3>1. Len(bits) = 56 /\ bits \in Seq(Elements(bits, 56)) /\ end(Environment) = 56
      <4>1. bytesOf(EnvironmentByHand) = 7 /\ end(Environment) = 56
        BY EnvironmentOffsets DEF bytesOf
      <4>2. 8 * bytesOf(EnvironmentByHand) = 56
        BY <4>1
      <4>3. /\ Len(bits) = 8 * bytesOf(EnvironmentByHand)
            /\ bits \in Seq(Elements(bits, 8 * bytesOf(EnvironmentByHand)))
        BY <2>1, EncodedLength
      <4> HIDE DEF bits
      <4> QED
        BY <4>1, <4>2, <4>3
    <3> HIDE DEF bits
    <3>2. Len(SubSeq(bits, 1, 8 * bytes)) = 8 * bytes
      BY <2>4, <3>1
    <3>3. end(Environment) > Len(SubSeq(bits, 1, 8 * bytes))
      BY <2>4, <3>1, <3>2
    <3> QED
      BY <3>3 DEF decodeFields
  <2>5. decode(s.kind, encode(s, v)) = got /\ encode(s, v) = bits
    BY <1>1, <1>2, <2>1
  <2> HIDE DEF got, bits
  <2>6. ASSUME NEW i \in 2 .. 4, inRange(EnvironmentByHand[i], v[i])
        PROVE  got[i + 1] = v[i]
    <3>1. EnvironmentByHand[i] \in FieldTypes
      <4>1. /\ EnvironmentByHand[2] = Signed(19, 32) /\ EnvironmentByHand[3] = Unsigned(17, 32)
            /\ EnvironmentByHand[4] = Unsigned(18, 32)
        BY DEF EnvironmentByHand
      <4> QED
        BY <4>1, FieldTyped
    <3> QED
      BY <2>2, <2>3, <2>6, <3>1, InRangeExtended
  <2>7. \A i \in DOMAIN v : i > 1 => i \in 2 .. 4
    BY <2>3
  <2>8. Len(v) + 1 = 5
    BY <2>3
  <2>9. FromByHand(s, v, got)
    <3>1. \A i \in DOMAIN v : i > 1 /\ inRange(ByHand[s.kind][i], v[i]) => got[i + 1] = v[i]
      BY <2>1, <2>6, <2>7
    <3>2. (IF s.kind = "Environment" THEN 1 ELSE 0) = 1
      BY <1>4
    <3> QED
      BY <2>2, <2>8, <3>1, <3>2 DEF FromByHand, FromByHandWith
  <2>10. \A b : decode(s.kind, b) = decodeFields(Environment, b)
    BY <1>2, <2>1
  <2> QED
    BY <2>4, <2>5, <2>9, <2>10
<1> QED
  BY <1>1, <1>3, <1>4

LEMMA ComesOut == MessagesInv => RoundTrip
<1> SUFFICES ASSUME MessagesInv, received # <<>> PROVE RoundTrip
  BY DEF RoundTrip
<1> DEFINE bits == encode(sender, source)
           got == received[1]
           whole == Len(frame) = Len(bits)
<1>1. Sent(sender, source) /\ got = decode(sender.kind, frame)
  BY DEF MessagesInv
<1>2. PICK bytes \in Nat : 8 * bytes <= Len(bits) /\ frame = SubSeq(bits, 1, 8 * bytes)
  BY DEF MessagesInv
<1>3. PICK all \in Nat : /\ Len(bits) = 8 * all /\ bits = SubSeq(bits, 1, 8 * all)
                         /\ \A m \in 0 .. all : Len(SubSeq(bits, 1, 8 * m)) = 8 * m
  BY <1>1, SentLength
<1> HIDE DEF bits, got
<1>4. IF bytes = all THEN whole /\ frame = bits ELSE ~whole /\ 8 * bytes < Len(bits)
  <2>1. bytes \in 0 .. all
    BY <1>2, <1>3
  <2>2. Len(frame) = 8 * bytes
    BY <1>2, <1>3, <2>1
  <2> QED
    BY <1>2, <1>3, <2>1, <2>2
<1>5. CASE hasArray(sender.kind)
  <2>1. ASSUME whole, sender.length
        PROVE  Generated(got)
    <3>1. got = decode(sender.kind, encode(sender, source))
      BY <1>1, <1>4, <2>1 DEF bits
    <3>2. FromGenerated(sender, source, decode(sender.kind, encode(sender, source)))
      BY <1>1, <1>5, <2>1, ArrayComesOut
    <3> QED
      BY <3>1, <3>2 DEF Generated, FromGenerated
  <2> QED
    BY <1>5, <2>1 DEF RoundTrip, bits, got
<1>6. CASE ~hasArray(sender.kind) /\ ~sender.byHand
  <2>1. /\ decode(sender.kind, bits)
             = [i \in DOMAIN source |-> Nearest(Fields[sender.kind][i], source[i])]
        /\ 8 * bytes < Len(bits) => decode(sender.kind, SubSeq(bits, 1, 8 * bytes)) = Error
    BY <1>1, <1>6, FieldsComeOut DEF bits
  <2>2. \A n : valueFields(sender.kind, FALSE, n) = Fields[sender.kind]
    BY <1>6 DEF valueFields
  <2>3. whole => Generated(got)
    BY <1>1, <1>4, <2>1, <2>2 DEF Generated
  <2>4. ~whole => got = Error
    BY <1>1, <1>2, <1>4, <2>1
  <2> QED
    BY <1>6, <2>3, <2>4 DEF RoundTrip, bits, got
<1>7. CASE ~hasArray(sender.kind) /\ sender.byHand
  <2>1. whole => FilledByHand(got)
    <3>1. FromByHand(sender, source, decode(sender.kind, bits))
      BY <1>1, <1>7, FilledComesOut DEF bits
    <3> QED
      BY <1>1, <1>4, <3>1 DEF FilledByHand, FromByHand, FromByHandWith
  <2>2. ~whole => got = Error
    <3>1. 8 * bytes < Len(bits) => decode(sender.kind, SubSeq(bits, 1, 8 * bytes)) = Error
      BY <1>1, <1>7, FilledComesOut DEF bits
    <3> QED
      BY <1>1, <1>2, <1>4, <3>1
  <2> QED
    BY <1>7, <2>1, <2>2 DEF RoundTrip, bits, got
<1> QED
  BY <1>5, <1>6, <1>7

-----------------------------------------------------------------------------
(* The theorems *)

(* The frame is what the sender encoded or its first bytes, and what is    *)
(* received is what the decoder makes of it.                               *)
THEOREM MessagesInvariant == MessagesSpec => []MessagesInv
<1> QED
  BY MessagesStart, MessagesStep, PTL DEF MessagesSpec

(* A message comes out as it went in, with every value the nearest its     *)
(* field can say, an array that is sent with its length too, and from a    *)
(* frame filled in by hand every value that is in range; a message that is *)
(* too short is an error.                                                  *)
THEOREM MessagesComeOut == MessagesSpec => []RoundTrip
<1> QED
  BY MessagesInvariant, ComesOut, PTL

=============================================================================
