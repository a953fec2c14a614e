------------------------------ MODULE Sml_proofs ------------------------------
(***************************************************************************)
(* Entries without a time are reported or discarded as they should, for    *)
(* all numbers, units, values, lengths and bytes in between.  The          *)
(* invariant ties the state of the parser to the place in the entry, and   *)
(* the bytes of the value in the parser to those of the entry.  A value    *)
(* that is no number is searched for a prefix, but is too short for        *)
(* another entry: the parser advances by one place a byte.                 *)
(***************************************************************************)
EXTENDS Sml, TLAPS

-----------------------------------------------------------------------------
(* The inductive invariant *)

Entries ==
  {e \in [obis : ObisCodes, status : EntryStatuses, time : EntryTimes, unit : Units, kind : Kinds,
          value : Seq(ValueBytes)] :
     e.value \in [1 .. e.kind.bytes -> ValueBytes]}

ParserStates == {"SEARCH_PREFIX", "PARSE_OBIS", "SKIP_STATUS", "SKIP_VALTIME", "UNIT",
                 "SKIP_SCALER", "VALUE"}

Parsers ==
  [state : ParserStates, substate : Nat, state_buf : Nat, sign : BOOLEAN,
   unit : Int, obis : Int, value : [0 .. VALUE_BYTES - 1 -> Int]]

Length(e, f) == Len(EntryFields(e)[f])

SmlTypeOK ==
  /\ parser \in Parsers /\ ready \in BOOLEAN
  /\ entry = <<>> \/ entry \in Entries
  /\ at \in [field : 1 .. FIELDS + 1, byte : Nat \ {0}]
  /\ ~NoEntry => entry \in Entries /\ at.byte <= Length(entry, at.field)

IsAt(p, state, substate) == p.state = state /\ p.substate = substate

Signed(e) == e.kind.type = "int"

(* The parser p after the first n bytes of a number. *)
AtNumber(p, e, n) ==
  /\ IsAt(p, "VALUE", n + 1)
  /\ p.state_buf = e.kind.bytes + 1
  /\ (p.sign <=> Signed(e))
  /\ \A j \in 1 .. n : p.value[e.kind.bytes - j] = e.value[j]

(* How far the parser is: a bound on the bytes it has read of an entry. *)
Place(p) ==
  CASE p.state = "SEARCH_PREFIX" -> p.substate
    [] p.state = "PARSE_OBIS"    -> 4 + p.substate
    [] p.state = "SKIP_STATUS"   -> 8
    [] p.state = "SKIP_VALTIME"  -> 9
    [] p.state = "UNIT"          -> 10
    [] p.state = "SKIP_SCALER"   -> 11
    [] p.state = "VALUE"         -> 12

SkipState(f) ==
  CASE f = 3 -> "SKIP_STATUS" [] f = 4 -> "SKIP_VALTIME" [] f = 5 -> "UNIT" [] f = 6 -> "SKIP_SCALER"

AtPrefix(p, b) == IsAt(p, "SEARCH_PREFIX", b - 1)

AtObis(p, e, b) == IsAt(p, "PARSE_OBIS", b - 1) /\ (b > 1 => p.obis = e.obis)

AtSkip(p, e, f, b) ==
  /\ IsAt(p, SkipState(f), b - 1) /\ p.obis = e.obis
  /\ b > 1 => p.state_buf = Length(e, f)
  /\ f = 6 /\ IsNumber(e) => p.unit = e.unit

AtValue(p, e, b) ==
  /\ p.obis = e.obis \/ ~IsNumber(e)
  /\ p.unit = e.unit \/ ~IsNumber(e)
  /\ b = 1 => IsAt(p, "VALUE", 0)
  /\ b > 1 /\ IsNumber(e) => AtNumber(p, e, b - 2)
  /\ b > 1 /\ ~IsNumber(e) => Place(p) <= b - 1

(* The parser p before byte b of field f of the entry e. *)
At(p, e, f, b) ==
  /\ f = 1 => AtPrefix(p, b)
  /\ f = 2 => AtObis(p, e, b)
  /\ f \in 3 .. 6 => AtSkip(p, e, f, b)
  /\ f = 7 => AtValue(p, e, b)

SmlInv ==
  /\ SmlTypeOK
  /\ ~NoEntry /\ ready /\ entry.time = absent =>
       sent = <<>> /\ At(parser, entry, at.field, at.byte)
  /\ EntryReported

-----------------------------------------------------------------------------
(* The bytes of an entry *)

LEMMA EntryIs ==
  ASSUME NEW e \in Entries
  PROVE  /\ e.obis \in Int /\ e.unit \in Int /\ e.status \in EntryStatuses /\ e.time \in EntryTimes
         /\ e.kind.type \in {"int", "uint", "other"} /\ VALUE_BYTES \in 1 .. 8
         /\ e.kind.bytes \in 0 .. 10
         /\ IsNumber(e) => e.kind.bytes \in 1 .. VALUE_BYTES
         /\ e.value \in Seq(Int) /\ Len(e.value) = e.kind.bytes
<1>1. VALUE_BYTES \in 1 .. 8 /\ OTHER_BYTES \in 0 .. 10 /\ ObisCodes \subseteq Int
      /\ Units \subseteq Int /\ ValueBytes \subseteq Int
  BY SmlAssumption
<1>2. /\ e.obis \in ObisCodes /\ e.unit \in Units /\ e.kind \in Kinds
      /\ e.status \in EntryStatuses /\ e.time \in EntryTimes
      /\ e.value \in [1 .. e.kind.bytes -> ValueBytes]
  BY DEF Entries
<1>3. /\ e.kind.type \in {"int", "uint", "other"} /\ e.kind.bytes \in 0 .. 10
      /\ IsNumber(e) => e.kind.bytes \in 1 .. VALUE_BYTES
  BY <1>1, <1>2 DEF Kinds, IsNumber
<1>4. Len(e.value) = e.kind.bytes /\ e.value \in Seq(Int)
  <2>1. e.kind.bytes \in Nat
    BY <1>3
  <2>2. e.value \in [1 .. e.kind.bytes -> Int]
    BY <1>1, <1>2
  <2>3. \A n \in Nat : \A f \in [1 .. n -> Int] : f \in Seq(Int) /\ Len(f) = n
    OBVIOUS
  <2> QED
    BY <2>1, <2>2, <2>3
<1> QED
  BY <1>1, <1>2, <1>3, <1>4

(* The byte before the value tells type and length. *)
LEMMA TypeLengthIs ==
  ASSUME NEW e \in Entries
  PROVE  /\ typeLength(e.kind) \in Int
         /\ typeLength(e.kind) % 16 = e.kind.bytes + 1
         /\ (typeLength(e.kind) \div 16 = 5 <=> Signed(e))
         /\ isNumber(typeLength(e.kind)) <=> IsNumber(e)
<1> DEFINE n == e.kind.bytes + 1
<1>1. n \in 1 .. 11 /\ (IsNumber(e) => n <= VALUE_BYTES + 1) /\ VALUE_BYTES \in 1 .. 8
      /\ e.kind.type \in {"int", "uint", "other"}
  <2>1. /\ e.kind.bytes \in 0 .. 10 /\ (IsNumber(e) => e.kind.bytes \in 1 .. VALUE_BYTES)
        /\ e.kind.type \in {"int", "uint", "other"}
    BY EntryIs
  <2>2. VALUE_BYTES \in 1 .. 8
    BY SmlAssumption
  <2> QED
    BY <2>1, <2>2
<1>2. typeLength(e.kind) = n + IF e.kind.type = "int" THEN 80
                               ELSE IF e.kind.type = "uint" THEN 96 ELSE 0
  BY <1>1 DEF typeLength
<1> HIDE DEF n
<1>3. /\ (n + 80) % 16 = n /\ (n + 80) \div 16 = 5
      /\ (n + 96) % 16 = n /\ (n + 96) \div 16 = 6
      /\ (n + 0) % 16 = n /\ (n + 0) \div 16 = 0
  BY <1>1
<1>4. CASE e.kind.type = "int"
  BY <1>1, <1>2, <1>3, <1>4 DEF isNumber, IsNumber, n, Signed
<1>5. CASE e.kind.type = "uint"
  BY <1>1, <1>2, <1>3, <1>5 DEF isNumber, IsNumber, n, Signed
<1>6. CASE e.kind.type = "other"
  BY <1>1, <1>2, <1>3, <1>6 DEF isNumber, IsNumber, n, Signed
<1> QED
  BY <1>1, <1>4, <1>5, <1>6

(* The fields are sequences of bytes. *)
LEMMA FieldIs ==
  ASSUME NEW e \in Entries, NEW f \in 1 .. FIELDS
  PROVE  EntryFields(e)[f] \in Seq(Int) /\ Length(e, f) \in Nat \ {0}
<1>1. /\ e.obis \in Int /\ e.unit \in Int /\ typeLength(e.kind) \in Int /\ e.value \in Seq(Int)
      /\ e.status \in EntryStatuses /\ e.time \in EntryTimes
  BY EntryIs, TypeLengthIs
<1>2. /\ EntryFields(e)[1] = prefix /\ EntryFields(e)[2] = <<e.obis, 8, 0, 255>>
      /\ EntryFields(e)[3] = e.status /\ EntryFields(e)[4] = e.time
      /\ EntryFields(e)[5] = Unit(e) /\ EntryFields(e)[6] = Scaler(e)
      /\ EntryFields(e)[7] = <<typeLength(e.kind)>> \o e.value
  BY DEF EntryFields
<1> DEFINE OK(s) == s \in Seq(Int) /\ Len(s) \in Nat \ {0}
<1>3. OK(<<98, e.unit>>) /\ OK(<<82, 255>>)
  BY <1>1
<1>4. OK(absent)
  BY DEF absent
<1>5. OK(prefix)
  BY DEF prefix
<1>6. OK(<<e.obis, 8, 0, 255>>)
  BY <1>1
<1>7. OK(e.status)
  <2>1. OK(<<101, 0, 1, 1, 130>>)
    OBVIOUS
  <2> HIDE DEF OK
  <2> QED
    BY <1>1, <1>4, <2>1 DEF EntryStatuses
<1>8. OK(e.time)
  <2>1. OK(<<114, 98, 1, 101, 1, 2, 3, 4>>)
    OBVIOUS
  <2> HIDE DEF OK
  <2> QED
    BY <1>1, <1>4, <2>1 DEF EntryTimes
<1>9. OK(Unit(e))
  <2> HIDE DEF OK
  <2> QED
    BY <1>3, <1>4 DEF Unit
<1>10. OK(Scaler(e))
  <2> HIDE DEF OK
  <2> QED
    BY <1>3, <1>4 DEF Scaler
<1>11. OK(<<typeLength(e.kind)>> \o e.value)
  BY <1>1
<1> HIDE DEF OK
<1>12. \/ f = 1 \/ f = 2 \/ f = 3 \/ f = 4 \/ f = 5 \/ f = 6 \/ f = 7
  BY DEF FIELDS
<1>13. OK(EntryFields(e)[f])
  BY <1>2, <1>5, <1>6, <1>7, <1>8, <1>9, <1>10, <1>11, <1>12
<1> QED
  BY <1>13 DEF OK, Length

(* The bytes that the parser looks at. *)
LEMMA BytesAre ==
  ASSUME NEW e \in Entries
  PROVE  /\ EntryFields(e)[1] = prefix /\ Length(e, 1) = 4
         /\ EntryFields(e)[2][1] = e.obis /\ Length(e, 2) = 4
         /\ IsNumber(e) => Length(e, 5) = 2 /\ EntryFields(e)[5][2] = e.unit
         /\ Length(e, 7) = e.kind.bytes + 1 /\ EntryFields(e)[7][1] = typeLength(e.kind)
         /\ \A j \in 1 .. e.kind.bytes : EntryFields(e)[7][j + 1] = e.value[j]
<1>1. /\ EntryFields(e)[1] = prefix /\ EntryFields(e)[2] = <<e.obis, 8, 0, 255>>
      /\ EntryFields(e)[5] = Unit(e) /\ EntryFields(e)[7] = <<typeLength(e.kind)>> \o e.value
  BY DEF EntryFields
<1>2. IsNumber(e) => Unit(e) = <<98, e.unit>>
  BY DEF Unit, IsNumber
<1>3. /\ typeLength(e.kind) \in Int /\ e.value \in Seq(Int) /\ Len(e.value) = e.kind.bytes
  BY EntryIs, TypeLengthIs
<1>4. /\ Len(<<typeLength(e.kind)>> \o e.value) = e.kind.bytes + 1
      /\ (<<typeLength(e.kind)>> \o e.value)[1] = typeLength(e.kind)
      /\ \A j \in 1 .. e.kind.bytes : (<<typeLength(e.kind)>> \o e.value)[j + 1] = e.value[j]
  BY <1>3
<1>5. Len(prefix) = 4
  BY DEF prefix
<1>6. EntryFields(e)[2][1] = e.obis /\ Len(EntryFields(e)[2]) = 4
  BY <1>1
<1>7. IsNumber(e) => Len(EntryFields(e)[5]) = 2 /\ EntryFields(e)[5][2] = e.unit
  BY <1>1, <1>2
<1> QED
  BY <1>1, <1>4, <1>5, <1>6, <1>7, Zenon DEF Length

(* A field that is skipped begins with its length, unless it is a list. *)
LEMMA SkippedIs ==
  ASSUME NEW e \in Entries, e.time = absent, NEW f \in 3 .. 6
  PROVE  EntryFields(e)[f][1] % 16 = Length(e, f)
<1>1. e.status \in EntryStatuses
  BY EntryIs
<1>2. /\ EntryFields(e)[3] = e.status /\ EntryFields(e)[4] = absent
      /\ EntryFields(e)[5] = Unit(e) /\ EntryFields(e)[6] = Scaler(e)
  BY DEF EntryFields
<1> DEFINE OK(s) == s[1] % 16 = Len(s)
<1>3. OK(absent)
  BY DEF absent
<1>4. OK(e.status)
  <2>1. OK(<<101, 0, 1, 1, 130>>)
    OBVIOUS
  <2> HIDE DEF OK
  <2> QED
    BY <1>1, <1>3, <2>1 DEF EntryStatuses
<1>5. OK(Unit(e))
  <2>1. OK(<<98, e.unit>>)
    OBVIOUS
  <2> HIDE DEF OK
  <2> QED
    BY <1>3, <2>1 DEF Unit
<1>6. OK(Scaler(e))
  <2>1. OK(<<82, 255>>)
    OBVIOUS
  <2> HIDE DEF OK
  <2> QED
    BY <1>3, <2>1 DEF Scaler
<1> HIDE DEF OK
<1>7. f = 3 \/ f = 4 \/ f = 5 \/ f = 6
  OBVIOUS
<1>8. OK(EntryFields(e)[f])
  BY <1>2, <1>3, <1>4, <1>5, <1>6, <1>7
<1> QED
  BY <1>8 DEF OK, Length

LEMMA BytesAreInts ==
  ASSUME NEW e \in Entries, NEW f \in 1 .. FIELDS, NEW b \in 1 .. Length(e, f)
  PROVE  EntryFields(e)[f][b] \in Int
<1> DEFINE s == EntryFields(e)[f]
<1>1. s \in Seq(Int) /\ b \in 1 .. Len(s)
  BY FieldIs DEF Length
<1> HIDE DEF s
<1>2. s[b] \in Int
  BY <1>1
<1> QED
  BY <1>2 DEF s

-----------------------------------------------------------------------------
(* The parser *)

(* What one byte does to the parser, one state after the other. *)
LEMMA ToStep ==
  ASSUME NEW p \in Parsers, NEW state \in ParserStates
  PROVE  LET q == To(p, state)
         IN  /\ q \in Parsers /\ q.state = state /\ q.substate = 0
             /\ q.obis = p.obis /\ q.unit = p.unit /\ q.state_buf = p.state_buf
             /\ q.sign = p.sign /\ q.value = p.value
BY DEF To, Parsers

LEMMA CountStep ==
  ASSUME NEW p \in Parsers, NEW n \in Nat
  PROVE  LET q == [p EXCEPT !.substate = n]
         IN  /\ q \in Parsers /\ q.state = p.state /\ q.substate = n
             /\ q.obis = p.obis /\ q.unit = p.unit /\ q.state_buf = p.state_buf
             /\ q.sign = p.sign /\ q.value = p.value
BY DEF Parsers

LEMMA SearchPrefixStep ==
  ASSUME NEW p \in Parsers, NEW msg \in Int, p.substate \in 0 .. 3
  PROVE  LET q == SearchPrefix(p, msg)
         IN  /\ q \in Parsers /\ q.obis = p.obis /\ q.unit = p.unit
             /\ p.state = "SEARCH_PREFIX" =>
                  IF msg = prefix[p.substate + 1]
                  THEN IF p.substate < 3 THEN q.state = "SEARCH_PREFIX" /\ q.substate = p.substate + 1
                       ELSE q.state = "PARSE_OBIS" /\ q.substate = 0
                  ELSE q.state = "SEARCH_PREFIX" /\ q.substate = 0
<1>1. SearchPrefix(p, msg) =
        IF msg # prefix[p.substate + 1] THEN [p EXCEPT !.substate = 0]
        ELSE IF p.substate < 3 THEN [p EXCEPT !.substate = p.substate + 1]
        ELSE To(p, "PARSE_OBIS")
  BY DEF SearchPrefix
<1>2. CASE msg # prefix[p.substate + 1]
  BY <1>1, <1>2, CountStep
<1>3. CASE msg = prefix[p.substate + 1] /\ p.substate < 3
  BY <1>1, <1>3, CountStep
<1>4. CASE msg = prefix[p.substate + 1] /\ p.substate = 3
  BY <1>1, <1>4, ToStep DEF ParserStates
<1> QED
  BY <1>2, <1>3, <1>4

LEMMA ParseObisStep ==
  ASSUME NEW p \in Parsers, NEW msg \in Int, p.state = "PARSE_OBIS"
  PROVE  LET q == ParseObis(p, msg)
         IN  /\ q \in Parsers
             /\ q.obis = IF p.substate = 0 THEN msg ELSE p.obis
             /\ IF p.substate < 3 THEN q.state = "PARSE_OBIS" /\ q.substate = p.substate + 1
                ELSE q.state = "SKIP_STATUS" /\ q.substate = 0
<1> DEFINE q == IF p.substate = 0 THEN [p EXCEPT !.obis = msg] ELSE p
<1>1. /\ q \in Parsers /\ q.obis = (IF p.substate = 0 THEN msg ELSE p.obis)
      /\ q.state = "PARSE_OBIS" /\ q.substate = p.substate
  BY DEF Parsers
<1>2. ParseObis(p, msg) = IF p.substate < 3 THEN [q EXCEPT !.substate = q.substate + 1]
                          ELSE To(q, "SKIP_STATUS")
  BY DEF ParseObis
<1>3. q.substate + 1 \in Nat
  BY <1>1 DEF Parsers
<1> HIDE DEF q
<1>4. CASE p.substate < 3
  BY <1>1, <1>2, <1>3, <1>4, CountStep
<1>5. CASE ~ p.substate < 3
  BY <1>1, <1>2, <1>5, ToStep DEF ParserStates
<1> QED
  BY <1>4, <1>5

LEMMA SkipFieldStep ==
  ASSUME NEW p \in Parsers, NEW msg \in Int,
         p.state \in {"SKIP_STATUS", "SKIP_VALTIME", "UNIT", "SKIP_SCALER"}
  PROVE  LET q == SkipField(p, msg)
             n == IF p.substate = 0 THEN msg % 16 ELSE p.state_buf
         IN  /\ q \in Parsers
             /\ q.obis = p.obis
             /\ q.state_buf = n
             /\ q.unit = IF p.state = "UNIT" /\ p.substate + 1 >= n THEN msg ELSE p.unit
             /\ IF p.substate + 1 >= n THEN q.state = After(p.state) /\ q.substate = 0
                ELSE q.state = p.state /\ q.substate = p.substate + 1
<1> DEFINE n == IF p.substate = 0 THEN msg % 16 ELSE p.state_buf
           q == IF p.substate = 0 THEN [p EXCEPT !.state_buf = msg % 16] ELSE p
           u == IF p.state = "UNIT" THEN [q EXCEPT !.unit = msg] ELSE q
<1>1. msg % 16 \in Nat
  OBVIOUS
<1>2. /\ q \in Parsers /\ q.obis = p.obis /\ q.unit = p.unit /\ q.state_buf = n /\ n \in Nat
      /\ q.state = p.state /\ q.substate = p.substate
  BY <1>1 DEF Parsers
<1> HIDE DEF n, q
<1>3. /\ u \in Parsers /\ u.obis = p.obis /\ u.state_buf = n
      /\ u.unit = (IF p.state = "UNIT" THEN msg ELSE p.unit)
      /\ u.state = p.state /\ u.substate = p.substate
  BY <1>2 DEF Parsers
<1> HIDE DEF u
<1>4. After(p.state) \in ParserStates
  BY DEF After, ParserStates
<1> QED
  <2>1. SkipField(p, msg) = IF p.substate + 1 >= n THEN To(u, After(p.state))
                            ELSE [q EXCEPT !.substate = q.substate + 1]
    BY <1>2 DEF SkipField, n, q, u
  <2>2. q.substate + 1 \in Nat
    BY <1>2 DEF Parsers
  <2>3. CASE p.substate + 1 >= n
    BY <1>3, <1>4, <2>1, <2>3, ToStep DEF n
  <2>4. CASE ~ p.substate + 1 >= n
    BY <1>2, <2>1, <2>4, <2>2, CountStep DEF n
  <2> QED
    BY <2>3, <2>4 DEF n

LEMMA ValueHeadStep ==
  ASSUME NEW p \in Parsers, NEW msg \in Int
  PROVE  LET q == ValueHead(p, msg)
         IN  /\ q \in Parsers
             /\ q.obis = p.obis /\ q.unit = p.unit
             /\ q.state_buf = msg % 16 /\ (q.sign <=> msg \div 16 = 5)
             /\ q.state = (IF isNumber(msg) THEN "VALUE" ELSE "SEARCH_PREFIX")
             /\ q.substate = 1
<1>1. msg % 16 \in Nat
  OBVIOUS
<1> QED
  BY <1>1 DEF ValueHead, Parsers, ParserStates

LEMMA ValueByteStep ==
  ASSUME NEW p \in Parsers, NEW msg \in Int, VALUE_BYTES \in Nat,
         NEW i \in 0 .. VALUE_BYTES - 1, i = p.state_buf - 1 - p.substate
  PROVE  LET q == ValueByte(p, msg)
         IN  /\ q \in Parsers
             /\ q.obis = p.obis /\ q.unit = p.unit /\ q.sign = p.sign
             /\ q.state_buf = p.state_buf /\ q.state = p.state
             /\ q.substate = p.substate + 1
             /\ q.value = [p.value EXCEPT ![i] = msg]
<1>1. [p.value EXCEPT ![i] = msg] \in [0 .. VALUE_BYTES - 1 -> Int]
  BY DEF Parsers
<1>2. ValueByte(p, msg) = [p EXCEPT !.value = [p.value EXCEPT ![i] = msg], !.substate = p.substate + 1]
  BY DEF ValueByte
<1>3. [p EXCEPT !.value = [p.value EXCEPT ![i] = msg]] \in Parsers
  BY <1>1 DEF Parsers
<1>4. ValueByte(p, msg) =
        [[p EXCEPT !.value = [p.value EXCEPT ![i] = msg]] EXCEPT !.substate = p.substate + 1]
  BY <1>2 DEF Parsers
<1>5. p.substate + 1 \in Nat
  BY DEF Parsers
<1> DEFINE r == [p EXCEPT !.value = [p.value EXCEPT ![i] = msg]]
<1>6. /\ r.obis = p.obis /\ r.unit = p.unit /\ r.sign = p.sign /\ r.state_buf = p.state_buf
      /\ r.state = p.state /\ r.value = [p.value EXCEPT ![i] = msg]
  BY DEF Parsers
<1>7. r \in Parsers /\ ValueByte(p, msg) = [r EXCEPT !.substate = p.substate + 1]
  BY <1>3, <1>4
<1> HIDE DEF r
<1> QED
  BY <1>5, <1>6, <1>7, CountStep

LEMMA ExtendedStep ==
  ASSUME NEW p \in Parsers, VALUE_BYTES \in Nat
  PROVE  LET q == extended(p)
             n == p.state_buf - 1
         IN  /\ q \in Parsers
             /\ q.obis = p.obis /\ q.unit = p.unit
             /\ q.value = [i \in 0 .. VALUE_BYTES - 1 |->
                             IF i < n THEN p.value[i]
                             ELSE IF p.sign /\ p.value[n - 1] >= 128 THEN 255 ELSE 0]
<1> DEFINE ext == IF p.sign /\ p.value[p.state_buf - 2] >= 128 THEN 255 ELSE 0
           v == [i \in 0 .. VALUE_BYTES - 1 |-> IF i < p.state_buf - 1 THEN p.value[i] ELSE ext]
<1>1. p.value \in [0 .. VALUE_BYTES - 1 -> Int] /\ p.state_buf \in Nat
  BY DEF Parsers
<1>2. ext \in Int /\ DOMAIN p.value = 0 .. VALUE_BYTES - 1
  BY <1>1
<1>3. extended(p) = [p EXCEPT !.value = v]
  BY <1>2 DEF extended
<1>4. p.state_buf - 1 - 1 = p.state_buf - 2
  BY <1>1
<1> HIDE DEF ext
<1>5. v \in [0 .. VALUE_BYTES - 1 -> Int]
  BY <1>1, <1>2
<1>6. v = [i \in 0 .. VALUE_BYTES - 1 |-> IF i < p.state_buf - 1 THEN p.value[i]
                     ELSE IF p.sign /\ p.value[p.state_buf - 1 - 1] >= 128 THEN 255 ELSE 0]
  BY <1>4 DEF ext
<1> HIDE DEF v
<1> QED
  BY <1>3, <1>5, <1>6 DEF Parsers

(* Any byte leaves a parser; and if no value is read, the parser advances  *)
(* by one place at most, and sends nothing.                                *)
LEMMA AnyByte ==
  ASSUME NEW msg \in Int, parser \in Parsers, Parse(msg)
  PROVE  /\ parser' \in Parsers
         /\ parser.state # "VALUE" => Place(parser') <= Place(parser) + 1 /\ sent' = sent
<1>1. VALUE_BYTES \in Nat
  BY SmlAssumption
<1>2. parser.substate \in Nat /\ parser.state_buf \in Nat /\ parser.state \in ParserStates
  BY DEF Parsers
<1>3. CASE parser.state = "SEARCH_PREFIX"
  <2>1. parser' = SearchPrefix(parser, msg) /\ sent' = sent
    BY <1>3 DEF Parse
  <2>2. SearchPrefix(parser, msg) =
          IF msg # prefix[parser.substate + 1] THEN [parser EXCEPT !.substate = 0]
          ELSE IF parser.substate < 3 THEN [parser EXCEPT !.substate = parser.substate + 1]
          ELSE To(parser, "PARSE_OBIS")
    BY DEF SearchPrefix
  <2>3. /\ parser' \in Parsers
        /\ \/ parser'.state = "SEARCH_PREFIX" /\ parser'.substate = 0
           \/ parser'.state = "SEARCH_PREFIX" /\ parser'.substate = parser.substate + 1
           \/ parser'.state = "PARSE_OBIS" /\ parser'.substate = 0 /\ parser.substate >= 3
    <3>1. CASE msg # prefix[parser.substate + 1]
      BY <1>3, <2>1, <2>2, <3>1, CountStep
    <3>2. CASE msg = prefix[parser.substate + 1] /\ parser.substate < 3
      BY <1>2, <1>3, <2>1, <2>2, <3>2, CountStep
    <3>3. CASE msg = prefix[parser.substate + 1] /\ ~ parser.substate < 3
      BY <1>2, <2>1, <2>2, <3>3, ToStep DEF ParserStates
    <3> QED
      BY <3>1, <3>2, <3>3
  <2> QED
    BY <1>2, <1>3, <2>1, <2>3 DEF Place
<1>4. CASE parser.state = "PARSE_OBIS"
  <2>1. parser' = ParseObis(parser, msg) /\ sent' = sent
    BY <1>4 DEF Parse
  <2> QED
    BY <1>2, <1>4, <2>1, ParseObisStep DEF Place
<1>5. CASE parser.state \in {"SKIP_STATUS", "SKIP_VALTIME", "UNIT", "SKIP_SCALER"}
  <2>1. parser' = SkipField(parser, msg) /\ sent' = sent
    BY <1>5 DEF Parse
  <2>2. /\ parser' \in Parsers
        /\ parser'.state = parser.state \/ parser'.state = After(parser.state)
    BY <1>5, <2>1, SkipFieldStep
  <2> QED
    BY <1>5, <2>1, <2>2 DEF Place, After
<1>6. CASE parser.state = "VALUE"
  <2> DEFINE p == IF parser.substate = 0 THEN ValueHead(parser, msg) ELSE ValueByte(parser, msg)
  <2>1. p \in Parsers
    <3>1. ValueHead(parser, msg) \in Parsers
      BY ValueHeadStep
    <3>2. ValueByte(parser, msg) \in Parsers
      <4> DEFINE i == parser.state_buf - 1 - parser.substate
                 v == [parser.value EXCEPT ![i] = msg]
      <4>1. v \in [0 .. VALUE_BYTES - 1 -> Int]
        BY DEF Parsers
      <4> DEFINE q == [parser EXCEPT !.value = v]
      <4>2. ValueByte(parser, msg) = [q EXCEPT !.substate = parser.substate + 1]
        BY DEF ValueByte, Parsers
      <4> HIDE DEF v
      <4>3. q \in Parsers
        BY <4>1 DEF Parsers
      <4>4. parser.substate + 1 \in Nat
        BY <1>2
      <4> HIDE DEF q
      <4> QED
        BY <4>2, <4>3, <4>4, CountStep
    <3> QED
      BY <3>1, <3>2
  <2>2. IF p.substate >= p.state_buf
        THEN parser' = To(extended(p), "SEARCH_PREFIX")
        ELSE parser' = p
    BY <1>6 DEF Parse
  <2> HIDE DEF p
  <2>3. extended(p) \in Parsers
    BY <1>1, <2>1, ExtendedStep
  <2>4. To(extended(p), "SEARCH_PREFIX") \in Parsers
    BY <2>3, ToStep DEF ParserStates
  <2> QED
    BY <1>6, <2>1, <2>2, <2>4
<1> QED
  BY <1>2, <1>3, <1>4, <1>5, <1>6 DEF ParserStates

-----------------------------------------------------------------------------
(* The parser and the entry *)

(* One byte of an entry after the other: the parser is at the next byte of *)
(* the field, or at the next field.                                        *)
Advanced(e, f, b) ==
  /\ parser' \in Parsers /\ sent' = sent
  /\ b < Length(e, f) => At(parser', e, f, b + 1)
  /\ b = Length(e, f) => At(parser', e, f + 1, 1)

LEMMA PrefixRead ==
  ASSUME NEW e \in Entries, NEW b \in 1 .. Length(e, 1), parser \in Parsers,
         At(parser, e, 1, b), Parse(EntryFields(e)[1][b])
  PROVE  Advanced(e, 1, b)
<1>1. b \in 1 .. 4 /\ Length(e, 1) = 4 /\ EntryFields(e)[1][b] = prefix[b]
  BY BytesAre
<1>2. parser.state = "SEARCH_PREFIX" /\ parser.substate = b - 1
  BY DEF At, AtPrefix, IsAt
<1>3. prefix[b] \in Int
  BY <1>1 DEF prefix
<1>4. parser' = SearchPrefix(parser, prefix[b]) /\ sent' = sent
  BY <1>1, <1>2 DEF Parse
<1>5. parser.substate \in 0 .. 3 /\ parser.substate + 1 = b
  BY <1>1, <1>2
<1>6. /\ parser' \in Parsers
      /\ IF b < 4 THEN parser'.state = "SEARCH_PREFIX" /\ parser'.substate = b
         ELSE parser'.state = "PARSE_OBIS" /\ parser'.substate = 0
  BY <1>1, <1>2, <1>3, <1>4, <1>5, SearchPrefixStep
<1> QED
  BY <1>1, <1>4, <1>6 DEF Advanced, At, AtPrefix, AtObis, IsAt

LEMMA ObisRead ==
  ASSUME NEW e \in Entries, NEW b \in 1 .. Length(e, 2), parser \in Parsers,
         At(parser, e, 2, b), Parse(EntryFields(e)[2][b])
  PROVE  Advanced(e, 2, b)
<1> DEFINE msg == EntryFields(e)[2][b]
<1>1. b \in 1 .. 4 /\ Length(e, 2) = 4 /\ (b = 1 => msg = e.obis)
  BY BytesAre
<1>2. msg \in Int
  BY BytesAreInts DEF FIELDS
<1>3. parser.state = "PARSE_OBIS" /\ parser.substate = b - 1 /\ (b > 1 => parser.obis = e.obis)
  BY DEF At, AtObis, IsAt
<1>4. parser' = ParseObis(parser, msg) /\ sent' = sent
  BY <1>3 DEF Parse
<1> HIDE DEF msg
<1>5. /\ parser' \in Parsers /\ parser'.obis = e.obis
      /\ IF b < 4 THEN parser'.state = "PARSE_OBIS" /\ parser'.substate = b
         ELSE parser'.state = "SKIP_STATUS" /\ parser'.substate = 0
  BY <1>1, <1>2, <1>3, <1>4, ParseObisStep
<1> QED
  BY <1>1, <1>4, <1>5 DEF Advanced, At, AtObis, AtSkip, SkipState, IsAt

LEMMA FieldRead ==
  ASSUME NEW e \in Entries, e.time = absent, NEW f \in 3 .. 6, NEW b \in 1 .. Length(e, f),
         parser \in Parsers, At(parser, e, f, b), Parse(EntryFields(e)[f][b])
  PROVE  Advanced(e, f, b)
<1> DEFINE msg == EntryFields(e)[f][b]
           L == Length(e, f)
           n == IF parser.substate = 0 THEN msg % 16 ELSE parser.state_buf
<1>1. L \in Nat \ {0} /\ msg \in Int
  <2>1. f \in 1 .. FIELDS
    BY DEF FIELDS
  <2> QED
    BY <2>1, FieldIs, BytesAreInts
<1>2. /\ IsAt(parser, SkipState(f), b - 1) /\ parser.obis = e.obis
      /\ b > 1 => parser.state_buf = L
      /\ f = 6 /\ IsNumber(e) => parser.unit = e.unit
  BY DEF At, AtSkip
<1>3. parser.state = SkipState(f) /\ parser.substate = b - 1
  BY <1>2 DEF IsAt
<1>4. SkipState(f) \in {"SKIP_STATUS", "SKIP_VALTIME", "UNIT", "SKIP_SCALER"}
      /\ (SkipState(f) = "UNIT" <=> f = 5)
      /\ (f < 6 => After(SkipState(f)) = SkipState(f + 1)) /\ (f = 6 => After(SkipState(f)) = "VALUE")
  <2>1. f = 3 \/ f = 4 \/ f = 5 \/ f = 6
    OBVIOUS
  <2> QED
    BY <2>1 DEF SkipState, After
<1>5. n = L
  <2>1. b = 1 => msg % 16 = L
    BY SkippedIs
  <2> QED
    BY <1>1, <1>2, <1>3, <2>1
<1>6. f = 5 /\ IsNumber(e) => L = 2 /\ (b = 2 => msg = e.unit)
  BY BytesAre
<1>7. parser' = SkipField(parser, msg) /\ sent' = sent
  BY <1>3, <1>4 DEF Parse
<1> HIDE DEF msg, L
<1>8. /\ parser' \in Parsers /\ parser'.obis = parser.obis /\ parser'.state_buf = n
      /\ parser'.unit = IF parser.state = "UNIT" /\ parser.substate + 1 >= n
                         THEN msg ELSE parser.unit
      /\ IF parser.substate + 1 >= n THEN parser'.state = After(parser.state) /\ parser'.substate = 0
         ELSE parser'.state = parser.state /\ parser'.substate = parser.substate + 1
  BY <1>1, <1>3, <1>4, <1>7, SkipFieldStep
<1> HIDE DEF n
<1>9. /\ parser'.obis = e.obis /\ parser'.state_buf = L /\ parser.substate + 1 = b
      /\ parser'.unit = IF f = 5 /\ b >= L THEN msg ELSE parser.unit
      /\ IF b >= L THEN parser'.state = After(SkipState(f)) /\ parser'.substate = 0
         ELSE parser'.state = SkipState(f) /\ parser'.substate = b
  BY <1>1, <1>2, <1>3, <1>4, <1>5, <1>8
<1>10. b \in 1 .. L
  BY DEF L
<1>11. ASSUME b < L PROVE At(parser', e, f, b + 1)
  <2>1. AtSkip(parser', e, f, b + 1)
    BY <1>1, <1>2, <1>9, <1>10, <1>11 DEF AtSkip, IsAt, L
  <2> QED
    BY <2>1 DEF At
<1>12. ASSUME b = L, f < 6 PROVE At(parser', e, f + 1, 1)
  <2>1. AtSkip(parser', e, f + 1, 1)
    <3>1. IsAt(parser', SkipState(f + 1), 0)
      BY <1>1, <1>4, <1>9, <1>12 DEF IsAt
    <3>2. f + 1 = 6 /\ IsNumber(e) => parser'.unit = e.unit
      BY <1>6, <1>9, <1>12
    <3> QED
      BY <1>9, <3>1, <3>2 DEF AtSkip
  <2> QED
    BY <1>12, <2>1 DEF At
<1>13. ASSUME b = L, f = 6 PROVE At(parser', e, f + 1, 1)
  <2>1. AtValue(parser', e, 1)
    BY <1>1, <1>2, <1>4, <1>9, <1>13 DEF AtValue, IsAt
  <2> QED
    BY <1>13, <2>1 DEF At
<1> QED
  BY <1>7, <1>8, <1>11, <1>12, <1>13 DEF Advanced, L

(* With the last byte, the value is the one that is reported. *)
LEMMA ValueReported ==
  ASSUME NEW e \in Entries, IsNumber(e), NEW p \in Parsers,
         AtNumber(p, e, e.kind.bytes), p.obis = e.obis, p.unit = e.unit
  PROVE  message(extended(p)) = Reported(e)
<1> DEFINE b == e.kind.bytes
           q == extended(p)
<1>1. b \in 1 .. VALUE_BYTES /\ VALUE_BYTES \in 1 .. 8
  BY EntryIs
<1>2. /\ p.state_buf = b + 1 /\ (p.sign <=> Signed(e))
      /\ \A j \in 1 .. b : p.value[b - j] = e.value[j]
  BY DEF AtNumber
<1>3. p.state_buf - 1 = b
  BY <1>1, <1>2
<1>4. /\ q.obis = e.obis /\ q.unit = e.unit
      /\ q.value = [i \in 0 .. VALUE_BYTES - 1 |->
                      IF i < b THEN p.value[i]
                      ELSE IF p.sign /\ p.value[b - 1] >= 128 THEN 255 ELSE 0]
  <2>1. VALUE_BYTES \in Nat
    BY <1>1
  <2>2. /\ q.obis = p.obis /\ q.unit = p.unit
        /\ q.value = [i \in 0 .. VALUE_BYTES - 1 |->
                        IF i < p.state_buf - 1 THEN p.value[i]
                        ELSE IF p.sign /\ p.value[p.state_buf - 1 - 1] >= 128 THEN 255 ELSE 0]
    BY <2>1, ExtendedStep, Zenon
  <2> QED
    BY <1>3, <2>2, ZenonT(40)
<1>5. p.value[b - 1] = e.value[1]
  BY <1>1, <1>2
<1>6. \A i \in 0 .. VALUE_BYTES - 1 : i < b => p.value[i] = e.value[b - i]
  <2> SUFFICES ASSUME NEW i \in 0 .. VALUE_BYTES - 1, i < b PROVE p.value[i] = e.value[b - i]
    OBVIOUS
  <2>1. b - i \in 1 .. b /\ b - (b - i) = i
    BY <1>1
  <2> QED
    BY <1>2, <2>1
<1>7. q.value = Extended(e)
  BY <1>2, <1>4, <1>5, <1>6 DEF Extended, Signed
<1> QED
  BY <1>4, <1>7 DEF message, Reported

(* What the last byte of an entry leaves. *)
Finished(e) ==
  /\ IsNumber(e) => sent' = <<Reported(e)>> /\ Searching'
  /\ ~IsNumber(e) /\ e.value # <<>> => sent' = <<>>

LEMMA TypeLengthRead ==
  ASSUME NEW e \in Entries, parser \in Parsers, sent = <<>>,
         At(parser, e, 7, 1), Parse(EntryFields(e)[7][1])
  PROVE  /\ Length(e, 7) > 1 => sent' = <<>> /\ At(parser', e, 7, 2)
         /\ Length(e, 7) = 1 => Finished(e)
<1> DEFINE m == typeLength(e.kind)
           q == ValueHead(parser, m)
<1>1. /\ IsAt(parser, "VALUE", 0)
      /\ IsNumber(e) => parser.obis = e.obis /\ parser.unit = e.unit
  BY DEF At, AtValue
<1>2. /\ m \in Int /\ m % 16 = e.kind.bytes + 1 /\ (m \div 16 = 5 <=> Signed(e))
      /\ (isNumber(m) <=> IsNumber(e))
  BY TypeLengthIs
<1>3. EntryFields(e)[7][1] = m /\ Length(e, 7) = e.kind.bytes + 1
  BY BytesAre
<1>4. e.kind.bytes \in 0 .. 10 /\ (IsNumber(e) => e.kind.bytes > 0)
  <2>1. e.kind.bytes \in 0 .. 10 /\ (IsNumber(e) => e.kind.bytes \in 1 .. VALUE_BYTES)
    BY EntryIs
  <2>2. VALUE_BYTES \in 1 .. 8
    BY SmlAssumption
  <2> QED
    BY <2>1, <2>2
<1>5. IF q.substate >= q.state_buf
      THEN /\ parser' = To(extended(q), "SEARCH_PREFIX")
           /\ sent' = Append(sent, message(extended(q)))
      ELSE parser' = q /\ UNCHANGED sent
  BY <1>1, <1>3 DEF Parse, IsAt
<1> HIDE DEF m
<1>6. /\ q \in Parsers /\ q.obis = parser.obis /\ q.unit = parser.unit
      /\ q.state_buf = m % 16 /\ (q.sign <=> m \div 16 = 5)
      /\ q.state = (IF isNumber(m) THEN "VALUE" ELSE "SEARCH_PREFIX")
      /\ q.substate = 1
  BY <1>2, ValueHeadStep
<1> HIDE DEF q
<1>7. ASSUME Length(e, 7) > 1 PROVE sent' = <<>> /\ At(parser', e, 7, 2)
  <2>1. parser' = q /\ sent' = <<>>
    BY <1>2, <1>3, <1>4, <1>5, <1>6, <1>7
  <2>2. IsNumber(e) => AtNumber(q, e, 0)
    BY <1>2, <1>6 DEF AtNumber, IsAt
  <2>3. ~IsNumber(e) => Place(q) <= 1
    BY <1>2, <1>6 DEF Place
  <2>4. AtValue(q, e, 2)
    BY <1>1, <1>6, <2>2, <2>3 DEF AtValue
  <2> QED
    BY <2>1, <2>4 DEF At
<1>8. ASSUME Length(e, 7) = 1 PROVE Finished(e)
  <2>1. e.kind.bytes = 0 /\ ~IsNumber(e)
    BY <1>3, <1>4, <1>8
  <2>2. e.value \in Seq(Int) /\ Len(e.value) = 0
    BY <2>1, EntryIs
  <2>3. e.value = <<>>
    BY <2>2
  <2> QED
    BY <2>1, <2>3 DEF Finished
<1> QED
  BY <1>7, <1>8

(* A byte of a value that is no number. *)
LEMMA OtherValueRead ==
  ASSUME NEW e \in Entries, ~IsNumber(e), parser \in Parsers, sent = <<>>,
         NEW b \in 2 .. Length(e, 7), At(parser, e, 7, b), Parse(EntryFields(e)[7][b])
  PROVE  /\ sent' = <<>>
         /\ b < Length(e, 7) => At(parser', e, 7, b + 1)
         /\ b = Length(e, 7) => Finished(e)
<1>1. Place(parser) <= b - 1
  BY DEF At, AtValue
<1>2. b \in 2 .. 11
  <2>1. Length(e, 7) = e.kind.bytes + 1 /\ e.kind.bytes \in 0 .. 10
    BY BytesAre, EntryIs
  <2> QED
    BY <2>1
<1>3. parser.state # "VALUE"
  BY <1>1, <1>2 DEF Place
<1>4. EntryFields(e)[7][b] \in Int
  <2>1. b \in 1 .. Length(e, 7)
    <3>1. Length(e, 7) \in Nat
      BY FieldIs DEF FIELDS
    <3> QED
      BY <3>1
  <2> QED
    BY <2>1, BytesAreInts DEF FIELDS
<1>5. /\ Place(parser') <= Place(parser) + 1 /\ sent' = <<>> /\ parser' \in Parsers
  BY <1>3, <1>4, AnyByte
<1>6. Place(parser') \in Nat /\ Place(parser) \in Nat
  <2>1. \A p \in Parsers : p.state \in ParserStates /\ p.substate \in Nat
    BY DEF Parsers
  <2> QED
    BY <1>5, <2>1 DEF Place, ParserStates
<1>7. Place(parser') <= (b + 1) - 1
  BY <1>1, <1>2, <1>5, <1>6
<1>8. At(parser', e, 7, b + 1)
  <2>1. AtValue(parser', e, b + 1)
    BY <1>2, <1>7 DEF AtValue
  <2> QED
    BY <2>1 DEF At
<1> QED
  BY <1>5, <1>8 DEF Finished

(* A byte of a number. *)
LEMMA NumberRead ==
  ASSUME NEW e \in Entries, IsNumber(e), parser \in Parsers, sent = <<>>,
         NEW b \in 2 .. Length(e, 7), At(parser, e, 7, b), Parse(EntryFields(e)[7][b])
  PROVE  /\ b < Length(e, 7) => sent' = <<>> /\ At(parser', e, 7, b + 1)
         /\ b = Length(e, 7) => Finished(e)
<1> DEFINE k == e.kind.bytes
           n == b - 1
           i == k - n
           msg == EntryFields(e)[7][b]
           q == ValueByte(parser, msg)
<1>1. k \in 1 .. VALUE_BYTES /\ VALUE_BYTES \in 1 .. 8
  BY EntryIs
<1>2. Length(e, 7) = k + 1
  BY BytesAre
<1> HIDE DEF k
<1>3. n \in 1 .. k /\ b = n + 1 /\ b > 1
  BY <1>1, <1>2
<1>4. /\ parser.state = "VALUE" /\ parser.substate = n /\ parser.state_buf = k + 1
      /\ (parser.sign <=> Signed(e)) /\ parser.obis = e.obis /\ parser.unit = e.unit
      /\ \A j \in 1 .. n - 1 : parser.value[k - j] = e.value[j]
  <2>1. AtValue(parser, e, b)
    BY DEF At
  <2>2. AtNumber(parser, e, b - 2) /\ parser.obis = e.obis /\ parser.unit = e.unit
    BY <1>3, <2>1 DEF AtValue
  <2>3. b - 2 = n - 1 /\ (b - 2) + 1 = n
    BY <1>3
  <2> QED
    BY <2>2, <2>3 DEF AtNumber, IsAt, k
<1>5. msg \in Int /\ msg = e.value[n]
  <2>1. b \in 1 .. Length(e, 7)
    BY <1>1, <1>2, <1>3
  <2>2. msg \in Int
    BY <2>1, BytesAreInts DEF FIELDS
  <2>3. \A j \in 1 .. k : EntryFields(e)[7][j + 1] = e.value[j]
    BY BytesAre DEF k
  <2> QED
    BY <1>3, <2>2, <2>3
<1>6. VALUE_BYTES \in Nat /\ i \in 0 .. VALUE_BYTES - 1
      /\ i = parser.state_buf - 1 - parser.substate
  BY <1>1, <1>3, <1>4
<1>7. IF q.substate >= q.state_buf
      THEN /\ parser' = To(extended(q), "SEARCH_PREFIX")
           /\ sent' = Append(sent, message(extended(q)))
      ELSE parser' = q /\ UNCHANGED sent
  BY <1>3, <1>4 DEF Parse
<1> HIDE DEF msg, i
<1>8. /\ q \in Parsers /\ q.obis = parser.obis /\ q.unit = parser.unit /\ q.sign = parser.sign
      /\ q.state_buf = parser.state_buf /\ q.state = parser.state
      /\ q.substate = parser.substate + 1
      /\ q.value = [parser.value EXCEPT ![i] = msg]
  <2>1. msg \in Int
    BY <1>5
  <2> HIDE DEF n
  <2> QED
    BY <1>6, <2>1, ValueByteStep, ZenonT(60)
<1> HIDE DEF q, n
<1>9. /\ q \in Parsers /\ q.obis = e.obis /\ q.unit = e.unit /\ (q.sign <=> Signed(e))
      /\ q.state_buf = k + 1 /\ q.state = "VALUE" /\ q.substate = n + 1
      /\ q.value = [parser.value EXCEPT ![k - n] = msg]
  BY <1>4, <1>8 DEF i
<1>10. \A j \in 1 .. n : q.value[k - j] = e.value[j]
  <2> SUFFICES ASSUME NEW j \in 1 .. n PROVE q.value[k - j] = e.value[j]
    OBVIOUS
  <2>1. parser.value \in [0 .. VALUE_BYTES - 1 -> Int]
    BY DEF Parsers
  <2>2. k - j \in 0 .. VALUE_BYTES - 1 /\ k - n \in 0 .. VALUE_BYTES - 1
    BY <1>1, <1>3
  <2>3. CASE j = n
    BY <1>5, <1>9, <2>1, <2>2, <2>3
  <2>4. CASE j # n
    <3>1. k - j # k - n /\ j \in 1 .. n - 1
      BY <1>1, <1>3, <2>4
    <3>2. q.value[k - j] = parser.value[k - j]
      BY <1>9, <2>1, <2>2, <3>1
    <3> QED
      BY <1>4, <3>1, <3>2
  <2> QED
    BY <2>3, <2>4
<1>11. AtNumber(q, e, n)
  BY <1>9, <1>10 DEF AtNumber, IsAt, k
<1>12. ASSUME b < Length(e, 7) PROVE sent' = <<>> /\ At(parser', e, 7, b + 1)
  <2>1. n < k
    BY <1>1, <1>2, <1>3, <1>12
  <2>2. parser' = q /\ sent' = <<>>
    BY <1>1, <1>3, <1>7, <1>9, <2>1
  <2>3. AtValue(q, e, b + 1)
    <3>1. (b + 1) - 2 = n /\ b + 1 > 1
      BY <1>3
    <3> QED
      BY <1>9, <1>11, <3>1 DEF AtValue
  <2> QED
    BY <2>2, <2>3 DEF At
<1>13. ASSUME b = Length(e, 7) PROVE Finished(e)
  <2>1. n = k
    BY <1>1, <1>2, <1>3, <1>13
  <2>2. message(extended(q)) = Reported(e)
    BY <1>9, <1>11, <2>1, ValueReported DEF k
  <2>3. parser' = To(extended(q), "SEARCH_PREFIX") /\ sent' = <<Reported(e)>>
    BY <1>1, <1>3, <1>7, <1>9, <2>1, <2>2
  <2>4. extended(q) \in Parsers
    BY <1>6, <1>9, ExtendedStep
  <2>5. Searching'
    BY <2>3, <2>4, ToStep DEF ParserStates, Searching
  <2> QED
    BY <2>3, <2>5 DEF Finished
<1> QED
  BY <1>12, <1>13

-----------------------------------------------------------------------------
(* The steps *)

LEMMA NextByteKeeps ==
  ASSUME SmlInv, NextByte
  PROVE  SmlInv'
<1> DEFINE f == at.field
           b == at.byte
           L == Length(entry, f)
<1>1. /\ ~NoEntry /\ entry \in Entries /\ parser \in Parsers /\ ready \in BOOLEAN
      /\ at \in [field : 1 .. FIELDS + 1, byte : Nat \ {0}] /\ b <= L
  BY DEF SmlInv, SmlTypeOK, NextByte
<1>2. f \in 1 .. FIELDS
  BY <1>1 DEF NoEntry, FIELDS
<1>3. L \in Nat \ {0} /\ b \in 1 .. L
  <2>1. L \in Nat \ {0}
    BY <1>1, <1>2, FieldIs
  <2> QED
    BY <1>1, <2>1
<1>4. Parse(EntryFields(entry)[f][b]) /\ entry' = entry /\ ready' = ready
  BY DEF NextByte
<1>5. at' = IF b = L THEN [field |-> f + 1, byte |-> 1] ELSE [at EXCEPT !.byte = b + 1]
  BY DEF NextByte, Length
<1>6. parser' \in Parsers
  <2>1. EntryFields(entry)[f][b] \in Int
    BY <1>1, <1>2, <1>3, BytesAreInts
  <2> QED
    BY <1>1, <1>4, <2>1, AnyByte
<1> HIDE DEF f, b, L
<1>7. /\ at' \in [field : 1 .. FIELDS + 1, byte : Nat \ {0}]
      /\ b < L => at'.field = f /\ at'.byte = b + 1
      /\ b = L => at'.field = f + 1 /\ at'.byte = 1
  BY <1>1, <1>2, <1>3, <1>5 DEF f, b, FIELDS
<1>8. SmlTypeOK'
  <2>1. ~NoEntry' => at'.byte <= Length(entry, at'.field)
    <3>1. CASE b < L
      BY <1>3, <1>7, <3>1 DEF L
    <3>2. CASE b = L
      <4>1. ASSUME ~NoEntry' PROVE f + 1 \in 1 .. FIELDS
        BY <1>2, <1>7, <3>2, <4>1 DEF NoEntry, FIELDS
      <4>2. ASSUME ~NoEntry' PROVE Length(entry, f + 1) \in Nat \ {0}
        BY <1>1, <4>1, <4>2, FieldIs
      <4> QED
        BY <1>7, <3>2, <4>2
    <3> QED
      BY <1>3, <3>1, <3>2
  <2> QED
    BY <1>1, <1>4, <1>6, <1>7, <2>1 DEF SmlTypeOK, Length
<1>9. CASE ~ready \/ entry.time # absent
  BY <1>4, <1>8, <1>9 DEF SmlInv, EntryReported, EntryRead
<1>10. CASE ready /\ entry.time = absent
  <2>1. sent = <<>> /\ At(parser, entry, f, b)
    BY <1>1, <1>10 DEF SmlInv, f, b
  <2>2. ASSUME f < 7, Advanced(entry, f, b)
        PROVE  SmlInv'
    <3>1. sent' = <<>> /\ At(parser', entry, at'.field, at'.byte) /\ ~NoEntry'
      <4>1. at'.field \in 1 .. 7
        BY <1>2, <1>3, <1>7, <2>2
      <4>2. ~NoEntry'
        BY <4>1 DEF NoEntry, FIELDS
      <4>3. CASE b < L
        BY <1>7, <2>1, <2>2, <4>2, <4>3 DEF Advanced, L
      <4>4. CASE b = L
        BY <1>7, <2>1, <2>2, <4>2, <4>4 DEF Advanced, L
      <4> QED
        BY <1>3, <4>3, <4>4
    <3> QED
      BY <1>4, <1>8, <3>1 DEF SmlInv, EntryReported, EntryRead
  <2>3. ASSUME f = 7,
               b < L => sent' = <<>> /\ At(parser', entry, 7, b + 1),
               b = L => Finished(entry)
        PROVE  SmlInv'
    <3>1. CASE b < L
      <4>1. ~NoEntry'
        BY <1>7, <2>3, <3>1 DEF NoEntry, FIELDS
      <4>2. sent' = <<>> /\ At(parser', entry, at'.field, at'.byte)
        BY <1>7, <2>3, <3>1
      <4> QED
        BY <1>4, <1>8, <4>1, <4>2 DEF SmlInv, EntryReported, EntryRead
    <3>2. CASE b = L
      <4>1. NoEntry'
        BY <1>7, <2>3, <3>2 DEF NoEntry, FIELDS
      <4>2. Finished(entry)
        BY <2>3, <3>2
      <4> QED
        BY <1>4, <1>8, <4>1, <4>2 DEF SmlInv, EntryReported, EntryRead, Finished
    <3> QED
      BY <1>3, <3>1, <3>2
  <2>4. Parse(EntryFields(entry)[f][b])
    BY <1>4
  <2>5. CASE f = 1
    <3>1. Advanced(entry, 1, b)
      BY <1>1, <1>3, <2>1, <2>4, <2>5, PrefixRead DEF L
    <3> QED
      BY <2>2, <2>5, <3>1
  <2>6. CASE f = 2
    <3>1. Advanced(entry, 2, b)
      BY <1>1, <1>3, <2>1, <2>4, <2>6, ObisRead DEF L
    <3> QED
      BY <2>2, <2>6, <3>1
  <2>7. CASE f \in 3 .. 6
    <3>1. Advanced(entry, f, b)
      BY <1>1, <1>3, <1>10, <2>1, <2>4, <2>7, FieldRead DEF L
    <3> QED
      BY <2>2, <2>7, <3>1
  <2>8. CASE f = 7 /\ b = 1
    <3>1. /\ L > 1 => sent' = <<>> /\ At(parser', entry, 7, 2)
          /\ L = 1 => Finished(entry)
      BY <1>1, <2>1, <2>4, <2>8, TypeLengthRead DEF L
    <3> QED
      BY <2>3, <2>8, <3>1
  <2>9. CASE f = 7 /\ b # 1
    <3>1. b \in 2 .. Length(entry, 7) /\ L = Length(entry, 7)
      BY <1>3, <2>9 DEF L
    <3>2. CASE IsNumber(entry)
      BY <1>1, <2>1, <2>3, <2>4, <2>9, <3>1, <3>2, NumberRead
    <3>3. CASE ~IsNumber(entry)
      BY <1>1, <2>1, <2>3, <2>4, <2>9, <3>1, <3>3, OtherValueRead
    <3> QED
      BY <3>2, <3>3
  <2> QED
    BY <1>2, <2>5, <2>6, <2>7, <2>8, <2>9 DEF FIELDS
<1> QED
  BY <1>9, <1>10

LEMMA NextEntryKeeps ==
  ASSUME SmlInv, NextEntry
  PROVE  SmlInv'
<1>1. /\ parser' = parser /\ parser \in Parsers /\ sent' = <<>> /\ ready' = Searching
      /\ at' = [field |-> 1, byte |-> 1]
  BY DEF SmlInv, SmlTypeOK, NextEntry
<1>2. entry' \in Entries
  <2>1. PICK obis \in ObisCodes, status \in EntryStatuses, time \in EntryTimes, unit \in Units, kind \in Kinds :
          \E value \in [1 .. kind.bytes -> ValueBytes] :
            entry' = [obis |-> obis, status |-> status, time |-> time, unit |-> unit,
                      kind |-> kind, value |-> value]
    BY DEF NextEntry
  <2>2. PICK value \in [1 .. kind.bytes -> ValueBytes] :
            entry' = [obis |-> obis, status |-> status, time |-> time, unit |-> unit,
                      kind |-> kind, value |-> value]
    BY <2>1
  <2>3. kind.bytes \in Nat
    BY SmlAssumption DEF Kinds
  <2>4. value \in Seq(ValueBytes)
    <3>1. \A n \in Nat : \A g \in [1 .. n -> ValueBytes] : g \in Seq(ValueBytes)
      OBVIOUS
    <3> QED
      BY <2>3, <3>1
  <2> QED
    BY <2>2, <2>4 DEF Entries
<1>3. Length(entry', 1) = 4 /\ at'.field = 1 /\ at'.byte = 1
  BY <1>1, <1>2, BytesAre
<1>4. SmlTypeOK'
  <2>1. ready' \in BOOLEAN
    BY <1>1 DEF Searching
  <2>2. at' \in [field : 1 .. FIELDS + 1, byte : Nat \ {0}]
    BY <1>1 DEF FIELDS
  <2>3. at'.byte <= Length(entry', at'.field)
    BY <1>3
  <2> QED
    BY <1>1, <1>2, <2>1, <2>2, <2>3 DEF SmlTypeOK, Length
<1>5. ready' => At(parser', entry', 1, 1)
  <2>1. ready' => IsAt(parser, "SEARCH_PREFIX", 1 - 1)
    <3>1. ready' = Searching
      BY <1>1
    <3>2. ready' => Searching
      BY <3>1, Zenon
    <3> QED
      BY <3>2 DEF IsAt, Searching
  <2>2. ready' => AtPrefix(parser', 1)
    BY <1>1, <2>1 DEF AtPrefix
  <2> QED
    BY <2>2 DEF At
<1>6. ~NoEntry'
  BY <1>3 DEF NoEntry, FIELDS
<1> QED
  BY <1>1, <1>3, <1>4, <1>5, <1>6 DEF SmlInv, EntryReported, EntryRead

LEMMA OtherByteKeeps ==
  ASSUME SmlInv, OtherByte
  PROVE  SmlInv'
<1>1. /\ NoEntry /\ at' = at /\ ready' = ready /\ entry' = <<>> /\ parser \in Parsers
      /\ ready \in BOOLEAN /\ at \in [field : 1 .. FIELDS + 1, byte : Nat \ {0}]
  BY DEF SmlInv, SmlTypeOK, OtherByte
<1>2. PICK msg \in Noise : Parse(msg)
  BY DEF OtherByte
<1>3. msg \in Int
  BY SmlAssumption
<1>4. parser' \in Parsers
  BY <1>1, <1>2, <1>3, AnyByte
<1>5. NoEntry'
  BY <1>1 DEF NoEntry
<1> QED
  BY <1>1, <1>4, <1>5 DEF SmlInv, SmlTypeOK, EntryReported, EntryRead

-----------------------------------------------------------------------------
(* Theorems *)

(* The parser is where the bytes of the entry that were read put it, if    *)
(* the search for it began at its first byte and it has no time            *)
(* (app_fast_tick).                                                        *)
THEOREM SmlInvariant == SmlSpec => []SmlInv
<1>1. SmlInit => SmlInv
  <2> SUFFICES ASSUME SmlInit PROVE SmlInv
    OBVIOUS
  <2>1. parser \in Parsers
    BY DEF SmlInit, Parsers, ParserStates
  <2>2. at \in [field : 1 .. FIELDS + 1, byte : Nat \ {0}] /\ NoEntry
    BY DEF SmlInit, NoEntry, FIELDS
  <2> QED
    BY <2>1, <2>2 DEF SmlInit, SmlInv, SmlTypeOK, EntryReported, EntryRead
<1>2. SmlInv /\ [SmlNext]_smlVars => SmlInv'
  <2> SUFFICES ASSUME SmlInv, [SmlNext]_smlVars PROVE SmlInv'
    OBVIOUS
  <2>1. CASE NextEntry
    BY <2>1, NextEntryKeeps
  <2>2. CASE NextByte
    BY <2>2, NextByteKeeps
  <2>3. CASE OtherByte
    BY <2>3, OtherByteKeeps
  <2>4. CASE UNCHANGED smlVars
    BY <2>4 DEF smlVars, SmlInv, SmlTypeOK, EntryReported, EntryRead, NoEntry, Searching
  <2> QED
    BY <2>1, <2>2, <2>3, <2>4 DEF SmlNext
<1> QED
  BY <1>1, <1>2, PTL DEF SmlSpec

(* Of an entry with a number and without a time one message is sent, with  *)
(* its number, unit and value, and of another value that is not empty      *)
(* none, if the search began at the entry's first byte, as it does after   *)
(* an entry with a number (app_fast_tick).                                 *)
THEOREM EntriesAreReported == SmlSpec => []EntryReported
<1>1. SmlInv => EntryReported
  BY DEF SmlInv
<1> QED
  BY <1>1, SmlInvariant, PTL

=============================================================================
