--------------------------------- MODULE Sml ---------------------------------
(***************************************************************************)
(* The reader of a smart meter (nodes/sml.c).  It finds the list entries   *)
(* of an SML file in the stream of bytes from the serial port, by the      *)
(* first bytes of their OBIS number, and broadcasts number, unit and       *)
(* value.  The stream is one of entries, as a meter sends them, with other *)
(* bytes in between.                                                       *)
(***************************************************************************)
EXTENDS Integers, Sequences, SequencesExt

CONSTANTS
  VALUE_BYTES,             \* of the value that is broadcast (8)
  OTHER_BYTES,             \* of a value that is no number
  ObisCodes,               \* third byte of the numbers (1.8.0, 2.8.0)
  Units,
  ValueBytes,              \* bytes of values
  Noise                    \* bytes between the entries

(* A longer value could be taken for a whole entry. *)
ASSUME SmlAssumption ==
  /\ VALUE_BYTES \in 1 .. 8 /\ OTHER_BYTES \in 0 .. 10
  /\ ObisCodes \cup Units \cup ValueBytes \cup Noise \subseteq 0 .. 255

VARIABLES
  parser,                  \* [state, substate, state_buf, sign, unit, obis, value]
  entry,                   \* the entry that is read, or was read last
  at,                      \* the next byte of it: [field, byte]
  sent,                    \* history: the messages since its first byte
  ready                    \* history: the parser was at the start of its search then

smlVars == <<parser, entry, at, sent, ready>>

(* Entries.  TL bytes carry a type (the high half) and a length in bytes,  *)
(* the TL byte included, but for a list the number of its elements.        *)
prefix == <<119, 7, 1, 0>>

absent == <<1>>
EntryStatuses == {absent, <<101, 0, 1, 1, 130>>}
EntryTimes == {absent, <<114, 98, 1, 101, 1, 2, 3, 4>>}      \* a list: secIndex, seconds

Kinds == [type : {"int", "uint"}, bytes : 1 .. VALUE_BYTES]
         \cup [type : {"other"}, bytes : 0 .. OTHER_BYTES]

typeLength(kind) ==
  kind.bytes + 1 + (CASE kind.type = "int" -> 80 [] kind.type = "uint" -> 96 [] OTHER -> 0)

(* Only numbers have a unit and a scaler. *)
Unit(e) == IF e.kind.type = "other" THEN absent ELSE <<98, e.unit>>
Scaler(e) == IF e.kind.type = "other" THEN absent ELSE <<82, 255>>

EntryFields(e) ==
  <<prefix, <<e.obis, 8, 0, 255>>, e.status, e.time, Unit(e), Scaler(e),
    <<typeLength(e.kind)>> \o e.value>>

FIELDS == 7

(* Big endian bytes to the little endian value, with the sign.             *)
Extended(e) ==
  [i \in 0 .. VALUE_BYTES - 1 |->
     IF i < e.kind.bytes THEN e.value[e.kind.bytes - i]
     ELSE IF e.kind.type = "int" /\ e.value[1] >= 128 THEN 255 ELSE 0]

Reported(e) == [obis |-> e.obis, unit |-> e.unit, value |-> Extended(e)]

(* The parser: one state after the other in the order of the enumeration.  *)
SmlInit ==
  /\ parser = [state |-> "SEARCH_PREFIX", substate |-> 0, state_buf |-> 0, sign |-> FALSE,
               unit |-> 0, obis |-> 0, value |-> [i \in 0 .. VALUE_BYTES - 1 |-> 0]]
  /\ entry = <<>> /\ at = [field |-> FIELDS + 1, byte |-> 1]
  /\ sent = <<>> /\ ready = TRUE

Searching == parser.state = "SEARCH_PREFIX" /\ parser.substate = 0

After(state) ==
  CASE state = "SKIP_STATUS"  -> "SKIP_VALTIME"
    [] state = "SKIP_VALTIME" -> "UNIT"
    [] state = "UNIT"         -> "SKIP_SCALER"
    [] state = "SKIP_SCALER"  -> "VALUE"

To(p, state) == [p EXCEPT !.state = state, !.substate = 0]

SearchPrefix(p, msg) ==
  CASE msg # prefix[p.substate + 1] -> [p EXCEPT !.substate = 0]
    [] msg = prefix[p.substate + 1] /\ p.substate < 3 -> [p EXCEPT !.substate = @ + 1]
    [] OTHER -> To(p, "PARSE_OBIS")

(* The fourth byte goes past the end of the array, over a variable that is *)
(* written again before it is read.                                        *)
ParseObis(p, msg) ==
  LET q == IF p.substate = 0 THEN [p EXCEPT !.obis = msg] ELSE p
  IN  IF p.substate < 3 THEN [q EXCEPT !.substate = @ + 1] ELSE To(q, "SKIP_STATUS")

(* SKIP_STATUS, SKIP_VALTIME, UNIT and SKIP_SCALER. *)
SkipField(p, msg) ==
  LET q == IF p.substate = 0 THEN [p EXCEPT !.state_buf = msg % 16] ELSE p
      u == IF p.state = "UNIT" THEN [q EXCEPT !.unit = msg] ELSE q
  IN  IF p.substate + 1 >= q.state_buf THEN To(u, After(p.state))
      ELSE [q EXCEPT !.substate = @ + 1]

isNumber(msg) == (msg \div 16) \in {5, 6} /\ msg % 16 <= VALUE_BYTES + 1

(* What is discarded leaves the search one byte into the prefix, and is not *)
(* left: a value without bytes is sent all the same.                       *)
ValueHead(p, msg) ==
  LET q == [p EXCEPT !.state_buf = msg % 16, !.sign = (msg \div 16 = 5)]
  IN  [q EXCEPT !.state = IF isNumber(msg) THEN "VALUE" ELSE "SEARCH_PREFIX", !.substate = 1]

ValueByte(p, msg) ==
  [p EXCEPT !.value[p.state_buf - 1 - p.substate] = msg, !.substate = @ + 1]

(* Variant: the bytes above the value keep what an earlier one left there. *)
extended_not(p) == p

(* Of a value without bytes the code looks at the byte before the array,   *)
(* which does not matter without the sign.                                 *)
extended(p) ==
  LET ext == IF p.sign /\ p.value[p.state_buf - 2] >= 128 THEN 255 ELSE 0
  IN  [p EXCEPT !.value = [i \in DOMAIN @ |-> IF i < p.state_buf - 1 THEN @[i] ELSE ext]]

message(p) == [obis |-> p.obis, unit |-> p.unit, value |-> p.value]

(* The loop of app_fast_tick for one byte. *)
Parse(msg) ==
  CASE parser.state = "SEARCH_PREFIX" ->
         parser' = SearchPrefix(parser, msg) /\ UNCHANGED sent
    [] parser.state = "PARSE_OBIS" ->
         parser' = ParseObis(parser, msg) /\ UNCHANGED sent
    [] parser.state = "VALUE" ->
         LET p == IF parser.substate = 0 THEN ValueHead(parser, msg) ELSE ValueByte(parser, msg)
         IN  IF p.substate >= p.state_buf
             THEN /\ parser' = To(extended(p), "SEARCH_PREFIX")
                  /\ sent' = Append(sent, message(extended(p)))
             ELSE parser' = p /\ UNCHANGED sent
    [] OTHER ->
         parser' = SkipField(parser, msg) /\ UNCHANGED sent

NoEntry == at.field > FIELDS

NextEntry ==
  /\ NoEntry
  /\ \E obis \in ObisCodes, status \in EntryStatuses, time \in EntryTimes, unit \in Units, kind \in Kinds :
       \E value \in [1 .. kind.bytes -> ValueBytes] :
         entry' = [obis |-> obis, status |-> status, time |-> time, unit |-> unit,
                   kind |-> kind, value |-> value]
  /\ at' = [field |-> 1, byte |-> 1]
  /\ sent' = <<>> /\ ready' = Searching
  /\ UNCHANGED parser

NextByte ==
  /\ ~NoEntry
  /\ Parse(EntryFields(entry)[at.field][at.byte])
  /\ at' = IF at.byte = Len(EntryFields(entry)[at.field])
           THEN [field |-> at.field + 1, byte |-> 1]
           ELSE [at EXCEPT !.byte = @ + 1]
  /\ UNCHANGED <<entry, ready>>

OtherByte ==
  /\ NoEntry
  /\ \E msg \in Noise : Parse(msg)
  /\ entry' = <<>>
  /\ UNCHANGED <<at, ready>>

SmlNext == NextEntry \/ NextByte \/ OtherByte

SmlSpec == SmlInit /\ [][SmlNext]_smlVars

-----------------------------------------------------------------------------
(* Properties *)

(* The last byte of an entry was read, and the search for it began at its  *)
(* first byte.                                                             *)
EntryRead == NoEntry /\ entry # <<>> /\ ready

IsNumber(e) == e.kind.type # "other"

(* Of an entry with a number and without a time one message is sent when   *)
(* its last byte is read, with its number, unit and value, whatever its    *)
(* status is and whatever earlier entries and other bytes left in the      *)
(* parser, and the search for the next entry begins; of one with another   *)
(* value, which is not empty, none is sent.  (A time, being a list, is not *)
(* skipped as a whole: its entry is lost, or sent with a byte of another   *)
(* field for the value.  An empty value is sent as a 0.)                   *)
EntryReported ==
  EntryRead /\ entry.time = absent =>
    /\ IsNumber(entry) => sent = <<Reported(entry)>> /\ Searching
    /\ ~IsNumber(entry) /\ entry.value # <<>> => sent = <<>>

=============================================================================
