------------------------------- MODULE Config -------------------------------
(***************************************************************************)
(* The configuration store: config.c over the EEPROM driver eeprom24c.c.   *)
(*                                                                         *)
(* A parameter is a length byte and its data.  config_init formats the     *)
(* memory unless it finds CONFIG_MAGIC; the receive thread sets parameters *)
(* (onParamGetSet), other threads read them.  A write is cut at the pages  *)
(* of the EEPROM and each page is one transaction on the bus, after which  *)
(* the EEPROM is deaf until its write cycle ends.  The node may be reset   *)
(* between and inside any two transactions, and transactions may fail.     *)
(*                                                                         *)
(* The EEPROM itself is external: an address counter that wraps inside the *)
(* page, and a page that may take only the first bytes of what is sent.    *)
(***************************************************************************)
EXTENDS Integers, Sequences

CONSTANTS
  EEPROM_PAGE_SIZE,       \* bytes of an EEPROM page (32)
  CONFIG_MAX_SIZE,        \* bytes that are formatted (16384)
  Byte,                   \* 0 and the bytes a value is made of
  CONFIG_PARAM_LAST,      \* number of parameters
  ParamSize,              \* size of each, in the order of config.h
  CONFIGURATION_MAGIC,
  CONFIGURATION_VERSION,
  DefaultNodeId,          \* 127
  DefaultNodeName,        \* "Unconfigured node"
  Settings,               \* what clients set: pairs of parameter and value
  Blank,                  \* bytes an EEPROM may be full of that is new
  ReadParams,             \* parameters other threads read
  Resets,                 \* may the node be reset?
  ReadFaults,             \* may a read fail in all its tries?
  WriteFaults             \* may a page write fail in all its tries?

Params == 0 .. CONFIG_PARAM_LAST - 1

CONFIG_MAGIC     == 0
CONFIG_VERSION   == 1
CONFIG_NODE_ID   == 2
CONFIG_NODE_NAME == 3

(* Storage byte offset of a parameter: all before it, with their lengths.  *)
get_param_offset[p \in Nat] ==
  IF p = 0 THEN 0 ELSE get_param_offset[p - 1] + ParamSize[p - 1] + 1

(* A value of parameter p that uses all its bytes. *)
Full(p, v) == Len(v) = ParamSize[p]

ASSUME ConfigAssumption ==
  /\ EEPROM_PAGE_SIZE \in Nat \ {0}
  /\ CONFIG_MAX_SIZE \in Nat /\ CONFIG_MAX_SIZE % EEPROM_PAGE_SIZE = 0
  /\ 0 \in Byte /\ Byte \subseteq Nat
  /\ CONFIG_PARAM_LAST \in Nat /\ CONFIG_PARAM_LAST > CONFIG_NODE_NAME
  /\ ParamSize \in [Params -> Byte \ {0}]
  /\ get_param_offset[CONFIG_PARAM_LAST] <= CONFIG_MAX_SIZE
  /\ CONFIGURATION_MAGIC \in Seq(Byte \ {0}) /\ Full(CONFIG_MAGIC, CONFIGURATION_MAGIC)
  /\ CONFIGURATION_VERSION \in Seq(Byte) /\ Full(CONFIG_VERSION, CONFIGURATION_VERSION)
  /\ DefaultNodeId \in Seq(Byte) /\ Full(CONFIG_NODE_ID, DefaultNodeId)
  /\ DefaultNodeName \in Seq(Byte) /\ Len(DefaultNodeName) \in 1 .. ParamSize[CONFIG_NODE_NAME]
  /\ Settings \subseteq Params \X Seq(Byte)
  /\ \A b \in Blank : b \in Byte /\ b # CONFIGURATION_MAGIC[1]
  /\ ReadParams \subseteq Params
  /\ {Resets, ReadFaults, WriteFaults} \subseteq BOOLEAN

VARIABLES
  eeprom,   \* its content
  cycle,    \* "idle", "busy": the EEPROM programs a page, "done": it has
  node,     \* "boot", "format": in config_init, "ready", "absent": no EEPROM
  writes,   \* eeprom_write calls the current operation has still to make
  reader,   \* config_get of another thread
  \* history
  written,  \* value each parameter was last set to, or its default
  before,   \* values each had since then, while a set is under way
  torn,     \* parameters of which a set was begun and not carried through
  failed    \* a write of the current operation failed

memory == <<eeprom, cycle>>
history == <<written, before, torn, failed>>
configVars == <<memory, node, writes, reader, history>>

Address == 0 .. CONFIG_MAX_SIZE - 1
NoRead == [at |-> "idle"]

-----------------------------------------------------------------------------
(* Reading *)

valid_length(p) ==
  LET stored == eeprom[get_param_offset[p]]
  IN  IF stored > ParamSize[p] THEN ParamSize[p] ELSE stored

Data(p, n) == [i \in 1 .. n |-> eeprom[get_param_offset[p] + i]]

(* What config_get gives: the valid part of the data. *)
Stored(p) == Data(p, valid_length(p))

(* The word config_get_uint reads a value into, zero before. *)
uint(p, v) == [i \in 1 .. ParamSize[p] |-> IF i <= Len(v) THEN v[i] ELSE 0]

-----------------------------------------------------------------------------
(* Writing *)

(* One call of eeprom_write.  "ends" (history) are the parameters that are *)
(* completely written by it.                                               *)
Write(adr, in, ends) == [adr |-> adr, in |-> in, ends |-> ends]

(* What a parameter takes of a value; excess data is silently ignored. *)
taken(p, v) == SubSeq(v, 1, IF Len(v) > ParamSize[p] THEN ParamSize[p] ELSE Len(v))

(* Variant: the length is invalidated first and set last. *)
config_set_lengthLast(p, v) ==
  <<Write(get_param_offset[p], <<0>>, {}),
    Write(get_param_offset[p] + 1, taken(p, v), {}),
    Write(get_param_offset[p], <<Len(taken(p, v))>>, {p})>>

(* The calls config_set makes: the length, then the data.  With no data    *)
(* the second does nothing.                                                *)
config_set(p, v) ==
  LET in     == taken(p, v)
      offset == get_param_offset[p]
  IN  IF in = << >>
      THEN <<Write(offset, <<0>>, {p})>>
      ELSE <<Write(offset, <<Len(in)>>, {}), Write(offset + 1, in, {p})>>

Default == [p \in Params |->
              CASE p = CONFIG_MAGIC     -> CONFIGURATION_MAGIC
                [] p = CONFIG_VERSION   -> CONFIGURATION_VERSION
                [] p = CONFIG_NODE_ID   -> DefaultNodeId
                [] p = CONFIG_NODE_NAME -> DefaultNodeName
                [] OTHER -> << >>]

ClearPages(pages) ==
  [i \in 1 .. pages |->
     Write(EEPROM_PAGE_SIZE * (i - 1), [k \in 1 .. EEPROM_PAGE_SIZE |-> 0],
           IF i = pages THEN {p \in Params : Default[p] = << >>} ELSE {})]

(* Every page is overwritten with zeros. *)
clear == ClearPages(CONFIG_MAX_SIZE \div EEPROM_PAGE_SIZE)

(* Variant: the magic before what it vouches for. *)
format_magicFirst ==
  clear \o config_set(CONFIG_MAGIC,     Default[CONFIG_MAGIC])
        \o config_set(CONFIG_NODE_ID,   Default[CONFIG_NODE_ID])
        \o config_set(CONFIG_NODE_NAME, Default[CONFIG_NODE_NAME])
        \o config_set(CONFIG_VERSION,   Default[CONFIG_VERSION])

format ==
  clear \o config_set(CONFIG_NODE_ID,   Default[CONFIG_NODE_ID])
        \o config_set(CONFIG_NODE_NAME, Default[CONFIG_NODE_NAME])
        \o config_set(CONFIG_MAGIC,     Default[CONFIG_MAGIC])
        \o config_set(CONFIG_VERSION,   Default[CONFIG_VERSION])

(* Variant: a write is not cut at the end of the page it begins in. *)
page_part_uncut(w) ==
  IF Len(w.in) > EEPROM_PAGE_SIZE THEN EEPROM_PAGE_SIZE ELSE Len(w.in)

(* write_size: what is left of the page, or all. *)
page_part(w) ==
  LET page_space == EEPROM_PAGE_SIZE - (w.adr % EEPROM_PAGE_SIZE)
  IN  IF page_space < Len(w.in) THEN page_space ELSE Len(w.in)

(* External: the EEPROM after the first n bytes of w.in were sent to w.adr. *)
Programmed(w, n) ==
  LET page == w.adr - (w.adr % EEPROM_PAGE_SIZE)
      nth(a) == (a - w.adr) % EEPROM_PAGE_SIZE
  IN  [a \in Address |->
         IF a \in page .. page + EEPROM_PAGE_SIZE - 1 /\ nth(a) < n
         THEN w.in[nth(a) + 1] ELSE eeprom[a]]

-----------------------------------------------------------------------------

Init ==
  /\ \E b \in Blank : eeprom = [a \in Address |-> b]
  /\ cycle = "idle"
  /\ node = "boot"
  /\ writes = << >>
  /\ reader = NoRead
  /\ written = Default
  /\ before = [p \in Params |-> {}]
  /\ torn = Params
  /\ failed = FALSE

-----------------------------------------------------------------------------
(* main(): config_init, alone on the bus *)

(* eeprom_init finds no EEPROM: nothing can be read or written. *)
InitFails ==
  /\ node = "boot"
  /\ ReadFaults
  /\ node' = "absent"
  /\ UNCHANGED <<memory, writes, reader, history>>

(* config_init up to the comparison of the magic.  The result of the read  *)
(* is not looked at: a read that fails leaves the magic 0.                 *)
config_init ==
  /\ node = "boot"
  /\ \E magic \in {uint(CONFIG_MAGIC, Stored(CONFIG_MAGIC))}
                    \cup (IF ReadFaults THEN {uint(CONFIG_MAGIC, << >>)} ELSE {}) :
       IF magic = CONFIGURATION_MAGIC
       THEN /\ node' = "ready"
            /\ UNCHANGED <<writes, history>>
       ELSE /\ node' = "format"
            /\ writes' = format
            /\ written' = Default
            /\ before' = [p \in Params |-> {}]
            /\ torn' = Params
            /\ failed' = FALSE
  /\ UNCHANGED <<memory, reader>>

FormatDone ==
  /\ node = "format"
  /\ writes = << >>
  /\ node' = "ready"
  /\ UNCHANGED <<memory, writes, reader, history>>

-----------------------------------------------------------------------------
(* Receive thread: onParamGetSet *)

SetParam(p, v) ==
  /\ node = "ready"
  /\ writes = << >>
  /\ writes' = config_set(p, v)
  /\ written' = [written EXCEPT ![p] = taken(p, v)]
  /\ before' = [before EXCEPT ![p] = @ \cup {written[p]}]
  /\ failed' = FALSE
  /\ reader' = IF reader # NoRead /\ reader.param = p
               THEN [reader EXCEPT !.seen = @ \cup {taken(p, v)}] ELSE reader
  /\ UNCHANGED <<memory, node, torn>>

-----------------------------------------------------------------------------
(* The thread in eeprom_write *)

UnderWay == {p \in Params : before[p] # {}}

(* A page, or what is wanted of it, is sent. *)
SendPage ==
  /\ writes # << >>
  /\ cycle = "idle"
  /\ eeprom' = Programmed(Head(writes), page_part(Head(writes)))
  /\ cycle' = "busy"
  /\ UNCHANGED <<node, writes, reader, history>>

(* External: the EEPROM is through with it, within the 10 ms sleep. *)
WriteCycleEnds ==
  /\ cycle = "busy"
  /\ cycle' = "done"
  /\ UNCHANGED <<eeprom, node, writes, reader, history>>

(* Variant: what was written is not taken off. *)
AckPoll_samePage ==
  /\ cycle = "done"
  /\ cycle' = "idle"
  /\ UNCHANGED <<eeprom, node, writes, reader, history>>

(* eeprom_write_ack_poll; then the next page, or the call returns.         *)
AckPoll ==
  /\ cycle = "done"
  /\ cycle' = "idle"
  /\ LET w    == Head(writes)
         n    == page_part(w)
         left == SubSeq(w.in, n + 1, Len(w.in))
     IN  IF left # << >>
         THEN /\ writes' = <<Write(w.adr + n, left, w.ends)>> \o Tail(writes)
              /\ UNCHANGED <<before, torn>>
         ELSE /\ writes' = Tail(writes)
              /\ IF failed
                 THEN UNCHANGED <<before, torn>>
                 ELSE /\ before' = [p \in Params |-> IF p \in w.ends THEN {} ELSE before[p]]
                      /\ torn' = torn \ w.ends
  /\ UNCHANGED <<eeprom, node, reader, written, failed>>

(* All tries failed: the call returns -1, its caller goes on with the next. *)
WriteFails ==
  /\ WriteFaults
  /\ writes # << >>
  /\ cycle = "idle"
  /\ \E n \in 0 .. page_part(Head(writes)) : eeprom' = Programmed(Head(writes), n)
  /\ writes' = Tail(writes)
  /\ failed' = TRUE
  /\ torn' = torn \cup UnderWay
  /\ UNCHANGED <<cycle, node, reader, written, before>>

-----------------------------------------------------------------------------
(* A thread other than the receive thread: config_get_uint, two            *)
(* transactions.  One the EEPROM does not answer, in both tries, ends it   *)
(* with 0.  "seen" (history): the values p had since the call began.       *)

ReadResult(p, v, ok) == [reader EXCEPT !.at = "end", !.value = uint(p, v), !.ok = ok]

ReadLength(p) ==
  /\ node \in {"ready", "absent"}
  /\ reader = NoRead
  /\ LET begun == [at |-> "data", param |-> p, length |-> valid_length(p),
                   value |-> << >>, ok |-> TRUE, seen |-> before[p] \cup {written[p]},
                   settled |-> p \notin torn]
     IN  \/ cycle # "busy" /\ node = "ready" /\ reader' = begun
         \/ /\ cycle = "busy" \/ ReadFaults
            /\ reader' = [begun EXCEPT !.at = "end", !.value = uint(p, << >>),
                                       !.ok = FALSE]
  /\ UNCHANGED <<memory, node, writes, history>>

ReadData ==
  /\ reader.at = "data"
  /\ \/ cycle # "busy" /\ reader' = ReadResult(reader.param,
                                               Data(reader.param, reader.length), TRUE)
     \/ /\ cycle = "busy" \/ ReadFaults
        /\ reader' = ReadResult(reader.param, << >>, FALSE)
  /\ UNCHANGED <<memory, node, writes, history>>

ReadEnd ==
  /\ reader.at = "end"
  /\ reader' = NoRead
  /\ UNCHANGED <<memory, node, writes, history>>

-----------------------------------------------------------------------------
(* The node is reset, at worst in the middle of a transaction: then the    *)
(* page has the first bytes of what was being sent.  The start of the next *)
(* program takes longer than a write cycle.                                *)
Reset ==
  /\ Resets
  /\ \/ UNCHANGED eeprom
     \/ /\ writes # << >> /\ cycle = "idle"
        /\ \E n \in 1 .. page_part(Head(writes)) : eeprom' = Programmed(Head(writes), n)
  /\ cycle' = "idle"
  /\ node' = "boot"
  /\ writes' = << >>
  /\ reader' = NoRead
  /\ torn' = torn \cup UnderWay
  /\ before' = [p \in Params |-> {}]
  /\ failed' = FALSE
  /\ UNCHANGED written

Writer == SendPage \/ WriteCycleEnds \/ AckPoll \/ WriteFails

Next ==
  \/ InitFails \/ config_init \/ FormatDone
  \/ \E s \in Settings : SetParam(s[1], s[2])
  \/ Writer
  \/ \E p \in ReadParams : ReadLength(p)
  \/ ReadData \/ ReadEnd
  \/ Reset

Spec == Init /\ [][Next]_configVars

(* Each thread goes on, and a write cycle ends. *)
FairSpec == Spec /\ WF_configVars(config_init \/ FormatDone) /\ WF_configVars(Writer)

-----------------------------------------------------------------------------
(* Properties *)

HasMagic == uint(CONFIG_MAGIC, Stored(CONFIG_MAGIC)) = CONFIGURATION_MAGIC

(* Behind a valid magic, every parameter whose last set was carried        *)
(* through has the value it was set to: no set, format, reset or failure   *)
(* harms another parameter than the one it is about.                       *)
StoredIsWritten ==
  HasMagic => \A p \in Params \ (torn \cup UnderWay) : Stored(p) = written[p]

(* The magic vouches for the defaults: behind a valid one, every parameter *)
(* that no client sets is what config_init makes it, whenever resets came. *)
MagicMeansDefaults ==
  HasMagic => \A p \in Params \ ({s[1] : s \in Settings} \cup {CONFIG_MAGIC, CONFIG_VERSION}) :
                Stored(p) = Default[p]

(* config_init comes to an end, and every set too, once resets stop. *)
ConfigSettles == <>[][~Reset]_configVars => []<>(node = "ready" /\ writes = << >>)

OnOnePage(p) ==
  (get_param_offset[p] + 1) \div EEPROM_PAGE_SIZE
    = (get_param_offset[p] + ParamSize[p]) \div EEPROM_PAGE_SIZE

(* A read of an integer that another thread's set overtakes, in either of  *)
(* its two transactions, still gives a value the parameter had, if the     *)
(* data is on one page and the EEPROM answers.                             *)
ReadIsAtomic ==
  reader.at = "end" /\ reader.ok /\ reader.settled /\ OnOnePage(reader.param) =>
    reader.value \in {uint(reader.param, v) : v \in reader.seen}

(* config.h: "mismatch of MAGIC should invalidate config".  So nothing     *)
(* else does.                                                              *)
OnlyMismatchClears == [][node = "boot" /\ node' = "format" => ~HasMagic]_configVars

=============================================================================
