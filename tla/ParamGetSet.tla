----------------------------- MODULE ParamGetSet -----------------------------
(***************************************************************************)
(* The reply of an application node to a request for one of its            *)
(* parameters (onParamGetSet in node.c).  The request names the parameter  *)
(* by its index or by its name, and carries a tagged value or none; the    *)
(* reply holds what the configuration has then.  Names are the indices     *)
(* they belong to, and bytes are digits to the base of BYTE.  What the     *)
(* EEPROM can do to a parameter is in Config; here it keeps what is set.   *)
(***************************************************************************)
EXTENDS Integers, Sequences

CONSTANTS
  BYTE,         \* values of a byte (256)
  ParamType,    \* config_param_type[], a function of the index
  ParamLength,  \* config_param_size[]
  Requests,     \* payloads a client sends
  NoName,       \* instead of a name: there is none, and nobody has it
  UnknownName,
  NoParameter   \* what an empty reply is about

INT64   == 3    \* bytes of an integer in a request (8)
FLOAT32 == 2    \* bytes of a float (4)

Params == DOMAIN ParamType

ASSUME ParamAssumption ==
  /\ BYTE \in Nat \ {0}
  /\ \A p \in Params : ParamType[p] \in {"INT", "STRING", "FLOAT32"} /\ ParamLength[p] \in Nat
  /\ \A r \in Requests : r.unionTag \in 0 .. 7 /\ r.config_id \in Nat
                       /\ r.name \in Params \cup {NoName, UnknownName}
  \* an integer comes with all its bytes, or the request is too short
  /\ \A r \in Requests : r.unionTag = 1 /\ ~r.short => r.value \in [1 .. INT64 -> 0 .. BYTE - 1]
  \* what stands for a name nobody has: neither it nor its index is one of a parameter
  /\ UnknownName \notin Params \cup {NoName} /\ 65535 \notin Params

VARIABLES
  stored,   \* what each parameter holds, its valid length included
  asked,    \* the last request
  reply    \* the reply to it: the parameter and its bytes

paramVars == <<stored, asked, reply>>

Silence   == [sent |-> FALSE, param |-> NoParameter, bytes |-> <<>>]
EmptyOnes == [sent |-> TRUE, param |-> NoParameter, bytes |-> <<>>]

ParamInit ==
  /\ stored = [p \in Params |-> [i \in 1 .. ParamLength[p] |-> 0]]
  /\ asked \in Requests /\ reply = Silence

-----------------------------------------------------------------------------
\* payloads that are not answered: too short for what they announce, or with a
\* tag there is none for
Invalid(r) == r.short \/ r.unionTag > 4

\* a name that nobody has must not leave the index in force
\* Variant: it does.
config_id_unmerged(r) == IF r.name \in Params THEN r.name ELSE r.config_id

config_id(r) ==
  CASE r.name = NoName   -> r.config_id
    [] r.name = UnknownName -> 65535
    [] OTHER              -> r.name

\* config_set: what is longer than the parameter is dropped
Kept(p, bytes) == IF Len(bytes) > ParamLength[p] THEN SubSeq(bytes, 1, ParamLength[p]) ELSE bytes

\* the value of a 0 tag or of a boolean is not written; the others are, whatever
\* the type of the parameter is
AfterSet(p, r) == IF r.unionTag \in {1, 2, 4} THEN Kept(p, r.value) ELSE stored[p]

\* numbers are filled up with zeros
Padded(bytes, n) == [i \in 1 .. n |-> IF i <= Len(bytes) THEN bytes[i] ELSE 0]
Response(p, bytes) ==
  CASE ParamType[p] = "INT"     -> Padded(bytes, INT64)
    [] ParamType[p] = "FLOAT32" -> Padded(bytes, FLOAT32)
    [] OTHER                    -> bytes

onParamGetSet(r) ==
  LET p == config_id(r) IN
  /\ asked' = r
  /\ \/ Invalid(r) /\ reply' = Silence /\ UNCHANGED stored
     \/ /\ ~Invalid(r) /\ p \notin Params
        /\ reply' = EmptyOnes /\ UNCHANGED stored
     \/ /\ ~Invalid(r) /\ p \in Params
        /\ stored' = [stored EXCEPT ![p] = AfterSet(p, r)]
        /\ reply' = [sent |-> TRUE, param |-> p, bytes |-> Response(p, AfterSet(p, r))]

ParamNext == \E r \in Requests : onParamGetSet(r)

ParamSpec == ParamInit /\ [][ParamNext]_paramVars

-----------------------------------------------------------------------------
\* what a client means: the parameter of the name if it gives one, and else of
\* the index
Meant(r) == IF r.name # NoName THEN r.name ELSE r.config_id

\* an integer of the parameter's length, positive or zero
FitsParam(r) ==
  /\ r.unionTag = 1 /\ Meant(r) \in Params /\ ParamType[Meant(r)] = "INT"
  /\ \A i \in ParamLength[Meant(r)] + 1 .. INT64 : r.value[i] = 0

\* A request reads and writes the parameter it means and no other, and an integer
\* that fits into its parameter is read back as it was set, whatever was set
\* before (onParamGetSet, config_get_id_by_name, config_set).
AnswersWhatIsMeant ==
  [][/\ \A p \in Params : stored'[p] # stored[p] => p = Meant(asked')
     /\ reply'.param # NoParameter => reply'.param = Meant(asked')
     /\ ~Invalid(asked') /\ FitsParam(asked') => reply'.bytes = asked'.value]_paramVars

=============================================================================
