---------------------------- MODULE Config_proofs ----------------------------
(***************************************************************************)
(* What the configuration store keeps, for every layout of the parameters, *)
(* every size of page and memory, and every set of values.                 *)
(*                                                                         *)
(* First, where the parameters are: get_param_offset is recursive, so what *)
(* holds of every offset is shown by a least counterexample.  Then, what   *)
(* one page of a write does, what a write that is under way leads to, and  *)
(* what the writes of a set and of the format lead to together.  The       *)
(* invariant StoreInv says of the parameters that are settled that their   *)
(* bytes are there and no write to come is at them, and of the others      *)
(* that the writes to come lead to them; StoredIsWritten follows.  VouchInv *)
(* and AtomicInv are about the magic and about the thread that reads.      *)
(***************************************************************************)
EXTENDS Config, WellFoundedInduction, TLAPS

-----------------------------------------------------------------------------
(* Where the parameters are.                                               *)

(* A set of numbers has a least one: what is left of induction without a   *)
(* rule that has a predicate as a parameter.                               *)
LEMMA Least ==
  ASSUME NEW T \in SUBSET Nat, T # {}
  PROVE  \E n \in T : \A m \in T : n <= m
<1>1. PICK n \in T : \A m \in T : ~(<<m, n>> \in OpToRel(<, Nat))
  BY NatLessThanWellFounded, WFMin
<1>2. \A m \in T : ~(m < n)
  BY <1>1 DEF OpToRel
<1> QED
  BY <1>2

(* The offsets of the first n parameters and the end of the last. *)
Offsets(n, f) ==
  /\ f = [i \in 0 .. n |-> f[i]] /\ f[0] = 0
  /\ \A i \in 1 .. n : f[i] = f[i - 1] + ParamSize[i - 1] + 1

(* The offsets are determined by the sizes. *)
LEMMA OffsetsUnique ==
  ASSUME NEW n \in Nat, NEW m \in Nat, NEW f, NEW g, Offsets(n, f), Offsets(m, g), n <= m
  PROVE  \A i \in 0 .. n : f[i] = g[i]
<1> DEFINE T == {i \in 0 .. n : f[i] # g[i]}
<1> SUFFICES ASSUME T # {} PROVE FALSE
  OBVIOUS
<1>1. PICK i \in T : \A j \in T : i <= j
  <2>1. T \in SUBSET Nat
    OBVIOUS
  <2> HIDE DEF T
  <2> QED
    BY <2>1, Least
<1>2. i # 0 /\ i \in 1 .. n /\ i \in 1 .. m
  BY DEF Offsets
<1>3. f[i - 1] = g[i - 1]
  BY <1>1, <1>2
<1> QED
  BY <1>2, <1>3 DEF Offsets

(* They exist, for any number of parameters. *)
LEMMA OffsetsExist ==
  ASSUME NEW n \in Nat
  PROVE  \E f : Offsets(n, f)
<1> DEFINE T == {i \in Nat : ~\E f : Offsets(i, f)}
<1> SUFFICES ASSUME T # {} PROVE FALSE
  OBVIOUS
<1>1. PICK i \in T : \A j \in T : i <= j
  BY Least
<1>2. CASE i = 0
  <2>1. Offsets(0, [j \in 0 .. 0 |-> 0])
    BY DEF Offsets
  <2> QED
    BY <1>2, <2>1
<1>3. CASE i # 0
  <2>1. i - 1 \in Nat /\ i - 1 \notin T
    BY <1>1, <1>3
  <2>2. PICK f : Offsets(i - 1, f)
    BY <2>1
  <2> DEFINE g == [j \in 0 .. i |-> IF j < i THEN f[j]
                                    ELSE f[i - 1] + ParamSize[i - 1] + 1]
  <2>3. Offsets(i, g)
    <3>1. g[0] = 0
      BY <1>3, <2>2 DEF Offsets
    <3>2. ASSUME NEW j \in 1 .. i PROVE g[j] = g[j - 1] + ParamSize[j - 1] + 1
      <4>1. CASE j = i
        BY <4>1
      <4>2. CASE j # i
        <5>1. j \in 1 .. i - 1
          BY <4>2
        <5>2. g[j] = f[j] /\ g[j - 1] = f[j - 1]
          BY <5>1
        <5> QED
          BY <2>2, <5>1, <5>2 DEF Offsets
      <4> QED
        BY <4>1, <4>2
    <3> QED
      BY <3>1, <3>2 DEF Offsets
  <2> QED
    BY <2>3
<1> QED
  BY <1>2, <1>3

(* The recursive function is what its definition says. *)
LEMMA OffsetDefined ==
  get_param_offset =
    [p \in Nat |-> IF p = 0 THEN 0 ELSE get_param_offset[p - 1] + ParamSize[p - 1] + 1]
<1> DEFINE F(n) == CHOOSE f : Offsets(n, f)
           g == [n \in Nat |-> F(n)[n]]
<1>1. \A n \in Nat : Offsets(n, F(n))
  BY OffsetsExist
<1> HIDE DEF F
<1>2. g[0] = 0
  BY <1>1 DEF Offsets
<1>3. ASSUME NEW n \in Nat, n # 0
      PROVE  g[n] = g[n - 1] + ParamSize[n - 1] + 1
  <2>1. n - 1 \in Nat /\ n \in 1 .. n /\ n - 1 \in 0 .. n - 1 /\ n - 1 <= n
    BY <1>3
  <2>2. F(n)[n - 1] = F(n - 1)[n - 1]
    BY <1>1, <2>1, OffsetsUnique
  <2>3. F(n)[n] = F(n)[n - 1] + ParamSize[n - 1] + 1
    BY <1>1, <2>1 DEF Offsets
  <2> QED
    BY <2>1, <2>2, <2>3
<1>4. g = [p \in Nat |-> IF p = 0 THEN 0 ELSE g[p - 1] + ParamSize[p - 1] + 1]
  BY <1>2, <1>3
<1> HIDE DEF g
<1> QED
  BY <1>4 DEF get_param_offset

(* A parameter begins where the one before ends. *)
LEMMA NextOffset ==
  /\ get_param_offset[0] = 0
  /\ \A p \in Params : /\ get_param_offset[p + 1] = get_param_offset[p] + ParamSize[p] + 1
                       /\ ParamSize[p] \in Nat \ {0}
<1>1. get_param_offset[0] = 0
  BY OffsetDefined
<1>2. ASSUME NEW p \in Params
      PROVE  /\ get_param_offset[p + 1] = get_param_offset[p] + ParamSize[p] + 1
             /\ ParamSize[p] \in Nat \ {0}
  <2>1. p \in Nat /\ p + 1 \in Nat /\ p + 1 # 0 /\ (p + 1) - 1 = p
    BY ConfigAssumption DEF Params
  <2>2. get_param_offset[p + 1] =
          IF p + 1 = 0 THEN 0
          ELSE get_param_offset[(p + 1) - 1] + ParamSize[(p + 1) - 1] + 1
    BY <2>1, OffsetDefined
  <2>3. ParamSize[p] \in Nat \ {0}
    BY ConfigAssumption
  <2> QED
    BY <2>1, <2>2, <2>3
<1> QED
  BY <1>1, <1>2

(* Every offset is a number. *)
LEMMA OffsetsAreNumbers == \A p \in 0 .. CONFIG_PARAM_LAST : get_param_offset[p] \in Nat
<1> DEFINE T == {p \in 0 .. CONFIG_PARAM_LAST : get_param_offset[p] \notin Nat}
<1> SUFFICES ASSUME T # {} PROVE FALSE
  OBVIOUS
<1>1. PICK p \in T : \A q \in T : p <= q
  <2>1. T \in SUBSET Nat
    BY ConfigAssumption
  <2> HIDE DEF T
  <2> QED
    BY <2>1, Least
<1>2. p # 0
  BY NextOffset
<1>3. p - 1 \in Params /\ p - 1 \notin T /\ (p - 1) + 1 = p
  BY <1>1, <1>2, ConfigAssumption DEF Params
<1>4. get_param_offset[p - 1] \in Nat
  BY <1>3, ConfigAssumption DEF Params
<1> QED
  BY <1>3, <1>4, NextOffset

(* A parameter ends before any later one begins. *)
LEMMA LaterOffset ==
  ASSUME NEW q \in Params, NEW p \in q + 1 .. CONFIG_PARAM_LAST
  PROVE  get_param_offset[q] + ParamSize[q] + 1 <= get_param_offset[p]
<1> DEFINE end == get_param_offset[q] + ParamSize[q] + 1
           T == {n \in q + 1 .. CONFIG_PARAM_LAST : ~(end <= get_param_offset[n])}
<1> SUFFICES ASSUME T # {} PROVE FALSE
  OBVIOUS
<1>1. q \in Nat /\ CONFIG_PARAM_LAST \in Nat /\ q < CONFIG_PARAM_LAST
  BY ConfigAssumption DEF Params
<1>2. PICK n \in T : \A m \in T : n <= m
  <2>1. T \in SUBSET Nat
    BY <1>1
  <2> HIDE DEF T
  <2> QED
    BY <2>1, Least
<1>3. end \in Nat /\ end = get_param_offset[q + 1]
  BY <1>1, NextOffset, OffsetsAreNumbers
<1>4. n # q + 1
  BY <1>3
<1>5. /\ n - 1 \in Params /\ n - 1 \in q + 1 .. CONFIG_PARAM_LAST /\ n - 1 \notin T
      /\ (n - 1) + 1 = n
  BY <1>1, <1>2, <1>4 DEF Params
<1>6. end <= get_param_offset[n - 1] /\ get_param_offset[n - 1] \in Nat
  BY <1>1, <1>5, OffsetsAreNumbers DEF Params
<1>7. get_param_offset[n] = get_param_offset[n - 1] + ParamSize[n - 1] + 1
  BY <1>5, NextOffset
<1> QED
  BY <1>3, <1>5, <1>6, <1>7, NextOffset

(* The bytes of a parameter: its length and its data. *)
Area(p) == get_param_offset[p] .. get_param_offset[p] + ParamSize[p]

(* Every parameter is in the memory, and no two share a byte. *)
LEMMA Layout ==
  /\ \A p \in Params : /\ get_param_offset[p] \in Nat /\ ParamSize[p] \in Nat \ {0}
                       /\ get_param_offset[p] + ParamSize[p] < CONFIG_MAX_SIZE
                       /\ Area(p) \subseteq Address
  /\ \A p, q \in Params : p # q => Area(p) \cap Area(q) = {}
<1>1. CONFIG_PARAM_LAST \in Nat /\ get_param_offset[CONFIG_PARAM_LAST] <= CONFIG_MAX_SIZE
  BY ConfigAssumption
<1>2. ASSUME NEW p \in Params
      PROVE  /\ get_param_offset[p] \in Nat /\ ParamSize[p] \in Nat \ {0}
             /\ get_param_offset[p] + ParamSize[p] + 1 <= get_param_offset[CONFIG_PARAM_LAST]
             /\ get_param_offset[CONFIG_PARAM_LAST] \in Nat
  <2>1. /\ p \in 0 .. CONFIG_PARAM_LAST /\ CONFIG_PARAM_LAST \in p + 1 .. CONFIG_PARAM_LAST
        /\ CONFIG_PARAM_LAST \in 0 .. CONFIG_PARAM_LAST
    BY <1>1 DEF Params
  <2> QED
    BY <2>1, LaterOffset, OffsetsAreNumbers, NextOffset
<1>3. CONFIG_MAX_SIZE \in Int
  BY ConfigAssumption
<1>4. ASSUME NEW p \in Params, NEW q \in Params, p < q
      PROVE  Area(p) \cap Area(q) = {}
  <2>1. q \in p + 1 .. CONFIG_PARAM_LAST
    BY <1>1, <1>4 DEF Params
  <2>2. get_param_offset[p] + ParamSize[p] + 1 <= get_param_offset[q]
    BY <2>1, LaterOffset
  <2> QED
    BY <1>2, <2>2 DEF Area
<1>5. \A p, q \in Params : p # q => p < q \/ q < p
  BY <1>1 DEF Params
<1> QED
  BY <1>1, <1>2, <1>3, <1>4, <1>5 DEF Area, Address

-----------------------------------------------------------------------------
(* Sequences, as the writes use them.                                      *)

(* Head and tail of a sequence. *)
LEMMA SeqTail ==
  ASSUME NEW S, NEW s \in Seq(S), s # << >>
  PROVE  /\ Head(s) = s[1] /\ s[1] \in S /\ Len(s) \in Nat \ {0}
         /\ Tail(s) \in Seq(S) /\ Len(Tail(s)) = Len(s) - 1
         /\ \A i \in 1 .. Len(s) - 1 : Tail(s)[i] = s[i + 1]
OBVIOUS

(* A sequence is empty when it has no length. *)
LEMMA SeqEmpty ==
  ASSUME NEW S, NEW s \in Seq(S)
  PROVE  s = << >> <=> Len(s) = 0
OBVIOUS

(* A sequence with another head. *)
LEMMA SeqNewHead ==
  ASSUME NEW S, NEW s \in Seq(S), s # << >>, NEW x \in S
  PROVE  /\ <<x>> \o Tail(s) \in Seq(S) /\ Len(<<x>> \o Tail(s)) = Len(s)
         /\ (<<x>> \o Tail(s))[1] = x
         /\ \A i \in 2 .. Len(s) : (<<x>> \o Tail(s))[i] = s[i]
OBVIOUS

(* A sequence without its first n elements. *)
LEMMA SeqRest ==
  ASSUME NEW S, NEW s \in Seq(S), NEW n \in 0 .. Len(s)
  PROVE  /\ SubSeq(s, n + 1, Len(s)) \in Seq(S)
         /\ Len(SubSeq(s, n + 1, Len(s))) = Len(s) - n
         /\ \A i \in 1 .. Len(s) - n : SubSeq(s, n + 1, Len(s))[i] = s[n + i]
OBVIOUS

(* The first n elements of a sequence. *)
LEMMA SeqFirst ==
  ASSUME NEW S, NEW s \in Seq(S), NEW n \in 0 .. Len(s)
  PROVE  /\ SubSeq(s, 1, n) \in Seq(S) /\ Len(SubSeq(s, 1, n)) = n
         /\ \A i \in 1 .. n : SubSeq(s, 1, n)[i] = s[i]
OBVIOUS

-----------------------------------------------------------------------------
(* One write, and what a page of it does.                                  *)

Writes == {w \in [adr : Address, in : Seq(Nat), ends : SUBSET Params] :
             w.in # << >> /\ w.adr + Len(w.in) <= CONFIG_MAX_SIZE}

Covers(w, a) == a \in w.adr .. w.adr + Len(w.in) - 1
Value(w, a) == w.in[a - w.adr + 1]

(* The fields of a write are inside the memory. *)
LEMMA WriteNumbers ==
  ASSUME NEW w \in Writes
  PROVE  /\ w.adr \in Nat /\ w.in \in Seq(Nat) /\ Len(w.in) \in Nat \ {0}
         /\ w.adr + Len(w.in) <= CONFIG_MAX_SIZE /\ w.ends \subseteq Params
         /\ w = [adr |-> w.adr, in |-> w.in, ends |-> w.ends]
         /\ CONFIG_MAX_SIZE \in Nat /\ EEPROM_PAGE_SIZE \in Nat \ {0}
BY ConfigAssumption DEF Writes, Address

(* Remainders of what is less than a page away. *)
LEMMA WithinPage ==
  ASSUME NEW n \in Nat \ {0}
  PROVE  /\ \A x \in 0 .. n - 1 : x % n = x
         /\ \A x \in Nat : x % n \in 0 .. n - 1
         /\ \A x \in 1 .. n - 1 : (-x) % n = n - x
<1>1. ASSUME NEW x \in 1 .. n - 1 PROVE (-x) % n = n - x
  <2>1. -x = n * (-1) + (n - x) /\ n - x \in 0 .. n - 1
    OBVIOUS
  <2>2. (-x) \div n = -1
    BY <2>1
  <2> QED
    BY <2>1, <2>2
<1>2. \A x \in 0 .. n - 1 : x % n = x
  OBVIOUS
<1>3. \A x \in Nat : x % n \in 0 .. n - 1
  OBVIOUS
<1> QED
  BY <1>1, <1>2, <1>3

(* A page takes at least a byte, and none behind its end. *)
LEMMA PagePart ==
  ASSUME NEW w \in Writes
  PROVE  /\ page_part(w) \in 1 .. Len(w.in)
         /\ page_part(w) <= EEPROM_PAGE_SIZE - (w.adr % EEPROM_PAGE_SIZE)
         /\ w.adr % EEPROM_PAGE_SIZE \in 0 .. EEPROM_PAGE_SIZE - 1
<1>1. /\ w.adr \in Nat /\ Len(w.in) \in Nat \ {0} /\ EEPROM_PAGE_SIZE \in Nat \ {0}
  BY WriteNumbers
<1>2. w.adr % EEPROM_PAGE_SIZE \in 0 .. EEPROM_PAGE_SIZE - 1
  BY <1>1, WithinPage
<1> QED
  BY <1>1, <1>2 DEF page_part

(* A page that is programmed, or its first bytes, has what was sent, and   *)
(* nothing else is changed: the address does not wrap.                     *)
LEMMA ProgrammedBytes ==
  ASSUME NEW w \in Writes, NEW n \in 0 .. page_part(w), eeprom \in [Address -> Nat]
  PROVE  /\ Programmed(w, n) \in [Address -> Nat]
         /\ \A a \in Address :
              Programmed(w, n)[a] = IF a \in w.adr .. w.adr + n - 1 THEN Value(w, a)
                                    ELSE eeprom[a]
<1> DEFINE size == EEPROM_PAGE_SIZE
           rest == w.adr % size
           page == w.adr - rest
           nth(a) == (a - w.adr) % size
           hit(a) == a \in page .. page + size - 1 /\ nth(a) < n
<1>1. /\ size \in Nat \ {0} /\ rest \in 0 .. size - 1 /\ n <= size - rest
  BY PagePart, WriteNumbers
<1>2. /\ w.adr \in Nat /\ w.in \in Seq(Nat)
      /\ n \in Nat /\ n <= Len(w.in) /\ Len(w.in) \in Nat
  BY PagePart, WriteNumbers
<1>3. ASSUME NEW a \in Address
      PROVE  /\ hit(a) <=> a \in w.adr .. w.adr + n - 1
             /\ hit(a) => nth(a) = a - w.adr
  <2>1. a \in Nat
    BY DEF Address
  <2> HIDE DEF size, rest
  <2>2. CASE a - w.adr \in 0 .. size - 1
    <3>1. nth(a) = a - w.adr
      BY <1>1, <2>2, WithinPage
    <3>2. hit(a) <=> a \in page .. page + size - 1 /\ a - w.adr < n
      BY <3>1
    <3> HIDE DEF hit, nth
    <3>3. a \in page .. page + size - 1 <=> a - w.adr < size - rest
      BY <1>1, <1>2, <2>1, <2>2
    <3>4. a \in w.adr .. w.adr + n - 1 <=> a - w.adr < n
      BY <1>2, <2>1, <2>2
    <3>5. a - w.adr < n => a - w.adr < size - rest
      BY <1>1, <1>2, <2>1
    <3> QED
      BY <3>1, <3>2, <3>3, <3>4, <3>5
  <2>3. CASE w.adr - a \in 1 .. size - 1
    <3>1. nth(a) = size - (w.adr - a)
      <4>1. a - w.adr = -(w.adr - a)
        BY <1>2, <2>1
      <4> QED
        BY <1>1, <2>3, <4>1, WithinPage
    <3> HIDE DEF nth
    <3>2. a \in page .. page + size - 1 => w.adr - a <= rest
      BY <1>1, <1>2, <2>1
    <3>3. hit(a) => w.adr - a <= rest /\ nth(a) < n
      BY <3>2
    <3>4. w.adr - a <= rest => ~(size - (w.adr - a) < n)
      BY <1>1, <1>2, <2>1
    <3>5. a \notin w.adr .. w.adr + n - 1
      BY <1>2, <2>1, <2>3
    <3> HIDE DEF hit
    <3> QED
      BY <3>1, <3>3, <3>4, <3>5
  <2>4. CASE a - w.adr >= size \/ w.adr - a >= size
    <3>1. a \notin w.adr .. w.adr + n - 1
      BY <1>1, <1>2, <2>1, <2>4
    <3>2. a \notin page .. page + size - 1
      BY <1>1, <1>2, <2>1, <2>4
    <3>3. ~hit(a)
      BY <3>2
    <3> HIDE DEF hit, nth
    <3> QED
      BY <3>1, <3>3
  <2> HIDE DEF hit, nth
  <2> QED
    BY <1>1, <1>2, <2>1, <2>2, <2>3, <2>4
<1>4. Programmed(w, n) = [a \in Address |-> IF hit(a) THEN w.in[nth(a) + 1] ELSE eeprom[a]]
  BY DEF Programmed
<1> HIDE DEF hit, nth, rest, page, size
<1>5. ASSUME NEW a \in Address, hit(a)
      PROVE  Value(w, a) \in Nat /\ w.in[nth(a) + 1] = Value(w, a)
  <2>1. a \in w.adr .. w.adr + n - 1 /\ nth(a) = a - w.adr
    BY <1>3, <1>5
  <2>2. a - w.adr + 1 \in 1 .. Len(w.in)
    BY <1>2, <2>1, SMTT(30)
  <2> QED
    BY <1>2, <2>1, <2>2, SMTT(30) DEF Value
<1> QED
  BY <1>3, <1>4, <1>5

-----------------------------------------------------------------------------
(* What the writes lead to.                                                *)

(* A parameter of which every byte is known: it is only set as a whole, as *)
(* the integers are, and the default is its whole or nothing.  Of others   *)
(* the bytes behind the value may be those of a longer one before.         *)
Whole(p) ==
  /\ Default[p] = << >> \/ Full(p, Default[p])
  /\ \A s \in Settings : s[1] = p => Len(s[2]) >= ParamSize[p]

(* The bytes of parameter p that tell its value v, and what they are. *)
Cells(p, v) ==
  get_param_offset[p] .. get_param_offset[p] + (IF Whole(p) THEN ParamSize[p] ELSE Len(v))

Content(p, v, a) ==
  LET i == a - get_param_offset[p]
  IN  IF i = 0 THEN Len(v) ELSE IF i <= Len(v) THEN v[i] ELSE 0

(* Byte a has the value v and keeps it, or gets it with one of the next j  *)
(* writes and then keeps it.                                               *)
Leads(j, a, v) ==
  \/ eeprom[a] = v /\ \A k \in 1 .. Len(writes) : ~Covers(writes[k], a)
  \/ \E i \in 1 .. j : /\ Covers(writes[i], a) /\ Value(writes[i], a) = v
                       /\ \A k \in i + 1 .. Len(writes) : ~Covers(writes[k], a)

MemoryOK ==
  /\ eeprom \in [Address -> Nat]
  /\ cycle \in {"idle", "busy", "done"}
  /\ node \in {"boot", "format", "ready", "absent"}
  /\ writes \in Seq(Writes)

HistoryOK ==
  /\ written \in [Params -> Seq(Byte)]
  /\ \A p \in Params : /\ Len(written[p]) <= ParamSize[p]
                       /\ Whole(p) => written[p] = << >> \/ Full(p, written[p])
  /\ before \in [Params -> SUBSET Seq(Byte)]
  /\ torn \in SUBSET Params
  /\ failed \in BOOLEAN

(* While the EEPROM is at a page, the page has been sent. *)
PageSent ==
  cycle # "idle" =>
    /\ writes # << >>
    /\ LET w == Head(writes)
       IN  \A a \in w.adr .. w.adr + page_part(w) - 1 : eeprom[a] = Value(w, a)

(* A parameter that is neither torn nor being set has its value, and no    *)
(* write that is still to come is at it.                                   *)
Settled ==
  \A p \in Params \ (torn \cup UnderWay) : \A a \in Cells(p, written[p]) :
    Leads(0, a, Content(p, written[p], a))

(* Unless one fails, the writes up to the last of a parameter write it. *)
Planned ==
  ~failed => \A j \in 1 .. Len(writes) : \A p \in writes[j].ends :
               \A a \in Cells(p, written[p]) : Leads(j, a, Content(p, written[p], a))

(* A node that starts has nothing to write yet. *)
NoneAtBoot == node = "boot" => writes = << >>

StoreInv == MemoryOK /\ HistoryOK /\ PageSent /\ NoneAtBoot /\ Settled /\ Planned

(* The write that is under way, and those after it. *)
LEMMA HeadWrite ==
  ASSUME MemoryOK, writes # << >>
  PROVE  /\ Head(writes) = writes[1] /\ Head(writes) \in Writes
         /\ Len(writes) \in Nat \ {0}
         /\ Tail(writes) \in Seq(Writes) /\ Len(Tail(writes)) = Len(writes) - 1
         /\ \A i \in 1 .. Len(writes) - 1 : Tail(writes)[i] = writes[i + 1]
BY SeqTail DEF MemoryOK

(* The bytes of a write that a page takes, and the rest. *)
RestOf(w) ==
  Write(w.adr + page_part(w), SubSeq(w.in, page_part(w) + 1, Len(w.in)), w.ends)

(* The rest of a write is a write, of the bytes that are left. *)
LEMMA RestWrite ==
  ASSUME NEW w \in Writes
  PROVE  /\ SubSeq(w.in, page_part(w) + 1, Len(w.in)) = << >> <=> page_part(w) = Len(w.in)
         /\ page_part(w) # Len(w.in) =>
              /\ RestOf(w) \in Writes /\ RestOf(w).ends = w.ends
              /\ \A a \in Int : /\ Covers(RestOf(w), a) <=>
                                     Covers(w, a) /\ a >= w.adr + page_part(w)
                                /\ Covers(RestOf(w), a) => Value(RestOf(w), a) = Value(w, a)
<1>1. PICK adr \in Nat, in \in Seq(Nat), len \in Nat, ends \in SUBSET Params :
        /\ w = [adr |-> adr, in |-> in, ends |-> ends]
        /\ len = Len(in) /\ adr + len <= CONFIG_MAX_SIZE /\ CONFIG_MAX_SIZE \in Nat
  BY WriteNumbers
<1>2. PICK n \in 1 .. len : n = page_part(w)
  BY <1>1, PagePart
<1>3. PICK left \in Seq(Nat) :
        /\ left = SubSeq(in, n + 1, len) /\ Len(left) = len - n
        /\ \A i \in 1 .. len - n : left[i] = in[n + i]
  <2>1. n \in 0 .. Len(in)
    BY <1>1
  <2>2. /\ SubSeq(in, n + 1, Len(in)) \in Seq(Nat)
        /\ Len(SubSeq(in, n + 1, Len(in))) = Len(in) - n
        /\ \A i \in 1 .. Len(in) - n : SubSeq(in, n + 1, Len(in))[i] = in[n + i]
    BY <2>1, SeqRest
  <2>3. len = Len(in)
    BY <1>1
  <2> DEFINE rest == SubSeq(in, n + 1, len)
  <2>4. /\ rest \in Seq(Nat) /\ Len(rest) = len - n
        /\ \A i \in 1 .. len - n : rest[i] = in[n + i]
    BY <2>2, <2>3
  <2> HIDE DEF rest
  <2>5. rest = SubSeq(in, n + 1, len)
    BY DEF rest
  <2> QED
    BY <2>4, <2>5, Zenon
<1>4. left = << >> <=> n = len
  <2>1. left = << >> <=> Len(left) = 0
    BY SeqEmpty
  <2>2. Len(left) = len - n
    BY <1>3
  <2> QED
    BY <2>1, <2>2
<1>5. RestOf(w) = [adr |-> adr + n, in |-> left, ends |-> ends]
  BY <1>1, <1>2, <1>3 DEF RestOf, Write
<1>6. ASSUME n # len PROVE RestOf(w) \in Writes
  <2>1. adr + n \in Address /\ adr + n + Len(left) <= CONFIG_MAX_SIZE
    <3>1. Len(left) = len - n
      BY <1>3
    <3> QED
      BY <1>1, <1>6, <3>1 DEF Address
  <2> QED
    BY <1>4, <1>5, <1>6, <2>1 DEF Writes
<1>7. ASSUME NEW a \in Int
      PROVE  /\ Covers(RestOf(w), a) <=> Covers(w, a) /\ a >= adr + n
             /\ Covers(RestOf(w), a) => Value(RestOf(w), a) = Value(w, a)
  <2>1. Covers(RestOf(w), a) <=> a \in adr + n .. adr + len - 1
    <3>1. Len(left) = len - n
      BY <1>3
    <3> QED
      BY <1>5, <3>1 DEF Covers
  <2>2. Covers(w, a) <=> a \in adr .. adr + len - 1
    BY <1>1 DEF Covers
  <2>3. ASSUME Covers(RestOf(w), a) PROVE Value(RestOf(w), a) = Value(w, a)
    <3>1. Value(RestOf(w), a) = left[a - (adr + n) + 1] /\ Value(w, a) = in[a - adr + 1]
      BY <1>1, <1>5 DEF Value
    <3>2. /\ a - (adr + n) + 1 \in 1 .. len - n
          /\ n + (a - (adr + n) + 1) = a - adr + 1
      BY <2>1, <2>3
    <3> QED
      BY <1>3, <3>1, <3>2
  <2> QED
    BY <2>1, <2>2, <2>3
<1>8. w.adr = adr /\ w.in = in /\ w.ends = ends /\ Len(w.in) = len
  BY <1>1
<1> QED
  <2>1. SubSeq(w.in, page_part(w) + 1, Len(w.in)) = << >> <=> page_part(w) = Len(w.in)
    BY <1>2, <1>3, <1>4, <1>8, Zenon
  <2>2. page_part(w) # Len(w.in) => RestOf(w) \in Writes
    BY <1>2, <1>6, <1>8
  <2>3. RestOf(w).ends = w.ends
    BY <1>5, <1>8
  <2> QED
    BY <1>2, <1>7, <1>8, <2>1, <2>2, <2>3

(* Sending a page, or a part of it, changes nothing of what is led to. *)
LEMMA LeadsSent ==
  ASSUME MemoryOK, writes # << >>, NEW n \in 0 .. page_part(Head(writes)),
         eeprom' = Programmed(Head(writes), n), writes' = writes,
         NEW a \in Address, NEW v, NEW j \in Nat, Leads(j, a, v)
  PROVE  Leads(j, a, v)'
<1>1. CASE eeprom[a] = v /\ \A k \in 1 .. Len(writes) : ~Covers(writes[k], a)
  <2>1. ~Covers(Head(writes), a) /\ Head(writes) \in Writes
    BY <1>1, HeadWrite
  <2>2. a \notin Head(writes).adr .. Head(writes).adr + n - 1
    BY <2>1, PagePart, WriteNumbers, SMTT(30) DEF Covers
  <2>3. eeprom'[a] = eeprom[a]
    BY <2>1, <2>2, ProgrammedBytes DEF MemoryOK
  <2> QED
    BY <1>1, <2>3 DEF Leads
<1> QED
  BY <1>1 DEF Leads

(* Nor does it for a byte that no write is at, when the writes that are    *)
(* left are given up, or the first of them.                                *)
LEMMA LeadsDropped ==
  ASSUME MemoryOK,
         \/ eeprom' = eeprom
         \/ writes # << >> /\ \E n \in 0 .. page_part(Head(writes)) :
                                eeprom' = Programmed(Head(writes), n),
         writes' = << >> \/ (writes # << >> /\ writes' = Tail(writes)),
         NEW a \in Address, NEW v, Leads(0, a, v)
  PROVE  Leads(0, a, v)'
<1>1. eeprom[a] = v /\ \A k \in 1 .. Len(writes) : ~Covers(writes[k], a)
  BY DEF Leads
<1>2. eeprom'[a] = v
  <2>1. CASE eeprom' = eeprom
    BY <1>1, <2>1
  <2>2. ASSUME writes # << >>, NEW n \in 0 .. page_part(Head(writes)),
               eeprom' = Programmed(Head(writes), n)
        PROVE  eeprom'[a] = v
    <3>1. ~Covers(Head(writes), a) /\ Head(writes) \in Writes
      BY <1>1, <2>2, HeadWrite
    <3>2. a \notin Head(writes).adr .. Head(writes).adr + n - 1
      BY <3>1, PagePart, WriteNumbers, SMTT(30) DEF Covers
    <3> QED
      BY <1>1, <2>2, <3>1, <3>2, ProgrammedBytes DEF MemoryOK
  <2> QED
    BY <2>1, <2>2
<1>3. \A k \in 1 .. Len(writes') : ~Covers(writes'[k], a)
  <2>1. CASE writes' = << >>
    BY <2>1
  <2>2. CASE writes # << >> /\ writes' = Tail(writes)
    <3> SUFFICES ASSUME NEW k \in 1 .. Len(writes') PROVE ~Covers(writes'[k], a)
      OBVIOUS
    <3>1. k \in 1 .. Len(writes) - 1 /\ k + 1 \in 1 .. Len(writes)
      BY <2>2, HeadWrite
    <3> QED
      BY <1>1, <2>2, <3>1, HeadWrite
  <2> QED
    BY <2>1, <2>2
<1> QED
  BY <1>2, <1>3 DEF Leads

(* What has been sent need not be sent: the first write without its page   *)
(* leads to the same, and without it the rest do, one write earlier.       *)
LEMMA LeadsRest ==
  ASSUME MemoryOK, PageSent, cycle # "idle", eeprom' = eeprom,
         page_part(Head(writes)) # Len(Head(writes).in),
         writes' = <<RestOf(Head(writes))>> \o Tail(writes),
         NEW a \in Address, NEW v, NEW j \in 0 .. Len(writes), Leads(j, a, v)
  PROVE  Leads(j, a, v)'
<1> DEFINE w == Head(writes)
<1>1. writes # << >> /\ w \in Writes /\ w = writes[1] /\ Len(writes) \in Nat \ {0}
  BY HeadWrite DEF PageSent
<1>2. /\ RestOf(w) \in Writes
      /\ \A b \in Int : /\ Covers(RestOf(w), b) <=> Covers(w, b) /\ b >= w.adr + page_part(w)
                        /\ Covers(RestOf(w), b) => Value(RestOf(w), b) = Value(w, b)
  BY <1>1, RestWrite
<1>3. /\ Len(writes') = Len(writes) /\ writes'[1] = RestOf(w)
      /\ \A i \in 2 .. Len(writes) : writes'[i] = writes[i]
  BY <1>1, <1>2, SeqNewHead DEF MemoryOK
<1>4. a \in Int /\ w.adr \in Int /\ page_part(w) \in Int
  BY <1>1, WriteNumbers, PagePart DEF Address
<1>5. \A b \in w.adr .. w.adr + page_part(w) - 1 : eeprom[b] = Value(w, b)
  BY DEF PageSent
<1> HIDE DEF w
<1>6. \A k \in 1 .. Len(writes) : Covers(writes'[k], a) => Covers(writes[k], a)
  <2> SUFFICES ASSUME NEW k \in 1 .. Len(writes), Covers(writes'[k], a)
               PROVE  Covers(writes[k], a)
    OBVIOUS
  <2>1. CASE k = 1
    BY <1>1, <1>2, <1>3, <1>4, <2>1
  <2>2. CASE k # 1
    <3>1. k \in 2 .. Len(writes)
      BY <1>1, <2>2
    <3> QED
      BY <1>3, <3>1
  <2> QED
    BY <2>1, <2>2
<1>7. CASE eeprom[a] = v /\ \A k \in 1 .. Len(writes) : ~Covers(writes[k], a)
  BY <1>3, <1>6, <1>7 DEF Leads
<1>8. ASSUME NEW i \in 1 .. j, Covers(writes[i], a), Value(writes[i], a) = v,
             \A k \in i + 1 .. Len(writes) : ~Covers(writes[k], a)
      PROVE  Leads(j, a, v)'
  <2>1. \A k \in i + 1 .. Len(writes) : ~Covers(writes'[k], a)
    <3> TAKE k \in i + 1 .. Len(writes)
    <3>1. k \in 1 .. Len(writes)
      BY <1>1
    <3> QED
      BY <1>6, <1>8, <3>1
  <2>2. CASE i = 1 /\ a >= w.adr + page_part(w)
    <3>1. Covers(writes'[1], a) /\ Value(writes'[1], a) = v
      BY <1>1, <1>2, <1>3, <1>4, <1>8, <2>2
    <3> QED
      BY <1>3, <2>1, <2>2, <3>1 DEF Leads
  <2>3. CASE i = 1 /\ ~(a >= w.adr + page_part(w))
    <3>1. a \in w.adr .. w.adr + page_part(w) - 1
      BY <1>1, <1>4, <1>8, <2>3 DEF Covers
    <3>2. eeprom[a] = v
      BY <1>1, <1>5, <1>8, <2>3, <3>1
    <3>3. \A k \in 1 .. Len(writes) : ~Covers(writes'[k], a)
      <4> TAKE k \in 1 .. Len(writes)
      <4>1. CASE k = 1
        BY <1>2, <1>3, <1>4, <2>3, <4>1
      <4>2. CASE k # 1
        <5>1. k \in i + 1 .. Len(writes)
          BY <1>1, <2>3, <4>2
        <5> QED
          BY <2>1, <5>1
      <4> QED
        BY <4>1, <4>2
    <3> QED
      BY <1>3, <3>2, <3>3 DEF Leads
  <2>4. CASE i # 1
    <3>1. writes'[i] = writes[i]
      BY <1>1, <1>3, <2>4
    <3> QED
      BY <1>3, <1>8, <2>1, <3>1 DEF Leads
  <2> QED
    BY <2>2, <2>3, <2>4
<1> QED
  BY <1>7, <1>8 DEF Leads

(* The same when nothing is left of the first write: it is taken off. *)
LEMMA LeadsDone ==
  ASSUME MemoryOK, PageSent, cycle # "idle", eeprom' = eeprom,
         page_part(Head(writes)) = Len(Head(writes).in), writes' = Tail(writes),
         NEW a \in Address, NEW v, NEW j \in 0 .. Len(writes), Leads(j, a, v)
  PROVE  Leads(IF j = 0 THEN 0 ELSE j - 1, a, v)'
<1> DEFINE w == Head(writes)
           l == IF j = 0 THEN 0 ELSE j - 1
<1>1. /\ writes # << >> /\ w \in Writes /\ w = writes[1] /\ Len(writes) \in Nat \ {0}
      /\ Len(writes') = Len(writes) - 1
      /\ \A i \in 1 .. Len(writes) - 1 : writes'[i] = writes[i + 1]
  BY HeadWrite DEF PageSent
<1>2. \A b \in w.adr .. w.adr + Len(w.in) - 1 : eeprom[b] = Value(w, b)
  BY DEF PageSent
<1> HIDE DEF w
<1>3. CASE eeprom[a] = v /\ \A k \in 1 .. Len(writes) : ~Covers(writes[k], a)
  <2>1. \A k \in 1 .. Len(writes') : ~Covers(writes'[k], a)
    <3> TAKE k \in 1 .. Len(writes')
    <3>1. k \in 1 .. Len(writes) - 1 /\ k + 1 \in 1 .. Len(writes)
      BY <1>1
    <3> QED
      BY <1>1, <1>3, <3>1
  <2> QED
    BY <1>3, <2>1 DEF Leads
<1>4. ASSUME NEW i \in 1 .. j, Covers(writes[i], a), Value(writes[i], a) = v,
             \A k \in i + 1 .. Len(writes) : ~Covers(writes[k], a)
      PROVE  Leads(l, a, v)'
  <2>1. \A k \in i .. Len(writes') : k >= 1 => ~Covers(writes'[k], a)
    <3> TAKE k \in i .. Len(writes')
    <3>1. k \in 1 .. Len(writes) - 1 /\ k + 1 \in i + 1 .. Len(writes)
      BY <1>1
    <3> QED
      BY <1>1, <1>4, <3>1
  <2>2. CASE i = 1
    <3>1. eeprom[a] = v
      BY <1>1, <1>2, <1>4, <2>2 DEF Covers
    <3>2. \A k \in 1 .. Len(writes') : ~Covers(writes'[k], a)
      BY <2>1, <2>2
    <3> QED
      BY <3>1, <3>2 DEF Leads
  <2>3. CASE i # 1
    <3>1. i - 1 \in 1 .. l /\ i - 1 \in 1 .. Len(writes) - 1 /\ (i - 1) + 1 = i
      BY <1>1, <2>3
    <3>2. Covers(writes'[i - 1], a) /\ Value(writes'[i - 1], a) = v
      BY <1>1, <1>4, <3>1
    <3>3. \A k \in (i - 1) + 1 .. Len(writes') : ~Covers(writes'[k], a)
      BY <2>1, <3>1
    <3> HIDE DEF l
    <3> QED
      BY <3>1, <3>2, <3>3 DEF Leads
  <2> QED
    BY <2>2, <2>3
<1> QED
  BY <1>3, <1>4 DEF Leads

-----------------------------------------------------------------------------
(* The writes of a set and of a format.                                    *)

(* Two sequences, one after the other. *)
LEMMA SeqConcat ==
  ASSUME NEW S, NEW s \in Seq(S), NEW t \in Seq(S)
  PROVE  /\ s \o t \in Seq(S) /\ Len(s \o t) = Len(s) + Len(t)
         /\ \A i \in 1 .. Len(s) : (s \o t)[i] = s[i]
         /\ \A i \in 1 .. Len(t) : (s \o t)[Len(s) + i] = t[i]
OBVIOUS

(* A sequence over a set is one over a larger set. *)
LEMMA SeqMonotonic ==
  ASSUME NEW S, NEW T, S \subseteq T, NEW s \in Seq(S)
  PROVE  s \in Seq(T)
<1>1. Len(s) \in Nat /\ s \in [1 .. Len(s) -> S]
  OBVIOUS
<1>2. s \in [1 .. Len(s) -> T]
  BY <1>1
<1>3. \A n \in Nat : [1 .. n -> T] \subseteq Seq(T)
  OBVIOUS
<1> QED
  BY <1>1, <1>2, <1>3

(* All elements of a sequence. *)
LEMMA SeqWhole ==
  ASSUME NEW S, NEW s \in Seq(S)
  PROVE  SubSeq(s, 1, Len(s)) = s
OBVIOUS

(* The fields of a write that is put together, its bytes and values. *)
LEMMA WriteFields ==
  ASSUME NEW adr, NEW in, NEW ends, NEW a
  PROVE  /\ Write(adr, in, ends).ends = ends /\ Write(adr, in, ends).in = in
         /\ Covers(Write(adr, in, ends), a) <=> a \in adr .. adr + Len(in) - 1
         /\ Value(Write(adr, in, ends), a) = in[a - adr + 1]
BY DEF Write, Covers, Value

(* What has to hold for it to be inside the memory. *)
LEMMA WriteMember ==
  ASSUME NEW adr \in Address, NEW in \in Seq(Nat), in # << >>, NEW ends \in SUBSET Params,
         adr + Len(in) <= CONFIG_MAX_SIZE
  PROVE  Write(adr, in, ends) \in Writes
BY DEF Writes, Write

(* What a parameter takes of a value fits it, and is all of one that fits. *)
LEMMA TakenPart ==
  ASSUME NEW p \in Params, NEW v \in Seq(Byte)
  PROVE  /\ taken(p, v) \in Seq(Byte) /\ taken(p, v) \in Seq(Nat)
         /\ Len(taken(p, v)) \in Nat /\ Len(taken(p, v)) <= ParamSize[p]
         /\ Len(v) <= ParamSize[p] => taken(p, v) = v
         /\ Len(v) >= ParamSize[p] => Len(taken(p, v)) = ParamSize[p]
<1>1. ParamSize[p] \in Nat \ {0} /\ Len(v) \in Nat /\ Byte \subseteq Nat
  BY Layout, ConfigAssumption
<1>2. PICK n \in 0 .. Len(v) :
        /\ n = IF Len(v) > ParamSize[p] THEN ParamSize[p] ELSE Len(v)
        /\ taken(p, v) = SubSeq(v, 1, n)
  BY <1>1 DEF taken
<1>3. SubSeq(v, 1, n) \in Seq(Byte) /\ Len(SubSeq(v, 1, n)) = n
  BY SeqFirst
<1>4. \A s \in Seq(Byte) : s \in Seq(Nat)
  BY <1>1, SeqMonotonic
<1>5. Len(v) <= ParamSize[p] => taken(p, v) = v
  BY <1>1, <1>2, SeqWhole
<1>6. Len(taken(p, v)) = n
  BY <1>2, <1>3
<1> QED
  BY <1>1, <1>2, <1>3, <1>4, <1>5, <1>6

(* The writes of a set are at its parameter, the length before the data. *)
LEMMA SetWrites ==
  ASSUME NEW p \in Params, NEW v \in Seq(Byte)
  PROVE  LET in     == taken(p, v)
             s      == config_set(p, v)
             offset == get_param_offset[p]
         IN  /\ s \in Seq(Writes)
             /\ in = << >> => Len(s) = 1 /\ s[1] = Write(offset, <<0>>, {p})
             /\ in # << >> => /\ Len(s) = 2 /\ s[1] = Write(offset, <<Len(in)>>, {})
                              /\ s[2] = Write(offset + 1, in, {p})
             /\ \A i \in 1 .. Len(s), a \in Int : Covers(s[i], a) => a \in Area(p)
<1>1. PICK offset \in Nat, size \in Nat, in \in Seq(Nat), len \in Nat :
        /\ offset = get_param_offset[p] /\ size = ParamSize[p] /\ in = taken(p, v)
        /\ len = Len(in) /\ len <= size /\ size > 0
        /\ offset + size < CONFIG_MAX_SIZE /\ Area(p) = offset .. offset + size
        /\ CONFIG_MAX_SIZE \in Nat
  <2>1. /\ get_param_offset[p] \in Nat /\ ParamSize[p] \in Nat /\ ParamSize[p] > 0
        /\ get_param_offset[p] + ParamSize[p] < CONFIG_MAX_SIZE
        /\ Area(p) = get_param_offset[p] .. get_param_offset[p] + ParamSize[p]
        /\ CONFIG_MAX_SIZE \in Nat
    BY Layout, ConfigAssumption DEF Area
  <2>2. /\ taken(p, v) \in Seq(Nat) /\ Len(taken(p, v)) \in Nat
        /\ Len(taken(p, v)) <= ParamSize[p]
    BY TakenPart
  <2> QED
    BY <2>1, <2>2, Zenon
<1>2. in = << >> <=> len = 0
  BY <1>1, SeqEmpty
<1>3. ASSUME NEW x \in Nat, NEW ends \in SUBSET Params
      PROVE  /\ Write(offset, <<x>>, ends) \in Writes
             /\ \A a \in Int : Covers(Write(offset, <<x>>, ends), a) => a = offset
  <2>1. <<x>> \in Seq(Nat) /\ <<x>> # << >> /\ Len(<<x>>) = 1
    OBVIOUS
  <2>2. offset \in Address
    BY <1>1 DEF Address
  <2>3. Write(offset, <<x>>, ends) \in Writes
    <3>1. offset + Len(<<x>>) <= CONFIG_MAX_SIZE
      BY <1>1, <2>1
    <3> QED
      BY <2>1, <2>2, <3>1, WriteMember
  <2>4. ASSUME NEW a \in Int, Covers(Write(offset, <<x>>, ends), a) PROVE a = offset
    <3>1. a \in offset .. offset + Len(<<x>>) - 1
      BY <2>4, WriteFields
    <3> QED
      BY <2>1, <3>1
  <2> QED
    BY <2>3, <2>4
<1>4. ASSUME len # 0
      PROVE  /\ Write(offset + 1, in, {p}) \in Writes
             /\ \A a \in Int : Covers(Write(offset + 1, in, {p}), a) =>
                                 a \in offset + 1 .. offset + len
  <2>1. offset + 1 \in Address /\ offset + 1 + Len(in) <= CONFIG_MAX_SIZE
    BY <1>1 DEF Address
  <2>2. Write(offset + 1, in, {p}) \in Writes
    BY <1>2, <1>4, <2>1, WriteMember
  <2>3. ASSUME NEW a \in Int, Covers(Write(offset + 1, in, {p}), a)
        PROVE  a \in offset + 1 .. offset + len
    <3>1. a \in offset + 1 .. offset + 1 + Len(in) - 1
      BY <2>3, WriteFields
    <3> QED
      BY <1>1, <3>1
  <2> QED
    BY <2>2, <2>3
<1>5. CASE in = << >>
  <2>1. config_set(p, v) = <<Write(offset, <<0>>, {p})>>
    BY <1>1, <1>5 DEF config_set
  <2>2. Write(offset, <<0>>, {p}) \in Writes
    BY <1>3
  <2>3. \A a \in Int : Covers(Write(offset, <<0>>, {p}), a) => a \in Area(p)
    BY <1>1, <1>3
  <2> HIDE DEF Write
  <2>4. /\ config_set(p, v) \in Seq(Writes) /\ Len(config_set(p, v)) = 1
        /\ config_set(p, v)[1] = Write(offset, <<0>>, {p})
    BY <2>1, <2>2
  <2> QED
    BY <1>1, <1>5, <2>3, <2>4
<1>6. CASE in # << >>
  <2>1. config_set(p, v) = <<Write(offset, <<len>>, {}), Write(offset + 1, in, {p})>>
    BY <1>1, <1>6 DEF config_set
  <2>2. Write(offset, <<len>>, {}) \in Writes /\ Write(offset + 1, in, {p}) \in Writes
    BY <1>2, <1>3, <1>4, <1>6
  <2>3. /\ \A a \in Int : Covers(Write(offset, <<len>>, {}), a) => a \in Area(p)
        /\ \A a \in Int : Covers(Write(offset + 1, in, {p}), a) => a \in Area(p)
    <3>1. \A a \in offset + 1 .. offset + len : a \in Area(p)
      BY <1>1, SMTT(30)
    <3>2. offset \in Area(p)
      BY <1>1
    <3> QED
      BY <1>2, <1>3, <1>4, <1>6, <3>1, <3>2
  <2>4. /\ config_set(p, v) \in Seq(Writes) /\ Len(config_set(p, v)) = 2
        /\ config_set(p, v)[1] = Write(offset, <<len>>, {})
        /\ config_set(p, v)[2] = Write(offset + 1, in, {p})
    BY <2>1, <2>2
  <2> QED
    BY <1>1, <1>6, <2>3, <2>4
<1> QED
  BY <1>5, <1>6

(* The defaults fit; the first four parameters have one that is not empty. *)
LEMMA DefaultValues ==
  /\ Default \in [Params -> Seq(Byte)]
  /\ \A p \in Params : /\ Len(Default[p]) \in Nat /\ Len(Default[p]) <= ParamSize[p]
                       /\ taken(p, Default[p]) = Default[p]
                       /\ Default[p] = << >> <=> p \notin 0 .. 3
  /\ 0 .. 3 \subseteq Params
<1>1. 0 .. 3 \subseteq Params
  BY ConfigAssumption DEF Params, CONFIG_NODE_NAME
<1>2. \A p \in 0 .. 3 : p \in {0, 1, 2, 3}
  OBVIOUS
<1>3. ASSUME NEW p \in Params
      PROVE  /\ Default[p] \in Seq(Byte) /\ Len(Default[p]) <= ParamSize[p]
             /\ Default[p] = << >> <=> p \notin 0 .. 3
  <2>1. ParamSize[p] \in Nat \ {0}
    BY Layout
  <2>2. \A s \in Seq(Byte) : Len(s) # 0 => s # << >>
    OBVIOUS
  <2>3. CASE p = 0
    BY <2>1, <2>2, <2>3, ConfigAssumption, SMTT(30)
       DEF Default, Full, CONFIG_MAGIC, CONFIG_VERSION, CONFIG_NODE_ID, CONFIG_NODE_NAME
  <2>4. CASE p = 1
    BY <2>1, <2>2, <2>4, ConfigAssumption
       DEF Default, Full, CONFIG_MAGIC, CONFIG_VERSION, CONFIG_NODE_ID, CONFIG_NODE_NAME
  <2>5. CASE p = 2
    BY <2>1, <2>2, <2>5, ConfigAssumption
       DEF Default, Full, CONFIG_MAGIC, CONFIG_VERSION, CONFIG_NODE_ID, CONFIG_NODE_NAME
  <2>6. CASE p = 3
    BY <2>1, <2>2, <2>6, ConfigAssumption
       DEF Default, Full, CONFIG_MAGIC, CONFIG_VERSION, CONFIG_NODE_ID, CONFIG_NODE_NAME
  <2>7. CASE p \notin 0 .. 3
    <3>1. p # 0 /\ p # 1 /\ p # 2 /\ p # 3
      BY <2>7
    <3>2. Default[p] = << >>
      BY <3>1 DEF Default, CONFIG_MAGIC, CONFIG_VERSION, CONFIG_NODE_ID, CONFIG_NODE_NAME
    <3> QED
      BY <2>1, <2>7, <3>2
  <2> QED
    BY <1>2, <2>3, <2>4, <2>5, <2>6, <2>7
<1>4. Default = [p \in Params |-> Default[p]]
  BY DEF Default
<1>5. ASSUME NEW p \in Params
      PROVE  Len(Default[p]) \in Nat /\ taken(p, Default[p]) = Default[p]
  <2>1. PICK d \in Seq(Byte) : d = Default[p] /\ Len(d) <= ParamSize[p]
    BY <1>3
  <2> QED
    BY <2>1, TakenPart
<1> QED
  BY <1>1, <1>3, <1>4, <1>5

Pages == CONFIG_MAX_SIZE \div EEPROM_PAGE_SIZE

(* Multiples are ordered as the factors. *)
LEMMA Multiples ==
  ASSUME NEW n \in Nat
  PROVE  \A i, j \in Int : i <= j => n * i <= n * j
BY SMTT(30)

(* The memory is a number of pages, and every byte is on one of them. *)
LEMMA PageOf ==
  /\ Pages \in Nat \ {0} /\ EEPROM_PAGE_SIZE * Pages = CONFIG_MAX_SIZE
  /\ \A a \in Address : \E c \in 1 .. Pages :
       a \in EEPROM_PAGE_SIZE * (c - 1) .. EEPROM_PAGE_SIZE * (c - 1) + EEPROM_PAGE_SIZE - 1
<1>1. PICK size \in Nat, max \in Nat :
        size = EEPROM_PAGE_SIZE /\ max = CONFIG_MAX_SIZE /\ size > 0 /\ max % size = 0
  BY ConfigAssumption
<1>2. max > 0
  BY <1>1, DefaultValues, Layout
<1>3. PICK n \in Nat : n = max \div size
  BY <1>1
<1>4. size * n = max
  BY <1>1, <1>3
<1>5. n # 0
  BY <1>1, <1>2, <1>4
<1>6. ASSUME NEW a \in Address
      PROVE  \E c \in 1 .. n : a \in size * (c - 1) .. size * (c - 1) + size - 1
  <2>1. a \in Nat /\ a < max
    BY <1>1 DEF Address
  <2>2. PICK d \in Nat : d = a \div size
    BY <1>1, <2>1
  <2>3. size * d <= a /\ a <= size * d + size - 1
    BY <1>1, <2>1, <2>2
  <2>4. d < n
    <3>1. SUFFICES ASSUME n <= d PROVE FALSE
      OBVIOUS
    <3>2. size * n <= size * d
      BY <3>1, Multiples
    <3>3. size * d \in Nat /\ size * n \in Nat
      OBVIOUS
    <3> QED
      BY <1>4, <2>1, <2>3, <3>2, <3>3
  <2>5. d + 1 \in 1 .. n /\ (d + 1) - 1 = d
    BY <2>4
  <2>6. a \in size * ((d + 1) - 1) .. size * ((d + 1) - 1) + size - 1
    <3>1. size * d \in Nat
      OBVIOUS
    <3> QED
      BY <1>1, <2>1, <2>3, <2>5, <3>1
  <2> QED
    BY <2>5, <2>6, Zenon
<1>7. Pages = n
  BY <1>1, <1>3 DEF Pages
<1> QED
  BY <1>1, <1>3, <1>4, <1>5, <1>6, <1>7

(* The format begins with zeros on every page, in order. *)
LEMMA ClearWrites ==
  /\ clear \in Seq(Writes) /\ Len(clear) = Pages
  /\ \A i \in 1 .. Pages :
       /\ clear[i].ends = IF i = Pages THEN {p \in Params : Default[p] = << >>} ELSE {}
       /\ \A a \in Int : Covers(clear[i], a) => Value(clear[i], a) = 0
       /\ \A k \in DOMAIN clear[i].in : clear[i].in[k] = 0
  /\ \A a \in Address : \E c \in 1 .. Pages :
       Covers(clear[c], a) /\ \A k \in c + 1 .. Pages : ~Covers(clear[k], a)
<1>1. PICK size \in Nat : size = EEPROM_PAGE_SIZE /\ size > 0
  BY ConfigAssumption
<1>2. PICK n \in Nat : n = Pages /\ n > 0 /\ size * n = CONFIG_MAX_SIZE
  BY <1>1, PageOf
<1> DEFINE zeros == [k \in 1 .. size |-> 0]
           done(i) == IF i = n THEN {p \in Params : Default[p] = << >>} ELSE {}
<1>3. clear = [i \in 1 .. n |-> Write(size * (i - 1), zeros, done(i))]
  BY <1>1, <1>2 DEF clear, ClearPages, Pages
<1>4. zeros \in Seq(Nat) /\ Len(zeros) = size /\ zeros # << >> /\ DOMAIN zeros = 1 .. size
  <2>1. zeros \in Seq(Nat) /\ Len(zeros) = size
    <3>1. zeros \in [1 .. size -> Nat]
      OBVIOUS
    <3>2. \A m \in Nat : [1 .. m -> Nat] \subseteq Seq(Nat)
      OBVIOUS
    <3> QED
      BY <3>1, <3>2
  <2>2. zeros # << >>
    BY <1>1, <2>1
  <2> QED
    BY <2>1, <2>2
<1>5. ASSUME NEW i \in 1 .. n
      PROVE  /\ Write(size * (i - 1), zeros, done(i)) \in Writes
             /\ size * (i - 1) \in Nat
  <2>1. size * (i - 1) + size = size * i /\ size * (i - 1) \in Nat
    BY <1>1
  <2>2. size * i <= size * n /\ size * n \in Nat /\ size * i \in Nat
    BY Multiples
  <2>3. size * (i - 1) \in Address /\ size * (i - 1) + Len(zeros) <= CONFIG_MAX_SIZE
    BY <1>1, <1>2, <1>4, <2>1, <2>2 DEF Address
  <2>4. done(i) \in SUBSET Params
    OBVIOUS
  <2> HIDE DEF zeros, done
  <2> QED
    BY <1>4, <2>1, <2>3, <2>4, WriteMember
<1>6. clear \in Seq(Writes) /\ Len(clear) = n
  <2>1. clear \in [1 .. n -> Writes]
    BY <1>3, <1>5
  <2>2. \A m \in Nat : [1 .. m -> Writes] \subseteq Seq(Writes)
    OBVIOUS
  <2> QED
    BY <2>1, <2>2
<1>7. ASSUME NEW i \in 1 .. n
      PROVE  /\ clear[i].ends = done(i) /\ clear[i].in = zeros
             /\ \A a \in Int : /\ Covers(clear[i], a) <=>
                                    a \in size * (i - 1) .. size * (i - 1) + size - 1
                               /\ Covers(clear[i], a) => Value(clear[i], a) = 0
  <2>1. clear[i] = Write(size * (i - 1), zeros, done(i))
    BY <1>3
  <2>2. size * (i - 1) \in Nat
    BY <1>5
  <2> HIDE DEF zeros, done
  <2>3. clear[i].ends = done(i) /\ clear[i].in = zeros
    BY <2>1 DEF Write
  <2>4. ASSUME NEW a \in Int
        PROVE  /\ Covers(clear[i], a) <=> a \in size * (i - 1) .. size * (i - 1) + size - 1
               /\ Covers(clear[i], a) => Value(clear[i], a) = 0
    <3> DEFINE adr == size * (i - 1)
    <3>1. Covers(clear[i], a) <=> a \in adr .. adr + Len(zeros) - 1
      BY <2>1, WriteFields
    <3>2. Value(clear[i], a) = zeros[a - adr + 1]
      BY <2>1, WriteFields
    <3>3. adr \in Nat
      BY <2>2
    <3> HIDE DEF adr
    <3>4. Covers(clear[i], a) => a - adr + 1 \in 1 .. size
      BY <1>4, <3>1, <3>3
    <3>5. Covers(clear[i], a) => Value(clear[i], a) = 0
      BY <3>2, <3>4 DEF zeros
    <3> QED
      BY <1>4, <3>1, <3>5 DEF adr
  <2> QED
    BY <2>3, <2>4
<1> HIDE DEF zeros, done
<1>8. ASSUME NEW a \in Address
      PROVE  \E c \in 1 .. n : Covers(clear[c], a) /\ \A k \in c + 1 .. n : ~Covers(clear[k], a)
  <2>1. PICK c \in 1 .. n : a \in size * (c - 1) .. size * (c - 1) + size - 1
    BY <1>1, <1>2, PageOf
  <2>2. a \in Int
    BY DEF Address
  <2>3. ASSUME NEW k \in c + 1 .. n PROVE ~Covers(clear[k], a)
    <3>1. k \in 1 .. n /\ c <= k - 1
      OBVIOUS
    <3>2. size * c <= size * (k - 1) /\ size * (c - 1) + size = size * c
          /\ size * (k - 1) \in Nat /\ size * c \in Nat
      BY <3>1, Multiples
    <3>3. a \notin size * (k - 1) .. size * (k - 1) + size - 1
      BY <2>1, <2>2, <3>2
    <3> QED
      BY <1>7, <2>2, <3>1, <3>3
  <2> QED
    BY <1>7, <2>1, <2>2, <2>3
<1>9. ASSUME NEW i \in 1 .. n
      PROVE  /\ clear[i].ends = IF i = n THEN {p \in Params : Default[p] = << >>} ELSE {}
             /\ \A k \in DOMAIN clear[i].in : clear[i].in[k] = 0
  <2>1. clear[i].ends = done(i) /\ clear[i].in = zeros
    BY <1>7
  <2>2. \A k \in DOMAIN zeros : zeros[k] = 0
    BY DEF zeros
  <2> QED
    BY <2>1, <2>2 DEF done
<1> QED
  BY <1>2, <1>6, <1>7, <1>8, <1>9

(* A sequence with two more elements. *)
LEMMA SeqPair ==
  ASSUME NEW S, NEW s \in Seq(S), NEW t \in Seq(S), NEW n \in Nat
  PROVE  Len(s) = n /\ Len(t) = 2 =>
           /\ s \o t \in Seq(S) /\ Len(s \o t) = n + 2
           /\ \A i \in 1 .. n : (s \o t)[i] = s[i]
           /\ (s \o t)[n + 1] = t[1] /\ (s \o t)[n + 2] = t[2]
<1> DEFINE c == s \o t
<1>1. /\ c \in Seq(S) /\ Len(c) = Len(s) + Len(t)
      /\ \A i \in 1 .. Len(s) : c[i] = s[i]
      /\ \A i \in 1 .. Len(t) : c[Len(s) + i] = t[i]
  BY SeqConcat
<1> HIDE DEF c
<1> SUFFICES ASSUME Len(s) = n, Len(t) = 2
             PROVE  /\ c \in Seq(S) /\ Len(c) = n + 2 /\ \A i \in 1 .. n : c[i] = s[i]
                    /\ c[n + 1] = t[1] /\ c[n + 2] = t[2]
  BY DEF c
<1> QED
  BY <1>1

(* After the zeros come the defaults: where those of parameter p begin. *)
Begin(p) == Pages + (IF p = CONFIG_NODE_ID THEN 1 ELSE IF p = CONFIG_NODE_NAME THEN 3
                     ELSE IF p = CONFIG_MAGIC THEN 5 ELSE 7)

(* The format: the pages of zeros, then two writes for each default. *)
LEMMA FormatWrites ==
  /\ format \in Seq(Writes) /\ Len(format) = Pages + 8
  /\ \A i \in 1 .. Pages : format[i] = clear[i]
  /\ \A p \in 0 .. 3 : /\ format[Begin(p)] = config_set(p, Default[p])[1]
                       /\ format[Begin(p) + 1] = config_set(p, Default[p])[2]
  /\ \A i \in Pages + 1 .. Pages + 8 : \E p \in 0 .. 3 : i \in {Begin(p), Begin(p) + 1}
<1>1. PICK n \in Nat : n = Pages /\ n > 0 /\ Len(clear) = n
  BY PageOf, ClearWrites
<1> DEFINE d(p) == config_set(p, Default[p])
           f1 == clear \o d(2)
           f2 == f1 \o d(3)
           f3 == f2 \o d(0)
           f4 == f3 \o d(1)
<1>2. format = f4
  BY DEF format, CONFIG_MAGIC, CONFIG_VERSION, CONFIG_NODE_ID, CONFIG_NODE_NAME
<1>3. ASSUME NEW p \in 0 .. 3 PROVE d(p) \in Seq(Writes) /\ Len(d(p)) = 2
  <2>1. /\ p \in Params /\ Default[p] \in Seq(Byte) /\ taken(p, Default[p]) = Default[p]
        /\ Default[p] # << >>
    BY DefaultValues
  <2> QED
    BY <2>1, SetWrites
<1>4. clear \in Seq(Writes) /\ \A p \in {0, 1, 2, 3} : p \in 0 .. 3
  BY ClearWrites
<1> HIDE DEF d
<1>5. /\ f1 \in Seq(Writes) /\ Len(f1) = n + 2
      /\ \A i \in 1 .. n : f1[i] = clear[i]
      /\ f1[n + 1] = d(2)[1] /\ f1[n + 2] = d(2)[2]
  <2>1. clear \in Seq(Writes) /\ Len(clear) = n /\ d(2) \in Seq(Writes) /\ Len(d(2)) = 2
    BY <1>1, <1>3, <1>4
  <2>2. f1 \in Seq(Writes) /\ Len(f1) = n + 2
        /\ (\A i \in 1 .. n : f1[i] = clear[i])
        /\ f1[n + 1] = d(2)[1] /\ f1[n + 2] = d(2)[2]
    BY <2>1, SeqPair
  <2> QED
    BY <2>2
<1> HIDE DEF f1
<1>6. /\ f2 \in Seq(Writes) /\ Len(f2) = n + 4
      /\ \A i \in 1 .. n + 2 : f2[i] = f1[i]
      /\ f2[n + 3] = d(3)[1] /\ f2[n + 4] = d(3)[2]
  <2>1. f1 \in Seq(Writes) /\ Len(f1) = n + 2 /\ d(3) \in Seq(Writes) /\ Len(d(3)) = 2
    BY <1>1, <1>3, <1>4, <1>5
  <2>2. n + 2 \in Nat /\ (n + 2) + 1 = n + 3 /\ (n + 2) + 2 = n + 4
    OBVIOUS
  <2>3. /\ f2 \in Seq(Writes) /\ Len(f2) = (n + 2) + 2
        /\ \A i \in 1 .. n + 2 : f2[i] = f1[i]
        /\ f2[(n + 2) + 1] = d(3)[1] /\ f2[(n + 2) + 2] = d(3)[2]
    BY <2>1, <2>2, SeqPair
  <2> HIDE DEF f2
  <2> QED
    BY <2>2, <2>3
<1> HIDE DEF f2
<1>7. /\ f3 \in Seq(Writes) /\ Len(f3) = n + 6
      /\ \A i \in 1 .. n + 4 : f3[i] = f2[i]
      /\ f3[n + 5] = d(0)[1] /\ f3[n + 6] = d(0)[2]
  <2>1. f2 \in Seq(Writes) /\ Len(f2) = n + 4 /\ d(0) \in Seq(Writes) /\ Len(d(0)) = 2
    BY <1>1, <1>3, <1>4, <1>6
  <2>2. n + 4 \in Nat /\ (n + 4) + 1 = n + 5 /\ (n + 4) + 2 = n + 6
    OBVIOUS
  <2>3. /\ f3 \in Seq(Writes) /\ Len(f3) = (n + 4) + 2
        /\ \A i \in 1 .. n + 4 : f3[i] = f2[i]
        /\ f3[(n + 4) + 1] = d(0)[1] /\ f3[(n + 4) + 2] = d(0)[2]
    BY <2>1, <2>2, SeqPair
  <2> HIDE DEF f3
  <2> QED
    BY <2>2, <2>3
<1> HIDE DEF f3
<1>8. /\ f4 \in Seq(Writes) /\ Len(f4) = n + 8
      /\ \A i \in 1 .. n + 6 : f4[i] = f3[i]
      /\ f4[n + 7] = d(1)[1] /\ f4[n + 8] = d(1)[2]
  <2>1. f3 \in Seq(Writes) /\ Len(f3) = n + 6 /\ d(1) \in Seq(Writes) /\ Len(d(1)) = 2
    BY <1>1, <1>3, <1>4, <1>7
  <2>2. n + 6 \in Nat /\ (n + 6) + 1 = n + 7 /\ (n + 6) + 2 = n + 8
    OBVIOUS
  <2>3. /\ f4 \in Seq(Writes) /\ Len(f4) = (n + 6) + 2
        /\ \A i \in 1 .. n + 6 : f4[i] = f3[i]
        /\ f4[(n + 6) + 1] = d(1)[1] /\ f4[(n + 6) + 2] = d(1)[2]
    BY <2>1, <2>2, SeqPair
  <2> HIDE DEF f4
  <2> QED
    BY <2>2, <2>3
<1> HIDE DEF f4
<1>9. \A i \in 1 .. n : f4[i] = clear[i]
  BY <1>5, <1>6, <1>7, <1>8
<1>10. /\ f4[n + 1] = d(2)[1] /\ f4[n + 2] = d(2)[2]
       /\ f4[n + 3] = d(3)[1] /\ f4[n + 4] = d(3)[2]
       /\ f4[n + 5] = d(0)[1] /\ f4[n + 6] = d(0)[2]
  BY <1>5, <1>6, <1>7, <1>8
<1>11. /\ Begin(2) = n + 1 /\ Begin(3) = n + 3 /\ Begin(0) = n + 5 /\ Begin(1) = n + 7
  BY <1>1 DEF Begin, CONFIG_MAGIC, CONFIG_VERSION, CONFIG_NODE_ID, CONFIG_NODE_NAME
<1>12. ASSUME NEW p \in 0 .. 3
       PROVE  f4[Begin(p)] = d(p)[1] /\ f4[Begin(p) + 1] = d(p)[2]
  <2>1. p = 0 \/ p = 1 \/ p = 2 \/ p = 3
    OBVIOUS
  <2>2. (n + 1) + 1 = n + 2 /\ (n + 3) + 1 = n + 4 /\ (n + 5) + 1 = n + 6 /\ (n + 7) + 1 = n + 8
    OBVIOUS
  <2> QED
    BY <1>8, <1>10, <1>11, <2>1, <2>2
<1>13. ASSUME NEW i \in n + 1 .. n + 8
       PROVE  \E p \in 0 .. 3 : i \in {Begin(p), Begin(p) + 1}
  <2>1. \/ i \in {n + 1, n + 2} \/ i \in {n + 3, n + 4}
        \/ i \in {n + 5, n + 6} \/ i \in {n + 7, n + 8}
    OBVIOUS
  <2> QED
    BY <1>4, <1>11, <2>1
<1> QED
  BY <1>1, <1>2, <1>8, <1>9, <1>12, <1>13 DEF d

(* One of the first j of the writes s gives byte a the value v, and none   *)
(* after it is at that byte.                                               *)
Puts(s, j, a, v) ==
  \E i \in 1 .. j : /\ Covers(s[i], a) /\ Value(s[i], a) = v
                    /\ \A k \in i + 1 .. Len(s) : ~Covers(s[k], a)

(* The bytes that tell a value are the parameter's. *)
LEMMA CellsInArea ==
  ASSUME NEW p \in Params, NEW v \in Seq(Byte), Len(v) <= ParamSize[p]
  PROVE  Cells(p, v) \subseteq Area(p) /\ Cells(p, v) \subseteq Address
<1>1. ParamSize[p] \in Nat /\ get_param_offset[p] \in Nat /\ Area(p) \subseteq Address
  BY Layout
<1>2. Len(v) \in Nat
  OBVIOUS
<1> QED
  BY <1>1, <1>2 DEF Cells, Area

(* A set puts the value where it belongs. *)
LEMMA SetPlan ==
  ASSUME NEW p \in Params, NEW v \in Seq(Byte), Whole(p) => Full(p, taken(p, v))
  PROVE  LET s == config_set(p, v)
         IN  /\ Len(s) \in 1 .. 2
             /\ \A j \in 1 .. Len(s) : s[j].ends = IF j = Len(s) THEN {p} ELSE {}
             /\ \A a \in Cells(p, taken(p, v)) :
                  Puts(s, Len(s), a, Content(p, taken(p, v), a))
<1>1. PICK offset \in Nat, size \in Nat, in \in Seq(Nat), len \in Nat :
        /\ offset = get_param_offset[p] /\ size = ParamSize[p] /\ in = taken(p, v)
        /\ len = Len(in) /\ len <= size /\ size > 0
  <2>1. /\ get_param_offset[p] \in Nat /\ ParamSize[p] \in Nat /\ ParamSize[p] > 0
    BY Layout
  <2>2. /\ taken(p, v) \in Seq(Nat) /\ Len(taken(p, v)) \in Nat
        /\ Len(taken(p, v)) <= ParamSize[p]
    BY TakenPart
  <2> QED
    BY <2>1, <2>2, Zenon
<1>2. in = << >> <=> len = 0
  BY <1>1, SeqEmpty
<1>3. \A a \in Cells(p, in) : a \in Int /\ a >= offset /\ a <= offset + len
  BY <1>1 DEF Cells, Full
<1> DEFINE s == config_set(p, v)
<1>4. CASE in = << >>
  <2>1. Len(s) = 1 /\ s[1] = Write(offset, <<0>>, {p})
    BY <1>1, <1>4, SetWrites
  <2>2. s[1].ends = {p}
    BY <2>1 DEF Write
  <2> HIDE DEF s
  <2>3. ASSUME NEW a \in Cells(p, in) PROVE Puts(s, 1, a, Content(p, in, a))
    <3>1. a = offset
      BY <1>2, <1>3, <1>4
    <3>2. Covers(s[1], a) /\ Value(s[1], a) = 0
      BY <2>1, <3>1, WriteFields
    <3>3. Content(p, in, a) = 0
      BY <1>1, <1>2, <1>4, <3>1 DEF Content
    <3> QED
      BY <2>1, <3>2, <3>3 DEF Puts
  <2>4. \A j \in 1 .. 1 : s[j].ends = IF j = 1 THEN {p} ELSE {}
    BY <2>2
  <2> QED
    BY <1>1, <2>1, <2>3, <2>4 DEF s
<1>5. CASE in # << >>
  <2>1. /\ Len(s) = 2 /\ s[1] = Write(offset, <<len>>, {})
        /\ s[2] = Write(offset + 1, in, {p})
    BY <1>1, <1>5, SetWrites
  <2>2. s[1].ends = {} /\ s[2].ends = {p}
    BY <2>1 DEF Write
  <2> HIDE DEF s
  <2>3. ASSUME NEW a \in Int
        PROVE  /\ Covers(s[1], a) <=> a = offset
               /\ Covers(s[2], a) <=> a \in offset + 1 .. offset + len
               /\ Value(s[1], offset) = len /\ Value(s[2], a) = in[a - offset]
    <3>1. Covers(s[1], a) <=> a \in offset .. offset + Len(<<len>>) - 1
      BY <2>1 DEF Write, Covers
    <3>2. Covers(s[2], a) <=> a \in offset + 1 .. offset + 1 + Len(in) - 1
      BY <2>1 DEF Write, Covers
    <3>3. Value(s[1], offset) = <<len>>[offset - offset + 1]
      BY <2>1, WriteFields
    <3>4. Value(s[2], a) = in[a - (offset + 1) + 1]
      BY <2>1, WriteFields
    <3>5. a - (offset + 1) + 1 = a - offset
      OBVIOUS
    <3>6. Covers(s[2], a) <=> a \in offset + 1 .. offset + len
      BY <1>1, <3>2, SMTT(30)
    <3>7. Covers(s[1], a) <=> a = offset
      BY <3>1
    <3>8. Value(s[1], offset) = len
      BY <3>3
    <3> QED
      BY <3>4, <3>5, <3>6, <3>7, <3>8
  <2>4. ASSUME NEW a \in Cells(p, in) PROVE Puts(s, 2, a, Content(p, in, a))
    <3>1. a \in Int /\ a >= offset /\ a <= offset + len
      BY <1>3
    <3>2. CASE a = offset
      <4>1. Content(p, in, a) = len
        BY <1>1, <3>2 DEF Content
      <4>2. Covers(s[1], a) /\ Value(s[1], a) = len /\ ~Covers(s[2], a)
        BY <2>3, <3>1, <3>2
      <4> QED
        BY <2>1, <4>1, <4>2 DEF Puts
    <3>3. CASE a # offset
      <4>1. Content(p, in, a) = in[a - offset]
        BY <1>1, <3>1, <3>3 DEF Content
      <4>2. Covers(s[2], a) /\ Value(s[2], a) = in[a - offset]
        BY <2>3, <3>1, <3>3
      <4> QED
        BY <2>1, <4>1, <4>2 DEF Puts
    <3> QED
      BY <3>2, <3>3
  <2>5. \A j \in 1 .. 2 : s[j].ends = IF j = 2 THEN {p} ELSE {}
    <3>1. \A j \in 1 .. 2 : j = 1 \/ j = 2
      OBVIOUS
    <3> QED
      BY <2>2, <3>1
  <2> QED
    BY <1>1, <2>1, <2>4, <2>5 DEF s
<1> QED
  BY <1>4, <1>5

(* So does the format, for all of them: a default that is empty by zeros.  *)
LEMMA FormatPlan ==
  \A j \in 1 .. Len(format) : \A p \in format[j].ends :
    \A a \in Cells(p, Default[p]) : Puts(format, j, a, Content(p, Default[p], a))
<1> DEFINE set(p) == config_set(p, Default[p])
<1>1. PICK n \in Nat : n = Pages /\ n > 0 /\ Len(format) = n + 8
  BY PageOf, FormatWrites
<1>2. ASSUME NEW q \in 0 .. 3
      PROVE  /\ q \in Params /\ Default[q] \in Seq(Byte) /\ taken(q, Default[q]) = Default[q]
             /\ Default[q] # << >>
             /\ Begin(q) \in n + 1 .. n + 7
             /\ Len(set(q)) = 2 /\ set(q)[1].ends = {} /\ set(q)[2].ends = {q}
             /\ format[Begin(q)] = set(q)[1] /\ format[Begin(q) + 1] = set(q)[2]
             /\ \A a \in Int : Covers(set(q)[1], a) \/ Covers(set(q)[2], a) => a \in Area(q)
             /\ \A a \in Cells(q, Default[q]) : Puts(set(q), 2, a, Content(q, Default[q], a))
  <2>1. /\ q \in Params /\ Default[q] \in Seq(Byte) /\ taken(q, Default[q]) = Default[q]
        /\ Default[q] # << >>
    BY DefaultValues
  <2>2. Begin(q) \in n + 1 .. n + 7
    BY <1>1 DEF Begin
  <2>3. Len(set(q)) = 2
    BY <2>1, SetWrites
  <2>4. /\ \A j \in 1 .. Len(set(q)) : set(q)[j].ends = IF j = Len(set(q)) THEN {q} ELSE {}
        /\ \A a \in Cells(q, Default[q]) :
             Puts(set(q), Len(set(q)), a, Content(q, Default[q], a))
    <3>1. Whole(q) => Full(q, taken(q, Default[q]))
      BY <2>1 DEF Whole
    <3> QED
      BY <2>1, <3>1, SetPlan
  <2>5. \A i \in 1 .. Len(set(q)), a \in Int : Covers(set(q)[i], a) => a \in Area(q)
    BY <2>1, SetWrites
  <2> HIDE DEF set
  <2>6. set(q)[1].ends = {} /\ set(q)[2].ends = {q}
    BY <2>3, <2>4
  <2>7. \A a \in Cells(q, Default[q]) : Puts(set(q), 2, a, Content(q, Default[q], a))
    BY <2>3, <2>4
  <2>8. \A a \in Int : Covers(set(q)[1], a) \/ Covers(set(q)[2], a) => a \in Area(q)
    BY <2>3, <2>5
  <2>9. format[Begin(q)] = set(q)[1] /\ format[Begin(q) + 1] = set(q)[2]
    BY FormatWrites DEF set
  <2> QED
    BY <2>1, <2>2, <2>3, <2>6, <2>7, <2>8, <2>9
<1> HIDE DEF set
<1>3. ASSUME NEW k \in n + 1 .. n + 8
      PROVE  \E q \in 0 .. 3 : k = Begin(q) \/ k = Begin(q) + 1
  BY <1>1, FormatWrites
<1>4. ASSUME NEW k \in n + 1 .. n + 8, NEW q \in Params, NEW a \in Area(q), Covers(format[k], a)
      PROVE  k = Begin(q) \/ k = Begin(q) + 1
  <2>1. PICK r \in 0 .. 3 : k = Begin(r) \/ k = Begin(r) + 1
    BY <1>3
  <2>2. a \in Int
    BY Layout DEF Address
  <2>3. a \in Area(r) /\ r \in Params
    BY <1>2, <1>4, <2>1, <2>2
  <2>4. r = q
    BY <2>3, Layout
  <2> QED
    BY <2>1, <2>4
<1> SUFFICES ASSUME NEW j \in 1 .. n + 8, NEW p \in format[j].ends,
                    NEW a \in Cells(p, Default[p])
             PROVE  Puts(format, j, a, Content(p, Default[p], a))
  BY <1>1
<1>5. CASE j <= n
  <2>1. j \in 1 .. n /\ format[j] = clear[j]
    BY <1>1, <1>5, FormatWrites
  <2>2. j = n /\ p \in Params /\ Default[p] = << >> /\ p \notin 0 .. 3
    <3>1. format[j].ends = IF j = n THEN {q \in Params : Default[q] = << >>} ELSE {}
      BY <1>1, <2>1, ClearWrites
    <3>2. j = n /\ p \in {q \in Params : Default[q] = << >>}
      BY <3>1
    <3> QED
      BY <3>2, DefaultValues
  <2>3. a \in Area(p) /\ a \in Address
    BY <2>2, CellsInArea, DefaultValues
  <2>4. PICK c \in 1 .. n : Covers(clear[c], a) /\ \A k \in c + 1 .. n : ~Covers(clear[k], a)
    BY <1>1, <2>3, ClearWrites
  <2>5. ASSUME NEW k \in c + 1 .. n + 8 PROVE ~Covers(format[k], a)
    <3>1. CASE k <= n
      <4>1. k \in 1 .. n /\ k \in c + 1 .. n
        BY <2>5, <3>1
      <4> QED
        BY <1>1, <2>4, <4>1, FormatWrites
    <3>2. CASE k > n
      <4>1. k \in n + 1 .. n + 8
        BY <2>5, <3>2
      <4> SUFFICES ASSUME Covers(format[k], a) PROVE FALSE
        OBVIOUS
      <4>2. PICK r \in 0 .. 3 : k = Begin(r) \/ k = Begin(r) + 1
        BY <1>3, <4>1
      <4>3. a \in Area(r) /\ r \in Params /\ r # p
        <5>1. Covers(set(r)[1], a) \/ Covers(set(r)[2], a)
          <6>1. format[Begin(r)] = set(r)[1] /\ format[Begin(r) + 1] = set(r)[2]
            BY <1>2
          <6> QED
            BY <4>2, <6>1
        <5>2. a \in Int
          BY <2>3 DEF Address
        <5> QED
          BY <1>2, <2>2, <5>1, <5>2
      <4> QED
        BY <2>2, <2>3, <4>3, Layout
    <3> QED
      BY <3>1, <3>2
  <2>6. Content(p, Default[p], a) = 0
    <3>1. get_param_offset[p] \in Nat /\ ParamSize[p] \in Nat
      BY <2>2, Layout
    <3>2. a - get_param_offset[p] >= 0
      BY <2>3, <3>1 DEF Area
    <3> QED
      BY <2>2, <2>3, <3>1, <3>2 DEF Content, Address
  <2>7. Covers(format[c], a) /\ Value(format[c], a) = 0 /\ c \in 1 .. j
    <3>1. format[c] = clear[c]
      BY <1>1, FormatWrites
    <3> QED
      <4>1. a \in Int
        BY <2>3 DEF Address
      <4>2. Value(clear[c], a) = 0
        BY <1>1, <2>4, <4>1, ClearWrites
      <4> QED
        BY <2>2, <2>4, <3>1, <4>2
  <2> QED
    BY <1>1, <2>5, <2>6, <2>7 DEF Puts
<1>6. CASE j > n
  <2>1. PICK q \in 0 .. 3 : j = Begin(q) \/ j = Begin(q) + 1
    BY <1>3, <1>6
  <2>2. j = Begin(q) + 1 /\ p = q
    <3>1. j = Begin(q) => format[j].ends = {}
      BY <1>2
    <3>2. j = Begin(q) + 1 => format[j].ends = {q}
      <4>1. format[Begin(q) + 1] = set(q)[2] /\ set(q)[2].ends = {q}
        BY <1>2
      <4> QED
        BY <4>1
    <3> QED
      BY <2>1, <3>1, <3>2
  <2>3. Puts(set(q), 2, a, Content(q, Default[q], a))
    BY <1>2, <2>2
  <2>4. PICK i \in 1 .. 2 : /\ Covers(set(q)[i], a)
                            /\ Value(set(q)[i], a) = Content(q, Default[q], a)
                            /\ \A k \in i + 1 .. 2 : ~Covers(set(q)[k], a)
    BY <1>2, <2>3 DEF Puts
  <2>5. PICK b \in n + 1 .. n + 7 : b = Begin(q)
    BY <1>2
  <2>6. PICK m \in b .. b + 1 : m = b - 1 + i
    BY <2>5
  <2>7. format[m] = set(q)[i] /\ m \in 1 .. j /\ j = b + 1
    <3>1. i = 1 \/ i = 2
      OBVIOUS
    <3> QED
      <4>1. format[b] = set(q)[1] /\ format[b + 1] = set(q)[2]
        BY <1>2, <2>5
      <4>2. j = b + 1 /\ m \in 1 .. j
        BY <2>2, <2>5
      <4>3. CASE i = 1
        <5>1. m = b
          BY <2>6, <4>3
        <5> QED
          BY <4>1, <4>2, <4>3, <5>1
      <4>4. CASE i = 2
        <5>1. m = b + 1
          BY <2>6, <4>4
        <5> QED
          BY <4>1, <4>2, <4>4, <5>1
      <4> QED
        BY <3>1, <4>3, <4>4
  <2>8. a \in Area(q) /\ a \in Address /\ q \in Params
    BY <1>2, <2>2, CellsInArea, DefaultValues
  <2>9. ASSUME NEW k \in m + 1 .. n + 8, Covers(format[k], a) PROVE FALSE
    <3>1. k \in n + 1 .. n + 8
      BY <2>6
    <3>2. k = b \/ k = b + 1
      BY <1>4, <2>5, <2>8, <2>9, <3>1
    <3>3. k = b + 1 /\ i = 1
      BY <2>6, <3>2
    <3>4. 2 \in i + 1 .. 2
      BY <3>3
    <3>5. format[k] = set(q)[2]
      BY <1>2, <2>5, <3>3
    <3> QED
      BY <2>4, <2>9, <3>4, <3>5
  <2> QED
    BY <1>1, <2>2, <2>4, <2>7, <2>9 DEF Puts
<1> QED
  BY <1>1, <1>5, <1>6

-----------------------------------------------------------------------------
(* The store has what was written.                                         *)

(* A new EEPROM: nothing is settled. *)
LEMMA StoreInit == Init => StoreInv
<1> SUFFICES ASSUME Init PROVE StoreInv
  OBVIOUS
<1>1. MemoryOK
  <2>1. PICK b \in Blank : eeprom = [a \in Address |-> b]
    BY DEF Init
  <2>2. b \in Nat
    BY ConfigAssumption
  <2> QED
    BY <2>1, <2>2 DEF Init, MemoryOK
<1>2. HistoryOK
  BY DefaultValues DEF Init, HistoryOK, Whole
<1>3. PageSent /\ NoneAtBoot /\ Settled /\ Planned
  BY DEF Init, PageSent, NoneAtBoot, Settled, Planned
<1> QED
  BY <1>1, <1>2, <1>3 DEF StoreInv

(* What a step does to the parameters it is not about. *)
LEMMA StoreUnchanged ==
  ASSUME StoreInv, UNCHANGED <<eeprom, writes, written, before, torn, failed>>,
         cycle' = cycle \/ (cycle # "idle" /\ cycle' \in {"busy", "done"}),
         node' \in {node, "format", "ready", "absent"}
  PROVE  StoreInv'
<1>1. MemoryOK' /\ HistoryOK'
  BY DEF StoreInv, MemoryOK, HistoryOK
<1>2. PageSent' /\ NoneAtBoot'
  BY DEF StoreInv, PageSent, NoneAtBoot, page_part, Value
<1>3. \A j, a, v : Leads(j, a, v)' <=> Leads(j, a, v)
  BY DEF Leads
<1>4. Settled' /\ Planned'
  BY <1>3 DEF StoreInv, Settled, Planned, UnderWay
<1> QED
  BY <1>1, <1>2, <1>4 DEF StoreInv

(* So are those of the value that was written. *)
LEMMA WrittenCells ==
  ASSUME HistoryOK, NEW p \in Params
  PROVE  /\ written[p] \in Seq(Byte) /\ Len(written[p]) <= ParamSize[p]
         /\ Cells(p, written[p]) \subseteq Area(p) /\ Cells(p, written[p]) \subseteq Address
<1>1. written[p] \in Seq(Byte) /\ Len(written[p]) <= ParamSize[p]
  BY DEF HistoryOK
<1> QED
  BY <1>1, CellsInArea

(* A set: its parameter is not settled, the others are not touched. *)
LEMMA StoreSet ==
  ASSUME StoreInv, NEW p \in Params, NEW v \in Seq(Byte), <<p, v>> \in Settings, SetParam(p, v)
  PROVE  StoreInv'
<1>1. /\ writes = << >> /\ writes' = config_set(p, v) /\ cycle = "idle" /\ cycle' = "idle"
      /\ eeprom' = eeprom /\ torn' = torn /\ failed' = FALSE /\ node' = node
  BY DEF SetParam, StoreInv, PageSent, memory
<1>2. /\ MemoryOK /\ HistoryOK
      /\ \A q \in Params : written'[q] = IF q = p THEN taken(p, v) ELSE written[q]
      /\ written' = [written EXCEPT ![p] = taken(p, v)]
      /\ before' = [before EXCEPT ![p] = @ \cup {written[p]}]
  BY DEF StoreInv, SetParam, HistoryOK
<1>3. taken(p, v) \in Seq(Byte) /\ Len(taken(p, v)) <= ParamSize[p]
  BY TakenPart
<1>4. Whole(p) => Full(p, taken(p, v))
  BY TakenPart DEF Whole, Full
<1>5. MemoryOK'
  BY <1>1, <1>2, SetWrites DEF MemoryOK
<1>6. HistoryOK'
  BY <1>1, <1>2, <1>3, <1>4 DEF HistoryOK
<1>7. p \in UnderWay' /\ UnderWay \subseteq UnderWay'
  BY <1>2 DEF UnderWay, HistoryOK
<1>8. Settled'
  <2> SUFFICES ASSUME NEW q \in Params, q \notin torn, q \notin UnderWay', q # p,
                      NEW a \in Cells(q, written[q])
               PROVE  Leads(0, a, Content(q, written[q], a))'
    BY <1>1, <1>2, <1>7 DEF Settled
  <2>1. eeprom[a] = Content(q, written[q], a)
    BY <1>7 DEF StoreInv, Settled, Leads
  <2>2. a \in Area(q) /\ a \in Int
    BY <1>2, WrittenCells DEF Address
  <2>3. a \notin Area(p)
    BY <2>2, Layout
  <2>4. \A k \in 1 .. Len(writes') : ~Covers(writes'[k], a)
    BY <1>1, <2>2, <2>3, SetWrites
  <2>5. Content(q, written[q], a)' = Content(q, written[q], a)
    BY <1>2 DEF Content
  <2> QED
    BY <1>1, <2>1, <2>4, <2>5 DEF Leads
<1>9. Planned'
  <2> SUFFICES ASSUME NEW j \in 1 .. Len(writes'), NEW q \in writes'[j].ends,
                      NEW a \in Cells(q, written'[q])
               PROVE  Leads(j, a, Content(q, written[q], a))'
    BY DEF Planned, Cells
  <2>1. j = Len(writes') /\ q = p
    BY <1>1, <1>4, SetPlan
  <2>2. a \in Cells(p, taken(p, v))
    BY <1>2, <2>1
  <2>3. Puts(writes', j, a, Content(p, taken(p, v), a))
    BY <1>1, <1>4, <2>1, <2>2, SetPlan
  <2>4. Content(q, written[q], a)' = Content(p, taken(p, v), a)
    BY <1>2, <2>1 DEF Content
  <2> QED
    BY <2>3, <2>4 DEF Leads, Puts
<1> QED
  BY <1>1, <1>5, <1>6, <1>8, <1>9 DEF StoreInv, PageSent, NoneAtBoot, SetParam

(* config_init: the format settles nothing before its writes are done. *)
LEMMA StoreFormat ==
  ASSUME StoreInv, config_init
  PROVE  StoreInv'
<1>1. CASE node' = "ready" /\ UNCHANGED <<writes, history>>
  BY <1>1, StoreUnchanged DEF config_init, memory, history
<1>2. CASE /\ node' = "format" /\ writes' = format /\ written' = Default
           /\ before' = [p \in Params |-> {}] /\ torn' = Params /\ failed' = FALSE
  <2>1. UNCHANGED <<eeprom, cycle>>
    BY DEF config_init, memory
  <2>2. MemoryOK'
    BY <1>2, <2>1, FormatWrites DEF StoreInv, MemoryOK
  <2>3. HistoryOK'
    BY <1>2, DefaultValues DEF HistoryOK, Whole
  <2>4. PageSent' /\ NoneAtBoot'
    BY <1>2, <2>1 DEF config_init, StoreInv, PageSent, NoneAtBoot
  <2>5. Settled'
    BY <1>2 DEF Settled
  <2>6. Planned'
    <3> SUFFICES ASSUME NEW j \in 1 .. Len(format), NEW q \in format[j].ends,
                        NEW a \in Cells(q, Default[q])
                 PROVE  Leads(j, a, Content(q, written[q], a))'
      BY <1>2 DEF Planned, Cells
    <3>1. Puts(writes', j, a, Content(q, Default[q], a))
      BY <1>2, FormatPlan
    <3>2. Content(q, written[q], a)' = Content(q, Default[q], a)
      BY <1>2 DEF Content
    <3> QED
      BY <3>1, <3>2 DEF Leads, Puts
  <2> QED
    BY <2>2, <2>3, <2>4, <2>5, <2>6 DEF StoreInv
<1> QED
  BY <1>1, <1>2 DEF config_init

(* The settled parameters stay so when nothing of what was set changes. *)
LEMMA SettledKept ==
  ASSUME StoreInv, written' = written, torn \cup UnderWay \subseteq torn' \cup UnderWay',
         \A a \in Address : \A v : Leads(0, a, v) => Leads(0, a, v)'
  PROVE  Settled'
<1> SUFFICES ASSUME NEW p \in Params, p \notin torn' \cup UnderWay', NEW a \in Cells(p, written[p])
             PROVE  Leads(0, a, Content(p, written[p], a))'
  BY DEF Settled
<1>1. PICK v : v = Content(p, written[p], a)
  OBVIOUS
<1>2. Leads(0, a, v) /\ a \in Address
  BY <1>1, WrittenCells DEF StoreInv, Settled
<1>3. Leads(0, a, v)'
  BY <1>2
<1> QED
  BY <1>1, <1>3 DEF Leads

(* A page is sent: it is one that the writes lead to. *)
LEMMA StoreSendPage ==
  ASSUME StoreInv, SendPage
  PROVE  StoreInv'
<1> DEFINE w == Head(writes)
<1>1. /\ writes # << >> /\ writes' = writes /\ node' = node /\ cycle' = "busy"
      /\ eeprom' = Programmed(w, page_part(w))
      /\ UNCHANGED <<written, before, torn, failed>>
  BY DEF SendPage, history
<1>2. MemoryOK /\ HistoryOK /\ w \in Writes /\ page_part(w) \in 0 .. page_part(w)
  <2>1. MemoryOK /\ HistoryOK /\ w \in Writes
    BY <1>1, HeadWrite DEF StoreInv
  <2> QED
    BY <2>1, PagePart
<1>3. /\ eeprom' \in [Address -> Nat]
      /\ \A a \in Address : a \in w.adr .. w.adr + page_part(w) - 1 => eeprom'[a] = Value(w, a)
  BY <1>1, <1>2, ProgrammedBytes DEF MemoryOK
<1>4. MemoryOK' /\ HistoryOK' /\ NoneAtBoot'
  BY <1>1, <1>2, <1>3 DEF MemoryOK, HistoryOK, NoneAtBoot, StoreInv
<1>5. PageSent'
  <2> SUFFICES ASSUME NEW a \in w.adr .. w.adr + page_part(w) - 1
               PROVE  eeprom'[a] = Value(w, a)
    BY <1>1 DEF PageSent, page_part, Value
  <2>1. /\ w.adr \in Nat /\ Len(w.in) \in Nat /\ w.adr + Len(w.in) <= CONFIG_MAX_SIZE
        /\ CONFIG_MAX_SIZE \in Nat /\ page_part(w) \in 1 .. Len(w.in)
    BY <1>2, WriteNumbers, PagePart
  <2> HIDE DEF w
  <2>2. a \in Address
    BY <2>1 DEF Address
  <2> QED
    BY <1>3, <2>2
<1>6. ASSUME NEW a \in Address, NEW v, NEW j \in Nat, Leads(j, a, v) PROVE Leads(j, a, v)'
  BY <1>1, <1>2, <1>6, LeadsSent
<1>7. Settled'
  BY <1>1, <1>6, SettledKept DEF UnderWay
<1>8. Planned'
  <2> SUFFICES ASSUME ~failed, NEW j \in 1 .. Len(writes), NEW p \in writes[j].ends,
                      NEW a \in Cells(p, written[p])
               PROVE  Leads(j, a, Content(p, written[p], a))'
    BY <1>1 DEF Planned
  <2>1. PICK v : v = Content(p, written[p], a)
    OBVIOUS
  <2>2. p \in Params
    BY <1>2, WriteNumbers DEF MemoryOK
  <2>3. Leads(j, a, v) /\ a \in Address
    BY <1>2, <2>1, <2>2, WrittenCells DEF StoreInv, Planned
  <2>4. Leads(j, a, v)'
    BY <1>6, <2>3
  <2> QED
    BY <1>1, <2>1, <2>4 DEF Leads
<1> QED
  BY <1>4, <1>5, <1>7, <1>8 DEF StoreInv

(* What is given up, by a failure or a reset, is torn. *)
LEMMA StoreDropped ==
  ASSUME StoreInv, WriteFails \/ Reset
  PROVE  StoreInv'
<1>1. /\ MemoryOK /\ HistoryOK /\ written' = written
      /\ torn' = torn \cup UnderWay /\ UnderWay' \subseteq UnderWay
      /\ before' \in [Params -> SUBSET Seq(Byte)] /\ failed' \in BOOLEAN
      /\ cycle' = "idle" /\ node' \in {node, "boot"}
      /\ writes # << >> \/ writes' = << >>
  BY DEF WriteFails, Reset, StoreInv, HistoryOK, MemoryOK, UnderWay
<1>2. \/ eeprom' = eeprom
      \/ writes # << >> /\ \E n \in 0 .. page_part(Head(writes)) :
                             eeprom' = Programmed(Head(writes), n)
  <2>1. CASE WriteFails
    BY <2>1 DEF WriteFails
  <2>2. CASE Reset
    BY <2>2 DEF Reset
  <2> QED
    BY <2>1, <2>2
<1>3. writes' = << >> \/ (writes # << >> /\ writes' = Tail(writes))
  BY DEF WriteFails, Reset
<1>4. \A a \in Address : \A v : Leads(0, a, v) => Leads(0, a, v)'
  BY <1>1, <1>2, <1>3, LeadsDropped
<1>5. eeprom' \in [Address -> Nat]
  BY <1>1, <1>2, HeadWrite, ProgrammedBytes DEF MemoryOK
<1>6. writes' \in Seq(Writes)
  <2>1. << >> \in Seq(Writes)
    OBVIOUS
  <2> QED
    BY <1>1, <1>3, <2>1, HeadWrite
<1>7. MemoryOK' /\ HistoryOK'
  <2>1. UnderWay \subseteq Params
    BY DEF UnderWay
  <2> QED
    BY <1>1, <1>5, <1>6, <2>1 DEF MemoryOK, HistoryOK
<1>8. PageSent' /\ NoneAtBoot'
  BY <1>1 DEF PageSent, NoneAtBoot, StoreInv, WriteFails, Reset
<1>9. Settled'
  BY <1>1, <1>4, SettledKept
<1>10. Planned'
  BY DEF Planned, WriteFails, Reset
<1> QED
  BY <1>7, <1>8, <1>9, <1>10 DEF StoreInv

(* A page is through: the writes go on, or a parameter is settled. *)
LEMMA StoreAckPoll ==
  ASSUME StoreInv, AckPoll
  PROVE  StoreInv'
<1> DEFINE w == Head(writes)
<1>1. /\ cycle = "done" /\ cycle' = "idle"
      /\ UNCHANGED <<eeprom, node, written, failed>>
  BY DEF AckPoll
<1>2. MemoryOK /\ HistoryOK /\ PageSent /\ cycle # "idle" /\ writes # << >>
  BY <1>1 DEF StoreInv, PageSent
<1>3. /\ w \in Writes /\ w = writes[1] /\ Len(writes) \in Nat \ {0}
      /\ Tail(writes) \in Seq(Writes) /\ Len(Tail(writes)) = Len(writes) - 1
      /\ \A i \in 1 .. Len(writes) - 1 : Tail(writes)[i] = writes[i + 1]
  BY <1>2, HeadWrite
<1>4. \A i \in 1 .. Len(writes) : writes[i].ends \subseteq Params
  <2>1. \A i \in 1 .. Len(writes) : writes[i] \in Writes
    BY <1>2 DEF MemoryOK
  <2> QED
    BY <2>1, WriteNumbers
<1>5. SubSeq(w.in, page_part(w) + 1, Len(w.in)) = << >> <=> page_part(w) = Len(w.in)
  BY <1>3, RestWrite
<1>6. CASE page_part(w) # Len(w.in)
  <2>1. writes' = <<RestOf(w)>> \o Tail(writes) /\ UNCHANGED <<before, torn>>
    BY <1>5, <1>6 DEF AckPoll, RestOf
  <2>2. RestOf(w) \in Writes /\ RestOf(w).ends = w.ends
    BY <1>3, <1>6, RestWrite
  <2>3. /\ writes' \in Seq(Writes) /\ Len(writes') = Len(writes) /\ writes'[1] = RestOf(w)
        /\ \A i \in 2 .. Len(writes) : writes'[i] = writes[i]
    BY <1>2, <2>1, <2>2, SeqNewHead DEF MemoryOK
  <2>4. \A j \in 1 .. Len(writes) : writes'[j].ends = writes[j].ends
    BY <1>3, <2>2, <2>3
  <2>5. ASSUME NEW a \in Address, NEW v, NEW j \in 0 .. Len(writes), Leads(j, a, v)
        PROVE  Leads(j, a, v)'
    BY <1>1, <1>2, <1>6, <2>1, <2>5, LeadsRest
  <2>6. MemoryOK' /\ HistoryOK'
    BY <1>1, <1>2, <2>1, <2>3 DEF MemoryOK, HistoryOK
  <2>7. PageSent' /\ NoneAtBoot'
    BY <1>1, <1>2 DEF PageSent, NoneAtBoot, StoreInv
  <2>8. Settled'
    <3>1. 0 \in 0 .. Len(writes)
      BY <1>3
    <3> QED
      BY <1>1, <2>1, <2>5, <3>1, SettledKept DEF UnderWay
  <2>9. Planned'
    <3> SUFFICES ASSUME ~failed, NEW j \in 1 .. Len(writes), NEW p \in writes[j].ends,
                        NEW a \in Cells(p, written[p])
                 PROVE  Leads(j, a, Content(p, written[p], a))'
      BY <1>1, <2>3, <2>4 DEF Planned
    <3>1. PICK v : v = Content(p, written[p], a)
      OBVIOUS
    <3>2. Leads(j, a, v) /\ a \in Address
      BY <1>2, <1>4, <3>1, WrittenCells DEF StoreInv, Planned
    <3>3. Leads(j, a, v)'
      <4>1. j \in 0 .. Len(writes)
        OBVIOUS
      <4> QED
        BY <2>5, <3>2, <4>1
    <3> QED
      BY <1>1, <3>1, <3>3 DEF Leads
  <2> QED
    BY <2>6, <2>7, <2>8, <2>9 DEF StoreInv
<1>7. CASE page_part(w) = Len(w.in)
  <2>1. /\ writes' = Tail(writes)
        /\ before' = [p \in Params |-> IF ~failed /\ p \in w.ends THEN {} ELSE before[p]]
        /\ torn' = IF failed THEN torn ELSE torn \ w.ends
    BY <1>2, <1>5, <1>7 DEF AckPoll, HistoryOK
  <2>2. ASSUME NEW a \in Address, NEW v, NEW j \in 0 .. Len(writes), Leads(j, a, v)
        PROVE  Leads(IF j = 0 THEN 0 ELSE j - 1, a, v)'
    BY <1>1, <1>2, <1>7, <2>1, <2>2, LeadsDone
  <2>3. MemoryOK' /\ HistoryOK'
    BY <1>1, <1>2, <1>3, <2>1 DEF MemoryOK, HistoryOK
  <2>4. PageSent' /\ NoneAtBoot'
    BY <1>1, <1>2 DEF PageSent, NoneAtBoot, StoreInv
  <2>5. Settled'
    <3> SUFFICES ASSUME NEW p \in Params, p \notin torn' \cup UnderWay',
                        NEW a \in Cells(p, written[p])
                 PROVE  Leads(0, a, Content(p, written[p], a))'
      BY <1>1 DEF Settled
    <3>1. PICK v : v = Content(p, written[p], a)
      OBVIOUS
    <3>2. a \in Address
      BY <1>2, WrittenCells
    <3>3. 0 \in 0 .. Len(writes) /\ 1 \in 0 .. Len(writes) /\ 1 \in 1 .. Len(writes)
      BY <1>3
    <3>4. CASE ~failed /\ p \in w.ends
      <4>1. Leads(1, a, v)
        BY <1>3, <3>1, <3>3, <3>4 DEF StoreInv, Planned
      <4>2. Leads(IF 1 = 0 THEN 0 ELSE 1 - 1, a, v)'
        BY <2>2, <3>2, <3>3, <4>1
      <4> QED
        BY <1>1, <3>1, <4>2 DEF Leads
    <3>5. CASE failed \/ p \notin w.ends
      <4>1. p \notin torn \cup UnderWay
        BY <2>1, <3>5 DEF UnderWay
      <4>2. Leads(0, a, v)
        BY <3>1, <4>1 DEF StoreInv, Settled
      <4>3. Leads(IF 0 = 0 THEN 0 ELSE 0 - 1, a, v)'
        BY <2>2, <3>2, <3>3, <4>2
      <4> QED
        BY <1>1, <3>1, <4>3 DEF Leads
    <3> QED
      BY <3>4, <3>5
  <2>6. Planned'
    <3> SUFFICES ASSUME ~failed, NEW j \in 1 .. Len(writes'), NEW p \in writes'[j].ends,
                        NEW a \in Cells(p, written[p])
                 PROVE  Leads(j, a, Content(p, written[p], a))'
      BY <1>1 DEF Planned
    <3>1. /\ j + 1 \in 1 .. Len(writes) /\ j + 1 \in 0 .. Len(writes) /\ j + 1 # 0
          /\ (j + 1) - 1 = j /\ p \in writes[j + 1].ends
      BY <1>3, <2>1
    <3>2. PICK v : v = Content(p, written[p], a)
      OBVIOUS
    <3>3. Leads(j + 1, a, v) /\ a \in Address
      BY <1>2, <1>4, <3>1, <3>2, WrittenCells DEF StoreInv, Planned
    <3>4. Leads(IF j + 1 = 0 THEN 0 ELSE (j + 1) - 1, a, v)'
      BY <2>2, <3>1, <3>3
    <3>5. Leads(j, a, v)'
      BY <3>1, <3>4
    <3> QED
      BY <1>1, <3>2, <3>5 DEF Leads
  <2> QED
    BY <2>3, <2>4, <2>5, <2>6 DEF StoreInv
<1> QED
  BY <1>6, <1>7

(* Every step keeps the invariant. *)
LEMMA StoreStep == StoreInv /\ [Next]_configVars => StoreInv'
<1> SUFFICES ASSUME StoreInv, [Next]_configVars PROVE StoreInv'
  OBVIOUS
<1>1. node \in {"boot", "format", "ready", "absent"}
  BY DEF StoreInv, MemoryOK
<1>2. CASE InitFails
  BY <1>2, StoreUnchanged DEF InitFails, memory, history
<1>3. CASE config_init
  BY <1>3, StoreFormat
<1>4. CASE FormatDone
  BY <1>4, StoreUnchanged DEF FormatDone, memory, history
<1>5. ASSUME NEW s \in Settings, SetParam(s[1], s[2]) PROVE StoreInv'
  <2>1. PICK p \in Params, v \in Seq(Byte) : s = <<p, v>>
    BY ConfigAssumption
  <2>2. <<p, v>> \in Settings /\ SetParam(p, v)
    BY <1>5, <2>1
  <2> QED
    BY <2>2, StoreSet
<1>6. CASE SendPage
  BY <1>6, StoreSendPage
<1>7. CASE WriteCycleEnds
  BY <1>1, <1>7, StoreUnchanged DEF WriteCycleEnds, history
<1>8. CASE AckPoll
  BY <1>8, StoreAckPoll
<1>9. CASE WriteFails \/ Reset
  BY <1>9, StoreDropped
<1>10. ASSUME NEW p \in ReadParams, ReadLength(p) PROVE StoreInv'
  BY <1>1, <1>10, StoreUnchanged DEF ReadLength, memory, history
<1>11. CASE ReadData \/ ReadEnd
  BY <1>1, <1>11, StoreUnchanged DEF ReadData, ReadEnd, memory, history
<1>12. CASE UNCHANGED configVars
  BY <1>1, <1>12, StoreUnchanged DEF configVars, memory, history
<1> QED
  BY <1>2, <1>3, <1>4, <1>5, <1>6, <1>7, <1>8, <1>9, <1>10, <1>11, <1>12 DEF Next, Writer

(* Whatever happens, resets and failures of reads and writes included, the *)
(* bytes of a settled parameter are in place and stay there.               *)
THEOREM StoreInvariant == Spec => []StoreInv
<1>1. Init => StoreInv
  BY StoreInit
<1>2. StoreInv /\ [Next]_configVars => StoreInv'
  BY StoreStep
<1> QED
  BY <1>1, <1>2, PTL DEF Spec

(* A parameter whose bytes are those of a value has that value. *)
LEMMA StoredValue ==
  ASSUME NEW p \in Params, NEW v \in Seq(Byte), Len(v) <= ParamSize[p],
         \A a \in Cells(p, v) : eeprom[a] = Content(p, v, a)
  PROVE  Stored(p) = v
<1>1. get_param_offset[p] \in Nat /\ ParamSize[p] \in Nat /\ Len(v) \in Nat
  BY Layout
<1>2. eeprom[get_param_offset[p]] = Len(v)
  BY <1>1 DEF Cells, Content
<1>3. valid_length(p) = Len(v)
  BY <1>1, <1>2 DEF valid_length
<1>4. \A i \in 1 .. Len(v) : eeprom[get_param_offset[p] + i] = v[i]
  BY <1>1, SMTT(30) DEF Cells, Content
<1>5. v = [i \in 1 .. Len(v) |-> v[i]]
  OBVIOUS
<1> QED
  BY <1>3, <1>4, <1>5 DEF Stored, Data

(* Every parameter whose last set was carried through has the value it was *)
(* set to: config_set, the format and eeprom_write harm no other one.      *)
THEOREM StoredWhatIsWritten == Spec => []StoredIsWritten
<1>1. StoreInv => StoredIsWritten
  <2> SUFFICES ASSUME StoreInv, NEW p \in Params \ (torn \cup UnderWay)
               PROVE  Stored(p) = written[p]
    BY DEF StoredIsWritten
  <2>1. written[p] \in Seq(Byte) /\ Len(written[p]) <= ParamSize[p]
    BY WrittenCells DEF StoreInv
  <2>2. \A a \in Cells(p, written[p]) : eeprom[a] = Content(p, written[p], a)
    BY DEF StoreInv, Settled, Leads
  <2> QED
    BY <2>1, <2>2, StoredValue
<1> QED
  BY <1>1, StoreInvariant, PTL

-----------------------------------------------------------------------------
(* The magic vouches for what no client sets.  Not if a write may fail: the *)
(* format goes on after one that failed, up to the magic.                   *)

Unset == Params \ ({s[1] : s \in Settings} \cup {CONFIG_MAGIC, CONFIG_VERSION})

HasDefault(p) == \A a \in Cells(p, Default[p]) : eeprom[a] = Content(p, Default[p], a)

KeepsDefault(p) == \A a \in Cells(p, Default[p]) : Leads(0, a, Content(p, Default[p], a))

(* A write that puts nothing but zeros into the magic. *)
Harmless(w) == \A a \in Area(CONFIG_MAGIC) : Covers(w, a) => Value(w, a) = 0

(* The format's first page, on which the magic begins, has not been sent. *)
Untouched == cycle = "idle" /\ writes = format

NothingFails ==
  /\ ~failed
  /\ node = "absent" => writes = << >>
  /\ \A p \in Unset : written[p] = Default[p] /\ before[p] = {}

Vouches == HasMagic => \A p \in Unset : HasDefault(p)

WhenReady == node = "ready" => \A p \in Unset : KeepsDefault(p)

(* While a default is still to be written there is no magic, and every     *)
(* write up to the one that ends it is harmless.                           *)
WhenFormatting ==
  node = "format" =>
    /\ Unset \cap torn # {} => ~HasMagic \/ Untouched
    /\ \A p \in Unset \cap torn : \E j \in 1 .. Len(writes) :
         p \in writes[j].ends /\ \A i \in 1 .. j : Harmless(writes[i])

VouchInv == NothingFails /\ Vouches /\ WhenReady /\ WhenFormatting

(* The magic is its length and all of its bytes. *)
MagicBytes ==
  LET offset == get_param_offset[CONFIG_MAGIC]
  IN  /\ eeprom[offset] >= ParamSize[CONFIG_MAGIC]
      /\ \A i \in 1 .. ParamSize[CONFIG_MAGIC] : eeprom[offset + i] = CONFIGURATION_MAGIC[i]

(* The magic is at the begin of the memory, and none of its bytes is zero. *)
LEMMA MagicConstants ==
  /\ CONFIG_MAGIC \in Params /\ get_param_offset[CONFIG_MAGIC] = 0
  /\ ParamSize[CONFIG_MAGIC] \in Nat \ {0} /\ Area(CONFIG_MAGIC) \subseteq Address
  /\ Area(CONFIG_MAGIC) = 0 .. ParamSize[CONFIG_MAGIC]
  /\ CONFIGURATION_MAGIC = [i \in 1 .. ParamSize[CONFIG_MAGIC] |-> CONFIGURATION_MAGIC[i]]
  /\ \A i \in 1 .. ParamSize[CONFIG_MAGIC] : CONFIGURATION_MAGIC[i] \in Nat \ {0}
<1>1. CONFIG_MAGIC \in Params
  BY DefaultValues DEF CONFIG_MAGIC
<1>2. get_param_offset[CONFIG_MAGIC] = 0
  BY NextOffset DEF CONFIG_MAGIC
<1>3. PICK size \in Nat \ {0} : size = ParamSize[CONFIG_MAGIC]
  BY <1>1, Layout
<1>4. CONFIGURATION_MAGIC \in Seq(Byte \ {0}) /\ Len(CONFIGURATION_MAGIC) = size
  BY <1>3, ConfigAssumption DEF Full
<1>5. CONFIGURATION_MAGIC \in [1 .. size -> Byte \ {0}]
  BY <1>3, <1>4
<1>6. Byte \subseteq Nat
  BY ConfigAssumption
<1>7. /\ CONFIGURATION_MAGIC = [i \in 1 .. size |-> CONFIGURATION_MAGIC[i]]
      /\ \A i \in 1 .. size : CONFIGURATION_MAGIC[i] \in Nat \ {0}
  BY <1>5, <1>6
<1>8. Area(CONFIG_MAGIC) = 0 .. size /\ Area(CONFIG_MAGIC) \subseteq Address
  BY <1>1, <1>2, <1>3, Layout DEF Area
<1> QED
  BY <1>1, <1>2, <1>3, <1>7, <1>8

(* config_init finds the magic when its bytes are there. *)
LEMMA MagicIs == MemoryOK => (HasMagic <=> MagicBytes)
<1> SUFFICES ASSUME MemoryOK PROVE HasMagic <=> MagicBytes
  OBVIOUS
<1>1. PICK size \in Nat \ {0} : size = ParamSize[CONFIG_MAGIC]
  BY MagicConstants
<1>2. PICK magic : /\ magic = CONFIGURATION_MAGIC /\ magic = [i \in 1 .. size |-> magic[i]]
                   /\ \A i \in 1 .. size : magic[i] \in Nat \ {0}
  BY <1>1, MagicConstants
<1>3. get_param_offset[CONFIG_MAGIC] = 0 /\ \A i \in 0 .. size : eeprom[i] \in Nat
  BY <1>1, MagicConstants DEF MemoryOK
<1>4. PICK n \in 0 .. size : /\ n = valid_length(CONFIG_MAGIC)
                             /\ n = IF eeprom[0] > size THEN size ELSE eeprom[0]
  BY <1>1, <1>3 DEF valid_length
<1> DEFINE data == [i \in 1 .. n |-> eeprom[i]]
<1>5. Stored(CONFIG_MAGIC) = data
  BY <1>3, <1>4 DEF Stored, Data
<1>6. Len(data) = n
  OBVIOUS
<1>7. uint(CONFIG_MAGIC, Stored(CONFIG_MAGIC)) =
        [i \in 1 .. size |-> IF i <= n THEN eeprom[i] ELSE 0]
  BY <1>1, <1>5, <1>6 DEF uint
<1>8. HasMagic <=> \A i \in 1 .. size : magic[i] = IF i <= n THEN eeprom[i] ELSE 0
  BY <1>2, <1>7 DEF HasMagic
<1>9. MagicBytes <=> eeprom[0] >= size /\ \A i \in 1 .. size : eeprom[i] = magic[i]
  <2>1. \A i \in 1 .. size : 0 + i = i
    OBVIOUS
  <2> QED
    BY <1>1, <1>2, <1>3, <2>1 DEF MagicBytes
<1> HIDE DEF data
<1>10. HasMagic => n = size
  BY <1>2, <1>8
<1>11. n = size <=> eeprom[0] >= size
  BY <1>3, <1>4
<1> QED
  BY <1>8, <1>9, <1>10, <1>11

(* The same of the next state. *)
LEMMA MagicIsNext == MemoryOK' => (HasMagic' <=> MagicBytes')
BY MagicIs, PTL

(* There is no magic where there was none, if nothing but zeros came in. *)
LEMMA StillNoMagic ==
  ASSUME MemoryOK, MemoryOK', ~HasMagic,
         \A a \in Area(CONFIG_MAGIC) : eeprom'[a] \in {0, eeprom[a]}
  PROVE  ~HasMagic'
<1> SUFFICES ASSUME MagicBytes' PROVE MagicBytes
  BY MagicIs, MagicIsNext
<1>1. PICK size \in Nat \ {0} : /\ size = ParamSize[CONFIG_MAGIC]
                                /\ Area(CONFIG_MAGIC) = 0 .. size
                                /\ get_param_offset[CONFIG_MAGIC] = 0
  BY MagicConstants
<1>2. eeprom'[0] >= size /\ \A i \in 1 .. size : eeprom'[i] = CONFIGURATION_MAGIC[i]
  BY <1>1 DEF MagicBytes
<1>3. eeprom[0] >= size
  BY <1>1, <1>2
<1>4. \A i \in 1 .. size : CONFIGURATION_MAGIC[i] # 0
  BY <1>1, MagicConstants
<1>5. \A i \in 1 .. size : eeprom[i] = CONFIGURATION_MAGIC[i]
  BY <1>1, <1>2, <1>4
<1> QED
  BY <1>1, <1>3, <1>5 DEF MagicBytes

(* A harmless page, or the begin of one, makes no magic. *)
LEMMA HarmlessSent ==
  ASSUME MemoryOK, MemoryOK', writes # << >>, Harmless(Head(writes)),
         NEW n \in 0 .. page_part(Head(writes)), eeprom' = Programmed(Head(writes), n),
         ~HasMagic
  PROVE  ~HasMagic'
<1>1. Head(writes) \in Writes
  BY HeadWrite
<1>2. PICK w \in Writes : w = Head(writes)
  BY <1>1
<1>3. /\ w.adr \in Nat /\ Len(w.in) \in Nat /\ n \in Int /\ n <= Len(w.in)
  BY <1>2, WriteNumbers, PagePart
<1>4. \A a \in Int : a \in w.adr .. w.adr + n - 1 => Covers(w, a)
  BY <1>3 DEF Covers
<1>5. \A a \in Address :
        eeprom'[a] = IF a \in w.adr .. w.adr + n - 1 THEN Value(w, a) ELSE eeprom[a]
  BY <1>2, ProgrammedBytes DEF MemoryOK
<1>6. \A a \in Area(CONFIG_MAGIC) : a \in Address /\ a \in Int
  BY MagicConstants DEF Address
<1>7. \A a \in Area(CONFIG_MAGIC) : eeprom'[a] \in {0, eeprom[a]}
  BY <1>2, <1>4, <1>5, <1>6 DEF Harmless
<1> QED
  BY <1>7, StillNoMagic

(* The first page of the format, or the begin of it, ends the magic. *)
LEMMA FirstPageSent ==
  ASSUME MemoryOK, MemoryOK', writes = format,
         NEW n \in 1 .. page_part(Head(writes)), eeprom' = Programmed(Head(writes), n)
  PROVE  ~HasMagic'
<1>1. Pages \in Nat \ {0} /\ 1 \in 1 .. Pages /\ Len(writes) \in Nat \ {0}
  BY PageOf, FormatWrites
<1>2. writes # << >>
  BY <1>1
<1>3. Head(writes) = clear[1] /\ Head(writes) \in Writes
  BY <1>1, <1>2, HeadWrite, FormatWrites
<1>4. PICK w \in Writes : w = Head(writes) /\ w = clear[1]
  BY <1>3
<1>5. w.adr = 0
  <2>1. EEPROM_PAGE_SIZE * (1 - 1) = 0
    BY ConfigAssumption
  <2> QED
    BY <1>1, <1>4, <2>1 DEF clear, ClearPages, Pages, Write
<1>6. Len(w.in) \in Nat /\ n \in Nat /\ n >= 1 /\ n <= Len(w.in) /\ n \in 0 .. page_part(w)
  BY <1>4, WriteNumbers, PagePart
<1>7. 0 \in Address /\ 0 \in Int
  BY MagicConstants DEF Area
<1>8. 0 \in w.adr .. w.adr + n - 1 /\ Covers(w, 0)
  BY <1>5, <1>6 DEF Covers
<1>9. eeprom'[0] = Value(w, 0)
  BY <1>4, <1>6, <1>7, <1>8, ProgrammedBytes DEF MemoryOK
<1>10. Value(w, 0) = 0
  <2>1. Covers(clear[1], 0) => Value(clear[1], 0) = 0
    BY <1>1, <1>7, ClearWrites
  <2> QED
    BY <1>4, <1>8, <2>1
<1>11. ~MagicBytes'
  BY <1>9, <1>10, MagicConstants DEF MagicBytes
<1> QED
  BY <1>11, MagicIsNext

(* No step of the writer and no reset takes a byte what it has to keep. *)
LEMMA LeadsStay ==
  ASSUME StoreInv, SendPage \/ WriteCycleEnds \/ AckPoll \/ Reset
  PROVE  \A a \in Address : \A v : Leads(0, a, v) => Leads(0, a, v)'
<1> SUFFICES ASSUME NEW a \in Address, NEW v, Leads(0, a, v) PROVE Leads(0, a, v)'
  OBVIOUS
<1>1. MemoryOK /\ PageSent
  BY DEF StoreInv
<1>2. CASE SendPage
  <2>1. Head(writes) \in Writes /\ writes # << >>
    BY <1>1, <1>2, HeadWrite DEF SendPage
  <2>2. page_part(Head(writes)) \in 0 .. page_part(Head(writes))
    BY <2>1, PagePart
  <2> QED
    BY <1>1, <1>2, <2>1, <2>2, LeadsSent DEF SendPage
<1>3. CASE WriteCycleEnds
  BY <1>3 DEF WriteCycleEnds, Leads
<1>4. CASE AckPoll
  <2> DEFINE w == Head(writes)
  <2>1. eeprom' = eeprom /\ cycle # "idle"
    BY <1>4 DEF AckPoll
  <2>2. w \in Writes /\ Len(writes) \in Nat
    BY <1>1, <2>1, HeadWrite DEF PageSent
  <2>3. SubSeq(w.in, page_part(w) + 1, Len(w.in)) = << >> <=> page_part(w) = Len(w.in)
    BY <2>2, RestWrite
  <2>4. 0 \in 0 .. Len(writes)
    BY <2>2
  <2>5. CASE page_part(w) # Len(w.in)
    <3>1. writes' = <<RestOf(w)>> \o Tail(writes)
      BY <1>4, <2>3, <2>5 DEF AckPoll, RestOf
    <3> QED
      BY <1>1, <2>1, <2>4, <2>5, <3>1, LeadsRest
  <2>6. CASE page_part(w) = Len(w.in)
    <3>1. writes' = Tail(writes)
      BY <1>4, <2>3, <2>6 DEF AckPoll
    <3>2. Leads(IF 0 = 0 THEN 0 ELSE 0 - 1, a, v)'
      BY <1>1, <2>1, <2>4, <2>6, <3>1, LeadsDone
    <3> QED
      BY <3>2
  <2> QED
    BY <2>5, <2>6
<1>5. CASE Reset
  <2>1. \/ eeprom' = eeprom
        \/ writes # << >> /\ \E n \in 0 .. page_part(Head(writes)) :
                               eeprom' = Programmed(Head(writes), n)
    BY <1>5 DEF Reset
  <2> QED
    BY <1>1, <1>5, <2>1, LeadsDropped DEF Reset
<1> QED
  BY <1>2, <1>3, <1>4, <1>5

(* The parameters that no client sets. *)
LEMMA UnsetParams ==
  /\ Unset \subseteq Params
  /\ \A p \in Unset : Cells(p, Default[p]) \subseteq Area(p) /\ Area(p) \subseteq Address
  /\ \A p \in Unset : p # CONFIG_MAGIC /\ p # CONFIG_VERSION
  /\ \A s \in Settings : s[1] \notin Unset
<1>1. Unset \subseteq Params
  BY DEF Unset
<1>2. \A p \in Unset : Cells(p, Default[p]) \subseteq Area(p) /\ Area(p) \subseteq Address
  BY <1>1, CellsInArea, DefaultValues, Layout
<1> QED
  BY <1>1, <1>2 DEF Unset

(* When such a parameter is settled it keeps its default. *)
LEMMA SettledDefault ==
  ASSUME StoreInv, NothingFails, NEW p \in Unset, p \notin torn
  PROVE  KeepsDefault(p)
<1>1. p \in Params /\ p \notin torn \cup UnderWay /\ written[p] = Default[p]
  BY UnsetParams DEF NothingFails, UnderWay
<1> QED
  BY <1>1 DEF StoreInv, Settled, KeepsDefault

(* A default that is kept is there. *)
LEMMA KeptIsThere ==
  ASSUME NEW p, KeepsDefault(p)
  PROVE  HasDefault(p)
BY DEF KeepsDefault, HasDefault, Leads

(* It is kept by steps that keep every byte. *)
LEMMA DefaultStays ==
  ASSUME NEW p \in Unset, KeepsDefault(p),
         \A a \in Address : \A v : Leads(0, a, v) => Leads(0, a, v)'
  PROVE  KeepsDefault(p)' /\ HasDefault(p)'
<1>1. ASSUME NEW a \in Cells(p, Default[p])
      PROVE  Leads(0, a, Content(p, Default[p], a))'
  <2>1. PICK v : v = Content(p, Default[p], a)
    OBVIOUS
  <2>2. a \in Address /\ Leads(0, a, v)
    BY <2>1, UnsetParams DEF KeepsDefault
  <2>3. Leads(0, a, v)'
    BY <2>2
  <2> QED
    BY <2>1, <2>3
<1> QED
  BY <1>1 DEF KeepsDefault, HasDefault, Leads

(* The defaults are written before the magic. *)
LEMMA FormatIsHarmless ==
  \A p \in Unset : \E j \in 1 .. Len(format) :
    p \in format[j].ends /\ \A i \in 1 .. j : Harmless(format[i])
<1> SUFFICES ASSUME NEW p \in Unset
             PROVE  \E j \in 1 .. Len(format) :
                      p \in format[j].ends /\ \A i \in 1 .. j : Harmless(format[i])
  OBVIOUS
<1>1. PICK n \in Nat \ {0} : n = Pages /\ Len(format) = n + 8
  BY PageOf, FormatWrites
<1>2. p \in Params /\ p # 0 /\ p # 1
  BY UnsetParams DEF CONFIG_MAGIC, CONFIG_VERSION
<1>3. \A a \in Area(CONFIG_MAGIC) : a \in Int
  BY MagicConstants DEF Address
<1>4. ASSUME NEW i \in 1 .. n PROVE Harmless(format[i])
  <2>1. format[i] = clear[i]
    BY <1>1, FormatWrites
  <2>2. \A a \in Int : Covers(clear[i], a) => Value(clear[i], a) = 0
    BY <1>1, ClearWrites
  <2> QED
    BY <1>3, <2>1, <2>2 DEF Harmless
<1>5. ASSUME NEW q \in 2 .. 3
      PROVE  /\ q \in Params /\ Begin(q) = n + 1 + 2 * (q - 2)
             /\ Harmless(format[Begin(q)]) /\ Harmless(format[Begin(q) + 1])
             /\ format[Begin(q) + 1].ends = {q}
  <2>1. /\ q \in 0 .. 3 /\ q \in Params /\ Default[q] \in Seq(Byte) /\ Default[q] # << >>
        /\ taken(q, Default[q]) = Default[q] /\ q # CONFIG_MAGIC
    BY DefaultValues DEF CONFIG_MAGIC
  <2> DEFINE s == config_set(q, Default[q])
  <2>2. format[Begin(q)] = s[1] /\ format[Begin(q) + 1] = s[2]
    BY <2>1, FormatWrites
  <2>3. /\ Len(s) = 2 /\ \A i \in 1 .. Len(s), a \in Int : Covers(s[i], a) => a \in Area(q)
    BY <2>1, SetWrites
  <2>4. \A j \in 1 .. Len(s) : s[j].ends = IF j = Len(s) THEN {q} ELSE {}
    <3>1. Whole(q) => Full(q, taken(q, Default[q]))
      BY <2>1 DEF Whole
    <3> QED
      BY <2>1, <3>1, SetPlan
  <2> HIDE DEF s
  <2>5. s[2].ends = {q}
    BY <2>3, <2>4
  <2>6. \A a \in Area(CONFIG_MAGIC) : a \notin Area(q)
    BY <2>1, MagicConstants, Layout
  <2>7. \A a \in Area(CONFIG_MAGIC) : ~Covers(s[1], a) /\ ~Covers(s[2], a)
    BY <1>3, <2>3, <2>6
  <2>8. Harmless(s[1]) /\ Harmless(s[2])
    BY <2>7 DEF Harmless
  <2>9. Begin(q) = n + 1 + 2 * (q - 2)
    BY <1>1 DEF Begin, CONFIG_NODE_ID, CONFIG_NODE_NAME
  <2> QED
    BY <2>1, <2>2, <2>5, <2>8, <2>9
<1>6. /\ \A i \in 1 .. n + 4 : Harmless(format[i])
      /\ format[n + 2].ends = {2} /\ format[n + 4].ends = {3}
  <2>1. 2 \in 2 .. 3 /\ 3 \in 2 .. 3
    OBVIOUS
  <2>2. Begin(2) = n + 1 /\ Begin(3) = n + 3
    <3>1. Begin(2) = n + 1 + 2 * (2 - 2) /\ Begin(3) = n + 1 + 2 * (3 - 2)
      BY <1>5, <2>1
    <3> QED
      BY <3>1
  <2>3. /\ Harmless(format[n + 1]) /\ Harmless(format[(n + 1) + 1])
        /\ Harmless(format[n + 3]) /\ Harmless(format[(n + 3) + 1])
        /\ format[(n + 1) + 1].ends = {2} /\ format[(n + 3) + 1].ends = {3}
    BY <1>5, <2>1, <2>2
  <2>4. (n + 1) + 1 = n + 2 /\ (n + 3) + 1 = n + 4
    OBVIOUS
  <2>5. \A i \in 1 .. n + 4 : i \in 1 .. n \/ i \in {n + 1, n + 2, n + 3, n + 4}
    OBVIOUS
  <2> QED
    BY <1>4, <2>3, <2>4, <2>5
<1>7. CASE p = 2
  <2>1. n + 2 \in 1 .. Len(format) /\ \A i \in 1 .. n + 2 : i \in 1 .. n + 4
    BY <1>1
  <2> QED
    BY <1>6, <1>7, <2>1
<1>8. CASE p = 3
  <2>1. n + 4 \in 1 .. Len(format)
    BY <1>1
  <2> QED
    BY <1>6, <1>8, <2>1
<1>9. CASE p \notin 0 .. 3
  <2>1. Default[p] = << >>
    BY <1>2, <1>9, DefaultValues
  <2>2. n \in 1 .. n /\ n \in 1 .. Len(format)
    BY <1>1
  <2>3. format[n].ends = {q \in Params : Default[q] = << >>}
    BY <1>1, <2>2, FormatWrites, ClearWrites
  <2> QED
    BY <1>2, <1>4, <2>1, <2>2, <2>3
<1>10. p \in 0 .. 3 => p = 2 \/ p = 3
  BY <1>2
<1> QED
  BY <1>7, <1>8, <1>9, <1>10

(* A new EEPROM has no magic. *)
LEMMA VouchInit == Init => VouchInv
<1> SUFFICES ASSUME Init PROVE VouchInv
  OBVIOUS
<1>1. NothingFails /\ WhenReady /\ WhenFormatting
  BY UnsetParams DEF Init, NothingFails, WhenReady, WhenFormatting
<1>2. ~HasMagic
  <2>1. MemoryOK
    BY StoreInit DEF StoreInv
  <2>2. PICK b \in Blank : eeprom = [a \in Address |-> b]
    BY DEF Init
  <2>3. b # CONFIGURATION_MAGIC[1]
    BY ConfigAssumption
  <2>4. 1 \in 1 .. ParamSize[CONFIG_MAGIC] /\ 0 + 1 \in Address
    BY MagicConstants DEF Area
  <2>5. ~MagicBytes
    BY <2>2, <2>3, <2>4, MagicConstants DEF MagicBytes
  <2> QED
    BY <2>1, <2>5, MagicIs
<1> QED
  BY <1>1, <1>2 DEF VouchInv, Vouches

(* A step that leaves the memory, its writes and the history alone. *)
LEMMA VouchUnchanged ==
  ASSUME VouchInv, UNCHANGED <<eeprom, writes, history>>,
         node' = node \/ (node = "boot" /\ node' = "absent" /\ writes = << >>),
         cycle' = cycle \/ cycle # "idle"
  PROVE  VouchInv'
<1>1. NothingFails'
  BY DEF VouchInv, NothingFails, history
<1>2. Vouches'
  BY DEF VouchInv, Vouches, HasMagic, HasDefault, Stored, Data, valid_length
<1>3. WhenReady'
  BY DEF VouchInv, WhenReady, KeepsDefault, Leads
<1>4. WhenFormatting'
  <2>1. HasMagic' <=> HasMagic
    BY DEF HasMagic, Stored, Data, valid_length
  <2>2. Untouched => cycle = "idle" /\ writes = format
    BY DEF Untouched
  <2>3. cycle' = "idle" /\ writes' = format => Untouched'
    BY DEF Untouched
  <2> QED
    BY <2>1, <2>2, <2>3 DEF VouchInv, WhenFormatting, history
<1> QED
  BY <1>1, <1>2, <1>3, <1>4 DEF VouchInv

(* config_init: the defaults are there, or the format brings them first. *)
LEMMA VouchFormat ==
  ASSUME StoreInv, VouchInv, config_init
  PROVE  VouchInv'
<1>1. node = "boot" /\ writes = << >> /\ cycle = "idle" /\ UNCHANGED <<eeprom, cycle>>
  BY DEF config_init, StoreInv, NoneAtBoot, PageSent, memory
<1>2. HasMagic' <=> HasMagic
  BY <1>1 DEF HasMagic, Stored, Data, valid_length
<1>3. Vouches'
  BY <1>1, <1>2 DEF VouchInv, Vouches, HasDefault
<1>4. CASE node' = "format"
  <2>1. /\ writes' = format /\ written' = Default
        /\ before' = [p \in Params |-> {}] /\ torn' = Params /\ failed' = FALSE
    BY <1>4 DEF config_init
  <2>2. NothingFails' /\ WhenReady'
    BY <1>4, <2>1, UnsetParams DEF NothingFails, WhenReady
  <2>3. WhenFormatting'
    BY <1>1, <2>1, FormatIsHarmless DEF WhenFormatting, Untouched
  <2> QED
    BY <1>3, <2>2, <2>3 DEF VouchInv
<1>5. CASE node' # "format"
  <2>1. PICK magic \in {uint(CONFIG_MAGIC, Stored(CONFIG_MAGIC)), uint(CONFIG_MAGIC, << >>)} :
          /\ magic = CONFIGURATION_MAGIC
          /\ node' = "ready" /\ UNCHANGED <<writes, history>>
    BY <1>5 DEF config_init
  <2>2. uint(CONFIG_MAGIC, << >>) # CONFIGURATION_MAGIC
    <3> DEFINE zeros == uint(CONFIG_MAGIC, << >>)
    <3>1. 1 \in 1 .. ParamSize[CONFIG_MAGIC] /\ Len(<< >>) = 0
      BY MagicConstants
    <3>2. zeros[1] = 0
      BY <3>1 DEF uint
    <3>3. CONFIGURATION_MAGIC[1] # 0
      BY <3>1, MagicConstants
    <3> HIDE DEF zeros
    <3>4. zeros # CONFIGURATION_MAGIC
      BY <3>2, <3>3
    <3> QED
      BY <3>4 DEF zeros
  <2>3. HasMagic
    BY <2>1, <2>2 DEF HasMagic
  <2>4. NothingFails' /\ WhenFormatting'
    BY <2>1 DEF VouchInv, NothingFails, WhenFormatting, history
  <2>5. WhenReady'
    BY <1>1, <2>1, <2>3 DEF VouchInv, Vouches, HasDefault, WhenReady, KeepsDefault, Leads
  <2> QED
    BY <1>3, <2>4, <2>5 DEF VouchInv
<1> QED
  BY <1>4, <1>5

(* A set is at a parameter that clients set. *)
LEMMA VouchSet ==
  ASSUME StoreInv, VouchInv,
         NEW q \in Params, NEW v \in Seq(Byte), <<q, v>> \in Settings, SetParam(q, v)
  PROVE  VouchInv'
<1>1. /\ node = "ready" /\ node' = "ready" /\ eeprom' = eeprom /\ failed' = FALSE
      /\ writes' = config_set(q, v)
      /\ written' = [written EXCEPT ![q] = taken(q, v)]
      /\ before' = [before EXCEPT ![q] = @ \cup {written[q]}]
  BY DEF SetParam, memory
<1>2. q \notin Unset
  BY UnsetParams
<1>3. written \in [Params -> Seq(Byte)] /\ before \in [Params -> SUBSET Seq(Byte)]
  BY DEF StoreInv, HistoryOK
<1>4. NothingFails' /\ WhenFormatting'
  BY <1>1, <1>2, <1>3, UnsetParams DEF VouchInv, NothingFails, WhenFormatting
<1>5. \A p \in Unset : HasDefault(p)
  BY <1>1, KeptIsThere DEF VouchInv, WhenReady
<1>6. Vouches'
  BY <1>1, <1>5 DEF Vouches, HasDefault
<1>7. WhenReady'
  <2> SUFFICES ASSUME NEW p \in Unset, NEW a \in Cells(p, Default[p])
               PROVE  Leads(0, a, Content(p, Default[p], a))'
    BY DEF WhenReady, KeepsDefault
  <2>1. eeprom'[a] = Content(p, Default[p], a)
    BY <1>1, <1>5 DEF HasDefault
  <2>2. a \in Area(p) /\ a \in Int /\ p \in Params /\ p # q
    BY <1>2, UnsetParams DEF Address
  <2>3. a \notin Area(q)
    BY <2>2, Layout
  <2>4. \A k \in 1 .. Len(writes') : ~Covers(writes'[k], a)
    BY <1>1, <2>2, <2>3, SetWrites
  <2> QED
    BY <2>1, <2>4 DEF Leads
<1> QED
  BY <1>4, <1>6, <1>7 DEF VouchInv

(* While there is something to write and no magic, none comes of it. *)
LEMMA VouchSent ==
  ASSUME StoreInv, StoreInv', VouchInv, SendPage \/ Reset
  PROVE  Vouches'
<1> SUFFICES ASSUME HasMagic', NEW p \in Unset PROVE HasDefault(p)'
  BY DEF Vouches
<1>1. \A a \in Address : \A v : Leads(0, a, v) => Leads(0, a, v)'
  BY LeadsStay
<1>2. MemoryOK /\ MemoryOK' /\ NothingFails
  BY DEF StoreInv, VouchInv
<1>3. CASE KeepsDefault(p)
  BY <1>1, <1>3, DefaultStays
<1>4. CASE eeprom' = eeprom
  BY <1>4 DEF VouchInv, Vouches, HasMagic, HasDefault, Stored, Data, valid_length
<1>5. CASE ~KeepsDefault(p) /\ eeprom' # eeprom
  <2>1. /\ writes # << >>
        /\ \E n \in 1 .. page_part(Head(writes)) : eeprom' = Programmed(Head(writes), n)
    <3>1. CASE SendPage
      <4>1. writes # << >> /\ page_part(Head(writes)) \in 1 .. page_part(Head(writes))
        BY <1>2, <3>1, HeadWrite, PagePart DEF SendPage
      <4> QED
        BY <3>1, <4>1 DEF SendPage
    <3>2. CASE Reset
      BY <1>5, <3>2 DEF Reset
    <3> QED
      BY <3>1, <3>2
  <2>2. PICK n \in 1 .. page_part(Head(writes)) : eeprom' = Programmed(Head(writes), n)
    BY <2>1
  <2>3. node = "format"
    BY <1>2, <1>5, <2>1 DEF VouchInv, WhenReady, StoreInv, NoneAtBoot, MemoryOK, NothingFails
  <2>4. p \in Unset \cap torn
    BY <1>2, <1>5, SettledDefault
  <2>5. PICK j \in 1 .. Len(writes) : \A i \in 1 .. j : Harmless(writes[i])
    BY <2>3, <2>4 DEF VouchInv, WhenFormatting
  <2>6. 1 \in 1 .. j /\ Head(writes) = writes[1]
    BY <1>2, <2>1, HeadWrite
  <2>7. Harmless(Head(writes))
    BY <2>5, <2>6
  <2>8. n \in 0 .. page_part(Head(writes))
    OBVIOUS
  <2>9. ~HasMagic'
    <3>1. ~HasMagic \/ Untouched
      BY <2>3, <2>4 DEF VouchInv, WhenFormatting
    <3>2. CASE ~HasMagic
      BY <1>2, <2>1, <2>2, <2>7, <2>8, <3>2, HarmlessSent
    <3>3. CASE Untouched
      BY <1>2, <2>2, <3>3, FirstPageSent DEF Untouched
    <3> QED
      BY <3>1, <3>2, <3>3
  <2> QED
    BY <2>9
<1> QED
  BY <1>3, <1>4, <1>5

(* A page is through: a default to come still comes before the magic. *)
LEMMA VouchAckPoll ==
  ASSUME StoreInv, VouchInv, AckPoll
  PROVE  VouchInv'
<1> DEFINE w == Head(writes)
<1>1. /\ cycle = "done" /\ UNCHANGED <<eeprom, node, written, failed>> /\ ~failed
      /\ MemoryOK /\ HistoryOK /\ PageSent /\ writes # << >>
  BY DEF AckPoll, StoreInv, PageSent, VouchInv, NothingFails
<1>2. /\ w \in Writes /\ w = writes[1] /\ Len(writes) \in Nat \ {0}
      /\ Len(Tail(writes)) = Len(writes) - 1
      /\ \A i \in 1 .. Len(writes) - 1 : Tail(writes)[i] = writes[i + 1]
  BY <1>1, HeadWrite
<1>3. SubSeq(w.in, page_part(w) + 1, Len(w.in)) = << >> <=> page_part(w) = Len(w.in)
  BY <1>2, RestWrite
<1>4. HasMagic' <=> HasMagic
  BY <1>1 DEF HasMagic, Stored, Data, valid_length
<1>5. torn' \subseteq torn /\ \A p \in Params : before[p] = {} => before'[p] = {}
  BY DEF AckPoll
<1>6. NothingFails'
  BY <1>1, <1>5, UnsetParams DEF VouchInv, NothingFails, StoreInv, NoneAtBoot, AckPoll
<1>7. Vouches'
  BY <1>1, <1>4 DEF VouchInv, Vouches, HasDefault
<1>8. WhenReady'
  BY <1>1, LeadsStay, DefaultStays DEF VouchInv, WhenReady
<1>9. WhenFormatting'
  <2> SUFFICES ASSUME node = "format", NEW p \in Unset \cap torn'
               PROVE  /\ ~HasMagic'
                      /\ \E j \in 1 .. Len(writes') :
                           p \in writes'[j].ends /\ \A i \in 1 .. j : Harmless(writes'[i])
    BY <1>1 DEF WhenFormatting
  <2>1. ~HasMagic
    BY <1>1, <1>5 DEF VouchInv, WhenFormatting, Untouched
  <2>2. PICK j \in 1 .. Len(writes) :
          p \in writes[j].ends /\ \A i \in 1 .. j : Harmless(writes[i])
    BY <1>5 DEF VouchInv, WhenFormatting
  <2>3. CASE page_part(w) # Len(w.in)
    <3>1. writes' = <<RestOf(w)>> \o Tail(writes)
      BY <1>3, <2>3 DEF AckPoll, RestOf
    <3>2. /\ RestOf(w) \in Writes /\ RestOf(w).ends = w.ends
          /\ \A a \in Int : Covers(RestOf(w), a) =>
                              Covers(w, a) /\ Value(RestOf(w), a) = Value(w, a)
      BY <1>2, <2>3, RestWrite
    <3>3. /\ Len(writes') = Len(writes) /\ writes'[1] = RestOf(w)
          /\ \A i \in 2 .. Len(writes) : writes'[i] = writes[i]
      BY <1>1, <3>1, <3>2, SeqNewHead DEF MemoryOK
    <3>4. Harmless(w) => Harmless(RestOf(w))
      BY <3>2, MagicConstants DEF Harmless, Address
    <3>5. \A i \in 1 .. Len(writes) : /\ writes'[i].ends = writes[i].ends
                                      /\ Harmless(writes[i]) => Harmless(writes'[i])
      BY <1>2, <3>2, <3>3, <3>4
    <3>6. \A i \in 1 .. j : i \in 1 .. Len(writes)
      BY <1>2
    <3> QED
      BY <1>4, <2>1, <2>2, <3>3, <3>5, <3>6
  <2>4. CASE page_part(w) = Len(w.in)
    <3>1. writes' = Tail(writes) /\ torn' = torn \ w.ends
      BY <1>1, <1>3, <2>4 DEF AckPoll
    <3>2. j # 1
      BY <1>2, <2>2, <3>1
    <3>3. /\ j - 1 \in 1 .. Len(writes') /\ writes'[j - 1] = writes[j]
          /\ \A i \in 1 .. j - 1 : i + 1 \in 1 .. j /\ writes'[i] = writes[i + 1]
      <4>1. j - 1 \in 1 .. Len(writes) - 1 /\ (j - 1) + 1 = j
        BY <1>2, <3>2
      <4>2. \A i \in 1 .. j - 1 : i + 1 \in 1 .. j /\ i \in 1 .. Len(writes) - 1
        BY <1>2
      <4> QED
        BY <1>2, <3>1, <4>1, <4>2
    <3> QED
      BY <1>4, <2>1, <2>2, <3>3
  <2> QED
    BY <2>3, <2>4
<1> QED
  BY <1>6, <1>7, <1>8, <1>9 DEF VouchInv

(* Every step keeps the invariant. *)
LEMMA VouchStep ==
  ~WriteFaults /\ StoreInv /\ StoreInv' /\ VouchInv /\ [Next]_configVars => VouchInv'
<1> SUFFICES ASSUME ~WriteFaults, StoreInv, StoreInv', VouchInv, [Next]_configVars
             PROVE  VouchInv'
  OBVIOUS
<1>1. CASE InitFails
  BY <1>1, VouchUnchanged DEF InitFails, memory, StoreInv, NoneAtBoot
<1>2. CASE config_init
  BY <1>2, VouchFormat
<1>3. CASE FormatDone
  <2>1. /\ node = "format" /\ node' = "ready" /\ writes = << >>
        /\ UNCHANGED <<eeprom, writes, history>>
    BY <1>3 DEF FormatDone, memory
  <2>2. Unset \cap torn = {}
    BY <2>1 DEF VouchInv, WhenFormatting
  <2>3. \A p \in Unset : KeepsDefault(p)
    BY <2>2, SettledDefault DEF VouchInv
  <2>4. WhenReady' /\ Vouches'
    BY <2>1, <2>3 DEF WhenReady, Vouches, HasDefault, KeepsDefault, Leads
  <2>5. NothingFails' /\ WhenFormatting'
    BY <2>1 DEF VouchInv, NothingFails, WhenFormatting, history
  <2> QED
    BY <2>4, <2>5 DEF VouchInv
<1>4. ASSUME NEW s \in Settings, SetParam(s[1], s[2]) PROVE VouchInv'
  <2>1. PICK p \in Params, v \in Seq(Byte) : s = <<p, v>>
    BY ConfigAssumption
  <2>2. <<p, v>> \in Settings /\ SetParam(p, v)
    BY <1>4, <2>1
  <2> QED
    BY <2>2, VouchSet
<1>5. CASE SendPage
  <2>1. /\ node' = node /\ writes' = writes /\ UNCHANGED history /\ cycle' = "busy"
        /\ cycle = "idle" /\ writes # << >>
    BY <1>5 DEF SendPage
  <2>2. Vouches'
    BY <1>5, VouchSent
  <2>3. WhenReady'
    BY <1>5, <2>1, LeadsStay, DefaultStays DEF VouchInv, WhenReady
  <2>4. NothingFails'
    BY <2>1 DEF VouchInv, NothingFails, history
  <2>5. WhenFormatting'
    <3> SUFFICES ASSUME node = "format", Unset \cap torn # {} PROVE ~HasMagic'
      BY <2>1 DEF VouchInv, WhenFormatting, history
    <3>1. PICK p \in Unset \cap torn : TRUE
      OBVIOUS
    <3>2. PICK j \in 1 .. Len(writes) : \A i \in 1 .. j : Harmless(writes[i])
      BY <3>1 DEF VouchInv, WhenFormatting
    <3>3. MemoryOK /\ MemoryOK'
      BY DEF StoreInv
    <3>4. 1 \in 1 .. j /\ Head(writes) = writes[1] /\ Head(writes) \in Writes
      BY <2>1, <3>3, HeadWrite
    <3>5. Harmless(Head(writes))
      BY <3>2, <3>4
    <3>6. page_part(Head(writes)) \in 1 .. page_part(Head(writes))
          /\ page_part(Head(writes)) \in 0 .. page_part(Head(writes))
      BY <3>4, PagePart
    <3>7. eeprom' = Programmed(Head(writes), page_part(Head(writes)))
      BY <1>5 DEF SendPage
    <3>8. CASE ~HasMagic
      BY <2>1, <3>3, <3>5, <3>6, <3>7, <3>8, HarmlessSent
    <3>9. CASE Untouched
      BY <3>3, <3>6, <3>7, <3>9, FirstPageSent DEF Untouched
    <3> QED
      BY <3>1, <3>8, <3>9 DEF VouchInv, WhenFormatting
  <2> QED
    BY <2>2, <2>3, <2>4, <2>5 DEF VouchInv
<1>6. CASE WriteCycleEnds
  BY <1>6, VouchUnchanged DEF WriteCycleEnds
<1>7. CASE AckPoll
  BY <1>7, VouchAckPoll
<1>8. CASE WriteFails
  BY <1>8 DEF WriteFails
<1>9. ASSUME NEW p \in ReadParams, ReadLength(p) PROVE VouchInv'
  BY <1>9, VouchUnchanged DEF ReadLength, memory
<1>10. CASE ReadData \/ ReadEnd
  BY <1>10, VouchUnchanged DEF ReadData, ReadEnd, memory
<1>11. CASE Reset
  <2>1. Vouches'
    BY <1>11, VouchSent
  <2>2. NothingFails' /\ WhenReady' /\ WhenFormatting'
    BY <1>11, UnsetParams DEF Reset, VouchInv, NothingFails, WhenReady, WhenFormatting
  <2> QED
    BY <2>1, <2>2 DEF VouchInv
<1>12. CASE UNCHANGED configVars
  BY <1>12, VouchUnchanged DEF configVars, memory
<1> QED
  BY <1>1, <1>2, <1>3, <1>4, <1>5, <1>6, <1>7, <1>8, <1>9, <1>10, <1>11, <1>12
     DEF Next, Writer

(* Behind a valid magic every parameter that no client sets has the value  *)
(* config_init gives it, whenever the node was reset and reads failed: the *)
(* magic is the first to go and, but for the version, the last to come.    *)
THEOREM MagicVouches ==
  ASSUME ~WriteFaults
  PROVE  Spec => []MagicMeansDefaults
<1>1. Init => VouchInv
  BY VouchInit
<1>2. StoreInv /\ StoreInv' /\ VouchInv /\ [Next]_configVars => VouchInv'
  BY VouchStep
<1>3. VouchInv => MagicMeansDefaults
  <2> SUFFICES ASSUME VouchInv, HasMagic, NEW p \in Unset PROVE Stored(p) = Default[p]
    BY DEF MagicMeansDefaults, Unset
  <2>1. HasDefault(p)
    BY DEF VouchInv, Vouches
  <2>2. p \in Params /\ Default[p] \in Seq(Byte) /\ Len(Default[p]) <= ParamSize[p]
    BY UnsetParams, DefaultValues
  <2> QED
    BY <2>1, <2>2, StoredValue DEF HasDefault
<1> QED
  BY <1>1, <1>2, <1>3, StoreInvariant, PTL DEF Spec

-----------------------------------------------------------------------------
(* What a thread reads while another one sets.  Of a parameter that is not *)
(* set as a whole the new length and the old data, or the other way round, *)
(* can be neither value; and a write that fails may stop inside the data.  *)

(* What a thread may find in parameter p now. *)
Current(p) == before[p] \cup {written[p]}

NoneOrAll(p, v) == v = << >> \/ Full(p, v)

(* The length is that of one current value, the data are those of one.     *)
Shows(p) ==
  /\ \E v \in Current(p) : NoneOrAll(p, v) /\ eeprom[get_param_offset[p]] = Len(v)
  /\ \E v \in Current(p) : \A i \in 1 .. ParamSize[p] :
       eeprom[get_param_offset[p] + i] = uint(p, v)[i]

(* What is still to be written at it are the length and all of the data.   *)
Unbroken(p) ==
  \A k \in 1 .. Len(writes) : \A a \in Area(p) : Covers(writes[k], a) =>
    /\ Full(p, written[p])
    /\ writes[k] \in {Write(get_param_offset[p], <<Len(written[p])>>, {}),
                      Write(get_param_offset[p] + 1, written[p], {p})}

Atomic == \A p \in ReadParams \ torn : OnOnePage(p) => Shows(p) /\ Unbroken(p)

Reading ==
  /\ reader = [at |-> reader.at, param |-> reader.param, length |-> reader.length,
               value |-> reader.value, ok |-> reader.ok, seen |-> reader.seen,
               settled |-> reader.settled]
  /\ reader.at \in {"data", "end"} /\ reader.param \in ReadParams
  /\ node \in {"ready", "absent"}
  /\ reader.settled /\ OnOnePage(reader.param) =>
       /\ reader.at = "data" =>
            /\ reader.param \notin torn /\ Current(reader.param) \subseteq reader.seen
            /\ \E v \in reader.seen : NoneOrAll(reader.param, v) /\ reader.length = Len(v)
       /\ reader.at = "end" /\ reader.ok =>
            reader.value \in {uint(reader.param, v) : v \in reader.seen}

AtomicInv == Atomic /\ (reader = NoRead \/ Reading)

WholeReads == \A p \in ReadParams : Whole(p)

(* The parameters that are read, and all of their bytes are known. *)
LEMMA ReadParamsAre ==
  ASSUME WholeReads, NEW p \in ReadParams
  PROVE  /\ p \in Params /\ Whole(p) /\ get_param_offset[p] \in Nat /\ ParamSize[p] \in Nat \ {0}
         /\ Area(p) = get_param_offset[p] .. get_param_offset[p] + ParamSize[p]
         /\ Area(p) \subseteq Address
         /\ \A v : Cells(p, v) = Area(p)
<1>1. p \in Params /\ Whole(p)
  BY ConfigAssumption DEF WholeReads
<1> QED
  BY <1>1, Layout DEF Cells, Area

(* The word that a value is read into, byte by byte. *)
LEMMA UintIs ==
  ASSUME NEW p, NEW v
  PROVE  /\ uint(p, v) = [i \in 1 .. ParamSize[p] |-> uint(p, v)[i]]
         /\ \A i \in 1 .. ParamSize[p] : uint(p, v)[i] = IF i <= Len(v) THEN v[i] ELSE 0
BY DEF uint

SettledShow == \A p \in ReadParams \ (torn \cup UnderWay) : Shows(p) /\ Unbroken(p)

(* A settled parameter shows its value. *)
LEMMA SettledShows ==
  ASSUME WholeReads
  PROVE  StoreInv => SettledShow
<1> SUFFICES ASSUME StoreInv, NEW p \in ReadParams, p \notin torn \cup UnderWay
             PROVE  Shows(p) /\ Unbroken(p)
  BY DEF SettledShow
<1> DEFINE v == written[p]
<1>1. PICK offset \in Nat, size \in Nat \ {0} :
        /\ offset = get_param_offset[p] /\ size = ParamSize[p]
        /\ Area(p) = offset .. offset + size /\ Cells(p, v) = Area(p) /\ p \in Params /\ Whole(p)
  BY ReadParamsAre
<1>2. \A a \in Area(p) : Leads(0, a, Content(p, v, a))
  BY <1>1 DEF StoreInv, Settled
<1>3. \A a \in Area(p) : eeprom[a] = Content(p, v, a)
                         /\ \A k \in 1 .. Len(writes) : ~Covers(writes[k], a)
  BY <1>2 DEF Leads
<1>4. v \in Current(p) /\ NoneOrAll(p, v) /\ v \in Seq(Byte)
  BY <1>1 DEF StoreInv, HistoryOK, Current, NoneOrAll
<1> HIDE DEF v
<1>5. eeprom[offset] = Len(v)
  BY <1>1, <1>3 DEF Content
<1>6. ASSUME NEW i \in 1 .. size PROVE eeprom[offset + i] = uint(p, v)[i]
  <2>1. eeprom[offset + i] = IF i <= Len(v) THEN v[i] ELSE 0
    BY <1>1, <1>3, SMTT(30) DEF Content
  <2> QED
    BY <1>1, <2>1, UintIs
<1> QED
  BY <1>1, <1>3, <1>4, <1>5, <1>6 DEF Shows, Unbroken

(* The same of the next state. *)
LEMMA SettledShowsNext ==
  ASSUME WholeReads
  PROVE  StoreInv' => SettledShow'
BY SettledShows, PTL

(* Division by a positive number, with the multiple as a number. *)
LEMMA Division ==
  ASSUME NEW x \in Nat, NEW n \in Nat, n > 0
  PROVE  \E m \in Nat : m = n * (x \div n) /\ x - m \in 0 .. n - 1 /\ x % n = x - m
<1>1. PICK d \in Nat : d = x \div n
  OBVIOUS
<1>2. n * d <= x /\ x - n * d \in 0 .. n - 1 /\ n * d \in Nat
  BY <1>1
<1>3. x % n = x - n * d
  BY <1>1, <1>2
<1> QED
  BY <1>1, <1>2, <1>3

(* Data on one page are sent at once. *)
LEMMA OnePage ==
  ASSUME WholeReads, NEW p \in ReadParams, OnOnePage(p),
         NEW in \in Seq(Nat), Len(in) = ParamSize[p], NEW ends
  PROVE  page_part(Write(get_param_offset[p] + 1, in, ends)) = Len(in)
<1>1. PICK offset \in Nat, size \in Nat \ {0}, page \in Nat \ {0} :
        /\ offset = get_param_offset[p] /\ size = ParamSize[p] /\ page = EEPROM_PAGE_SIZE
        /\ (offset + 1) \div page = (offset + size) \div page
  BY ReadParamsAre, ConfigAssumption DEF OnOnePage
<1>2. PICK first \in Nat, last \in Nat : first = offset + 1 /\ last = offset + size
  BY <1>1
<1>3. page \in Nat /\ page > 0
  OBVIOUS
<1>4. PICK m \in Nat :
        m = page * (first \div page) /\ first - m \in 0 .. page - 1 /\ first % page = first - m
  BY <1>3, Division
<1>5. last - m \in 0 .. page - 1
  <2>1. \E k \in Nat : k = page * (last \div page) /\ last - k \in 0 .. page - 1
    BY <1>3, Division
  <2>2. last \div page = first \div page
    BY <1>1, <1>2
  <2> QED
    BY <1>4, <2>1, <2>2, Zenon
<1>6. PICK r \in 0 .. page - 1 : r = first - m /\ r = (offset + 1) % page
  BY <1>2, <1>4
<1>7. size <= page - r
  BY <1>2, <1>5, <1>6
<1>8. r = (offset + 1) % EEPROM_PAGE_SIZE
  BY <1>1, <1>6
<1>9. page_part(Write(offset + 1, in, ends)) =
        IF page - r < Len(in) THEN page - r ELSE Len(in)
  BY <1>1, <1>8 DEF page_part, Write
<1> QED
  BY <1>1, <1>7, <1>9

(* A write at an unbroken parameter is sent as a whole. *)
LEMMA UnbrokenPart ==
  ASSUME WholeReads, MemoryOK, HistoryOK, NEW p \in ReadParams, OnOnePage(p), Unbroken(p),
         writes # << >>, NEW a \in Area(p), Covers(Head(writes), a)
  PROVE  /\ page_part(Head(writes)) = Len(Head(writes).in)
         /\ Full(p, written[p]) /\ written[p] \in Seq(Nat)
         /\ Head(writes) \in {Write(get_param_offset[p], <<Len(written[p])>>, {}),
                              Write(get_param_offset[p] + 1, written[p], {p})}
<1>1. /\ Head(writes) = writes[1] /\ 1 \in 1 .. Len(writes) /\ Head(writes) \in Writes
  BY HeadWrite
<1>2. /\ Full(p, written[p])
      /\ Head(writes) \in {Write(get_param_offset[p], <<Len(written[p])>>, {}),
                           Write(get_param_offset[p] + 1, written[p], {p})}
  BY <1>1 DEF Unbroken
<1>3. written[p] \in Seq(Nat)
  <2>1. written[p] \in Seq(Byte) /\ Byte \subseteq Nat
    BY ReadParamsAre, ConfigAssumption DEF HistoryOK
  <2> QED
    BY <2>1, SeqMonotonic
<1>4. CASE Head(writes) = Write(get_param_offset[p], <<Len(written[p])>>, {})
  <2>1. Len(Head(writes).in) = 1
    BY <1>4 DEF Write
  <2>2. page_part(Head(writes)) \in 1 .. Len(Head(writes).in)
    BY <1>1, PagePart
  <2>3. \A m : m \in 1 .. 1 => m = 1
    OBVIOUS
  <2>4. page_part(Head(writes)) = Len(Head(writes).in)
    BY <2>1, <2>2, <2>3, Zenon
  <2> QED
    BY <1>2, <1>3, <2>4, Zenon
<1>5. CASE Head(writes) = Write(get_param_offset[p] + 1, written[p], {p})
  <2>1. Head(writes).in = written[p]
    BY <1>5 DEF Write
  <2> QED
    BY <1>2, <1>3, <1>5, <2>1, OnePage DEF Full
<1> QED
  BY <1>2, <1>4, <1>5

(* A page that is sent is none of it, its length or all of its data. *)
LEMMA AtomicSent ==
  ASSUME WholeReads, StoreInv, NEW p \in ReadParams, OnOnePage(p), Shows(p), Unbroken(p),
         SendPage
  PROVE  Shows(p)' /\ Unbroken(p)'
<1> DEFINE w == Head(writes)
           v == written[p]
<1>1. /\ MemoryOK /\ HistoryOK /\ writes # << >> /\ w \in Writes
      /\ writes' = writes /\ written' = written /\ before' = before
      /\ eeprom' = Programmed(w, page_part(w))
  BY HeadWrite DEF StoreInv, SendPage, history
<1>2. Unbroken(p)'
  BY <1>1 DEF Unbroken
<1>3. PICK offset \in Nat, size \in Nat \ {0} :
        /\ offset = get_param_offset[p] /\ size = ParamSize[p]
        /\ Area(p) = offset .. offset + size /\ Area(p) \subseteq Address /\ p \in Params
  BY ReadParamsAre
<1>4. /\ page_part(w) \in 0 .. page_part(w) /\ page_part(w) \in Int
      /\ page_part(w) <= Len(w.in) /\ Len(w.in) \in Int /\ w.adr \in Int
  BY <1>1, PagePart, WriteNumbers, SMTT(30)
<1>5. \A a \in Address : eeprom'[a] = IF a \in w.adr .. w.adr + page_part(w) - 1
                                      THEN Value(w, a) ELSE eeprom[a]
  BY <1>1, <1>4, ProgrammedBytes DEF MemoryOK
<1>6. Current(p)' = Current(p) /\ v \in Current(p)
  BY <1>1 DEF Current
<1>7. CASE \A a \in Area(p) : ~Covers(w, a)
  <2>1. \A a \in Area(p) : a \in Int
    BY <1>3
  <2>2. \A a \in Area(p) : a \notin w.adr .. w.adr + page_part(w) - 1
    BY <1>4, <1>7, <2>1 DEF Covers
  <2>3. \A a \in Area(p) : eeprom'[a] = eeprom[a]
    BY <1>3, <1>5, <2>2
  <2>4. /\ eeprom'[offset] = eeprom[offset]
        /\ \A i \in 1 .. size : eeprom'[offset + i] = eeprom[offset + i]
    BY <1>3, <2>3
  <2>5. PICK x \in Current(p) : NoneOrAll(p, x) /\ eeprom[offset] = Len(x)
    BY <1>3 DEF Shows
  <2>6. PICK y \in Current(p) : \A i \in 1 .. size : eeprom[offset + i] = uint(p, y)[i]
    BY <1>3 DEF Shows
  <2>7. /\ x \in Current(p)' /\ NoneOrAll(p, x) /\ eeprom'[offset] = Len(x)
        /\ y \in Current(p)' /\ \A i \in 1 .. size : eeprom'[offset + i] = uint(p, y)[i]
    BY <1>6, <2>4, <2>5, <2>6
  <2> HIDE DEF w, v
  <2>8. Shows(p)'
    BY <1>3, <2>7, Zenon DEF Shows, NoneOrAll, Full, uint
  <2> QED
    BY <1>2, <2>8
<1>8. ASSUME NEW a \in Area(p), Covers(w, a)
      PROVE  Shows(p)'
  <2>1. /\ page_part(w) = Len(w.in) /\ Full(p, v) /\ v \in Seq(Nat)
        /\ w \in {Write(offset, <<Len(v)>>, {}), Write(offset + 1, v, {p})}
    BY <1>1, <1>3, <1>8, UnbrokenPart
  <2> HIDE DEF v
  <2>2. CASE w = Write(offset, <<Len(v)>>, {})
    <3>1. w.adr = offset /\ Len(w.in) = 1 /\ Value(w, offset) = Len(v)
      BY <2>2 DEF Write, Value
    <3>2. eeprom'[offset] = Len(v)
      <4>1. offset \in Address /\ offset \in offset .. offset + 1 - 1
        BY <1>3
      <4> QED
        BY <1>5, <2>1, <3>1, <4>1
    <3>3. \A i \in 1 .. size : eeprom'[offset + i] = eeprom[offset + i]
      <4> TAKE i \in 1 .. size
      <4>1. offset + i \in Address /\ offset + i \notin offset .. offset + 1 - 1
        BY <1>3
      <4> QED
        BY <1>5, <2>1, <3>1, <4>1
    <3> QED
      BY <1>3, <1>6, <2>1, <3>2, <3>3 DEF Shows, NoneOrAll, uint
  <2>3. CASE w = Write(offset + 1, v, {p})
    <3>1. /\ w.adr = offset + 1 /\ w.in = v /\ Len(v) = size
          /\ \A i \in 1 .. size : Value(w, offset + i) = v[i]
      <4>1. w.adr = offset + 1 /\ w.in = v /\ Len(v) = size
        BY <1>3, <2>1, <2>3 DEF Write, Full
      <4>2. ASSUME NEW i \in 1 .. size PROVE Value(w, offset + i) = v[i]
        <5>1. offset + i - (offset + 1) + 1 = i
          OBVIOUS
        <5> QED
          BY <4>1, <5>1 DEF Value
      <4> QED
        BY <4>1, <4>2
    <3>2. \A i \in 1 .. size : eeprom'[offset + i] = v[i]
      <4> TAKE i \in 1 .. size
      <4>1. /\ offset + i \in Address
            /\ offset + i \in offset + 1 .. offset + 1 + size - 1
        BY <1>3
      <4> QED
        BY <1>5, <2>1, <3>1, <4>1
    <3>3. eeprom'[offset] = eeprom[offset]
      <4>1. offset \in Address /\ offset \notin offset + 1 .. offset + 1 + size - 1
        BY <1>3
      <4> QED
        BY <1>5, <2>1, <3>1, <4>1
    <3>4. \A i \in 1 .. size : uint(p, v)[i] = v[i]
      BY <1>3, <3>1, UintIs
    <3>5. \E u \in Current(p) : NoneOrAll(p, u) /\ eeprom'[offset] = Len(u)
      BY <1>3, <3>3 DEF Shows
    <3>6. \E u \in Current(p) : \A i \in 1 .. size : eeprom'[offset + i] = uint(p, u)[i]
      BY <1>6, <3>2, <3>4 DEF v
    <3> QED
      BY <1>3, <1>6, <3>5, <3>6 DEF Shows, uint
  <2> QED
    BY <2>1, <2>2, <2>3
<1> QED
  BY <1>2, <1>7, <1>8

(* What is left of the writes when a page is through. *)
LEMMA AtomicAcked ==
  ASSUME WholeReads, StoreInv, NEW p \in ReadParams, OnOnePage(p), Unbroken(p), AckPoll
  PROVE  Unbroken(p)'
<1> DEFINE w == Head(writes)
<1>1. /\ MemoryOK /\ HistoryOK /\ writes # << >> /\ written' = written
      /\ w \in Writes /\ w = writes[1] /\ Len(writes) \in Nat \ {0}
      /\ Len(Tail(writes)) = Len(writes) - 1
      /\ \A i \in 1 .. Len(writes) - 1 : Tail(writes)[i] = writes[i + 1]
  BY HeadWrite DEF StoreInv, AckPoll, PageSent
<1>2. SubSeq(w.in, page_part(w) + 1, Len(w.in)) = << >> <=> page_part(w) = Len(w.in)
  BY <1>1, RestWrite
<1> SUFFICES ASSUME NEW k \in 1 .. Len(writes'), NEW a \in Area(p), Covers(writes'[k], a)
             PROVE  \E j \in 1 .. Len(writes) : writes'[k] = writes[j]
  BY <1>1 DEF Unbroken
<1>3. CASE page_part(w) # Len(w.in)
  <2>1. writes' = <<RestOf(w)>> \o Tail(writes)
    BY <1>2, <1>3 DEF AckPoll, RestOf
  <2>2. RestOf(w) \in Writes /\ \A b \in Int : Covers(RestOf(w), b) => Covers(w, b)
    BY <1>1, <1>3, RestWrite
  <2>3. /\ Len(writes') = Len(writes) /\ writes'[1] = RestOf(w)
        /\ \A i \in 2 .. Len(writes) : writes'[i] = writes[i]
    BY <1>1, <2>1, <2>2, SeqNewHead DEF MemoryOK
  <2>4. k # 1
    <3> SUFFICES ASSUME k = 1 PROVE FALSE
      OBVIOUS
    <3>1. a \in Int
      BY ReadParamsAre DEF Address
    <3>2. Covers(w, a)
      BY <2>2, <2>3, <3>1
    <3> QED
      BY <1>1, <1>3, <3>2, UnbrokenPart
  <2>5. k \in 2 .. Len(writes) /\ k \in 1 .. Len(writes)
    BY <1>1, <2>3, <2>4
  <2> QED
    BY <2>3, <2>5
<1>4. CASE page_part(w) = Len(w.in)
  <2>1. writes' = Tail(writes)
    BY <1>2, <1>4 DEF AckPoll
  <2>2. k \in 1 .. Len(writes) - 1 /\ k + 1 \in 1 .. Len(writes)
    BY <1>1, <2>1
  <2> QED
    BY <1>1, <2>1, <2>2
<1> QED
  BY <1>3, <1>4

(* What a set adds: a value that may be found, and the two writes of it. *)
LEMMA AtomicSet ==
  ASSUME WholeReads, StoreInv, NEW p \in ReadParams, Shows(p), Unbroken(p),
         NEW q \in Params, NEW v \in Seq(Byte), <<q, v>> \in Settings, SetParam(q, v)
  PROVE  /\ Shows(p)' /\ Unbroken(p)'
         /\ Current(p)' = IF p = q THEN Current(p) \cup {taken(q, v)} ELSE Current(p)
<1>1. /\ writes' = config_set(q, v) /\ eeprom' = eeprom
      /\ written' = [written EXCEPT ![q] = taken(q, v)]
      /\ before' = [before EXCEPT ![q] = @ \cup {written[q]}]
  BY DEF SetParam, memory
<1>2. p \in Params /\ Whole(p)
  BY ReadParamsAre
<1>3. /\ written' \in [Params -> Seq(Byte)]
      /\ written'[p] = IF p = q THEN taken(q, v) ELSE written[p]
      /\ before'[p] = IF p = q THEN before[p] \cup {written[p]} ELSE before[p]
  BY <1>1, <1>2, TakenPart DEF StoreInv, HistoryOK
<1>4. Current(p)' = IF p = q THEN Current(p) \cup {taken(q, v)} ELSE Current(p)
  BY <1>3 DEF Current
<1>5. Shows(p)'
  <2>1. Current(p) \subseteq Current(p)'
    BY <1>4
  <2> QED
    BY <1>1, <2>1 DEF Shows, uint
<1>6. Unbroken(p)'
  <2>1. CASE p # q
    <3>1. Area(p) \cap Area(q) = {} /\ \A a \in Area(p) : a \in Int
      BY <1>2, <2>1, Layout DEF Address
    <3> QED
      BY <1>1, <3>1, SetWrites DEF Unbroken
  <2>2. CASE p = q
    <3>1. Full(p, taken(p, v)) /\ taken(p, v) # << >>
      <4>1. Len(v) >= ParamSize[p]
        BY <1>2, <2>2 DEF Whole
      <4>2. Len(taken(p, v)) = ParamSize[p] /\ ParamSize[p] \in Nat \ {0}
        BY <2>2, <4>1, TakenPart, Layout
      <4>3. Len(taken(p, v)) # 0
        BY <4>2
      <4> QED
        BY <4>2, <4>3 DEF Full
    <3>2. /\ Len(writes') = 2
          /\ writes'[1] = Write(get_param_offset[p], <<Len(taken(p, v))>>, {})
          /\ writes'[2] = Write(get_param_offset[p] + 1, taken(p, v), {p})
      BY <1>1, <2>2, <3>1, SetWrites
    <3>3. \A k \in 1 .. 2 : k = 1 \/ k = 2
      OBVIOUS
    <3>4. written'[p] = taken(p, v)
      BY <1>3, <2>2
    <3> HIDE DEF Write
    <3> QED
      BY <3>1, <3>2, <3>3, <3>4 DEF Unbroken
  <2> QED
    BY <2>1, <2>2
<1> QED
  BY <1>4, <1>5, <1>6

(* Every step keeps the parameters that are not torn atomic. *)
LEMMA AtomicStep ==
  ASSUME ~WriteFaults, WholeReads, StoreInv, StoreInv', ~failed, Atomic, [Next]_configVars
  PROVE  Atomic'
<1> SUFFICES ASSUME NEW p \in ReadParams, p \notin torn', OnOnePage(p)
             PROVE  Shows(p)' /\ Unbroken(p)'
  BY DEF Atomic
<1>1. p \notin UnderWay' => Shows(p)' /\ Unbroken(p)'
  BY SettledShowsNext DEF SettledShow
<1> SUFFICES ASSUME p \in UnderWay' PROVE Shows(p)' /\ Unbroken(p)'
  BY <1>1
<1>2. p \in Params /\ before'[p] # {}
  BY ReadParamsAre DEF UnderWay
<1>3. p \notin torn => Shows(p) /\ Unbroken(p)
  BY DEF Atomic
<1>4. CASE UNCHANGED <<eeprom, writes, history>>
  BY <1>3, <1>4 DEF Shows, Unbroken, Current, uint, history
<1>5. CASE config_init
  <2>1. CASE node' = "format"
    BY <1>2, <1>5, <2>1 DEF config_init
  <2>2. CASE node' # "format"
    <3>1. UNCHANGED <<eeprom, writes, history>>
      BY <1>5, <2>2 DEF config_init, memory
    <3> QED
      BY <1>4, <3>1
  <2> QED
    BY <2>1, <2>2
<1>6. ASSUME NEW s \in Settings, SetParam(s[1], s[2]) PROVE Shows(p)' /\ Unbroken(p)'
  <2>1. PICK q \in Params, v \in Seq(Byte) : s = <<q, v>>
    BY ConfigAssumption
  <2>2. <<q, v>> \in Settings /\ SetParam(q, v) /\ torn' = torn
    BY <1>6, <2>1 DEF SetParam
  <2> QED
    BY <1>3, <2>2, AtomicSet
<1>7. CASE SendPage
  BY <1>3, <1>7, AtomicSent DEF SendPage, history
<1>8. CASE AckPoll
  <2>1. eeprom' = eeprom /\ written' = written
    BY <1>8 DEF AckPoll
  <2>2. \/ torn' = torn /\ before' = before
        \/ /\ torn' = torn \ Head(writes).ends
           /\ before' = [q \in Params |-> IF q \in Head(writes).ends THEN {} ELSE before[q]]
    BY <1>8 DEF AckPoll
  <2>3. p \notin torn /\ before'[p] = before[p]
    BY <1>2, <2>2
  <2> QED
    BY <1>3, <1>8, <2>1, <2>3, AtomicAcked DEF Shows, Current, uint
<1>9. CASE Reset
  BY <1>2, <1>9 DEF Reset
<1> QED
  <2>1. InitFails \/ FormatDone \/ WriteCycleEnds \/ ReadData \/ ReadEnd
          \/ (\E q \in ReadParams : ReadLength(q)) \/ UNCHANGED configVars
        => UNCHANGED <<eeprom, writes, history>>
    BY DEF InitFails, FormatDone, WriteCycleEnds, ReadData, ReadEnd, ReadLength, configVars, memory
  <2>2. ~WriteFails
    BY DEF WriteFails
  <2> QED
    BY <1>4, <1>5, <1>6, <1>7, <1>8, <1>9, <2>1, <2>2 DEF Next, Writer

(* The data that are read are those of a value that was current meanwhile. *)
LEMMA ReadValue ==
  ASSUME WholeReads, NEW p \in ReadParams, Shows(p), NEW seen, Current(p) \subseteq seen,
         NEW v \in seen, NoneOrAll(p, v)
  PROVE  uint(p, Data(p, Len(v))) \in {uint(p, u) : u \in seen}
<1>1. PICK offset \in Nat, size \in Nat \ {0} :
        offset = get_param_offset[p] /\ size = ParamSize[p]
  BY ReadParamsAre
<1>2. CASE v = << >>
  <2>1. Len(v) = 0
    BY <1>2
  <2>2. Data(p, 0) = << >>
    BY DEF Data
  <2> QED
    BY <1>2, <2>1, <2>2
<1>3. CASE Full(p, v)
  <2> DEFINE data == [i \in 1 .. size |-> eeprom[offset + i]]
  <2>1. Data(p, Len(v)) = data /\ Len(data) = size
    BY <1>1, <1>3 DEF Data, Full
  <2>2. PICK u \in seen : \A i \in 1 .. size : eeprom[offset + i] = uint(p, u)[i]
    BY <1>1 DEF Shows
  <2>3. \A i \in 1 .. size : uint(p, data)[i] = uint(p, u)[i]
    <3> TAKE i \in 1 .. size
    <3>1. uint(p, data)[i] = IF i <= Len(data) THEN data[i] ELSE 0
      BY <1>1, UintIs
    <3>2. data[i] = uint(p, u)[i]
      BY <2>2
    <3> HIDE DEF data
    <3> QED
      BY <2>1, <3>1, <3>2
  <2> HIDE DEF data
  <2>4. uint(p, data) = uint(p, u)
    <3>1. /\ uint(p, data) = [i \in 1 .. size |-> uint(p, data)[i]]
          /\ uint(p, u) = [i \in 1 .. size |-> uint(p, u)[i]]
      BY <1>1, UintIs
    <3> DEFINE x == uint(p, data)
               y == uint(p, u)
    <3>2. x = [i \in 1 .. size |-> x[i]] /\ y = [i \in 1 .. size |-> y[i]]
          /\ \A i \in 1 .. size : x[i] = y[i]
      BY <2>3, <3>1
    <3> HIDE DEF x, y
    <3>3. x = y
      BY <3>2
    <3> QED
      BY <3>3 DEF x, y
  <2> QED
    BY <2>1, <2>4
<1> QED
  BY <1>2, <1>3 DEF NoneOrAll

(* A reader whom nothing of what it has to do with happens. *)
LEMMA ReaderStays ==
  ASSUME reader = NoRead \/ Reading, reader' = reader, node' = node, torn' \subseteq torn,
         \A p \in ReadParams : Current(p)' \subseteq Current(p)
  PROVE  (reader = NoRead \/ Reading)'
<1>1. CASE reader = NoRead
  BY <1>1 DEF NoRead
<1>2. CASE Reading
  <2>1. reader.param \in ReadParams
    BY <1>2 DEF Reading
  <2>2. Current(reader.param)' \subseteq Current(reader.param)
    BY <2>1
  <2> QED
    BY <1>2, <2>2 DEF Reading
<1> QED
  BY <1>1, <1>2

(* Every step keeps what the reader has seen in line with what it reads. *)
LEMMA ReaderStep ==
  ASSUME ~WriteFaults, WholeReads, StoreInv, ~failed, AtomicInv, [Next]_configVars
  PROVE  (reader = NoRead \/ Reading)'
<1>1. reader = NoRead \/ Reading
  BY DEF AtomicInv
<1>2. \A p \in ReadParams : p \in Params
  BY ReadParamsAre
<1>3. CASE UNCHANGED <<reader, node, history>>
  BY <1>1, <1>3, ReaderStays DEF Current, history
<1>4. CASE InitFails \/ config_init \/ FormatDone
  <2>1. node \in {"boot", "format"} /\ reader' = reader
    BY <1>4 DEF InitFails, config_init, FormatDone
  <2>2. reader = NoRead
    BY <1>1, <2>1 DEF Reading
  <2> QED
    BY <2>1, <2>2 DEF NoRead
<1>5. ASSUME NEW s \in Settings, SetParam(s[1], s[2]) PROVE (reader = NoRead \/ Reading)'
  <2>1. PICK q \in Params, v \in Seq(Byte) : s = <<q, v>>
    BY ConfigAssumption
  <2>2. <<q, v>> \in Settings /\ SetParam(q, v)
    BY <1>5, <2>1
  <2>3. CASE reader = NoRead
    BY <2>2, <2>3 DEF SetParam, NoRead
  <2>4. CASE Reading
    <3> DEFINE new == taken(q, v)
    <3>1. PICK p \in ReadParams : p = reader.param
      BY <2>4 DEF Reading
    <3>2. /\ node' = node /\ torn' = torn
          /\ Current(p)' = IF p = q THEN Current(p) \cup {new} ELSE Current(p)
      <4>1. p \in Params
        BY <1>2
      <4>2. /\ written' = [written EXCEPT ![q] = new]
            /\ before' = [before EXCEPT ![q] = @ \cup {written[q]}]
            /\ node' = node /\ torn' = torn
        BY <2>2 DEF SetParam
      <4>3. written \in [Params -> Seq(Byte)] /\ before \in [Params -> SUBSET Seq(Byte)]
        BY DEF StoreInv, HistoryOK
      <4>4. /\ written'[p] = IF p = q THEN new ELSE written[p]
            /\ before'[p] = IF p = q THEN before[p] \cup {written[p]} ELSE before[p]
        BY <4>1, <4>2, <4>3
      <4> HIDE DEF new
      <4> QED
        BY <4>1, <4>2, <4>4 DEF Current
    <3>3. reader # NoRead
      BY <2>4 DEF Reading, NoRead
    <3>4. reader' = IF p = q THEN [reader EXCEPT !.seen = @ \cup {new}] ELSE reader
      BY <2>2, <3>1, <3>3 DEF SetParam
    <3>5. reader' = [at |-> reader.at, param |-> p, length |-> reader.length,
                     value |-> reader.value, ok |-> reader.ok,
                     seen |-> IF p = q THEN reader.seen \cup {new} ELSE reader.seen,
                     settled |-> reader.settled]
      BY <2>4, <3>1, <3>4 DEF Reading
    <3>6. Reading'
      <4>1. /\ reader' = [at |-> reader'.at, param |-> reader'.param, length |-> reader'.length,
                          value |-> reader'.value, ok |-> reader'.ok, seen |-> reader'.seen,
                          settled |-> reader'.settled]
            /\ reader'.at = reader.at /\ reader'.param = p /\ reader'.length = reader.length
            /\ reader'.value = reader.value /\ reader'.ok = reader.ok
            /\ reader'.settled = reader.settled
            /\ reader'.seen = IF p = q THEN reader.seen \cup {new} ELSE reader.seen
        BY <3>5
      <4>2. Current(p) \subseteq reader.seen => Current(p)' \subseteq reader'.seen
        BY <3>2, <4>1
      <4>3. Current(reader.param)' = Current(p)'
        BY <4>1 DEF Current
      <4> QED
        BY <2>4, <3>1, <3>2, <4>1, <4>2, <4>3 DEF Reading
    <3> QED
      BY <3>6
  <2> QED
    BY <1>1, <2>3, <2>4
<1>6. CASE SendPage \/ WriteCycleEnds
  BY <1>3, <1>6 DEF SendPage, WriteCycleEnds
<1>7. CASE AckPoll
  <2>1. torn' \subseteq torn /\ node' = node /\ reader' = reader
        /\ \A p \in Params : before'[p] \subseteq before[p] /\ written' = written
    BY <1>7 DEF AckPoll
  <2> QED
    BY <1>1, <1>2, <2>1, ReaderStays DEF Current
<1>8. ASSUME NEW p \in ReadParams, ReadLength(p) PROVE (reader = NoRead \/ Reading)'
  <2> DEFINE begun == [at |-> "data", param |-> p, length |-> valid_length(p),
                       value |-> << >>, ok |-> TRUE, seen |-> Current(p),
                       settled |-> p \notin torn]
  <2>1. /\ node \in {"ready", "absent"} /\ node' = node /\ UNCHANGED history
        /\ \/ reader' = begun
           \/ reader' = [begun EXCEPT !.at = "end", !.value = uint(p, << >>), !.ok = FALSE]
    BY <1>8 DEF ReadLength, Current
  <2>2. CASE reader' = begun
    <3>1. reader'.settled /\ OnOnePage(p) =>
            p \notin torn /\ \E v \in Current(p) : NoneOrAll(p, v) /\ reader'.length = Len(v)
      <4> SUFFICES ASSUME p \notin torn, OnOnePage(p)
                   PROVE  \E v \in Current(p) : NoneOrAll(p, v) /\ valid_length(p) = Len(v)
        BY <2>2
      <4>1. PICK v \in Current(p) :
              NoneOrAll(p, v) /\ eeprom[get_param_offset[p]] = Len(v)
        BY DEF AtomicInv, Atomic, Shows
      <4>2. ParamSize[p] \in Nat
        BY ReadParamsAre
      <4>3. ~(Len(v) > ParamSize[p])
        BY <4>1, <4>2 DEF NoneOrAll, Full
      <4> QED
        BY <4>1, <4>3 DEF valid_length
    <3>2. /\ reader' = [at |-> reader'.at, param |-> reader'.param, length |-> reader'.length,
                        value |-> reader'.value, ok |-> reader'.ok, seen |-> reader'.seen,
                        settled |-> reader'.settled]
          /\ reader'.at = "data" /\ reader'.param = p /\ reader'.seen = Current(p)
      BY <2>2
    <3>3. Current(p)' = Current(p) /\ torn' = torn
      BY <2>1 DEF Current, history
    <3> HIDE DEF begun
    <3> QED
      BY <2>1, <3>1, <3>2, <3>3 DEF Reading
  <2>3. CASE reader' = [begun EXCEPT !.at = "end", !.value = uint(p, << >>), !.ok = FALSE]
    <3>1. /\ reader' = [at |-> reader'.at, param |-> reader'.param, length |-> reader'.length,
                        value |-> reader'.value, ok |-> reader'.ok, seen |-> reader'.seen,
                        settled |-> reader'.settled]
          /\ reader'.at = "end" /\ reader'.param = p /\ reader'.ok = FALSE
      BY <2>3
    <3> HIDE DEF begun
    <3> QED
      BY <2>1, <3>1 DEF Reading
  <2> QED
    BY <2>1, <2>2, <2>3
<1>9. CASE ReadData
  <2> DEFINE p == reader.param
  <2>1. reader.at = "data" /\ Reading
    BY <1>1, <1>9 DEF ReadData, NoRead
  <2>2. /\ node' = node /\ p \in ReadParams
        /\ \E x, ok : reader' = ReadResult(p, x, ok) /\ (ok => x = Data(p, reader.length))
    BY <1>9, <2>1 DEF ReadData, Reading
  <2>3. PICK x, ok : reader' = ReadResult(p, x, ok) /\ (ok => x = Data(p, reader.length))
    BY <2>2
  <2>4. reader' = [at |-> "end", param |-> p, length |-> reader.length,
                   value |-> uint(p, x), ok |-> ok, seen |-> reader.seen,
                   settled |-> reader.settled]
    BY <2>1, <2>3 DEF ReadResult, Reading
  <2>5. ASSUME ok, reader.settled, OnOnePage(p)
        PROVE  uint(p, x) \in {uint(p, v) : v \in reader.seen}
    <3>1. p \notin torn /\ Current(p) \subseteq reader.seen
      BY <2>1, <2>5 DEF Reading
    <3>2. PICK v \in reader.seen : NoneOrAll(p, v) /\ reader.length = Len(v)
      BY <2>1, <2>5 DEF Reading
    <3>3. Shows(p)
      BY <2>2, <2>5, <3>1 DEF AtomicInv, Atomic
    <3> QED
      BY <2>2, <2>3, <2>5, <3>1, <3>2, <3>3, ReadValue
  <2>6. Reading'
    <3>1. /\ reader' = [at |-> reader'.at, param |-> reader'.param, length |-> reader'.length,
                        value |-> reader'.value, ok |-> reader'.ok, seen |-> reader'.seen,
                        settled |-> reader'.settled]
          /\ reader'.at = "end" /\ reader'.param = p /\ reader'.ok = ok
          /\ reader'.value = uint(p, x) /\ reader'.seen = reader.seen
          /\ reader'.settled = reader.settled
      BY <2>4
    <3>2. node \in {"ready", "absent"}
      BY <2>1 DEF Reading
    <3> HIDE DEF p
    <3> QED
      BY <2>2, <2>5, <3>1, <3>2 DEF Reading
  <2> QED
    BY <2>6
<1>10. CASE ReadEnd \/ Reset
  BY <1>10 DEF ReadEnd, Reset, NoRead
<1> QED
  <2>1. UNCHANGED configVars => UNCHANGED <<reader, node, history>>
    BY DEF configVars
  <2>2. ~WriteFails
    BY DEF WriteFails
  <2> QED
    BY <1>3, <1>4, <1>5, <1>6, <1>7, <1>8, <1>9, <1>10, <2>1, <2>2 DEF Next, Writer

(* config_get_uint, between whose two transactions other threads set the   *)
(* parameter, gives a value that it had meanwhile, if it is on one page    *)
(* and always set as a whole.                                              *)
THEOREM ReadsAreAtomic ==
  ASSUME ~WriteFaults, \A p \in ReadParams : Whole(p)
  PROVE  Spec => []ReadIsAtomic
<1>1. WholeReads
  BY DEF WholeReads
<1>2. Init => VouchInv /\ AtomicInv
  BY VouchInit, ConfigAssumption DEF Init, AtomicInv, Atomic
<1>3. /\ StoreInv /\ StoreInv' /\ VouchInv /\ AtomicInv /\ [Next]_configVars
      => VouchInv' /\ AtomicInv'
  <2> SUFFICES ASSUME StoreInv, StoreInv', VouchInv, AtomicInv, [Next]_configVars
               PROVE  VouchInv' /\ AtomicInv'
    OBVIOUS
  <2>1. VouchInv' /\ ~failed
    BY VouchStep DEF VouchInv, NothingFails
  <2>2. Atomic'
    BY <1>1, <2>1, AtomicStep DEF AtomicInv
  <2>3. (reader = NoRead \/ Reading)'
    BY <1>1, <2>1, ReaderStep
  <2> QED
    BY <2>1, <2>2, <2>3 DEF AtomicInv
<1>4. AtomicInv => ReadIsAtomic
  BY DEF AtomicInv, Reading, ReadIsAtomic, NoRead
<1> QED
  BY <1>2, <1>3, <1>4, StoreInvariant, PTL DEF Spec

=============================================================================
