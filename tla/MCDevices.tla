----------------------------- MODULE MCDevices -----------------------------
(* A time of day with two hours in a range, and one over midnight; three   *)
(* parameters, one of each length and type a client can ask for.           *)
EXTENDS Devices

MCPriorities == 0 .. 2

MCRanges == {[start |-> [h |-> 1, m |-> 1], stop |-> [h |-> 3, m |-> 1]],
             [start |-> [h |-> 2, m |-> 1], stop |-> [h |-> 0, m |-> 2]]}

MCType   == <<"INT", "STRING", "FLOAT32">>
MCLength == <<1, 2, 2>>

MCValues(tag) ==
  CASE tag = 1 -> {<<1, 0, 0>>, <<0, 1, 0>>}
    [] tag = 2 -> {<<1, 1>>}
    [] tag = 4 -> {<<>>, <<1>>, <<1, 0, 1>>}
    [] OTHER   -> {<<>>}

MCRequests ==
  UNION {[short : {FALSE}, config_id : {1, 4}, unionTag : {tag}, value : MCValues(tag),
          name : {2, 3, UnknownName, NoName}] : tag \in 0 .. 5}
  \cup [short : {TRUE}, config_id : {1}, unionTag : {1}, value : {<<>>}, name : {NoName}]

=============================================================================
