----------------------------- MODULE BoilerPeers -----------------------------
(***************************************************************************)
(* The table a boiler keeps of the other boilers on the bus, and what it   *)
(* is for: the boiler with the lower priority leaves the excess power to   *)
(* the others.                                                             *)
(*                                                                         *)
(* Both handlers run in the receive thread, one after the other.  Ages are *)
(* in seconds; that of an entry is a difference of system times and is 0   *)
(* again after AGE_WRAP, those of the history are not told apart from      *)
(* OTHER_NODE_TIMEOUT on.  Entries are numbered from 1.                    *)
(***************************************************************************)
EXTENDS Integers

CONSTANTS
  MAX_OTHER_BOILER_NODES,     \* entries of the table (3)
  OTHER_NODE_TIMEOUT,         \* seconds (15)
  AGE_WRAP,                   \* seconds of 2^32 ticks (119 h)
  Nodes,                      \* node ids of the other boilers, none is 0
  Priorities                  \* what calculate_priority returns (0 .. 2)

ASSUME PeersAssumption ==
  /\ MAX_OTHER_BOILER_NODES \in Nat \ {0}
  /\ OTHER_NODE_TIMEOUT \in Nat \ {0}
  /\ AGE_WRAP \in Nat /\ AGE_WRAP > OTHER_NODE_TIMEOUT
  /\ 0 \notin Nodes
  /\ Priorities \subseteq Nat

VARIABLES
  other_boiler_status,    \* node_id, priority, and the age of last_update
  yields,                 \* get_target_power returned 0 for another boiler
  \* history
  latest,                 \* what each node last said, and its age
  said,                   \* age of each priority a node said
  lost,                   \* nodes whose last word was overwritten by another's
  unseen                  \* seconds get_target_power has not looked at an entry

historyVars == <<latest, said, lost>>
tableVars == <<other_boiler_status, unseen, yields>>
peerVars == <<tableVars, historyVars>>

Entry == 1 .. MAX_OTHER_BOILER_NODES
Age == 0 .. AGE_WRAP - 1
SaidAge == 0 .. OTHER_NODE_TIMEOUT
(* An entry that is not looked at for so long may look fresh again. *)
OVERLOOKED == AGE_WRAP - OTHER_NODE_TIMEOUT + 1
Unused == [node_id |-> 0, priority |-> 0, age |-> 0]

PeersTypeOK ==
  /\ other_boiler_status \in
       [Entry -> [node_id : Nodes, priority : Priorities, age : Age] \cup {Unused}]
  /\ yields \in BOOLEAN
  /\ latest \in [Nodes -> [priority : Priorities \cup {0}, age : SaidAge]]
  /\ said \in [Nodes -> [Priorities -> SaidAge]]
  /\ lost \subseteq Nodes
  /\ unseen \in [Entry -> 0 .. OVERLOOKED]

PeersInit ==
  /\ other_boiler_status = [i \in Entry |-> Unused]
  /\ yields = FALSE
  /\ latest = [n \in Nodes |-> [priority |-> 0, age |-> OTHER_NODE_TIMEOUT]]
  /\ said = [n \in Nodes |-> [p \in Priorities |-> OTHER_NODE_TIMEOUT]]
  /\ lost = {}
  /\ unseen = [i \in Entry |-> 0]

-----------------------------------------------------------------------------
(* on_boilerstatus_data *)

Fits(i, n) == other_boiler_status[i].node_id \in {n, 0}

(* get_other_boiler_entry: the first entry that is n's or unused; the      *)
(* first of all if there is none.                                          *)
is_other_boiler_entry(i, n) ==
  \/ Fits(i, n) /\ \A j \in Entry : j < i => ~Fits(j, n)
  \/ i = 1 /\ \A j \in Entry : ~Fits(j, n)

on_boilerstatus_data(n, p) ==
  \E i \in Entry :
    /\ is_other_boiler_entry(i, n)
    /\ other_boiler_status' = [other_boiler_status EXCEPT
                                 ![i] = [node_id |-> n, priority |-> p, age |-> 0]]
    /\ lost' = (lost \ {n}) \cup ({other_boiler_status[i].node_id} \ {n, 0})
    /\ latest' = [latest EXCEPT ![n] = [priority |-> p, age |-> 0]]
    /\ said' = [said EXCEPT ![n] = [@ EXCEPT ![p] = 0]]
    /\ unseen' = [unseen EXCEPT ![i] = 0]
    /\ UNCHANGED yields

-----------------------------------------------------------------------------
(* get_target_power *)

Used(i) == other_boiler_status[i].node_id # 0

(* Variants: a claim never expires; the last entry is not looked at. *)
Outranks_forEver(i, our_priority) ==
  Used(i) /\ other_boiler_status[i].priority > our_priority

Outranks_notLast(i, our_priority) ==
  /\ i < MAX_OTHER_BOILER_NODES
  /\ Used(i)
  /\ other_boiler_status[i].age < OTHER_NODE_TIMEOUT
  /\ other_boiler_status[i].priority > our_priority

Outranks(i, our_priority) ==
  /\ Used(i)
  /\ other_boiler_status[i].age < OTHER_NODE_TIMEOUT
  /\ other_boiler_status[i].priority > our_priority

(* Of the entries looked at, the expired ones are unused again. *)
Freed(looked) ==
  [i \in Entry |-> IF i \in looked /\ other_boiler_status[i].age >= OTHER_NODE_TIMEOUT
                   THEN Unused ELSE other_boiler_status[i]]

(* One that was overlooked stays so, until it is freed or written. *)
Seen(looked) ==
  [i \in Entry |-> IF i \in looked /\ (unseen[i] < OVERLOOKED \/ Freed(looked)[i] = Unused)
                   THEN 0 ELSE unseen[i]]

(* The search ends at the first entry that outranks us: target power 0.    *)
get_target_power(our_priority) ==
  \/ \E i \in Entry :
       /\ Outranks(i, our_priority)
       /\ \A j \in Entry : j < i => ~Outranks(j, our_priority)
       /\ other_boiler_status' = Freed(1 .. i - 1)
       /\ unseen' = Seen(1 .. i)
       /\ yields' = TRUE
  \/ /\ \A i \in Entry : ~Outranks(i, our_priority)
     /\ other_boiler_status' = Freed(Entry)
     /\ unseen' = Seen(Entry)
     /\ yields' = FALSE

Regulate(our_priority) ==
  /\ get_target_power(our_priority)
  /\ UNCHANGED historyVars

-----------------------------------------------------------------------------

Older(age) == (age + 1) % AGE_WRAP
UpTo(limit, age) == IF age < limit THEN age + 1 ELSE limit

(* A second passes. *)
GrowOlder ==
  /\ other_boiler_status' =
       [i \in Entry |-> IF Used(i)
                        THEN [other_boiler_status[i] EXCEPT !.age = Older(@)]
                        ELSE Unused]
  /\ unseen' = [i \in Entry |-> IF Used(i) THEN UpTo(OVERLOOKED, unseen[i]) ELSE unseen[i]]
  /\ latest' = [n \in Nodes |-> [latest[n] EXCEPT !.age = UpTo(OTHER_NODE_TIMEOUT, @)]]
  /\ said' = [n \in Nodes |->
               [p \in Priorities |-> UpTo(OTHER_NODE_TIMEOUT, said[n][p])]]
  /\ UNCHANGED <<yields, lost>>

PeersNext ==
  \/ \E n \in Nodes, p \in Priorities : on_boilerstatus_data(n, p)
  \/ \E p \in Priorities : Regulate(p)
  \/ GrowOlder

PeersSpec == PeersInit /\ [][PeersNext]_peerVars

-----------------------------------------------------------------------------
(* Properties *)

(* A boiler that takes the power overlooks nobody: no other one that spoke *)
(* in the last 15 s claimed a higher priority, unless its word was         *)
(* overwritten because the table was full.  Holds although a node can have *)
(* several entries, of which the old ones are wrong.                       *)
YieldsToAll ==
  [][\A our \in Priorities :
       Regulate(our) /\ ~yields' =>
         \A n \in Nodes \ lost :
           latest[n].age < OTHER_NODE_TIMEOUT => latest[n].priority <= our]_peerVars

(* Another boiler claimed a priority above ours in the last 15 s. *)
Claimed(our) ==
  \E n \in Nodes, p \in Priorities : p > our /\ said[n][p] < OTHER_NODE_TIMEOUT

(* It only leaves the power to a boiler that claimed a higher priority in  *)
(* the last 15 s (not "that claims": an old entry counts until then), or   *)
(* to an entry that get_target_power, in its search, came by no more for   *)
(* nearly the whole range of the system time: there were no readings, or   *)
(* each search ended at an entry before it.                                *)
YieldsToSomebody ==
  [][\A our \in Priorities :
       Regulate(our) /\ yields' =>
         \/ Claimed(our)
         \/ \E i \in Entry : Outranks(i, our) /\ unseen[i] = OVERLOOKED]_peerVars

=============================================================================
