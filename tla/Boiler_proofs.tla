---------------------------- MODULE Boiler_proofs ----------------------------
(***************************************************************************)
(* The table of the other boilers forgets nobody it still has to reckon    *)
(* with, and invents nobody, although it can hold several entries of one   *)
(* node, for any number of entries and other boilers.  Of the three        *)
(* threads that switch a boiler: the heater goes off without readings and  *)
(* above the limit, and the table is kept, for all timeouts, temperatures, *)
(* outputs and limits.                                                     *)
(***************************************************************************)
EXTENDS Boiler, TLAPS

-----------------------------------------------------------------------------
(* The table of the other boilers *)

(* An entry in use is not younger than the words it stands for, unless it  *)
(* was overlooked until its age had wrapped.                               *)
SaidInv ==
  \A i \in Entry :
    Used(i) /\ unseen[i] < OVERLOOKED =>
      LET e == other_boiler_status[i]
      IN  /\ e.age < OTHER_NODE_TIMEOUT + unseen[i]
          /\ said[e.node_id][e.priority] <= e.age

(* The first entry of a node is its last word, if that is worth anything.  *)
LatestInv ==
  \A n \in Nodes \ lost :
    latest[n].age < OTHER_NODE_TIMEOUT =>
      \E i \in Entry :
        /\ other_boiler_status[i] = [node_id  |-> n,
                                     priority |-> latest[n].priority,
                                     age      |-> latest[n].age]
        /\ \A j \in Entry : j < i => other_boiler_status[j].node_id # n

PeersInv == PeersTypeOK /\ SaidInv /\ LatestInv

-----------------------------------------------------------------------------
(* Types *)

LEMMA OlderIsAge ==
  ASSUME NEW age \in Age
  PROVE  /\ Older(age) \in Age
         /\ age + 1 < AGE_WRAP => Older(age) = age + 1
BY PeersAssumption DEF Older, Age

LEMMA UpToIsAge ==
  ASSUME NEW limit \in Nat, NEW age \in 0 .. limit
  PROVE  /\ UpTo(limit, age) \in 0 .. limit
         /\ age <= UpTo(limit, age)
         /\ UpTo(limit, age) <= age + 1
         /\ UpTo(limit, age) < limit => UpTo(limit, age) = age + 1
BY DEF UpTo

LEMMA Overlooked ==
  /\ OVERLOOKED \in Nat /\ OVERLOOKED > 0
  /\ OVERLOOKED + OTHER_NODE_TIMEOUT = AGE_WRAP + 1
BY PeersAssumption DEF OVERLOOKED

(* An entry is in use exactly if it is of a node. *)
LEMMA UsedIsOfNode ==
  ASSUME PeersTypeOK, NEW i \in Entry
  PROVE  /\ Used(i) => /\ other_boiler_status[i]
                            \in [node_id : Nodes, priority : Priorities, age : Age]
         /\ ~Used(i) => other_boiler_status[i] = Unused
BY PeersAssumption DEF PeersTypeOK, Used, Unused

LEMMA FreedTypeOK ==
  ASSUME PeersTypeOK, NEW looked
  PROVE  Freed(looked) \in
           [Entry -> [node_id : Nodes, priority : Priorities, age : Age] \cup {Unused}]
BY DEF Freed, PeersTypeOK

LEMMA SeenTypeOK ==
  ASSUME PeersTypeOK, NEW looked
  PROVE  Seen(looked) \in [Entry -> 0 .. OVERLOOKED]
BY Overlooked DEF Seen, PeersTypeOK

LEMMA TypeOK_status ==
  ASSUME PeersTypeOK, NEW n \in Nodes, NEW p \in Priorities, on_boilerstatus_data(n, p)
  PROVE  PeersTypeOK'
<1> PICK i \in Entry :
      /\ other_boiler_status' = [other_boiler_status EXCEPT
                                   ![i] = [node_id |-> n, priority |-> p, age |-> 0]]
      /\ lost' = (lost \ {n}) \cup ({other_boiler_status[i].node_id} \ {n, 0})
      /\ latest' = [latest EXCEPT ![n] = [priority |-> p, age |-> 0]]
      /\ said' = [said EXCEPT ![n] = [@ EXCEPT ![p] = 0]]
      /\ unseen' = [unseen EXCEPT ![i] = 0]
      /\ UNCHANGED yields
  BY DEF on_boilerstatus_data
<1>1. 0 \in Age /\ 0 \in SaidAge
  BY PeersAssumption DEF Age, SaidAge
<1>2. other_boiler_status'
        \in [Entry -> [node_id : Nodes, priority : Priorities, age : Age] \cup {Unused}]
  BY <1>1 DEF PeersTypeOK
<1>3. latest' \in [Nodes -> [priority : Priorities \cup {0}, age : SaidAge]]
  BY <1>1 DEF PeersTypeOK
<1>4. said' \in [Nodes -> [Priorities -> SaidAge]]
  BY <1>1 DEF PeersTypeOK
<1>5. lost' \subseteq Nodes
  BY UsedIsOfNode DEF PeersTypeOK, Used
<1>6. unseen' \in [Entry -> 0 .. OVERLOOKED]
  BY Overlooked DEF PeersTypeOK
<1> QED
  BY <1>2, <1>3, <1>4, <1>5, <1>6 DEF PeersTypeOK

LEMMA TypeOK_regulate ==
  ASSUME PeersTypeOK, NEW our, Regulate(our)
  PROVE  PeersTypeOK'
<1>1. /\ \E looked : other_boiler_status' = Freed(looked)
      /\ \E looked : unseen' = Seen(looked)
      /\ yields' \in BOOLEAN
  BY DEF Regulate, get_target_power
<1>2. other_boiler_status'
        \in [Entry -> [node_id : Nodes, priority : Priorities, age : Age] \cup {Unused}]
  BY <1>1, FreedTypeOK
<1>3. unseen' \in [Entry -> 0 .. OVERLOOKED]
  BY <1>1, SeenTypeOK
<1> QED
  BY <1>1, <1>2, <1>3 DEF PeersTypeOK, Regulate, historyVars

LEMMA TypeOK_older ==
  ASSUME PeersTypeOK, GrowOlder
  PROVE  PeersTypeOK'
<1>1. other_boiler_status'
        \in [Entry -> [node_id : Nodes, priority : Priorities, age : Age] \cup {Unused}]
  <2> SUFFICES ASSUME NEW i \in Entry, Used(i)
               PROVE  [other_boiler_status[i] EXCEPT !.age = Older(@)]
                        \in [node_id : Nodes, priority : Priorities, age : Age]
    BY DEF GrowOlder
  <2>1. Older(other_boiler_status[i].age) \in Age
    BY UsedIsOfNode, OlderIsAge
  <2> QED
    BY <2>1, UsedIsOfNode
<1>2. latest' \in [Nodes -> [priority : Priorities \cup {0}, age : SaidAge]]
  <2> SUFFICES ASSUME NEW n \in Nodes
               PROVE  [latest[n] EXCEPT !.age = UpTo(OTHER_NODE_TIMEOUT, @)]
                        \in [priority : Priorities \cup {0}, age : SaidAge]
    BY DEF GrowOlder
  <2>1. latest[n] \in [priority : Priorities \cup {0}, age : SaidAge]
    BY DEF PeersTypeOK
  <2>2. UpTo(OTHER_NODE_TIMEOUT, latest[n].age) \in SaidAge
    BY <2>1, UpToIsAge, PeersAssumption DEF SaidAge
  <2> QED
    BY <2>1, <2>2
<1>3. said' \in [Nodes -> [Priorities -> SaidAge]]
  <2>1. \A n \in Nodes, p \in Priorities :
          UpTo(OTHER_NODE_TIMEOUT, said[n][p]) \in SaidAge
    BY UpToIsAge, PeersAssumption DEF PeersTypeOK, SaidAge
  <2> QED
    BY <2>1 DEF GrowOlder
<1>4. unseen' \in [Entry -> 0 .. OVERLOOKED]
  <2>1. \A i \in Entry : UpTo(OVERLOOKED, unseen[i]) \in 0 .. OVERLOOKED
    BY UpToIsAge, Overlooked DEF PeersTypeOK
  <2> QED
    BY <2>1 DEF GrowOlder, PeersTypeOK
<1>5. UNCHANGED <<yields, lost>>
  BY DEF GrowOlder
<1> QED
  BY <1>1, <1>2, <1>3, <1>4, <1>5 DEF PeersTypeOK

-----------------------------------------------------------------------------
(* The two halves of the invariant *)

LEMMA Inv_status ==
  ASSUME PeersInv, NEW n \in Nodes, NEW p \in Priorities, on_boilerstatus_data(n, p)
  PROVE  (SaidInv /\ LatestInv)'
<1> PICK i \in Entry :
      /\ is_other_boiler_entry(i, n)
      /\ other_boiler_status' = [other_boiler_status EXCEPT
                                   ![i] = [node_id |-> n, priority |-> p, age |-> 0]]
      /\ lost' = (lost \ {n}) \cup ({other_boiler_status[i].node_id} \ {n, 0})
      /\ latest' = [latest EXCEPT ![n] = [priority |-> p, age |-> 0]]
      /\ said' = [said EXCEPT ![n] = [@ EXCEPT ![p] = 0]]
      /\ unseen' = [unseen EXCEPT ![i] = 0]
  BY DEF on_boilerstatus_data
<1>0. PeersTypeOK
  BY DEF PeersInv
<1>1. \A j \in Entry : j # i => other_boiler_status'[j] = other_boiler_status[j]
  BY <1>0 DEF PeersTypeOK
<1>2. other_boiler_status'[i] = [node_id |-> n, priority |-> p, age |-> 0]
  BY <1>0 DEF PeersTypeOK
<1>3. SaidInv'
  <2> SUFFICES ASSUME NEW j \in Entry, Used(j)', unseen'[j] < OVERLOOKED
               PROVE  LET e == other_boiler_status'[j]
                      IN  /\ e.age < OTHER_NODE_TIMEOUT + unseen'[j]
                          /\ said'[e.node_id][e.priority] <= e.age
    BY DEF SaidInv, OVERLOOKED
  <2>1. CASE j = i
    <3>1. said'[n][p] = 0
      BY <1>0 DEF PeersTypeOK
    <3>2. unseen'[i] = 0
      BY <1>0 DEF PeersTypeOK
    <3> QED
      BY <2>1, <3>1, <3>2, <1>2, PeersAssumption
  <2>2. CASE j # i
    <3> DEFINE e == other_boiler_status[j]
    <3>1. other_boiler_status'[j] = e /\ Used(j) /\ unseen'[j] = unseen[j]
      BY <2>2, <1>0, <1>1 DEF Used, PeersTypeOK
    <3>2. e \in [node_id : Nodes, priority : Priorities, age : Age]
      BY <3>1, <1>0, UsedIsOfNode
    <3>3. /\ e.age < OTHER_NODE_TIMEOUT + unseen[j]
          /\ said[e.node_id][e.priority] <= e.age
      BY <3>1 DEF PeersInv, SaidInv
    <3>4. \/ said'[e.node_id][e.priority] = said[e.node_id][e.priority]
          \/ said'[e.node_id][e.priority] = 0
      BY <3>2, <1>0 DEF PeersTypeOK
    <3>5. e.age >= 0
      BY <3>2, PeersAssumption DEF Age
    <3> QED
      BY <3>1, <3>3, <3>4, <3>5
  <2> QED
    BY <2>1, <2>2
<1>4. LatestInv'
  <2> SUFFICES ASSUME NEW m \in Nodes \ lost', latest'[m].age < OTHER_NODE_TIMEOUT
               PROVE  \E k \in Entry :
                        /\ other_boiler_status'[k] = [node_id  |-> m,
                                                      priority |-> latest'[m].priority,
                                                      age      |-> latest'[m].age]
                        /\ \A j \in Entry : j < k => other_boiler_status'[j].node_id # m
    BY DEF LatestInv
  <2>1. CASE m = n
    <3>1. latest'[m] = [priority |-> p, age |-> 0]
      BY <2>1, <1>0 DEF PeersTypeOK
    <3>2. \A j \in Entry : j < i => other_boiler_status[j].node_id # n
      BY DEF is_other_boiler_entry, Fits, Entry
    <3>3. \A j \in Entry : j < i => other_boiler_status'[j].node_id # m
      BY <3>2, <2>1, <1>1 DEF Entry
    <3> QED
      BY <3>1, <3>3, <2>1, <1>2
  <2>2. CASE m # n
    <3>1. latest'[m] = latest[m]
      BY <2>2, <1>0 DEF PeersTypeOK
    <3>2. m \notin lost /\ other_boiler_status[i].node_id # m
      BY <2>2, PeersAssumption
    <3>3. PICK k \in Entry :
            /\ other_boiler_status[k] = [node_id  |-> m,
                                         priority |-> latest[m].priority,
                                         age      |-> latest[m].age]
            /\ \A j \in Entry : j < k => other_boiler_status[j].node_id # m
      BY <3>1, <3>2 DEF PeersInv, LatestInv
    <3>4. k # i
      BY <3>2, <3>3
    <3>5. \A j \in Entry : j < k => other_boiler_status'[j].node_id # m
      BY <3>3, <2>2, <1>1, <1>2
    <3> QED
      BY <3>1, <3>3, <3>4, <3>5, <1>1
  <2> QED
    BY <2>1, <2>2
<1> QED
  BY <1>3, <1>4

LEMMA Inv_regulate ==
  ASSUME PeersInv, NEW our, Regulate(our)
  PROVE  (SaidInv /\ LatestInv)'
<1>0. PeersTypeOK
  BY DEF PeersInv
<1>1. UNCHANGED <<latest, said, lost>>
  BY DEF Regulate, historyVars
<1>2. \A i \in Entry :
        \/ other_boiler_status'[i] = other_boiler_status[i]
        \/ /\ other_boiler_status'[i] = Unused
           /\ other_boiler_status[i].age >= OTHER_NODE_TIMEOUT
  BY DEF Regulate, get_target_power, Freed
<1>3. \A i \in Entry :
        Used(i)' =>
          \/ unseen'[i] = unseen[i]
          \/ /\ unseen'[i] = 0 /\ unseen[i] < OVERLOOKED
             /\ other_boiler_status[i].age < OTHER_NODE_TIMEOUT
  <2> SUFFICES ASSUME NEW i \in Entry, Used(i)', unseen'[i] # unseen[i]
               PROVE  /\ unseen'[i] = 0 /\ unseen[i] < OVERLOOKED
                      /\ other_boiler_status[i].age < OTHER_NODE_TIMEOUT
    OBVIOUS
  <2>1. other_boiler_status'[i] = other_boiler_status[i] /\ Used(i)
    BY <1>2 DEF Used, Unused
  <2>2. other_boiler_status[i].age \in Nat
    BY <1>0, <2>1, UsedIsOfNode, PeersAssumption DEF Age
  <2>3. CASE unseen' = Seen(Entry) /\ other_boiler_status' = Freed(Entry)
    <3>1. other_boiler_status[i].age < OTHER_NODE_TIMEOUT
      BY <2>1, <2>2, <2>3, PeersAssumption DEF Freed, Used, Unused
    <3>2. Freed(Entry)[i] # Unused
      BY <2>1, <2>3 DEF Used, Unused
    <3> QED
      BY <2>3, <3>1, <3>2 DEF Seen
  <2>4. ASSUME NEW k \in Entry, Outranks(k, our),
               unseen' = Seen(1 .. k), other_boiler_status' = Freed(1 .. k - 1)
        PROVE  /\ unseen'[i] = 0 /\ unseen[i] < OVERLOOKED
               /\ other_boiler_status[i].age < OTHER_NODE_TIMEOUT
    <3>1. i \in 1 .. k
      BY <2>4 DEF Seen
    <3>2. other_boiler_status[i].age < OTHER_NODE_TIMEOUT
      <4>1. CASE i = k
        BY <2>4, <4>1 DEF Outranks
      <4>2. CASE i # k
        <5>1. i \in 1 .. k - 1
          BY <3>1, <4>2 DEF Entry
        <5> QED
          BY <2>1, <2>2, <2>4, <5>1, PeersAssumption DEF Freed, Used, Unused
      <4> QED
        BY <4>1, <4>2
    <3>3. Freed(1 .. k)[i] = other_boiler_status[i]
      BY <2>2, <3>2, PeersAssumption DEF Freed
    <3>4. Freed(1 .. k)[i] # Unused
      BY <2>1, <3>3 DEF Used, Unused
    <3> QED
      BY <2>4, <3>2, <3>4 DEF Seen
  <2> QED
    BY <2>3, <2>4 DEF Regulate, get_target_power
<1>5. SaidInv'
  <2> SUFFICES ASSUME NEW i \in Entry, Used(i)', unseen'[i] < OVERLOOKED
               PROVE  LET e == other_boiler_status'[i]
                      IN  /\ e.age < OTHER_NODE_TIMEOUT + unseen'[i]
                          /\ said'[e.node_id][e.priority] <= e.age
    BY DEF SaidInv, OVERLOOKED
  <2>1. other_boiler_status'[i] = other_boiler_status[i]
    BY <1>2 DEF Used, Unused
  <2>2. Used(i)
    BY <2>1 DEF Used
  <2>3. unseen[i] < OVERLOOKED
    BY <1>3
  <2> DEFINE e == other_boiler_status[i]
  <2>4. /\ e.age < OTHER_NODE_TIMEOUT + unseen[i]
        /\ said[e.node_id][e.priority] <= e.age
    BY <2>2, <2>3 DEF PeersInv, SaidInv
  <2>5. e.age < OTHER_NODE_TIMEOUT + unseen'[i]
    BY <1>3, <2>4, PeersAssumption
  <2> QED
    BY <2>1, <2>4, <2>5, <1>1
<1>4. LatestInv'
  <2> SUFFICES ASSUME NEW n \in Nodes \ lost, latest[n].age < OTHER_NODE_TIMEOUT
               PROVE  \E i \in Entry :
                        /\ other_boiler_status'[i] = [node_id  |-> n,
                                                      priority |-> latest[n].priority,
                                                      age      |-> latest[n].age]
                        /\ \A j \in Entry : j < i => other_boiler_status'[j].node_id # n
    BY <1>1 DEF LatestInv
  <2>1. PICK i \in Entry :
          /\ other_boiler_status[i] = [node_id  |-> n,
                                       priority |-> latest[n].priority,
                                       age      |-> latest[n].age]
          /\ \A j \in Entry : j < i => other_boiler_status[j].node_id # n
    BY DEF PeersInv, LatestInv
  <2>2. latest[n].age \in Nat
    BY <1>0, PeersAssumption DEF PeersTypeOK, SaidAge
  <2>3. other_boiler_status'[i] = other_boiler_status[i]
    BY <1>2, <2>1, <2>2, PeersAssumption
  <2>4. \A j \in Entry : j < i => other_boiler_status'[j].node_id # n
    BY <1>2, <2>1, PeersAssumption DEF Unused
  <2> QED
    BY <2>1, <2>3, <2>4
<1> QED
  BY <1>4, <1>5

LEMMA Inv_older ==
  ASSUME PeersInv, GrowOlder
  PROVE  (SaidInv /\ LatestInv)'
<1>0. PeersTypeOK
  BY DEF PeersInv
<1>1. \A i \in Entry :
        other_boiler_status'[i] =
          IF Used(i) THEN [other_boiler_status[i] EXCEPT !.age = Older(@)] ELSE Unused
  BY DEF GrowOlder
<1>2. \A i \in Entry : other_boiler_status'[i].node_id = other_boiler_status[i].node_id
  <2> SUFFICES ASSUME NEW i \in Entry
               PROVE  other_boiler_status'[i].node_id = other_boiler_status[i].node_id
    OBVIOUS
  <2>1. CASE Used(i)
    BY <2>1, <1>0, <1>1, UsedIsOfNode
  <2>2. CASE ~Used(i)
    BY <2>2, <1>0, <1>1, UsedIsOfNode
  <2> QED
    BY <2>1, <2>2
<1>3. SaidInv'
  <2> SUFFICES ASSUME NEW i \in Entry, Used(i)', unseen'[i] < OVERLOOKED
               PROVE  LET e == other_boiler_status'[i]
                      IN  /\ e.age < OTHER_NODE_TIMEOUT + unseen'[i]
                          /\ said'[e.node_id][e.priority] <= e.age
    BY DEF SaidInv, OVERLOOKED
  <2> DEFINE e == other_boiler_status[i]
             word == said[e.node_id][e.priority]
  <2>1. Used(i)
    BY <1>2 DEF Used
  <2>2. e \in [node_id : Nodes, priority : Priorities, age : Age]
    BY <2>1, <1>0, UsedIsOfNode
  <2>3. other_boiler_status'[i] = [e EXCEPT !.age = Older(@)]
    BY <2>1, <1>1
  <2>4. said'[e.node_id][e.priority] = UpTo(OTHER_NODE_TIMEOUT, word)
    BY <2>2 DEF GrowOlder
  <2>5. unseen[i] \in 0 .. OVERLOOKED /\ unseen'[i] = UpTo(OVERLOOKED, unseen[i])
    BY <2>1, <1>0 DEF GrowOlder, PeersTypeOK
  <2>6. unseen'[i] = unseen[i] + 1 /\ unseen[i] < OVERLOOKED
    BY <2>5, Overlooked DEF UpTo
  <2>7. e.age < OTHER_NODE_TIMEOUT + unseen[i] /\ word <= e.age
    BY <2>1, <2>6 DEF PeersInv, SaidInv
  <2>8. e.age \in Age /\ word \in SaidAge
    BY <2>2, <1>0 DEF PeersTypeOK
  <2>9. e.age \in Nat
    BY <2>8, PeersAssumption DEF Age
  <2>10. e.age + 1 < AGE_WRAP
    BY <2>5, <2>6, <2>7, <2>9, Overlooked, PeersAssumption
  <2>11. Older(e.age) = e.age + 1
    BY <2>8, <2>10, OlderIsAge
  <2>12. word \in Nat /\ word <= OTHER_NODE_TIMEOUT
    BY <2>8, PeersAssumption DEF SaidAge
  <2>13. UpTo(OTHER_NODE_TIMEOUT, word) <= e.age + 1
    BY <2>7, <2>9, <2>12, PeersAssumption DEF UpTo
  <2>14. e.age + 1 < OTHER_NODE_TIMEOUT + unseen'[i]
    BY <2>5, <2>6, <2>7, <2>9, PeersAssumption
  <2> QED
    BY <2>2, <2>3, <2>4, <2>11, <2>13, <2>14
<1>4. LatestInv'
  <2> SUFFICES ASSUME NEW n \in Nodes \ lost, latest'[n].age < OTHER_NODE_TIMEOUT
               PROVE  \E i \in Entry :
                        /\ other_boiler_status'[i] = [node_id  |-> n,
                                                      priority |-> latest'[n].priority,
                                                      age      |-> latest'[n].age]
                        /\ \A j \in Entry : j < i => other_boiler_status'[j].node_id # n
    BY DEF LatestInv, GrowOlder
  <2>1. /\ latest[n] \in [priority : Priorities \cup {0}, age : SaidAge]
        /\ latest'[n] = [latest[n] EXCEPT !.age = UpTo(OTHER_NODE_TIMEOUT, @)]
    BY <1>0 DEF GrowOlder, PeersTypeOK
  <2>2. /\ latest'[n].priority = latest[n].priority
        /\ latest'[n].age = UpTo(OTHER_NODE_TIMEOUT, latest[n].age)
        /\ latest[n].age \in 0 .. OTHER_NODE_TIMEOUT
    BY <2>1 DEF SaidAge
  <2>3. /\ latest[n].age < OTHER_NODE_TIMEOUT
        /\ latest'[n].age = latest[n].age + 1
    BY <2>2, PeersAssumption DEF UpTo
  <2>7. Older(latest[n].age) = latest'[n].age
    BY <2>2, <2>3, PeersAssumption, OlderIsAge DEF Age
  <2>4. PICK i \in Entry :
          /\ other_boiler_status[i] = [node_id  |-> n,
                                       priority |-> latest[n].priority,
                                       age      |-> latest[n].age]
          /\ \A j \in Entry : j < i => other_boiler_status[j].node_id # n
    BY <2>3 DEF PeersInv, LatestInv
  <2>5. Used(i)
    BY <2>4, PeersAssumption DEF Used
  <2>6. other_boiler_status'[i] = [node_id  |-> n,
                                   priority |-> latest'[n].priority,
                                   age      |-> latest'[n].age]
    BY <2>2, <2>4, <2>5, <2>7, <1>1
  <2> QED
    BY <2>4, <2>6, <1>2
<1> QED
  BY <1>3, <1>4

LEMMA Inv_step == PeersInv /\ [PeersNext]_peerVars => PeersInv'
<1> SUFFICES ASSUME PeersInv, [PeersNext]_peerVars
             PROVE  PeersInv'
  OBVIOUS
<1>0. PeersTypeOK
  BY DEF PeersInv
<1>1. CASE \E n \in Nodes, p \in Priorities : on_boilerstatus_data(n, p)
  BY <1>0, <1>1, TypeOK_status, Inv_status DEF PeersInv
<1>2. CASE \E p \in Priorities : Regulate(p)
  BY <1>0, <1>2, TypeOK_regulate, Inv_regulate DEF PeersInv
<1>3. CASE GrowOlder
  BY <1>0, <1>3, TypeOK_older, Inv_older DEF PeersInv
<1>4. CASE UNCHANGED peerVars
  BY <1>4 DEF PeersInv, PeersTypeOK, SaidInv, LatestInv, Used, peerVars, tableVars,
                    historyVars
<1> QED
  BY <1>1, <1>2, <1>3, <1>4 DEF PeersNext

LEMMA Inv_init == PeersInit => PeersInv
<1> SUFFICES ASSUME PeersInit
             PROVE  PeersInv
  OBVIOUS
<1>1. PeersTypeOK
  <2>1. OTHER_NODE_TIMEOUT \in SaidAge
    BY PeersAssumption DEF SaidAge
  <2>2. other_boiler_status \in
          [Entry -> [node_id : Nodes, priority : Priorities, age : Age] \cup {Unused}]
    BY DEF PeersInit
  <2>3. latest \in [Nodes -> [priority : Priorities \cup {0}, age : SaidAge]]
    BY <2>1 DEF PeersInit
  <2>4. said \in [Nodes -> [Priorities -> SaidAge]]
    BY <2>1 DEF PeersInit
  <2>5. unseen \in [Entry -> 0 .. OVERLOOKED]
    BY Overlooked DEF PeersInit
  <2> QED
    BY <2>2, <2>3, <2>4, <2>5 DEF PeersInit, PeersTypeOK
<1>2. SaidInv
  BY DEF PeersInit, SaidInv, Used, Unused
<1>3. LatestInv
  BY PeersAssumption DEF PeersInit, LatestInv
<1> QED
  BY <1>1, <1>2, <1>3 DEF PeersInv

(* The table is what the two halves of PeersInv say, for ever. *)
THEOREM TableInvariant == PeersSpec => []PeersInv
<1>1. PeersInv /\ [PeersNext]_peerVars => PeersInv'
  BY Inv_step
<1> QED
  BY <1>1, Inv_init, PTL DEF PeersSpec

(* Every variable of the table keeps its type. *)
THEOREM PeersTyped == PeersSpec => []PeersTypeOK
<1>1. PeersInv => PeersTypeOK
  BY DEF PeersInv
<1> QED
  BY <1>1, TableInvariant, PTL

(* Who takes the power has heard every live claim that was not lost.      *)
LEMMA AllHeard ==
  PeersInv =>
    [\A our \in Priorities :
       Regulate(our) /\ ~yields' =>
         \A n \in Nodes \ lost :
           latest[n].age < OTHER_NODE_TIMEOUT => latest[n].priority <= our]_peerVars
<1> SUFFICES ASSUME PeersInv, NEW our \in Priorities, Regulate(our), ~yields',
                    NEW n \in Nodes \ lost, latest[n].age < OTHER_NODE_TIMEOUT
             PROVE  latest[n].priority <= our
  OBVIOUS
<1>1. \A i \in Entry : ~Outranks(i, our)
  BY DEF Regulate, get_target_power
<1>2. PICK i \in Entry :
        other_boiler_status[i] = [node_id  |-> n,
                                  priority |-> latest[n].priority,
                                  age      |-> latest[n].age]
  BY DEF PeersInv, LatestInv
<1>3. ~(latest[n].priority > our)
  BY <1>1, <1>2, PeersAssumption DEF Outranks, Used
<1>4. latest[n] \in [priority : Priorities \cup {0}, age : SaidAge]
  BY DEF PeersInv, PeersTypeOK
<1>5. latest[n].priority \in Priorities \cup {0}
  BY <1>4
<1>6. \A p \in Priorities \cup {0} : p \in Nat
  BY PeersAssumption
<1>7. latest[n].priority \in Nat
  BY <1>5, <1>6
<1>8. our \in Nat
  BY PeersAssumption
<1> QED
  BY <1>3, <1>7, <1>8

(* YieldsToAll: no live claim is overlooked, whatever entries a node has.  *)
THEOREM NobodyOverlooked == PeersSpec => YieldsToAll
<1> QED
  BY TableInvariant, AllHeard, PTL DEF YieldsToAll

(* Who leaves it to another has heard a claim that lives, or takes an      *)
(* overlooked one for such.                                                *)
LEMMA SomebodyHeard ==
  PeersInv =>
    [\A our \in Priorities :
       Regulate(our) /\ yields' =>
         \/ Claimed(our)
         \/ \E i \in Entry : Outranks(i, our) /\ unseen[i] = OVERLOOKED]_peerVars
<1> SUFFICES ASSUME PeersInv, NEW our \in Priorities, Regulate(our), yields',
                    \A i \in Entry : Outranks(i, our) => unseen[i] # OVERLOOKED
             PROVE  Claimed(our)
  OBVIOUS
<1>1. PICK i \in Entry : Outranks(i, our)
  BY DEF Regulate, get_target_power
<1> DEFINE e == other_boiler_status[i]
<1>2. /\ e \in [node_id : Nodes, priority : Priorities, age : Age]
      /\ e.age < OTHER_NODE_TIMEOUT
      /\ e.priority > our
  BY <1>1, UsedIsOfNode DEF PeersInv, Outranks
<1>8. unseen[i] \in 0 .. OVERLOOKED
  BY DEF PeersInv, PeersTypeOK
<1>3. unseen[i] < OVERLOOKED
  BY <1>1, <1>8, Overlooked
<1>4. said[e.node_id][e.priority] <= e.age
  BY <1>1, <1>3 DEF PeersInv, SaidInv, Outranks
<1>5. said[e.node_id][e.priority] \in SaidAge
  BY <1>2 DEF PeersInv, PeersTypeOK
<1>6. e.age \in Nat
  BY <1>2, PeersAssumption DEF Age
<1>7. said[e.node_id][e.priority] < OTHER_NODE_TIMEOUT
  BY <1>2, <1>4, <1>5, <1>6, PeersAssumption DEF SaidAge
<1> QED
  BY <1>2, <1>7 DEF Claimed

(* YieldsToSomebody: it only yields to a claim of the last 15 s, or to one *)
(* it overlooked until its age had wrapped.                                *)
THEOREM NobodyInvented == PeersSpec => YieldsToSomebody
<1> QED
  BY TableInvariant, SomebodyHeard, PTL DEF YieldsToSomebody

-----------------------------------------------------------------------------
(* The threads: types *)

Setting == [kind : {"set"}, limits : Limits, dc : DutyCycles]
Reconfiguring == {"max", "min", "target", "dimmer"}

ControlOK ==
  /\ controller_dc \in 0 .. 100 /\ controller_update \in BOOLEAN
  /\ controller_age \in 0 .. AGE_WRAP - 1 /\ silent \in 0 .. MaxSilent
  /\ meter \in [last180 : BOOLEAN, last280 : BOOLEAN, fresh180 : BOOLEAN]

HeaterOK ==
  /\ boiler_dc \in 0 .. 100 /\ dimmer \in 0 .. 100
  /\ boiler_temperature \in Int /\ hot \in 0 .. MaxHot
  /\ limits \in [max : Int, min : Int, target : Int]
  /\ fast_in \in 0 .. FAST_START /\ reloaded \in BOOLEAN

LockOK ==
  /\ canardMtx \in {"free", "rx", "fast", "node"}
  /\ waiting \in Seq({"rx", "fast"})
  /\ canardMtx = "node" => node \in {"status", "debug", "send"}

(* The receive thread has the mutex while it sets a parameter. *)
SetLocked == rx \in Reconfiguring => canardMtx = "rx"

ThreadsOK ==
  /\ rx \in {"idle", "lock"} \cup Reconfiguring
  /\ fast \in {"idle", "send"}
  /\ node \in {"idle", "status", "app", "debug", "dc", "dimmer", "send"}
  /\ frame \in Frames \cup {NoFrame}
  /\ rx \in Reconfiguring => frame \in Setting

TypeOK == ControlOK /\ HeaterOK /\ LockOK /\ ThreadsOK

-----------------------------------------------------------------------------
(* The invariant *)

(* Without readings for longer than the timeout the fast thread runs and   *)
(* has nothing left to do; the heater is off, or the node thread is on its *)
(* way to turn it off, which it will as the age has not wrapped yet.       *)
SilentInv ==
  /\ fast_in > 0 => silent + fast_in <= FAST_START
  /\ silent <= CONTROLLER_TIMEOUT => controller_age = silent
  /\ silent > CONTROLLER_TIMEOUT =>
       /\ fast_in = 0 /\ fast = "idle" /\ ~controller_update
       /\ \/ reloaded \/ dimmer = 0
          \/ node \in {"debug", "dc", "dimmer"}
          \/ node \in {"status", "app"} /\ controller_age > CONTROLLER_TIMEOUT

(* The node thread has measured this second's temperature. *)
Measured == node \notin {"status", "app"}

(* While a thread waits, no second passes: what was cool when it began has *)
(* been measured hot at most once.                                         *)
HotOnce == hot <= (IF Measured THEN 1 ELSE 0)

(* A heater that is on, although it has been measured too hot, has had no  *)
(* reading since: the seconds it is hot are seconds without a reading, as  *)
(* controller_age counts them; from the timeout on the node thread is on   *)
(* its way to turn it off.  While a parameter is set, it waits in "debug"  *)
(* until the duty cycle is set, so it turns that off as well.              *)
HotInv ==
  /\ hot > 0 => boiler_temperature > limits.max
  /\ rx \in {"min", "target", "dimmer"} =>
       /\ HotOnce
       /\ hot > 0 /\ controller_age > CONTROLLER_TIMEOUT => node = "debug"
  /\ fast = "send" /\ dimmer > 0 => HotOnce
  /\ dimmer > 0 /\ hot > 0 /\ ~controller_update =>
       IF controller_age <= CONTROLLER_TIMEOUT
       THEN hot <= controller_age + (IF Measured THEN 1 ELSE 0)
       ELSE node \in {"status", "app", "debug", "dc", "dimmer"}

BoilerInv == TypeOK /\ SilentInv /\ SetLocked /\ HotInv

-----------------------------------------------------------------------------
(* Lemmas *)

LEMMA Constants ==
  /\ CONTROLLER_TIMEOUT \in Nat /\ FAST_START \in Nat /\ FAST_START >= 1
  /\ FAST_START <= CONTROLLER_TIMEOUT
  /\ MaxSilent = CONTROLLER_TIMEOUT + 1 /\ MaxHot = CONTROLLER_TIMEOUT + 2
  /\ AGE_WRAP \in Nat /\ AGE_WRAP > CONTROLLER_TIMEOUT + 1
BY BoilerAssumption, PeersAssumption DEF MaxSilent, MaxHot

(* A thread that waits for the mutex leaves the node thread where it is. *)
LEMMA LockType ==
  ASSUME TypeOK, NEW t \in {"rx", "fast"}, Lock(t), UNCHANGED node
  PROVE  LockOK'
<1>1. Append(waiting, t) \in Seq({"rx", "fast"})
  BY DEF TypeOK, LockOK
<1>. QED  BY <1>1 DEF TypeOK, LockOK, Lock

(* The mutex is handed on to the receive or to the fast thread, never to   *)
(* the node thread.                                                        *)
LEMMA UnlockType ==
  ASSUME TypeOK, Unlock
  PROVE  LockOK'
<1>1. waiting # << >> => /\ Head(waiting) \in {"rx", "fast"}
                        /\ Tail(waiting) \in Seq({"rx", "fast"})
  BY DEF TypeOK, LockOK
<1>. QED  BY <1>1 DEF TypeOK, LockOK, Unlock

LEMMA TargetType ==
  ASSUME TypeOK
  PROVE  /\ target_dc \in 0 .. 100
         /\ hot > 0 /\ HotInv => target_dc = 0
BY DEF TypeOK, ControlOK, HeaterOK, target_dc, HotInv

(* A frame is of the kind its handler takes. *)
LEMMA FrameType ==
  ASSUME TypeOK
  PROVE  /\ frame.kind = "set" => frame \in Setting
         /\ frame.kind = "status" => frame.from \in Nodes /\ frame.priority \in Priorities
         /\ frame.kind \in {"180", "280"} => frame.zero \in BOOLEAN
BY DEF TypeOK, ThreadsOK, Frames, NoFrame, Setting

-----------------------------------------------------------------------------
(* Receive thread *)

LEMMA Receive_step ==
  ASSUME BoilerInv, NEW f \in Frames, Receive(f)
  PROVE  BoilerInv'
<1>1. TypeOK'
  <2>1. ControlOK'
    BY DEF BoilerInv, TypeOK, ControlOK, Receive, controlVars
  <2>2. HeaterOK'
    BY DEF BoilerInv, TypeOK, HeaterOK, Receive, heaterVars
  <2>3. LockOK'
    BY LockType DEF BoilerInv, Receive
  <2>4. ThreadsOK'
    BY DEF BoilerInv, TypeOK, ThreadsOK, Receive, Reconfiguring
  <2>. QED  BY <2>1, <2>2, <2>3, <2>4 DEF TypeOK
<1>2. SilentInv' /\ SetLocked' /\ HotInv'
  BY DEF BoilerInv, SilentInv, SetLocked, Reconfiguring, HotInv, HotOnce, Measured, Receive, Lock, TypeOK,
         LockOK, controlVars, heaterVars
<1>. QED  BY <1>1, <1>2 DEF BoilerInv

LEMMA Obis_step ==
  ASSUME BoilerInv, HandleObis
  PROVE  BoilerInv'
<1>1. TypeOK /\ frame.zero \in BOOLEAN
  BY FrameType DEF BoilerInv, HandleObis, HasFrame
<1>2. /\ rx' = "idle" /\ frame' = NoFrame /\ Unlock
      /\ canardMtx = "rx"
      /\ UNCHANGED <<heaterVars, boiler_temperature, limits, fast, node, fast_in, hot,
                     reloaded>>
  BY DEF HandleObis, Handled, HasFrame
<1>3. /\ controller_dc' \in 0 .. 100
      /\ meter' \in [last180 : BOOLEAN, last280 : BOOLEAN, fresh180 : BOOLEAN]
      /\ \/ UNCHANGED <<controller_update, controller_age, silent>>
         \/ controller_update' = TRUE /\ controller_age' = 0 /\ silent' = 0
  <2>1. on_obis_data
    BY DEF HandleObis
  <2>2. meter \in [last180 : BOOLEAN, last280 : BOOLEAN, fresh180 : BOOLEAN]
    BY <1>1 DEF TypeOK, ControlOK
  <2>3. meter' \in [last180 : BOOLEAN, last280 : BOOLEAN, fresh180 : BOOLEAN]
    BY <2>1, <2>2, <1>1 DEF on_obis_data
  <2>4. CASE regulate
    BY <2>3, <2>4, BoilerAssumption DEF regulate
  <2>5. CASE UNCHANGED <<controlVars, silent>>
    BY <2>3, <2>5, <1>1 DEF controlVars, TypeOK, ControlOK
  <2>. QED  BY <2>1, <2>4, <2>5 DEF on_obis_data
<1>4. TypeOK'
  <2>1. ControlOK'
    <3>1. controller_age' \in 0 .. AGE_WRAP - 1 /\ silent' \in 0 .. MaxSilent
      BY <1>1, <1>3, Constants DEF TypeOK, ControlOK
    <3>2. controller_update' \in BOOLEAN
      BY <1>1, <1>3, Zenon DEF TypeOK, ControlOK
    <3>. QED  BY <1>3, <3>1, <3>2 DEF ControlOK
  <2>2. HeaterOK'
    BY <1>1, <1>2 DEF TypeOK, HeaterOK, heaterVars
  <2>3. LockOK'
    BY <1>1, <1>2, UnlockType
  <2>4. ThreadsOK'
    BY <1>1, <1>2 DEF TypeOK, ThreadsOK, Reconfiguring
  <2>. QED  BY <2>1, <2>2, <2>3, <2>4 DEF TypeOK
<1>5. SilentInv' /\ SetLocked' /\ HotInv'
  BY <1>1, <1>2, <1>3, Constants
     DEF BoilerInv, SilentInv, SetLocked, Reconfiguring, HotInv, HotOnce, Measured, heaterVars, TypeOK,
         HeaterOK
<1>. QED  BY <1>4, <1>5 DEF BoilerInv

LEMMA Status_step ==
  ASSUME BoilerInv, HandleStatus
  PROVE  BoilerInv'
<1>1. TypeOK'
  <2>1. ControlOK'
    BY DEF BoilerInv, TypeOK, ControlOK, HandleStatus, controlVars
  <2>2. HeaterOK'
    BY DEF BoilerInv, TypeOK, HeaterOK, HandleStatus, heaterVars
  <2>3. LockOK'
    BY UnlockType DEF BoilerInv, HandleStatus, Handled
  <2>4. ThreadsOK'
    BY DEF BoilerInv, TypeOK, ThreadsOK, HandleStatus, Handled, Reconfiguring
  <2>. QED  BY <2>1, <2>2, <2>3, <2>4 DEF TypeOK
<1>2. SilentInv' /\ SetLocked' /\ HotInv'
  BY DEF BoilerInv, SilentInv, SetLocked, Reconfiguring, HotInv, HotOnce, Measured, HandleStatus, Handled,
         controlVars, heaterVars
<1>. QED  BY <1>1, <1>2 DEF BoilerInv

LEMMA Set_step ==
  ASSUME BoilerInv, HandleSet
  PROVE  BoilerInv'
<1>1. TypeOK'
  <2>1. ControlOK'
    BY DEF BoilerInv, TypeOK, ControlOK, HandleSet, controlVars
  <2>2. HeaterOK'
    BY DEF BoilerInv, TypeOK, HeaterOK, HandleSet, heaterVars
  <2>3. LockOK'
    BY DEF BoilerInv, TypeOK, LockOK, HandleSet, lockVars
  <2>4. ThreadsOK'
    BY FrameType DEF BoilerInv, TypeOK, ThreadsOK, HandleSet, HasFrame, Reconfiguring
  <2>. QED  BY <2>1, <2>2, <2>3, <2>4 DEF TypeOK
<1>2. SilentInv' /\ SetLocked' /\ HotInv'
  BY DEF BoilerInv, SilentInv, SetLocked, Reconfiguring, HotInv, HotOnce, Measured,
         HandleSet, HasFrame, controlVars, heaterVars, lockVars
<1>. QED  BY <1>1, <1>2 DEF BoilerInv

LEMMA Reconfigure_step ==
  ASSUME BoilerInv, reconfigure
  PROVE  BoilerInv'
<1>. USE Constants DEF heaterVars, controlVars
<1>1. /\ TypeOK /\ frame \in Setting
      /\ frame.limits \in [max : Int, min : Int, target : Int]
      /\ frame.dc \in 0 .. 100
  <2>1. TypeOK /\ frame \in Setting
    BY DEF BoilerInv, TypeOK, ThreadsOK, reconfigure, Reconfiguring
  <2>. QED  BY <2>1, BoilerAssumption DEF Setting
<1>2. CASE rx = "max"
  <2>1. /\ rx' = "min" /\ hot' = 0
        /\ limits' = [limits EXCEPT !.max = frame.limits.max]
        /\ UNCHANGED <<controlVars, heaterVars, boiler_temperature, meter, fast, node,
                       fast_in, silent, reloaded, frame, canardMtx, waiting>>
    BY <1>2 DEF reconfigure, lockVars
  <2>2. TypeOK'
    <3>1. ControlOK'
      BY <1>1, <2>1 DEF TypeOK, ControlOK
    <3>2. HeaterOK'
      BY <1>1, <2>1 DEF TypeOK, HeaterOK
    <3>3. LockOK'
      BY <1>1, <2>1 DEF TypeOK, LockOK
    <3>4. ThreadsOK'
      BY <1>1, <2>1 DEF TypeOK, ThreadsOK, Reconfiguring
    <3>. QED  BY <3>1, <3>2, <3>3, <3>4 DEF TypeOK
  <2>3. SilentInv' /\ SetLocked' /\ HotInv'
    BY <1>2, <2>1 DEF BoilerInv, SilentInv, SetLocked, Reconfiguring, HotInv, HotOnce, Measured
  <2>. QED  BY <2>2, <2>3 DEF BoilerInv
<1>3. CASE rx \in {"min", "target"}
  <2>1. /\ rx' \in {"target", "dimmer"}
        /\ \/ limits' = [limits EXCEPT !.min = frame.limits.min]
           \/ limits' = [limits EXCEPT !.target = frame.limits.target]
        /\ UNCHANGED <<controlVars, heaterVars, boiler_temperature, meter, fast, node,
                       fast_in, silent, reloaded, frame, canardMtx, waiting, hot>>
    BY <1>3 DEF reconfigure, lockVars
  <2>2. TypeOK'
    <3>1. ControlOK'
      BY <1>1, <2>1 DEF TypeOK, ControlOK
    <3>2. HeaterOK'
      BY <1>1, <2>1 DEF TypeOK, HeaterOK
    <3>3. LockOK'
      BY <1>1, <2>1 DEF TypeOK, LockOK
    <3>4. ThreadsOK'
      BY <1>1, <1>3, <2>1 DEF TypeOK, ThreadsOK, Reconfiguring
    <3>. QED  BY <3>1, <3>2, <3>3, <3>4 DEF TypeOK
  <2>3. limits'.max = limits.max
    BY <1>1, <2>1 DEF TypeOK, HeaterOK
  <2>4. SilentInv' /\ SetLocked' /\ HotInv'
    BY <1>3, <2>1, <2>3 DEF BoilerInv, SilentInv, SetLocked, Reconfiguring, HotInv, HotOnce, Measured
  <2>. QED  BY <2>2, <2>4 DEF BoilerInv
<1>4. CASE rx = "dimmer"
  <2>1. /\ rx' = "idle" /\ frame' = NoFrame /\ Unlock
        /\ dimmer' = frame.dc /\ reloaded' = TRUE
        /\ UNCHANGED <<controlVars, boiler_dc, boiler_temperature, meter, fast, node,
                       fast_in, silent, limits, hot>>
    BY <1>4 DEF reconfigure, Handled
  <2>2. TypeOK'
    <3>1. ControlOK'
      BY <1>1, <2>1 DEF TypeOK, ControlOK
    <3>2. HeaterOK'
      BY <1>1, <2>1 DEF TypeOK, HeaterOK
    <3>3. LockOK'
      BY <1>1, <2>1, UnlockType
    <3>4. ThreadsOK'
      BY <1>1, <2>1 DEF TypeOK, ThreadsOK, Reconfiguring
    <3>. QED  BY <3>1, <3>2, <3>3, <3>4 DEF TypeOK
  <2>3. SilentInv' /\ SetLocked' /\ HotInv'
    BY <1>1, <1>4, <2>1
       DEF BoilerInv, SilentInv, SetLocked, Reconfiguring, HotInv, HotOnce, Measured, TypeOK, ControlOK, HeaterOK
  <2>. QED  BY <2>2, <2>3 DEF BoilerInv
<1>. QED  BY <1>2, <1>3, <1>4 DEF reconfigure

-----------------------------------------------------------------------------
(* Fast thread *)

LEMMA Fast_step ==
  ASSUME BoilerInv, app_fast_tick
  PROVE  BoilerInv'
<1>. USE DEF controlVars
<1>1. /\ TypeOK /\ target_dc \in 0 .. 100 /\ (hot > 0 => target_dc = 0)
      /\ hot \in Nat
  BY TargetType, Constants DEF BoilerInv, TypeOK, HeaterOK
<1>2. /\ fast_in = 0 /\ controller_update /\ dimmer' = target_dc /\ boiler_dc' = target_dc
      /\ UNCHANGED <<controller_dc, controller_age, boiler_temperature, limits, meter, rx,
                     node, frame, fast_in, silent, hot, reloaded>>
  BY DEF app_fast_tick, fastRuns
<1>3. \/ controller_update' = FALSE /\ UNCHANGED <<fast, canardMtx, waiting>>
      \/ fast' = "send" /\ Lock("fast") /\ UNCHANGED controller_update
  BY DEF app_fast_tick, lockVars
<1>. HIDE DEF target_dc
<1>4. TypeOK'
  <2>1. ControlOK'
    BY <1>1, <1>2, <1>3 DEF TypeOK, ControlOK
  <2>2. HeaterOK'
    BY <1>1, <1>2 DEF TypeOK, HeaterOK
  <2>3. LockOK'
    BY <1>1, <1>2, <1>3, LockType DEF TypeOK, LockOK
  <2>4. ThreadsOK'
    BY <1>1, <1>2, <1>3 DEF TypeOK, ThreadsOK
  <2>. QED  BY <2>1, <2>2, <2>3, <2>4 DEF TypeOK
<1>5. SilentInv'
  BY <1>2, Constants DEF BoilerInv, SilentInv, TypeOK, ControlOK
<1>7. SetLocked'
  BY <1>1, <1>2, <1>3 DEF BoilerInv, SetLocked, Reconfiguring, Lock
<1>6. HotInv'
  BY <1>1, <1>2, <1>3 DEF BoilerInv, HotInv, HotOnce, Measured
<1>. QED  BY <1>4, <1>5, <1>6, <1>7 DEF BoilerInv

LEMMA Sent_step ==
  ASSUME BoilerInv, FastSent
  PROVE  BoilerInv'
<1>1. TypeOK'
  <2>1. ControlOK'
    BY DEF BoilerInv, TypeOK, ControlOK, FastSent
  <2>2. HeaterOK'
    BY DEF BoilerInv, TypeOK, HeaterOK, FastSent, heaterVars
  <2>3. LockOK'
    BY UnlockType DEF BoilerInv, FastSent
  <2>4. ThreadsOK'
    BY DEF BoilerInv, TypeOK, ThreadsOK, FastSent
  <2>. QED  BY <2>1, <2>2, <2>3, <2>4 DEF TypeOK
<1>2. /\ fast = "send" /\ canardMtx = "fast" /\ fast' = "idle" /\ controller_update' = FALSE
      /\ UNCHANGED <<controller_age, dimmer, boiler_temperature, limits, rx, node, fast_in,
                     silent, hot, reloaded>>
  BY DEF FastSent, heaterVars
<1>3. SilentInv'
  BY <1>2 DEF BoilerInv, SilentInv
<1>4. SetLocked'
  BY <1>2 DEF BoilerInv, SetLocked
<1>5. HotInv'
  <2>1. controller_age <= CONTROLLER_TIMEOUT /\ controller_age \in Nat /\ hot \in Nat
    BY <1>2, Constants DEF BoilerInv, SilentInv, TypeOK, ControlOK, HeaterOK
  <2>2. dimmer > 0 => HotOnce
    BY <1>2 DEF BoilerInv, HotInv
  <2>. QED  BY <1>2, <2>1, <2>2, Constants DEF BoilerInv, HotInv, HotOnce, Measured
<1>. QED  BY <1>1, <1>3, <1>4, <1>5 DEF BoilerInv

-----------------------------------------------------------------------------
(* Node thread *)

LEMMA Tick_step ==
  ASSUME BoilerInv, Tick
  PROVE  BoilerInv'
<1>1. /\ TypeOK /\ rx = "idle" /\ fast = "idle" /\ node = "idle"
      /\ fast_in = 0 => ~controller_update
  BY DEF BoilerInv, TypeOK, ThreadsOK, Tick, Quiet, fastRuns
<1>2. /\ node' = "status"
      /\ controller_age' = Older(controller_age)
      /\ silent' = UpTo(MaxSilent, silent)
      /\ fast_in' = (IF fast_in > 0 THEN fast_in - 1 ELSE 0)
      /\ UNCHANGED <<controller_dc, controller_update, boiler_dc, dimmer,
                     boiler_temperature, limits, meter, canardMtx, waiting, rx, fast, frame,
                     hot, reloaded>>
  BY DEF Tick, heaterVars, lockVars
<1>6. /\ controller_age' \in 0 .. AGE_WRAP - 1 /\ controller_age' \in Nat
      /\ controller_age + 1 < AGE_WRAP => controller_age' = controller_age + 1
      /\ controller_age' = controller_age + 1 \/ controller_age' = 0
  BY <1>1, <1>2, OlderIsAge, Constants DEF TypeOK, ControlOK, Age, Older
<1>7. /\ silent' \in 0 .. MaxSilent
      /\ silent <= CONTROLLER_TIMEOUT => silent' = silent + 1
      /\ silent > CONTROLLER_TIMEOUT => silent' = silent
  BY <1>1, <1>2, Constants DEF TypeOK, ControlOK, UpTo
<1>3. TypeOK'
  <2>1. ControlOK'
    BY <1>1, <1>2, <1>6, <1>7 DEF TypeOK, ControlOK
  <2>2. HeaterOK'
    BY <1>1, <1>2, Constants DEF TypeOK, HeaterOK
  <2>3. LockOK'
    BY <1>1, <1>2 DEF TypeOK, LockOK
  <2>4. ThreadsOK'
    BY <1>1, <1>2 DEF TypeOK, ThreadsOK, Reconfiguring
  <2>. QED  BY <2>1, <2>2, <2>3, <2>4 DEF TypeOK
<1>4. SilentInv'
  BY <1>1, <1>2, <1>6, <1>7, Constants DEF BoilerInv, SilentInv, TypeOK, ControlOK, HeaterOK
<1>5. HotInv'
  BY <1>1, <1>2, <1>6, Constants
     DEF BoilerInv, HotInv, HotOnce, Measured, TypeOK, ControlOK, HeaterOK
<1>8. SetLocked'
  BY <1>1, <1>2 DEF BoilerInv, SetLocked, Reconfiguring
<1>. QED  BY <1>3, <1>4, <1>5, <1>8 DEF BoilerInv

LEMMA App_step ==
  ASSUME BoilerInv, app_tick
  PROVE  BoilerInv'
<1>1. TypeOK /\ limits.max \in Int
  BY DEF BoilerInv, TypeOK, HeaterOK
<1>2. PICK t \in Temperatures :
        /\ boiler_temperature' = t
        /\ hot' = IF t <= limits.max THEN 0 ELSE UpTo(MaxHot, hot)
  BY DEF app_tick
<1>3. /\ t \in Int /\ node = "app"
      /\ reloaded' = (reloaded /\ controller_age <= CONTROLLER_TIMEOUT)
      /\ node' = (IF controller_age > CONTROLLER_TIMEOUT THEN "debug" ELSE "idle")
      /\ UNCHANGED <<controller_dc, controller_update, controller_age, boiler_dc, dimmer,
                     limits, meter, canardMtx, waiting, rx, fast, frame, fast_in, silent>>
  BY BoilerAssumption DEF app_tick, Step, controlVars, heaterVars, lockVars
<1>4. TypeOK'
  <2>1. ControlOK'
    BY <1>1, <1>3 DEF TypeOK, ControlOK
  <2>2. HeaterOK'
    <3>1. hot' \in 0 .. MaxHot
      BY <1>1, <1>2, Constants DEF TypeOK, HeaterOK, UpTo
    <3>2. boiler_temperature' \in Int
      BY <1>2, <1>3
    <3>3. reloaded' \in BOOLEAN
      BY <1>3, Zenon
    <3>. QED  BY <1>1, <1>3, <3>1, <3>2, <3>3 DEF TypeOK, HeaterOK
  <2>3. LockOK'
    BY <1>1, <1>3 DEF TypeOK, LockOK
  <2>4. ThreadsOK'
    BY <1>1, <1>3 DEF TypeOK, ThreadsOK
  <2>. QED  BY <2>1, <2>2, <2>3, <2>4 DEF TypeOK
<1>7. SetLocked'
  BY <1>3 DEF BoilerInv, SetLocked
<1>5. SilentInv'
  <2>1. CASE controller_age > CONTROLLER_TIMEOUT
    BY <1>3, <2>1 DEF BoilerInv, SilentInv
  <2>2. CASE ~(controller_age > CONTROLLER_TIMEOUT)
    <3>1. controller_age <= CONTROLLER_TIMEOUT
      BY <1>1, <2>2, Constants DEF TypeOK, ControlOK
    <3>2. reloaded' = reloaded
      BY <1>1, <1>3, <3>1, Zenon DEF TypeOK, HeaterOK
    <3>. QED  BY <1>3, <2>2, <3>2 DEF BoilerInv, SilentInv
  <2>. QED  BY <2>1, <2>2
<1>6. HotInv'
  BY <1>1, <1>2, <1>3, Constants
     DEF BoilerInv, HotInv, HotOnce, Measured, UpTo, TypeOK, ControlOK, HeaterOK
<1>. QED  BY <1>4, <1>5, <1>6, <1>7 DEF BoilerInv

LEMMA Locks_step ==
  ASSUME BoilerInv, NodeLocks
  PROVE  BoilerInv'
<1>1. TypeOK'
  <2>1. ControlOK'
    BY DEF BoilerInv, TypeOK, ControlOK, NodeLocks, controlVars
  <2>2. HeaterOK'
    BY DEF BoilerInv, TypeOK, HeaterOK, NodeLocks, heaterVars
  <2>3. LockOK'
    BY DEF BoilerInv, TypeOK, LockOK, NodeLocks, Lock
  <2>4. ThreadsOK'
    BY DEF BoilerInv, TypeOK, ThreadsOK, NodeLocks
  <2>. QED  BY <2>1, <2>2, <2>3, <2>4 DEF TypeOK
<1>2. SilentInv' /\ SetLocked' /\ HotInv'
  BY DEF BoilerInv, SilentInv, SetLocked, Reconfiguring, HotInv, HotOnce, Measured, NodeLocks, controlVars,
         heaterVars
<1>. QED  BY <1>1, <1>2 DEF BoilerInv

LEMMA Unlocks_step ==
  ASSUME BoilerInv, NodeUnlocks
  PROVE  BoilerInv'
<1>1. \/ node = "status" /\ node' = "app"
      \/ node = "debug" /\ node' = "dc"
      \/ node = "send" /\ node' = "idle"
  BY DEF BoilerInv, TypeOK, LockOK, NodeUnlocks
<1>2. TypeOK'
  <2>1. ControlOK'
    BY DEF BoilerInv, TypeOK, ControlOK, NodeUnlocks, controlVars
  <2>2. HeaterOK'
    BY DEF BoilerInv, TypeOK, HeaterOK, NodeUnlocks, heaterVars
  <2>3. LockOK'
    BY UnlockType DEF BoilerInv, NodeUnlocks
  <2>4. ThreadsOK'
    BY <1>1 DEF BoilerInv, TypeOK, ThreadsOK, NodeUnlocks
  <2>. QED  BY <2>1, <2>2, <2>3, <2>4 DEF TypeOK
<1>3. SilentInv' /\ SetLocked' /\ HotInv'
  BY <1>1 DEF BoilerInv, SilentInv, SetLocked, Reconfiguring, HotInv, HotOnce, Measured, NodeUnlocks, controlVars,
              heaterVars
<1>. QED  BY <1>2, <1>3 DEF BoilerInv

LEMMA Stop_step ==
  ASSUME BoilerInv, StopDc \/ StopDimmer
  PROVE  BoilerInv'
<1>1. TypeOK'
  <2>1. ControlOK'
    BY DEF BoilerInv, TypeOK, ControlOK, StopDc, StopDimmer, controlVars
  <2>2. HeaterOK'
    BY DEF BoilerInv, TypeOK, HeaterOK, StopDc, StopDimmer
  <2>3. LockOK'
    BY DEF BoilerInv, TypeOK, LockOK, StopDc, StopDimmer, Step, lockVars
  <2>4. ThreadsOK'
    BY DEF BoilerInv, TypeOK, ThreadsOK, StopDc, StopDimmer, Step
  <2>. QED  BY <2>1, <2>2, <2>3, <2>4 DEF TypeOK
<1>2. /\ UNCHANGED <<controller_update, controller_age, boiler_temperature, limits,
                     canardMtx, rx, fast, fast_in, silent, hot, reloaded>>
      /\ \/ node = "dc" /\ node' = "dimmer" /\ dimmer' = dimmer
         \/ node = "dimmer" /\ node' = "send" /\ dimmer' = 0
  BY DEF StopDc, StopDimmer, Step, controlVars, lockVars
<1>3. SilentInv' /\ SetLocked'
  BY <1>2 DEF BoilerInv, SilentInv, SetLocked, Reconfiguring
<1>4. HotInv'
  BY <1>2 DEF BoilerInv, HotInv, HotOnce, Measured
<1>. QED  BY <1>1, <1>3, <1>4 DEF BoilerInv

LEMMA BoilerInv_step == BoilerInv /\ [Next]_vars => BoilerInv'
<1>. SUFFICES ASSUME BoilerInv, [Next]_vars  PROVE BoilerInv'
  OBVIOUS
<1>1. CASE UNCHANGED vars
  BY <1>1 DEF vars, controlVars, heaterVars, lockVars, BoilerInv, TypeOK, ControlOK,
              HeaterOK, LockOK, ThreadsOK, SilentInv, SetLocked, Reconfiguring, HotInv, HotOnce,
              Measured
<1>. QED
  BY <1>1, Receive_step, Obis_step, Status_step, Set_step, Reconfigure_step, Fast_step,
     Sent_step, Tick_step, App_step, Locks_step, Unlocks_step, Stop_step DEF Next

LEMMA BoilerInv_init == Init => BoilerInv
<1>. SUFFICES ASSUME Init  PROVE BoilerInv
  OBVIOUS
<1>1. TypeOK
  <2>1. ControlOK
    <3>1. meter = [last180 |-> FALSE, last280 |-> FALSE, fresh180 |-> FALSE]
      BY DEF Init
    <3>2. meter \in [last180 : BOOLEAN, last280 : BOOLEAN, fresh180 : BOOLEAN]
      BY <3>1
    <3>3. /\ controller_dc \in 0 .. 100 /\ controller_age \in 0 .. AGE_WRAP - 1
         /\ silent \in 0 .. MaxSilent
      BY Constants DEF Init
    <3>. QED  BY <3>2, <3>3, Zenon DEF Init, ControlOK
  <2>2. HeaterOK
    BY Constants, BoilerAssumption DEF Init, HeaterOK
  <2>3. LockOK
    BY DEF Init, LockOK
  <2>4. ThreadsOK
    BY DEF Init, ThreadsOK, Reconfiguring
  <2>. QED  BY <2>1, <2>2, <2>3, <2>4 DEF TypeOK
<1>2. SilentInv /\ SetLocked /\ HotInv
  BY Constants DEF Init, SilentInv, SetLocked, Reconfiguring, HotInv, HotOnce, Measured
<1>. QED  BY <1>1, <1>2 DEF BoilerInv

(* Types, and what the three threads leave to each other, for ever. *)
THEOREM BoilerInvariant == Spec => []BoilerInv
<1>. QED  BY BoilerInv_init, BoilerInv_step, PTL DEF Spec

(* HeaterOffWhenSilent: the heater is off when the readings have stopped,  *)
(* however receive, fast and node thread interrupt each other.             *)
THEOREM OffWithoutReadings == Spec => []HeaterOffWhenSilent
<1>1. BoilerInv => HeaterOffWhenSilent
  BY DEF BoilerInv, SilentInv, HeaterOffWhenSilent, Quiet, Heats
<1>. QED  BY <1>1, BoilerInvariant, PTL

(* HeaterOffWhenHot: a heater that is too hot does not stay on.            *)
THEOREM OffAboveTheLimit == Spec => []HeaterOffWhenHot
<1>1. BoilerInv => HeaterOffWhenHot
  <2>. SUFFICES ASSUME BoilerInv, Quiet, hot > CONTROLLER_TIMEOUT + 1, Heats
                PROVE  FALSE
    BY DEF HeaterOffWhenHot
  <2>1. ~controller_update /\ node = "idle" /\ dimmer > 0
    BY DEF Quiet, fastRuns, Heats, BoilerInv, TypeOK, HeaterOK, ThreadsOK
  <2>2. hot \in Nat /\ controller_age \in Nat
    BY Constants DEF BoilerInv, TypeOK, ControlOK, HeaterOK
  <2>3. controller_age <= CONTROLLER_TIMEOUT /\ hot <= controller_age + 1
    BY <2>1, <2>2, Constants DEF BoilerInv, HotInv, Measured
  <2>. QED  BY <2>2, <2>3, Constants
<1>. QED  BY <1>1, BoilerInvariant, PTL

-----------------------------------------------------------------------------
(* The table of the other boilers, among the threads *)

LEMMA Peers_step == PeersInv /\ BoilerInv /\ [Next]_vars => PeersInv'
<1>. SUFFICES ASSUME PeersInv, BoilerInv, [Next]_vars  PROVE PeersInv'
  OBVIOUS
<1>1. CASE UNCHANGED peerVars
  BY <1>1, Inv_step
<1>2. CASE HandleObis
  <2>1. CASE regulate
    <3>1. Regulate(calculate_priority)
      BY <1>2, <2>1 DEF regulate, HandleObis, Regulate
    <3>. QED  BY <3>1, TypeOK_regulate, Inv_regulate DEF PeersInv
  <2>2. CASE UNCHANGED tableVars
    BY <1>1, <1>2, <2>2 DEF HandleObis, peerVars
  <2>. QED  BY <1>2, <2>1, <2>2 DEF HandleObis, on_obis_data
<1>3. CASE HandleStatus
  <2>1. frame.from \in Nodes /\ frame.priority \in Priorities
    BY <1>3, FrameType DEF HandleStatus, HasFrame, BoilerInv
  <2>. QED
    BY <1>3, <2>1, TypeOK_status, Inv_status DEF HandleStatus, PeersInv
<1>4. CASE Tick
  BY <1>4, TypeOK_older, Inv_older DEF Tick, PeersInv
<1>. QED
  BY <1>1, <1>2, <1>3, <1>4
     DEF Next, vars, Receive, HandleSet, reconfigure, app_fast_tick, FastSent, app_tick,
         NodeLocks, NodeUnlocks, StopDc, StopDimmer

(* Whatever the threads do, the table says what PeersInv says. *)
THEOREM TableKept == Spec => []PeersInv
<1>1. Init => PeersInv
  BY Inv_init DEF Init
<1>. QED  BY <1>1, Peers_step, BoilerInvariant, PTL DEF Spec

(* YieldsToAll of a boiler with its threads: it does not take the power    *)
(* that another one claims.                                                *)
THEOREM ThreadsOverlookNobody == Spec => YieldsToAll
<1>. QED  BY TableKept, AllHeard, PTL DEF YieldsToAll

(* YieldsToSomebody of a boiler with its threads: it leaves the power to a *)
(* claim of the last 15 s, or to an entry it overlooked until its age had  *)
(* wrapped.                                                                *)
THEOREM ThreadsInventNobody == Spec => YieldsToSomebody
<1>. QED  BY TableKept, SomebodyHeard, PTL DEF YieldsToSomebody

=============================================================================
