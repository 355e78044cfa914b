----------------------------- MODULE Learning -----------------------------
(***************************************************************************)
(* Which flows the divert adapter takes over after its start: Admission of *)
(* divert/flows.hpp for an adapter on its own, and SharedFlows::classify   *)
(* for the workers of a group.  Both are fed the same packets.  A worker   *)
(* reads the clock when a packet comes and classifies it later.            *)
(***************************************************************************)
EXTENDS Naturals, Sequences, FiniteSets

CONSTANTS
  Tcp, Udp,     \* flows, in either direction: canonical keys
  Workers,
  None,
  Capacity,     \* of each table
  MaxPackets    \* bound of a behaviour

Flows == Tcp \cup Udp

(* Ages since the first packet: under a minute, an hour, a day, and more.  *)
Minute == 0
Hour == 1
Day == 2
Later == 3

VARIABLES
  age,       \* of the group
  packet,    \* what each worker holds: the packet and the age it read
  table,     \* the group's table: the value of each flow in it
  local,     \* the sets of Admission
  trace      \* packets decided so far

vars == <<age, packet, table, local, trace>>

Init ==
  /\ age = Minute
  /\ packet = [w \in Workers |-> None]
  /\ table = [f \in Flows |-> None]
  /\ local = [existing_tcp |-> {}, diverted_tcp |-> {}, existing_udp |-> {}]
  /\ trace = <<>>
-----------------------------------------------------------------------------
End(f) == IF f \in Tcp THEN Later ELSE Day

(* Variant: the sets go with the first minute.                             *)
MaintainedEarly(sets, now) ==
  [existing_tcp |-> IF now >= Later THEN {} ELSE sets.existing_tcp,
   diverted_tcp |-> IF now >= Hour THEN {} ELSE sets.diverted_tcp,
   existing_udp |-> IF now >= Day THEN {} ELSE sets.existing_udp]

Maintained(sets, now) ==
  [existing_tcp |-> IF now >= Later THEN {} ELSE sets.existing_tcp,
   diverted_tcp |-> IF now >= Day THEN {} ELSE sets.diverted_tcp,
   existing_udp |-> IF now >= Day THEN {} ELSE sets.existing_udp]

Decided(result, state) == [result |-> result, state |-> state]

Remember(sets, name, f, result) ==
  IF f \in sets[name] \/ Cardinality(sets[name]) < Capacity
    THEN Decided(result, [sets EXCEPT ![name] = @ \cup {f}])
    ELSE Decided("full", sets)

Classify(all, p) ==
  LET sets == Maintained(all, p.age)
      f == p.flow
  IN  CASE p.age >= End(f) -> Decided("proxy", sets)
        [] p.age < End(f) /\ f \in Tcp ->
             IF f \in sets.existing_tcp THEN Decided("bypass", sets)
             ELSE IF p.age >= Day \/ f \in sets.diverted_tcp THEN Decided("proxy", sets)
             ELSE IF p.syn THEN Remember(sets, "diverted_tcp", f, "proxy")
             ELSE Remember(sets, "existing_tcp", f, "bypass")
        [] OTHER ->
             IF p.age = Minute THEN Remember(sets, "existing_udp", f, "bypass")
             ELSE Decided(IF f \in sets.existing_udp THEN "bypass" ELSE "proxy", sets)

(* Table::insert: each kind of value has its share of the places.          *)
Insert(entries, f, value, result) ==
  IF Cardinality({g \in Flows : entries[g] = value}) < Capacity
    THEN Decided(result, [entries EXCEPT ![f] = value])
    ELSE Decided("full", entries)

(* The sharing workers' version: one table, under the lock of its shard.   *)
SharedTcp(entries, p) ==
  LET f == p.flow
  IN  IF entries[f] # None THEN Decided(IF entries[f] = 0 THEN "bypass" ELSE "proxy", entries)
      ELSE IF p.age >= Day THEN Decided("proxy", entries)
      ELSE IF p.syn THEN Insert(entries, f, 1, "proxy")
      ELSE Insert(entries, f, 0, "bypass")

SharedUdp(entries, p) ==
  IF entries[p.flow] # None THEN Decided("bypass", entries)
  ELSE IF p.age > Minute THEN Decided("proxy", entries)
  ELSE Insert(entries, p.flow, 2, "bypass")

SharedClassify(entries, p) ==
  IF p.age >= End(p.flow) THEN Decided("proxy", entries)
  ELSE IF p.flow \in Tcp THEN SharedTcp(entries, p)
  ELSE SharedUdp(entries, p)
-----------------------------------------------------------------------------
(* Time counts from the first packet.                                      *)
Tick ==
  /\ age < Later /\ trace # <<>>
  /\ age' = age + 1
  /\ UNCHANGED <<packet, table, local, trace>>

Receive(w, f, syn) ==
  /\ packet[w] = None
  /\ Len(trace) + Cardinality({v \in Workers : packet[v] # None}) < MaxPackets
  /\ packet' = [packet EXCEPT ![w] = [flow |-> f, syn |-> syn /\ f \in Tcp, age |-> age]]
  /\ UNCHANGED <<age, table, local, trace>>

Decide(w) ==
  /\ packet[w] # None
  /\ LET shared == SharedClassify(table, packet[w])
         alone == Classify(local, packet[w])
     IN  /\ table' = shared.state
         /\ local' = alone.state
         /\ trace' = Append(trace, [flow |-> packet[w].flow, syn |-> packet[w].syn,
                                    age |-> packet[w].age,
                                    shared |-> shared.result, alone |-> alone.result])
  /\ packet' = [packet EXCEPT ![w] = None]
  /\ UNCHANGED age

(* Every turn of the loop of an adapter on its own, between packets.       *)
Maintain ==
  /\ trace # <<>> /\ \A w \in Workers : packet[w] = None
  /\ local' = Maintained(local, age)
  /\ UNCHANGED <<age, packet, table, trace>>

Next ==
  \/ Tick \/ Maintain
  \/ \E w \in Workers : Decide(w) \/ \E f \in Flows, syn \in BOOLEAN : Receive(w, f, syn)

Spec == Init /\ [][Next]_vars
-----------------------------------------------------------------------------
Of(f) == {i \in DOMAIN trace : trace[i].flow = f}

(* A flow that once went round the adapter is not taken over before its    *)
(* learning time ends, whichever worker its packets come to, whatever they *)
(* say and however late a worker classifies.                               *)
Protected ==
  \A f \in Flows : \A i, j \in Of(f) :
    i < j /\ trace[i].shared = "bypass" /\ trace[j].shared = "proxy" => trace[j].age >= End(f)

(* In the first hour no connection is taken over in its middle: one that   *)
(* is diverted was diverted with a SYN, also when the tables are full.     *)
WholeConnections ==
  \A f \in Tcp : \A j \in Of(f) :
    trace[j].shared = "proxy" /\ trace[j].age < Day =>
      \E i \in Of(f) : i <= j /\ trace[i].syn /\ trace[i].shared = "proxy"

(* For packets classified in the order of the clock the group decides as   *)
(* an adapter on its own, although it frees none of its memory.            *)
Agree == \A i \in DOMAIN trace : trace[i].shared = trace[i].alone

(* A flow that an adapter on its own has taken over is not given back.     *)
StaysDiverted ==
  \A f \in Flows : \A i, j \in Of(f) :
    i < j /\ trace[i].alone = "proxy" => trace[j].alone = "proxy"
=============================================================================
