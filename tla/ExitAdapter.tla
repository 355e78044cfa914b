----------------------------- MODULE ExitAdapter -----------------------------
(***************************************************************************)
(* The exit adapter (adapter/main.cpp, exit_adapter.hpp, lru_cache.hpp,    *)
(* packet_classifier.hpp, ip_flow.hpp).  Packets that arrive from the      *)
(* switch teach it the label stack of the way back, per transport tuple    *)
(* and per pair of addresses; packets from the TUN get the stack of their  *)
(* tuple, else of their pair, else one by rule.  A flush is a change of    *)
(* generation: old entries stay in the lists until they are reclaimed.     *)
(*                                                                         *)
(* A packet is a record of what parse_ip_flow() looks at; `flow` stands    *)
(* for addresses and ports, the same for both directions of a flow.        *)
(***************************************************************************)
EXTENDS Naturals, Sequences, FiniteSets, FiniteSetsExt, SequencesExt

CONSTANTS
  Packets,      \* [flow, headers, last, cut, frag]: last header's kind, where cut short, "whole", "first" or "later"
  PairOf,       \* flow -> pair of addresses
  PoolOf,       \* flow -> tuple with the client's port masked (l4_sport_key_bits)
  Labels,       \* stacks
  Rules,        \* sequence of rule sets: each a sequence of [flows, ports, stack]
  L4Only, L3Capacity, L4Capacity, L3Idle, L4Idle,
  Extensions,   \* how many extension headers are looked at
  Reclaim,      \* stale entries dropped at once
  MaxLearned, MaxFlushes

VARIABLES
  l3, l4,       \* caches: order_, the last used first, and generation_
  live3, live4, \* live_size_
  rules,        \* number of the rules in force, 0 if disabled
  connected,
  taught3, taught4, \* what was learned last of each pair and pool since the last flush
  sent,         \* the last packet sent to the switch
  learned
vars == <<l3, l4, live3, live4, rules, connected, taught3, taught4, sent, learned>>
caches == <<l3, l4, live3, live4>>
taught == <<taught3, taught4>>

None == "none"
NoPacket == [by |-> "none"]
Flows == {p.flow : p \in Packets}
Pairs == {PairOf[f] : f \in Flows}
Pools == {PoolOf[f] : f \in Flows}
Bad == [ok |-> FALSE]

\* parse_ip_flow(): cut in its headers, or with more of them than it follows, is not a flow.  A
\* later fragment shows no ports; nor do other protocols, or a packet cut before its ports.
Parse(p) ==
  IF p.cut = "headers" THEN Bad
  ELSE IF p.frag = "later" THEN [ok |-> TRUE, flow |-> p.flow, l4 |-> FALSE, fragmented |-> TRUE]
  ELSE IF p.headers > Extensions THEN Bad
  ELSE [ok |-> TRUE, flow |-> p.flow, l4 |-> p.last \in {"tcp", "udp"} /\ p.cut # "ports", fragmented |-> p.frag = "first"]

-----------------------------------------------------------------------------
\* LruCache.  The index entries_ is the set of keys of order_.
Empty == [order |-> <<>>, generation |-> 0]
Where(c, k) == {i \in DOMAIN c.order : c.order[i].key = k}
Current(c, e) == e.generation = c.generation
LiveEntries(c) == SelectSeq(c.order, LAMBDA e : Current(c, e))
Without(c, k) == SelectSeq(c.order, LAMBDA e : e.key # k)

RECURSIVE Reclaimed(_, _)
Reclaimed(c, budget) ==
  IF budget = 0 \/ c.order = <<>> \/ Current(c, Last(c.order)) THEN c
  ELSE Reclaimed([c EXCEPT !.order = Front(@)], budget - 1)
\* put(): reclaim(), then to the front, and the last ones out while there are too many.
Put(c, k, v, capacity) ==
  LET r == Reclaimed(c, Reclaim)
      order == <<[key |-> k, value |-> v, age |-> 0, generation |-> r.generation]>> \o Without(r, k) IN
  [r EXCEPT !.order = SubSeq(order, 1, Min({Len(order), capacity}))]
\* What put() does to live_size_.
LivePut(c, live, k, capacity) ==
  LET r == Reclaimed(c, Reclaim)
      was == \E i \in Where(r, k) : Current(r, r.order[i])
      out == IF Where(r, k) = {} /\ Len(r.order) = capacity /\ Current(r, Last(r.order)) THEN 1 ELSE 0 IN
  (IF was THEN live ELSE live + 1) - out
\* Variant: an entry from before the flush counts.
HitAny(c, k) == Where(c, k) # {}
Hit(c, k) == \E i \in Where(c, k) : Current(c, c.order[i])
Entry(c, k) == c.order[CHOOSE i \in Where(c, k) : TRUE]
Fresh(c, k, idle) == Hit(c, k) /\ Entry(c, k).age <= idle
\* get(): refreshed, or dropped if idle too long.
Get(c, k, idle) ==
  IF ~Hit(c, k) THEN c
  ELSE IF Fresh(c, k, idle) THEN [c EXCEPT !.order = <<[Entry(c, k) EXCEPT !.age = 0]>> \o Without(c, k)]
  ELSE [c EXCEPT !.order = Without(c, k)]
LiveGet(c, live, k, idle) == IF Hit(c, k) /\ ~Fresh(c, k, idle) THEN live - 1 ELSE live

-----------------------------------------------------------------------------
Init ==
  /\ l3 = Empty /\ l4 = Empty /\ live3 = 0 /\ live4 = 0 /\ rules \in 0 .. Len(Rules) /\ connected = FALSE
  /\ taught3 = [p \in Pairs |-> None] /\ taught4 = [p \in Pools |-> None] /\ sent = NoPacket /\ learned = 0

\* learn(): what is not a flow, or not an unfragmented tuple where only those count, is dropped.
Learns(d) == d.ok /\ ~(L4Only /\ (~d.l4 \/ d.fragmented))
\* try_handle_switch_packet() with an EXIT frame
FromSwitch(p, labels) ==
  LET d == Parse(p) IN
  /\ connected /\ Learns(d) /\ learned < MaxLearned /\ learned' = learned + 1
  /\ LET pair == PairOf[d.flow]
         pool == PoolOf[d.flow] IN
     /\ IF L4Only THEN UNCHANGED <<l3, live3, taught3>>
        ELSE /\ l3' = Put(l3, pair, labels, L3Capacity) /\ live3' = LivePut(l3, live3, pair, L3Capacity)
             /\ taught3' = [taught3 EXCEPT ![pair] = labels]
     /\ IF ~d.l4 THEN UNCHANGED <<l4, live4, taught4>>
        ELSE /\ l4' = Put(l4, pool, labels, L4Capacity) /\ live4' = LivePut(l4, live4, pool, L4Capacity)
             /\ taught4' = [taught4 EXCEPT ![pool] = labels]
  /\ sent' = NoPacket /\ UNCHANGED <<rules, connected>>

\* classify(): the first rule that matches; one with ports matches only what shows them.
Classified(d) ==
  IF rules = 0 THEN None
  ELSE LET ms == {i \in DOMAIN Rules[rules] : d.flow \in Rules[rules][i].flows /\ (Rules[rules][i].ports => d.l4)} IN
       IF ms = {} THEN None ELSE Rules[rules][Min(ms)].stack

\* lookup(): a tuple that is found refreshes its pair too.
TouchPair(byTuple) == TRUE
FromTun(p) ==
  LET d == Parse(p) IN
  /\ IF ~connected \/ ~d.ok THEN sent' = NoPacket /\ UNCHANGED caches
     ELSE LET pair == PairOf[d.flow]
              pool == PoolOf[d.flow]
              may4 == d.l4 /\ ~(L4Only /\ d.fragmented)
              by4 == may4 /\ Fresh(l4, pool, L4Idle)
              may3 == ~L4Only /\ TouchPair(by4)
              by3 == ~by4 /\ may3 /\ Fresh(l3, pair, L3Idle)
              rule == Classified(d) IN
          /\ IF may4 THEN l4' = Get(l4, pool, L4Idle) /\ live4' = LiveGet(l4, live4, pool, L4Idle) ELSE UNCHANGED <<l4, live4>>
          /\ IF may3 THEN l3' = Get(l3, pair, L3Idle) /\ live3' = LiveGet(l3, live3, pair, L3Idle) ELSE UNCHANGED <<l3, live3>>
          /\ sent' = IF by4 THEN [flow |-> d.flow, by |-> "l4", labels |-> Entry(l4, pool).value]
                     ELSE IF by3 THEN [flow |-> d.flow, by |-> "l3", labels |-> Entry(l3, pair).value]
                     ELSE IF rule # None THEN [flow |-> d.flow, by |-> "rule", labels |-> rule] ELSE NoPacket
  /\ UNCHANGED <<rules, connected, taught, learned>>

\* control(): load, load-flush, disable.  A body that does not parse changes nothing.
Flushed(c) == [c EXCEPT !.generation = @ + 1]
Load(r, flush) ==
  /\ rules' = r
  /\ IF flush THEN /\ l3.generation < MaxFlushes /\ l3' = Flushed(l3) /\ l4' = Flushed(l4) /\ live3' = 0 /\ live4' = 0
                   /\ taught3' = [p \in Pairs |-> None] /\ taught4' = [p \in Pools |-> None]
     ELSE r # rules /\ UNCHANGED <<caches, taught>>
  /\ sent' = NoPacket /\ UNCHANGED <<connected, learned>>
\* The loop calls reclaim() in every turn.
LoopReclaim == l3' = Reclaimed(l3, Reclaim) /\ l4' = Reclaimed(l4, Reclaim) /\ sent' = NoPacket /\ UNCHANGED <<live3, live4, rules, connected, taught, learned>>
\* disconnect_switch() and try_switch_reconnect(); what was learned stays.
Switch == connected' = ~connected /\ sent' = NoPacket /\ UNCHANGED <<caches, rules, taught, learned>>

Aged(c, idle) == [c EXCEPT !.order = [i \in DOMAIN @ |-> [@[i] EXCEPT !.age = Min({@ + 1, idle + 1})]]]
Tick == l3' = Aged(l3, L3Idle) /\ l4' = Aged(l4, L4Idle) /\ sent' = NoPacket /\ UNCHANGED <<live3, live4, rules, connected, taught, learned>>

Next ==
  \/ \E p \in Packets : FromTun(p) \/ \E labels \in Labels : FromSwitch(p, labels)
  \/ \E r \in 0 .. Len(Rules) : Load(r, FALSE) \/ (r > 0 /\ Load(r, TRUE))
  \/ LoopReclaim \/ Switch \/ Tick
Spec == Init /\ [][Next]_vars

-----------------------------------------------------------------------------
\* A packet that leaves by a cache bears the stack that was learned last, since the last flush, of
\* its tuple's pool, or of its pair of addresses.
LastTaught ==
  CASE sent.by = "l4" -> sent.labels = taught4[PoolOf[sent.flow]]
                   [] sent.by = "l3" -> sent.labels = taught3[PairOf[sent.flow]] [] OTHER -> TRUE

\* live_size_, which is kept by hand over flushes, evictions and expiry, counts the live entries,
\* and the index and the list hold at most the capacity, each key once.
Counted ==
  /\ live3 = Len(LiveEntries(l3)) /\ live4 = Len(LiveEntries(l4))
  /\ Len(l3.order) <= L3Capacity /\ Len(l4.order) <= L4Capacity
  /\ \A c \in {l3, l4} : Cardinality({e.key : e \in ToSet(c.order)}) = Len(c.order)

\* The pair of addresses has been used since any of its tuples was, so that packets without ports
\* still find their way while the flow is in use.
PairFresh ==
  \A i \in DOMAIN l3.order : \A j \in DOMAIN l4.order :
    Current(l3, l3.order[i]) /\ Current(l4, l4.order[j])
    /\ (\E f \in Flows : PairOf[f] = l3.order[i].key /\ PoolOf[f] = l4.order[j].key)
    => l3.order[i].age <= l4.order[j].age

\* The lists with their generations are caches by last use: entries of before a flush take no
\* room from those learned since, whatever was reclaimed.
Without0(s) == [i \in DOMAIN s |-> [key |-> s[i].key, value |-> s[i].value, age |-> s[i].age]]
Kept3 == Without0(LiveEntries(l3))
Kept4 == Without0(LiveEntries(l4))
\* What a cache of label stacks promises: s and t are its entries before and after a step, the
\* last used first.  As many are kept as fit; one that was not used for longer than the idle
\* timeout is not returned; after a flush there are none.
OthersThan(s, k) == SelectSeq(s, LAMBDA e : e.key # k)
UsedLast(s, k, v) == <<[key |-> k, value |-> v, age |-> 0]>> \o OthersThan(s, k)
LruStep(s, t, keys, capacity, idle) ==
  \/ t = s \/ t = <<>>
  \/ \E k \in keys, v \in Labels :
       LET u == UsedLast(s, k, v) IN t = SubSeq(u, 1, IF Len(u) < capacity THEN Len(u) ELSE capacity)
  \/ \E e \in ToSet(s) : t = IF e.age <= idle THEN UsedLast(s, e.key, e.value) ELSE OthersThan(s, e.key)
  \/ t = [i \in DOMAIN s |-> [s[i] EXCEPT !.age = IF @ > idle THEN @ ELSE @ + 1]]
UsesByLast == LruStep(Kept3, Kept3', Pairs, L3Capacity, L3Idle) /\ LruStep(Kept4, Kept4', Pools, L4Capacity, L4Idle)
=============================================================================
