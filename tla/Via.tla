-------------------------------- MODULE Via --------------------------------
(***************************************************************************)
(* Service chains (via/switch.hpp, via/codec.hpp, via/adapter.hpp, and     *)
(* divert/main.cpp with the flow table of divert/flows.hpp).  The switch   *)
(* keeps no flows: the envelope on a packet names a chain and a step, and  *)
(* the switch offers the packet to a live instance of the next service.    *)
(* An adapter keeps, per flow, the envelopes of both directions and puts   *)
(* them back on what its proxy emits; the proxy may emit either way at any *)
(* time.  An exit sends replies back with the envelope they came with.     *)
(*                                                                         *)
(* Labels are abstracted to the flow they belong to.  A chain's rule has   *)
(* one output.  Left out: label overflow, relayed attachments (several     *)
(* ports per side of an instance), the legacy envelope.                    *)
(***************************************************************************)
EXTENDS Naturals, Sequences, FiniteSets, FiniteSetsExt, SequencesExt

CONSTANTS
  Flows, OriginOf,          \* flows and the port each comes from
  Rulesets,                 \* sequence: rules as loaded; [origin |-> [adhoc |-> services, rule |-> services]]
  InstancesOf,              \* instances of a service, in the order of its definition
  Failover, Pass,           \* services with stickiness failover; with unavailable pass
  Rank,                     \* Rank[flow][instance]: the rendezvous order
  Unsteady, Loads,          \* ports that may go and come back; rules that may be loaded
  MaxNet, MaxChanges        \* bounds on frames under way and on changes of ports or rules

Origins == {OriginOf[f] : f \in Flows}
Services == DOMAIN InstancesOf
Instances == UNION {ToSet(InstancesOf[s]) : s \in Services}
ServiceOf(i) == CHOOSE s \in Services : i \in ToSet(InstancesOf[s])
Client(i) == <<"client", i>>
Server(i) == <<"server", i>>
Origin(o) == <<"origin", o>>
Exit == <<"exit", "x">>
Ports == {Client(i) : i \in Instances} \cup {Server(i) : i \in Instances} \cup {Origin(o) : o \in Origins} \cup {Exit}
Keys == Origins \X {"adhoc", "rule"}

VARIABLES
  live,       \* connected ports
  rules,      \* number of the rules in force
  ids,        \* State: identifiers of the chains in force
  next,       \* State::next
  enabled,    \* Config::enabled
  table,      \* per instance and flow: envelopes of both directions, or None
  net,        \* frames: on their way to the switch or from it
  changes

vars == <<live, rules, ids, next, enabled, table, net, changes>>
control == <<live, rules, ids, next, enabled, changes>>
None == [chain |-> 0]

PlanIn(r, k) == Rulesets[r][k[1]][k[2]]
Plan(k) == PlanIn(rules, k)
\* identify(): a chain that has services gets the next number.
Identify(r, from) ==
  LET order == SetToSeq({k \in Keys : PlanIn(r, k) # <<>>}) IN
  [k \in ToSet(order) |-> from + CHOOSE i \in DOMAIN order : order[i] = k]

Init ==
  /\ \E gone \in SUBSET Unsteady : live = Ports \ gone
  /\ rules = 1 /\ ids = Identify(1, 0) /\ next = Cardinality(DOMAIN ids) /\ enabled = FALSE
  /\ table = [i \in Instances |-> [f \in Flows |-> None]] /\ net = {} /\ changes = 0

-----------------------------------------------------------------------------
\* Instances with both sides connected; the one a flow goes to.
Available(s) == {i \in ToSet(InstancesOf[s]) : Client(i) \in live /\ Server(i) \in live}
First(s) == CHOOSE i \in Available(s) : \A j \in Available(s) : IndexFirstSubSeq(<<i>>, InstancesOf[s]) <= IndexFirstSubSeq(<<j>>, InstancesOf[s])
Sticky(s, f) == CHOOSE i \in Available(s) : \A j \in Available(s) : Rank[f][i] <= Rank[f][j]
Select(s, f, reverse) == IF s \in Failover THEN First(s) ELSE Sticky(s, f)

Down(port, f, env) == {[way |-> "down", port |-> port, flow |-> f, env |-> env]}
Up(port, f, env) == {[way |-> "up", port |-> port, flow |-> f, env |-> env]}

\* route(), end of the chain: to the rule's output with the whole stack, or back to the origin without.
Leave(f, env) == IF Exit \in live THEN Down(Exit, f, [env EXCEPT !.step = 0, !.action = "complete"]) ELSE {}
Home(f, env) == IF Origin(env.origin) \in live THEN Down(Origin(env.origin), f, env) ELSE {}
\* Variant: any service may be skipped.
Skippable(s) == TRUE
\* A service without instance may be skipped.
MaySkip(s) == s \in Pass
\* route(): from step n on, in the envelope's direction, to the first service that is not skipped.
Offer(k, f, env, n) ==
  LET plan == Plan(k)
      todo == {m \in DOMAIN plan : (IF env.reverse THEN m <= n ELSE m >= n) /\ ~(Available(plan[m]) = {} /\ MaySkip(plan[m]))} IN
  IF todo = {} THEN IF env.reverse THEN Home(f, env) ELSE Leave(f, env)
  ELSE LET m == IF env.reverse THEN Max(todo) ELSE Min(todo)
           i == Select(plan[m], f, env.reverse) IN
       IF Available(plan[m]) = {} THEN {}
       ELSE Down(IF env.reverse THEN Server(i) ELSE Client(i), f, [env EXCEPT !.step = m, !.action = "offer"])

\* route() of a packet without envelope: the first chain that applies.
Opened(f, k) ==
  [chain |-> ids[k], step |-> 0, action |-> "offer", reverse |-> FALSE, origin |-> k[1],
   plan |-> Plan(k), done |-> {}, since |-> changes]
Enters(f) ==
  LET o == OriginOf[f] IN
  IF <<o, "adhoc">> \in DOMAIN ids /\ enabled THEN Offer(<<o, "adhoc">>, f, Opened(f, <<o, "adhoc">>), 1)
  ELSE IF <<o, "rule">> \in DOMAIN ids THEN Offer(<<o, "rule">>, f, Opened(f, <<o, "rule">>), 1)
  ELSE {}

\* route() of a packet with envelope that came in by port p.
Routed(p, f, env) ==
  LET ks == {k \in DOMAIN ids : ids[k] = env.chain /\ k[1] = env.origin}
      k == CHOOSE k \in ks : TRUE
      plan == Plan(k)
      i == p[2] IN
  IF ks = {} THEN {}
  ELSE IF env.action = "complete"
  THEN IF p # Exit \/ env.reverse \/ env.step # 0 THEN {} ELSE Offer(k, f, [env EXCEPT !.reverse = TRUE], Len(plan))
  ELSE IF env.step \notin DOMAIN plan \/ p[1] \notin {"client", "server"} THEN {}
  ELSE IF i \notin Available(plan[env.step]) THEN {}
  ELSE IF env.action = "bypass" THEN
    IF p = Client(i) /\ ~env.reverse /\ Exit \in live THEN Down(Exit, f, None) ELSE {}
  ELSE IF env.action # "onward" \/ env.reverse # (p = Client(i)) THEN {}
  ELSE Offer(k, f, env, IF env.reverse THEN env.step - 1 ELSE env.step + 1)

\* possible(): the pairs of ports a plan of the parallel switch provides a way for.
Side(plan, ms, server) == {IF server THEN Server(i) ELSE Client(i) : i \in UNION {ToSet(InstancesOf[plan[m]]) : m \in ms}}
Possible(k, from, to) ==
  LET plan == Plan(k)
      N == DOMAIN plan
      Of(m) == ToSet(InstancesOf[plan[m]]) IN
  \/ from = Origin(k[1]) /\ to \in Side(plan, N, FALSE) \cup {Exit}
  \/ from = Exit /\ to \in Side(plan, N, TRUE) \cup {Origin(k[1])}
  \/ \E m \in N : \/ from \in {Client(i) : i \in Of(m)} /\ to \in Side(plan, {l \in N : l < m}, TRUE) \cup {Origin(k[1]), Exit}
                  \/ from \in {Server(i) : i \in Of(m)} /\ to \in Side(plan, {l \in N : l > m}, FALSE) \cup {Exit}

-----------------------------------------------------------------------------
Put(taken, fs) == Cardinality((net \ taken) \cup fs) <= MaxNet /\ net' = (net \ taken) \cup fs

Enter(f) == Origin(OriginOf[f]) \in live /\ Put({}, Enters(f)) /\ UNCHANGED <<control, table>>
Switch(x) == x \in net /\ x.way = "up" /\ Put({x}, IF x.port \in live THEN Routed(x.port, x.flow, x.env) ELSE {}) /\ UNCHANGED <<control, table>>
\* The exit's answer, and what arrives at an origin or without envelope.
Answer(x) ==
  /\ x \in net /\ x.way = "down" /\ x.port = Exit /\ x.env # None
  /\ Put({x}, {}) \/ Put({x}, Up(Exit, x.flow, x.env))
  /\ UNCHANGED <<control, table>>
Arrive(x) ==
  /\ x \in net /\ x.way = "down" /\ (x.port[1] = "origin" \/ x.env = None) /\ Put({x}, {}) /\ UNCHANGED <<control, table>>

SameContext(a, b) == a.chain = b.chain /\ a.step = b.step /\ a.origin = b.origin
\* BasicRoutes::learn()
Learned(e, env, client) ==
  IF e = None THEN {[client |-> env, server |-> env]}
  ELSE IF ~SameContext(e.client, env) THEN {}
  ELSE {IF client THEN [e EXCEPT !.client = env] ELSE [e EXCEPT !.server = env]}

\* handle() of a frame from the switch: bypassed, refused, or learned and given to the proxy.
Adapter(x) ==
  /\ x \in net /\ x.way = "down" /\ x.port[1] \in {"client", "server"}
  /\ LET i == x.port[2] IN
     LET side == x.port = Client(i)
         ready == Client(i) \in live /\ Server(i) \in live IN
     IF x.env = None \/ x.env.action # "offer" \/ x.env.reverse = side \/ ~ready THEN Put({x}, {}) /\ UNCHANGED table
     ELSE \/ Put({x}, {}) /\ UNCHANGED table      \* full
          \/ side /\ Put({x}, Up(x.port, x.flow, [x.env EXCEPT !.action = "bypass"])) /\ UNCHANGED table
          \/ /\ Put({x}, {})
             /\ LET es == Learned(table[i][x.flow], x.env, side) IN
                IF es = {} THEN UNCHANGED table ELSE \E e \in es : table' = [table EXCEPT ![i][x.flow] = e]
  /\ UNCHANGED control

\* handle() of a packet the proxy emits on one of its two sides.
Onward(env, i, side) ==
  [env EXCEPT !.reverse = side, !.action = "onward", !.done = IF side THEN @ ELSE @ \cup {<<env.step, i>>}]
Emit(i, f, side) ==
  LET e == table[i][f]
      p == IF side THEN Client(i) ELSE Server(i) IN
  /\ e # None /\ p \in live
  /\ Put({}, Up(p, f, Onward(IF side THEN e.server ELSE e.client, i, side)))
  /\ UNCHANGED <<control, table>>

\* BasicRoutes::maintain()
Expire(i, f) ==
  /\ table[i][f] # None /\ table' = [table EXCEPT ![i][f] = None] /\ UNCHANGED <<control, net>>

-----------------------------------------------------------------------------
Change == changes < MaxChanges /\ changes' = changes + 1
\* A port goes, with what was on its way to it, or comes back.
Toggle(p) ==
  /\ Change /\ live' = SymDiff(live, {p})
  /\ net' = {x \in net : x.port \in live'} /\ UNCHANGED <<rules, ids, next, enabled, table>>
\* rules load: a new SwitchPath with new chain identifiers.
Reload(r) ==
  /\ Change /\ rules' = r /\ ids' = Identify(r, next) /\ next' = next + Cardinality(DOMAIN ids')
  /\ UNCHANGED <<live, enabled, table, net>>
\* divert enable and stop.
Enable == Change /\ enabled' = ~enabled /\ UNCHANGED <<live, rules, ids, next, table, net>>

Next ==
  \/ \E f \in Flows : Enter(f)
  \/ \E x \in net : Switch(x) \/ Answer(x) \/ Arrive(x) \/ Adapter(x)
  \/ \E i \in Instances, f \in Flows : Expire(i, f) \/ \E side \in BOOLEAN : Emit(i, f, side)
  \/ (\E p \in Unsteady : Toggle(p)) \/ (\E r \in Loads : Reload(r)) \/ Enable
Spec == Init /\ [][Next]_vars

-----------------------------------------------------------------------------
Offered == {x \in net : x.way = "down" /\ x.port[1] \in {"client", "server"} /\ x.env # None}

\* What leaves by the exit with its envelope has been through an instance of every service of its
\* chain, but for those that may be skipped; instances that come and go, stale envelopes at
\* adapters and new rules never let it around one.
ChainHonoured ==
  \A x \in net : x.way = "down" /\ x.port = Exit /\ x.env # None =>
    \A m \in DOMAIN x.env.plan : x.env.plan[m] \in Pass \/ \E i \in ToSet(InstancesOf[x.env.plan[m]]) : <<m, i>> \in x.env.done

\* An envelope is only read with the chain it was opened for: the service a packet is offered to
\* is the one its own chain has at that step, also after new rules were loaded.
OwnChain == \A x \in Offered : x.env.step \in DOMAIN x.env.plan /\ ServiceOf(x.port[2]) = x.env.plan[x.env.step]

\* Both directions of a flow meet: while ports and rules stay as they were when the flow's packet
\* entered, its answer is offered to the instances the packet went through.
SameInstances ==
  \A x \in Offered : x.env.reverse /\ x.env.since = changes => <<x.env.step, x.port[2]>> \in x.env.done
\* Whatever route() decides, for any packet that may come in with the ports and rules as they are,
\* possible() has foreseen: the parallel switch has a way from the port to the target.
Foreseen ==
  /\ \A f \in Flows : \A y \in Enters(f) : \E k \in DOMAIN ids : Possible(k, Origin(OriginOf[f]), y.port)
  /\ \A x \in net : x.way = "up" =>
       \A y \in Routed(x.port, x.flow, x.env) : \E k \in DOMAIN ids : Possible(k, x.port, y.port)
=============================================================================
