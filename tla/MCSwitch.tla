------------------------------ MODULE MCSwitch ------------------------------
(***************************************************************************)
(* Instances of the components of the two switches, of the exit adapter    *)
(* and of the transport between them for TLC.  A run is about the          *)
(* components in Parts: each of its behaviours is one of a single          *)
(* component.                                                              *)
(***************************************************************************)
EXTENDS Spsc, WorkerLoop

CONSTANT Parts      \* the components of a run
VARIABLE part       \* the one that moves

\* Links of plans: two inputs of one output, with and without the second; three; both ways.
TwoInputs == {{<<1, 3>>, <<2, 3>>}, {<<1, 3>>}}
ThreeInputs == {{<<1, 4>>, <<2, 4>>, <<3, 4>>}}
BothWays == {{<<1, 2>>, <<2, 1>>}, {<<1, 2>>}}

Tunnels == {"t1", "t2", "t3"}
PlanRule(m, e, k, b) == [mappings |-> m, exits |-> e, trunks |-> k, back |-> b]
PlanRules == <<PlanRule({<<Tunnels, {"x", "y"}>>, <<{"x", "y"}, Tunnels>>}, {"x", "y"}, {}, FALSE),
               PlanRule({<<Tunnels, {"x"}>>, <<{"y", "x"}, {"t1", "y"}>>}, {"x", "t2"}, {"y"}, FALSE),
               PlanRule({<<{"t1"}, {"t2"}>>}, {}, {"x", "y"}, TRUE)>>

\* Rules of the switch: ports talk to each other, then each to itself.
Crossed == [a |-> "b", b |-> "a"]
Looped == [a |-> "a", b |-> "b"]

Stacks == INSTANCE RuleStacks WITH MaxLabels <- 3
Any == Stacks!AnyLabel
All == Stacks!Everything
Elem(k, v, u) == [kind |-> k, value |-> v, upper |-> u]
M(items, rest) == [items |-> items, rest |-> rest]
P(prefix, wild) == [prefix |-> prefix, wild |-> wild]
Star == P(<<>>, TRUE)
Fwd(in, match, to, template) ==
  [type |-> "forward", in |-> in, match |-> match, out |-> to, outMatch |-> template, stack |-> Stacks!OutputStack(template)]
Drop(in, match, to, outMatch) ==
  [type |-> "policy", in |-> in, match |-> match, out |-> to, outMatch |-> outMatch, allow |-> FALSE]
Map1(in, label, to, items, rest) ==
  [type |-> "mapping", in |-> in, label |-> label, out |-> to, stack |-> M(items, rest)]
Pol1(in, label, to, outLabel, allow) ==
  [type |-> "policy", in |-> in, label |-> label, out |-> to, outLabel |-> outLabel, allow |-> allow]
RoleOf(type, pattern) == [type |-> type, in |-> Star, out |-> pattern, match |-> All, label |-> Any]
Keep == [keep |-> TRUE, value |-> 0]
Put(v) == [keep |-> FALSE, value |-> v]
AB == <<"a", "b">>
One == Elem("exact", 1, 0)
Two == Elem("exact", 2, 0)
AsPrefix == P(<<"a">>, TRUE)
JustA == P(<<"a">>, FALSE)
JustAB == P(AB, FALSE)
JustB == P(<<"b">>, FALSE)
V1Forms == {Map1(AsPrefix, One, AsPrefix, <<Put(2), Keep>>, TRUE), Map1(JustA, Any, JustAB, <<Keep>>, TRUE),
            Map1(AsPrefix, One, JustB, <<Put(3)>>, FALSE), Pol1(AsPrefix, Any, AsPrefix, Two, TRUE),
            Pol1(Star, One, JustAB, Any, FALSE), Pol1(Star, Any, Star, Any, TRUE)}
V2Forms == {Fwd(AsPrefix, M(<<One>>, TRUE), AsPrefix, M(<<Two>>, TRUE)),
            Fwd(JustA, M(<<Elem("range", 1, 2), Any>>, FALSE), JustB, M(<<Any, Any>>, TRUE)),
            Fwd(Star, All, Star, All), Drop(AsPrefix, M(<<Elem("bits", 2, 0)>>, TRUE), Star, All),
            Drop(Star, All, JustAB, M(<<Two>>, TRUE)), Drop(Star, M(<<One>>, FALSE), AsPrefix, All)}
UpTo(S, n) == UNION {[1 .. k -> S] : k \in 1 .. n}
BidirForms == {Fwd(AsPrefix, M(m, mr), JustB, M(t, tr)) :
                 m \in UpTo({Any, One, Elem("range", 1, 2), Elem("bits", 2, 0)}, 2), t \in UpTo({Any, Two}, 2),
                 mr \in BOOLEAN, tr \in BOOLEAN}
Patterns == {AsPrefix, JustA, P(AB, TRUE), JustAB, JustB}
RoleForms == {RoleOf(t, p) : t \in {"exit", "trunk"}, p \in Patterns}
Legacy == {[in |-> p, label |-> n, to |-> <<"b">>, out |-> 1] : p \in Patterns, n \in {1, 2}}

\* Parts of a rule's text; ports are named like keywords, too.
PortNames == {"p*", "to", "drop", "allow", "via"}
Matches == {<<"17">>, <<"[", "*", ",", "17", "]">>, <<"[", "*", ",", "...", "]">>, <<"[", "17", ",", "...", "]">>,
            <<"[", "&", "42", ",", "<", "17", ",", "42", ">", "]">>, <<"<", "17", ",", "17", ">">>}
Sides1 == {<<n>> : n \in PortNames} \cup {<<n, ",", v>> : n \in PortNames, v \in {"*", "17"}}
Sides2 == {<<n>> : n \in PortNames} \cup {m \in Matches : m[1] = "["} \cup {<<n, ",">> \o m : n \in PortNames, m \in Matches}
Nothing == {<<>>}
From1 == Sides1 \cup Nothing
From2 == Sides2 \cup Nothing
Labelled == {<<",", "[", "17", "]">>, <<",", "[", "keep", ",", "42", ",", "...", "]">>}
To1 == {<<"to">> \o s : s \in Sides1} \cup {<<"to", n>> \o v : n \in PortNames, v \in Labelled} \cup Nothing
To2 == {<<"to">> \o s : s \in Sides2} \cup Nothing
Chains == {<<"via", "[", "s", "]">>, <<"via", "[", "s", ",", "to", "]">>} \cup Nothing
SwitchActions == {<<"allow">>, <<"drop">>, <<"allow", "bidir">>, <<"drop", "bidir">>}

\* The second rules chain the services the other way round, and chain the other origin without ad hoc rule.
Origins == [f1 |-> "a", f2 |-> "b"]
Both(adhoc, rule) == [adhoc |-> adhoc, rule |-> rule]
ChainRules == <<[a |-> Both(<<>>, <<"scan", "log">>), b |-> Both(<<"log">>, <<>>)],
                [a |-> Both(<<>>, <<"log", "scan">>), b |-> Both(<<"scan">>, <<>>)]>>
Ranks == [f1 |-> [s1 |-> 2, s2 |-> 1, l1 |-> 3], f2 |-> [s1 |-> 1, s2 |-> 2, l1 |-> 3]]

\* Two flows between the same hosts share a pool of ports or do not, a third is of other hosts.
Hosts == [f1 |-> "ab", f2 |-> "ab", f3 |-> "cd"]
Packet(f, h, k, c, g) == [flow |-> f, headers |-> h, last |-> k, cut |-> c, frag |-> g]
Plain == {Packet("f1", 0, "tcp", "no", "whole"), Packet("f2", 1, "udp", "no", "whole"), Packet("f3", 0, "tcp", "no", "whole"),
          Packet("f1", 0, "tcp", "no", "later")}
Odd == {Packet("f1", 0, "tcp", "no", "first"), Packet("f2", 0, "udp", "no", "whole"), Packet("f3", 2, "tcp", "no", "whole"),
        Packet("f2", 0, "icmp", "no", "whole"), Packet("f1", 0, "tcp", "headers", "whole"),
        Packet("f1", 0, "tcp", "ports", "whole"), Packet("f3", 0, "tcp", "no", "whole")}
Class(fs, ps, s) == [flows |-> fs, ports |-> ps, stack |-> s]
Classes == <<<<Class({"f1"}, TRUE, "r"), Class({"f1", "f3"}, FALSE, "s")>>>>

-----------------------------------------------------------------------------
(* Spsc (extended): the ring between two workers.                          *)
(* WorkerLoop (extended): two workers under a controller that publishes a  *)
(* plan and stops; with sockets that fill up and fail; and, for liveness,  *)
(* with one of these at a time.                                            *)
Sockets == INSTANCE WorkerLoop WITH
  MaxInput <- 1, MaxPublish <- 0, MaxFull <- 1, MaxFaults <- 1
Leaves == INSTANCE WorkerLoop WITH
  MaxInput <- 1, MaxPublish <- 0, MaxFull <- 1, MaxFaults <- 0
Pauses == INSTANCE WorkerLoop WITH
  MaxInput <- 0, MaxPublish <- 1, MaxFull <- 0, MaxFaults <- 0
-----------------------------------------------------------------------------
(* Forwarding: two inputs of an output, with plans that change; two ports  *)
(* that answer each other, with control frames; three inputs.              *)
VARIABLES forward_ports, joined, forward_links, forward_queue, pending, source_cursor, control, held, in_use,
          disconnected, forward_received, forward_delivered, skipped, published
Forward == INSTANCE Forwarding WITH
  Ports <- 1 .. 3, FirstPorts <- {1, 3}, Plans <- TwoInputs, PoolSize <- 2, QueueSize <- 2, ControlSize <- 0,
  Batch <- 2, MaxFrames <- 3, MaxPublish <- 2, ports <- forward_ports, links <- forward_links,
  queue <- forward_queue, received <- forward_received, delivered <- forward_delivered
Routed == INSTANCE Forwarding WITH
  Ports <- {1, 2}, FirstPorts <- {1, 2}, Plans <- BothWays, PoolSize <- 2, QueueSize <- 1, ControlSize <- 1,
  Batch <- 1, MaxFrames <- 2, MaxPublish <- 1, ports <- forward_ports, links <- forward_links,
  queue <- forward_queue, received <- forward_received, delivered <- forward_delivered
Sweeps == INSTANCE Forwarding WITH
  Ports <- 1 .. 4, FirstPorts <- 1 .. 4, Plans <- ThreeInputs, PoolSize <- 1, QueueSize <- 1, ControlSize <- 0,
  Batch <- 1, MaxFrames <- 3, MaxPublish <- 0, ports <- forward_ports, links <- forward_links,
  queue <- forward_queue, received <- forward_received, delivered <- forward_delivered
forwardVars == <<forward_ports, joined, forward_links, forward_queue, pending, source_cursor, control, held, in_use,
                 disconnected, forward_received, forward_delivered, skipped, published>>
forwardOff == forward_ports = 0 /\ joined = 0 /\ forward_links = 0 /\ forward_queue = 0 /\ pending = 0 /\
              source_cursor = 0 /\ control = 0 /\ held = 0 /\ in_use = 0 /\ disconnected = 0 /\
              forward_received = 0 /\ forward_delivered = 0 /\ skipped = 0 /\ published = 0
-----------------------------------------------------------------------------
(* Planning: more workers than the ports need, and fewer.                  *)
VARIABLES plan_ports, plan_rules, plan_links, owners, tasks, plan_version, generation
Plans_ == INSTANCE Planning WITH
  Names <- Tunnels \cup {"x", "y"}, Rulesets <- PlanRules, Budget <- 5, WorkPerThread <- 2, RxWeight <- 1,
  TxWeight <- 1, AdapterWeight <- 2, TrunkWeight <- 4, MaxPorts <- 4, MaxPlans <- 4, ports <- plan_ports,
  rules <- plan_rules, links <- plan_links, version <- plan_version
Shared == INSTANCE Planning WITH
  Names <- Tunnels \cup {"x", "y"}, Rulesets <- PlanRules, Budget <- 3, WorkPerThread <- 2, RxWeight <- 1,
  TxWeight <- 1, AdapterWeight <- 2, TrunkWeight <- 4, MaxPorts <- 4, MaxPlans <- 4, ports <- plan_ports,
  rules <- plan_rules, links <- plan_links, version <- plan_version
planVars == <<plan_ports, plan_rules, plan_links, owners, tasks, plan_version, generation>>
planOff == plan_ports = 0 /\ plan_rules = 0 /\ plan_links = 0 /\ owners = 0 /\ tasks = 0 /\ plan_version = 0 /\
           generation = 0
-----------------------------------------------------------------------------
(* SwitchTransport: a client as the producer, and an engine worker.        *)
VARIABLES tokens, payload, cursor, staged, transport_retry, socket, transport_received, reading, transport_delivered,
          accepted, transport_sent, drops, open, bad
ClientSide == INSTANCE SwitchTransport WITH
  Slots <- 2, Batch <- 2, RetrySize <- 2, SocketSize <- 2, LastToken <- 4, MaxFrames <- 6, Producers <- {"client"},
  retry <- transport_retry, received <- transport_received, delivered <- transport_delivered, sent <- transport_sent
EngineSide == INSTANCE SwitchTransport WITH
  Slots <- 3, Batch <- 3, RetrySize <- 2, SocketSize <- 2, LastToken <- 4, MaxFrames <- 7, Producers <- {"worker"},
  retry <- transport_retry, received <- transport_received, delivered <- transport_delivered, sent <- transport_sent
transportVars == <<tokens, payload, cursor, staged, transport_retry, socket, transport_received, reading,
                   transport_delivered, accepted, transport_sent, drops, open, bad>>
transportOff == tokens = 0 /\ payload = 0 /\ cursor = 0 /\ staged = 0 /\ transport_retry = 0 /\ socket = 0 /\
                transport_received = 0 /\ reading = 0 /\ transport_delivered = 0 /\ accepted = 0 /\
                transport_sent = 0 /\ drops = 0 /\ open = 0 /\ bad = 0
-----------------------------------------------------------------------------
(* Registration: two clients, of two names or of one.                      *)
VARIABLES cl, conn, epoch
TwoNames == INSTANCE Registration WITH
  Clients <- {1, 2}, NameOf <- <<"a", "b">>, ModeOf <- <<"auto", "auto">>, SlotsOf <- <<2, 3>>, BatchOf <- <<2, 3>>,
  SMode <- "auto", SSlots <- 2, SBatch <- 2, MaxPorts <- 1, MaxPending <- 2, Budget <- 5, MaxEpoch <- 2,
  Conns <- {1, 2}
SameName == INSTANCE Registration WITH
  Clients <- {1, 2}, NameOf <- <<"a", "a">>, ModeOf <- <<"auto", "inline">>, SlotsOf <- <<2, 3>>,
  BatchOf <- <<2, 3>>, SMode <- "auto", SSlots <- 2, SBatch <- 2, MaxPorts <- 1, MaxPending <- 2, Budget <- 5,
  MaxEpoch <- 2, Conns <- {1, 2}
Registers == INSTANCE Registration WITH
  Clients <- {1, 2}, NameOf <- <<"a", "a">>, ModeOf <- <<"auto", "auto">>, SlotsOf <- <<2, 3>>, BatchOf <- <<2, 3>>,
  SMode <- "auto", SSlots <- 2, SBatch <- 2, MaxPorts <- 1, MaxPending <- 1, Budget <- 5, MaxEpoch <- 1,
  Conns <- {1, 2}
regVars == <<cl, conn, epoch>>
regOff == cl = 0 /\ conn = 0 /\ epoch = 0
-----------------------------------------------------------------------------
(* SwitchLoop: three connections for one place; two that exchange frames   *)
(* under rules that change; one that never pauses beside another.          *)
VARIABLES link, port, sw_retry, list, backlog, input, hup, sw_sent, sw_rules, pc, sw_next, polled, ready, hung,
          accepting, round, offset, progress, latest, got, stale, sw_faults
Owners == INSTANCE SwitchLoop WITH
  Clients <- {1, 2, 3}, PortOf <- <<"a", "a", "b">>, Route <- <<Crossed, Looped>>, MaxPorts <- 1, MaxPending <- 1,
  RetrySize <- 1, Rounds <- 1, MaxFrames <- 0, Endless <- {}, Faults <- 1, retry <- sw_retry, sent <- sw_sent,
  rules <- sw_rules, next <- sw_next, faults <- sw_faults
Frames == INSTANCE SwitchLoop WITH
  Clients <- {1, 3}, PortOf <- <<"a", "a", "b">>, Route <- <<Crossed, Looped>>, MaxPorts <- 2, MaxPending <- 1,
  RetrySize <- 2, Rounds <- 1, MaxFrames <- 2, Endless <- {}, Faults <- 0, retry <- sw_retry, sent <- sw_sent,
  rules <- sw_rules, next <- sw_next, faults <- sw_faults
Served == INSTANCE SwitchLoop WITH
  Clients <- {1, 2}, PortOf <- <<"a", "b">>, Route <- <<Looped>>, MaxPorts <- 3, MaxPending <- 1, RetrySize <- 1,
  Rounds <- 1, MaxFrames <- 1, Endless <- {1}, Faults <- 0, retry <- sw_retry, sent <- sw_sent, rules <- sw_rules,
  next <- sw_next, faults <- sw_faults
swVars == <<link, port, sw_retry, list, backlog, input, hup, sw_sent, sw_rules, pc, sw_next, polled, ready, hung,
            accepting, round, offset, progress, latest, got, stale, sw_faults>>
swOff == link = 0 /\ port = 0 /\ sw_retry = 0 /\ list = 0 /\ backlog = 0 /\ input = 0 /\ hup = 0 /\ sw_sent = 0 /\
         sw_rules = 0 /\ pc = 0 /\ sw_next = 0 /\ polled = 0 /\ ready = 0 /\ hung = 0 /\ accepting = 0 /\
         round = 0 /\ offset = 0 /\ progress = 0 /\ latest = 0 /\ got = 0 /\ stale = 0 /\ sw_faults = 0
-----------------------------------------------------------------------------
(* SwitchRules: files of the two formats, bidirectional rules, routes.     *)
VARIABLES statements, bidir, routes
RulesV1 == INSTANCE SwitchRules WITH
  MaxLabels <- 3, Format <- 1, Forms <- V1Forms, RouteForms <- {}, MaxRules <- 4, Ports <- {<<"a">>, AB},
  Labels <- 1 .. 3, Depth <- 2, Scores <- {0}
RulesV2 == INSTANCE SwitchRules WITH
  MaxLabels <- 3, Format <- 2, Forms <- V2Forms, RouteForms <- {}, MaxRules <- 3, Ports <- {<<"a">>, AB, <<"b">>},
  Labels <- {1, 2}, Depth <- 2, Scores <- {0, 1}
Bidir == INSTANCE SwitchRules WITH
  MaxLabels <- 3, Format <- 2, Forms <- BidirForms, RouteForms <- {}, MaxRules <- 2, Ports <- {<<"a">>, AB},
  Labels <- 1 .. 3, Depth <- 3, Scores <- {0}
LegacyRoutes == INSTANCE SwitchRules WITH
  MaxLabels <- 3, Format <- 2, Forms <- RoleForms, RouteForms <- Legacy, MaxRules <- 1,
  Ports <- {<<"a">>, AB, <<"b">>}, Labels <- {1, 2}, Depth <- 1, Scores <- {0}
ruleVars == <<statements, bidir, routes>>
ruleOff == statements = 0 /\ bidir = 0 /\ routes = 0
-----------------------------------------------------------------------------
(* RulesText: every line made of these parts, in format 1 and 3.           *)
VARIABLES line, loaded, shown, again
Text1 == INSTANCE RulesText WITH
  MaxLabels <- 8, Format <- 1, Lit <- <<"17", "42">>, Names <- PortNames, Sources <- From1, Destinations <- To1,
  Services <- Nothing, Actions <- SwitchActions \cup Nothing, Options <- {<<>>, <<"[", "id=x", "]">>}
Text3 == INSTANCE RulesText WITH
  MaxLabels <- 8, Format <- 3, Lit <- <<"17", "42">>, Names <- PortNames, Sources <- From2, Destinations <- To2,
  Services <- Chains, Actions <- SwitchActions, Options <- Nothing
textVars == <<line, loaded, shown, again>>
textOff == line = 0 /\ loaded = 0 /\ shown = 0 /\ again = 0
-----------------------------------------------------------------------------
(* Relay: two adapters; and one, over two sessions of the tunnel, with a   *)
(* socket that fails or without.                                           *)
VARIABLES sess, chan, relay_next, rev, acked, toC, toL, linked, up, down, reg, relay_live, relay_faults
Directory == INSTANCE Relay WITH
  Names <- {"a", "b"}, MaxChannel <- 2, MaxSession <- 1, MaxFaults <- 0, MaxNet <- 1, MaxPipe <- 1,
  next <- relay_next, live <- relay_live, faults <- relay_faults
Uplink == INSTANCE Relay WITH
  Names <- {"a"}, MaxChannel <- 1, MaxSession <- 2, MaxFaults <- 1, MaxNet <- 1, MaxPipe <- 1, next <- relay_next,
  live <- relay_live, faults <- relay_faults
Relays == INSTANCE Relay WITH
  Names <- {"a"}, MaxChannel <- 1, MaxSession <- 2, MaxFaults <- 0, MaxNet <- 1, MaxPipe <- 1, next <- relay_next,
  live <- relay_live, faults <- relay_faults
relayVars == <<sess, chan, relay_next, rev, acked, toC, toL, linked, up, down, reg, relay_live, relay_faults>>
relayOff == sess = 0 /\ chan = 0 /\ relay_next = 0 /\ rev = 0 /\ acked = 0 /\ toC = 0 /\ toL = 0 /\ linked = 0 /\
            up = 0 /\ down = 0 /\ reg = 0 /\ relay_live = 0 /\ relay_faults = 0
-----------------------------------------------------------------------------
(* Via: two origins, a service of two instances and one that may be        *)
(* skipped; ports that come and go, or rules that are loaded.              *)
VARIABLES via_live, via_rules, ids, via_next, enabled, table, net, changes
Chains_ == INSTANCE Via WITH
  Flows <- {"f1"}, OriginOf <- Origins, Rulesets <- ChainRules,
  InstancesOf <- [scan |-> <<"s1", "s2">>, log |-> <<"l1">>], Failover <- {}, Pass <- {"log"}, Rank <- Ranks,
  Unsteady <- {<<"client", "s2">>, <<"server", "s1">>, <<"server", "l1">>}, Loads <- {}, MaxNet <- 1,
  MaxChanges <- 1, live <- via_live, rules <- via_rules, next <- via_next
Reloaded == INSTANCE Via WITH
  Flows <- {"f1", "f2"}, OriginOf <- Origins, Rulesets <- ChainRules,
  InstancesOf <- [scan |-> <<"s1", "s2">>, log |-> <<"l1">>], Failover <- {"scan"}, Pass <- {"log"}, Rank <- Ranks,
  Unsteady <- {}, Loads <- {2}, MaxNet <- 1, MaxChanges <- 1, live <- via_live, rules <- via_rules, next <- via_next
viaVars == <<via_live, via_rules, ids, via_next, enabled, table, net, changes>>
viaOff == via_live = 0 /\ via_rules = 0 /\ ids = 0 /\ via_next = 0 /\ enabled = 0 /\ table = 0 /\ net = 0 /\
          changes = 0
-----------------------------------------------------------------------------
(* ExitAdapter: two flows between the same hosts, and a third.             *)
VARIABLES l3, l4, live3, live4, exit_rules, connected, taught3, taught4, exit_sent, learned
Exits == INSTANCE ExitAdapter WITH
  Packets <- Plain, PairOf <- Hosts, PoolOf <- [f1 |-> "ab1", f2 |-> "ab2", f3 |-> "cd1"], Labels <- {"u", "v"},
  Rules <- Classes, L4Only <- FALSE, L3Capacity <- 1, L4Capacity <- 2, L3Idle <- 1, L4Idle <- 1, Extensions <- 1,
  Reclaim <- 1, MaxLearned <- 3, MaxFlushes <- 1, rules <- exit_rules, sent <- exit_sent
ExitL4 == INSTANCE ExitAdapter WITH
  Packets <- Odd, PairOf <- Hosts, PoolOf <- [f1 |-> "ab1", f2 |-> "ab1", f3 |-> "cd1"], Labels <- {"u", "v"},
  Rules <- Classes, L4Only <- TRUE, L3Capacity <- 1, L4Capacity <- 1, L3Idle <- 0, L4Idle <- 0, Extensions <- 1,
  Reclaim <- 1, MaxLearned <- 3, MaxFlushes <- 1, rules <- exit_rules, sent <- exit_sent
exitVars == <<l3, l4, live3, live4, exit_rules, connected, taught3, taught4, exit_sent, learned>>
exitOff == l3 = 0 /\ l4 = 0 /\ live3 = 0 /\ live4 = 0 /\ exit_rules = 0 /\ connected = 0 /\ taught3 = 0 /\
           taught4 = 0 /\ exit_sent = 0 /\ learned = 0
-----------------------------------------------------------------------------
suiteVars == <<part, spscVars, vars, forwardVars, planVars, transportVars, regVars, swVars, ruleVars, textVars,
               relayVars, viaVars, exitVars>>

(* A behaviour is one of the component chosen, with the others at rest.    *)
SuiteInit ==
  /\ part \in Parts
  /\ SpscInit /\ Init
  /\ IF part = "forward" THEN Forward!Init ELSE
     IF part = "routed" THEN Routed!Init ELSE
     IF part = "sweeps" THEN Sweeps!Init ELSE forwardOff
  /\ IF part = "plans" THEN Plans_!Init ELSE
     IF part = "plans_shared" THEN Shared!Init ELSE planOff
  /\ IF part = "client" THEN ClientSide!Init ELSE
     IF part = "engine" THEN EngineSide!Init ELSE transportOff
  /\ IF part = "names" THEN TwoNames!Init ELSE
     IF part = "same" THEN SameName!Init ELSE
     IF part = "registers" THEN Registers!Init ELSE regOff
  /\ IF part = "owners" THEN Owners!Init ELSE
     IF part = "frames" THEN Frames!Init ELSE
     IF part = "served" THEN Served!Init ELSE swOff
  /\ IF part = "rules1" THEN RulesV1!Init ELSE
     IF part = "rules2" THEN RulesV2!Init ELSE
     IF part = "bidir" THEN Bidir!Init ELSE
     IF part = "legacy" THEN LegacyRoutes!Init ELSE ruleOff
  /\ IF part = "text1" THEN Text1!Init ELSE
     IF part = "text3" THEN Text3!Init ELSE textOff
  /\ IF part = "relay" THEN Directory!Init ELSE
     IF part = "uplink" THEN Uplink!Init ELSE
     IF part = "relays" THEN Relays!Init ELSE relayOff
  /\ IF part = "chains" THEN Chains_!Init ELSE
     IF part = "reload" THEN Reloaded!Init ELSE viaOff
  /\ IF part = "exit" THEN Exits!Init ELSE
     IF part = "exit_l4" THEN ExitL4!Init ELSE exitOff
Rest ==
  /\ UNCHANGED part
  /\ part # "spsc" => UNCHANGED spscVars
  /\ part \notin {"worker", "sockets", "leaves", "pauses"} => UNCHANGED vars
  /\ part \notin {"forward", "routed", "sweeps"} => UNCHANGED forwardVars
  /\ part \notin {"plans", "plans_shared"} => UNCHANGED planVars
  /\ part \notin {"client", "engine"} => UNCHANGED transportVars
  /\ part \notin {"names", "same", "registers"} => UNCHANGED regVars
  /\ part \notin {"owners", "frames", "served"} => UNCHANGED swVars
  /\ part \notin {"rules1", "rules2", "bidir", "legacy"} => UNCHANGED ruleVars
  /\ part \notin {"text1", "text3"} => UNCHANGED textVars
  /\ part \notin {"relay", "uplink", "relays"} => UNCHANGED relayVars
  /\ part \notin {"chains", "reload"} => UNCHANGED viaVars
  /\ part \notin {"exit", "exit_l4"} => UNCHANGED exitVars
SuiteNext ==
  /\ Rest
  /\ \/ part = "spsc" /\ SpscNext
     \/ part = "worker" /\ Next
     \/ part = "sockets" /\ Sockets!Next
     \/ part = "leaves" /\ Leaves!Next
     \/ part = "pauses" /\ Pauses!Next
     \/ part = "forward" /\ Forward!Next
     \/ part = "routed" /\ Routed!Next
     \/ part = "sweeps" /\ Sweeps!Next
     \/ part = "plans" /\ Plans_!Next
     \/ part = "plans_shared" /\ Shared!Next
     \/ part = "client" /\ ClientSide!Next
     \/ part = "engine" /\ EngineSide!Next
     \/ part = "names" /\ TwoNames!Next
     \/ part = "same" /\ SameName!Next
     \/ part = "registers" /\ Registers!Next
     \/ part = "owners" /\ Owners!Next
     \/ part = "frames" /\ Frames!Next
     \/ part = "served" /\ Served!Next
     \/ part = "rules1" /\ RulesV1!Next
     \/ part = "rules2" /\ RulesV2!Next
     \/ part = "bidir" /\ Bidir!AddBidir
     \/ part = "legacy" /\ LegacyRoutes!Next
     \/ part = "text1" /\ Text1!Next
     \/ part = "text3" /\ Text3!Next
     \/ part = "relay" /\ Directory!Next
     \/ part = "uplink" /\ Uplink!Next
     \/ part = "relays" /\ Relays!Next
     \/ part = "chains" /\ Chains_!Next
     \/ part = "reload" /\ Reloaded!Next
     \/ part = "exit" /\ Exits!Next
     \/ part = "exit_l4" /\ ExitL4!Next

SuiteSpec == SuiteInit /\ [][SuiteNext]_suiteVars
(* Threads and event loops run on, peers read their sockets, deadlines     *)
(* pass, the listen queue is served in its order, both ends of a tunnel    *)
(* activate its sessions, and of the snapshots that are sent again and     *)
(* again some get through.                                                 *)
SuiteFairSpec ==
  /\ SuiteSpec
  /\ \A w \in {"w1", "w2"} :
       /\ WF_vars((part = "leaves" /\ Leaves!Work(w)) \/ (part = "pauses" /\ Pauses!Work(w)))
       /\ WF_vars((part = "leaves" /\ Leaves!Drain(w)) \/ (part = "pauses" /\ Pauses!Drain(w)))
  /\ WF_vars((part = "leaves" /\ Leaves!Control) \/ (part = "pauses" /\ Pauses!Control))
  /\ WF_swVars(part = "served" /\ Served!Loop)
  /\ \A i \in {1, 2} :
       /\ WF_regVars(part = "registers" /\ Registers!Expire(i)) /\ WF_regVars(part = "registers" /\ Registers!ServerRead(i))
       /\ WF_regVars(part = "registers" /\ Registers!Reap(i))
  /\ WF_relayVars(part = "relays" /\ Relays!Connect) /\ WF_relayVars(part = "relays" /\ Relays!SwitchReceives)
  /\ WF_relayVars(part = "relays" /\ sess.l < sess.c /\ Relays!ListenerSession)
  /\ WF_relayVars(part = "relays" /\ sess.c < sess.l /\ Relays!ConnectorSession)
  /\ SF_<<regVars, relayVars>>((part = "registers" /\ Registers!Accept(1) /\ UNCHANGED relayVars)
                              \/ (part = "relays" /\ Relays!Through /\ UNCHANGED regVars))
  /\ SF_regVars(part = "registers" /\ Registers!Accept(2))
-----------------------------------------------------------------------------
(* A buffer is in use exactly while one queue, batch or handler holds it,  *)
(* and nothing holds one of a port that a publication freed; frames of a   *)
(* link leave in their order across partial sends, retained batches and    *)
(* new plans; and a link with frames is passed over at most once for every *)
(* other link of its output (queues.hpp:63, :81; runtime.hpp:465-473,      *)
(* :841, :959-963).                                                        *)
ForwardingSound ==
  /\ part = "forward" => Forward!EachBufferOnce /\ Forward!NothingFreed /\ Forward!InOrder
  /\ part = "routed" => Routed!EachBufferOnce /\ Routed!NothingFreed
  /\ part = "sweeps" => Sweeps!FairSweeps

(* Every port has one RX and one TX task, every task one job, and every    *)
(* route a queue that its target's owner reads; and the division of the    *)
(* jobs of a role is within 4/3 - 1/(3n) of the best (runtime.hpp,         *)
(* make_plan; scheduler.hpp).                                              *)
PlanSound ==
  /\ part = "plans" => Plans_!Wired /\ Plans_!NearBest
  /\ part = "plans_shared" => Shared!Wired

(* A mapped slot is taken exactly while a reference to it exists and keeps *)
(* its frame and word until the receiver gives it back; frames arrive in   *)
(* order whether mapped, inline or retried, and every one accepted was     *)
(* submitted, dropped or still waits (switch_mmap.hpp:61, :91, :127;       *)
(* switch_transport.hpp:148-188).                                          *)
TransportSound ==
  /\ part = "client" => /\ ClientSide!SlotsHeld /\ ClientSide!NoSlotLost
                        /\ ClientSide!InOrder /\ ClientSide!Outcomes
  /\ part = "engine" => EngineSide!SlotsHeld /\ EngineSide!NoSlotLost /\ EngineSide!InOrder

(* Ports that come and go: client and switch agree on transport, pools and *)
(* batch size, whichever declined mapping; one port per name, ports within *)
(* the capacity and pools within the memory budget, however many           *)
(* handshakes were under way together; no unsuccessful one replaces the    *)
(* port of its name (switch_mp/main.cpp:353); and the queue between two    *)
(* ports stays when others join or leave (runtime.hpp, make_plan).         *)
RegistrationSound ==
  [][/\ part = "names" => TwoNames!Agreed' /\ TwoNames!PortsBounded' /\ TwoNames!BudgetKept'
     /\ part = "same" => SameName!Agreed' /\ SameName!PortsBounded' /\ SameName!KeepsOld
     /\ part = "plans" => Plans_!KeepsQueues]_<<regVars, planVars>>

(* A port has the one connection that registered it last; no frame leaves  *)
(* under rules that were retired before; frames of a sender reach a        *)
(* receiver in order, retried or not (switch/main.cpp:399-431, :693); and  *)
(* every step of the exit's lists with their generations is a step of a    *)
(* cache by last use (LruStep): what a flush left behind takes no room     *)
(* (adapter/lru_cache.hpp:89).                                             *)
SwitchSound ==
  [][/\ part = "owners" => Owners!OneOwner'
     /\ part = "frames" => Frames!FreshRules' /\ Frames!KeepsOrder
     /\ part = "exit" => Exits!UsesByLast]_<<swVars, exitVars>>

(* The compiled program decides as the first applicable statement of the   *)
(* file says (docs/SWITCH_RULESET_V1.md, V2.md), and "Rules after the      *)
(* selected allow cannot change its decision."  The choice among equal     *)
(* targets does not depend on the connection table, and a port that goes   *)
(* moves only its own flows.  A bidirectional rule brings the reply back   *)
(* with the labels it matched.  A legacy route is the exact name's, else   *)
(* the longest prefix's, label by label.  And what "show" prints loads     *)
(* again with the same meaning, but for VIA rules that name neither side.  *)
RulesSound ==
  /\ part = "rules1" => RulesV1!FileOrder
  /\ part = "rules2" => RulesV2!FileOrder /\ RulesV2!LaterRulesIrrelevant /\ RulesV2!EcmpStable
  /\ part = "bidir" => Bidir!BidirRestores
  /\ part = "legacy" => LegacyRoutes!LongestPrefixWins
  /\ part = "text1" => Text1!ExportReloads
  /\ part = "text3" => Text3!ExportReloadsElse

(* The last without the exception: "so `show` remains reloadable"          *)
(* (docs/SWITCH_RULESET_V1.md:81).                                         *)
ExportReloads == part = "text3" => Text3!ExportReloads

(* Records are attributed to the adapter that sent them and delivered to   *)
(* the one they were routed to, however old they are; a revision names one *)
(* directory (relay/registry.hpp:49).                                      *)
RelaySound ==
  /\ part = "relay" => Directory!Attributed /\ Directory!RevisionFaithful
  /\ part = "uplink" => Uplink!Attributed /\ Uplink!RevisionFaithful

(* What leaves by the exit has been through its whole chain, and both      *)
(* directions of a flow met the same instances; possible() foresees        *)
(* whatever route() decides, so that the parallel switch has a queue for   *)
(* it; and an envelope is only read with the chain it was opened for       *)
(* (via/switch.hpp:227).                                                   *)
ChainSound ==
  /\ part = "chains" => Chains_!ChainHonoured /\ Chains_!SameInstances /\ Chains_!Foreseen
  /\ part = "reload" => Reloaded!OwnChain

(* A packet that leaves by a cache bears the stack learned last; a pair of *)
(* addresses was used since any of its tuples was; and live_size_, kept by *)
(* hand, counts the live entries (adapter/lru_cache.hpp:89).               *)
ExitSound ==
  /\ part = "exit" => Exits!LastTaught /\ Exits!Counted /\ Exits!PairFresh
  /\ part = "exit_l4" => ExitL4!LastTaught

(* Nobody waits for ever.  Every frame that reached an input socket leaves *)
(* unless the engine is stopped; pause() finds every worker wherever it    *)
(* is, and resume() and stop() return (runtime.hpp:244, :251, :875); the   *)
(* switch reads a connection that sent something, however busy the others  *)
(* (switch/main.cpp:814), and accepts one, whoever stalls.  And when       *)
(* adapters, sessions and sockets stop changing, the switch comes to know  *)
(* exactly the adapters that are there.                                    *)
Waits(i) ==
  CASE part = "leaves" -> i = 1 /\ ~stopping /\ Leaves!Total(inbox) + Leaves!Total(queue) > 0
    [] part = "pauses" -> i = 1 /\ main.at # "idle" /\ \E w \in {"w1", "w2"} : ~Pauses!At(w, "done")
    [] part = "served" -> i = 2 /\ Served!Open(2) /\ input[2] # <<>>
    [] part = "registers" -> conn[i].sst = "backlog"
    [] OTHER -> FALSE
AllServed == /\ \A i \in 1 .. 2 : Waits(i) ~> ~Waits(i)
             /\ <>[](part = "relays" => reg.epoch = sess.l /\ reg.dir = chan)
=============================================================================
