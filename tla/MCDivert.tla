------------------------------ MODULE MCDivert ------------------------------
(***************************************************************************)
(* Instances of the components of the divert adapter and of remote control *)
(* for TLC.  A run is about the components in Parts: each of its           *)
(* behaviours is one of a single component.                                *)
(***************************************************************************)
EXTENDS RemoteControl

CONSTANT Parts      \* the components of a run
CONSTANT None
VARIABLE part       \* the one that moves

Full == {"read", "change"}
End(n, p) == [node |-> n, port |-> p]
Ring == <<{End(1, "a"), End(2, "a")}, {End(2, "b"), End(3, "a")}, {End(3, "b"), End(1, "b")}, {End(3, "c"), End(4, "a")}>>
\* 1 - 2 - 3 - 6, then 4 takes the port of 3 at 2, 5 the port of 1, and 1 another port.
Chain == <<{End(1, "a"), End(2, "a")}, {End(2, "b"), End(3, "a")}, {End(2, "b"), End(4, "a")}, {End(2, "a"), End(5, "a")},
           {End(1, "a"), End(2, "c")}, {End(3, "b"), End(6, "a")}>>

-----------------------------------------------------------------------------
(* SharedTable: three flows in two nodes of one chain; two workers killed. *)
VARIABLES mem, mutex, todo, table_at, idle, table_crashes
Table == INSTANCE SharedTable WITH
  Keys <- {"f", "g", "h"}, Values <- {"f1", "f2", "g1", "h1"},
  Own <- [f |-> {"f1", "f2"}, g |-> {"g1"}, h |-> {"h1"}], KindOf <- [f1 |-> 1, f2 |-> 1, g1 |-> 1, h1 |-> 2],
  Bucket <- [f |-> 1, g |-> 1, h |-> 1], Slots <- 2, Quota <- 1, MaxCrashes <- 2, at <- table_at,
  crashes <- table_crashes
tableVars == <<mem, mutex, todo, table_at, idle, table_crashes>>
tableOff == mem = 0 /\ mutex = 0 /\ todo = 0 /\ table_at = 0 /\ idle = 0 /\ table_crashes = 0
-----------------------------------------------------------------------------
(* SharedGroup: three processes for two places, one of them killed.        *)
VARIABLES group_at, self, entering, slots, file, opens, group_crashes
Grouped == INSTANCE SharedGroup WITH
  Procs <- 1 .. 3, Slots <- {0, 1}, Ids <- {"i1", "i2"}, Configs <- {"c1", "c2"}, MaxOpens <- 4, MaxCrashes <- 1,
  at <- group_at, crashes <- group_crashes
Joins == INSTANCE SharedGroup WITH
  Procs <- 1 .. 2, Slots <- {0, 1}, Ids <- {"i1", "i2"}, Configs <- {"c1"}, MaxOpens <- 3, MaxCrashes <- 1,
  at <- group_at, crashes <- group_crashes
groupVars == <<group_at, self, entering, slots, file, opens, group_crashes>>
groupOff == group_at = 0 /\ self = 0 /\ entering = 0 /\ slots = 0 /\ file = 0 /\ opens = 0 /\ group_crashes = 0
-----------------------------------------------------------------------------
(* Learning: tables for one flow; one worker and two.                      *)
VARIABLES age, packet, table, local, trace
Alone == INSTANCE Learning WITH
  Tcp <- {"t1", "t2"}, Udp <- {"u1"}, Workers <- {"w1"}, Capacity <- 1, MaxPackets <- 4
Together == INSTANCE Learning WITH
  Tcp <- {"t1", "t2"}, Udp <- {"u1"}, Workers <- {"w1", "w2"}, Capacity <- 1, MaxPackets <- 3
learnVars == <<age, packet, table, local, trace>>
learnOff == age = 0 /\ packet = 0 /\ table = 0 /\ local = 0 /\ trace = 0
-----------------------------------------------------------------------------
(* DivertLoop: both sides of a path, in a group and alone.                 *)
VARIABLES pc, link, inbox, pending, tun, queues, staged, retry, round, left, arrived, read, sent, written, dropped, faults
Divert == INSTANCE DivertLoop WITH
  Paths <- {1}, Sides <- {0, 1}, Shared <- TRUE, Batch <- 2, Rounds <- 2, MaxPackets <- 3, MaxFaults <- 2
Local == INSTANCE DivertLoop WITH
  Paths <- {1}, Sides <- {0, 1}, Shared <- FALSE, Batch <- 2, Rounds <- 2, MaxPackets <- 2, MaxFaults <- 1
divertVars == <<pc, link, inbox, pending, tun, queues, staged, retry, round, left, arrived, read, sent, written,
                dropped, faults>>
divertOff == pc = 0 /\ link = 0 /\ inbox = 0 /\ pending = 0 /\ tun = 0 /\ queues = 0 /\ staged = 0 /\ retry = 0 /\
             round = 0 /\ left = 0 /\ arrived = 0 /\ read = 0 /\ sent = 0 /\ written = 0 /\ dropped = 0 /\ faults = 0
-----------------------------------------------------------------------------
(* RemoteControl is extended: a configuration gives its constants, and it  *)
(* rests in its initial state.  Further instances: one request of two      *)
(* blocks across session changes; two with more copies under way.          *)
BlocksOfBody == [a |-> 1, b |-> 0]
BlocksOfResponse == [a |-> 1, b |-> 1]
VARIABLES asked_of, served, served_order, remote_net, served_ran, served_evicted, remote_breaks
Sessions == INSTANCE RemoteControl WITH
  Ids <- {"a"}, Body <- [a |-> 2], Response <- [a |-> 2], Cheap <- {}, Retries <- 1, ActiveLimit <- 2,
  History <- {1, 2}, InFlight <- 3, Copies <- 2, Breaks <- 1, outgoing <- asked_of, incoming <- served,
  order <- served_order, net <- remote_net, ran <- served_ran, evicted <- served_evicted, breaks <- remote_breaks
Refused == INSTANCE RemoteControl WITH
  Ids <- {"a", "b"}, Body <- [a |-> 1, b |-> 1], Response <- [a |-> 1, b |-> 1], Cheap <- {}, Retries <- 1,
  ActiveLimit <- 2, History <- {1}, InFlight <- 2, Copies <- 2, Breaks <- 0, outgoing <- asked_of, incoming <- served,
  order <- served_order, net <- remote_net, ran <- served_ran, evicted <- served_evicted, breaks <- remote_breaks
servedVars == <<asked_of, served, served_order, remote_net, served_ran, served_evicted, remote_breaks>>
servedOff == asked_of = 0 /\ served = 0 /\ served_order = 0 /\ remote_net = 0 /\ served_ran = 0 /\
             served_evicted = 0 /\ remote_breaks = 0
-----------------------------------------------------------------------------
(* ControlAuth: the first key may only read, the request needs more.       *)
VARIABLES required, auth_asked, auth_outgoing, auth_incoming, responding, txn, made, auth_net, strange
AuthProof == INSTANCE ControlAuth WITH
  Requests <- {"r1"}, Need <- [r1 |-> Full, r2 |-> Full], Basic <- {"read"},
  Signing <- <<[key |-> "k1", caps |-> {"read"}], [key |-> "k2", caps |-> Full]>>,
  Trusted <- [k1 |-> {"read"}, k2 |-> Full], Requirements <- {None, "k2"}, MaxLive <- 8, MaxOut <- 1, Window <- 2,
  Retries <- 2, MaxChallenges <- 5, Faults <- {}, asked <- auth_asked, outgoing <- auth_outgoing,
  incoming <- auth_incoming, net <- auth_net
AuthLossy == INSTANCE ControlAuth WITH
  Requests <- {"r1"}, Need <- [r1 |-> Full, r2 |-> Full], Basic <- {"read"},
  Signing <- <<[key |-> "k1", caps |-> {"read"}], [key |-> "k2", caps |-> Full]>>,
  Trusted <- [k1 |-> {"read"}, k2 |-> Full], Requirements <- {None, "k2"}, MaxLive <- 2, MaxOut <- 1, Window <- 2,
  Retries <- 2, MaxChallenges <- 2, Faults <- {"loss", "expiry", "pacing"}, asked <- auth_asked,
  outgoing <- auth_outgoing, incoming <- auth_incoming, net <- auth_net
AuthRoom == INSTANCE ControlAuth WITH
  Requests <- {"r1", "r2"}, Need <- [r1 |-> Full, r2 |-> Full], Basic <- {"read"},
  Signing <- <<[key |-> "k1", caps |-> {"read"}], [key |-> "k2", caps |-> Full]>>,
  Trusted <- [k1 |-> {"read"}, k2 |-> Full], Requirements <- {None, "k2"}, MaxLive <- 2, MaxOut <- 1, Window <- 2,
  Retries <- 1, MaxChallenges <- 3, Faults <- {}, asked <- auth_asked, outgoing <- auth_outgoing,
  incoming <- auth_incoming, net <- auth_net
authVars == <<required, auth_asked, auth_outgoing, auth_incoming, responding, txn, made, auth_net, strange>>
authOff == required = 0 /\ auth_asked = 0 /\ auth_outgoing = 0 /\ auth_incoming = 0 /\ responding = 0 /\ txn = 0 /\
           made = 0 /\ auth_net = 0 /\ strange = 0
-----------------------------------------------------------------------------
(* ControlRouting: a ring of three with a node behind it; a chain.         *)
VARIABLES live, was, route_net, seen, route_asked, proved, disc, answers, replies, path, aim, sends, error
Flood == INSTANCE ControlRouting WITH
  Nodes <- 1 .. 4, Origin <- 1, Conns <- 1 .. 4, EndsOf <- Ring, Initially <- 1 .. 4, MaxHops <- 4, MaxPath <- 3,
  MaxSends <- 1, Required <- FALSE, Lossy <- FALSE, net <- route_net, asked <- route_asked
Proved == INSTANCE ControlRouting WITH
  Nodes <- 1 .. 4, Origin <- 1, Conns <- 1 .. 4, EndsOf <- Ring, Initially <- 1 .. 4, MaxHops <- 4, MaxPath <- 3,
  MaxSends <- 0, Required <- TRUE, Lossy <- FALSE, net <- route_net, asked <- route_asked
Replaced == INSTANCE ControlRouting WITH
  Nodes <- 1 .. 6, Origin <- 1, Conns <- 1 .. 6, EndsOf <- Chain, Initially <- {1, 2, 6}, MaxHops <- 3, MaxPath <- 4,
  MaxSends <- 2, Required <- FALSE, Lossy <- TRUE, net <- route_net, asked <- route_asked
routeVars == <<live, was, route_net, seen, route_asked, proved, disc, answers, replies, path, aim, sends, error>>
routeOff == live = 0 /\ was = 0 /\ route_net = 0 /\ seen = 0 /\ route_asked = 0 /\ proved = 0 /\ disc = 0 /\
            answers = 0 /\ replies = 0 /\ path = 0 /\ aim = 0 /\ sends = 0 /\ error = 0
-----------------------------------------------------------------------------
(* ControlSocket: room for all clients, and for one.                       *)
VARIABLES clients, listening, backoff, inside, events, waiting, accepted, connects, failures, executed
Socket == INSTANCE ControlSocket WITH
  Fds <- 1 .. 2, MaxClients <- 3, MaxConnects <- 3, MaxFailures <- 0
Crowded == INSTANCE ControlSocket WITH
  Fds <- {1, 2}, MaxClients <- 1, MaxConnects <- 2, MaxFailures <- 1
socketVars == <<clients, listening, backoff, inside, events, waiting, accepted, connects, failures, executed>>
socketOff == clients = 0 /\ listening = 0 /\ backoff = 0 /\ inside = 0 /\ events = 0 /\ waiting = 0 /\
             accepted = 0 /\ connects = 0 /\ failures = 0 /\ executed = 0
-----------------------------------------------------------------------------
vars == <<part, tableVars, groupVars, learnVars, divertVars, remoteVars, servedVars, authVars, routeVars, socketVars>>

(* A behaviour is one of the component chosen, with the others at rest.    *)
Init ==
  /\ part \in Parts
  /\ IF part = "table" THEN Table!Init ELSE tableOff
  /\ IF part = "group" THEN Grouped!Init ELSE
     IF part = "joins" THEN Joins!Init ELSE groupOff
  /\ IF part = "alone" THEN Alone!Init ELSE
     IF part = "together" THEN Together!Init ELSE learnOff
  /\ IF part = "worker" THEN Divert!Init ELSE
     IF part = "local" THEN Local!Init ELSE divertOff
  /\ RemoteInit
  /\ IF part = "sessions" THEN Sessions!RemoteInit ELSE
     IF part = "refused" THEN Refused!RemoteInit ELSE servedOff
  /\ IF part = "proof" THEN AuthProof!Init ELSE
     IF part = "lossy" THEN AuthLossy!Init ELSE
     IF part = "room" THEN AuthRoom!Init ELSE authOff
  /\ IF part = "flood" THEN Flood!Init ELSE
     IF part = "proved" THEN Proved!Init ELSE
     IF part = "replaced" THEN Replaced!Init ELSE routeOff
  /\ IF part = "socket" THEN Socket!Init ELSE
     IF part = "admits" THEN Crowded!Init ELSE socketOff
Rest ==
  /\ UNCHANGED part
  /\ part # "table" => UNCHANGED tableVars
  /\ part \notin {"group", "joins"} => UNCHANGED groupVars
  /\ part \notin {"alone", "together"} => UNCHANGED learnVars
  /\ part \notin {"worker", "local"} => UNCHANGED divertVars
  /\ part # "remote" => UNCHANGED remoteVars
  /\ part \notin {"sessions", "refused"} => UNCHANGED servedVars
  /\ part \notin {"proof", "lossy", "room"} => UNCHANGED authVars
  /\ part \notin {"flood", "proved", "replaced"} => UNCHANGED routeVars
  /\ part \notin {"socket", "admits"} => UNCHANGED socketVars
Next ==
  /\ Rest
  /\ \/ part = "table" /\ Table!Next
     \/ part = "group" /\ Grouped!Next
     \/ part = "joins" /\ Joins!Next
     \/ part = "alone" /\ Alone!Next
     \/ part = "together" /\ Together!Next
     \/ part = "worker" /\ Divert!Next
     \/ part = "local" /\ Local!Next
     \/ part = "remote" /\ RemoteNext
     \/ part = "sessions" /\ Sessions!RemoteNext
     \/ part = "refused" /\ Refused!RemoteNext
     \/ part = "proof" /\ AuthProof!Next
     \/ part = "lossy" /\ AuthLossy!Next
     \/ part = "room" /\ AuthRoom!Next
     \/ part = "flood" /\ Flood!Next
     \/ part = "proved" /\ Proved!Next
     \/ part = "replaced" /\ Replaced!Next
     \/ part = "socket" /\ Socket!Next
     \/ part = "admits" /\ Crowded!Next

SuiteSpec == Init /\ [][Next]_vars
(* Processes that are not killed go on, the kernel queues who waits for a  *)
(* lock, timers fire and the event loop runs.  Of frames only those of a   *)
(* discovery are assumed to arrive, in a network that loses none.          *)
FairSpec ==
  /\ SuiteSpec
  /\ WF_tableVars(part = "table" /\ Table!Lock) /\ WF_tableVars(part = "table" /\ Table!Step)
  /\ WF_tableVars(part = "table" /\ Table!Unlock)
  /\ \A p \in 1 .. 2 : /\ WF_groupVars(part = "joins" /\ Joins!Steps(p))
                       /\ SF_groupVars(part = "joins" /\ Joins!Lock(p))
  /\ WF_servedVars(part = "sessions" /\ Sessions!Retry("a"))
  /\ WF_routeVars(part = "flood" /\ Flood!Begin)
  /\ WF_routeVars(part = "flood" /\ \E x \in route_net : x.f.req = "discover" /\ Flood!Receive(x))
  /\ WF_socketVars(part = "admits" /\ Crowded!Loop) /\ WF_socketVars(part = "admits" /\ Crowded!Retry)
  /\ \A fd \in 1 .. 2 : WF_socketVars(part = "admits" /\ Crowded!Expire(fd))
-----------------------------------------------------------------------------
(* Between operations chains, free list and counters of a shared table     *)
(* agree with its nodes, no flow has two entries, and every step is one of *)
(* a map that changes by whole entries (StepsAtomic), whatever a           *)
(* killed worker left behind.  The workers that use the file use the same  *)
(* complete tables, each in a place of its own under its own ID            *)
(* (divert/shared_flows.hpp:113).                                          *)
FileSound ==
  [][/\ part = "table" => Table!IndexSound' /\ Table!StepsAtomic
     /\ part = "group" => Grouped!OneGroup' /\ Grouped!OwnPlace']_<<tableVars, groupVars>>

(* A flow that an adapter on its own has taken over is not given back, and *)
(* packets classified in order get from the group what they would get from *)
(* such an adapter.  A flow that went round the adapter is not taken over  *)
(* while it learns, whichever worker its packets come to, and in the first *)
(* hour no connection in its middle (divert/shared_flows.hpp:312).         *)
LearningSound ==
  /\ part = "alone" => Alone!StaysDiverted /\ Alone!Agree /\ Alone!Protected /\ Alone!WholeConnections
  /\ part = "together" => Together!Protected /\ Together!WholeConnections

(* Every packet read is staged, kept, sent, written or counted as dropped, *)
(* but for the one in hand and frames of its client when an allocation     *)
(* fails (divert/main.cpp:388); a worker of a group has its TUN queues     *)
(* exactly while its path is up; and it sleeps on nothing that only itself *)
(* can move.                                                               *)
DivertSound ==
  [][/\ part = "worker" => Divert!Accounted /\ Divert!QueuesFollow' /\ Divert!SleepsClean'
     /\ part = "local" => Local!SleepsClean']_divertVars

(* A request of two blocks, across changes of the session, is executed     *)
(* once and reported as a success with its whole result, which is kept     *)
(* meanwhile (remote_control.hpp:165-183, :319-389).  At the socket a      *)
(* command runs once per connection at most, with its whole body, and a    *)
(* descriptor closed and given out again within a call is not confused     *)
(* (control_socket.hpp:187).                                               *)
CommandsSound ==
  /\ part = "sessions" => Sessions!RequestsSound
  /\ part = "socket" => Socket!WholeCommands /\ Socket!EventsCurrent

(* Of refusals for want of capacity: "They never execute and may therefore *)
(* be confirmed statelessly" (remote_control.hpp:335-336).                 *)
RefusedNeverRuns == part = "refused" => Refused!RejectedNeverRuns

(* When nothing is lost and the keys will do, no request is left waiting   *)
(* for its timer, however its challenges cross; a frame that is proven     *)
(* comes from the key its transaction was admitted with; and a request has *)
(* one proven challenge, and one pair of counters (control_auth.hpp:276).  *)
(* A node answers a discovery on one path only, whatever cycles the flood  *)
(* runs through, and that path leads to it; nobody takes part before the   *)
(* origin has proved itself; and a frame on its last hop goes to the right *)
(* node, whichever connections were replaced on the same ports             *)
(* (control_router.hpp:119).                                               *)
FramesSound ==
  /\ part = "proof" => AuthProof!NeverStuck
  /\ part = "lossy" => AuthLossy!NoStranger
  /\ part = "room" => AuthRoom!OneSession
  /\ part = "flood" => Flood!FoundOnce /\ Flood!PathsLead
  /\ part = "proved" => Proved!ProvedFirst
  /\ part = "replaced" => Replaced!Targets

(* Nobody waits for ever: for a shard whose owner died; for a place in the *)
(* group; for the result of a request, whatever the network does; or, who  *)
(* connects, for clients that stay silent and accepts that fail.  Without  *)
(* loss the flood of a discovery ends and has found every node.            *)
Waits(i) ==
  CASE part = "table" -> i = 1 /\ mutex = "dead"
    [] part = "joins" -> group_at[i] \notin {"in", "out"}
    [] part = "sessions" -> i = 1 /\ Sessions!Waiting("a")
    [] part = "admits" -> connects >= i /\ accepted < i
    [] OTHER -> FALSE
AllServed ==
  /\ \A i \in 1 .. 2 : Waits(i) ~> ~Waits(i)
  /\ <>[](part = "flood" => /\ \A x \in route_net : x.f.req = "put"
                            /\ \A n \in 1 .. 4 : \E a \in answers : a.node = n /\ a.kind = "found")
=============================================================================
