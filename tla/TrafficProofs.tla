---------------------------- MODULE TrafficProofs ----------------------------
(***************************************************************************)
(* Every step of Session is a turn of the client, of the server or of the  *)
(* clock; each is described once by what it does to keys, packets and      *)
(* sessions.  The turns keep the invariant of the traffic, packets under   *)
(* the keys agreed on, and each is a step of KeyAgreement.  The network    *)
(* forgets nothing (~ Timely), as in AgreementProofs.                      *)
(***************************************************************************)
EXTENDS AgreementProofs

(* The packets among the messages sent, and what two sessions have in      *)
(* common when only the age of a key differs.                              *)
Packets(n) == {m \in n : m.type = "packet"}
Same(x, y) == y.key = x.key /\ y.next = x.next /\ y.replay = x.replay
Kept(x, y) == y = NoSession \/ Same(x, y)

(* It sends a packet under its active key.                                 *)
Sends(me, e, f, n, n2) ==
  /\ e.active.key # NoKey
  /\ \E meta \in BOOLEAN : n2 = n \cup {PacketMsg(e.active.key, me, e.active.next, meta)}
  /\ f.active.key = e.active.key /\ f.active.next = e.active.next + 1
  /\ f.active.replay = e.active.replay /\ f.previous = e.previous

(* It hands up a packet that its active or its previous session accepts.   *)
NotedBy(x, y, m) ==
  /\ m.key = x.key /\ x.key # NoKey /\ Accepts(x.replay, m.counter)
  /\ y.key = x.key /\ y.next = x.next /\ y.replay = Retain(x.replay, m.counter)

Takes(me, e, f, n, d, d2) ==
  \E m \in n :
    /\ m.from # me
    /\ d2 = [d EXCEPT ![<<m.key, m.from, m.counter>>] = @ + 1]
    /\ \/ NotedBy(e.active, f.active, m) /\ Kept(e.previous, f.previous)
       \/ NotedBy(e.previous, f.previous, m) /\ Same(e.active, f.active) /\ ~ m.meta

-----------------------------------------------------------------------------
(* The client's turns.                                                     *)

(* A step that takes no key further, and one that neither sends nor hands  *)
(* up a packet.                                                            *)
QuietKeys ==
  /\ KeysSent("response")' = KeysSent("response")
  /\ KeysSent("confirm")' = KeysSent("confirm")
  /\ KeysSent("confirm_ack")' = KeysSent("confirm_ack")
QuietTraffic == Packets(net)' = Packets(net) /\ deliveries' = deliveries

LEMMA NoPacketSent ==
  ASSUME ~ Timely, NEW taken, NEW out, Transit(taken, out), \A x \in out : x.type # "packet"
  PROVE  Packets(net)' = Packets(net)
BY DEF Transit, Packets

LEMMA QuietTransit ==
  ASSUME ~ Timely, NEW taken, Transit(taken, {})
  PROVE  QuietKeys /\ Packets(net)' = Packets(net)
BY SentNothing, NoPacketSent DEF QuietKeys, NothingNew

(* The three things that handshake and timers do to an end's sessions.     *)
Keeps(e, f) == Same(e.active, f.active) /\ Kept(e.previous, f.previous)
Drops(f) == f.active = NoSession /\ f.previous = NoSession
Installs(e, f, k) ==
  /\ f.active.key = k /\ f.active.next = 1 /\ f.active.replay = {}
  /\ Same(e.active, f.previous)

(* The client adopts an offered key that it never confirmed before.        *)
Adopts(k) ==
  /\ k \in KeysSent("response") \ KeysSent("confirm")
  /\ KeysSent("response")' = KeysSent("response")
  /\ KeysSent("confirm")' = KeysSent("confirm") \cup {k}
  /\ KeysSent("confirm_ack")' = KeysSent("confirm_ack")
  /\ Installs(client, client', k) /\ client'.waiting_ack
  /\ QuietTraffic

(* All that a step of the client comes to.                                 *)
ClientTurn ==
  /\ server' = server
  /\ \/ /\ QuietKeys /\ QuietTraffic /\ Keeps(client, client')
        /\ \/ (client'.waiting_ack <=> client.waiting_ack)
           \/ ~ client'.waiting_ack /\ client.active.key \in KeysSent("confirm_ack")
     \/ QuietKeys /\ QuietTraffic /\ Drops(client')
     \/ \E k \in KeysSent("response") : Adopts(k)
     \/ /\ QuietKeys /\ deliveries' = deliveries /\ (client'.waiting_ack <=> client.waiting_ack)
        /\ Sends("client", client, client', Packets(net), Packets(net)')
     \/ /\ QuietKeys /\ Packets(net)' = Packets(net) /\ (client'.waiting_ack <=> client.waiting_ack)
        /\ Takes("client", client, client', Packets(net), deliveries, deliveries')

(* begin() from a client that waits for nothing *)
LEMMA BeginTurn ==
  ASSUME ~ Timely, NEW c \in ClientRecords, Begin(c), ~ c.waiting_ack
  PROVE  /\ QuietKeys /\ Packets(net)' = Packets(net)
         /\ client'.active = c.active /\ client'.previous \in {c.previous, NoSession}
         /\ ~ client'.waiting_ack
<1>1. CASE /\ \/ client' = [c EXCEPT !.begin_retry = TRUE]
              \/ \E delay \in {0, RetryInterval} :
                   client' = [c EXCEPT !.begin_retry = TRUE, !.randomLeft = delay]
           /\ Transit({}, {})
  <2>1. client'.active = c.active /\ client'.previous = c.previous /\ ~ client'.waiting_ack
    BY Zenon, <1>1 DEF ClientRecords
  <2>2. QED
    BY <1>1, <2>1, QuietTransit
<1>2. ASSUME NEW wall \in Walls,
             client' = [c EXCEPT !.previous = NoSession, !.waiting_ack = FALSE,
                                 !.client_init = InitMsg(used.inits + 1, wall),
                                 !.flight = "init", !.flightLeft = PendingLifetime,
                                 !.retryLeft = RetryInterval, !.begin_retry = FALSE],
             Transit({}, {InitMsg(used.inits + 1, wall)})
      PROVE  /\ QuietKeys /\ Packets(net)' = Packets(net)
             /\ client'.active = c.active /\ client'.previous = NoSession
             /\ ~ client'.waiting_ack
  <2>1. client'.active = c.active /\ client'.previous = NoSession /\ ~ client'.waiting_ack
    BY <1>2 DEF ClientRecords
  <2>2. QuietKeys
    BY <1>2, SentInit DEF QuietKeys
  <2>3. InitMsg(used.inits + 1, wall).type # "packet"
    BY DEF InitMsg
  <2>4. Packets(net)' = Packets(net)
    BY <1>2, <2>3, NoPacketSent
  <2>5. QED
    BY <2>1, <2>2, <2>4
<1>3. QED
  BY ZenonT(30), <1>1, <1>2 DEF Begin

LEMMA SameSession == \A x : Same(x, x) /\ Kept(x, x) /\ Kept(x, NoSession)
BY DEF Same, Kept

LEMMA ClientTickTurn ==
  ASSUME ~ Timely, AgreementInv, ClientTick
  PROVE  ClientTurn
<1> DEFINE c == ExpirePrevious(client)
<1>1. client \in ClientRecords /\ server' = server /\ deliveries' = deliveries
  BY DEF AgreementInv, TypeOK, ClientTick
<1>2. /\ c \in ClientRecords
      /\ c.active = client.active /\ c.waiting_ack = client.waiting_ack
      /\ c.client_init = client.client_init /\ c.flight = client.flight
      /\ c.previousLeft = client.previousLeft /\ c.flightLeft = client.flightLeft
      /\ c.previous \in {client.previous, NoSession}
      /\ c.previousLeft = 0 => c.previous = NoSession
  BY <1>1, ClientExpired
<1>3. TypeOK /\ Core /\ ClientStages
  BY DEF AgreementInv, Core
<1> HIDE DEF c
<1>4. ASSUME QuietKeys, Packets(net)' = Packets(net), client'.active = client.active,
             client'.previous \in {c.previous, NoSession},
             (client'.waiting_ack <=> client.waiting_ack)
      PROVE  ClientTurn
  BY <1>1, <1>2, <1>4, SameSession DEF ClientTurn, QuietTraffic, Keeps
<1>5. CASE c.flight # "none" /\ c.flightLeft = 0 /\ Begin(Abandon(c))
  <2> DEFINE a == Abandon(c)
  <2>1. a \in ClientRecords
    BY <1>2, AbandonType
  <2>2. /\ ~ a.waiting_ack
        /\ c.waiting_ack => a.active = c.previous /\ a.previous = NoSession
        /\ ~ c.waiting_ack => a.active = c.active /\ a.previous = c.previous
    BY <1>2 DEF Abandon, ClientRecords
  <2>3. c.waiting_ack => c.previous = NoSession
    BY <1>2, <1>3, <1>5 DEF ClientStages, ClientRecords
  <2> HIDE DEF a
  <2>4. Begin(a)
    BY <1>5 DEF a
  <2>5. /\ QuietKeys /\ Packets(net)' = Packets(net)
        /\ client'.active = a.active /\ client'.previous \in {a.previous, NoSession}
        /\ ~ client'.waiting_ack
    BY <2>1, <2>2, <2>4, BeginTurn
  <2>6. CASE c.waiting_ack
    BY <1>1, <2>2, <2>3, <2>5, <2>6 DEF ClientTurn, QuietTraffic, Drops
  <2>7. CASE ~ c.waiting_ack
    BY <1>2, <1>4, <2>2, <2>5, <2>7
  <2>8. QED
    BY <2>6, <2>7
<1>6. CASE /\ client' = [c EXCEPT !.retryLeft = RetryInterval]
           /\ c.flight # "none"
           /\ Transit({}, {FlightMsg(c)})
  <2>1. /\ client'.active = client.active /\ client'.previous = c.previous
        /\ (client'.waiting_ack <=> client.waiting_ack)
    BY <1>2, <1>6 DEF ClientRecords
  <2>2. QuietKeys
    BY <1>2, <1>3, <1>6, FlightSent DEF QuietKeys, NothingNew
  <2>3. FlightMsg(c).type # "packet"
    BY <1>2 DEF FlightMsg, ConfirmMsg, ClientRecords, InitRecords
  <2>4. Packets(net)' = Packets(net)
    BY <1>6, <2>3, NoPacketSent
  <2>5. QED
    BY <1>4, <2>1, <2>2, <2>4
<1>7. CASE c.flight = "none" /\ Begin(c)
  <2>1. ~ c.waiting_ack
    BY <1>2, <1>3, <1>7 DEF ClientStages
  <2>2. QED
    BY <1>2, <1>4, <1>7, <2>1, BeginTurn DEF ClientRecords
<1>8. CASE client' = c /\ Transit({}, {})
  BY <1>2, <1>4, <1>8, QuietTransit
<1>9. QED
  BY <1>5, <1>6, <1>7, <1>8 DEF ClientTick, c

LEMMA RestartTurn ==
  ASSUME ~ Timely, AgreementInv, Restart
  PROVE  ClientTurn
<1> DEFINE c == [client EXCEPT !.active = NoSession, !.previous = NoSession,
                               !.waiting_ack = FALSE, !.flight = "none",
                               !.client_init = NoInit, !.generation = @ + 1]
<1>1. client \in ClientRecords /\ client.generation + 1 \in Nat
  BY DEF AgreementInv, TypeOK, ClientRecords
<1>2. NoSession \in SessionRecords /\ NoInit \in InitRecords
  BY DeriveType DEF NoInit, InitRecords
<1>3. c \in ClientRecords
  BY ZenonT(30), <1>1, <1>2 DEF ClientRecords
<1>4. /\ Begin(c) /\ server' = server /\ deliveries' = deliveries
      /\ c.active = NoSession /\ c.previous = NoSession /\ ~ c.waiting_ack
  BY <1>1 DEF Restart, ClientRecords
<1> HIDE DEF c
<1>5. /\ QuietKeys /\ Packets(net)' = Packets(net)
      /\ client'.active = c.active /\ client'.previous \in {c.previous, NoSession}
  BY <1>3, <1>4, BeginTurn
<1>6. QED
  BY <1>4, <1>5 DEF ClientTurn, QuietTraffic, Drops

LEMMA ReceiveResponseTurn ==
  ASSUME ~ Timely, AgreementInv, NEW m \in net, m.type = "response", ReceiveResponse(m)
  PROVE  ClientTurn
<1> DEFINE c == ExpirePrevious(client)
<1>1. /\ client \in ClientRecords /\ server' = server /\ deliveries' = deliveries
      /\ m.key \in KeysSent("response") /\ TypeOK /\ Core
  BY DEF AgreementInv, TypeOK, Core, ReceiveResponse, KeysSent
<1>2. /\ c \in ClientRecords
      /\ c.active = client.active /\ c.waiting_ack = client.waiting_ack
      /\ c.client_init = client.client_init /\ c.flight = client.flight
      /\ c.previous \in {client.previous, NoSession}
  BY <1>1, ClientExpired
<1> HIDE DEF c
<1>3. ASSUME QuietKeys, Packets(net)' = Packets(net), client' = c
      PROVE  ClientTurn
  BY <1>1, <1>2, <1>3, SameSession DEF ClientTurn, QuietTraffic, Keeps
<1>4. CASE client' = c /\ Transit({m}, {})
  BY <1>3, <1>4, QuietTransit
<1>5. CASE c.waiting_ack /\ client' = c /\ Transit({m}, {FlightMsg(c)})
  <2>1. c.flight # "none"
    BY <1>1, <1>2, <1>5 DEF Core, ClientStages
  <2>2. QuietKeys
    BY <1>1, <1>2, <1>5, <2>1, FlightSent DEF QuietKeys, NothingNew
  <2>3. FlightMsg(c).type # "packet"
    BY <1>2 DEF FlightMsg, ConfirmMsg, ClientRecords, InitRecords
  <2>4. QED
    BY <1>3, <1>5, <2>2, <2>3, NoPacketSent
<1>6. CASE /\ c.client_init # NoInit /\ m.key[1] = c.client_init.nonce
           /\ ~ c.waiting_ack /\ client' = Adopt(c, m.key)
           /\ Transit({m}, {ConfirmMsg(m.key)})
  <2> DEFINE k == m.key
  <2>1. /\ client'.active = Derive(k, RekeyInterval) /\ client'.previous = c.active
        /\ client'.waiting_ack
    BY <1>2, <1>6 DEF Adopt, ClientRecords
  <2>2. Installs(client, client', k)
    BY <1>2, <2>1 DEF Installs, Derive, Same
  <2>3. /\ KeysSent("response")' = KeysSent("response")
        /\ KeysSent("confirm")' = KeysSent("confirm") \cup {k}
        /\ KeysSent("confirm_ack")' = KeysSent("confirm_ack")
    BY ZenonT(30), <1>6, SentKey
  <2>4. ConfirmMsg(k).type # "packet"
    BY DEF ConfirmMsg
  <2>5. Packets(net)' = Packets(net)
    BY <1>6, <2>4, NoPacketSent
  <2>6. k \notin KeysSent("confirm")
    <3>1. \A q \in KeysSent("confirm") : q[1] < k[1] /\ q \in KeysSent("response")
      BY <1>1, <1>2, <1>6 DEF Core, AdoptionOrder
    <3>2. k[1] \in Nat
      BY <1>1, OfferedKeys DEF Core
    <3>3. QED
      BY <3>1, <3>2
  <2>7. QED
    BY <1>1, <2>1, <2>2, <2>3, <2>5, <2>6 DEF ClientTurn, Adopts, QuietTraffic
<1>7. QED
  BY <1>4, <1>5, <1>6 DEF ReceiveResponse, c

LEMMA ReceiveConfirmAckTurn ==
  ASSUME ~ Timely, AgreementInv, NEW m \in net, m.type = "confirm_ack", ReceiveConfirmAck(m)
  PROVE  ClientTurn
<1> DEFINE c == ExpirePrevious(client)
<1>1. /\ client \in ClientRecords /\ server' = server /\ deliveries' = deliveries
      /\ m.key \in KeysSent("confirm_ack") /\ Transit({m}, {})
  BY DEF AgreementInv, TypeOK, ReceiveConfirmAck, KeysSent
<1>2. /\ c \in ClientRecords
      /\ c.active = client.active /\ c.waiting_ack = client.waiting_ack
      /\ c.previous \in {client.previous, NoSession}
  BY <1>1, ClientExpired
<1>3. \/ client' = c
      \/ /\ m.key = c.active.key
         /\ client' = [c EXCEPT !.waiting_ack = FALSE, !.flight = "none",
                                !.client_init = NoInit, !.idleLeft = IdleRestart]
  BY DEF ReceiveConfirmAck
<1> HIDE DEF c
<1>4. /\ client'.active = c.active /\ client'.previous = c.previous
      /\ \/ client'.waiting_ack = c.waiting_ack
         \/ ~ client'.waiting_ack /\ m.key = c.active.key
  BY Zenon, <1>2, <1>3 DEF ClientRecords
<1>5. QuietKeys /\ Packets(net)' = Packets(net)
  BY <1>1, QuietTransit
<1>6. QED
  BY <1>1, <1>2, <1>4, <1>5, SameSession DEF ClientTurn, QuietTraffic, Keeps

LEMMA ClientRebootTurn ==
  ASSUME ClientReboot
  PROVE  ClientTurn
BY DEF ClientReboot, FreshClient, ClientTurn, QuietTraffic, QuietKeys, Drops, KeysSent, Packets

-----------------------------------------------------------------------------
(* Packets at both ends, and the server's turns.                           *)

LEMMA PacketSent ==
  ASSUME ~ Timely, NEW taken, NEW key, NEW from, NEW counter, NEW meta,
         Transit(taken, {PacketMsg(key, from, counter, meta)})
  PROVE  /\ QuietKeys
         /\ Packets(net)' = Packets(net) \cup {PacketMsg(key, from, counter, meta)}
<1>1. PacketMsg(key, from, counter, meta).type = "packet"
  BY DEF PacketMsg
<1>2. QuietKeys
  BY SentNothing DEF QuietKeys, NothingNew
<1>3. QED
  BY <1>1, <1>2 DEF Transit, Packets

LEMMA ClientSendTurn ==
  ASSUME ~ Timely, AgreementInv, NEW meta \in Kinds, ClientSend(meta)
  PROVE  ClientTurn
<1>1. /\ client \in ClientRecords /\ server' = server /\ deliveries' = deliveries
      /\ client.active # NoSession /\ client' = Counted(client)
      /\ Transit({}, {PacketMsg(client.active.key, "client", client.active.next, meta)})
  BY DEF AgreementInv, TypeOK, ClientSend, Ready, Encoded
<1>2. /\ client'.active.key = client.active.key /\ client'.active.next = client.active.next + 1
      /\ client'.active.replay = client.active.replay /\ client'.previous = client.previous
      /\ client'.waiting_ack = client.waiting_ack
  BY <1>1 DEF Counted, ClientRecords, SessionRecords
<1>3. client.active.key # NoKey
  BY <1>1 DEF AgreementInv, SlotsShaped, Empty
<1>4. meta \in BOOLEAN
  BY BoundFacts
<1>5. Sends("client", client, client', Packets(net), Packets(net)')
  BY <1>1, <1>2, <1>3, <1>4, PacketSent DEF Sends
<1>6. QuietKeys
  BY <1>1, PacketSent
<1>7. QED
  BY <1>1, <1>2, <1>5, <1>6 DEF ClientTurn

LEMMA ClientPacketTurn ==
  ASSUME ~ Timely, AgreementInv, NEW m \in net, m.type = "packet", ClientReceivePacket(m)
  PROVE  ClientTurn
<1> DEFINE c == ExpirePrevious(client)
<1>1. /\ client \in ClientRecords /\ server' = server /\ Transit({m}, {})
      /\ m.from # "client" /\ m \in Packets(net)
      /\ Empty(client.active) /\ Empty(client.previous)
  BY DEF AgreementInv, TypeOK, SlotsShaped, ClientReceivePacket, Packets
<1>2. /\ c \in ClientRecords
      /\ c.active = client.active /\ c.waiting_ack = client.waiting_ack
      /\ c.previous \in {client.previous, NoSession}
  BY <1>1, ClientExpired
<1>3. QuietKeys /\ Packets(net)' = Packets(net)
  BY <1>1, QuietTransit
<1>4. \/ /\ c.active # NoSession /\ m.key = c.active.key /\ Accepts(c.active.replay, m.counter)
         /\ client' = [NoteActive(c, m) EXCEPT !.idleLeft = IdleRestart] /\ Deliver(m)
      \/ /\ c.previous # NoSession /\ m.key = c.previous.key /\ ~ m.meta
         /\ Accepts(c.previous.replay, m.counter)
         /\ client' = NotePrevious(c, m) /\ Deliver(m)
      \/ client' = c /\ deliveries' = deliveries
  BY DEF ClientReceivePacket, OpensActive, OpensPrevious
<1> HIDE DEF c
<1>5. CASE /\ c.active # NoSession /\ m.key = c.active.key /\ Accepts(c.active.replay, m.counter)
           /\ client' = [NoteActive(c, m) EXCEPT !.idleLeft = IdleRestart] /\ Deliver(m)
  <2>1. /\ client'.active.key = c.active.key /\ client'.active.next = c.active.next
        /\ client'.active.replay = Retain(c.active.replay, m.counter)
        /\ client'.previous = c.previous /\ client'.waiting_ack = c.waiting_ack
    BY <1>2, <1>5 DEF NoteActive, ClientRecords, SessionRecords
  <2>2. NotedBy(client.active, client'.active, m)
    BY <1>1, <1>2, <1>5, <2>1 DEF NotedBy, Empty
  <2>3. Kept(client.previous, client'.previous)
    BY <1>2, <2>1, SameSession
  <2>4. Takes("client", client, client', Packets(net), deliveries, deliveries')
    BY Zenon, <1>1, <1>5, <2>2, <2>3 DEF Takes, Deliver
  <2>5. QED
    BY <1>1, <1>2, <1>3, <2>1, <2>4 DEF ClientTurn
<1>6. CASE /\ c.previous # NoSession /\ m.key = c.previous.key /\ ~ m.meta
           /\ Accepts(c.previous.replay, m.counter)
           /\ client' = NotePrevious(c, m) /\ Deliver(m)
  <2>1. /\ client'.previous.key = c.previous.key /\ client'.previous.next = c.previous.next
        /\ client'.previous.replay = Retain(c.previous.replay, m.counter)
        /\ client'.active = c.active /\ client'.waiting_ack = c.waiting_ack
    BY <1>2, <1>6 DEF NotePrevious, ClientRecords, SessionRecords
  <2>2. NotedBy(client.previous, client'.previous, m)
    BY <1>1, <1>2, <1>6, <2>1 DEF NotedBy, Empty
  <2>3. Same(client.active, client'.active)
    BY <1>2, <2>1, SameSession
  <2>4. Takes("client", client, client', Packets(net), deliveries, deliveries')
    BY Zenon, <1>1, <1>6, <2>2, <2>3 DEF Takes, Deliver
  <2>5. QED
    BY <1>1, <1>2, <1>3, <2>1, <2>4 DEF ClientTurn
<1>7. CASE client' = c /\ deliveries' = deliveries
  BY <1>1, <1>2, <1>3, <1>7, SameSession DEF ClientTurn, QuietTraffic, Keeps
<1>8. QED
  BY <1>4, <1>5, <1>6, <1>7

(* A pending session is unused, and its key unacknowledged.                *)
PendingClean ==
  /\ server.pending.key \notin KeysSent("confirm_ack")
  /\ server.pending.next = 1 /\ server.pending.replay = {}

(* The client takes its session for confirmed.                             *)
Confirmed == client.active # NoSession /\ ~ client.waiting_ack

(* The server offers a key, or activates one that the client confirmed.    *)
Offered(k) ==
  /\ k \notin KeysSent("response")
  /\ KeysSent("response")' = KeysSent("response") \cup {k}
  /\ KeysSent("confirm")' = KeysSent("confirm")
  /\ KeysSent("confirm_ack")' = KeysSent("confirm_ack")
  /\ Keeps(server, server') /\ QuietTraffic

Activated(k) ==
  /\ k \in KeysSent("confirm") \ KeysSent("confirm_ack")
  /\ ~ Confirmed
  /\ KeysSent("response")' = KeysSent("response")
  /\ KeysSent("confirm")' = KeysSent("confirm")
  /\ KeysSent("confirm_ack")' = KeysSent("confirm_ack") \cup {k}
  /\ Installs(server, server', k)
  /\ QuietTraffic

(* All that a step of the server comes to.                                 *)
ServerTurn ==
  /\ client' = client
  /\ PendingClean'
  /\ \/ QuietKeys /\ QuietTraffic /\ Keeps(server, server')
     \/ QuietKeys /\ QuietTraffic /\ Drops(server')
     \/ \E k \in KeysSent("response")' : Offered(k)
     \/ \E k \in KeysSent("confirm") : Activated(k)
     \/ /\ QuietKeys /\ deliveries' = deliveries
        /\ Sends("server", server, server', Packets(net), Packets(net)')
     \/ /\ QuietKeys /\ Packets(net)' = Packets(net)
        /\ Takes("server", server, server', Packets(net), deliveries, deliveries')

(* No key is nothing's, and the stages of a key follow one another.        *)
LEMMA NothingAcked ==
  ASSUME AgreementInv
  PROVE  /\ \A type \in {"response", "confirm", "confirm_ack"} : NoKey \notin KeysSent(type)
         /\ KeysSent("confirm_ack") \subseteq KeysSent("confirm")
         /\ KeysSent("confirm") \subseteq KeysSent("response")
<1>1. TypeOK /\ NoncesDrawn
  BY DEF AgreementInv
<1>2. NoKey \notin KeysSent("response")
  BY <1>1, OfferedKeys
<1>3. QED
  BY <1>2 DEF AgreementInv, AckedKeys, AdoptionOrder

LEMMA QuietPending ==
  ASSUME AgreementInv, PendingClean, QuietKeys, server'.pending \in {server.pending, NoSession}
  PROVE  PendingClean'
<1>1. NoSession.key = NoKey /\ NoSession.next = 1 /\ NoSession.replay = {}
  BY DEF NoSession
<1>2. NoKey \notin KeysSent("confirm_ack")
  BY NothingAcked
<1>3. QED
  BY <1>1, <1>2 DEF PendingClean, QuietKeys

(* What a quiet step of the server comes to.                               *)
LEMMA QuietServerTurn ==
  ASSUME AgreementInv, PendingClean, QuietKeys, QuietTraffic, client' = client,
         server'.active = server.active,
         server'.previous \in {server.previous, NoSession},
         server'.pending \in {server.pending, NoSession}
  PROVE  ServerTurn
BY QuietPending, SameSession DEF ServerTurn, Keeps

LEMMA ServerTickTurn ==
  ASSUME AgreementInv, PendingClean, ServerTick
  PROVE  ServerTurn
<1>1. /\ server \in ServerRecords /\ client' = client /\ net' = net /\ deliveries' = deliveries
  BY DEF AgreementInv, TypeOK, ServerTick
<1>2. /\ server'.active = server.active
      /\ server'.pending \in {server.pending, NoSession}
      /\ server'.previous \in {server.previous, NoSession}
  BY <1>1, ServerExpired DEF ServerTick
<1>3. QuietKeys /\ QuietTraffic
  BY <1>1 DEF QuietKeys, QuietTraffic, KeysSent, Packets
<1>4. QED
  BY <1>1, <1>2, <1>3, QuietServerTurn

LEMMA ServerSendTurn ==
  ASSUME ~ Timely, AgreementInv, PendingClean, NEW meta \in Kinds, ServerSend(meta)
  PROVE  ServerTurn
<1>1. /\ server \in ServerRecords /\ client' = client /\ deliveries' = deliveries
      /\ server.active # NoSession /\ server' = Counted(server)
      /\ Transit({}, {PacketMsg(server.active.key, "server", server.active.next, meta)})
  BY DEF AgreementInv, TypeOK, ServerSend, Ready, Encoded
<1>2. /\ server'.active.key = server.active.key /\ server'.active.next = server.active.next + 1
      /\ server'.active.replay = server.active.replay /\ server'.previous = server.previous
      /\ server'.pending = server.pending
  BY <1>1 DEF Counted, ServerRecords, SessionRecords
<1>3. server.active.key # NoKey
  BY <1>1 DEF AgreementInv, SlotsShaped, Empty
<1>4. meta \in BOOLEAN
  BY BoundFacts
<1>5. Sends("server", server, server', Packets(net), Packets(net)')
  BY <1>1, <1>2, <1>3, <1>4, PacketSent DEF Sends
<1>6. QuietKeys
  BY <1>1, PacketSent
<1>7. PendingClean'
  BY <1>2, <1>6, QuietPending
<1>8. QED
  BY <1>1, <1>5, <1>6, <1>7 DEF ServerTurn

LEMMA ServerPacketTurn ==
  ASSUME ~ Timely, AgreementInv, PendingClean,
         NEW m \in net, m.type = "packet", ServerReceivePacket(m)
  PROVE  ServerTurn
<1> DEFINE s == ExpirePending(ExpirePrevious(server))
<1>1. /\ server \in ServerRecords /\ client' = client /\ Transit({m}, {})
      /\ m.from # "server" /\ m \in Packets(net)
      /\ Empty(server.active) /\ Empty(server.previous)
  BY DEF AgreementInv, TypeOK, SlotsShaped, ServerReceivePacket, Packets
<1>2. /\ s \in ServerRecords /\ s.active = server.active
      /\ s.pending \in {server.pending, NoSession}
      /\ s.previous \in {server.previous, NoSession}
  BY <1>1, ServerExpired
<1>3. QuietKeys /\ Packets(net)' = Packets(net)
  BY <1>1, QuietTransit
<1>4. \/ /\ s.active # NoSession /\ m.key = s.active.key /\ Accepts(s.active.replay, m.counter)
         /\ server' = [NoteActive(s, m) EXCEPT !.peer = s.active.key] /\ Deliver(m)
      \/ /\ s.previous # NoSession /\ m.key = s.previous.key /\ ~ m.meta
         /\ Accepts(s.previous.replay, m.counter)
         /\ server' = NotePrevious(s, m) /\ Deliver(m)
      \/ server' = s /\ deliveries' = deliveries
  BY DEF ServerReceivePacket, OpensActive, OpensPrevious
<1> HIDE DEF s
<1>5. CASE /\ s.active # NoSession /\ m.key = s.active.key /\ Accepts(s.active.replay, m.counter)
           /\ server' = [NoteActive(s, m) EXCEPT !.peer = s.active.key] /\ Deliver(m)
  <2>1. /\ server'.active.key = s.active.key /\ server'.active.next = s.active.next
        /\ server'.active.replay = Retain(s.active.replay, m.counter)
        /\ server'.previous = s.previous /\ server'.pending = s.pending
    BY <1>2, <1>5 DEF NoteActive, ServerRecords, SessionRecords
  <2>2. NotedBy(server.active, server'.active, m)
    BY <1>1, <1>2, <1>5, <2>1 DEF NotedBy, Empty
  <2>3. Kept(server.previous, server'.previous)
    BY <1>2, <2>1, SameSession
  <2>4. Takes("server", server, server', Packets(net), deliveries, deliveries')
    BY Zenon, <1>1, <1>5, <2>2, <2>3 DEF Takes, Deliver
  <2>5. PendingClean'
    BY <1>2, <1>3, <2>1, QuietPending
  <2>6. QED
    BY <1>1, <1>3, <2>4, <2>5 DEF ServerTurn
<1>6. CASE /\ s.previous # NoSession /\ m.key = s.previous.key /\ ~ m.meta
           /\ Accepts(s.previous.replay, m.counter)
           /\ server' = NotePrevious(s, m) /\ Deliver(m)
  <2>1. /\ server'.previous.key = s.previous.key /\ server'.previous.next = s.previous.next
        /\ server'.previous.replay = Retain(s.previous.replay, m.counter)
        /\ server'.active = s.active /\ server'.pending = s.pending
    BY <1>2, <1>6 DEF NotePrevious, ServerRecords, SessionRecords
  <2>2. NotedBy(server.previous, server'.previous, m)
    BY <1>1, <1>2, <1>6, <2>1 DEF NotedBy, Empty
  <2>3. Same(server.active, server'.active)
    BY <1>2, <2>1, SameSession
  <2>4. Takes("server", server, server', Packets(net), deliveries, deliveries')
    BY Zenon, <1>1, <1>6, <2>2, <2>3 DEF Takes, Deliver
  <2>5. PendingClean'
    BY <1>2, <1>3, <2>1, QuietPending
  <2>6. QED
    BY <1>1, <1>3, <2>4, <2>5 DEF ServerTurn
<1>7. CASE server' = s /\ deliveries' = deliveries
  BY <1>1, <1>2, <1>3, <1>7, QuietServerTurn DEF QuietTraffic
<1>8. QED
  BY <1>4, <1>5, <1>6, <1>7

LEMMA OfferTurn ==
  ASSUME ~ Timely, AgreementInv, client' = client, deliveries' = deliveries,
         NEW m \in net, m.type = "init", NEW s \in ServerRecords, s.active = server.active,
         server' = Offer(s, m, Key(m.nonce, used.responses + 1)),
         Transit({m}, {ResponseMsg(Key(m.nonce, used.responses + 1))})
  PROVE  ServerTurn
<1> DEFINE k == Key(m.nonce, used.responses + 1)
<1>1. /\ used.responses \in Nat /\ m \in InitRecords /\ TypeOK /\ NoncesDrawn
      /\ k[2] = used.responses + 1
  BY BoundFacts, ReceivedType DEF AgreementInv, TypeOK, UsedRecords, Key
<1> HIDE DEF k
<1>2. k \notin KeysSent("response")
  <2>1. ASSUME k \in KeysSent("response") PROVE k[2] \in Nat /\ k[2] <= used.responses
    BY <1>1, <2>1, OfferedKeys
  <2>2. QED
    BY <1>1, <2>1
<1>3. /\ KeysSent("response")' = KeysSent("response") \cup {k}
      /\ KeysSent("confirm")' = KeysSent("confirm")
      /\ KeysSent("confirm_ack")' = KeysSent("confirm_ack")
  BY ZenonT(30), SentKey DEF k
<1>4. ResponseMsg(k).type # "packet"
  BY DEF ResponseMsg
<1>5. QuietTraffic
  BY <1>4, NoPacketSent DEF QuietTraffic, k
<1>6. Remember(s, m) \in ServerRecords /\ Remember(s, m).active = s.active
  BY ZenonT(30), <1>1, RememberType DEF Remember, ServerRecords
<1>7. /\ server'.active = server.active /\ server'.previous = NoSession
      /\ server'.pending = Derive(k, 0)
  BY <1>6 DEF Offer, ServerRecords, k
<1>8. Keeps(server, server')
  BY <1>7, SameSession DEF Keeps
<1>9. PendingClean'
  <2>1. server'.pending.key = k /\ server'.pending.next = 1 /\ server'.pending.replay = {}
    BY <1>7 DEF Derive
  <2>2. k \notin KeysSent("confirm_ack")
    BY <1>2, NothingAcked
  <2>3. QED
    BY <1>3, <2>1, <2>2 DEF PendingClean
<1>10. QED
  BY <1>2, <1>3, <1>5, <1>8, <1>9 DEF ServerTurn, Offered

LEMMA ReceiveInitTurn ==
  ASSUME ~ Timely, AgreementInv, PendingClean, NEW m \in net, m.type = "init", ReceiveInit(m)
  PROVE  ServerTurn
<1> DEFINE e == ExpirePending(ExpirePrevious(server))
           t(wall) == [e EXCEPT !.high = Larger(e.high, wall)]
<1>1. /\ server \in ServerRecords /\ client' = client /\ deliveries' = deliveries
      /\ m \in InitRecords
  BY ReceivedType DEF AgreementInv, TypeOK, ReceiveInit
<1>2. /\ e \in ServerRecords /\ e.active = server.active
      /\ e.pending \in {server.pending, NoSession}
      /\ e.previous \in {server.previous, NoSession}
  BY <1>1, ServerExpired
<1>3. PICK wall \in Walls :
        \/ server' = t(wall) /\ Transit({m}, {})
        \/ AnswerSeen(Purge(t(wall)), m)
        \/ AnswerFresh(Purge(t(wall)), m)
  BY DEF ReceiveInit
<1> HIDE DEF e
<1>4. /\ t(wall) \in ServerRecords /\ t(wall).active = e.active
      /\ t(wall).pending = e.pending /\ t(wall).previous = e.previous
  <2>1. Larger(e.high, wall) \in Nat
    BY <1>2, BoundFacts DEF Larger, ServerRecords
  <2>2. QED
    BY <1>2, <2>1 DEF ServerRecords
<1> DEFINE s == Purge(t(wall))
<1> HIDE DEF t
<1>5. /\ s \in ServerRecords /\ s.active = server.active
      /\ s.pending \in {server.pending, NoSession}
      /\ s.previous \in {server.previous, NoSession}
  <2>1. s \in ServerRecords
    BY <1>4, PurgeType
  <2>2. s.active = t(wall).active /\ s.pending = t(wall).pending /\ s.previous = t(wall).previous
    BY <1>4 DEF Purge, ServerRecords
  <2>3. QED
    BY <1>2, <1>4, <2>1, <2>2
<1> HIDE DEF s
<1>6. ASSUME QuietKeys, Packets(net)' = Packets(net), server'.active = s.active,
             server'.pending = s.pending, server'.previous = s.previous
      PROVE  ServerTurn
  BY <1>1, <1>5, <1>6, QuietServerTurn DEF QuietTraffic
<1>7. CASE server' = t(wall) /\ Transit({m}, {})
  BY <1>1, <1>2, <1>4, <1>7, QuietTransit, QuietServerTurn DEF QuietTraffic
<1>8. CASE AnswerSeen(s, m)
  <2>1. /\ server'.active = s.active /\ server'.pending = s.pending
        /\ server'.previous = s.previous
    BY ZenonT(30), <1>5, <1>8 DEF AnswerSeen, ServerRecords
  <2>2. QuietKeys /\ Packets(net)' = Packets(net)
    <3>1. CASE ResendDue(s, m)
      <4>1. s.pending.key = server.pending.key /\ s.pending.key # NoKey
        <5>1. m.nonce # 0
          BY DEF AgreementInv, NoncesDrawn
        <5>2. NoKey[1] = 0
          BY DEF NoKey, Key
        <5>3. QED
          BY <1>5, <3>1, <5>1, <5>2, NoSessionEmpty DEF ResendDue
      <4>2. s.pending.key \in KeysSent("response")
        BY <4>1 DEF AgreementInv, PendingNewest
      <4>3. Transit({m}, {ResponseMsg(s.pending.key)})
        BY <1>8, <3>1 DEF AnswerSeen
      <4>4. /\ KeysSent("response")' = KeysSent("response") \cup {s.pending.key}
            /\ KeysSent("confirm")' = KeysSent("confirm")
            /\ KeysSent("confirm_ack")' = KeysSent("confirm_ack")
        BY ZenonT(30), <4>3, SentKey
      <4>5. ResponseMsg(s.pending.key).type # "packet"
        BY DEF ResponseMsg
      <4>6. Packets(net)' = Packets(net)
        BY <4>3, <4>5, NoPacketSent
      <4>7. QED
        BY <4>2, <4>4, <4>6 DEF QuietKeys
    <3>2. CASE ~ ResendDue(s, m)
      BY <1>8, <3>2, QuietTransit DEF AnswerSeen
    <3>3. QED
      BY <3>1, <3>2
  <2>3. QED
    BY <1>6, <2>1, <2>2
<1>9. CASE AnswerFresh(s, m)
  <2>1. CASE /\ \/ server' = s \/ server' = Remember(s, m)
                \/ \E delay \in {0, RetryInterval} : server' = [s EXCEPT !.randomLeft = delay]
             /\ Transit({m}, {})
    <3>1. server'.active = s.active /\ server'.pending = s.pending /\ server'.previous = s.previous
      BY ZenonT(30), <1>5, <2>1 DEF Remember, ServerRecords
    <3>2. QED
      BY <1>6, <2>1, <3>1, QuietTransit
  <2>2. CASE /\ server' = Offer(s, m, Key(m.nonce, used.responses + 1))
             /\ Transit({m}, {ResponseMsg(Key(m.nonce, used.responses + 1))})
    BY <1>1, <1>5, <2>2, OfferTurn
  <2>3. QED
    BY <1>9, <2>1, <2>2 DEF AnswerFresh
<1>10. QED
  BY <1>3, <1>7, <1>8, <1>9 DEF s

LEMMA ReceiveConfirmTurn ==
  ASSUME ~ Timely, AgreementInv, PendingClean,
         server.active.key # NoKey => server.active.key \in KeysSent("confirm_ack"),
         NEW m \in net, m.type = "confirm", ReceiveConfirm(m)
  PROVE  ServerTurn
<1> DEFINE s == ExpirePending(ExpirePrevious(server))
           p == m.key
<1>1. /\ server \in ServerRecords /\ client' = client /\ deliveries' = deliveries
      /\ p \in KeysSent("confirm")
  BY DEF AgreementInv, TypeOK, ReceiveConfirm, KeysSent
<1>2. /\ s \in ServerRecords /\ s.active = server.active
      /\ s.pending \in {server.pending, NoSession}
      /\ s.previous \in {server.previous, NoSession}
  BY <1>1, ServerExpired
<1>3. p # NoKey
  BY <1>1, NothingAcked
<1>4. /\ p = s.pending.key => server' = Activate(s) /\ Transit({m}, {ConfirmAckMsg(p)})
      /\ p # s.pending.key => server' = s
      /\ p # s.pending.key /\ p = s.active.key => Transit({m}, {ConfirmAckMsg(p)})
      /\ p # s.pending.key /\ p # s.active.key => Transit({m}, {})
  BY DEF ReceiveConfirm
<1> HIDE DEF s, p
<1>5. ASSUME Transit({m}, {ConfirmAckMsg(p)})
      PROVE  /\ KeysSent("response")' = KeysSent("response")
             /\ KeysSent("confirm")' = KeysSent("confirm")
             /\ KeysSent("confirm_ack")' = KeysSent("confirm_ack") \cup {p}
             /\ Packets(net)' = Packets(net)
  <2>1. ConfirmAckMsg(p).type # "packet"
    BY DEF ConfirmAckMsg
  <2>2. Packets(net)' = Packets(net)
    BY <1>5, <2>1, NoPacketSent
  <2>3. QED
    BY ZenonT(30), <1>5, <2>2, SentKey
<1>6. CASE p = s.pending.key
  <2>1. p = server.pending.key /\ s.pending = server.pending /\ p[2] = used.responses
    BY <1>2, <1>3, <1>6, NoSessionEmpty DEF AgreementInv, PendingNewest
  <2>2. /\ server'.active = s.pending /\ server'.pending = NoSession
        /\ server'.previous = s.active
    BY ZenonT(30), <1>2, <1>4, <1>6 DEF Activate, ServerRecords
  <2>3. p \notin KeysSent("confirm_ack")
    BY <2>1 DEF PendingClean
  <2>4. ~ Confirmed
    <3>1. SUFFICES ASSUME Confirmed PROVE FALSE
      OBVIOUS
    <3>2. client.active.key # NoKey
      BY <3>1 DEF Confirmed, AgreementInv, SlotsShaped, Empty
    <3>3. client.active.key \in KeysSent("confirm_ack")
      BY <3>1, <3>2 DEF Confirmed, AgreementInv, AckedKeys
    <3>4. QED
      BY <1>1, <2>1, <2>3, <3>3, NewestHeld DEF AgreementInv, Core
  <2>5. Installs(server, server', p)
    BY <1>2, <2>1, <2>2, SameSession DEF Installs, PendingClean
  <2>6. PendingClean'
    <3>1. NoSession.key = NoKey /\ NoSession.next = 1 /\ NoSession.replay = {}
      BY DEF NoSession
    <3>2. NoKey \notin KeysSent("confirm_ack") \cup {p}
      BY <1>3, NothingAcked
    <3>3. QED
      BY <1>4, <1>5, <1>6, <2>2, <3>1, <3>2 DEF PendingClean
  <2>7. Activated(p)
    BY <1>1, <1>4, <1>5, <1>6, <2>3, <2>4, <2>5 DEF Activated, QuietTraffic
  <2>8. QED
    BY <1>1, <2>6, <2>7 DEF ServerTurn
<1>7. CASE p # s.pending.key /\ p = s.active.key
  <2>1. KeysSent("confirm_ack") \cup {p} = KeysSent("confirm_ack")
    BY <1>2, <1>3, <1>7
  <2>2. QuietKeys /\ QuietTraffic
    BY <1>1, <1>4, <1>5, <1>7, <2>1 DEF QuietKeys, QuietTraffic
  <2>3. QED
    BY <1>1, <1>2, <1>4, <1>7, <2>2, QuietServerTurn
<1>8. CASE p # s.pending.key /\ p # s.active.key
  BY <1>1, <1>2, <1>4, <1>8, QuietTransit, QuietServerTurn DEF QuietTraffic
<1>9. QED
  BY <1>6, <1>7, <1>8

LEMMA ServerRebootTurn ==
  ASSUME AgreementInv, PendingClean, ServerReboot
  PROVE  ServerTurn
<1>1. /\ client' = client /\ net' = net /\ deliveries' = deliveries
      /\ Drops(server') /\ server'.pending = NoSession
  BY DEF ServerReboot, FreshServer, Drops
<1>2. QuietKeys /\ QuietTraffic
  BY <1>1 DEF QuietKeys, QuietTraffic, KeysSent, Packets
<1>3. PendingClean'
  BY <1>1, <1>2, QuietPending
<1>4. QED
  BY <1>1, <1>2, <1>3 DEF ServerTurn

(* All that passing time comes to.                                         *)
TimeTurn ==
  /\ QuietKeys /\ QuietTraffic /\ Keeps(client, client') /\ Keeps(server, server')
  /\ client'.waiting_ack <=> client.waiting_ack
  /\ PendingClean'

LEMMA TimePassesTurn ==
  ASSUME AgreementInv, PendingClean, TimePasses
  PROVE  TimeTurn
<1>1. client \in ClientRecords /\ server \in ServerRecords /\ net' = net /\ deliveries' = deliveries
  BY DEF AgreementInv, TypeOK, TimePasses
<1>2. QuietKeys /\ QuietTraffic
  BY <1>1 DEF QuietKeys, QuietTraffic, KeysSent, Packets
<1>3. /\ Same(client.active, client'.active) /\ Same(client.previous, client'.previous)
      /\ client'.waiting_ack = client.waiting_ack
  BY <1>1 DEF TimePasses, ClientRecords, SessionRecords, Same
<1>4. /\ server'.active = server.active /\ server'.previous = server.previous
      /\ server'.pending = server.pending
  BY <1>1 DEF TimePasses, ServerRecords
<1>5. QED
  BY <1>2, <1>3, <1>4, QuietPending, SameSession DEF TimeTurn, Keeps, Kept

-----------------------------------------------------------------------------
(* Every step is a turn.                                                   *)
LEMMA EveryTurn ==
  ASSUME ~ Timely, AgreementInv, PendingClean, Next,
         server.active.key # NoKey => server.active.key \in KeysSent("confirm_ack")
  PROVE  ClientTurn \/ ServerTurn \/ TimeTurn
<1>2. CASE ClientTick \/ Restart \/ ClientReboot
  BY <1>2, ClientTickTurn, RestartTurn, ClientRebootTurn
<1>3. CASE ServerTick \/ ServerReboot
  BY <1>3, ServerTickTurn, ServerRebootTurn
<1>4. CASE \E meta \in Kinds : ClientSend(meta) \/ ServerSend(meta)
  BY <1>4, ClientSendTurn, ServerSendTurn
<1>5. ASSUME NEW m \in net, Receive(m)
      PROVE  ClientTurn \/ ServerTurn
  BY <1>5, ReceiveInitTurn, ReceiveResponseTurn, ReceiveConfirmTurn,
     ReceiveConfirmAckTurn, ClientPacketTurn, ServerPacketTurn DEF Receive
<1>6. CASE \E m \in net : Lose(m)
  BY <1>6 DEF Lose
<1>7. CASE TimePasses
  BY <1>7, TimePassesTurn
<1>8. QED
  BY <1>2, <1>3, <1>4, <1>5, <1>6, <1>7 DEF Next

-----------------------------------------------------------------------------
(* The replay window, and one end of the tunnel.                           *)

(* What the proofs below need of the window; PartProofs shows it.          *)
WindowLaw ==
  /\ IsWindow({})
  /\ \A w, d : IsWindow(w) /\ d \in Nat /\ Accepts(w, d) =>
       /\ IsWindow(Retain(w, d)) /\ d \in Retain(w, d)
       /\ \A c \in Nat : ~ Accepts(w, c) => ~ Accepts(Retain(w, d), c)

(* One end, me, of the tunnel, with the packets n sent and the deliveries  *)
(* d so far; est are the keys that have reached the stage at which me      *)
(* transmits under them.  Whatever me sent is numbered below its next      *)
(* counter, and whatever was handed up at me is refused by the window of   *)
(* the key it came under.                                                  *)
EndInv(me, e, n, d, est) ==
  /\ e.active.key # NoKey => e.active.key \in est
  /\ e.previous.key # NoKey => e.previous.key \in est
  /\ e.active.key = e.previous.key => e.active.key = NoKey
  /\ IsWindow(e.active.replay) /\ IsWindow(e.previous.replay)
  /\ \A m \in n : m.from = me =>
       m.key \in est /\ (m.key = e.active.key => m.counter < e.active.next)
  /\ \A id \in PacketIds : id[2] # me /\ d[id] > 0 =>
       /\ id[1] \in est
       /\ id[1] = e.active.key => ~ Accepts(e.active.replay, id[3])
       /\ id[1] = e.previous.key => ~ Accepts(e.previous.replay, id[3])

(* What a step without packets does to an end: it keeps its sessions, or   *)
(* drops them, or installs a key it never used before.                     *)
MovesOn(e, f, est) ==
  \/ Same(e.active, f.active) /\ Kept(e.previous, f.previous)
  \/ f.active = NoSession /\ f.previous = NoSession
  \/ /\ f.active.key \notin est /\ f.active.next = 1 /\ f.active.replay = {}
     /\ Same(e.active, f.previous)

(* Nothing is handed up twice; a counter under a key stands for one        *)
(* packet.                                                                 *)
Once(d) == \A id \in PacketIds : d[id] <= 1
Unique(n) ==
  \A m1, m2 \in n : m1.key = m2.key /\ m1.from = m2.from /\ m1.counter = m2.counter => m1.meta = m2.meta

LEMMA EmptyWindow == WindowLaw => IsWindow({})
BY DEF WindowLaw

LEMMA RetainWindow ==
  ASSUME WindowLaw, NEW w, IsWindow(w), NEW d \in Nat, Accepts(w, d)
  PROVE  /\ IsWindow(Retain(w, d)) /\ d \in Retain(w, d)
         /\ \A c \in Nat : ~ Accepts(w, c) => ~ Accepts(Retain(w, d), c)
BY DEF WindowLaw

LEMMA NothingEmptyWindow == NoSession.key = NoKey /\ NoSession.replay = {}
BY DEF NoSession

LEMMA MovesOnKeeps ==
  ASSUME WindowLaw, NEW me, NEW e, NEW f, NEW n, NEW d, NEW est, NEW est2, est \subseteq est2,
         NoKey \notin est2, EndInv(me, e, n, d, est), MovesOn(e, f, est),
         f.active.key \in est2 \cup {NoKey}
  PROVE  EndInv(me, f, n, d, est2)
<1>1. CASE Same(e.active, f.active) /\ Kept(e.previous, f.previous)
  <2>1. CASE Same(e.previous, f.previous)
    BY <1>1, <2>1 DEF EndInv, Same
  <2>2. CASE f.previous = NoSession
    BY <1>1, <2>2, EmptyWindow, NothingEmptyWindow DEF EndInv, Same
  <2>3. QED
    BY <1>1, <2>1, <2>2 DEF Kept
<1>2. CASE f.active = NoSession /\ f.previous = NoSession
  BY <1>2, EmptyWindow, NothingEmptyWindow DEF EndInv
<1>3. CASE /\ f.active.key \notin est /\ f.active.next = 1 /\ f.active.replay = {}
           /\ Same(e.active, f.previous)
  BY <1>3, EmptyWindow DEF EndInv, Same
<1>4. QED
  BY <1>1, <1>2, <1>3 DEF MovesOn

LEMMA SendsKeeps ==
  ASSUME NEW me, NEW e, NEW f, NEW n, NEW n2, NEW d, NEW est,
         \A m \in n : m.counter \in Nat, e.active.next \in Nat,
         EndInv(me, e, n, d, est), Sends(me, e, f, n, n2)
  PROVE  EndInv(me, f, n2, d, est) /\ (Unique(n) => Unique(n2))
<1>1. PICK meta \in BOOLEAN : n2 = n \cup {PacketMsg(e.active.key, me, e.active.next, meta)}
  BY DEF Sends
<1> DEFINE p == PacketMsg(e.active.key, me, e.active.next, meta)
<1>2. p.key = e.active.key /\ p.from = me /\ p.counter = e.active.next /\ n2 = n \cup {p}
  BY <1>1 DEF PacketMsg
<1> HIDE DEF p
<1>3. \A m \in n : m.from = me /\ m.key = p.key => m.counter < p.counter
  BY <1>2 DEF EndInv
<1>4. Unique(n) => Unique(n2)
  BY <1>2, <1>3 DEF Unique
<1>5. \A m \in n2 : m.from = me =>
        m.key \in est /\ (m.key = f.active.key => m.counter < f.active.next)
  <2>1. p.key \in est /\ p.counter < f.active.next
    BY <1>2 DEF EndInv, Sends
  <2>2. \A m \in n : m.from = me =>
          m.key \in est /\ (m.key = f.active.key => m.counter < f.active.next)
    BY <1>2 DEF EndInv, Sends
  <2>3. QED
    BY <1>2, <2>1, <2>2
<1>6. QED
  BY <1>4, <1>5 DEF EndInv, Sends

LEMMA TakesKeeps ==
  ASSUME WindowLaw, NEW me, NEW e, NEW f, NEW n, NEW d \in [PacketIds -> Nat], NEW d2, NEW est,
         \A m \in n : m.counter \in Nat, Once(d),
         NoKey \notin est, EndInv(me, e, n, d, est), Takes(me, e, f, n, d, d2)
  PROVE  EndInv(me, f, n, d2, est) /\ Once(d2)
<1>1. PICK m \in n :
        /\ m.from # me
        /\ d2 = [d EXCEPT ![<<m.key, m.from, m.counter>>] = @ + 1]
        /\ \/ NotedBy(e.active, f.active, m) /\ Kept(e.previous, f.previous)
           \/ NotedBy(e.previous, f.previous, m) /\ Same(e.active, f.active) /\ ~ m.meta
  BY Zenon DEF Takes
<1> DEFINE i == <<m.key, m.from, m.counter>>
<1>2. i[1] = m.key /\ i[2] = m.from /\ i[3] = m.counter /\ m.counter \in Nat
  OBVIOUS
<1>3. \A id \in PacketIds : d2[id] = IF id = i THEN d[id] + 1 ELSE d[id]
  BY <1>1
<1> HIDE DEF i
<1>4. i \in PacketIds => d[i] = 0
  <2>1. \/ m.key = e.active.key /\ Accepts(e.active.replay, m.counter)
        \/ m.key = e.previous.key /\ Accepts(e.previous.replay, m.counter)
    BY <1>1 DEF NotedBy
  <2>2. i \in PacketIds => ~ (d[i] > 0)
    BY <1>1, <1>2, <2>1 DEF EndInv
  <2>3. QED
    BY <2>2
<1>5. Once(d2)
  BY <1>3, <1>4 DEF Once
<1>6. m.key \in est /\ m.key # NoKey
  BY <1>1 DEF NotedBy, EndInv
<1>7. ASSUME NEW x, NEW y, NotedBy(x, y, m), IsWindow(x.replay)
      PROVE  /\ IsWindow(y.replay) /\ ~ Accepts(y.replay, m.counter)
             /\ \A c \in Nat : ~ Accepts(x.replay, c) => ~ Accepts(y.replay, c)
  <2>1. Accepts(x.replay, m.counter) /\ y.replay = Retain(x.replay, m.counter)
    BY <1>7 DEF NotedBy
  <2>2. m.counter \in y.replay
    BY <1>2, <1>7, <2>1, RetainWindow
  <2>3. ~ Accepts(y.replay, m.counter)
    BY <2>2 DEF Accepts
  <2>4. QED
    BY <1>2, <1>7, <2>1, <2>3, RetainWindow
<1>8. \A id \in PacketIds : id[3] \in Nat /\ (d2[id] > 0 => d[id] > 0 \/ id = i)
  BY <1>3 DEF PacketIds
<1>9. CASE NotedBy(e.active, f.active, m) /\ Kept(e.previous, f.previous)
  <2>1. /\ IsWindow(f.active.replay) /\ ~ Accepts(f.active.replay, m.counter)
        /\ \A c \in Nat : ~ Accepts(e.active.replay, c) => ~ Accepts(f.active.replay, c)
    BY <1>7, <1>9 DEF EndInv
  <2>2. /\ f.active.key = e.active.key /\ f.active.next = e.active.next
        /\ m.key = e.active.key /\ e.previous.key # m.key
    BY <1>6, <1>9 DEF NotedBy, EndInv
  <2>3. /\ f.previous.key \in {NoKey, e.previous.key}
        /\ IsWindow(f.previous.replay)
        /\ f.previous.key # NoKey => f.previous.replay = e.previous.replay
    BY Zenon, <1>9, EmptyWindow, NothingEmptyWindow DEF EndInv, Kept, Same
  <2>4. \A id \in PacketIds : id[2] # me /\ d2[id] > 0 =>
          /\ id[1] \in est
          /\ id[1] = f.active.key => ~ Accepts(f.active.replay, id[3])
          /\ id[1] = f.previous.key => ~ Accepts(f.previous.replay, id[3])
    BY <1>2, <1>6, <1>8, <2>1, <2>2, <2>3 DEF EndInv
  <2>5. QED
    BY <1>5, <2>1, <2>2, <2>3, <2>4 DEF EndInv
<1>10. CASE NotedBy(e.previous, f.previous, m) /\ Same(e.active, f.active)
  <2>1. /\ IsWindow(f.previous.replay) /\ ~ Accepts(f.previous.replay, m.counter)
        /\ \A c \in Nat : ~ Accepts(e.previous.replay, c) => ~ Accepts(f.previous.replay, c)
    BY <1>7, <1>10 DEF EndInv
  <2>2. /\ f.previous.key = e.previous.key
        /\ m.key = e.previous.key /\ e.active.key # m.key
    BY <1>6, <1>10 DEF NotedBy, EndInv
  <2>3. /\ f.active.key = e.active.key /\ f.active.replay = e.active.replay
        /\ f.active.next = e.active.next
    BY <1>10 DEF Same
  <2>4. \A id \in PacketIds : id[2] # me /\ d2[id] > 0 =>
          /\ id[1] \in est
          /\ id[1] = f.active.key => ~ Accepts(f.active.replay, id[3])
          /\ id[1] = f.previous.key => ~ Accepts(f.previous.replay, id[3])
    BY <1>2, <1>6, <1>8, <2>1, <2>2, <2>3 DEF EndInv
  <2>5. QED
    BY <1>5, <2>1, <2>2, <2>3, <2>4 DEF EndInv
<1>11. QED
  BY <1>1, <1>9, <1>10

(* What the other end does.  *)
LEMMA OthersKeep ==
  ASSUME NEW me, NEW other, me # other, NEW e, NEW x, NEW y, NEW n, NEW n2, NEW d, NEW d2, NEW est,
         EndInv(me, e, n, d, est)
  PROVE  /\ Sends(other, x, y, n, n2) => EndInv(me, e, n2, d, est)
         /\ Takes(other, x, y, n, d, d2) /\ (\A m \in n : m.from \in {me, other}) => EndInv(me, e, n, d2, est)
<1>1. ASSUME Sends(other, x, y, n, n2) PROVE EndInv(me, e, n2, d, est)
  <2>1. PICK meta \in BOOLEAN : n2 = n \cup {PacketMsg(x.active.key, other, x.active.next, meta)}
    BY <1>1 DEF Sends
  <2>2. PacketMsg(x.active.key, other, x.active.next, meta).from = other
    BY DEF PacketMsg
  <2>3. \A m \in n2 : m.from = me => m \in n
    BY <2>1, <2>2
  <2>4. QED
    BY <2>3 DEF EndInv
<1>2. ASSUME Takes(other, x, y, n, d, d2), \A m \in n : m.from \in {me, other}
      PROVE  EndInv(me, e, n, d2, est)
  <2>1. PICK m \in n : /\ m.from # other
                       /\ d2 = [d EXCEPT ![<<m.key, m.from, m.counter>>] = @ + 1]
    BY Zenon, <1>2 DEF Takes
  <2>2. \A id \in PacketIds : id[2] # me => id # <<m.key, m.from, m.counter>>
    <3>1. m.from = me
      BY <1>2, <2>1
    <3>2. <<m.key, m.from, m.counter>>[2] = me
      BY <3>1
    <3>3. QED
      BY Zenon, <3>2
  <2>3. \A id \in PacketIds : id[2] # me => d2[id] = d[id]
    BY <2>1, <2>2
  <2>4. QED
    BY <2>3 DEF EndInv
<1>3. QED
  BY <1>1, <1>2

-----------------------------------------------------------------------------
(* The inductive invariant.                                                *)

(* The inductive invariant: key agreement, a pending session that is       *)
(* clean, and both ends.                                                   *)
TrafficInv ==
  /\ AgreementInv /\ PendingClean
  /\ EndInv("client", client, Packets(net), deliveries, KeysSent("confirm"))
  /\ EndInv("server", server, Packets(net), deliveries, KeysSent("confirm_ack"))
  /\ Once(deliveries) /\ Unique(Packets(net))

LEMMA TrafficTurn ==
  ASSUME ~ Timely, TrafficInv, Next
  PROVE  ClientTurn \/ ServerTurn \/ TimeTurn
BY EveryTurn DEF TrafficInv, EndInv

LEMMA TrafficFacts ==
  ASSUME TypeOK
  PROVE  /\ \A m \in Packets(net) : m.counter \in Nat /\ m.from \in {"client", "server"}
         /\ client.active.next \in Nat /\ server.active.next \in Nat
         /\ deliveries \in [PacketIds -> Nat]
<1>1. \A m \in Packets(net) : m \in PacketRecords
  BY ReceivedType DEF TypeOK, Packets
<1>2. QED
  BY <1>1 DEF TypeOK, PacketRecords, ClientRecords, ServerRecords, SessionRecords, Ends

LEMMA ClientTurnKeeps ==
  ASSUME WindowLaw, ~ Timely, TrafficInv, AgreementInv', ClientTurn
  PROVE  TrafficInv'
<1>1. /\ AgreementInv /\ PendingClean
      /\ EndInv("client", client, Packets(net), deliveries, KeysSent("confirm"))
      /\ EndInv("server", server, Packets(net), deliveries, KeysSent("confirm_ack"))
      /\ Once(deliveries) /\ Unique(Packets(net)) /\ TypeOK
  BY DEF TrafficInv, AgreementInv
<1>2. server' = server /\ KeysSent("confirm_ack")' = KeysSent("confirm_ack")
  BY DEF ClientTurn, QuietKeys, Adopts
<1>3. PendingClean'
  BY <1>1, <1>2 DEF PendingClean
<1>4. NoKey \notin KeysSent("confirm") /\ NoKey \notin KeysSent("confirm")'
  <2>1. NoKey \notin KeysSent("confirm") /\ NoKey \notin KeysSent("response")
    BY <1>1, NothingAcked
  <2>2. QED
    BY <2>1 DEF ClientTurn, QuietKeys, Adopts
<1>5. /\ \A m \in Packets(net) : m.counter \in Nat /\ m.from \in {"client", "server"}
      /\ client.active.next \in Nat /\ deliveries \in [PacketIds -> Nat]
  BY <1>1, TrafficFacts
<1>6. CASE QuietKeys /\ QuietTraffic /\ (Keeps(client, client') \/ Drops(client'))
  <2>1. MovesOn(client, client', KeysSent("confirm"))
    BY <1>6 DEF MovesOn, Keeps, Drops
  <2>2. client'.active.key \in KeysSent("confirm") \cup {NoKey}
    BY <1>1, <1>6, NoSessionEmpty DEF EndInv, Keeps, Drops, Same
  <2>3. EndInv("client", client', Packets(net), deliveries, KeysSent("confirm"))
    BY <1>1, <1>4, <2>1, <2>2, MovesOnKeeps
  <2>4. QED
    BY <1>1, <1>2, <1>3, <1>6, <2>3 DEF TrafficInv, QuietKeys, QuietTraffic
<1>7. CASE \E k \in KeysSent("response") : Adopts(k)
  <2>1. PICK k \in KeysSent("response") : Adopts(k)
    BY <1>7
  <2>2. MovesOn(client, client', KeysSent("confirm"))
    BY <2>1 DEF MovesOn, Adopts, Installs
  <2>3. /\ client'.active.key \in KeysSent("confirm")' \cup {NoKey}
        /\ KeysSent("confirm") \subseteq KeysSent("confirm")'
    BY <2>1 DEF Adopts, Installs
  <2>4. EndInv("client", client', Packets(net), deliveries, KeysSent("confirm")')
    BY <1>1, <1>4, <2>2, <2>3, MovesOnKeeps
  <2>5. QED
    BY <1>1, <1>2, <1>3, <2>1, <2>4 DEF TrafficInv, Adopts, QuietTraffic
<1>8. CASE /\ QuietKeys /\ deliveries' = deliveries
           /\ Sends("client", client, client', Packets(net), Packets(net)')
  <2>1. /\ EndInv("client", client', Packets(net)', deliveries, KeysSent("confirm"))
        /\ Unique(Packets(net)')
    BY <1>1, <1>5, <1>8, SendsKeeps
  <2>2. EndInv("server", server, Packets(net)', deliveries, KeysSent("confirm_ack"))
    BY <1>1, <1>8, OthersKeep
  <2>3. QED
    BY <1>1, <1>2, <1>3, <1>8, <2>1, <2>2 DEF TrafficInv, QuietKeys
<1>9. CASE /\ QuietKeys /\ Packets(net)' = Packets(net)
           /\ Takes("client", client, client', Packets(net), deliveries, deliveries')
  <2>1. /\ EndInv("client", client', Packets(net), deliveries', KeysSent("confirm"))
        /\ Once(deliveries')
    BY <1>1, <1>4, <1>5, <1>9, TakesKeeps
  <2>2. EndInv("server", server, Packets(net), deliveries', KeysSent("confirm_ack"))
    BY <1>1, <1>5, <1>9, OthersKeep
  <2>3. QED
    BY <1>1, <1>2, <1>3, <1>9, <2>1, <2>2 DEF TrafficInv, QuietKeys
<1>10. QED
  BY <1>6, <1>7, <1>8, <1>9 DEF ClientTurn

LEMMA ServerTurnKeeps ==
  ASSUME WindowLaw, ~ Timely, TrafficInv, AgreementInv', ServerTurn
  PROVE  TrafficInv'
<1>1. /\ AgreementInv /\ PendingClean'
      /\ EndInv("client", client, Packets(net), deliveries, KeysSent("confirm"))
      /\ EndInv("server", server, Packets(net), deliveries, KeysSent("confirm_ack"))
      /\ Once(deliveries) /\ Unique(Packets(net)) /\ TypeOK
  BY DEF TrafficInv, AgreementInv, ServerTurn
<1>2. client' = client /\ KeysSent("confirm")' = KeysSent("confirm")
  BY DEF ServerTurn, QuietKeys, Offered, Activated
<1>3. NoKey \notin KeysSent("confirm_ack") /\ NoKey \notin KeysSent("confirm_ack")'
  <2>1. NoKey \notin KeysSent("confirm_ack") /\ NoKey \notin KeysSent("confirm")
    BY <1>1, NothingAcked
  <2>2. QED
    BY <2>1 DEF ServerTurn, QuietKeys, Offered, Activated
<1>4. /\ \A m \in Packets(net) : m.counter \in Nat /\ m.from \in {"client", "server"}
      /\ server.active.next \in Nat /\ deliveries \in [PacketIds -> Nat]
  BY <1>1, TrafficFacts
<1>5. CASE /\ KeysSent("confirm_ack")' = KeysSent("confirm_ack")
           /\ QuietTraffic /\ (Keeps(server, server') \/ Drops(server'))
  <2>1. MovesOn(server, server', KeysSent("confirm_ack"))
    BY <1>5 DEF MovesOn, Keeps, Drops
  <2>2. server'.active.key \in KeysSent("confirm_ack") \cup {NoKey}
    BY <1>1, <1>5, NoSessionEmpty DEF EndInv, Keeps, Drops, Same
  <2>3. EndInv("server", server', Packets(net), deliveries, KeysSent("confirm_ack"))
    BY <1>1, <1>3, <2>1, <2>2, MovesOnKeeps
  <2>4. QED
    BY <1>1, <1>2, <1>5, <2>3 DEF TrafficInv, QuietTraffic
<1>6. CASE \E k \in KeysSent("confirm") : Activated(k)
  <2>1. PICK k \in KeysSent("confirm") : Activated(k)
    BY <1>6
  <2>2. MovesOn(server, server', KeysSent("confirm_ack"))
    BY <2>1 DEF MovesOn, Activated, Installs
  <2>3. /\ server'.active.key \in KeysSent("confirm_ack")' \cup {NoKey}
        /\ KeysSent("confirm_ack") \subseteq KeysSent("confirm_ack")'
    BY <2>1 DEF Activated, Installs
  <2>4. EndInv("server", server', Packets(net), deliveries, KeysSent("confirm_ack")')
    BY <1>1, <1>3, <2>2, <2>3, MovesOnKeeps
  <2>5. QED
    BY <1>1, <1>2, <2>1, <2>4 DEF TrafficInv, Activated, QuietTraffic
<1>7. CASE /\ QuietKeys /\ deliveries' = deliveries
           /\ Sends("server", server, server', Packets(net), Packets(net)')
  <2>1. /\ EndInv("server", server', Packets(net)', deliveries, KeysSent("confirm_ack"))
        /\ Unique(Packets(net)')
    BY <1>1, <1>4, <1>7, SendsKeeps
  <2>2. EndInv("client", client, Packets(net)', deliveries, KeysSent("confirm"))
    BY <1>1, <1>7, OthersKeep
  <2>3. QED
    BY <1>1, <1>2, <1>7, <2>1, <2>2 DEF TrafficInv, QuietKeys
<1>8. CASE /\ QuietKeys /\ Packets(net)' = Packets(net)
           /\ Takes("server", server, server', Packets(net), deliveries, deliveries')
  <2>1. /\ EndInv("server", server', Packets(net), deliveries', KeysSent("confirm_ack"))
        /\ Once(deliveries')
    BY <1>1, <1>3, <1>4, <1>8, TakesKeeps
  <2>2. EndInv("client", client, Packets(net), deliveries', KeysSent("confirm"))
    BY <1>1, <1>4, <1>8, OthersKeep
  <2>3. QED
    BY <1>1, <1>2, <1>8, <2>1, <2>2 DEF TrafficInv, QuietKeys
<1>9. QED
  BY <1>5, <1>6, <1>7, <1>8 DEF ServerTurn, QuietKeys, Offered

LEMMA TimeTurnKeeps ==
  ASSUME WindowLaw, ~ Timely, TrafficInv, AgreementInv', TimeTurn
  PROVE  TrafficInv'
<1>1. /\ AgreementInv /\ PendingClean'
      /\ EndInv("client", client, Packets(net), deliveries, KeysSent("confirm"))
      /\ EndInv("server", server, Packets(net), deliveries, KeysSent("confirm_ack"))
      /\ Once(deliveries) /\ Unique(Packets(net))
  BY DEF TrafficInv, TimeTurn
<1>2. QuietKeys /\ QuietTraffic /\ Keeps(client, client') /\ Keeps(server, server')
  BY DEF TimeTurn
<1>3. NoKey \notin KeysSent("confirm") /\ NoKey \notin KeysSent("confirm_ack")
  BY <1>1, NothingAcked
<1>4. EndInv("client", client', Packets(net), deliveries, KeysSent("confirm"))
  <2>1. client'.active.key \in KeysSent("confirm") \cup {NoKey}
    BY <1>1, <1>2 DEF EndInv, Keeps, Same
  <2>2. QED
    BY <1>1, <1>2, <1>3, <2>1, MovesOnKeeps DEF MovesOn, Keeps
<1>5. EndInv("server", server', Packets(net), deliveries, KeysSent("confirm_ack"))
  <2>1. server'.active.key \in KeysSent("confirm_ack") \cup {NoKey}
    BY <1>1, <1>2 DEF EndInv, Keeps, Same
  <2>2. QED
    BY <1>1, <1>2, <1>3, <2>1, MovesOnKeeps DEF MovesOn, Keeps
<1>6. QED
  BY <1>1, <1>2, <1>4, <1>5 DEF TrafficInv, QuietKeys, QuietTraffic

LEMMA TrafficInit ==
  ASSUME WindowLaw, Init
  PROVE  TrafficInv
<1>1. AgreementInv
  BY AgreementInit
<1>2. \A type : KeysSent(type) = {}
  BY DEF Init, KeysSent
<1>3. Packets(net) = {} /\ deliveries = [id \in PacketIds |-> 0]
  BY DEF Init, Packets
<1>4. /\ client.active = NoSession /\ client.previous = NoSession
      /\ server.active = NoSession /\ server.previous = NoSession /\ server.pending = NoSession
  BY DEF Init, FreshClient, FreshServer
<1>5. PendingClean
  BY <1>2, <1>4 DEF PendingClean, NoSession
<1>6. /\ EndInv("client", client, Packets(net), deliveries, KeysSent("confirm"))
      /\ EndInv("server", server, Packets(net), deliveries, KeysSent("confirm_ack"))
  BY SMTT(30), <1>2, <1>3, <1>4, EmptyWindow, NothingEmptyWindow DEF EndInv
<1>7. Once(deliveries) /\ Unique(Packets(net))
  BY <1>3 DEF Once, Unique
<1>8. QED
  BY <1>1, <1>5, <1>6, <1>7 DEF TrafficInv

LEMMA TrafficStep ==
  ASSUME WindowLaw, ~ Timely, TrafficInv, [Next]_vars
  PROVE  TrafficInv'
<1>1. AgreementInv'
  BY AgreementStep DEF TrafficInv
<1>2. CASE Next
  BY <1>1, <1>2, TrafficTurn, ClientTurnKeeps, ServerTurnKeeps, TimeTurnKeeps
<1>3. CASE UNCHANGED vars
  <2>1. /\ client' = client /\ server' = server /\ net' = net /\ deliveries' = deliveries
        /\ Packets(net)' = Packets(net)
        /\ \A type : KeysSent(type)' = KeysSent(type)
    BY <1>3 DEF vars, Packets, KeysSent
  <2>2. QED
    BY <1>1, <2>1 DEF TrafficInv, PendingClean
<1>4. QED
  BY <1>2, <1>3

-----------------------------------------------------------------------------
(* Refinement of KeyAgreement.                                             *)

(* A step of KeyAgreement, or one that it does not see.                    *)
AbstractStep == Agreement!Next \/ UNCHANGED Agreement!agreementVars

LEMMA StageKeys ==
  ASSUME AgreementInv, NEW k \in KeysSent("response")
  PROVE  k \in (1 .. MaxInits) \X (1 .. MaxResponses)
<1>1. TypeOK /\ NoncesDrawn
  BY DEF AgreementInv
<1>2. k \in Keys
  <2>1. PICK m \in net : m.type = "response" /\ m.key = k
    BY DEF KeysSent
  <2>2. m \in KeyRecords
    BY <1>1, <2>1, ReceivedType DEF TypeOK
  <2>3. QED
    BY <2>1, <2>2 DEF KeyRecords
<1>3. /\ k[1] \in Nat /\ k[2] \in Nat
      /\ 1 <= k[1] /\ k[1] <= used.inits /\ 1 <= k[2] /\ k[2] <= used.responses
  BY <1>1, OfferedKeys
<1>4. used.inits \in 0 .. MaxInits /\ used.responses \in 0 .. MaxResponses
  BY <1>1 DEF TypeOK, UsedRecords
<1>5. k[1] \in 1 .. MaxInits /\ k[2] \in 1 .. MaxResponses
  BY <1>3, <1>4, BoundFacts
<1>6. k = <<k[1], k[2]>>
  BY <1>2 DEF Keys
<1>7. QED
  BY <1>5, <1>6

LEMMA StageKeysAlways ==
  AgreementInv => KeysSent("response") \subseteq (1 .. MaxInits) \X (1 .. MaxResponses)
BY StageKeys

LEMMA AbstractStutter ==
  ASSUME QuietKeys, client'.active.key = client.active.key,
         server'.active.key = server.active.key, Confirmed' <=> Confirmed
  PROVE  AbstractStep
BY DEF AbstractStep, Agreement!agreementVars, QuietKeys, Confirmed

LEMMA ClientStage ==
  ASSUME AgreementInv, AgreementInv', ClientTurn
  PROVE  AbstractStep
<1>1. server' = server
  BY DEF ClientTurn
<1>2. /\ client.active # NoSession <=> client.active.key # NoKey
      /\ client'.active # NoSession <=> client'.active.key # NoKey
  BY DEF AgreementInv, SlotsShaped, Empty
<1>3. CASE /\ QuietKeys /\ client'.active.key = client.active.key
           /\ client'.waiting_ack <=> client.waiting_ack
  BY <1>1, <1>2, <1>3, AbstractStutter DEF Confirmed
<1>4. CASE /\ QuietKeys /\ client'.active.key = client.active.key
           /\ ~ client'.waiting_ack /\ client.active.key \in KeysSent("confirm_ack")
  <2>1. client.active.key # NoKey
    BY <1>4, NothingAcked
  <2>2. server.active.key \in {client.active.key, NoKey}
    BY <1>4 DEF AgreementInv, AckedKeys
  <2>3. Confirmed'
    BY <1>2, <1>4, <2>1 DEF Confirmed
  <2>4. QED
    BY <1>1, <1>4, <2>2, <2>3
       DEF AbstractStep, Agreement!Next, Agreement!Confirm, QuietKeys, Confirmed
<1>5. CASE QuietKeys /\ Drops(client')
  <2>1. client'.active.key = NoKey /\ ~ Confirmed'
    BY <1>5, NoSessionEmpty DEF Drops, Confirmed
  <2>2. QED
    BY <1>1, <1>5, <2>1
       DEF AbstractStep, Agreement!Next, Agreement!ClientLoses, QuietKeys, Confirmed
<1>6. CASE \E k \in KeysSent("response") : Adopts(k)
  <2>1. PICK k \in KeysSent("response") : Adopts(k)
    BY <1>6
  <2>2. k \in (1 .. MaxInits) \X (1 .. MaxResponses)
    BY StageKeys
  <2>3. ~ Confirmed' /\ client'.active.key = k
    BY <2>1 DEF Adopts, Installs, Confirmed
  <2>4. Agreement!Adopt(k)
    BY <1>1, <2>1, <2>3 DEF Agreement!Adopt, Adopts, Confirmed
  <2>5. QED
    BY <2>2, <2>4 DEF AbstractStep, Agreement!Next
<1>7. ASSUME \/ Keeps(client, client')
             \/ Sends("client", client, client', Packets(net), Packets(net)')
             \/ Takes("client", client, client', Packets(net), deliveries, deliveries')
      PROVE  client'.active.key = client.active.key
  BY Zenon, <1>7 DEF Keeps, Same, Sends, Takes, NotedBy
<1>8. QED
  BY <1>3, <1>4, <1>5, <1>6, <1>7 DEF ClientTurn

LEMMA ServerStage ==
  ASSUME AgreementInv, AgreementInv', ServerTurn
  PROVE  AbstractStep
<1>1. client' = client /\ (Confirmed' <=> Confirmed)
  BY DEF ServerTurn, Confirmed
<1>2. CASE QuietKeys /\ server'.active.key = server.active.key
  BY <1>1, <1>2, AbstractStutter
<1>3. CASE QuietKeys /\ Drops(server')
  <2>1. server'.active.key = NoKey
    BY <1>3, NoSessionEmpty DEF Drops
  <2>2. QED
    BY <1>1, <1>3, <2>1
       DEF AbstractStep, Agreement!Next, Agreement!ServerLoses, QuietKeys
<1>4. CASE \E k \in KeysSent("response")' : Offered(k)
  <2>1. PICK k \in KeysSent("response")' : Offered(k)
    BY <1>4
  <2>2. k \in (1 .. MaxInits) \X (1 .. MaxResponses)
    <3>1. (AgreementInv => KeysSent("response") \subseteq (1 .. MaxInits) \X (1 .. MaxResponses))'
      BY StageKeysAlways, PTL
    <3>2. QED
      BY <3>1
  <2>3. server'.active.key = server.active.key
    BY <2>1 DEF Offered, Keeps, Same
  <2>4. Agreement!Offer(k)
    BY <1>1, <2>1, <2>3 DEF Agreement!Offer, Offered
  <2>5. QED
    BY <2>2, <2>4 DEF AbstractStep, Agreement!Next
<1>5. CASE \E k \in KeysSent("confirm") : Activated(k)
  <2>1. PICK k \in KeysSent("confirm") : Activated(k)
    BY <1>5
  <2>2. k \in (1 .. MaxInits) \X (1 .. MaxResponses)
    BY StageKeys, NothingAcked
  <2>3. ~ Confirmed /\ server'.active.key = k
    BY <2>1 DEF Activated, Installs, Confirmed
  <2>4. Agreement!Activate(k)
    BY <1>1, <2>1, <2>3 DEF Agreement!Activate, Activated, Confirmed
  <2>5. QED
    BY <2>2, <2>4 DEF AbstractStep, Agreement!Next
<1>6. ASSUME \/ Keeps(server, server')
             \/ Sends("server", server, server', Packets(net), Packets(net)')
             \/ Takes("server", server, server', Packets(net), deliveries, deliveries')
      PROVE  server'.active.key = server.active.key
  BY Zenon, <1>6 DEF Keeps, Same, Sends, Takes, NotedBy
<1>7. QED
  BY <1>2, <1>3, <1>4, <1>5, <1>6 DEF ServerTurn

LEMMA StageStep ==
  ASSUME ~ Timely, TrafficInv, [Next]_vars
  PROVE  AbstractStep
<1>1. AgreementInv /\ AgreementInv'
  BY AgreementStep DEF TrafficInv
<1>2. CASE TimeTurn
  <2>1. client'.active.key = client.active.key /\ server'.active.key = server.active.key
    BY <1>2 DEF TimeTurn, Keeps, Same
  <2>2. Confirmed' <=> Confirmed
    BY <1>1, <1>2, <2>1 DEF Confirmed, TimeTurn, AgreementInv, SlotsShaped, Empty
  <2>3. QED
    BY <1>2, <2>1, <2>2, AbstractStutter DEF TimeTurn
<1>3. CASE Next
  BY <1>1, <1>2, <1>3, TrafficTurn, ClientStage, ServerStage
<1>4. CASE UNCHANGED vars
  BY <1>4 DEF vars, AbstractStep, Agreement!agreementVars, KeysSent
<1>5. QED
  BY <1>3, <1>4

(* Metadata is handed up from the active session only.                     *)
LEMMA MetaStep ==
  ASSUME ~ Timely, TrafficInv, [Next]_vars
  PROVE  MetaOnActive
<1>1. SUFFICES ASSUME NEW id \in PacketIds, deliveries'[id] # deliveries[id],
                      PacketMsg(id[1], id[2], id[3], TRUE) \in net
               PROVE  id[1] = IF id[2] = "client" THEN server.active.key ELSE client.active.key
  BY Zenon DEF MetaOnActive
<1>2. /\ \A m \in Packets(net) : m.from \in {"client", "server"}
      /\ deliveries \in [PacketIds -> Nat]
  BY TrafficFacts DEF TrafficInv, AgreementInv
<1> DEFINE p == PacketMsg(id[1], id[2], id[3], TRUE)
<1>3. p \in Packets(net) /\ p.key = id[1] /\ p.from = id[2] /\ p.counter = id[3] /\ p.meta
  BY <1>1 DEF Packets, PacketMsg
<1> HIDE DEF p
<1>4. ASSUME NEW me, NEW e, NEW f, Takes(me, e, f, Packets(net), deliveries, deliveries')
      PROVE  id[2] # me /\ id[1] = e.active.key
  <2>1. PICK m \in Packets(net) :
          /\ m.from # me
          /\ deliveries' = [deliveries EXCEPT ![<<m.key, m.from, m.counter>>] = @ + 1]
          /\ \/ m.key = e.active.key
             \/ ~ m.meta
    BY Zenon, <1>4 DEF Takes, NotedBy
  <2>2. id = <<m.key, m.from, m.counter>>
    BY <1>1, <1>2, <2>1
  <2>3. m.key = p.key /\ m.from = p.from /\ m.counter = p.counter
    BY <1>3, <2>2
  <2>4. m.meta
    BY <1>3, <2>1, <2>3 DEF TrafficInv, Unique
  <2>5. QED
    BY <2>1, <2>2, <2>4
<1>5. id[2] \in {"client", "server"}
  BY <1>2, <1>3
<1>6. ClientTurn \/ ServerTurn \/ TimeTurn
  BY <1>1, TrafficTurn DEF vars
<1>7. CASE ClientTurn
  <2>1. Takes("client", client, client', Packets(net), deliveries, deliveries')
    BY <1>1, <1>7 DEF ClientTurn, QuietTraffic, Adopts
  <2>2. QED
    BY <1>4, <1>5, <2>1
<1>8. CASE ServerTurn
  <2>1. Takes("server", server, server', Packets(net), deliveries, deliveries')
    BY <1>1, <1>8 DEF ServerTurn, QuietTraffic, Offered, Activated
  <2>2. QED
    BY <1>4, <1>5, <2>1
<1>9. QED
  BY <1>1, <1>6, <1>7, <1>8 DEF TimeTurn, QuietTraffic

=============================================================================
