--------------------------- MODULE AgreementProofs ---------------------------
(***************************************************************************)
(* The client and the server never transmit under different keys while the *)
(* client takes its own for confirmed.  The network is the one of Session  *)
(* that forgets nothing (~ Timely): a datagram may be lost, delayed,       *)
(* repeated and reordered without bound.                                   *)
(***************************************************************************)
EXTENDS SessionProofs

-----------------------------------------------------------------------------
(* What a step adds to the messages sent.                                  *)

LEMMA SentOne ==
  ASSUME ~ Timely, NEW taken, NEW msg, Transit(taken, {msg}), NEW type
  PROVE  /\ msg.type = type => KeysSent(type)' = KeysSent(type) \cup {msg.key}
         /\ msg.type # type => KeysSent(type)' = KeysSent(type)
<1>1. net' = net \cup {msg}
  BY DEF Transit
<1>2. CASE msg.type = type
  BY <1>1, <1>2 DEF KeysSent
<1>3. CASE msg.type # type
  BY <1>1, <1>3 DEF KeysSent
<1>4. QED
  BY <1>2, <1>3

LEMMA SentKey ==
  ASSUME ~ Timely, NEW taken, NEW key
  PROVE  /\ Transit(taken, {ResponseMsg(key)}) =>
              /\ KeysSent("response")' = KeysSent("response") \cup {key}
              /\ KeysSent("confirm")' = KeysSent("confirm")
              /\ KeysSent("confirm_ack")' = KeysSent("confirm_ack")
              /\ \A m \in net' : m.type = "init" => m \in net
         /\ Transit(taken, {ConfirmMsg(key)}) =>
              /\ KeysSent("response")' = KeysSent("response")
              /\ KeysSent("confirm")' = KeysSent("confirm") \cup {key}
              /\ KeysSent("confirm_ack")' = KeysSent("confirm_ack")
              /\ \A m \in net' : m.type = "init" => m \in net
         /\ Transit(taken, {ConfirmAckMsg(key)}) =>
              /\ KeysSent("response")' = KeysSent("response")
              /\ KeysSent("confirm")' = KeysSent("confirm")
              /\ KeysSent("confirm_ack")' = KeysSent("confirm_ack") \cup {key}
              /\ \A m \in net' : m.type = "init" => m \in net
<1>1. /\ ResponseMsg(key).type = "response" /\ ResponseMsg(key).key = key
      /\ ConfirmMsg(key).type = "confirm" /\ ConfirmMsg(key).key = key
      /\ ConfirmAckMsg(key).type = "confirm_ack" /\ ConfirmAckMsg(key).key = key
  BY DEF ResponseMsg, ConfirmMsg, ConfirmAckMsg
<1>2. \A m : m.type # "init" /\ Transit(taken, {m}) =>
        \A x \in net' : x.type = "init" => x \in net
  BY DEF Transit
<1>3. QED
  BY <1>1, <1>2, SentOne

(* The step sends no handshake message that was not sent before, but for   *)
(* copies of an INIT.                                                      *)
NothingNew ==
  /\ KeysSent("response")' = KeysSent("response")
  /\ KeysSent("confirm")' = KeysSent("confirm")
  /\ KeysSent("confirm_ack")' = KeysSent("confirm_ack")
  /\ \A m \in net' : m.type = "init" => m \in net \/ m.nonce \in 1 .. used.inits

LEMMA SentNothing ==
  ASSUME ~ Timely, NEW taken
  PROVE  /\ Transit(taken, {}) => NothingNew
         /\ \A m \in net : Transit(taken, {m}) => NothingNew
         /\ \A key, from, n, meta : Transit(taken, {PacketMsg(key, from, n, meta)}) => NothingNew
<1>1. Transit(taken, {}) => NothingNew
  BY DEF Transit, NothingNew, KeysSent
<1>2. ASSUME NEW m \in net, Transit(taken, {m}) PROVE NothingNew
  BY <1>2 DEF Transit, NothingNew, KeysSent
<1>3. ASSUME NEW key, NEW from, NEW n, NEW meta,
             Transit(taken, {PacketMsg(key, from, n, meta)})
      PROVE  NothingNew
  <2>1. PacketMsg(key, from, n, meta).type = "packet"
    BY DEF PacketMsg
  <2>2. \A x \in net' : x.type = "init" => x \in net
    BY <1>3, <2>1 DEF Transit
  <2>3. QED
    BY <1>3, <2>1, <2>2, SentOne DEF NothingNew
<1>4. QED
  BY <1>1, <1>2, <1>3

LEMMA SentInit ==
  ASSUME ~ Timely, NEW taken, NEW n, NEW wall, Transit(taken, {InitMsg(n, wall)})
  PROVE  /\ KeysSent("response")' = KeysSent("response")
         /\ KeysSent("confirm")' = KeysSent("confirm")
         /\ KeysSent("confirm_ack")' = KeysSent("confirm_ack")
         /\ \A m \in net' : m.type = "init" => m \in net \/ m.nonce = n
<1>1. InitMsg(n, wall).type = "init" /\ InitMsg(n, wall).nonce = n
  BY DEF InitMsg
<1>2. \A m \in net' : m.type = "init" => m \in net \/ m.nonce = n
  BY <1>1 DEF Transit
<1>3. QED
  BY <1>1, <1>2, SentOne

-----------------------------------------------------------------------------
(* A step that leaves keys, stages and nonces alone.                       *)

Core == NoncesDrawn /\ ClientStages /\ AdoptionOrder /\ PendingNewest /\ AckedKeys

LEMMA QuietStep ==
  ASSUME TypeOK, Core, NothingNew,
         client'.active.key = client.active.key,
         client'.waiting_ack = client.waiting_ack,
         client'.client_init = client.client_init,
         client'.flight = client.flight,
         client.waiting_ack => client'.previousLeft <= client'.flightLeft,
         server'.active.key = server.active.key,
         server'.pending.key \in {server.pending.key, NoKey},
         used'.inits = used.inits, used'.responses = used.responses
  PROVE  Core'
<1>1. NoncesDrawn'
  BY DEF Core, NoncesDrawn, NothingNew
<1>2. ClientStages'
  BY DEF Core, ClientStages
<1>3. AdoptionOrder'
  BY DEF Core, AdoptionOrder, NothingNew
<1>4. PendingNewest'
  BY DEF Core, PendingNewest, NothingNew
<1>5. AckedKeys'
  BY DEF Core, AckedKeys, NothingNew
<1>6. QED
  BY <1>1, <1>2, <1>3, <1>4, <1>5 DEF Core
-----------------------------------------------------------------------------
LEMMA DerivedNotEmpty ==
  \A key, left : key # NoKey => Derive(key, left).key = key /\ Empty(Derive(key, left))
BY DEF Derive, Empty, NoSession

(* Keys that were offered have nonzero nonces.                             *)
LEMMA OfferedKeys ==
  ASSUME TypeOK, NoncesDrawn, NEW k \in KeysSent("response")
  PROVE  /\ k[1] \in Nat /\ k[2] \in Nat /\ k # NoKey
         /\ 1 <= k[1] /\ k[1] <= used.inits /\ 1 <= k[2] /\ k[2] <= used.responses
<1>1. k[1] \in 1 .. used.inits /\ k[2] \in 1 .. used.responses
  BY DEF NoncesDrawn
<1>2. used.inits \in Nat /\ used.responses \in Nat
  BY BoundFacts DEF TypeOK, UsedRecords
<1>3. NoKey[1] = 0
  BY DEF NoKey, Key
<1>4. QED
  BY <1>1, <1>2, <1>3

-----------------------------------------------------------------------------
(* The client's steps.                                                     *)

(* begin(), from a state c in which nothing unconfirmed is left.           *)
LEMMA BeginCore ==
  ASSUME TypeOK, SlotsShaped, Core, ~ Timely,
         NEW c \in ClientRecords, Begin(c), server' = server,
         ~ c.waiting_ack, c.flight = "none",
         Empty(c.active), Empty(c.previous),
         \/ c.active.key = NoKey
         \/ c.active.key = client.active.key /\ ~ client.waiting_ack,
         \/ c.client_init = NoInit
         \/ c.client_init = client.client_init /\ ~ client.waiting_ack
  PROVE  SlotsShaped' /\ Core'
<1>1. CASE /\ client'.active = c.active /\ client'.previous = c.previous
           /\ client'.waiting_ack = c.waiting_ack /\ client'.flight = c.flight
           /\ client'.client_init = c.client_init
           /\ Transit({}, {})
           /\ used'.inits = used.inits /\ used'.responses = used.responses
  <2>1. NothingNew
    BY <1>1, SentNothing
  <2>2. SlotsShaped'
    BY <1>1 DEF SlotsShaped, Empty
  <2>3. NoncesDrawn'
    BY <1>1, <2>1 DEF Core, NoncesDrawn, NothingNew, NoInit
  <2>4. ClientStages'
    BY <1>1 DEF ClientStages
  <2>5. AdoptionOrder'
    BY <1>1, <2>1 DEF Core, AdoptionOrder, NothingNew
  <2>6. PendingNewest'
    BY <1>1, <2>1 DEF Core, PendingNewest, NothingNew
  <2>7. AckedKeys'
    <3>1. NoKey \notin KeysSent("confirm_ack")
      BY OfferedKeys DEF Core, AckedKeys, AdoptionOrder
    <3>2. QED
      BY <1>1, <2>1, <3>1 DEF Core, AckedKeys, NothingNew
  <2>8. QED
    BY <2>2, <2>3, <2>4, <2>5, <2>6, <2>7 DEF Core
<1>2. ASSUME NEW wall \in Walls,
             used'.inits = used.inits + 1, used'.responses = used.responses,
             client'.active = c.active, client'.previous = NoSession,
             ~ client'.waiting_ack, client'.flight = "init",
             client'.client_init = InitMsg(used.inits + 1, wall),
             Transit({}, {InitMsg(used.inits + 1, wall)})
      PROVE  SlotsShaped' /\ Core'
  <2>1. /\ KeysSent("response")' = KeysSent("response")
        /\ KeysSent("confirm")' = KeysSent("confirm")
        /\ KeysSent("confirm_ack")' = KeysSent("confirm_ack")
        /\ \A m \in net' : m.type = "init" => m \in net \/ m.nonce = used.inits + 1
    BY <1>2, SentInit
  <2>2. /\ client'.client_init.nonce = used.inits + 1
        /\ client'.client_init # NoInit /\ used.inits \in Nat /\ used.responses \in Nat
    BY <1>2, BoundFacts DEF InitMsg, NoInit, TypeOK, UsedRecords
  <2>3. SlotsShaped'
    BY <1>2, NoSessionEmpty DEF SlotsShaped, Empty
  <2>4. NoncesDrawn'
    BY <1>2, <2>1, <2>2, OfferedKeys DEF Core, NoncesDrawn
  <2>5. ClientStages'
    BY <1>2, <2>2 DEF ClientStages
  <2>6. AdoptionOrder'
    <3>1. \A k \in KeysSent("confirm") : k[1] < used.inits + 1
      BY <2>2, OfferedKeys DEF Core, AdoptionOrder
    <3>2. QED
      BY <1>2, <2>1, <2>2, <3>1 DEF Core, AdoptionOrder
  <2>7. PendingNewest'
    BY <1>2, <2>1 DEF Core, PendingNewest
  <2>8. AckedKeys'
    <3>1. NoKey \notin KeysSent("confirm_ack")
      BY OfferedKeys DEF Core, AckedKeys, AdoptionOrder
    <3>2. QED
      BY <1>2, <2>1, <3>1 DEF Core, AckedKeys
  <2>9. QED
    BY <2>3, <2>4, <2>5, <2>6, <2>7, <2>8 DEF Core
<1>3. used \in UsedRecords
  BY DEF TypeOK
<1>4. CASE /\ client' = [c EXCEPT !.begin_retry = TRUE]
           /\ Transit({}, {})
           /\ UNCHANGED used
  BY <1>1, <1>4 DEF ClientRecords
<1>5. CASE /\ \E delay \in {0, RetryInterval} :
                client' = [c EXCEPT !.begin_retry = TRUE, !.randomLeft = delay]
           /\ Transit({}, {})
           /\ Spend("faults", MaxFaults)
  <2>1. used'.inits = used.inits /\ used'.responses = used.responses
    BY <1>3, <1>5 DEF Spend, UsedRecords
  <2>2. QED
    BY <1>1, <1>5, <2>1 DEF ClientRecords
<1>6. ASSUME NEW wall \in Walls,
             Spend("inits", MaxInits),
             client' = [c EXCEPT !.previous = NoSession, !.waiting_ack = FALSE,
                                 !.client_init = InitMsg(used.inits + 1, wall),
                                 !.flight = "init", !.flightLeft = PendingLifetime,
                                 !.retryLeft = RetryInterval, !.begin_retry = FALSE],
             Transit({}, {InitMsg(used.inits + 1, wall)})
      PROVE  SlotsShaped' /\ Core'
  <2>1. used'.inits = used.inits + 1 /\ used'.responses = used.responses
    BY <1>3, <1>6 DEF Spend, UsedRecords
  <2>2. /\ client'.active = c.active /\ client'.previous = NoSession
        /\ ~ client'.waiting_ack /\ client'.flight = "init"
        /\ client'.client_init = InitMsg(used.inits + 1, wall)
    BY <1>6 DEF ClientRecords
  <2>3. QED
    BY <1>2, <1>6, <2>1, <2>2
<1>7. QED
  BY ZenonT(30), <1>4, <1>5, <1>6 DEF Begin

(* A retry repeats the flight.                                             *)
LEMMA FlightSent ==
  ASSUME TypeOK, Core, ~ Timely, NEW taken, NEW c \in ClientRecords,
         c.flight = client.flight, c.client_init = client.client_init,
         c.active = client.active, c.flight # "none",
         Transit(taken, {FlightMsg(c)})
  PROVE  NothingNew
<1>1. client \in ClientRecords /\ used.inits \in Nat
  BY BoundFacts DEF TypeOK, UsedRecords
<1>2. CASE c.flight = "init"
  <2>1. /\ FlightMsg(c) = client.client_init
        /\ client.client_init.type = "init"
        /\ client.client_init.nonce \in Nat
    BY <1>1, <1>2 DEF FlightMsg, ClientRecords, InitRecords
  <2>2. client.client_init.nonce \in 1 .. used.inits
    BY <1>1, <2>1 DEF Core, NoncesDrawn, ClientStages
  <2>3. \A m \in net' : m.type = "init" => m \in net \/ m.nonce \in 1 .. used.inits
    BY <2>1, <2>2 DEF Transit
  <2>4. QED
    BY <2>1, <2>3, SentOne DEF NothingNew
<1>3. CASE c.flight # "init"
  <2>1. client.active.key \in KeysSent("confirm")
    BY <1>1, <1>3 DEF Core, ClientStages, AdoptionOrder, ClientRecords
  <2>2. FlightMsg(c) = ConfirmMsg(client.active.key)
    BY <1>3 DEF FlightMsg
  <2>3. /\ Transit(taken, {ConfirmMsg(client.active.key)})
        /\ KeysSent("confirm") \cup {client.active.key} = KeysSent("confirm")
    BY <2>1, <2>2
  <2>4. /\ KeysSent("response")' = KeysSent("response")
        /\ KeysSent("confirm")' = KeysSent("confirm") \cup {client.active.key}
        /\ KeysSent("confirm_ack")' = KeysSent("confirm_ack")
        /\ \A m \in net' : m.type = "init" => m \in net
    BY ZenonT(30), <2>3, SentKey
  <2>5. QED
    BY <2>3, <2>4 DEF NothingNew
<1>4. QED
  BY <1>2, <1>3

LEMMA ClientTickCore ==
  ASSUME TypeOK, SlotsShaped, Core, ~ Timely, ClientTick
  PROVE  SlotsShaped' /\ Core'
<1> DEFINE c == ExpirePrevious(client)
<1>1. client \in ClientRecords /\ server' = server
  BY DEF TypeOK, ClientTick
<1>2. /\ c \in ClientRecords
      /\ c.active = client.active /\ c.waiting_ack = client.waiting_ack
      /\ c.client_init = client.client_init /\ c.flight = client.flight
      /\ c.previousLeft = client.previousLeft /\ c.flightLeft = client.flightLeft
      /\ c.previous \in {client.previous, NoSession}
      /\ c.previousLeft = 0 => c.previous = NoSession
  BY <1>1, ClientExpired
<1>3. Empty(c.active) /\ Empty(c.previous)
  BY <1>2, NoSessionEmpty DEF SlotsShaped
<1> HIDE DEF c
<1>4. CASE c.flight # "none" /\ c.flightLeft = 0 /\ Begin(Abandon(c))
  <2> DEFINE a == Abandon(c)
  <2>1. a \in ClientRecords
    BY <1>2, AbandonType
  <2>2. /\ ~ a.waiting_ack /\ a.flight = "none" /\ a.client_init = NoInit
        /\ c.waiting_ack => a.active = c.previous /\ a.previous = NoSession
        /\ ~ c.waiting_ack => a.active = c.active /\ a.previous = c.previous
    BY <1>2 DEF Abandon, ClientRecords
  <2>3. c.waiting_ack => c.previous = NoSession
    BY <1>2, <1>4 DEF Core, ClientStages, ClientRecords
  <2>4. \/ a.active.key = NoKey
        \/ a.active.key = client.active.key /\ ~ client.waiting_ack
    BY <1>2, <2>2, <2>3, NoSessionEmpty
  <2>5. Empty(a.active) /\ Empty(a.previous)
    BY <1>3, <2>2, NoSessionEmpty
  <2> HIDE DEF a
  <2>6. Begin(a)
    BY <1>4 DEF a
  <2>7. QED
    BY <1>1, <2>1, <2>2, <2>4, <2>5, <2>6, BeginCore
<1>5. CASE /\ client' = [c EXCEPT !.retryLeft = RetryInterval]
           /\ c.flight # "none"
           /\ Transit({}, {FlightMsg(c)})
           /\ UNCHANGED used
  <2>1. /\ client'.active = client.active /\ client'.previous = c.previous
        /\ client'.waiting_ack = client.waiting_ack
        /\ client'.client_init = client.client_init /\ client'.flight = client.flight
        /\ client'.previousLeft = client.previousLeft /\ client'.flightLeft = client.flightLeft
    BY <1>2, <1>5 DEF ClientRecords
  <2>2. NothingNew
    BY <1>2, <1>5, FlightSent
  <2>3. SlotsShaped'
    BY <1>1, <1>3, <2>1 DEF SlotsShaped, Empty
  <2>4. Core'
    BY <1>1, <1>5, <2>1, <2>2, QuietStep DEF Core, ClientStages
  <2>5. QED
    BY <2>3, <2>4
<1>6. CASE c.flight = "none" /\ Begin(c)
  BY <1>1, <1>2, <1>3, <1>6, BeginCore DEF Core, ClientStages
<1>7. CASE client' = c /\ Transit({}, {}) /\ UNCHANGED used
  <2>1. NothingNew
    BY <1>7, SentNothing
  <2>2. SlotsShaped'
    BY <1>1, <1>3, <1>7 DEF SlotsShaped, Empty
  <2>3. Core'
    BY <1>1, <1>2, <1>7, <2>1, QuietStep DEF Core, ClientStages
  <2>4. QED
    BY <2>2, <2>3
<1>8. QED
  BY <1>4, <1>5, <1>6, <1>7 DEF ClientTick, c

LEMMA RestartCore ==
  ASSUME TypeOK, SlotsShaped, Core, ~ Timely, Restart
  PROVE  SlotsShaped' /\ Core'
<1> DEFINE c == [client EXCEPT !.active = NoSession, !.previous = NoSession,
                               !.waiting_ack = FALSE, !.flight = "none",
                               !.client_init = NoInit, !.generation = @ + 1]
<1>1. client \in ClientRecords /\ client.generation + 1 \in Nat
  BY DEF TypeOK, ClientRecords
<1>2. NoSession \in SessionRecords /\ NoInit \in InitRecords
  BY DeriveType DEF NoInit, InitRecords
<1>3. c \in ClientRecords
  BY ZenonT(30), <1>1, <1>2 DEF ClientRecords
<1>4. /\ Begin(c) /\ server' = server
      /\ c.active = NoSession /\ c.previous = NoSession /\ ~ c.waiting_ack
      /\ c.flight = "none" /\ c.client_init = NoInit
  BY <1>1 DEF Restart, ClientRecords
<1> HIDE DEF c
<1>5. QED
  BY <1>3, <1>4, BeginCore, NoSessionEmpty

(* The client adopts a key that answers its current INIT.  Everything      *)
(* adopted before answers an earlier one.                                  *)
LEMMA AdoptCore ==
  ASSUME TypeOK, SlotsShaped, Core, ~ Timely, NEW k \in KeysSent("response"),
         k \in Keys, NEW c \in ClientRecords, server' = server, used' = used,
         Empty(c.active), ~ client.waiting_ack,
         c.client_init = client.client_init, client.client_init # NoInit,
         k[1] = client.client_init.nonce,
         client' = Adopt(c, k),
         NEW taken, Transit(taken, {ConfirmMsg(k)})
  PROVE  SlotsShaped' /\ Core'
<1>1. /\ k[1] \in Nat /\ k[2] \in Nat /\ k # NoKey
      /\ used.inits \in Nat /\ used.responses \in Nat
  BY SMTT(40), OfferedKeys, BoundFacts DEF Core, TypeOK, UsedRecords
<1>2. /\ client'.active = Derive(k, RekeyInterval) /\ client'.previous = c.active
      /\ client'.waiting_ack /\ client'.flight = "confirm"
      /\ client'.client_init = client.client_init
      /\ client'.previousLeft = OldLifetime /\ client'.flightLeft = PendingLifetime
  BY DEF Adopt, ClientRecords
<1>3. client'.active.key = k /\ Empty(client'.active)
  BY SMTT(40), <1>1, <1>2, DerivedNotEmpty
<1>4. /\ KeysSent("response")' = KeysSent("response")
      /\ KeysSent("confirm")' = KeysSent("confirm") \cup {k}
      /\ KeysSent("confirm_ack")' = KeysSent("confirm_ack")
      /\ \A m \in net' : m.type = "init" => m \in net
  BY ZenonT(30), SentKey
<1>5. \A q \in KeysSent("confirm") : /\ q \in KeysSent("response")
                                     /\ q[1] \in Nat /\ q[2] \in Nat /\ q[1] < k[1]
  BY OfferedKeys DEF Core, AdoptionOrder
<1>6. k \notin KeysSent("confirm")
  BY <1>1, <1>5
<1>7. SlotsShaped'
  BY <1>2, <1>3 DEF SlotsShaped, Empty
<1>8. NoncesDrawn'
  BY <1>2, <1>4 DEF Core, NoncesDrawn
<1>9. ClientStages'
  BY SMTT(40), <1>1, <1>2, <1>3, IntervalFacts DEF ClientStages
<1>10. AdoptionOrder'
  <2>1. \A q \in KeysSent("response") : q[1] \in Nat /\ q[2] \in Nat /\ q[1] <= k[1]
    BY OfferedKeys DEF Core, NoncesDrawn
  <2>2. \A q \in KeysSent("response") : ~ (q[1] > k[1])
    BY <1>1, <2>1
  <2>3. QED
    BY <1>2, <1>3, <1>4, <1>5, <2>2 DEF Core, AdoptionOrder
<1>11. PendingNewest'
  BY <1>4 DEF Core, PendingNewest
<1>12. AckedKeys'
  BY <1>2, <1>3, <1>4, <1>6 DEF Core, AckedKeys
<1>13. QED
  BY <1>7, <1>8, <1>9, <1>10, <1>11, <1>12 DEF Core

LEMMA ReceiveResponseCore ==
  ASSUME TypeOK, SlotsShaped, Core, ~ Timely,
         NEW m \in net, m.type = "response", ReceiveResponse(m)
  PROVE  SlotsShaped' /\ Core'
<1> DEFINE c == ExpirePrevious(client)
<1>1. /\ client \in ClientRecords /\ server' = server /\ used \in UsedRecords
      /\ m \in KeyRecords /\ m.key \in Keys /\ m.key \in KeysSent("response")
  BY ReceivedType DEF TypeOK, ReceiveResponse, KeyRecords, KeysSent
<1>2. /\ c \in ClientRecords
      /\ c.active = client.active /\ c.waiting_ack = client.waiting_ack
      /\ c.client_init = client.client_init /\ c.flight = client.flight
      /\ c.previousLeft = client.previousLeft /\ c.flightLeft = client.flightLeft
      /\ c.previous \in {client.previous, NoSession}
  BY <1>1, ClientExpired
<1>3. Empty(c.active) /\ Empty(c.previous)
  BY <1>2, NoSessionEmpty DEF SlotsShaped
<1> HIDE DEF c
<1>4. ASSUME client' = c, used'.inits = used.inits, used'.responses = used.responses,
             NothingNew
      PROVE  SlotsShaped' /\ Core'
  <2>1. SlotsShaped'
    BY <1>1, <1>3, <1>4 DEF SlotsShaped, Empty
  <2>2. Core'
    BY <1>1, <1>2, <1>4, QuietStep DEF Core, ClientStages
  <2>3. QED
    BY <2>1, <2>2
<1>5. CASE client' = c /\ Transit({m}, {}) /\ UNCHANGED used
  BY <1>4, <1>5, SentNothing
<1>6. CASE /\ c.waiting_ack /\ client' = c /\ Transit({m}, {FlightMsg(c)})
           /\ UNCHANGED used
  <2>1. c.flight # "none"
    BY <1>2, <1>6 DEF Core, ClientStages
  <2>2. NothingNew
    BY <1>2, <1>6, <2>1, FlightSent
  <2>3. QED
    BY <1>4, <1>6, <2>2
<1>7. CASE client' = c /\ Transit({m}, {}) /\ Spend("faults", MaxFaults)
  <2>1. used'.inits = used.inits /\ used'.responses = used.responses
    BY <1>1, <1>7 DEF Spend, UsedRecords
  <2>2. QED
    BY <1>4, <1>7, <2>1, SentNothing
<1>8. CASE /\ c.client_init # NoInit /\ m.key[1] = c.client_init.nonce
           /\ ~ c.waiting_ack /\ client' = Adopt(c, m.key)
           /\ Transit({m}, {ConfirmMsg(m.key)}) /\ UNCHANGED used
  BY <1>1, <1>2, <1>3, <1>8, AdoptCore
<1>9. QED
  BY <1>5, <1>6, <1>7, <1>8 DEF ReceiveResponse, c

(* An acknowledgement of the candidate makes it the confirmed session.     *)
LEMMA ReceiveConfirmAckCore ==
  ASSUME TypeOK, SlotsShaped, Core, ~ Timely,
         NEW m \in net, m.type = "confirm_ack", ReceiveConfirmAck(m)
  PROVE  SlotsShaped' /\ Core'
<1> DEFINE c == ExpirePrevious(client)
<1>1. /\ client \in ClientRecords /\ server' = server /\ used' = used
      /\ m.key \in KeysSent("confirm_ack")
  BY DEF TypeOK, ReceiveConfirmAck, KeysSent
<1>2. /\ c \in ClientRecords
      /\ c.active = client.active /\ c.waiting_ack = client.waiting_ack
      /\ c.client_init = client.client_init /\ c.flight = client.flight
      /\ c.previousLeft = client.previousLeft /\ c.flightLeft = client.flightLeft
      /\ c.previous \in {client.previous, NoSession}
  BY <1>1, ClientExpired
<1>3. Empty(c.active) /\ Empty(c.previous)
  BY <1>2, NoSessionEmpty DEF SlotsShaped
<1>4. NothingNew
  BY SentNothing DEF ReceiveConfirmAck
<1>5. \/ client' = c
      \/ /\ m.key = c.active.key
         /\ client' = [c EXCEPT !.waiting_ack = FALSE, !.flight = "none",
                                !.client_init = NoInit, !.idleLeft = IdleRestart]
  BY DEF ReceiveConfirmAck
<1> HIDE DEF c
<1>6. CASE client' = c
  <2>1. SlotsShaped'
    BY <1>1, <1>3, <1>6 DEF SlotsShaped, Empty
  <2>2. Core'
    BY <1>1, <1>2, <1>4, <1>6, QuietStep DEF Core, ClientStages
  <2>3. QED
    BY <2>1, <2>2
<1>7. CASE /\ m.key = c.active.key
           /\ client' = [c EXCEPT !.waiting_ack = FALSE, !.flight = "none",
                                  !.client_init = NoInit, !.idleLeft = IdleRestart]
  <2>1. /\ client'.active = client.active /\ client'.previous = c.previous
        /\ ~ client'.waiting_ack /\ client'.flight = "none" /\ client'.client_init = NoInit
    BY <1>2, <1>7 DEF ClientRecords
  <2>2. SlotsShaped'
    BY <1>1, <1>2, <1>3, <2>1 DEF SlotsShaped, Empty
  <2>3. NoncesDrawn'
    BY <1>1, <1>4, <2>1 DEF Core, NoncesDrawn, NothingNew, NoInit
  <2>4. ClientStages'
    BY <2>1 DEF ClientStages
  <2>5. AdoptionOrder'
    BY <1>4, <2>1 DEF Core, AdoptionOrder, NothingNew
  <2>6. PendingNewest'
    BY <1>1, <1>4 DEF Core, PendingNewest, NothingNew
  <2>7. AckedKeys'
    BY <1>1, <1>2, <1>4, <1>7, <2>1 DEF Core, AckedKeys, NothingNew
  <2>8. QED
    BY <2>2, <2>3, <2>4, <2>5, <2>6, <2>7 DEF Core
<1>8. QED
  BY <1>5, <1>6, <1>7

-----------------------------------------------------------------------------
(* The server's steps.                                                     *)

(* A step of the server that offers nothing new and leaves its keys alone. *)
LEMMA QuietServer ==
  ASSUME TypeOK, SlotsShaped, Core, NothingNew, client' = client,
         server'.active.key = server.active.key, Empty(server'.active),
         server'.pending \in {server.pending, NoSession}, Empty(server'.previous),
         used'.inits = used.inits, used'.responses = used.responses
  PROVE  SlotsShaped' /\ Core'
<1>1. SlotsShaped'
  BY NoSessionEmpty DEF SlotsShaped, Empty
<1>2. server'.pending.key \in {server.pending.key, NoKey}
  BY NoSessionEmpty
<1>3. Core'
  BY <1>2, QuietStep DEF Core, ClientStages
<1>4. QED
  BY <1>1, <1>3

(* The server offers a key: the client's nonce and a fresh one of its own. *)
LEMMA OfferCore ==
  ASSUME TypeOK, SlotsShaped, Core, ~ Timely, client' = client,
         NEW m \in net, m.type = "init", NEW s \in ServerRecords,
         s.active = server.active,
         server' = Offer(s, m, Key(m.nonce, used.responses + 1)),
         used'.inits = used.inits, used'.responses = used.responses + 1,
         Transit({m}, {ResponseMsg(Key(m.nonce, used.responses + 1))})
  PROVE  SlotsShaped' /\ Core'
<1> DEFINE k == Key(m.nonce, used.responses + 1)
<1>1. used.inits \in Nat /\ used.responses \in Nat /\ m \in InitRecords
  BY BoundFacts, ReceivedType DEF TypeOK, UsedRecords
<1>2. m.nonce \in 1 .. used.inits
  BY DEF Core, NoncesDrawn
<1>3. k[1] = m.nonce /\ k[2] = used.responses + 1 /\ k # NoKey /\ k \in Keys
  BY <1>1, <1>2 DEF Key, NoKey, Keys
<1> HIDE DEF k
<1>4. /\ KeysSent("response")' = KeysSent("response") \cup {k}
      /\ KeysSent("confirm")' = KeysSent("confirm")
      /\ KeysSent("confirm_ack")' = KeysSent("confirm_ack")
      /\ \A x \in net' : x.type = "init" => x \in net
  BY ZenonT(30), SentKey DEF k
<1>5. Remember(s, m) \in ServerRecords /\ Remember(s, m).active = s.active
  BY ZenonT(30), <1>1, RememberType DEF Remember, ServerRecords
<1>6. /\ server'.active = server.active /\ server'.previous = NoSession
      /\ server'.pending = Derive(k, 0)
  BY <1>5 DEF Offer, ServerRecords, k
<1>7. server'.pending.key = k /\ Empty(server'.pending)
  BY SMTT(40), <1>3, <1>6, DerivedNotEmpty
<1>8. SlotsShaped'
  BY <1>6, <1>7, NoSessionEmpty DEF SlotsShaped, Empty
<1>9. NoncesDrawn'
  <2>1. \A q \in KeysSent("response") \cup {k} :
          q[1] \in 1 .. used.inits /\ q[2] \in 1 .. used.responses + 1
    BY SMTT(40), <1>1, <1>2, <1>3, OfferedKeys DEF Core
  <2>2. QED
    BY <1>4, <2>1 DEF Core, NoncesDrawn
<1>10. ClientStages'
  BY DEF Core, ClientStages
<1>11. AdoptionOrder'
  <2>1. ASSUME NEW q \in KeysSent("confirm") PROVE q[2] < used.responses + 1
    <3>1. q \in KeysSent("response")
      BY DEF Core, AdoptionOrder
    <3>2. q[2] \in Nat /\ q[2] <= used.responses
      BY <3>1, OfferedKeys DEF Core
    <3>3. QED
      BY <1>1, <3>2
  <2>2. QED
    BY <1>3, <1>4, <2>1 DEF Core, AdoptionOrder
<1>12. PendingNewest'
  BY <1>3, <1>4, <1>7 DEF PendingNewest
<1>13. AckedKeys'
  BY <1>4, <1>6 DEF Core, AckedKeys
<1>14. QED
  BY <1>8, <1>9, <1>10, <1>11, <1>12, <1>13 DEF Core

LEMMA ReceiveInitCore ==
  ASSUME TypeOK, SlotsShaped, Core, ~ Timely,
         NEW m \in net, m.type = "init", ReceiveInit(m)
  PROVE  SlotsShaped' /\ Core'
<1> DEFINE e == ExpirePending(ExpirePrevious(server))
           t(wall) == [e EXCEPT !.high = Larger(e.high, wall)]
<1>1. /\ server \in ServerRecords /\ client' = client /\ used \in UsedRecords
      /\ m \in InitRecords
  BY ReceivedType DEF TypeOK, ReceiveInit
<1>2. /\ e \in ServerRecords /\ e.active = server.active
      /\ e.pending \in {server.pending, NoSession}
      /\ e.previous \in {server.previous, NoSession}
  BY <1>1, ServerExpired
<1>3. PICK wall \in Walls :
        \/ server' = t(wall) /\ Transit({m}, {}) /\ UNCHANGED used
        \/ AnswerSeen(Purge(t(wall)), m)
        \/ AnswerFresh(Purge(t(wall)), m)
  BY DEF ReceiveInit
<1> HIDE DEF e
<1>4. /\ t(wall) \in ServerRecords /\ t(wall).active = e.active
      /\ t(wall).pending = e.pending /\ t(wall).previous = e.previous
  <2>1. Larger(e.high, wall) \in Nat
    BY <1>2, BoundFacts DEF Larger, ServerRecords
  <2>2. QED
    BY <1>2, <2>1 DEF ServerRecords
<1> DEFINE s == Purge(t(wall))
<1> HIDE DEF t
<1>5. /\ s \in ServerRecords /\ s.active = server.active
      /\ s.pending \in {server.pending, NoSession}
      /\ s.previous \in {server.previous, NoSession}
  <2>1. s \in ServerRecords
    BY <1>4, PurgeType
  <2>2. s.active = t(wall).active /\ s.pending = t(wall).pending /\ s.previous = t(wall).previous
    BY <1>4 DEF Purge, ServerRecords
  <2>3. QED
    BY <1>2, <1>4, <2>1, <2>2
<1>6. Empty(server.active) /\ Empty(server.previous) /\ Empty(server.pending)
  BY DEF SlotsShaped
<1>7. CASE server' = t(wall) /\ Transit({m}, {}) /\ UNCHANGED used
  BY <1>1, <1>2, <1>4, <1>6, <1>7, QuietServer, SentNothing, NoSessionEmpty
<1> HIDE DEF s
<1>8. CASE AnswerSeen(s, m)
  <2>1. /\ server'.active = s.active /\ server'.pending = s.pending
        /\ server'.previous = s.previous /\ used' = used
    BY ZenonT(30), <1>5, <1>8 DEF AnswerSeen, ServerRecords
  <2>2. NothingNew
    <3>1. CASE ResendDue(s, m)
      <4>1. s.pending.key = server.pending.key /\ s.pending.key # NoKey
        <5>1. m.nonce # 0
          BY DEF Core, NoncesDrawn
        <5>2. NoKey[1] = 0
          BY DEF NoKey, Key
        <5>3. QED
          BY <1>5, <3>1, <5>1, <5>2, NoSessionEmpty DEF ResendDue
      <4>2. s.pending.key \in KeysSent("response")
        BY <4>1 DEF Core, PendingNewest
      <4>3. Transit({m}, {ResponseMsg(s.pending.key)})
        BY <1>8, <3>1 DEF AnswerSeen
      <4>4. /\ KeysSent("response")' = KeysSent("response") \cup {s.pending.key}
            /\ KeysSent("confirm")' = KeysSent("confirm")
            /\ KeysSent("confirm_ack")' = KeysSent("confirm_ack")
            /\ \A x \in net' : x.type = "init" => x \in net
        BY ZenonT(30), <4>3, SentKey
      <4>5. KeysSent("response") \cup {s.pending.key} = KeysSent("response")
        BY <4>2
      <4>6. QED
        BY ZenonT(30), <4>4, <4>5 DEF NothingNew
    <3>2. CASE ~ ResendDue(s, m)
      BY <1>8, <3>2, SentNothing DEF AnswerSeen
    <3>3. QED
      BY <3>1, <3>2
  <2>3. QED
    BY <1>1, <1>5, <1>6, <2>1, <2>2, QuietServer, NoSessionEmpty
<1>9. CASE AnswerFresh(s, m)
  <2>1. CASE /\ \/ server' = s \/ server' = Remember(s, m)
                \/ \E delay \in {0, RetryInterval} : server' = [s EXCEPT !.randomLeft = delay]
             /\ Transit({m}, {})
             /\ used' = used \/ Spend("faults", MaxFaults)
    <3>1. server'.active = s.active /\ server'.pending = s.pending /\ server'.previous = s.previous
      BY ZenonT(30), <1>5, <2>1 DEF Remember, ServerRecords
    <3>2. used'.inits = used.inits /\ used'.responses = used.responses
      BY <1>1, <2>1 DEF Spend, UsedRecords
    <3>3. NothingNew
      BY <2>1, SentNothing
    <3>4. QED
      BY <1>1, <1>5, <1>6, <3>1, <3>2, <3>3, QuietServer, NoSessionEmpty
  <2>2. CASE /\ Spend("responses", MaxResponses)
             /\ server' = Offer(s, m, Key(m.nonce, used.responses + 1))
             /\ Transit({m}, {ResponseMsg(Key(m.nonce, used.responses + 1))})
    <3>1. used'.inits = used.inits /\ used'.responses = used.responses + 1
      BY <1>1, <2>2 DEF Spend, UsedRecords
    <3>2. QED
      BY <1>1, <1>5, <2>2, <3>1, OfferCore
  <2>3. QED
    BY <1>9, <2>1, <2>2 DEF AnswerFresh
<1>10. QED
  BY <1>3, <1>7, <1>8, <1>9 DEF s

(* Once the newest offer is adopted, the client holds no other             *)
(* acknowledged key: it adopts keys in the order of its nonces, and        *)
(* whatever answers a later nonce was offered later.                       *)
LEMMA NewestHeld ==
  ASSUME TypeOK, Core, NEW p \in KeysSent("confirm"), p[2] = used.responses,
         client.active.key \in KeysSent("confirm_ack")
  PROVE  client.active.key = p
<1> DEFINE k == client.active.key
<1>1. NoncesDrawn /\ AdoptionOrder /\ AckedKeys
  BY DEF Core
<1>2. /\ k \in KeysSent("confirm") /\ k \in KeysSent("response")
      /\ p \in KeysSent("response")
  BY <1>1 DEF AckedKeys, AdoptionOrder
<1>3. k # NoKey
  BY <1>1, <1>2, OfferedKeys
<1>4. p[1] \in Nat /\ k[1] \in Nat /\ k[2] \in Nat /\ p[2] \in Nat /\ k[2] <= used.responses
  BY <1>1, <1>2, OfferedKeys
<1>5. k = p \/ p[1] < k[1]
  BY <1>1, <1>3 DEF AdoptionOrder
<1>6. p[1] < k[1] => k[2] > p[2]
  BY <1>1, <1>2, <1>4 DEF AdoptionOrder
<1>7. QED
  BY <1>4, <1>5, <1>6

(* CONFIRM: the pending session becomes the active one; its offer is the   *)
(* newest.                                                                 *)
LEMMA ReceiveConfirmCore ==
  ASSUME TypeOK, SlotsShaped, Core, ~ Timely,
         NEW m \in net, m.type = "confirm", ReceiveConfirm(m)
  PROVE  SlotsShaped' /\ Core'
<1> DEFINE s == ExpirePending(ExpirePrevious(server))
           p == m.key
<1>1. /\ server \in ServerRecords /\ client' = client /\ used' = used
      /\ p \in KeysSent("confirm")
  BY DEF TypeOK, ReceiveConfirm, KeysSent
<1>2. /\ s \in ServerRecords /\ s.active = server.active
      /\ s.pending \in {server.pending, NoSession}
      /\ s.previous \in {server.previous, NoSession}
  BY <1>1, ServerExpired
<1>3. /\ Empty(s.active) /\ Empty(s.previous) /\ Empty(s.pending)
  BY <1>2, NoSessionEmpty DEF SlotsShaped
<1>4. p \in KeysSent("response") /\ p # NoKey
  BY <1>1, OfferedKeys DEF Core, AdoptionOrder
<1>5. /\ p = s.pending.key => server' = Activate(s) /\ Transit({m}, {ConfirmAckMsg(p)})
      /\ p # s.pending.key => server' = s
      /\ p # s.pending.key /\ p = s.active.key => Transit({m}, {ConfirmAckMsg(p)})
      /\ p # s.pending.key /\ p # s.active.key => Transit({m}, {})
  BY DEF ReceiveConfirm
<1> HIDE DEF s, p
<1>6. Transit({m}, {ConfirmAckMsg(p)}) =>
        /\ KeysSent("response")' = KeysSent("response")
        /\ KeysSent("confirm")' = KeysSent("confirm")
        /\ KeysSent("confirm_ack")' = KeysSent("confirm_ack") \cup {p}
        /\ \A x \in net' : x.type = "init" => x \in net
  BY ZenonT(30), SentKey
<1>7. CASE p = s.pending.key
  <2>1. p = server.pending.key /\ p[2] = used.responses
    BY <1>2, <1>4, <1>7, NoSessionEmpty DEF Core, PendingNewest
  <2>2. /\ server'.active = s.pending /\ server'.pending = NoSession
        /\ server'.previous = s.active
    BY ZenonT(30), <1>2, <1>5, <1>7 DEF Activate, ServerRecords
  <2>3. SlotsShaped'
    BY <1>1, <1>3, <2>2, NoSessionEmpty DEF SlotsShaped, Empty
  <2>4. NoncesDrawn'
    BY <1>1, <1>5, <1>6, <1>7 DEF Core, NoncesDrawn
  <2>5. ClientStages'
    BY <1>1 DEF Core, ClientStages
  <2>6. AdoptionOrder'
    BY <1>1, <1>5, <1>6, <1>7 DEF Core, AdoptionOrder
  <2>7. PendingNewest'
    BY <2>2, NoSessionEmpty DEF PendingNewest
  <2>8. AckedKeys'
    <3>1. client.active.key \in KeysSent("confirm_ack") => client.active.key = p
      BY <1>1, <2>1, NewestHeld
    <3>2. server'.active.key = p
      BY <1>7, <2>2
    <3>3. QED
      BY <1>1, <1>5, <1>6, <1>7, <3>1, <3>2 DEF Core, AckedKeys
  <2>9. QED
    BY <2>3, <2>4, <2>5, <2>6, <2>7, <2>8 DEF Core
<1>8. CASE p # s.pending.key /\ p = s.active.key
  <2>1. /\ server'.active = server.active /\ server'.pending = s.pending
        /\ server'.previous = s.previous
    BY <1>2, <1>5, <1>8
  <2>2. SlotsShaped'
    BY <1>1, <1>2, <1>3, <2>1 DEF SlotsShaped, Empty
  <2>3. NoncesDrawn'
    BY <1>1, <1>5, <1>6, <1>8 DEF Core, NoncesDrawn
  <2>4. ClientStages'
    BY <1>1 DEF Core, ClientStages
  <2>5. AdoptionOrder'
    BY <1>1, <1>5, <1>6, <1>8 DEF Core, AdoptionOrder
  <2>6. PendingNewest'
    BY <1>1, <1>2, <1>5, <1>6, <1>8, <2>1, NoSessionEmpty DEF Core, PendingNewest
  <2>7. AckedKeys'
    BY <1>1, <1>2, <1>5, <1>6, <1>8, <2>1 DEF Core, AckedKeys
  <2>8. QED
    BY <2>2, <2>3, <2>4, <2>5, <2>6, <2>7 DEF Core
<1>9. CASE p # s.pending.key /\ p # s.active.key
  BY <1>1, <1>2, <1>3, <1>5, <1>9, QuietServer, SentNothing
<1>10. QED
  BY <1>7, <1>8, <1>9

LEMMA ServerTickCore ==
  ASSUME TypeOK, SlotsShaped, Core, ServerTick
  PROVE  SlotsShaped' /\ Core'
<1>1. server \in ServerRecords /\ client' = client /\ net' = net /\ used' = used
  BY DEF TypeOK, ServerTick
<1>2. NothingNew
  BY <1>1 DEF NothingNew, KeysSent
<1>3. /\ server'.active = server.active
      /\ server'.pending \in {server.pending, NoSession}
      /\ server'.previous \in {server.previous, NoSession}
  BY <1>1, ServerExpired DEF ServerTick
<1>4. QED
  BY <1>1, <1>2, <1>3, QuietServer, NoSessionEmpty DEF SlotsShaped

-----------------------------------------------------------------------------
(* Packets, time and restarts.                                             *)

LEMMA QuietClient ==
  ASSUME TypeOK, SlotsShaped, Core, NothingNew, server' = server,
         client'.active.key = client.active.key, Empty(client'.active),
         Empty(client'.previous),
         client'.waiting_ack = client.waiting_ack,
         client'.client_init = client.client_init, client'.flight = client.flight,
         client'.previousLeft = client.previousLeft, client'.flightLeft = client.flightLeft,
         used'.inits = used.inits, used'.responses = used.responses
  PROVE  SlotsShaped' /\ Core'
<1>1. SlotsShaped'
  BY DEF SlotsShaped, Empty
<1>2. Core'
  BY QuietStep DEF Core, ClientStages
<1>3. QED
  BY <1>1, <1>2

(* A slot that is in use stays in use while its counter or window changes. *)
LEMMA InUse ==
  ASSUME NEW x, Empty(x), x # NoSession, NEW y, y.key = x.key
  PROVE  Empty(y)
BY NoSessionEmpty DEF Empty

LEMMA SendCore ==
  ASSUME TypeOK, SlotsShaped, Core, ~ Timely, NEW meta,
         ClientSend(meta) \/ ServerSend(meta)
  PROVE  SlotsShaped' /\ Core'
<1>1. client \in ClientRecords /\ server \in ServerRecords /\ used \in UsedRecords
  BY DEF TypeOK
<1>2. NothingNew
  BY SentNothing DEF ClientSend, ServerSend, Encoded
<1>3. used'.inits = used.inits /\ used'.responses = used.responses
  BY <1>1 DEF ClientSend, ServerSend, Spend, UsedRecords
<1>4. CASE ClientSend(meta)
  <2>1. /\ client'.active.key = client.active.key /\ client'.previous = client.previous
        /\ client'.waiting_ack = client.waiting_ack
        /\ client'.client_init = client.client_init /\ client'.flight = client.flight
        /\ client'.previousLeft = client.previousLeft /\ client'.flightLeft = client.flightLeft
    BY <1>1, <1>4 DEF ClientSend, Counted, ClientRecords, SessionRecords
  <2>2. client.active # NoSession /\ server' = server
    BY <1>4 DEF ClientSend, Ready
  <2>3. Empty(client'.active) /\ Empty(client'.previous)
    BY <2>1, <2>2, InUse DEF SlotsShaped
  <2>4. QED
    BY <1>2, <1>3, <2>1, <2>2, <2>3, QuietClient
<1>5. CASE ServerSend(meta)
  <2>1. /\ server'.active.key = server.active.key /\ server'.previous = server.previous
        /\ server'.pending = server.pending
    BY <1>1, <1>5 DEF ServerSend, Counted, ServerRecords, SessionRecords
  <2>2. server.active # NoSession /\ client' = client
    BY <1>5 DEF ServerSend, Ready
  <2>3. Empty(server'.active) /\ Empty(server'.previous)
    BY <2>1, <2>2, InUse DEF SlotsShaped
  <2>4. QED
    BY <1>2, <1>3, <2>1, <2>2, <2>3, QuietServer
<1>6. QED
  BY <1>4, <1>5

LEMMA ClientPacketCore ==
  ASSUME TypeOK, SlotsShaped, Core, ~ Timely, NEW m, ClientReceivePacket(m)
  PROVE  SlotsShaped' /\ Core'
<1> DEFINE c == ExpirePrevious(client)
<1>1. /\ client \in ClientRecords /\ server' = server /\ used' = used /\ Transit({m}, {})
  BY DEF TypeOK, ClientReceivePacket
<1>2. /\ c \in ClientRecords
      /\ c.active = client.active /\ c.waiting_ack = client.waiting_ack
      /\ c.client_init = client.client_init /\ c.flight = client.flight
      /\ c.previousLeft = client.previousLeft /\ c.flightLeft = client.flightLeft
      /\ c.previous \in {client.previous, NoSession}
  BY <1>1, ClientExpired
<1>3. Empty(c.active) /\ Empty(c.previous)
  BY <1>2, NoSessionEmpty DEF SlotsShaped
<1>4. NothingNew
  BY <1>1, SentNothing
<1>5. \/ client' = [NoteActive(c, m) EXCEPT !.idleLeft = IdleRestart] /\ c.active # NoSession
      \/ client' = NotePrevious(c, m) /\ c.previous # NoSession
      \/ client' = c
  BY DEF ClientReceivePacket, OpensActive, OpensPrevious
<1> HIDE DEF c
<1>6. /\ client'.active.key = c.active.key /\ client'.previous.key = c.previous.key
      /\ client'.active = c.active \/ c.active # NoSession
      /\ client'.previous = c.previous \/ c.previous # NoSession
      /\ client'.waiting_ack = c.waiting_ack
      /\ client'.client_init = c.client_init /\ client'.flight = c.flight
      /\ client'.previousLeft = c.previousLeft /\ client'.flightLeft = c.flightLeft
  <2>1. CASE client' = [NoteActive(c, m) EXCEPT !.idleLeft = IdleRestart] /\ c.active # NoSession
    BY <1>2, <2>1 DEF NoteActive, ClientRecords, SessionRecords
  <2>2. CASE client' = NotePrevious(c, m) /\ c.previous # NoSession
    BY <1>2, <2>2 DEF NotePrevious, ClientRecords, SessionRecords
  <2>3. QED
    BY <1>5, <2>1, <2>2
<1>7. Empty(client'.active) /\ Empty(client'.previous)
  BY <1>3, <1>6, InUse
<1>8. QED
  BY <1>1, <1>2, <1>4, <1>6, <1>7, QuietClient

LEMMA ServerPacketCore ==
  ASSUME TypeOK, SlotsShaped, Core, ~ Timely, NEW m, ServerReceivePacket(m)
  PROVE  SlotsShaped' /\ Core'
<1> DEFINE s == ExpirePending(ExpirePrevious(server))
<1>1. /\ server \in ServerRecords /\ client' = client /\ used' = used /\ Transit({m}, {})
  BY DEF TypeOK, ServerReceivePacket
<1>2. /\ s \in ServerRecords /\ s.active = server.active
      /\ s.pending \in {server.pending, NoSession}
      /\ s.previous \in {server.previous, NoSession}
  BY <1>1, ServerExpired
<1>3. Empty(s.active) /\ Empty(s.previous)
  BY <1>2, NoSessionEmpty DEF SlotsShaped
<1>4. NothingNew
  BY <1>1, SentNothing
<1>5. \/ server' = [NoteActive(s, m) EXCEPT !.peer = s.active.key] /\ s.active # NoSession
      \/ server' = NotePrevious(s, m) /\ s.previous # NoSession
      \/ server' = s
  BY DEF ServerReceivePacket, OpensActive, OpensPrevious
<1> HIDE DEF s
<1>6. /\ server'.active.key = s.active.key /\ server'.previous.key = s.previous.key
      /\ server'.active = s.active \/ s.active # NoSession
      /\ server'.previous = s.previous \/ s.previous # NoSession
      /\ server'.pending = s.pending
  <2>1. CASE server' = [NoteActive(s, m) EXCEPT !.peer = s.active.key] /\ s.active # NoSession
    BY <1>2, <2>1 DEF NoteActive, ServerRecords, SessionRecords
  <2>2. CASE server' = NotePrevious(s, m) /\ s.previous # NoSession
    BY <1>2, <2>2 DEF NotePrevious, ServerRecords, SessionRecords
  <2>3. QED
    BY <1>5, <2>1, <2>2
<1>7. Empty(server'.active) /\ Empty(server'.previous)
  BY <1>3, <1>6, InUse
<1>8. QED
  BY <1>1, <1>2, <1>4, <1>6, <1>7, QuietServer

LEMMA TimePassesCore ==
  ASSUME TypeOK, SlotsShaped, Core, TimePasses
  PROVE  SlotsShaped' /\ Core'
<1>1. /\ client \in ClientRecords /\ server \in ServerRecords
      /\ net' = net /\ used' = used
  BY DEF TypeOK, TimePasses
<1>2. NothingNew
  BY <1>1 DEF NothingNew, KeysSent
<1>3. /\ server'.active = server.active /\ server'.previous = server.previous
      /\ server'.pending = server.pending
  BY <1>1 DEF TimePasses, ServerRecords
<1>4. /\ client'.active = [client.active EXCEPT !.rekeyLeft = Lower(@)]
      /\ client'.previous = [client.previous EXCEPT !.rekeyLeft = Lower(@)]
      /\ client'.waiting_ack = client.waiting_ack
      /\ client'.client_init = client.client_init /\ client'.flight = client.flight
      /\ client'.previousLeft = Lower(client.previousLeft)
      /\ client'.flightLeft = Lower(client.flightLeft)
  BY <1>1 DEF TimePasses, ClientRecords
<1>5. ASSUME NEW x \in SessionRecords, Empty(x)
      PROVE  /\ [x EXCEPT !.rekeyLeft = Lower(@)].key = x.key
             /\ Empty([x EXCEPT !.rekeyLeft = Lower(@)])
  <2>1. [x EXCEPT !.rekeyLeft = Lower(@)].key = x.key
    BY DEF SessionRecords
  <2>2. CASE x = NoSession
    <3>1. [x EXCEPT !.rekeyLeft = Lower(@)] = NoSession
      BY <2>2 DEF NoSession, Lower
    <3>2. QED
      BY <3>1, NoSessionEmpty
  <2>3. CASE x # NoSession
    BY ZenonT(30), <1>5, <2>1, <2>3, InUse
  <2>4. QED
    BY <2>1, <2>2, <2>3
<1>6. client.active \in SessionRecords /\ client.previous \in SessionRecords
  BY <1>1 DEF ClientRecords
<1>7. /\ client'.active.key = client.active.key
      /\ Empty(client'.active) /\ Empty(client'.previous)
  BY <1>4, <1>5, <1>6 DEF SlotsShaped
<1>8. client.waiting_ack => client'.previousLeft <= client'.flightLeft
  <2>1. client.previousLeft \in Nat /\ client.flightLeft \in Nat
    BY <1>1, IntervalFacts DEF ClientRecords
  <2>2. QED
    BY <1>4, <2>1 DEF Lower, Core, ClientStages
<1>9. SlotsShaped'
  BY <1>3, <1>7 DEF SlotsShaped, Empty
<1>10. Core'
  BY <1>1, <1>2, <1>3, <1>4, <1>7, <1>8, QuietStep
<1>11. QED
  BY <1>9, <1>10

(* A restarted process has no key, so it contradicts none.                 *)
LEMMA RebootCore ==
  ASSUME TypeOK, SlotsShaped, Core, ClientReboot \/ ServerReboot
  PROVE  SlotsShaped' /\ Core'
<1>1. used \in UsedRecords /\ net' = net
  BY DEF TypeOK, ClientReboot, ServerReboot
<1>2. used'.inits = used.inits /\ used'.responses = used.responses
  BY <1>1 DEF ClientReboot, ServerReboot, Spend, UsedRecords
<1>3. NothingNew
  BY <1>1 DEF NothingNew, KeysSent
<1>4. CASE ClientReboot
  <2>1. /\ client'.active = NoSession /\ client'.previous = NoSession
        /\ ~ client'.waiting_ack /\ client'.flight = "none"
        /\ client'.client_init = NoInit /\ server' = server
    BY <1>4 DEF ClientReboot, FreshClient
  <2>2. SlotsShaped'
    BY <2>1, NoSessionEmpty DEF SlotsShaped, Empty
  <2>3. NoncesDrawn'
    BY SMTT(40), <1>2, <1>3, <2>1 DEF Core, NoncesDrawn, NothingNew, NoInit
  <2>4. ClientStages'
    BY <2>1 DEF ClientStages
  <2>5. AdoptionOrder'
    BY <1>3, <2>1, NoSessionEmpty DEF Core, AdoptionOrder, NothingNew
  <2>6. PendingNewest'
    BY <1>2, <1>3, <2>1 DEF Core, PendingNewest, NothingNew
  <2>7. AckedKeys'
    <3>1. NoKey \notin KeysSent("confirm_ack")
      BY OfferedKeys DEF Core, AckedKeys, AdoptionOrder
    <3>2. QED
      BY <1>3, <2>1, <3>1, NoSessionEmpty DEF Core, AckedKeys, NothingNew
  <2>8. QED
    BY <2>2, <2>3, <2>4, <2>5, <2>6, <2>7 DEF Core
<1>5. CASE ServerReboot
  <2>1. /\ server'.active = NoSession /\ server'.previous = NoSession
        /\ server'.pending = NoSession /\ client' = client
    BY <1>5 DEF ServerReboot, FreshServer
  <2>2. SlotsShaped'
    BY <2>1, NoSessionEmpty DEF SlotsShaped, Empty
  <2>3. NoncesDrawn' /\ ClientStages' /\ AdoptionOrder'
    BY <1>2, <1>3, <2>1 DEF Core, NoncesDrawn, ClientStages, AdoptionOrder, NothingNew
  <2>4. PendingNewest'
    BY <2>1, NoSessionEmpty DEF PendingNewest
  <2>5. AckedKeys'
    BY <1>3, <2>1, NoSessionEmpty DEF Core, AckedKeys, NothingNew
  <2>6. QED
    BY <2>2, <2>3, <2>4, <2>5 DEF Core
<1>6. QED
  BY <1>4, <1>5

-----------------------------------------------------------------------------
(* The invariant.                                                          *)

LEMMA AgreementInit == Init => AgreementInv
<1> SUFFICES ASSUME Init PROVE AgreementInv
  OBVIOUS
<1>1. TypeOK
  BY TypeInit
<1>2. SlotsShaped
  BY NoSessionEmpty DEF Init, FreshClient, FreshServer, SlotsShaped
<1>3. \A type : KeysSent(type) = {}
  BY DEF Init, KeysSent
<1>4. NoncesDrawn
  BY <1>3 DEF Init, NoncesDrawn, FreshClient, NoInit
<1>5. ClientStages
  BY DEF Init, ClientStages, FreshClient
<1>6. client = FreshClient /\ server = FreshServer
  BY DEF Init
<1>7. AdoptionOrder
  BY <1>3, <1>6, NoSessionEmpty DEF AdoptionOrder, FreshClient, FreshServer
<1>8. PendingNewest
  BY <1>3, <1>6, NoSessionEmpty DEF PendingNewest, FreshClient, FreshServer
<1>9. AckedKeys
  BY <1>3, <1>6, NoSessionEmpty DEF AckedKeys, FreshClient, FreshServer
<1>10. QED
  BY <1>1, <1>2, <1>4, <1>5, <1>7, <1>8, <1>9 DEF AgreementInv

LEMMA AgreementStep ==
  ASSUME ~ Timely, AgreementInv, [Next]_vars
  PROVE  AgreementInv'
<1>1. TypeOK /\ SlotsShaped /\ Core
  BY DEF AgreementInv, Core
<1>2. TypeOK'
  BY <1>1, TypeStep
<1> SUFFICES SlotsShaped' /\ Core'
  BY <1>2 DEF AgreementInv, Core
<1>3. CASE ClientTick
  BY <1>1, <1>3, ClientTickCore
<1>4. CASE Restart
  BY <1>1, <1>4, RestartCore
<1>5. CASE ServerTick
  BY <1>1, <1>5, ServerTickCore
<1>6. CASE \E meta \in Kinds : ClientSend(meta) \/ ServerSend(meta)
  BY <1>1, <1>6, SendCore
<1>7. ASSUME NEW m \in net, Receive(m) PROVE SlotsShaped' /\ Core'
  BY <1>1, <1>7, ReceiveInitCore, ReceiveResponseCore, ReceiveConfirmCore,
     ReceiveConfirmAckCore, ClientPacketCore, ServerPacketCore DEF Receive
<1>8. CASE \E m \in net : Lose(m)
  BY <1>8 DEF Lose
<1>9. CASE TimePasses
  BY <1>1, <1>9, TimePassesCore
<1>10. CASE ClientReboot \/ ServerReboot
  BY <1>1, <1>10, RebootCore
<1>11. CASE UNCHANGED vars
  BY ZenonT(30), <1>1, <1>11 DEF vars, SlotsShaped, Core, NoncesDrawn, ClientStages, AdoptionOrder,
     PendingNewest, AckedKeys, KeysSent, Empty
<1>12. QED
  BY <1>3, <1>4, <1>5, <1>6, <1>7, <1>8, <1>9, <1>10, <1>11 DEF Next

(* Whatever the intervals, bounds and clock readings, and however the      *)
(* network delays, repeats, reorders and withholds datagrams: while the    *)
(* client takes its session for confirmed, the server transmits under the  *)
(* same key or, after a restart, under none.                               *)
THEOREM KeysAgree ==
  ASSUME ~ Timely
  PROVE  Spec => []ConfirmedAgreement
<1>1. AgreementInv => ConfirmedAgreement
  BY DEF AgreementInv, SlotsShaped, AckedKeys, ConfirmedAgreement, Empty
<1>2. AgreementInv /\ [Next]_vars => AgreementInv'
  BY AgreementStep
<1>3. QED
  BY <1>1, <1>2, AgreementInit, PTL DEF Spec

=============================================================================
