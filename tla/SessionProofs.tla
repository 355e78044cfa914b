---------------------------- MODULE SessionProofs ----------------------------
(***************************************************************************)
(* Proofs about Session, for every value of its constants.                 *)
(***************************************************************************)
EXTENDS Session, TLAPS

-----------------------------------------------------------------------------
(* The operators that build sessions and protocol objects are well typed.  *)

LEMMA IntervalFacts ==
  /\ ResendInterval \in Nat \ {0} /\ RetryInterval \in Nat \ {0}
  /\ OldLifetime \in Nat \ {0} /\ PendingLifetime \in Nat \ {0}
  /\ IdleRestart \in Nat \ {0} /\ RekeyInterval \in Nat \ {0}
  /\ OldLifetime < PendingLifetime
BY IntervalAssumption

LEMMA BoundFacts ==
  /\ MaxInits \in Nat /\ MaxResponses \in Nat /\ MaxPackets \in Nat
  /\ MaxFaults \in Nat /\ MaxRestarts \in Nat /\ MaxLosses \in Nat
  /\ KeyLimit \in Nat /\ HalfWindow \in Nat
  /\ Walls \subseteq Nat /\ Kinds \subseteq BOOLEAN
BY LimitAssumption

LEMMA DeriveType ==
  /\ NoSession \in SessionRecords
  /\ \A key \in Keys, left \in 0 .. RekeyInterval : Derive(key, left) \in SessionRecords
BY IntervalFacts DEF NoSession, Derive, SessionRecords, NoKey, Key, Keys

LEMMA FreshType == FreshClient \in ClientRecords /\ FreshServer \in ServerRecords
BY IntervalFacts, DeriveType
DEF FreshClient, FreshServer, ClientRecords, ServerRecords, InitRecords, NoInit,
    NoKey, Key, Keys

LEMMA ClientExpireType ==
  \A c \in ClientRecords : ExpirePrevious(c) \in ClientRecords
BY DeriveType DEF ExpirePrevious, ClientRecords

LEMMA ServerExpireType ==
  \A s \in ServerRecords : /\ ExpirePrevious(s) \in ServerRecords
                           /\ ExpirePending(s) \in ServerRecords
BY DeriveType DEF ExpirePrevious, ExpirePending, ServerRecords

LEMMA AbandonType ==
  ASSUME NEW c \in ClientRecords
  PROVE  Abandon(c) \in ClientRecords
<1>1. c.generation + 1 \in Nat
  BY DEF ClientRecords
<1>2. NoSession \in SessionRecords /\ NoInit \in InitRecords
  BY DeriveType DEF NoInit, InitRecords
<1>3. CASE c.waiting_ack
  BY ZenonT(30), <1>1, <1>2, <1>3 DEF Abandon, ClientRecords
<1>4. CASE ~ c.waiting_ack
  BY ZenonT(30), <1>1, <1>2, <1>4 DEF Abandon, ClientRecords
<1>5. QED
  BY <1>3, <1>4

LEMMA AdoptType ==
  ASSUME NEW c \in ClientRecords, NEW key \in Keys
  PROVE  Adopt(c, key) \in ClientRecords
<1>1. c.generation + 1 \in Nat
  BY DEF ClientRecords
<1>2. Derive(key, RekeyInterval) \in SessionRecords
  BY DeriveType, IntervalFacts
<1>3. /\ OldLifetime \in 0 .. OldLifetime
      /\ PendingLifetime \in 0 .. PendingLifetime
      /\ RetryInterval \in 0 .. RetryInterval
  BY IntervalFacts
<1>4. QED
  BY ZenonT(30), <1>1, <1>2, <1>3 DEF Adopt, ClientRecords

LEMMA PurgeType == \A s \in ServerRecords : Purge(s) \in ServerRecords
BY ZenonT(30) DEF Purge, ServerRecords

LEMMA RememberType ==
  ASSUME NEW s \in ServerRecords, NEW m \in InitRecords
  PROVE  Remember(s, m) \in ServerRecords
<1>1. m.nonce \in Nat /\ <<m.stamp + HalfWindow, m.nonce>> \in Nat \X Nat
  BY BoundFacts DEF InitRecords
<1>2. QED
  BY ZenonT(30), <1>1 DEF Remember, ServerRecords

LEMMA OfferType ==
  ASSUME NEW s \in ServerRecords, NEW m \in InitRecords, NEW key \in Keys
  PROVE  Offer(s, m, key) \in ServerRecords
<1>1. Remember(s, m) \in ServerRecords
  BY RememberType
<1>2. NoSession \in SessionRecords /\ Derive(key, 0) \in SessionRecords
  BY DeriveType, IntervalFacts
<1>3. /\ PendingLifetime \in 0 .. PendingLifetime
      /\ 0 \in 0 .. ResendInterval
  BY IntervalFacts
<1>4. QED
  BY ZenonT(30), <1>1, <1>2, <1>3 DEF Offer, ServerRecords

LEMMA ActivateType ==
  ASSUME NEW s \in ServerRecords
  PROVE  Activate(s) \in ServerRecords
<1>1. s.generation + 1 \in Nat /\ s.pending.key \in Keys
  BY DEF ServerRecords, SessionRecords
<1>2. NoSession \in SessionRecords /\ OldLifetime \in 0 .. OldLifetime
  BY DeriveType, IntervalFacts
<1>3. QED
  BY ZenonT(30), <1>1, <1>2 DEF Activate, ServerRecords

LEMMA RetainType ==
  \A window \in SUBSET Nat, n \in Nat : Retain(window, n) \in SUBSET Nat
BY ZenonT(30) DEF Retain

LEMMA LowerType == \A max \in Nat : \A n \in 0 .. max : Lower(n) \in 0 .. max
BY DEF Lower
LEMMA TransitType ==
  ASSUME net \subseteq Messages, NEW taken, NEW out, out \subseteq Messages,
         Transit(taken, out)
  PROVE  net' \subseteq Messages
BY DEF Transit

LEMMA SpendType ==
  ASSUME used \in UsedRecords
  PROVE  /\ Spend("inits", MaxInits) => used' \in UsedRecords
         /\ Spend("responses", MaxResponses) => used' \in UsedRecords
         /\ Spend("packets", MaxPackets) => used' \in UsedRecords
         /\ Spend("faults", MaxFaults) => used' \in UsedRecords
         /\ Spend("restarts", MaxRestarts) => used' \in UsedRecords
         /\ Spend("losses", MaxLosses) => used' \in UsedRecords
BY BoundFacts DEF Spend, UsedRecords

LEMMA MessageType ==
  /\ \A n \in Nat, w \in Nat : InitMsg(n, w) \in InitRecords
  /\ \A key \in Keys : /\ ResponseMsg(key) \in KeyRecords
                       /\ ConfirmMsg(key) \in KeyRecords
                       /\ ConfirmAckMsg(key) \in KeyRecords
  /\ \A key \in Keys, from \in Ends, n \in Nat, meta \in BOOLEAN :
       PacketMsg(key, from, n, meta) \in PacketRecords
BY DEF InitMsg, InitRecords, ResponseMsg, ConfirmMsg, ConfirmAckMsg, KeyRecords,
       PacketMsg, PacketRecords

(* The type a received message has by its tag.                             *)
LEMMA ReceivedType ==
  ASSUME NEW m \in Messages
  PROVE  /\ m.type = "init" => m \in InitRecords
         /\ m.type = "packet" => m \in PacketRecords
         /\ m.type \in {"response", "confirm", "confirm_ack"} => m \in KeyRecords
BY DEF Messages, InitRecords, KeyRecords, PacketRecords

LEMMA BeginType ==
  ASSUME NEW c \in ClientRecords, TypeOK, Begin(c)
  PROVE  client' \in ClientRecords /\ net' \subseteq Messages /\ used' \in UsedRecords
<1>1. net \subseteq Messages /\ used \in UsedRecords /\ used.inits + 1 \in Nat
  BY BoundFacts DEF TypeOK, UsedRecords
<1>2. CASE /\ c.randomLeft > 0
           /\ client' = [c EXCEPT !.begin_retry = TRUE]
           /\ Transit({}, {})
           /\ UNCHANGED used
  BY ZenonT(30), <1>1, <1>2, TransitType DEF ClientRecords
<1>3. CASE /\ \E delay \in {0, RetryInterval} :
                client' = [c EXCEPT !.begin_retry = TRUE, !.randomLeft = delay]
           /\ Transit({}, {})
           /\ Spend("faults", MaxFaults)
  <2>1. 0 \in 0 .. RetryInterval /\ RetryInterval \in 0 .. RetryInterval
    BY IntervalFacts
  <2>2. PICK delay \in {0, RetryInterval} :
           client' = [c EXCEPT !.begin_retry = TRUE, !.randomLeft = delay]
    BY ZenonT(30), <1>3
  <2>3. delay \in 0 .. RetryInterval
    BY <2>1, <2>2
  <2>4. client' \in ClientRecords
    BY ZenonT(30), <2>2, <2>3 DEF ClientRecords
  <2>5. QED
    BY <1>1, <1>3, <2>4, TransitType, SpendType
<1>4. ASSUME NEW wall \in Walls,
             Spend("inits", MaxInits),
             client' = [c EXCEPT !.previous = NoSession, !.waiting_ack = FALSE,
                                 !.client_init = InitMsg(used.inits + 1, wall),
                                 !.flight = "init", !.flightLeft = PendingLifetime,
                                 !.retryLeft = RetryInterval, !.begin_retry = FALSE],
             Transit({}, {InitMsg(used.inits + 1, wall)})
      PROVE  client' \in ClientRecords /\ net' \subseteq Messages /\ used' \in UsedRecords
  <2>1. InitMsg(used.inits + 1, wall) \in InitRecords
    BY <1>1, BoundFacts, MessageType
  <2>2. /\ PendingLifetime \in 0 .. PendingLifetime /\ RetryInterval \in 0 .. RetryInterval
        /\ NoSession \in SessionRecords
    BY IntervalFacts, DeriveType
  <2>3. client' \in ClientRecords
    BY ZenonT(30), <1>4, <2>1, <2>2 DEF ClientRecords
  <2>4. net' \subseteq Messages
    BY <1>1, <1>4, <2>1, TransitType DEF Messages
  <2>5. QED
    BY <1>1, <1>4, <2>3, <2>4, SpendType
<1>5. QED
  BY ZenonT(30), <1>2, <1>3, <1>4 DEF Begin
-----------------------------------------------------------------------------
(* Type correctness.                                                       *)

LEMMA TypeInit == Init => TypeOK
<1>1. [id \in PacketIds |-> 0] \in [PacketIds -> Nat]
  OBVIOUS
<1>2. [inits |-> 0, responses |-> 0, packets |-> 0, faults |-> 0, restarts |-> 0,
       losses |-> 0] \in UsedRecords
  BY BoundFacts DEF UsedRecords
<1>3. QED
  BY <1>1, <1>2, FreshType DEF Init, TypeOK

LEMMA ClientTickType == TypeOK /\ ClientTick => TypeOK'
<1> SUFFICES ASSUME TypeOK, ClientTick PROVE TypeOK'
  OBVIOUS
<1> DEFINE c == ExpirePrevious(client)
<1>1. c \in ClientRecords
  BY ClientExpireType DEF TypeOK
<1>2. /\ deliveries' = deliveries /\ server' = server
      /\ net \subseteq Messages /\ used \in UsedRecords
  BY DEF ClientTick, TypeOK
<1> SUFFICES client' \in ClientRecords /\ net' \subseteq Messages /\ used' \in UsedRecords
  BY <1>2 DEF TypeOK
<1>3. CASE Begin(Abandon(c))
  BY <1>1, <1>3, AbandonType, BeginType
<1>4. CASE /\ client' = [c EXCEPT !.retryLeft = RetryInterval]
           /\ Transit({}, {FlightMsg(c)})
           /\ UNCHANGED used
  <2>1. RetryInterval \in 0 .. RetryInterval
    BY IntervalFacts
  <2>2. FlightMsg(c) \in Messages
    BY <1>1, MessageType DEF FlightMsg, ClientRecords, SessionRecords, Messages
  <2>3. net' \subseteq Messages
    BY <1>2, <1>4, <2>2, TransitType
  <2>4. QED
    BY <1>1, <1>2, <1>4, <2>1, <2>3 DEF ClientRecords
<1>5. CASE Begin(c)
  BY <1>1, <1>5, BeginType
<1>6. CASE client' = c /\ Transit({}, {}) /\ UNCHANGED used
  BY <1>1, <1>2, <1>6, TransitType
<1>7. QED
  BY <1>3, <1>4, <1>5, <1>6 DEF ClientTick

LEMMA RestartType == TypeOK /\ Restart => TypeOK'
<1> SUFFICES ASSUME TypeOK, Restart PROVE TypeOK'
  OBVIOUS
<1> DEFINE c == [client EXCEPT !.active = NoSession, !.previous = NoSession,
                               !.waiting_ack = FALSE, !.flight = "none",
                               !.client_init = NoInit, !.generation = @ + 1]
<1>1. client \in ClientRecords /\ client.generation + 1 \in Nat
  BY DEF TypeOK, ClientRecords
<1>2. NoSession \in SessionRecords /\ NoInit \in InitRecords
  BY DeriveType DEF NoInit, InitRecords
<1>3. c \in ClientRecords
  BY ZenonT(30), <1>1, <1>2 DEF ClientRecords
<1>4. Begin(c)
  BY DEF Restart
<1> HIDE DEF c
<1>5. client' \in ClientRecords /\ net' \subseteq Messages /\ used' \in UsedRecords
  BY <1>3, <1>4, BeginType
<1>6. QED
  BY <1>5 DEF TypeOK, Restart

LEMMA ReceiveResponseType ==
  ASSUME TypeOK, NEW m \in KeyRecords, ReceiveResponse(m)
  PROVE  TypeOK'
<1> DEFINE c == ExpirePrevious(client)
<1>1. c \in ClientRecords /\ m.key \in Keys
  BY ClientExpireType DEF TypeOK, KeyRecords
<1>2. FlightMsg(c) \in Messages /\ ConfirmMsg(m.key) \in Messages
  BY <1>1, MessageType DEF FlightMsg, ClientRecords, SessionRecords, Messages
<1>3. Adopt(c, m.key) \in ClientRecords
  BY <1>1, AdoptType
<1>4. client' \in {c, Adopt(c, m.key)}
  BY DEF ReceiveResponse
<1>5. \E out \in SUBSET Messages : Transit({m}, out)
  BY <1>2 DEF ReceiveResponse
<1>6. used' = used \/ Spend("faults", MaxFaults)
  BY DEF ReceiveResponse
<1>7. net' \subseteq Messages
  BY <1>5, TransitType DEF TypeOK
<1>8. used' \in UsedRecords
  BY <1>6, SpendType DEF TypeOK
<1>9. QED
  BY <1>1, <1>3, <1>4, <1>7, <1>8 DEF TypeOK, ReceiveResponse

LEMMA ReceiveConfirmAckType ==
  ASSUME TypeOK, NEW m \in KeyRecords, ReceiveConfirmAck(m)
  PROVE  TypeOK'
<1> DEFINE c == ExpirePrevious(client)
           d == [c EXCEPT !.waiting_ack = FALSE, !.flight = "none",
                          !.client_init = NoInit, !.idleLeft = IdleRestart]
<1>1. c \in ClientRecords
  BY ClientExpireType DEF TypeOK
<1>2. NoInit \in InitRecords /\ IdleRestart \in 0 .. IdleRestart
  BY IntervalFacts DEF NoInit, InitRecords
<1>3. d \in ClientRecords
  BY ZenonT(30), <1>1, <1>2 DEF ClientRecords
<1>4. client' \in {c, d}
  BY DEF ReceiveConfirmAck
<1>5. net' \subseteq Messages
  BY TransitType DEF TypeOK, ReceiveConfirmAck
<1>6. QED
  BY <1>1, <1>3, <1>4, <1>5 DEF TypeOK, ReceiveConfirmAck
LEMMA AnswerSeenType ==
  ASSUME TypeOK, NEW s \in ServerRecords, NEW m \in InitRecords, AnswerSeen(s, m)
  PROVE  server' \in ServerRecords /\ net' \subseteq Messages /\ used' \in UsedRecords
<1> DEFINE t == [s EXCEPT !.resendLeft = ResendInterval, !.replies = @ + 1]
<1>1. s.replies + 1 \in Nat /\ s.pending.key \in Keys
  BY DEF ServerRecords, SessionRecords
<1>2. ResendInterval \in 0 .. ResendInterval
  BY IntervalFacts
<1>3. t \in ServerRecords
  BY ZenonT(30), <1>1, <1>2 DEF ServerRecords
<1>4. ResponseMsg(s.pending.key) \in Messages
  BY <1>1, MessageType DEF Messages
<1>5. server' \in {s, t}
  BY DEF AnswerSeen
<1>6. \E out \in SUBSET Messages : Transit({m}, out)
  BY <1>4 DEF AnswerSeen
<1>7. net' \subseteq Messages
  BY <1>6, TransitType DEF TypeOK
<1>8. QED
  BY <1>3, <1>5, <1>7 DEF AnswerSeen, TypeOK

LEMMA AnswerFreshType ==
  ASSUME TypeOK, NEW s \in ServerRecords, NEW m \in InitRecords, AnswerFresh(s, m)
  PROVE  server' \in ServerRecords /\ net' \subseteq Messages /\ used' \in UsedRecords
<1> DEFINE key == Key(m.nonce, used.responses + 1)
<1>1. key \in Keys
  BY BoundFacts DEF Key, Keys, InitRecords, TypeOK, UsedRecords
<1>2. ResponseMsg(key) \in Messages
  BY <1>1, MessageType DEF Messages
<1>3. Remember(s, m) \in ServerRecords /\ Offer(s, m, key) \in ServerRecords
  BY <1>1, RememberType, OfferType
<1>4. /\ [s EXCEPT !.randomLeft = 0] \in ServerRecords
      /\ [s EXCEPT !.randomLeft = RetryInterval] \in ServerRecords
  <2>1. 0 \in 0 .. RetryInterval /\ RetryInterval \in 0 .. RetryInterval
    BY IntervalFacts
  <2>2. QED
    BY <2>1 DEF ServerRecords
<1>5. server' \in {s, Remember(s, m), Offer(s, m, key), [s EXCEPT !.randomLeft = 0],
                   [s EXCEPT !.randomLeft = RetryInterval]}
  BY DEF AnswerFresh
<1>6. \E out \in SUBSET Messages : Transit({m}, out)
  BY <1>2 DEF AnswerFresh
<1>7. \/ used' = used
      \/ Spend("faults", MaxFaults)
      \/ Spend("responses", MaxResponses)
  BY DEF AnswerFresh
<1>8. net' \subseteq Messages
  BY <1>6, TransitType DEF TypeOK
<1>9. used' \in UsedRecords
  BY <1>7, SpendType DEF TypeOK
<1>10. QED
  BY <1>3, <1>4, <1>5, <1>8, <1>9

LEMMA ReceiveInitType ==
  ASSUME TypeOK, NEW m \in InitRecords, ReceiveInit(m)
  PROVE  TypeOK'
<1> DEFINE e == ExpirePending(ExpirePrevious(server))
           s(wall) == [e EXCEPT !.high = Larger(e.high, wall)]
<1>1. e \in ServerRecords
  BY ServerExpireType DEF TypeOK
<1>2. ASSUME NEW wall \in Walls PROVE s(wall) \in ServerRecords
  <2>1. Larger(e.high, wall) \in Nat
    BY <1>1, BoundFacts DEF Larger, ServerRecords
  <2>2. QED
    BY <1>1, <2>1 DEF ServerRecords
<1>3. PICK wall \in Walls :
        \/ server' = s(wall) /\ Transit({m}, {}) /\ UNCHANGED used
        \/ AnswerSeen(Purge(s(wall)), m)
        \/ AnswerFresh(Purge(s(wall)), m)
  BY DEF ReceiveInit
<1>4. s(wall) \in ServerRecords /\ Purge(s(wall)) \in ServerRecords
  BY <1>2, PurgeType
<1>5. server' \in ServerRecords /\ net' \subseteq Messages /\ used' \in UsedRecords
  <2>1. CASE server' = s(wall) /\ Transit({m}, {}) /\ UNCHANGED used
    BY <1>4, <2>1, TransitType DEF TypeOK
  <2>2. CASE AnswerSeen(Purge(s(wall)), m)
    BY <1>4, <2>2, AnswerSeenType
  <2>3. CASE AnswerFresh(Purge(s(wall)), m)
    BY <1>4, <2>3, AnswerFreshType
  <2>4. QED
    BY <1>3, <2>1, <2>2, <2>3
<1>6. QED
  BY <1>5 DEF TypeOK, ReceiveInit

LEMMA ReceiveConfirmType ==
  ASSUME TypeOK, NEW m \in KeyRecords, ReceiveConfirm(m)
  PROVE  TypeOK'
<1> DEFINE s == ExpirePending(ExpirePrevious(server))
<1>1. s \in ServerRecords
  BY ServerExpireType DEF TypeOK
<1>2. Activate(s) \in ServerRecords
  BY <1>1, ActivateType
<1>3. server' \in {s, Activate(s)}
  BY DEF ReceiveConfirm
<1>4. ConfirmAckMsg(m.key) \in Messages
  BY MessageType DEF Messages, KeyRecords
<1>5. \E out \in SUBSET Messages : Transit({m}, out)
  BY <1>4 DEF ReceiveConfirm
<1>6. net' \subseteq Messages
  BY <1>5, TransitType DEF TypeOK
<1>7. QED
  BY <1>1, <1>2, <1>3, <1>6 DEF TypeOK, ReceiveConfirm
LEMMA SendType ==
  ASSUME TypeOK, NEW meta \in Kinds, ClientSend(meta) \/ ServerSend(meta)
  PROVE  TypeOK'
<1>1. client \in ClientRecords /\ server \in ServerRecords /\ meta \in BOOLEAN
  BY BoundFacts DEF TypeOK
<1>2. /\ client.active \in SessionRecords /\ client.active.next + 1 \in Nat
      /\ server.active \in SessionRecords /\ server.active.next + 1 \in Nat
  BY <1>1 DEF ClientRecords, ServerRecords, SessionRecords
<1>3. Counted(client) \in ClientRecords
  BY <1>1, <1>2 DEF Counted, ClientRecords, SessionRecords
<1>4. Counted(server) \in ServerRecords
  BY <1>1, <1>2 DEF Counted, ServerRecords, SessionRecords
<1>5. Encoded(client, "client", meta) \in Messages /\ Encoded(server, "server", meta) \in Messages
  BY <1>1, <1>2, MessageType DEF Encoded, Messages, SessionRecords, Ends
<1>6. \E out \in SUBSET Messages : Transit({}, out)
  BY <1>5 DEF ClientSend, ServerSend
<1>7. net' \subseteq Messages
  BY <1>6, TransitType DEF TypeOK
<1>8. used' \in UsedRecords
  BY SpendType DEF ClientSend, ServerSend, TypeOK
<1>9. QED
  BY <1>3, <1>4, <1>7, <1>8 DEF TypeOK, ClientSend, ServerSend

LEMMA DeliverType ==
  ASSUME TypeOK, NEW m, Deliver(m) \/ UNCHANGED deliveries
  PROVE  deliveries' \in [PacketIds -> Nat]
BY DEF TypeOK, Deliver

LEMMA NoteType ==
  ASSUME NEW m \in PacketRecords
  PROVE  /\ \A c \in ClientRecords : /\ NoteActive(c, m) \in ClientRecords
                                     /\ NotePrevious(c, m) \in ClientRecords
         /\ \A s \in ServerRecords : /\ NoteActive(s, m) \in ServerRecords
                                     /\ NotePrevious(s, m) \in ServerRecords
<1>1. m.counter \in Nat
  BY DEF PacketRecords
<1>2. \A x \in SessionRecords : [x EXCEPT !.replay = Retain(@, m.counter)] \in SessionRecords
  BY <1>1, RetainType DEF SessionRecords
<1>3. \A c \in ClientRecords : NoteActive(c, m) \in ClientRecords
  BY <1>2 DEF NoteActive, ClientRecords
<1>4. \A c \in ClientRecords : NotePrevious(c, m) \in ClientRecords
  BY <1>2 DEF NotePrevious, ClientRecords
<1>5. \A s \in ServerRecords : NoteActive(s, m) \in ServerRecords
  BY <1>2 DEF NoteActive, ServerRecords
<1>6. \A s \in ServerRecords : NotePrevious(s, m) \in ServerRecords
  BY <1>2 DEF NotePrevious, ServerRecords
<1>7. QED
  BY <1>3, <1>4, <1>5, <1>6

LEMMA ReceivePacketType ==
  ASSUME TypeOK, NEW m \in PacketRecords, ClientReceivePacket(m) \/ ServerReceivePacket(m)
  PROVE  TypeOK'
<1>1. deliveries' \in [PacketIds -> Nat]
  BY DeliverType DEF ClientReceivePacket, ServerReceivePacket
<1>2. net' \subseteq Messages
  BY TransitType DEF ClientReceivePacket, ServerReceivePacket, TypeOK
<1>3. CASE ClientReceivePacket(m)
  <2> DEFINE c == ExpirePrevious(client)
             d == [NoteActive(c, m) EXCEPT !.idleLeft = IdleRestart]
  <2>1. c \in ClientRecords
    BY ClientExpireType DEF TypeOK
  <2>2. NoteActive(c, m) \in ClientRecords /\ NotePrevious(c, m) \in ClientRecords
    BY <2>1, NoteType
  <2>3. IdleRestart \in 0 .. IdleRestart
    BY IntervalFacts
  <2>4. d \in ClientRecords
    BY <2>2, <2>3 DEF ClientRecords
  <2>5. client' \in {c, d, NotePrevious(c, m)}
    BY <1>3 DEF ClientReceivePacket
  <2>6. client' \in ClientRecords
    BY <2>1, <2>2, <2>4, <2>5
  <2>7. QED
    BY <1>1, <1>2, <1>3, <2>6 DEF TypeOK, ClientReceivePacket
<1>4. CASE ServerReceivePacket(m)
  <2> DEFINE s == ExpirePending(ExpirePrevious(server))
             t == [NoteActive(s, m) EXCEPT !.peer = s.active.key]
  <2>1. s \in ServerRecords
    BY ServerExpireType DEF TypeOK
  <2>2. NoteActive(s, m) \in ServerRecords /\ NotePrevious(s, m) \in ServerRecords
    BY <2>1, NoteType
  <2>3. s.active.key \in Keys
    BY <2>1 DEF ServerRecords, SessionRecords
  <2>4. t \in ServerRecords
    BY <2>2, <2>3 DEF ServerRecords
  <2>5. server' \in {s, t, NotePrevious(s, m)}
    BY <1>4 DEF ServerReceivePacket
  <2>6. server' \in ServerRecords
    BY <2>1, <2>2, <2>4, <2>5
  <2>7. QED
    BY <1>1, <1>2, <1>4, <2>6 DEF TypeOK, ServerReceivePacket
<1>5. QED
  BY <1>3, <1>4
LEMMA TimePassesType == TypeOK /\ TimePasses => TypeOK'
<1> SUFFICES ASSUME TypeOK, TimePasses PROVE TypeOK'
  OBVIOUS
<1>1. client \in ClientRecords /\ server \in ServerRecords
  BY DEF TypeOK
<1>2. \A x \in SessionRecords : [x EXCEPT !.rekeyLeft = Lower(@)] \in SessionRecords
  BY LowerType, IntervalFacts DEF SessionRecords
<1>3. /\ Lower(client.previousLeft) \in 0 .. OldLifetime
      /\ Lower(client.flightLeft) \in 0 .. PendingLifetime
      /\ Lower(client.retryLeft) \in 0 .. RetryInterval
      /\ Lower(client.idleLeft) \in 0 .. IdleRestart
      /\ Lower(client.randomLeft) \in 0 .. RetryInterval
  BY <1>1, LowerType, IntervalFacts DEF ClientRecords
<1>4. /\ Lower(server.previousLeft) \in 0 .. OldLifetime
      /\ Lower(server.pendingLeft) \in 0 .. PendingLifetime
      /\ Lower(server.resendLeft) \in 0 .. ResendInterval
      /\ Lower(server.randomLeft) \in 0 .. RetryInterval
  BY <1>1, LowerType, IntervalFacts DEF ServerRecords
<1>5. client' \in ClientRecords
  BY ZenonT(30), <1>1, <1>2, <1>3 DEF TimePasses, ClientRecords
<1>6. server' \in ServerRecords
  BY ZenonT(30), <1>1, <1>4 DEF TimePasses, ServerRecords
<1>7. QED
  BY <1>5, <1>6 DEF TypeOK, TimePasses

LEMMA RebootType == TypeOK /\ (ClientReboot \/ ServerReboot) => TypeOK'
<1> SUFFICES ASSUME TypeOK, ClientReboot \/ ServerReboot PROVE TypeOK'
  OBVIOUS
<1>1. used' \in UsedRecords
  BY SpendType DEF TypeOK, ClientReboot, ServerReboot
<1>2. QED
  BY <1>1, FreshType DEF TypeOK, ClientReboot, ServerReboot

LEMMA LoseType ==
  ASSUME TypeOK, NEW m, Lose(m)
  PROVE  TypeOK'
<1>1. used' \in UsedRecords
  BY SpendType DEF TypeOK, Lose
<1>2. QED
  BY <1>1 DEF TypeOK, Lose

LEMMA ServerTickType == TypeOK /\ ServerTick => TypeOK'
BY ServerExpireType DEF TypeOK, ServerTick

LEMMA ReceiveType ==
  ASSUME TypeOK, NEW m \in net, Receive(m)
  PROVE  TypeOK'
<1>1. m \in Messages
  BY DEF TypeOK
<1>2. CASE m.type = "init" /\ ReceiveInit(m)
  BY <1>1, <1>2, ReceivedType, ReceiveInitType
<1>3. CASE m.type = "response" /\ ReceiveResponse(m)
  BY <1>1, <1>3, ReceivedType, ReceiveResponseType
<1>4. CASE m.type = "confirm" /\ ReceiveConfirm(m)
  BY <1>1, <1>4, ReceivedType, ReceiveConfirmType
<1>5. CASE m.type = "confirm_ack" /\ ReceiveConfirmAck(m)
  BY <1>1, <1>5, ReceivedType, ReceiveConfirmAckType
<1>6. CASE m.type = "packet" /\ (ClientReceivePacket(m) \/ ServerReceivePacket(m))
  BY <1>1, <1>6, ReceivedType, ReceivePacketType
<1>7. QED
  BY <1>2, <1>3, <1>4, <1>5, <1>6 DEF Receive

LEMMA TypeStep == TypeOK /\ [Next]_vars => TypeOK'
<1> SUFFICES ASSUME TypeOK, [Next]_vars PROVE TypeOK'
  OBVIOUS
<1>1. CASE ClientTick
  BY <1>1, ClientTickType
<1>2. CASE Restart
  BY <1>2, RestartType
<1>3. CASE ServerTick
  BY <1>3, ServerTickType
<1>4. CASE \E meta \in Kinds : ClientSend(meta) \/ ServerSend(meta)
  BY <1>4, SendType
<1>5. CASE \E m \in net : Receive(m)
  BY <1>5, ReceiveType
<1>6. CASE \E m \in net : Lose(m)
  BY <1>6, LoseType
<1>7. CASE TimePasses
  BY <1>7, TimePassesType
<1>8. CASE ClientReboot \/ ServerReboot
  BY <1>8, RebootType
<1>9. CASE UNCHANGED vars
  BY <1>9 DEF TypeOK, vars
<1>10. QED
  BY <1>1, <1>2, <1>3, <1>4, <1>5, <1>6, <1>7, <1>8, <1>9 DEF Next

(* Both protocol objects keep their shape for ever, whatever the intervals *)
(* and bounds: in particular no deadline is further away than the interval *)
(* that armed it.                                                          *)
THEOREM TypeCorrect == Spec => []TypeOK
<1>1. QED
  BY TypeInit, TypeStep, PTL DEF Spec

-----------------------------------------------------------------------------
(* What a step does to the sessions of an endpoint.  Four kinds of step    *)
(* cover everything the server does.                                       *)

(* It goes on under its key; at most a session whose time is up is gone.   *)
Carries(s, t) ==
  /\ t.active.key = s.active.key /\ t.generation = s.generation
  /\ t.peer \in {s.peer, s.active.key}
  /\ t.pending = s.pending \/ (t.pending = NoSession /\ s.pendingLeft = 0)
  /\ t.pendingLeft = s.pendingLeft
  /\ t.previous # NoSession => s.previous # NoSession

(* It offers a key, with no exchange pending.                              *)
Offers(s, t) ==
  /\ s.pending = NoSession \/ s.pendingLeft = 0
  /\ t.active = s.active /\ t.generation = s.generation /\ t.peer = s.peer
  /\ t.previous = NoSession

(* It activates the pending session.                                       *)
Activates(s, t) ==
  /\ t.active = s.pending \/ s.pending = NoSession \/ s.pendingLeft = 0
  /\ t.pending = NoSession
  /\ t.peer = t.active.key /\ t.generation = s.generation + 1

ServerMoves ==
  \/ Carries(server, server')
  \/ Offers(server, server')
  \/ Activates(server, server')
  \/ TimePasses
  \/ ServerReboot

LEMMA CarriesOn ==
  ASSUME NEW s, NEW e, NEW t, Carries(s, e)
  PROVE  /\ Carries(e, t) => Carries(s, t)
         /\ Offers(e, t) /\ e.active = s.active /\ e.peer = s.peer => Offers(s, t)
         /\ Activates(e, t) => Activates(s, t)
<1>1. Carries(e, t) => Carries(s, t)
  BY DEF Carries
<1>2. Offers(e, t) /\ e.active = s.active /\ e.peer = s.peer => Offers(s, t)
  BY DEF Carries, Offers
<1>3. Activates(e, t) => Activates(s, t)
  BY DEF Carries, Activates
<1>4. QED
  BY <1>1, <1>2, <1>3

LEMMA ExpiryCarries ==
  ASSUME NEW s \in ServerRecords
  PROVE  LET e == ExpirePending(ExpirePrevious(s))
         IN  /\ e \in ServerRecords /\ Carries(s, e)
             /\ e.active = s.active /\ e.peer = s.peer
<1> DEFINE p == ExpirePrevious(s)
<1>1. p \in ServerRecords
  BY ServerExpireType
<1>2. Carries(s, p) /\ p.active = s.active /\ p.peer = s.peer
  BY DEF Carries, ExpirePrevious, ServerRecords
<1> HIDE DEF p
<1>3. /\ ExpirePending(p) \in ServerRecords /\ Carries(p, ExpirePending(p))
      /\ ExpirePending(p).active = p.active /\ ExpirePending(p).peer = p.peer
  BY <1>1, ServerExpireType DEF Carries, ExpirePending, ServerRecords
<1>4. QED
  BY <1>2, <1>3, CarriesOn DEF p

LEMMA PurgeCarries ==
  ASSUME NEW s \in ServerRecords
  PROVE  Carries(s, Purge(s)) /\ Purge(s).active = s.active /\ Purge(s).peer = s.peer
BY ZenonT(30) DEF Carries, Purge, ServerRecords

LEMMA RememberCarries ==
  ASSUME NEW s \in ServerRecords, NEW m
  PROVE  /\ Carries(s, Remember(s, m))
         /\ Remember(s, m).active = s.active /\ Remember(s, m).peer = s.peer
BY ZenonT(30) DEF Carries, Remember, ServerRecords

LEMMA AnswerMoves ==
  ASSUME NEW s \in ServerRecords, NEW m \in InitRecords,
         AnswerSeen(s, m) \/ AnswerFresh(s, m)
  PROVE  Carries(s, server') \/ Offers(s, server')
<1>1. CASE \/ server' = s \/ server' = Remember(s, m)
           \/ \E delay \in {0, RetryInterval} : server' = [s EXCEPT !.randomLeft = delay]
           \/ server' = [s EXCEPT !.resendLeft = ResendInterval, !.replies = @ + 1]
  <2>1. CASE server' = s
    BY <2>1 DEF Carries
  <2>2. CASE server' = Remember(s, m)
    BY <2>2, RememberCarries
  <2>3. CASE \E delay \in {0, RetryInterval} : server' = [s EXCEPT !.randomLeft = delay]
    BY <2>3 DEF Carries, ServerRecords
  <2>4. CASE server' = [s EXCEPT !.resendLeft = ResendInterval, !.replies = @ + 1]
    BY <2>4 DEF Carries, ServerRecords
  <2>5. QED
    BY <1>1, <2>1, <2>2, <2>3, <2>4
<1>2. ASSUME NEW key, server' = Offer(s, m, key), ~ Busy(s)
      PROVE  Offers(s, server')
  <2> DEFINE r == Remember(s, m)
  <2>1. r \in ServerRecords
    BY RememberType
  <2>2. r.active = s.active /\ r.peer = s.peer /\ r.generation = s.generation
    BY RememberCarries DEF Carries
  <2> HIDE DEF r
  <2>3. server' = [r EXCEPT !.previous = NoSession, !.pending = Derive(key, 0),
                            !.pendingLeft = PendingLifetime,
                            !.resendLeft = 0, !.replies = 1]
    BY <1>2 DEF Offer, r
  <2>4. /\ server'.active = r.active /\ server'.peer = r.peer
        /\ server'.generation = r.generation /\ server'.previous = NoSession
    BY ZenonT(30), <2>1, <2>3 DEF ServerRecords
  <2>5. QED
    BY <1>2, <2>2, <2>4 DEF Offers, Busy
<1>3. QED
  BY <1>1, <1>2 DEF AnswerSeen, AnswerFresh

LEMMA ReceiveInitMoves ==
  ASSUME TypeOK, NEW m \in InitRecords, ReceiveInit(m)
  PROVE  ServerMoves
<1> DEFINE e == ExpirePending(ExpirePrevious(server))
           t(wall) == [e EXCEPT !.high = Larger(e.high, wall)]
<1>1. /\ e \in ServerRecords /\ Carries(server, e)
      /\ e.active = server.active /\ e.peer = server.peer
  BY ExpiryCarries DEF TypeOK
<1>2. PICK wall \in Walls :
        \/ server' = t(wall)
        \/ AnswerSeen(Purge(t(wall)), m) \/ AnswerFresh(Purge(t(wall)), m)
  BY DEF ReceiveInit
<1> HIDE DEF e
<1>3. t(wall) \in ServerRecords
  <2>1. Larger(e.high, wall) \in Nat
    BY <1>1, BoundFacts DEF Larger, ServerRecords
  <2>2. QED
    BY <1>1, <2>1 DEF ServerRecords
<1>4. Carries(e, t(wall)) /\ t(wall).active = e.active /\ t(wall).peer = e.peer
  BY <1>1 DEF Carries, ServerRecords
<1> DEFINE s == Purge(t(wall))
<1> HIDE DEF t
<1>5. /\ s \in ServerRecords /\ Carries(t(wall), s)
      /\ s.active = t(wall).active /\ s.peer = t(wall).peer
  BY <1>3, PurgeType, PurgeCarries
<1>6. Carries(server, t(wall)) /\ Carries(server, s)
  BY <1>1, <1>4, <1>5, CarriesOn
<1>7. s.active = server.active /\ s.peer = server.peer
  BY <1>1, <1>4, <1>5
<1> HIDE DEF s
<1>8. CASE server' = t(wall)
  BY <1>6, <1>8 DEF ServerMoves
<1>9. CASE AnswerSeen(s, m) \/ AnswerFresh(s, m)
  BY <1>5, <1>6, <1>7, <1>9, AnswerMoves, CarriesOn DEF ServerMoves
<1>10. QED
  BY <1>2, <1>8, <1>9 DEF s

LEMMA ReceiveConfirmMoves ==
  ASSUME TypeOK, NEW m, ReceiveConfirm(m)
  PROVE  ServerMoves
<1> DEFINE s == ExpirePending(ExpirePrevious(server))
<1>1. s \in ServerRecords /\ Carries(server, s)
  BY ExpiryCarries DEF TypeOK
<1>2. server' \in {s, Activate(s)}
  BY DEF ReceiveConfirm
<1> HIDE DEF s
<1>3. Activates(s, Activate(s))
  BY <1>1 DEF Activates, Activate, ServerRecords
<1>4. QED
  BY <1>1, <1>2, <1>3, CarriesOn DEF ServerMoves

LEMMA ServerPacketMoves ==
  ASSUME TypeOK, NEW m, ServerReceivePacket(m)
  PROVE  ServerMoves
<1> DEFINE s == ExpirePending(ExpirePrevious(server))
<1>1. s \in ServerRecords /\ Carries(server, s)
  BY ExpiryCarries DEF TypeOK
<1>2. \/ server' = [NoteActive(s, m) EXCEPT !.peer = s.active.key]
      \/ server' = NotePrevious(s, m) /\ s.previous # NoSession
      \/ server' = s
  BY DEF ServerReceivePacket, OpensPrevious
<1> HIDE DEF s
<1>3. Carries(s, server')
  <2>1. CASE server' = [NoteActive(s, m) EXCEPT !.peer = s.active.key]
    BY <1>1, <2>1 DEF NoteActive, Carries, ServerRecords, SessionRecords
  <2>2. CASE server' = NotePrevious(s, m) /\ s.previous # NoSession
    BY <1>1, <2>2 DEF NotePrevious, Carries, ServerRecords, SessionRecords
  <2>3. CASE server' = s
    BY <2>3 DEF Carries
  <2>4. QED
    BY <1>2, <2>1, <2>2, <2>3
<1>4. QED
  BY <1>1, <1>3, CarriesOn DEF ServerMoves

LEMMA ServerStep == TypeOK /\ [Next]_vars => ServerMoves
<1> SUFFICES ASSUME TypeOK, [Next]_vars PROVE ServerMoves
  OBVIOUS
<1>1. CASE server' = server
  BY <1>1 DEF ServerMoves, Carries
<1>2. CASE ServerTick
  BY <1>2, ExpiryCarries DEF ServerTick, ServerMoves, TypeOK
<1>3. CASE \E meta \in Kinds : ServerSend(meta)
  BY <1>3 DEF TypeOK, ServerSend, Counted, ServerMoves, Carries, ServerRecords, SessionRecords
<1>4. ASSUME NEW m \in net, Receive(m) PROVE ServerMoves
  BY <1>1, <1>4, ReceivedType, ReceiveInitMoves, ReceiveConfirmMoves, ServerPacketMoves
  DEF Receive, ReceiveResponse, ReceiveConfirmAck, ClientReceivePacket, TypeOK
<1>5. CASE TimePasses \/ ServerReboot
  BY <1>5 DEF ServerMoves
<1>6. QED
  BY <1>1, <1>2, <1>3, <1>4, <1>5
  DEF Next, ClientTick, Restart, ClientSend, Lose, ClientReboot, vars

(* The client numbers every change of its key.                             *)
LEMMA BeginNumbers ==
  ASSUME NEW c \in ClientRecords, Begin(c)
  PROVE  client'.active = c.active /\ client'.generation = c.generation
<1>1. CASE client' = [c EXCEPT !.begin_retry = TRUE]
  BY <1>1 DEF ClientRecords
<1>2. CASE \E delay \in {0, RetryInterval} :
             client' = [c EXCEPT !.begin_retry = TRUE, !.randomLeft = delay]
  BY <1>2 DEF ClientRecords
<1>3. CASE \E wall \in Walls :
             client' = [c EXCEPT !.previous = NoSession, !.waiting_ack = FALSE,
                                 !.client_init = InitMsg(used.inits + 1, wall),
                                 !.flight = "init", !.flightLeft = PendingLifetime,
                                 !.retryLeft = RetryInterval, !.begin_retry = FALSE]
  BY <1>3 DEF ClientRecords
<1>4. QED
  BY ZenonT(30), <1>1, <1>2, <1>3 DEF Begin

Numbered(c, d) == d.active.key # c.active.key => d.generation > c.generation

LEMMA ClientStep ==
  ASSUME TypeOK, [Next]_vars
  PROVE  Numbered(client, client') \/ ClientReboot
<1> DEFINE c == ExpirePrevious(client)
<1>1. client \in ClientRecords /\ client.generation \in Nat
  BY DEF TypeOK, ClientRecords
<1>2. c \in ClientRecords /\ c.active = client.active /\ c.generation = client.generation
  BY <1>1, ClientExpireType DEF ExpirePrevious, ClientRecords
<1>3. CASE client' = client
  BY <1>3 DEF Numbered
<1>4. CASE ClientTick
  <2>1. \/ Begin(Abandon(c)) \/ Begin(c)
        \/ client' = c \/ client' = [c EXCEPT !.retryLeft = RetryInterval]
    BY <1>4 DEF ClientTick
  <2>2. /\ Abandon(c) \in ClientRecords
        /\ Abandon(c).active = c.active \/ Abandon(c).generation = c.generation + 1
    BY <1>2, AbandonType DEF Abandon, ClientRecords
  <2> HIDE DEF c
  <2>3. CASE Begin(Abandon(c))
    BY <1>1, <1>2, <2>2, <2>3, BeginNumbers DEF Numbered
  <2>4. CASE Begin(c)
    BY <1>2, <2>4, BeginNumbers DEF Numbered
  <2>5. CASE client' = c \/ client' = [c EXCEPT !.retryLeft = RetryInterval]
    BY <1>2, <2>5 DEF Numbered, ClientRecords
  <2>6. QED
    BY <2>1, <2>3, <2>4, <2>5
<1>5. CASE Restart
  <2> DEFINE d == [client EXCEPT !.active = NoSession, !.previous = NoSession,
                                 !.waiting_ack = FALSE, !.flight = "none",
                                 !.client_init = NoInit, !.generation = @ + 1]
  <2>1. NoSession \in SessionRecords /\ NoInit \in InitRecords /\ client.generation + 1 \in Nat
    BY <1>1, DeriveType DEF NoInit, InitRecords
  <2>2. d \in ClientRecords /\ d.generation = client.generation + 1
    BY ZenonT(30), <1>1, <2>1 DEF ClientRecords
  <2>3. Begin(d)
    BY <1>5 DEF Restart
  <2> HIDE DEF d
  <2>4. client'.generation = client.generation + 1
    BY <2>2, <2>3, BeginNumbers
  <2>5. QED
    BY <1>1, <2>4 DEF Numbered
<1>6. ASSUME NEW m \in net, Receive(m) PROVE Numbered(client, client')
  <2>1. CASE client' = client \/ client' = c
    BY <1>2, <2>1 DEF Numbered
  <2>2. CASE m.type = "response" /\ ReceiveResponse(m)
    <3>1. Adopt(c, m.key).generation = c.generation + 1
      BY <1>2 DEF Adopt, ClientRecords
    <3>2. client' = c \/ client' = Adopt(c, m.key)
      BY <2>2 DEF ReceiveResponse
    <3>3. QED
      BY <1>1, <1>2, <2>1, <3>1, <3>2 DEF Numbered
  <2>3. CASE m.type = "confirm_ack" /\ ReceiveConfirmAck(m)
    <3>1. \/ client' = c
          \/ client' = [c EXCEPT !.waiting_ack = FALSE, !.flight = "none",
                                 !.client_init = NoInit, !.idleLeft = IdleRestart]
      BY <2>3 DEF ReceiveConfirmAck
    <3> HIDE DEF c
    <3>2. client'.active = c.active
      BY <1>2, <3>1 DEF ClientRecords
    <3>3. QED
      BY <1>2, <3>2 DEF Numbered
  <2>4. CASE m.type = "packet" /\ ClientReceivePacket(m)
    <3>1. \/ client' = [NoteActive(c, m) EXCEPT !.idleLeft = IdleRestart]
          \/ client' = NotePrevious(c, m)
          \/ client' = c
      BY <2>4 DEF ClientReceivePacket
    <3> HIDE DEF c
    <3>2. client'.active.key = c.active.key
      <4>1. CASE client' = [NoteActive(c, m) EXCEPT !.idleLeft = IdleRestart]
        BY <1>2, <4>1 DEF NoteActive, ClientRecords, SessionRecords
      <4>2. CASE client' = NotePrevious(c, m)
        BY <1>2, <4>2 DEF NotePrevious, ClientRecords, SessionRecords
      <4>3. QED
        BY <3>1, <4>1, <4>2
    <3>3. QED
      BY <1>2, <3>2 DEF Numbered
  <2>5. QED
    BY <1>6, <2>1, <2>2, <2>3, <2>4
    DEF Receive, ReceiveInit, ReceiveConfirm, ServerReceivePacket
<1>7. CASE \E meta \in Kinds : ClientSend(meta)
  BY <1>1, <1>7 DEF ClientSend, Counted, Numbered, ClientRecords, SessionRecords
<1>8. CASE TimePasses
  BY <1>1, <1>8 DEF TimePasses, Numbered, ClientRecords, SessionRecords
<1>9. QED
  BY <1>3, <1>4, <1>5, <1>6, <1>7, <1>8
  DEF Next, ServerTick, ServerSend, Lose, ServerReboot, vars

LEMMA RebootCounted ==
  ASSUME TypeOK, ClientReboot \/ ServerReboot
  PROVE  Rebooted
<1>1. used \in UsedRecords /\ used.restarts \in Nat
  BY BoundFacts DEF TypeOK, UsedRecords
<1>2. QED
  BY <1>1 DEF ClientReboot, ServerReboot, Spend, Rebooted, UsedRecords

(* Whatever the bounds, a datagram is tried against at most two sessions   *)
(* of the server: pending and previous never exist together (TypeOK alone  *)
(* makes this inductive).                                                  *)
THEOREM TwoCandidates == Spec => []AtMostTwoCandidates
<1>1. Init => AtMostTwoCandidates
  BY DEF Init, FreshServer, AtMostTwoCandidates
<1>2. ASSUME TypeOK, AtMostTwoCandidates, [Next]_vars
      PROVE  AtMostTwoCandidates'
  <2>1. ServerMoves
    BY <1>2, ServerStep
  <2>2. CASE TimePasses
    BY <1>2, <2>2 DEF TypeOK, TimePasses, AtMostTwoCandidates, ServerRecords
  <2>3. CASE ~ TimePasses
    BY <1>2, <2>1, <2>3
    DEF ServerMoves, Carries, Offers, Activates, ServerReboot, FreshServer, AtMostTwoCandidates
  <2>4. QED
    BY <2>2, <2>3
<1>3. QED
  BY <1>1, <1>2, TypeCorrect, PTL DEF Spec

(* Whatever the bounds, the tunnel's UDP peer was last set by a packet of  *)
(* the session the server transmits under, or by its activation.           *)
THEOREM PeerFollowsKey == Spec => []PeerOfActive
<1>1. Init => PeerOfActive
  BY DEF Init, FreshServer, NoSession, PeerOfActive
<1>2. ASSUME TypeOK, PeerOfActive, [Next]_vars
      PROVE  PeerOfActive'
  <2>1. ServerMoves
    BY <1>2, ServerStep
  <2>2. CASE TimePasses
    BY <1>2, <2>2 DEF TypeOK, TimePasses, PeerOfActive, ServerRecords
  <2>3. CASE ~ TimePasses
    BY SMTT(30), <1>2, <2>1, <2>3
    DEF ServerMoves, Carries, Offers, Activates, ServerReboot, FreshServer, NoSession, PeerOfActive
  <2>4. QED
    BY <2>2, <2>3
<1>3. QED
  BY <1>1, <1>2, TypeCorrect, PTL DEF Spec

(* Whatever the bounds and the datagrams that arrive, an exchange that     *)
(* awaits its CONFIRM is neither evicted nor extended before its deadline. *)
THEOREM PendingStays == Spec => PendingKept
<1> DEFINE A == server.pending # NoSession /\ server.pendingLeft > 0 /\ ~ Rebooted =>
                  \/ server'.active = server.pending
                  \/ /\ server'.pending = server.pending
                     /\ server'.pendingLeft <= server.pendingLeft
<1>1. ASSUME TypeOK, [Next]_vars PROVE A
  <2>1. ServerMoves /\ server \in ServerRecords
    BY <1>1, ServerStep DEF TypeOK
  <2>2. server.pendingLeft \in Nat
    BY <2>1, IntervalFacts DEF ServerRecords
  <2>3. CASE TimePasses
    BY <2>1, <2>2, <2>3 DEF TimePasses, Lower, ServerRecords
  <2>4. CASE ServerReboot
    BY <1>1, <2>4, RebootCounted
  <2>5. CASE Carries(server, server')
    BY <2>2, <2>5 DEF Carries
  <2>6. CASE Offers(server, server') \/ Activates(server, server')
    BY <2>2, <2>6 DEF Offers, Activates
  <2>7. QED
    BY <2>1, <2>3, <2>4, <2>5, <2>6 DEF ServerMoves
<1>2. QED
  BY <1>1, TypeCorrect, PTL DEF Spec, PendingKept

(* Whatever the bounds, a side that changes the key it transmits under has *)
(* changed its transmit generation, rollback and relocation included.      *)
THEOREM GenerationsMark == Spec => GenerationMarksKey
<1> DEFINE A == ~ Rebooted =>
       /\ client'.active.key # client.active.key => client'.generation > client.generation
       /\ server'.active.key # server.active.key => server'.generation > server.generation
<1>1. ASSUME TypeOK, [Next]_vars PROVE A
  <2>1. server \in ServerRecords /\ server.generation \in Nat
    BY <1>1 DEF TypeOK, ServerRecords
  <2>2. CASE ClientReboot \/ ServerReboot
    BY <1>1, <2>2, RebootCounted
  <2>3. CASE ~ ClientReboot /\ ~ ServerReboot
    <3>1. Numbered(client, client') /\ ServerMoves
      BY <1>1, <2>3, ClientStep, ServerStep
    <3>2. TimePasses => server'.active = server.active
      BY <2>1 DEF TimePasses, ServerRecords
    <3>3. QED
      BY <2>1, <2>3, <3>1, <3>2 DEF ServerMoves, Carries, Offers, Activates, Numbered
  <2>4. QED
    BY <2>2, <2>3
<1>2. QED
  BY <1>1, TypeCorrect, PTL DEF Spec, GenerationMarksKey

-----------------------------------------------------------------------------
(* What unfinished exchanges can cost.                                     *)

(* A product that fits below e counts how often d fits.                    *)
LEMMA Quotient ==
  ASSUME NEW d \in Nat \ {0}, NEW e \in Nat, NEW n \in Nat, n * d <= e
  PROVE  n <= e \div d
<1> DEFINE q == e \div d
<1>1. q \in Nat /\ e < q * d + d
  OBVIOUS
<1> HIDE DEF q
<1>2. n * d < (q + 1) * d
  BY <1>1
<1>3. n < q + 1
  BY <1>1, <1>2
<1> QED
  BY <1>1, <1>3 DEF q

(* The RESPONSEs of the pending exchange have been paid for with time: the *)
(* first two are free, and while the exchange may be answered again what   *)
(* is left of the current interval is owed.                                *)
Paced(s) ==
  s.pending # NoSession =>
    /\ s.replies * ResendInterval <= (PendingLifetime - s.pendingLeft) + 2 * ResendInterval
    /\ s.pendingLeft > 0 =>
         s.replies * ResendInterval
           <= (PendingLifetime - s.pendingLeft) + s.resendLeft + ResendInterval

(* A step that answers nothing leaves the books alone.                     *)
SameBooks(s, t) ==
  /\ t.pending \in {s.pending, NoSession} /\ t.pendingLeft = s.pendingLeft
  /\ t.resendLeft = s.resendLeft /\ t.replies = s.replies

LEMMA SamePaced ==
  ASSUME NEW s, NEW t, SameBooks(s, t), Paced(s)
  PROVE  Paced(t)
BY DEF SameBooks, Paced

LEMMA PaceFacts ==
  ASSUME NEW s \in ServerRecords
  PROVE  /\ s.pendingLeft \in 0 .. PendingLifetime /\ s.resendLeft \in 0 .. ResendInterval
         /\ s.replies \in Nat
         /\ ResendInterval \in Nat \ {0} /\ PendingLifetime \in Nat \ {0}
BY IntervalFacts DEF ServerRecords

LEMMA PacedBudget ==
  ASSUME NEW s \in ServerRecords, Paced(s), s.pending # NoSession
  PROVE  s.replies <= 2 + (PendingLifetime - s.pendingLeft) \div ResendInterval
<1> DEFINE e == PendingLifetime - s.pendingLeft
           n == s.replies - 2
<1>1. e \in Nat /\ e \div ResendInterval \in Nat
  BY PaceFacts
<1>2. s.replies * ResendInterval <= e + 2 * ResendInterval
  BY DEF Paced
<1>3. CASE s.replies >= 2
  <2>1. n \in Nat /\ n * ResendInterval <= e
    BY <1>1, <1>2, <1>3, PaceFacts
  <2>2. n <= e \div ResendInterval
    BY <1>1, <2>1, PaceFacts, Quotient
  <2> QED
    BY <1>1, <2>1, <2>2, PaceFacts
<1>4. CASE s.replies < 2
  BY <1>1, <1>4, PaceFacts
<1> QED
  BY <1>3, <1>4, PaceFacts

LEMMA TimePaced ==
  ASSUME NEW s \in ServerRecords, NEW t \in ServerRecords, Paced(s),
         t.pending = s.pending, t.replies = s.replies,
         t.pendingLeft = Lower(s.pendingLeft), t.resendLeft = Lower(s.resendLeft)
  PROVE  Paced(t)
<1> DEFINE p == s.replies * ResendInterval
<1>1. p \in Nat
  BY PaceFacts
<1>2. SUFFICES ASSUME t.pending # NoSession
               PROVE  /\ p <= (PendingLifetime - t.pendingLeft) + 2 * ResendInterval
                      /\ t.pendingLeft > 0 =>
                           p <= (PendingLifetime - t.pendingLeft) + t.resendLeft + ResendInterval
  BY DEF Paced
<1>3. /\ p <= (PendingLifetime - s.pendingLeft) + 2 * ResendInterval
      /\ s.pendingLeft > 0 =>
           p <= (PendingLifetime - s.pendingLeft) + s.resendLeft + ResendInterval
  BY <1>2 DEF Paced
<1> HIDE DEF p
<1> QED
  BY <1>1, <1>3, PaceFacts DEF Lower

LEMMA ResentPaced ==
  ASSUME NEW s \in ServerRecords, NEW t \in ServerRecords, Paced(s), s.resendLeft = 0,
         s.pending # NoSession => s.pendingLeft > 0,
         t.pending = s.pending, t.pendingLeft = s.pendingLeft,
         t.replies = s.replies + 1, t.resendLeft = ResendInterval
  PROVE  Paced(t)
<1>1. (s.replies + 1) * ResendInterval = s.replies * ResendInterval + ResendInterval
  BY PaceFacts
<1> DEFINE p == s.replies * ResendInterval
<1>2. p \in Nat
  BY PaceFacts
<1>3. SUFFICES ASSUME t.pending # NoSession
               PROVE  /\ p + ResendInterval <= (PendingLifetime - s.pendingLeft) + 2 * ResendInterval
                      /\ p + ResendInterval
                           <= (PendingLifetime - s.pendingLeft) + ResendInterval + ResendInterval
  BY <1>1 DEF Paced
<1>4. p <= (PendingLifetime - s.pendingLeft) + s.resendLeft + ResendInterval
  BY <1>3 DEF Paced
<1> HIDE DEF p
<1> QED
  BY <1>2, <1>4, PaceFacts

LEMMA OfferedPaced ==
  ASSUME NEW t \in ServerRecords, t.pendingLeft = PendingLifetime, t.replies = 1, t.resendLeft = 0
  PROVE  Paced(t)
BY PaceFacts DEF Paced
LEMMA BooksOn ==
  ASSUME NEW s, NEW e, NEW t, SameBooks(s, e), SameBooks(e, t)
  PROVE  SameBooks(s, t)
BY DEF SameBooks

LEMMA ExpiryBooks ==
  ASSUME NEW s \in ServerRecords
  PROVE  LET e == ExpirePending(ExpirePrevious(s))
         IN  SameBooks(s, e) /\ (e.pending # NoSession => e.pendingLeft > 0)
<1> DEFINE p == ExpirePrevious(s)
<1>1. p \in ServerRecords /\ SameBooks(s, p)
  BY ServerExpireType DEF SameBooks, ExpirePrevious, ServerRecords
<1> HIDE DEF p
<1>2. /\ SameBooks(p, ExpirePending(p))
      /\ ExpirePending(p).pending # NoSession => ExpirePending(p).pendingLeft > 0
  BY <1>1, PaceFacts DEF SameBooks, ExpirePending, ServerRecords
<1> QED
  BY <1>1, <1>2, BooksOn DEF p

LEMMA PurgeBooks ==
  ASSUME NEW s \in ServerRecords
  PROVE  SameBooks(s, Purge(s))
BY ZenonT(30) DEF SameBooks, Purge, ServerRecords

LEMMA RememberBooks ==
  ASSUME NEW s \in ServerRecords, NEW m
  PROVE  SameBooks(s, Remember(s, m))
BY ZenonT(30) DEF SameBooks, Remember, ServerRecords

LEMMA AnswerPaced ==
  ASSUME NEW s \in ServerRecords, NEW m \in InitRecords, Paced(s), server' \in ServerRecords,
         s.pending # NoSession => s.pendingLeft > 0,
         AnswerSeen(s, m) \/ AnswerFresh(s, m)
  PROVE  Paced(server')
<1>1. CASE server' = s
  BY <1>1
<1>2. CASE server' = Remember(s, m)
  BY <1>2, RememberBooks, SamePaced
<1>3. CASE \E delay \in {0, RetryInterval} : server' = [s EXCEPT !.randomLeft = delay]
  <2>1. SameBooks(s, server')
    BY <1>3 DEF SameBooks, ServerRecords
  <2> QED
    BY <2>1, SamePaced
<1>4. CASE /\ ResendDue(s, m)
           /\ server' = [s EXCEPT !.resendLeft = ResendInterval, !.replies = @ + 1]
  <2>1. /\ server'.pending = s.pending /\ server'.pendingLeft = s.pendingLeft
        /\ server'.replies = s.replies + 1 /\ server'.resendLeft = ResendInterval
    BY <1>4 DEF ServerRecords
  <2> QED
    BY <1>4, <2>1, ResentPaced DEF ResendDue
<1>5. ASSUME NEW key, server' = Offer(s, m, key)
      PROVE  Paced(server')
  <2> DEFINE r == Remember(s, m)
  <2>1. r \in ServerRecords
    BY RememberType
  <2>2. server' = [r EXCEPT !.previous = NoSession, !.pending = Derive(key, 0),
                            !.pendingLeft = PendingLifetime,
                            !.resendLeft = 0, !.replies = 1]
    BY <1>5 DEF Offer
  <2> HIDE DEF r
  <2>3. server'.pendingLeft = PendingLifetime /\ server'.resendLeft = 0 /\ server'.replies = 1
    BY ZenonT(30), <2>1, <2>2 DEF ServerRecords
  <2> QED
    BY <2>3, OfferedPaced
<1> QED
  BY <1>1, <1>2, <1>3, <1>4, <1>5 DEF AnswerSeen, AnswerFresh

LEMMA ReceiveInitPaced ==
  ASSUME TypeOK, TypeOK', Paced(server), NEW m \in InitRecords, ReceiveInit(m)
  PROVE  Paced(server')
<1> DEFINE e == ExpirePending(ExpirePrevious(server))
           t(wall) == [e EXCEPT !.high = Larger(e.high, wall)]
<1>1. /\ server \in ServerRecords /\ server' \in ServerRecords /\ e \in ServerRecords
      /\ SameBooks(server, e) /\ (e.pending # NoSession => e.pendingLeft > 0)
  BY ExpiryCarries, ExpiryBooks DEF TypeOK
<1>2. PICK wall \in Walls :
        \/ server' = t(wall)
        \/ AnswerSeen(Purge(t(wall)), m) \/ AnswerFresh(Purge(t(wall)), m)
  BY DEF ReceiveInit
<1> HIDE DEF e
<1>3. t(wall) \in ServerRecords
  <2>1. Larger(e.high, wall) \in Nat
    BY <1>1, BoundFacts DEF Larger, ServerRecords
  <2>2. QED
    BY <1>1, <2>1 DEF ServerRecords
<1>4. SameBooks(e, t(wall))
  BY <1>1 DEF SameBooks, ServerRecords
<1> DEFINE s == Purge(t(wall))
<1> HIDE DEF t
<1>5. s \in ServerRecords /\ SameBooks(t(wall), s)
  BY <1>3, PurgeType, PurgeBooks
<1> HIDE DEF s
<1>6. SameBooks(server, t(wall)) /\ SameBooks(e, s) /\ SameBooks(server, s)
  BY <1>1, <1>4, <1>5, BooksOn
<1>7. Paced(t(wall)) /\ Paced(s) /\ (s.pending # NoSession => s.pendingLeft > 0)
  <2>1. s.pending # NoSession => s.pendingLeft > 0
    BY <1>1, <1>6 DEF SameBooks
  <2> QED
    BY <1>6, <2>1, SamePaced
<1>8. CASE server' = t(wall)
  BY <1>7, <1>8
<1>9. CASE AnswerSeen(s, m) \/ AnswerFresh(s, m)
  BY <1>1, <1>5, <1>7, <1>9, AnswerPaced
<1> QED
  BY <1>2, <1>8, <1>9 DEF s

LEMMA ReceiveConfirmPaced ==
  ASSUME TypeOK, Paced(server), NEW m, ReceiveConfirm(m)
  PROVE  Paced(server')
<1> DEFINE s == ExpirePending(ExpirePrevious(server))
<1>1. s \in ServerRecords /\ SameBooks(server, s)
  BY ExpiryCarries, ExpiryBooks DEF TypeOK
<1>2. server' \in {s, Activate(s)}
  BY DEF ReceiveConfirm
<1> HIDE DEF s
<1>3. Activate(s).pending = NoSession
  BY <1>1 DEF Activate, ServerRecords
<1> QED
  BY <1>1, <1>2, <1>3, SamePaced DEF Paced

LEMMA ServerPacketPaced ==
  ASSUME TypeOK, Paced(server), NEW m, ServerReceivePacket(m)
  PROVE  Paced(server')
<1> DEFINE s == ExpirePending(ExpirePrevious(server))
<1>1. s \in ServerRecords /\ SameBooks(server, s)
  BY ExpiryCarries, ExpiryBooks DEF TypeOK
<1>2. \/ server' = [NoteActive(s, m) EXCEPT !.peer = s.active.key]
      \/ server' = NotePrevious(s, m)
      \/ server' = s
  BY DEF ServerReceivePacket
<1> HIDE DEF s
<1>3. SameBooks(s, server')
  <2>1. CASE server' = [NoteActive(s, m) EXCEPT !.peer = s.active.key]
    BY <1>1, <2>1 DEF NoteActive, SameBooks, ServerRecords, SessionRecords
  <2>2. CASE server' = NotePrevious(s, m)
    BY <1>1, <2>2 DEF NotePrevious, SameBooks, ServerRecords, SessionRecords
  <2>3. CASE server' = s
    BY <2>3 DEF SameBooks
  <2> QED
    BY <1>2, <2>1, <2>2, <2>3
<1> QED
  BY <1>1, <1>3, BooksOn, SamePaced

LEMMA PacedStep ==
  ASSUME TypeOK, TypeOK', Paced(server), [Next]_vars
  PROVE  Paced(server')
<1>1. CASE server' = server
  BY <1>1
<1>2. CASE ServerTick
  BY <1>2, ExpiryBooks, SamePaced DEF ServerTick, TypeOK
<1>3. CASE \E meta \in Kinds : ServerSend(meta)
  <2>1. SameBooks(server, server')
    BY <1>3 DEF TypeOK, ServerSend, Counted, SameBooks, ServerRecords, SessionRecords
  <2> QED
    BY <2>1, SamePaced
<1>4. ASSUME NEW m \in net, Receive(m) PROVE Paced(server')
  BY <1>1, <1>4, ReceivedType, ReceiveInitPaced, ReceiveConfirmPaced, ServerPacketPaced
  DEF Receive, ReceiveResponse, ReceiveConfirmAck, ClientReceivePacket, TypeOK
<1>5. CASE TimePasses
  <2>1. server \in ServerRecords /\ server' \in ServerRecords
    BY DEF TypeOK
  <2>2. /\ server'.pending = server.pending /\ server'.replies = server.replies
        /\ server'.pendingLeft = Lower(server.pendingLeft)
        /\ server'.resendLeft = Lower(server.resendLeft)
    BY <1>5, <2>1 DEF TimePasses, ServerRecords
  <2> QED
    BY <2>1, <2>2, TimePaced
<1>6. CASE ServerReboot
  BY <1>6 DEF ServerReboot, FreshServer, Paced
<1> QED
  BY <1>1, <1>2, <1>3, <1>4, <1>5, <1>6
  DEF Next, ClientTick, Restart, ClientSend, Lose, ClientReboot, vars

(* For all intervals and bounds, and whatever arrives: the server tries a  *)
(* datagram against two keys at most, and emits for a pending exchange two *)
(* RESPONSEs at once and one more per ResendInterval (session.hpp:287-289, *)
(* 350-353).                                                               *)
THEOREM ExchangeLimited == Spec => []ExchangeBounded
<1>1. Init => Paced(server)
  BY DEF Init, FreshServer, Paced
<1>2. TypeOK /\ TypeOK' /\ Paced(server) /\ [Next]_vars => Paced(server)'
  <2>1. ASSUME TypeOK, TypeOK', Paced(server), [Next]_vars PROVE Paced(server)'
    <3>1. Paced(server')
      BY <2>1, PacedStep
    <3> QED
      BY <3>1 DEF Paced
  <2> QED
    BY <2>1
<1>3. TypeOK /\ Paced(server) => ResendBudget
  BY PacedBudget DEF TypeOK, ResendBudget
<1> QED
  BY <1>1, <1>2, <1>3, TypeCorrect, TwoCandidates, PTL DEF Spec, ExchangeBounded

-----------------------------------------------------------------------------
(* What the two expiry checks at the head of every handler change.         *)

LEMMA ClientExpired ==
  ASSUME NEW c \in ClientRecords
  PROVE  LET d == ExpirePrevious(c)
         IN  /\ d \in ClientRecords
             /\ d.active = c.active /\ d.waiting_ack = c.waiting_ack
             /\ d.client_init = c.client_init /\ d.flight = c.flight
             /\ d.previousLeft = c.previousLeft /\ d.flightLeft = c.flightLeft
             /\ d.previous \in {c.previous, NoSession}
             /\ d.previousLeft = 0 => d.previous = NoSession
BY ClientExpireType DEF ExpirePrevious, ClientRecords

LEMMA ServerExpired ==
  ASSUME NEW s \in ServerRecords
  PROVE  LET e == ExpirePending(ExpirePrevious(s))
         IN  /\ e \in ServerRecords
             /\ e.active = s.active
             /\ e.pending \in {s.pending, NoSession}
             /\ e.previous \in {s.previous, NoSession}
<1> DEFINE p == ExpirePrevious(s)
<1>1. /\ p \in ServerRecords /\ p.active = s.active /\ p.pending = s.pending
      /\ p.previous \in {s.previous, NoSession}
  BY ServerExpireType DEF ExpirePrevious, ServerRecords
<1> HIDE DEF p
<1>2. /\ ExpirePending(p) \in ServerRecords
      /\ ExpirePending(p).active = p.active
      /\ ExpirePending(p).pending \in {p.pending, NoSession}
      /\ ExpirePending(p).previous = p.previous
  BY <1>1, ServerExpireType DEF ExpirePending, ServerRecords
<1>3. QED
  BY <1>1, <1>2 DEF p

LEMMA NoSessionEmpty == NoSession.key = NoKey /\ Empty(NoSession)
BY DEF NoSession, Empty

=============================================================================
