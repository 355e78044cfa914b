---------------------------- MODULE NonceProofs ----------------------------
(***************************************************************************)
(* The server's history of nonces: what each step of Session comes to for  *)
(* the INITs and RESPONSEs sent and for the history, and the invariant by  *)
(* which a nonce is answered once.  The network forgets nothing (~ Timely),*)
(* and the handshake keeps AgreementInv (AgreementProofs).                 *)
(***************************************************************************)
EXTENDS SessionProofs, FiniteSetTheorems

-----------------------------------------------------------------------------
(* Nonces: what a step comes to for the INITs and RESPONSEs sent and for   *)
(* the server's history of them.                                           *)

(* The INITs and the RESPONSEs among the messages sent.                    *)
Inits(n) == {m \in n : m.type = "init"}
Answers(n) == {m \in n : m.type = "response"}

LEMMA SentOther ==
  ASSUME ~ Timely, NEW taken
  PROVE  /\ Transit(taken, {}) => Inits(net') = Inits(net) /\ Answers(net') = Answers(net)
         /\ \A x : x.type \notin {"init", "response"} /\ Transit(taken, {x}) =>
              Inits(net') = Inits(net) /\ Answers(net') = Answers(net)
         /\ \A x : x.type = "init" /\ Transit(taken, {x}) =>
              Inits(net') = Inits(net) \cup {x} /\ Answers(net') = Answers(net)
         /\ \A x : x.type = "response" /\ Transit(taken, {x}) =>
              Inits(net') = Inits(net) /\ Answers(net') = Answers(net) \cup {x}
<1>1. Transit(taken, {}) => net' = net
  BY DEF Transit
<1>2. \A x : Transit(taken, {x}) => net' = net \cup {x}
  BY DEF Transit
<1>3. QED
  BY <1>1, <1>2 DEF Inits, Answers

(* What the server's nonce history is made of.                             *)
SameIndexes(s, t) == t.seen = s.seen /\ t.expiry = s.expiry /\ t.high = s.high

(* A step that draws no nonce and answers none.                            *)
QuietNonces ==
  /\ Inits(net') = Inits(net) /\ Answers(net') = Answers(net)
  /\ client'.client_init \in {client.client_init, NoInit}
  /\ SameIndexes(server, server')
  /\ used'.inits = used.inits /\ used'.restarts = used.restarts

(* begin() draws one.                                                      *)
DrawsNonce ==
  /\ \E wall \in Walls : /\ client'.client_init = InitMsg(used.inits + 1, wall)
                         /\ Inits(net') = Inits(net) \cup {InitMsg(used.inits + 1, wall)}
  /\ Answers(net') = Answers(net)
  /\ SameIndexes(server, server')
  /\ used'.inits = used.inits + 1 /\ used'.restarts = used.restarts

(* A process starts again.                                                 *)
Reboots ==
  /\ Inits(net') = Inits(net) /\ Answers(net') = Answers(net)
  /\ client'.client_init \in {client.client_init, NoInit}
  /\ SameIndexes(server, server') \/ server' = FreshServer
  /\ used'.inits = used.inits /\ used'.restarts = used.restarts + 1

(* The client has sent the INIT that its flight repeats.                   *)
InitSent == client.client_init # NoInit => client.client_init \in net

LEMMA BeginNonces ==
  ASSUME TypeOK, ~ Timely, NEW c \in ClientRecords, Begin(c), server' = server,
         c.client_init \in {client.client_init, NoInit}
  PROVE  QuietNonces \/ DrawsNonce
<1>1. used \in UsedRecords
  BY DEF TypeOK
<1>2. SameIndexes(server, server')
  BY DEF SameIndexes
<1>3. CASE /\ client' = [c EXCEPT !.begin_retry = TRUE]
           /\ Transit({}, {})
           /\ UNCHANGED used
  <2>1. client'.client_init = c.client_init
    BY <1>3 DEF ClientRecords
  <2> QED
    BY <1>2, <1>3, <2>1, SentOther DEF QuietNonces
<1>4. CASE /\ \E delay \in {0, RetryInterval} :
                client' = [c EXCEPT !.begin_retry = TRUE, !.randomLeft = delay]
           /\ Transit({}, {})
           /\ Spend("faults", MaxFaults)
  <2>1. client'.client_init = c.client_init
    BY <1>4 DEF ClientRecords
  <2>2. used'.inits = used.inits /\ used'.restarts = used.restarts
    BY <1>1, <1>4 DEF Spend, UsedRecords
  <2> QED
    BY <1>2, <1>4, <2>1, <2>2, SentOther DEF QuietNonces
<1>5. ASSUME NEW wall \in Walls,
             Spend("inits", MaxInits),
             client' = [c EXCEPT !.previous = NoSession, !.waiting_ack = FALSE,
                                 !.client_init = InitMsg(used.inits + 1, wall),
                                 !.flight = "init", !.flightLeft = PendingLifetime,
                                 !.retryLeft = RetryInterval, !.begin_retry = FALSE],
             Transit({}, {InitMsg(used.inits + 1, wall)})
      PROVE  DrawsNonce
  <2>1. client'.client_init = InitMsg(used.inits + 1, wall)
    BY <1>5 DEF ClientRecords
  <2>2. used'.inits = used.inits + 1 /\ used'.restarts = used.restarts
    BY <1>1, <1>5 DEF Spend, UsedRecords
  <2>3. InitMsg(used.inits + 1, wall).type = "init"
    BY DEF InitMsg
  <2>4. /\ Inits(net') = Inits(net) \cup {InitMsg(used.inits + 1, wall)}
        /\ Answers(net') = Answers(net)
    BY <1>5, <2>3, SentOther
  <2> QED
    BY <1>2, <2>1, <2>2, <2>4 DEF DrawsNonce
<1> QED
  BY ZenonT(30), <1>3, <1>4, <1>5 DEF Begin

(* A repeated flight is an INIT that was sent, or a CONFIRM.               *)
LEMMA FlightRepeats ==
  ASSUME AgreementInv, InitSent, ~ Timely, NEW taken, NEW c \in ClientRecords,
         c.flight = client.flight, c.client_init = client.client_init,
         c.flight # "none", Transit(taken, {FlightMsg(c)})
  PROVE  Inits(net') = Inits(net) /\ Answers(net') = Answers(net)
<1>1. CASE c.flight = "init"
  <2>1. FlightMsg(c) = client.client_init /\ client.client_init.type = "init"
    BY <1>1 DEF FlightMsg, ClientRecords, InitRecords, AgreementInv, TypeOK
  <2>2. client.client_init \in Inits(net)
    BY <2>1 DEF AgreementInv, ClientStages, InitSent, Inits
  <2>3. Transit(taken, {client.client_init})
    BY <2>1
  <2>4. /\ Inits(net') = Inits(net) \cup {client.client_init}
        /\ Answers(net') = Answers(net)
    BY <2>1, <2>3, SentOther
  <2> QED
    BY <2>2, <2>4
<1>2. CASE c.flight # "init"
  <2>1. FlightMsg(c).type = "confirm"
    BY <1>2 DEF FlightMsg, ConfirmMsg
  <2> QED
    BY <2>1, SentOther
<1> QED
  BY <1>1, <1>2

LEMMA ClientTickNonces ==
  ASSUME AgreementInv, InitSent, ~ Timely, ClientTick
  PROVE  QuietNonces \/ DrawsNonce
<1> DEFINE c == ExpirePrevious(client)
<1>1. client \in ClientRecords /\ server' = server /\ TypeOK
  BY DEF AgreementInv, TypeOK, ClientTick
<1>2. /\ c \in ClientRecords
      /\ c.client_init = client.client_init /\ c.flight = client.flight
  BY <1>1, ClientExpired
<1> HIDE DEF c
<1>3. SameIndexes(server, server')
  BY <1>1 DEF SameIndexes
<1>4. CASE Begin(Abandon(c))
  <2>1. Abandon(c) \in ClientRecords
    BY <1>2, AbandonType
  <2>2. Abandon(c).client_init = NoInit
    BY <1>2 DEF Abandon, ClientRecords
  <2> QED
    BY <1>1, <1>4, <2>1, <2>2, BeginNonces
<1>5. CASE /\ client' = [c EXCEPT !.retryLeft = RetryInterval]
           /\ c.flight # "none"
           /\ Transit({}, {FlightMsg(c)})
           /\ UNCHANGED used
  <2>1. client'.client_init = client.client_init
    BY <1>2, <1>5 DEF ClientRecords
  <2> QED
    BY <1>2, <1>3, <1>5, <2>1, FlightRepeats DEF QuietNonces
<1>6. CASE Begin(c)
  BY <1>1, <1>2, <1>6, BeginNonces
<1>7. CASE client' = c /\ Transit({}, {}) /\ UNCHANGED used
  BY <1>2, <1>3, <1>7, SentOther DEF QuietNonces
<1> QED
  BY <1>4, <1>5, <1>6, <1>7 DEF ClientTick, c

LEMMA RestartNonces ==
  ASSUME AgreementInv, ~ Timely, Restart
  PROVE  QuietNonces \/ DrawsNonce
<1> DEFINE c == [client EXCEPT !.active = NoSession, !.previous = NoSession,
                               !.waiting_ack = FALSE, !.flight = "none",
                               !.client_init = NoInit, !.generation = @ + 1]
<1>1. client \in ClientRecords /\ client.generation + 1 \in Nat /\ TypeOK
  BY DEF AgreementInv, TypeOK, ClientRecords
<1>2. NoSession \in SessionRecords /\ NoInit \in InitRecords
  BY DeriveType DEF NoInit, InitRecords
<1>3. c \in ClientRecords
  BY ZenonT(30), <1>1, <1>2 DEF ClientRecords
<1>4. Begin(c) /\ server' = server /\ c.client_init = NoInit
  BY <1>1 DEF Restart, ClientRecords
<1> HIDE DEF c
<1> QED
  BY <1>1, <1>3, <1>4, BeginNonces

LEMMA ReceiveResponseNonces ==
  ASSUME AgreementInv, InitSent, ~ Timely, NEW m \in net, m.type = "response", ReceiveResponse(m)
  PROVE  QuietNonces
<1> DEFINE c == ExpirePrevious(client)
<1>1. /\ client \in ClientRecords /\ server' = server /\ used \in UsedRecords
      /\ m \in KeyRecords /\ m.key \in Keys
  BY ReceivedType DEF AgreementInv, TypeOK, ReceiveResponse, KeyRecords
<1>2. /\ c \in ClientRecords
      /\ c.client_init = client.client_init /\ c.flight = client.flight
      /\ c.waiting_ack = client.waiting_ack
  BY <1>1, ClientExpired
<1> HIDE DEF c
<1>3. SameIndexes(server, server')
  BY <1>1 DEF SameIndexes
<1>4. CASE client' = c /\ Transit({m}, {}) /\ UNCHANGED used
  BY <1>2, <1>3, <1>4, SentOther DEF QuietNonces
<1>5. CASE c.waiting_ack /\ client' = c /\ Transit({m}, {FlightMsg(c)}) /\ UNCHANGED used
  <2>1. c.flight # "none"
    BY <1>2, <1>5 DEF AgreementInv, ClientStages
  <2> QED
    BY <1>2, <1>3, <1>5, <2>1, FlightRepeats DEF QuietNonces
<1>6. CASE client' = c /\ Transit({m}, {}) /\ Spend("faults", MaxFaults)
  <2>1. used'.inits = used.inits /\ used'.restarts = used.restarts
    BY <1>1, <1>6 DEF Spend, UsedRecords
  <2> QED
    BY <1>2, <1>3, <1>6, <2>1, SentOther DEF QuietNonces
<1>7. CASE client' = Adopt(c, m.key) /\ Transit({m}, {ConfirmMsg(m.key)}) /\ UNCHANGED used
  <2>1. client'.client_init = client.client_init
    BY <1>2, <1>7 DEF Adopt, ClientRecords
  <2>2. ConfirmMsg(m.key).type = "confirm"
    BY DEF ConfirmMsg
  <2>3. Inits(net') = Inits(net) /\ Answers(net') = Answers(net)
    BY <1>7, <2>2, SentOther
  <2> QED
    BY <1>3, <1>7, <2>1, <2>3 DEF QuietNonces
<1> QED
  BY <1>4, <1>5, <1>6, <1>7 DEF ReceiveResponse, c

LEMMA ClientOtherNonces ==
  ASSUME AgreementInv, ~ Timely
  PROVE  /\ \A m : ReceiveConfirmAck(m) => QuietNonces
         /\ \A meta : ClientSend(meta) => QuietNonces
         /\ \A m : ClientReceivePacket(m) => QuietNonces
         /\ TimePasses => QuietNonces
         /\ ClientReboot => Reboots
<1> DEFINE c == ExpirePrevious(client)
<1>1. client \in ClientRecords /\ server \in ServerRecords /\ used \in UsedRecords
  BY DEF AgreementInv, TypeOK
<1>2. c \in ClientRecords /\ c.client_init = client.client_init
  BY <1>1, ClientExpired
<1> HIDE DEF c
<1>3. SameIndexes(server, server)
  BY DEF SameIndexes
<1>4. ASSUME NEW m, ReceiveConfirmAck(m) PROVE QuietNonces
  <2>1. \/ client' = c
        \/ client' = [c EXCEPT !.waiting_ack = FALSE, !.flight = "none",
                               !.client_init = NoInit, !.idleLeft = IdleRestart]
    BY <1>4 DEF ReceiveConfirmAck, c
  <2>2. client'.client_init \in {client.client_init, NoInit}
    BY <1>2, <2>1 DEF ClientRecords
  <2> QED
    BY <1>3, <1>4, <2>2, SentOther DEF ReceiveConfirmAck, QuietNonces
<1>5. ASSUME NEW meta, ClientSend(meta) PROVE QuietNonces
  <2>1. Encoded(client, "client", meta).type = "packet"
    BY DEF Encoded, PacketMsg
  <2>2. client'.client_init = client.client_init
    BY <1>1, <1>5 DEF ClientSend, Counted, ClientRecords
  <2>3. used'.inits = used.inits /\ used'.restarts = used.restarts
    BY <1>1, <1>5 DEF ClientSend, Spend, UsedRecords
  <2>4. Inits(net') = Inits(net) /\ Answers(net') = Answers(net)
    BY <1>5, <2>1, SentOther DEF ClientSend
  <2>5. server' = server
    BY <1>5 DEF ClientSend
  <2> QED
    BY <1>3, <2>2, <2>3, <2>4, <2>5 DEF QuietNonces
<1>6. ASSUME NEW m, ClientReceivePacket(m) PROVE QuietNonces
  <2>1. \/ client' = [NoteActive(c, m) EXCEPT !.idleLeft = IdleRestart]
        \/ client' = NotePrevious(c, m)
        \/ client' = c
    BY <1>6 DEF ClientReceivePacket, c
  <2>2. client'.client_init = client.client_init
    BY <1>2, <2>1 DEF NoteActive, NotePrevious, ClientRecords
  <2>3. Transit({m}, {}) /\ server' = server /\ used' = used
    BY <1>6 DEF ClientReceivePacket
  <2> QED
    BY <1>3, <2>2, <2>3, SentOther DEF QuietNonces
<1>7. ASSUME TimePasses PROVE QuietNonces
  <2>1. client'.client_init = client.client_init
    BY <1>1, <1>7 DEF TimePasses, ClientRecords
  <2>2. SameIndexes(server, server')
    BY <1>1, <1>7 DEF TimePasses, ServerRecords, SameIndexes
  <2>3. net' = net /\ used' = used
    BY <1>7 DEF TimePasses
  <2> QED
    BY <2>1, <2>2, <2>3 DEF QuietNonces, Inits, Answers
<1>8. ASSUME ClientReboot PROVE Reboots
  <2>1. used'.inits = used.inits /\ used'.restarts = used.restarts + 1
    BY <1>1, <1>8 DEF ClientReboot, Spend, UsedRecords
  <2>2. client'.client_init = NoInit /\ server' = server /\ net' = net
    BY <1>8 DEF ClientReboot, FreshClient
  <2> QED
    BY <1>3, <2>1, <2>2 DEF Reboots, Inits, Answers
<1> QED
  BY <1>4, <1>5, <1>6, <1>7, <1>8

(* The server's steps.                                                     *)

LEMMA ExpiryIndexes ==
  ASSUME NEW s \in ServerRecords
  PROVE  SameIndexes(s, ExpirePending(ExpirePrevious(s)))
<1> DEFINE p == ExpirePrevious(s)
<1>1. p \in ServerRecords /\ SameIndexes(s, p)
  BY ServerExpireType DEF SameIndexes, ExpirePrevious, ServerRecords
<1> HIDE DEF p
<1>2. SameIndexes(p, ExpirePending(p))
  BY <1>1 DEF SameIndexes, ExpirePending, ServerRecords
<1> QED
  BY <1>1, <1>2 DEF p, SameIndexes

LEMMA ServerOtherNonces ==
  ASSUME AgreementInv, ~ Timely
  PROVE  /\ ServerTick => QuietNonces
         /\ \A meta : ServerSend(meta) => QuietNonces
         /\ \A m : ReceiveConfirm(m) => QuietNonces
         /\ \A m : ServerReceivePacket(m) => QuietNonces
         /\ ServerReboot => Reboots
<1> DEFINE s == ExpirePending(ExpirePrevious(server))
<1>1. server \in ServerRecords /\ used \in UsedRecords
  BY DEF AgreementInv, TypeOK
<1>2. s \in ServerRecords /\ SameIndexes(server, s)
  BY <1>1, ServerExpired, ExpiryIndexes
<1> HIDE DEF s
<1>3. ASSUME ServerTick PROVE QuietNonces
  BY <1>2, <1>3 DEF ServerTick, QuietNonces, Inits, Answers, s
<1>4. ASSUME NEW meta, ServerSend(meta) PROVE QuietNonces
  <2>1. Encoded(server, "server", meta).type = "packet"
    BY DEF Encoded, PacketMsg
  <2>2. SameIndexes(server, server')
    BY <1>1, <1>4 DEF ServerSend, Counted, ServerRecords, SameIndexes
  <2>3. used'.inits = used.inits /\ used'.restarts = used.restarts
    BY <1>1, <1>4 DEF ServerSend, Spend, UsedRecords
  <2>4. Inits(net') = Inits(net) /\ Answers(net') = Answers(net)
    BY <1>4, <2>1, SentOther DEF ServerSend
  <2>5. client' = client
    BY <1>4 DEF ServerSend
  <2> QED
    BY <2>2, <2>3, <2>4, <2>5 DEF QuietNonces
<1>5. ASSUME NEW m, ReceiveConfirm(m) PROVE QuietNonces
  <2>1. server' \in {s, Activate(s)} /\ client' = client /\ used' = used
    BY <1>5 DEF ReceiveConfirm, s
  <2>2. SameIndexes(s, Activate(s))
    BY <1>2 DEF Activate, ServerRecords, SameIndexes
  <2>3. SameIndexes(server, server')
    BY <1>2, <2>1, <2>2 DEF SameIndexes
  <2>4. ConfirmAckMsg(m.key).type = "confirm_ack"
    BY DEF ConfirmAckMsg
  <2>5. Transit({m}, {}) \/ Transit({m}, {ConfirmAckMsg(m.key)})
    BY <1>5 DEF ReceiveConfirm
  <2>6. Inits(net') = Inits(net) /\ Answers(net') = Answers(net)
    BY <2>4, <2>5, SentOther
  <2> QED
    BY <2>1, <2>3, <2>6 DEF QuietNonces
<1>6. ASSUME NEW m, ServerReceivePacket(m) PROVE QuietNonces
  <2>1. \/ server' = [NoteActive(s, m) EXCEPT !.peer = s.active.key]
        \/ server' = NotePrevious(s, m)
        \/ server' = s
    BY <1>6 DEF ServerReceivePacket, s
  <2>2. SameIndexes(s, server')
    BY <1>2, <2>1 DEF NoteActive, NotePrevious, ServerRecords, SameIndexes
  <2>3. SameIndexes(server, server')
    BY <1>2, <2>2 DEF SameIndexes
  <2>4. Transit({m}, {}) /\ client' = client /\ used' = used
    BY <1>6 DEF ServerReceivePacket
  <2> QED
    BY <2>3, <2>4, SentOther DEF QuietNonces
<1>7. ASSUME ServerReboot PROVE Reboots
  <2>1. used'.inits = used.inits /\ used'.restarts = used.restarts + 1
    BY <1>1, <1>7 DEF ServerReboot, Spend, UsedRecords
  <2>2. client' = client /\ server' = FreshServer /\ net' = net
    BY <1>7 DEF ServerReboot
  <2> QED
    BY <2>1, <2>2 DEF Reboots, Inits, Answers
<1> QED
  BY <1>3, <1>4, <1>5, <1>6, <1>7

(* What the INIT handler does to the history: it raises the time, drops    *)
(* what that time has overtaken, and notes the nonce.                      *)
Raised(s, t) == t.seen = s.seen /\ t.expiry = s.expiry /\ t.high \in Nat /\ t.high >= s.high
OutOfTime(s, high) == {a \in s.expiry : a[1] < high}
Purged(s, t) ==
  /\ t.high \in Nat /\ t.high >= s.high
  /\ t.expiry = s.expiry \ OutOfTime(s, t.high)
  /\ t.seen = s.seen \ {a[2] : a \in OutOfTime(s, t.high)}
Noted(t, u, m) ==
  /\ u.high = t.high
  /\ u.seen = t.seen \cup {m.nonce}
  /\ u.expiry = t.expiry \cup {<<m.stamp + HalfWindow, m.nonce>>}

ReadsInit(m) ==
  /\ client' = client /\ Inits(net') = Inits(net)
  /\ used'.inits = used.inits /\ used'.restarts = used.restarts
  /\ \/ Answers(net') = Answers(net) /\ (Raised(server, server') \/ Purged(server, server'))
     \/ \E t \in ServerRecords :
          /\ Purged(server, t) /\ Noted(t, server', m)
          /\ m.nonce \notin t.seen /\ Cardinality(t.seen) < NonceCapacity
          /\ t.high <= m.stamp + HalfWindow
          /\ \/ Answers(net') = Answers(net)
             \/ Answers(net') = Answers(net) \cup {ResponseMsg(Key(m.nonce, used.responses + 1))}

LEMMA PurgeIndexes ==
  ASSUME NEW s \in ServerRecords
  PROVE  /\ Purge(s).high = s.high
         /\ Purge(s).expiry = s.expiry \ OutOfTime(s, s.high)
         /\ Purge(s).seen = s.seen \ {a[2] : a \in OutOfTime(s, s.high)}
         /\ Purge(s).pending = s.pending
BY ZenonT(30) DEF Purge, ServerRecords, OutOfTime

LEMMA RememberIndexes ==
  ASSUME NEW s \in ServerRecords, NEW m \in InitRecords
  PROVE  Noted(s, Remember(s, m), m) /\ \A key : Noted(s, Offer(s, m, key), m)
<1> DEFINE r == Remember(s, m)
<1>1. r \in ServerRecords
  BY RememberType
<1>2. Noted(s, r, m)
  BY ZenonT(30) DEF Remember, ServerRecords, Noted
<1>3. \A key : Offer(s, m, key) = [r EXCEPT !.previous = NoSession, !.pending = Derive(key, 0),
                                          !.pendingLeft = PendingLifetime,
                                          !.resendLeft = 0, !.replies = 1]
  BY DEF Offer
<1> HIDE DEF r
<1>4. ASSUME NEW x, NEW q, NEW n
      PROVE  SameIndexes(r, [r EXCEPT !.previous = x, !.pending = q, !.pendingLeft = n,
                                      !.resendLeft = 0, !.replies = 1])
  BY <1>1 DEF ServerRecords, SameIndexes
<1>5. ASSUME NEW key PROVE Noted(s, Offer(s, m, key), m)
  <2> DEFINE o == [r EXCEPT !.previous = NoSession, !.pending = Derive(key, 0),
                            !.pendingLeft = PendingLifetime, !.resendLeft = 0, !.replies = 1]
  <2>1. SameIndexes(r, o) /\ Offer(s, m, key) = o
    BY Zenon, <1>3, <1>4
  <2> QED
    BY Zenon, <1>2, <2>1 DEF SameIndexes, Noted
<1> QED
  BY <1>2, <1>5 DEF r

(* A RESPONSE that is sent again was sent before.                          *)
LEMMA ResentBefore ==
  ASSUME AgreementInv, NEW s, s.pending.key = server.pending.key, NEW m \in net, m.type = "init",
         ResendDue(s, m)
  PROVE  ResponseMsg(s.pending.key) \in Answers(net)
<1>1. m.nonce \in 1 .. used.inits /\ used.inits \in Nat
  BY BoundFacts DEF AgreementInv, NoncesDrawn, TypeOK, UsedRecords
<1>2. server.pending.key # NoKey
  BY <1>1 DEF ResendDue, NoKey, Key
<1>3. PICK x \in net : x.type = "response" /\ x.key = server.pending.key
  BY <1>2 DEF AgreementInv, PendingNewest, KeysSent
<1>4. x \in KeyRecords
  BY <1>3, ReceivedType DEF AgreementInv, TypeOK
<1>5. x = ResponseMsg(server.pending.key)
  BY <1>3, <1>4 DEF KeyRecords, ResponseMsg
<1> QED
  BY <1>3, <1>5 DEF Answers

LEMMA ReceiveInitNonces ==
  ASSUME AgreementInv, ~ Timely, NEW m \in net, m.type = "init", ReceiveInit(m)
  PROVE  ReadsInit(m)
<1> DEFINE e == ExpirePending(ExpirePrevious(server))
           t(wall) == [e EXCEPT !.high = Larger(e.high, wall)]
<1>1. /\ server \in ServerRecords /\ used \in UsedRecords /\ m \in InitRecords
      /\ client' = client
  BY ReceivedType DEF AgreementInv, TypeOK, ReceiveInit
<1>2. /\ e \in ServerRecords /\ SameIndexes(server, e)
      /\ e.pending \in {server.pending, NoSession}
  BY <1>1, ServerExpired, ExpiryIndexes
<1>3. PICK wall \in Walls :
        \/ server' = t(wall) /\ Transit({m}, {}) /\ UNCHANGED used
        \/ m.nonce \in Purge(t(wall)).seen /\ AnswerSeen(Purge(t(wall)), m)
        \/ /\ Distance(m.stamp, t(wall).high) <= HalfWindow
           /\ m.nonce \notin Purge(t(wall)).seen
           /\ AnswerFresh(Purge(t(wall)), m)
  BY DEF ReceiveInit
<1> HIDE DEF e
<1>4. Larger(e.high, wall) \in Nat /\ Larger(e.high, wall) >= e.high
  BY <1>2, BoundFacts DEF Larger, ServerRecords
<1>5. /\ t(wall) \in ServerRecords
      /\ t(wall).seen = e.seen /\ t(wall).expiry = e.expiry
      /\ t(wall).high = Larger(e.high, wall) /\ t(wall).pending = e.pending
  BY <1>2, <1>4 DEF ServerRecords
<1> DEFINE s == Purge(t(wall))
<1> HIDE DEF t
<1>6. /\ s \in ServerRecords /\ s.high = t(wall).high /\ s.pending = e.pending
      /\ s.expiry = t(wall).expiry \ OutOfTime(t(wall), t(wall).high)
      /\ s.seen = t(wall).seen \ {a[2] : a \in OutOfTime(t(wall), t(wall).high)}
  BY <1>5, PurgeType, PurgeIndexes
<1>7. OutOfTime(t(wall), t(wall).high) = OutOfTime(server, s.high)
  BY <1>2, <1>5, <1>6 DEF OutOfTime, SameIndexes
<1>8. Raised(server, t(wall)) /\ Purged(server, s)
  BY <1>2, <1>4, <1>5, <1>6, <1>7 DEF Raised, Purged, SameIndexes
<1> HIDE DEF s
<1>9. CASE server' = t(wall) /\ Transit({m}, {}) /\ UNCHANGED used
  BY <1>1, <1>8, <1>9, SentOther DEF ReadsInit
<1>10. ASSUME SameIndexes(s, server'), Inits(net') = Inits(net), Answers(net') = Answers(net),
              used'.inits = used.inits, used'.restarts = used.restarts
       PROVE  ReadsInit(m)
  <2>1. Purged(server, server')
    BY <1>8, <1>10 DEF Purged, SameIndexes
  <2> QED
    BY <1>1, <1>10, <2>1 DEF ReadsInit
<1>11. CASE AnswerSeen(s, m)
  <2>1. CASE server' = s /\ Transit({m}, {}) /\ UNCHANGED used
    <3>1. SameIndexes(s, server')
      BY <2>1 DEF SameIndexes
    <3> QED
      BY <1>10, <2>1, <3>1, SentOther
  <2>2. CASE /\ ResendDue(s, m)
             /\ server' = [s EXCEPT !.resendLeft = ResendInterval, !.replies = @ + 1]
             /\ Transit({m}, {ResponseMsg(s.pending.key)})
             /\ UNCHANGED used
    <3>1. SameIndexes(s, server')
      BY <1>6, <2>2 DEF SameIndexes, ServerRecords
    <3>2. s.pending.key = server.pending.key
      <4>1. m.nonce \in 1 .. used.inits /\ used.inits \in Nat
        BY BoundFacts DEF AgreementInv, NoncesDrawn, TypeOK, UsedRecords
      <4>2. s.pending.key # NoKey
        BY <2>2, <4>1 DEF ResendDue, NoKey, Key
      <4> QED
        BY <1>2, <1>6, <4>2, NoSessionEmpty
    <3>3. ResponseMsg(s.pending.key) \in Answers(net)
      BY <2>2, <3>2, ResentBefore
    <3>4. ResponseMsg(s.pending.key).type = "response"
      BY DEF ResponseMsg
    <3>5. Inits(net') = Inits(net) /\ Answers(net') = Answers(net) \cup {ResponseMsg(s.pending.key)}
      BY <2>2, <3>4, SentOther
    <3>6. Answers(net') = Answers(net)
      BY <3>3, <3>5
    <3> QED
      BY <1>10, <2>2, <3>1, <3>5, <3>6
  <2> QED
    BY <1>11, <2>1, <2>2 DEF AnswerSeen
<1>12. CASE /\ Distance(m.stamp, t(wall).high) <= HalfWindow
            /\ m.nonce \notin s.seen
            /\ AnswerFresh(s, m)
  <2>1. s.high <= m.stamp + HalfWindow
    BY <1>1, <1>6, <1>12, BoundFacts DEF Distance, ServerRecords, InitRecords
  <2>2. ASSUME Cardinality(s.seen) < NonceCapacity, Noted(s, server', m), Inits(net') = Inits(net),
               \/ Answers(net') = Answers(net)
               \/ Answers(net') = Answers(net) \cup {ResponseMsg(Key(m.nonce, used.responses + 1))},
               used'.inits = used.inits, used'.restarts = used.restarts
        PROVE  ReadsInit(m)
    BY <1>1, <1>6, <1>8, <1>12, <2>1, <2>2 DEF ReadsInit
  <2>3. CASE server' = s /\ Transit({m}, {}) /\ UNCHANGED used
    <3>1. SameIndexes(s, server')
      BY <2>3 DEF SameIndexes
    <3> QED
      BY <1>10, <2>3, <3>1, SentOther
  <2>4. CASE /\ Cardinality(s.seen) < NonceCapacity
             /\ server' = Remember(s, m) /\ Transit({m}, {}) /\ UNCHANGED used
    BY <1>1, <1>6, <2>2, <2>4, RememberIndexes, SentOther
  <2>5. CASE /\ Cardinality(s.seen) < NonceCapacity
             /\ \/ \E delay \in {0, RetryInterval} : server' = [s EXCEPT !.randomLeft = delay]
                \/ server' = Remember(s, m)
             /\ Transit({m}, {})
             /\ Spend("faults", MaxFaults)
    <3>1. used'.inits = used.inits /\ used'.restarts = used.restarts
      BY <1>1, <2>5 DEF Spend, UsedRecords
    <3>2. Inits(net') = Inits(net) /\ Answers(net') = Answers(net)
      BY <2>5, SentOther
    <3>3. CASE \E delay \in {0, RetryInterval} : server' = [s EXCEPT !.randomLeft = delay]
      <4>1. SameIndexes(s, server')
        BY <1>6, <3>3 DEF SameIndexes, ServerRecords
      <4> QED
        BY <1>10, <3>1, <3>2, <4>1
    <3>4. CASE server' = Remember(s, m)
      BY <1>1, <1>6, <2>2, <2>5, <3>1, <3>2, <3>4, RememberIndexes
    <3> QED
      BY <2>5, <3>3, <3>4
  <2>6. CASE /\ Cardinality(s.seen) < NonceCapacity
             /\ Spend("responses", MaxResponses)
             /\ server' = Offer(s, m, Key(m.nonce, used.responses + 1))
             /\ Transit({m}, {ResponseMsg(Key(m.nonce, used.responses + 1))})
    <3>1. used'.inits = used.inits /\ used'.restarts = used.restarts
      BY <1>1, <2>6 DEF Spend, UsedRecords
    <3>2. ResponseMsg(Key(m.nonce, used.responses + 1)).type = "response"
      BY DEF ResponseMsg
    <3>3. /\ Inits(net') = Inits(net)
          /\ Answers(net') = Answers(net) \cup {ResponseMsg(Key(m.nonce, used.responses + 1))}
      BY <2>6, <3>2, SentOther
    <3>4. Noted(s, server', m)
      BY <1>1, <1>6, <2>6, RememberIndexes
    <3> QED
      BY <2>2, <2>6, <3>1, <3>3, <3>4
  <2> QED
    BY ZenonT(30), <1>12, <2>3, <2>4, <2>5, <2>6 DEF AnswerFresh
<1> QED
  BY <1>3, <1>9, <1>11, <1>12 DEF s

(* All that a step comes to for the nonces.                                *)
LEMMA NonceStep ==
  ASSUME AgreementInv, InitSent, ~ Timely, [Next]_vars
  PROVE  \/ QuietNonces \/ DrawsNonce \/ Reboots
         \/ \E m \in net : m.type = "init" /\ ReadsInit(m)
<1>1. CASE UNCHANGED vars
  BY <1>1 DEF vars, QuietNonces, SameIndexes
<1>2. CASE ClientTick \/ Restart
  BY <1>2, ClientTickNonces, RestartNonces
<1>3. CASE ServerTick \/ TimePasses \/ ClientReboot \/ ServerReboot
  BY <1>3, ClientOtherNonces, ServerOtherNonces
<1>4. CASE \E meta \in Kinds : ClientSend(meta) \/ ServerSend(meta)
  BY <1>4, ClientOtherNonces, ServerOtherNonces
<1>5. CASE \E m \in net : Lose(m)
  BY <1>5 DEF Lose
<1>6. ASSUME NEW m \in net, Receive(m)
      PROVE  QuietNonces \/ (m.type = "init" /\ ReadsInit(m))
  BY <1>6, ReceiveInitNonces, ReceiveResponseNonces, ClientOtherNonces, ServerOtherNonces DEF Receive
<1> QED
  BY <1>1, <1>2, <1>3, <1>4, <1>5, <1>6 DEF Next

-----------------------------------------------------------------------------
(* The nonce history.                                                      *)

(* The history in terms of the INITs i that were sent, with nonces up to   *)
(* drawn: both indexes hold the same nonces, and an entry's time follows   *)
(* from the one INIT with its nonce.                                       *)
HistoryInv(s, i, drawn) ==
  /\ s.seen = {a[2] : a \in s.expiry}
  /\ IsFiniteSet(s.expiry) /\ IsFiniteSet(s.seen)
  /\ Cardinality(s.seen) <= NonceCapacity
  /\ \A a, b \in s.expiry : a[2] = b[2] => a = b
  /\ \A a \in s.expiry : a[2] \in 1 .. drawn
  /\ \A a \in s.expiry, m \in i : m.nonce = a[2] => a[1] = m.stamp + HalfWindow

OneStamp(i) == \A x, y \in i : x.nonce = y.nonce => x = y

(* The server will answer no INIT with nonce k: it has the nonce, or time  *)
(* has overtaken its stamp.                                                *)
Spent(s, i, k) ==
  \/ k \in s.seen
  \/ \A m \in i : m.nonce = k => m.stamp + HalfWindow < s.high

(* The RESPONSEs of a to nonce k, and how many r restarts allow.           *)
Replies(a, k) == {m \in a : m.key[1] = k}
AnswerInv(s, i, a, r) ==
  \A k \in Nat : /\ IsFiniteSet(Replies(a, k))
                 /\ Cardinality(Replies(a, k)) <= r + 1
                 /\ ~ Spent(s, i, k) => Cardinality(Replies(a, k)) <= r

NonceInv ==
  /\ AgreementInv /\ InitSent
  /\ OneStamp(Inits(net))
  /\ HistoryInv(server, Inits(net), used.inits)
  /\ AnswerInv(server, Inits(net), Answers(net), used.restarts)

LEMMA RaisedHistory ==
  ASSUME NEW s \in ServerRecords, NEW t, NEW i \in SUBSET InitRecords, NEW d,
         HistoryInv(s, i, d), Raised(s, t)
  PROVE  HistoryInv(t, i, d) /\ \A k : Spent(s, i, k) => Spent(t, i, k)
<1>1. HistoryInv(t, i, d)
  BY DEF Raised, HistoryInv
<1>2. \A k : Spent(s, i, k) => Spent(t, i, k)
  <2>1. \A m \in i : m.stamp \in Nat
    BY DEF InitRecords
  <2>2. \A m \in i : m.stamp + HalfWindow < s.high => m.stamp + HalfWindow < t.high
    BY <2>1, BoundFacts DEF Raised, ServerRecords
  <2> QED
    BY <2>2 DEF Spent, Raised
<1> QED
  BY <1>1, <1>2

LEMMA PurgedHistory ==
  ASSUME NEW s \in ServerRecords, NEW t, NEW i \in SUBSET InitRecords, NEW d,
         HistoryInv(s, i, d), Purged(s, t)
  PROVE  HistoryInv(t, i, d) /\ \A k : Spent(s, i, k) => Spent(t, i, k)
<1> DEFINE gone == OutOfTime(s, t.high)
<1>1. gone \subseteq s.expiry /\ t.expiry = s.expiry \ gone /\ t.seen = s.seen \ {a[2] : a \in gone}
  BY DEF Purged, OutOfTime
<1>2. \A a \in gone : a[1] < t.high
  BY DEF OutOfTime
<1> HIDE DEF gone
<1>3. HistoryInv(t, i, d)
  <2>1. t.seen = {a[2] : a \in t.expiry}
    <3>1. \A a \in s.expiry \ gone : a[2] \notin {b[2] : b \in gone}
      BY <1>1 DEF HistoryInv
    <3> QED
      BY <1>1, <3>1 DEF HistoryInv
  <2>2. t.expiry \in SUBSET s.expiry /\ t.seen \in SUBSET s.seen
    BY <1>1
  <2>3. IsFiniteSet(t.expiry)
    BY <2>2, FS_Subset DEF HistoryInv
  <2>4. IsFiniteSet(t.seen) /\ Cardinality(t.seen) <= Cardinality(s.seen)
    BY <2>2, FS_Subset DEF HistoryInv
  <2>5. Cardinality(t.seen) <= NonceCapacity
    <3>1. Cardinality(t.seen) \in Nat /\ Cardinality(s.seen) \in Nat
      BY <2>4, FS_CardinalityType DEF HistoryInv
    <3> QED
      BY <2>4, <3>1, LimitAssumption DEF HistoryInv
  <2> QED
    BY <2>1, <2>2, <2>3, <2>4, <2>5 DEF HistoryInv
<1>4. ASSUME NEW k, Spent(s, i, k) PROVE Spent(t, i, k)
  <2>1. CASE k \in s.seen
    <3>1. CASE k \in t.seen
      BY <3>1 DEF Spent
    <3>2. CASE k \notin t.seen
      <4>1. PICK a \in gone : a[2] = k
        BY <1>1, <2>1, <3>2
      <4>2. \A m \in i : m.nonce = k => m.stamp + HalfWindow < t.high
        BY <1>1, <1>2, <4>1 DEF HistoryInv
      <4> QED
        BY <4>2 DEF Spent
    <3> QED
      BY <3>1, <3>2
  <2>2. CASE \A m \in i : m.nonce = k => m.stamp + HalfWindow < s.high
    <3>1. \A m \in i : m.stamp \in Nat
      BY DEF InitRecords
    <3>2. \A m \in i : m.stamp + HalfWindow < s.high => m.stamp + HalfWindow < t.high
      BY <3>1, BoundFacts DEF Purged, ServerRecords
    <3> QED
      BY <2>2, <3>2 DEF Spent
  <2> QED
    BY <1>4, <2>1, <2>2 DEF Spent
<1> QED
  BY <1>3, <1>4

LEMMA NotedHistory ==
  ASSUME NEW t, NEW u, NEW i \in SUBSET InitRecords, NEW d, NEW m \in i,
         HistoryInv(t, i, d), OneStamp(i), m.nonce \in 1 .. d, m.nonce \notin t.seen,
         Cardinality(t.seen) < NonceCapacity, Noted(t, u, m)
  PROVE  /\ HistoryInv(u, i, d) /\ \A k : Spent(t, i, k) => Spent(u, i, k)
         /\ Spent(u, i, m.nonce)
<1> DEFINE b == <<m.stamp + HalfWindow, m.nonce>>
<1>1. /\ u.high = t.high /\ u.seen = t.seen \cup {m.nonce} /\ u.expiry = t.expiry \cup {b}
      /\ b[1] = m.stamp + HalfWindow /\ b[2] = m.nonce
  BY DEF Noted
<1> HIDE DEF b
<1>2. \A a \in t.expiry : a[2] # b[2]
  BY <1>1 DEF HistoryInv
<1>3. u.seen = {a[2] : a \in u.expiry}
  BY <1>1 DEF HistoryInv
<1>4. IsFiniteSet(u.expiry) /\ IsFiniteSet(u.seen)
  <2>1. IsFiniteSet(t.expiry) /\ IsFiniteSet(t.seen)
    BY DEF HistoryInv
  <2>2. IsFiniteSet(t.expiry \cup {b}) /\ IsFiniteSet(t.seen \cup {m.nonce})
    BY <2>1, FS_AddElement
  <2> QED
    BY <1>1, <2>2
<1>5. Cardinality(u.seen) <= NonceCapacity
  <2>1. Cardinality(t.seen) \in Nat
    BY FS_CardinalityType DEF HistoryInv
  <2>2. Cardinality(t.seen \cup {m.nonce}) = Cardinality(t.seen) + 1
    BY FS_AddElement DEF HistoryInv
  <2> QED
    BY <1>1, <2>1, <2>2, LimitAssumption
<1>6. \A a, c \in u.expiry : a[2] = c[2] => a = c
  BY <1>1, <1>2 DEF HistoryInv
<1>7. \A a \in u.expiry : a[2] \in 1 .. d
  BY <1>1 DEF HistoryInv
<1>8. \A a \in u.expiry, x \in i : x.nonce = a[2] => a[1] = x.stamp + HalfWindow
  BY <1>1 DEF HistoryInv, OneStamp
<1>9. HistoryInv(u, i, d)
  BY <1>3, <1>4, <1>5, <1>6, <1>7, <1>8 DEF HistoryInv
<1> QED
  BY <1>1, <1>9 DEF Spent

LEMMA AnswersKept ==
  ASSUME NEW s, NEW t, NEW i, NEW a, NEW r, AnswerInv(s, i, a, r),
         \A k : Spent(s, i, k) => Spent(t, i, k)
  PROVE  AnswerInv(t, i, a, r)
BY DEF AnswerInv

(* Only a nonce that is not spent is answered, and is spent by that.       *)
LEMMA AnswerAdded ==
  ASSUME NEW s, NEW t, NEW i, NEW a, NEW r \in Nat, AnswerInv(s, i, a, r),
         \A k : Spent(s, i, k) => Spent(t, i, k),
         NEW x, ~ Spent(s, i, x.key[1]), Spent(t, i, x.key[1])
  PROVE  AnswerInv(t, i, a \cup {x}, r)
<1>1. SUFFICES ASSUME NEW k \in Nat
               PROVE  /\ IsFiniteSet(Replies(a \cup {x}, k))
                      /\ Cardinality(Replies(a \cup {x}, k)) <= r + 1
                      /\ ~ Spent(t, i, k) => Cardinality(Replies(a \cup {x}, k)) <= r
  BY DEF AnswerInv
<1>2. CASE k # x.key[1]
  <2>1. Replies(a \cup {x}, k) = Replies(a, k)
    BY <1>2 DEF Replies
  <2> QED
    BY <2>1 DEF AnswerInv
<1>3. CASE k = x.key[1]
  <2>1. Replies(a \cup {x}, k) = Replies(a, k) \cup {x}
    BY <1>3 DEF Replies
  <2>2. IsFiniteSet(Replies(a, k)) /\ Cardinality(Replies(a, k)) <= r
    BY <1>3 DEF AnswerInv
  <2>3. /\ IsFiniteSet(Replies(a, k) \cup {x})
        /\ Cardinality(Replies(a, k) \cup {x}) \in {Cardinality(Replies(a, k)), Cardinality(Replies(a, k)) + 1}
    BY <2>2, FS_AddElement
  <2>4. Cardinality(Replies(a, k)) \in Nat
    BY <2>2, FS_CardinalityType
  <2>5. Cardinality(Replies(a, k) \cup {x}) <= r + 1
    BY <2>2, <2>3, <2>4
  <2> QED
    BY <1>3, <2>1, <2>3, <2>5
<1> QED
  BY <1>2, <1>3

(* A new nonce has neither answers nor an entry.                           *)
LEMMA NonceDrawn ==
  ASSUME NonceInv, DrawsNonce
  PROVE  /\ OneStamp(Inits(net'))
         /\ HistoryInv(server', Inits(net'), used'.inits)
         /\ AnswerInv(server', Inits(net'), Answers(net'), used'.restarts)
<1> DEFINE n == used.inits + 1
<1>1. /\ used.inits \in Nat /\ used.restarts \in Nat
      /\ \A m \in Inits(net) : m \in InitRecords /\ m.nonce \in 1 .. used.inits
      /\ \A m \in Answers(net) : m.key[1] \in 1 .. used.inits
  <2>1. \A m \in Answers(net) : m.key \in KeysSent("response")
    BY DEF Answers, KeysSent
  <2> QED
    BY <2>1, ReceivedType DEF NonceInv, AgreementInv, TypeOK, UsedRecords, NoncesDrawn, Inits
<1>2. PICK wall \in Walls : Inits(net') = Inits(net) \cup {InitMsg(n, wall)}
  BY DEF DrawsNonce
<1> DEFINE x == InitMsg(n, wall)
<1>3. x.nonce = n /\ used'.inits = n /\ SameIndexes(server, server')
  BY DEF InitMsg, DrawsNonce
<1>4. n \in Nat /\ \A k \in 1 .. used.inits : k # n /\ k \in 1 .. n
  BY <1>1
<1>5. OneStamp(Inits(net'))
  BY <1>1, <1>2, <1>3, <1>4 DEF NonceInv, OneStamp
<1>6. HistoryInv(server', Inits(net'), n)
  <2>1. \A a \in server.expiry : a[2] \in 1 .. n
    BY <1>4 DEF NonceInv, HistoryInv
  <2>2. \A a \in server.expiry, m \in Inits(net') : m.nonce = a[2] => a[1] = m.stamp + HalfWindow
    BY <1>2, <1>3, <1>4 DEF NonceInv, HistoryInv
  <2> QED
    BY <1>3, <2>1, <2>2 DEF NonceInv, HistoryInv, SameIndexes
<1>7. AnswerInv(server', Inits(net'), Answers(net), used.restarts)
  <2>1. SUFFICES ASSUME NEW k \in Nat
                 PROVE  /\ IsFiniteSet(Replies(Answers(net), k))
                        /\ Cardinality(Replies(Answers(net), k)) <= used.restarts + 1
                        /\ ~ Spent(server', Inits(net'), k) =>
                             Cardinality(Replies(Answers(net), k)) <= used.restarts
    BY DEF AnswerInv
  <2>2. CASE k = n
    <3>1. Replies(Answers(net), k) = {}
      BY <1>1, <1>4, <2>2 DEF Replies
    <3> QED
      BY <1>1, <3>1, FS_EmptySet
  <2>3. CASE k # n
    <3>1. Spent(server, Inits(net), k) => Spent(server', Inits(net'), k)
      BY <1>2, <1>3, <2>3 DEF Spent, SameIndexes
    <3> QED
      BY <3>1 DEF NonceInv, AnswerInv
  <2> QED
    BY <2>2, <2>3
<1> QED
  BY <1>3, <1>5, <1>6, <1>7 DEF DrawsNonce

(* A new process has an empty history, and one more answer to give.        *)
LEMMA NonceReboot ==
  ASSUME NonceInv, Reboots
  PROVE  /\ HistoryInv(server', Inits(net'), used'.inits)
         /\ AnswerInv(server', Inits(net'), Answers(net'), used'.restarts)
<1>1. used.restarts \in Nat
  BY DEF NonceInv, AgreementInv, TypeOK, UsedRecords
<1>2. HistoryInv(server', Inits(net), used.inits)
  <2>1. CASE SameIndexes(server, server')
    BY <2>1 DEF NonceInv, HistoryInv, SameIndexes
  <2>2. CASE server' = FreshServer
    <3>1. server'.seen = {} /\ server'.expiry = {}
      BY <2>2 DEF FreshServer
    <3>2. IsFiniteSet({}) /\ Cardinality({}) <= NonceCapacity
      BY FS_EmptySet, LimitAssumption
    <3> QED
      BY <3>1, <3>2 DEF HistoryInv
  <2> QED
    BY <2>1, <2>2 DEF Reboots
<1>3. AnswerInv(server', Inits(net), Answers(net), used.restarts + 1)
  <2>1. ASSUME NEW k \in Nat
        PROVE  /\ IsFiniteSet(Replies(Answers(net), k))
               /\ Cardinality(Replies(Answers(net), k)) <= used.restarts + 1
               /\ Cardinality(Replies(Answers(net), k)) <= used.restarts + 1 + 1
    <3>1. /\ IsFiniteSet(Replies(Answers(net), k))
          /\ Cardinality(Replies(Answers(net), k)) <= used.restarts + 1
      BY DEF NonceInv, AnswerInv
    <3>2. Cardinality(Replies(Answers(net), k)) \in Nat
      BY <3>1, FS_CardinalityType
    <3> QED
      BY <1>1, <3>1, <3>2
  <2> QED
    BY <2>1 DEF AnswerInv
<1> QED
  BY <1>2, <1>3 DEF Reboots

LEMMA NonceRead ==
  ASSUME NonceInv, NEW m \in net, m.type = "init", ReadsInit(m)
  PROVE  /\ HistoryInv(server', Inits(net'), used'.inits)
         /\ AnswerInv(server', Inits(net'), Answers(net'), used'.restarts)
<1> DEFINE i == Inits(net)
           a == Answers(net)
           r == used.restarts
<1>1. /\ i \in SUBSET InitRecords /\ server \in ServerRecords /\ r \in Nat
      /\ m \in i /\ m.nonce \in 1 .. used.inits
  <2>1. TypeOK /\ NoncesDrawn
    BY DEF NonceInv, AgreementInv
  <2>2. i \in SUBSET InitRecords /\ m \in i
    BY <2>1, ReceivedType DEF TypeOK, Inits
  <2>3. server \in ServerRecords /\ r \in Nat
    BY <2>1 DEF TypeOK, UsedRecords
  <2>4. m.nonce \in 1 .. used.inits
    BY <2>1 DEF NoncesDrawn
  <2> QED
    BY <2>2, <2>3, <2>4
<1>2. /\ OneStamp(i) /\ HistoryInv(server, i, used.inits) /\ AnswerInv(server, i, a, r)
  BY DEF NonceInv
<1>3. Inits(net') = i /\ used'.inits = used.inits /\ used'.restarts = r
  BY DEF ReadsInit
<1>4. CASE Answers(net') = a /\ (Raised(server, server') \/ Purged(server, server'))
  <2>1. /\ HistoryInv(server', i, used.inits)
        /\ \A k : Spent(server, i, k) => Spent(server', i, k)
    BY <1>1, <1>2, <1>4, RaisedHistory, PurgedHistory
  <2>2. AnswerInv(server', i, a, r)
    BY <1>2, <2>1, AnswersKept
  <2> QED
    BY <1>3, <1>4, <2>1, <2>2
<1>5. ASSUME NEW t \in ServerRecords, Purged(server, t), Noted(t, server', m),
             m.nonce \notin t.seen, Cardinality(t.seen) < NonceCapacity,
             t.high <= m.stamp + HalfWindow,
             \/ Answers(net') = a
             \/ Answers(net') = a \cup {ResponseMsg(Key(m.nonce, used.responses + 1))}
      PROVE  HistoryInv(server', i, used.inits) /\ AnswerInv(server', i, Answers(net'), r)
  <2> DEFINE x == ResponseMsg(Key(m.nonce, used.responses + 1))
  <2>1. HistoryInv(t, i, used.inits) /\ \A k : Spent(server, i, k) => Spent(t, i, k)
    BY <1>1, <1>2, <1>5, PurgedHistory
  <2>2. /\ HistoryInv(server', i, used.inits)
        /\ \A k : Spent(t, i, k) => Spent(server', i, k)
        /\ Spent(server', i, m.nonce)
    BY <1>1, <1>2, <1>5, <2>1, NotedHistory
  <2>3. \A k : Spent(server, i, k) => Spent(server', i, k)
    BY <2>1, <2>2
  <2>4. ~ Spent(server, i, m.nonce)
    <3>1. ~ (m.stamp + HalfWindow < t.high)
      BY <1>1, <1>5, BoundFacts DEF ServerRecords, InitRecords
    <3>2. ~ Spent(t, i, m.nonce)
      BY <1>1, <1>5, <3>1 DEF Spent
    <3> QED
      BY <2>1, <3>2
  <2>5. AnswerInv(server', i, a, r)
    BY <1>2, <2>3, AnswersKept
  <2>6. x.key[1] = m.nonce
    BY DEF ResponseMsg, Key
  <2> HIDE DEF i, a, r, x
  <2>7. AnswerInv(server', i, a \cup {x}, r)
    BY <1>1, <1>2, <2>2, <2>3, <2>4, <2>6, AnswerAdded
  <2> QED
    BY <1>5, <2>2, <2>5, <2>7 DEF x
<1> QED
  BY <1>3, <1>4, <1>5 DEF ReadsInit

LEMMA NonceInvInit ==
  ASSUME Init, AgreementInv
  PROVE  NonceInv
<1>1. net = {} /\ client.client_init = NoInit /\ used.restarts = 0
  BY DEF Init, FreshClient
<1>2. server.seen = {} /\ server.expiry = {}
  BY DEF Init, FreshServer
<1>3. IsFiniteSet({}) /\ Cardinality({}) = 0
  BY FS_EmptySet
<1>4. HistoryInv(server, Inits(net), used.inits)
  BY <1>1, <1>2, <1>3, LimitAssumption DEF HistoryInv, Inits
<1>5. \A k : Replies(Answers(net), k) = {}
  BY <1>1 DEF Replies, Answers
<1>6. AnswerInv(server, Inits(net), Answers(net), used.restarts)
  BY <1>1, <1>3, <1>5 DEF AnswerInv
<1> QED
  BY <1>1, <1>4, <1>6 DEF NonceInv, InitSent, OneStamp, Inits

LEMMA NonceInvStep ==
  ASSUME ~ Timely, NonceInv, AgreementInv', [Next]_vars
  PROVE  NonceInv'
<1>1. AgreementInv'
  OBVIOUS
<1>2. /\ Inits(net)  \subseteq Inits(net')
      /\ \/ client'.client_init \in {client.client_init, NoInit}
         \/ client'.client_init \in Inits(net')
  BY NonceStep DEF NonceInv, QuietNonces, DrawsNonce, Reboots, ReadsInit
<1>3. InitSent'
  <2>1. client.client_init # NoInit => client.client_init \in Inits(net)
    BY DEF NonceInv, AgreementInv, TypeOK, ClientRecords, InitRecords, InitSent, Inits
  <2>2. client'.client_init # NoInit => client'.client_init \in Inits(net')
    BY <1>2, <2>1
  <2> QED
    BY <2>2 DEF InitSent, Inits
<1>4. CASE QuietNonces
  <2>1. OneStamp(Inits(net'))
    BY <1>4 DEF NonceInv, QuietNonces
  <2>2. HistoryInv(server', Inits(net'), used'.inits)
    BY <1>4 DEF NonceInv, QuietNonces, SameIndexes, HistoryInv
  <2>3. AnswerInv(server', Inits(net'), Answers(net'), used'.restarts)
    <3>1. \A k : Spent(server, Inits(net), k) => Spent(server', Inits(net), k)
      BY <1>4 DEF QuietNonces, SameIndexes, Spent
    <3>2. AnswerInv(server', Inits(net), Answers(net), used.restarts)
      BY <3>1, AnswersKept DEF NonceInv
    <3> QED
      BY <1>4, <3>2 DEF QuietNonces
  <2> QED
    BY <1>1, <1>3, <2>1, <2>2, <2>3 DEF NonceInv, OneStamp, HistoryInv, AnswerInv, Spent, Replies, Inits, Answers
<1>5. CASE DrawsNonce
  BY <1>1, <1>3, <1>5, NonceDrawn DEF NonceInv
<1>6. CASE Reboots
  BY <1>1, <1>3, <1>6, NonceReboot DEF NonceInv, Reboots
<1>7. CASE \E m \in net : m.type = "init" /\ ReadsInit(m)
  BY <1>1, <1>3, <1>7, NonceRead DEF NonceInv, ReadsInit
<1> QED
  BY <1>4, <1>5, <1>6, <1>7, NonceStep DEF NonceInv

(* What the invariant says of the history.                                 *)
LEMMA NonceInvSound == NonceInv => NonceHistorySound
<1>1. ASSUME NonceInv PROVE OneResponsePerNonce
  <2>1. SUFFICES ASSUME NEW n \in 1 .. MaxInits
                 PROVE  Cardinality({m \in net : m.type = "response" /\ m.key[1] = n}) <= 1 + used.restarts
    BY DEF OneResponsePerNonce
  <2>2. {m \in net : m.type = "response" /\ m.key[1] = n} = Replies(Answers(net), n)
    BY DEF Replies, Answers
  <2>3. n \in Nat /\ used.restarts \in Nat
    BY <1>1, BoundFacts DEF NonceInv, AgreementInv, TypeOK, UsedRecords
  <2>4. /\ IsFiniteSet(Replies(Answers(net), n))
        /\ Cardinality(Replies(Answers(net), n)) <= used.restarts + 1
    BY <1>1, <2>3 DEF NonceInv, AnswerInv
  <2> DEFINE c == Cardinality(Replies(Answers(net), n))
  <2>5. c \in Nat /\ c <= used.restarts + 1
    BY <2>4, FS_CardinalityType
  <2> HIDE DEF c
  <2>6. c <= 1 + used.restarts
    BY <2>3, <2>5
  <2> QED
    BY Zenon, <2>2, <2>6 DEF c
<1>2. ASSUME NonceInv PROVE NonceIndexesAgree
  <2> DEFINE f == [a \in server.expiry |-> a[2]]
  <2>1. IsFiniteSet(server.expiry) /\ HistoryInv(server, Inits(net), used.inits)
    BY <1>2 DEF NonceInv, HistoryInv
  <2>2. f \in Bijection(server.expiry, server.seen)
    <3>1. f \in [server.expiry -> server.seen]
      BY <2>1 DEF HistoryInv
    <3>2. \A a, b \in server.expiry : f[a] = f[b] => a = b
      BY <2>1 DEF HistoryInv
    <3>3. \A k \in server.seen : \E a \in server.expiry : f[a] = k
      BY <2>1 DEF HistoryInv
    <3> HIDE DEF f
    <3> QED
      BY <3>1, <3>2, <3>3 DEF Bijection, Injection, Surjection, IsInjective
  <2>3. ExistsBijection(server.expiry, server.seen)
    BY <2>2 DEF ExistsBijection
  <2>4. Cardinality(server.seen) = Cardinality(server.expiry)
    BY <2>1, <2>3, FS_Bijection
  <2> QED
    BY <2>1, <2>4 DEF HistoryInv, NonceIndexesAgree
<1> QED
  BY <1>1, <1>2 DEF NonceHistorySound

=============================================================================
