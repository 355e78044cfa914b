------------------------------- MODULE Session -------------------------------
(***************************************************************************)
(* SessionProtocol of session.hpp: one client and one server that agree on *)
(* session keys (INIT, RESPONSE, CONFIRM, CONFIRM_ACK), replace them while *)
(* traffic continues, and lose them to timeouts, restarts and failures,    *)
(* over a network that loses, duplicates, delays and reorders datagrams.   *)
(*                                                                         *)
(* A key is the pair <<client nonce, server nonce>>: the transcript both   *)
(* sides derive from.  Deadlines are kept as the time left until them, so  *)
(* a step of the clock (TimePasses) lowers them all and a comparison       *)
(* "now >= deadline" of the code reads "left = 0".  The wall clock is read *)
(* nondeterministically: it may jump either way between two reads.         *)
(*                                                                         *)
(* Definitions named Faulty... restate the definition that follows them    *)
(* the way a plausible bug would; they only serve to show that a property  *)
(* can fail, and no specification uses them.                               *)
(***************************************************************************)
EXTENDS ReplayWindow

CONSTANTS
  ResendInterval, RetryInterval, OldLifetime, PendingLifetime, IdleRestart,
  RekeyInterval,   \* the six intervals of session.hpp, in clock steps
  Pfs,             \* pfs_: ephemeral DH and timed rekeying
  KeyLimit,        \* last packet counter a key may encrypt under
  HalfWindow,      \* init_window_ / 2
  NonceCapacity,   \* nonce_capacity
  Walls,           \* readings of the wall clock, in seconds
  Kinds,           \* kinds of packet sent: TRUE for those restricted to the
                   \* active session (INFO, CONTROL, AUTH_*, ...), else FALSE
  Timely,          \* the network delivers a datagram once or loses it, and
                   \* does so before the clock moves (liveness only)
  MaxInits, MaxResponses,            \* bounds on the nonces drawn
  MaxPackets,                        \* bound on the packets sent
  MaxFaults, MaxRestarts, MaxLosses  \* bounds on what goes wrong

ASSUME IntervalAssumption ==
  /\ {ResendInterval, RetryInterval, OldLifetime, PendingLifetime,
      IdleRestart, RekeyInterval} \subseteq Nat \ {0}
  /\ ResendInterval <= RetryInterval
  /\ RetryInterval <= OldLifetime
  /\ OldLifetime < PendingLifetime
  /\ PendingLifetime < IdleRestart
  /\ IdleRestart <= RekeyInterval

ASSUME LimitAssumption ==
  /\ Pfs \in BOOLEAN
  /\ Timely \in BOOLEAN
  /\ {KeyLimit, HalfWindow, NonceCapacity} \subseteq Nat \ {0}
  /\ Walls \subseteq Nat
  /\ Kinds \subseteq BOOLEAN
  /\ {MaxInits, MaxResponses, MaxPackets, MaxFaults, MaxRestarts,
      MaxLosses} \subseteq Nat

VARIABLES
  client,      \* the client's SessionProtocol
  server,      \* the server's SessionProtocol
  net,         \* datagrams sent (and, when Timely, not yet taken)
  deliveries,  \* history: how often each packet was handed to the tunnel
  used         \* how much of each bound has been used up

vars == <<client, server, net, deliveries, used>>

-----------------------------------------------------------------------------
(* Data.                                                                   *)

(* attempts the liveness property grants for the interruptions left *)
AttemptsNeeded == 1 + MaxLosses + MaxFaults + 2 * MaxRestarts

Ends == {"client", "server"}
Key(nonce, reply) == <<nonce, reply>>
NoKey == Key(0, 0)
Keys == Nat \X Nat
PacketIds == ((1 .. MaxInits) \X (1 .. MaxResponses)) \X Ends \X (1 .. KeyLimit)

(* struct Session.  Only the client reads the age of a session (to rekey), *)
(* so the server's have rekeyLeft 0.                                       *)
NoSession == [key |-> NoKey, next |-> 1, replay |-> {}, rekeyLeft |-> 0]
Derive(key, rekeyLeft) ==
  [key |-> key, next |-> 1, replay |-> {}, rekeyLeft |-> rekeyLeft]

NoInit == [type |-> "init", nonce |-> 0, stamp |-> 0]
InitMsg(nonce, stamp) == [type |-> "init", nonce |-> nonce, stamp |-> stamp]
ResponseMsg(key) == [type |-> "response", key |-> key]
ConfirmMsg(key) == [type |-> "confirm", key |-> key]
ConfirmAckMsg(key) == [type |-> "confirm_ack", key |-> key]
PacketMsg(key, from, counter, meta) ==
  [type |-> "packet", key |-> key, from |-> from, counter |-> counter, meta |-> meta]

FreshClient ==
  [active |-> NoSession, previous |-> NoSession, previousLeft |-> 0,
   waiting_ack |-> FALSE, client_init |-> NoInit, flight |-> "none",
   flightLeft |-> 0, retryLeft |-> 0, idleLeft |-> 0, randomLeft |-> 0,
   begin_retry |-> FALSE, generation |-> 0]

(* peer: the key whose packet last set the tunnel's UDP peer (update_peer).*)
(* replies: history, RESPONSEs emitted for the pending exchange.           *)
FreshServer ==
  [active |-> NoSession, previous |-> NoSession, previousLeft |-> 0,
   pending |-> NoSession, pendingLeft |-> 0, resendLeft |-> 0, randomLeft |-> 0,
   seen |-> {}, expiry |-> {}, high |-> 0, generation |-> 0,
   peer |-> NoKey, replies |-> 0]

Ready(e) == e.active # NoSession /\ e.active.next <= KeyLimit

(* The datagrams in taken leave a timely network; those in out enter it.   *)
Transit(taken, out) == net' = (IF Timely THEN net \ taken ELSE net) \cup out

Spend(kind, max) == used[kind] < max /\ used' = [used EXCEPT ![kind] = @ + 1]

FaultyExpirePrevious(e) == e
ExpirePrevious(e) ==
  IF e.previousLeft = 0 THEN [e EXCEPT !.previous = NoSession] ELSE e

FaultyExpirePending(e) == e
ExpirePending(e) ==
  IF e.pendingLeft = 0 THEN [e EXCEPT !.pending = NoSession] ELSE e

-----------------------------------------------------------------------------
(* The client.  Operators with a parameter c continue a handler that has   *)
(* brought the client to state c.                                          *)

FlightMsg(c) == IF c.flight = "init" THEN c.client_init ELSE ConfirmMsg(c.active.key)

(* begin(): everything that can fail (the random source, an allocation)    *)
(* comes before the new transcript replaces the old one.                   *)
Begin(c) ==
  \/ /\ c.randomLeft > 0
     /\ client' = [c EXCEPT !.begin_retry = TRUE]
     /\ Transit({}, {})
     /\ UNCHANGED used
  \/ /\ c.randomLeft = 0
     /\ \E delay \in {0, RetryInterval} :      \* bad_alloc, or no randomness
          client' = [c EXCEPT !.begin_retry = TRUE, !.randomLeft = delay]
     /\ Transit({}, {})
     /\ Spend("faults", MaxFaults)
  \/ /\ c.randomLeft = 0
     /\ Spend("inits", MaxInits)
     /\ \E wall \in Walls :
          LET init == InitMsg(used.inits + 1, wall)
          IN  /\ client' = [c EXCEPT !.previous = NoSession, !.waiting_ack = FALSE,
                                     !.client_init = init, !.flight = "init",
                                     !.flightLeft = PendingLifetime,
                                     !.retryLeft = RetryInterval,
                                     !.begin_retry = FALSE]
              /\ Transit({}, {init})

FaultyAbandonGeneration(c) ==
  [c EXCEPT !.active = IF c.waiting_ack THEN c.previous ELSE @,
            !.previous = IF c.waiting_ack THEN NoSession ELSE @,
            !.waiting_ack = FALSE, !.flight = "none", !.client_init = NoInit]

(* The flight deadline: an unconfirmed candidate gives way to whatever is  *)
(* left of the session before it.                                          *)
Abandon(c) ==
  [c EXCEPT !.active = IF c.waiting_ack THEN c.previous ELSE @,
            !.previous = IF c.waiting_ack THEN NoSession ELSE @,
            !.generation = IF c.waiting_ack THEN @ + 1 ELSE @,
            !.waiting_ack = FALSE, !.flight = "none", !.client_init = NoInit]

BeginDue(c) ==
  \/ c.begin_retry
  \/ ~ Ready(c)
  \/ c.idleLeft = 0
  \/ Pfs /\ c.active.rekeyLeft = 0

ClientTick ==
  LET c == ExpirePrevious(client)
  IN  /\ \/ /\ c.flight # "none"
            /\ c.flightLeft = 0
            /\ Begin(Abandon(c))
         \/ /\ c.flight # "none"
            /\ c.flightLeft > 0
            /\ c.retryLeft = 0
            /\ client' = [c EXCEPT !.retryLeft = RetryInterval]
            /\ Transit({}, {FlightMsg(c)})
            /\ UNCHANGED used
         \/ /\ c.flight = "none"
            /\ BeginDue(c)
            /\ Begin(c)
         \/ /\ IF c.flight # "none" THEN c.flightLeft > 0 /\ c.retryLeft > 0
                                    ELSE ~ BeginDue(c)
            /\ client' = c
            /\ Transit({}, {})
            /\ UNCHANGED used
      /\ UNCHANGED <<server, deliveries>>

(* restart(): the tunnel moves to a relocated endpoint.                    *)
Restart ==
  /\ client.active # NoSession
  /\ Begin([client EXCEPT !.active = NoSession, !.previous = NoSession,
                          !.waiting_ack = FALSE, !.flight = "none",
                          !.client_init = NoInit, !.generation = @ + 1])
  /\ UNCHANGED <<server, deliveries>>

(* RESPONSE and CONFIRM_ACK are dropped once the flight deadline has       *)
(* passed, even before the tick that acts on it.                           *)
Late(c) == c.flight # "none" /\ c.flightLeft = 0

Adopt(c, key) ==
  [c EXCEPT !.previous = c.active, !.previousLeft = OldLifetime,
            !.active = Derive(key, RekeyInterval), !.generation = @ + 1,
            !.waiting_ack = TRUE, !.flight = "confirm",
            !.flightLeft = PendingLifetime, !.retryLeft = RetryInterval]

ReceiveResponse(m) ==
  LET c == ExpirePrevious(client)
      matches == /\ ~ Late(c)
                 /\ c.client_init # NoInit
                 /\ m.key[1] = c.client_init.nonce
  IN  /\ \/ /\ ~ matches \/ (c.waiting_ack /\ m.key # c.active.key)
            /\ client' = c
            /\ Transit({m}, {})
            /\ UNCHANGED used
         \/ /\ matches
            /\ c.waiting_ack
            /\ m.key = c.active.key
            /\ client' = c
            /\ Transit({m}, {FlightMsg(c)})
            /\ UNCHANGED used
         \/ /\ matches                         \* x25519::shared refused
            /\ ~ c.waiting_ack
            /\ Pfs
            /\ client' = c
            /\ Transit({m}, {})
            /\ Spend("faults", MaxFaults)
         \/ /\ matches
            /\ ~ c.waiting_ack
            /\ client' = Adopt(c, m.key)
            /\ Transit({m}, {ConfirmMsg(m.key)})
            /\ UNCHANGED used
      /\ UNCHANGED <<server, deliveries>>

FaultyReceiveConfirmAck(m) ==
  LET c == ExpirePrevious(client)
      matches == ~ Late(c) /\ m.key \in {c.active.key, c.previous.key} /\ c.waiting_ack
  IN  /\ client' = IF matches
                     THEN [c EXCEPT !.waiting_ack = FALSE, !.flight = "none",
                                    !.client_init = NoInit, !.idleLeft = IdleRestart]
                     ELSE c
      /\ Transit({m}, {})
      /\ UNCHANGED <<server, deliveries, used>>

ReceiveConfirmAck(m) ==
  LET c == ExpirePrevious(client)
      matches == ~ Late(c) /\ m.key = c.active.key /\ c.waiting_ack
  IN  /\ client' = IF matches
                     THEN [c EXCEPT !.waiting_ack = FALSE, !.flight = "none",
                                    !.client_init = NoInit, !.idleLeft = IdleRestart]
                     ELSE c
      /\ Transit({m}, {})
      /\ UNCHANGED <<server, deliveries, used>>

-----------------------------------------------------------------------------
(* The server.                                                             *)

FaultyLarger(a, b) == b
Larger(a, b) == IF a > b THEN a ELSE b
Distance(a, b) == IF a > b THEN a - b ELSE b - a

(* expired entries leave both nonce indexes *)
Purge(s) ==
  LET gone == {entry \in s.expiry : entry[1] < s.high}
  IN  [s EXCEPT !.seen = @ \ {entry[2] : entry \in gone}, !.expiry = @ \ gone]

Remember(s, m) ==
  [s EXCEPT !.seen = @ \cup {m.nonce},
            !.expiry = @ \cup {<<m.stamp + HalfWindow, m.nonce>>}]

(* A seen nonce: only the INIT of the pending exchange gets its RESPONSE   *)
(* again, and not more often than every ResendInterval.                    *)
ResendDue(s, m) == s.pending.key[1] = m.nonce /\ s.resendLeft = 0

AnswerSeen(s, m) ==
  /\ IF ResendDue(s, m)
       THEN /\ server' = [s EXCEPT !.resendLeft = ResendInterval, !.replies = @ + 1]
            /\ Transit({m}, {ResponseMsg(s.pending.key)})
       ELSE /\ server' = s
            /\ Transit({m}, {})
  /\ UNCHANGED used

FaultyOfferPrevious(s, m, key) ==
  [Remember(s, m) EXCEPT !.pending = Derive(key, 0),
                         !.pendingLeft = PendingLifetime,
                         !.resendLeft = 0, !.replies = 1]

Offer(s, m, key) ==
  [Remember(s, m) EXCEPT !.previous = NoSession,
                         !.pending = Derive(key, 0),
                         !.pendingLeft = PendingLifetime,
                         !.resendLeft = 0, !.replies = 1]

FaultyBusy(s) == FALSE
Busy(s) == s.pending # NoSession

(* An unseen nonce.  A failure before the RESPONSE exists leaves the nonce *)
(* unrecorded, so that the same INIT can try again.                        *)
AnswerFresh(s, m) ==
  \/ /\ \/ Cardinality(s.seen) >= NonceCapacity
        \/ ~ Busy(s) /\ s.randomLeft > 0
     /\ server' = s
     /\ Transit({m}, {})
     /\ UNCHANGED used
  \/ /\ Cardinality(s.seen) < NonceCapacity
     /\ Busy(s)                                \* never evicted by another INIT
     /\ server' = Remember(s, m)
     /\ Transit({m}, {})
     /\ UNCHANGED used
  \/ /\ Cardinality(s.seen) < NonceCapacity
     /\ ~ Busy(s)
     /\ s.randomLeft = 0
     /\ \/ \E delay \in {0, RetryInterval} :    \* bad_alloc, or no randomness
             server' = [s EXCEPT !.randomLeft = delay]
        \/ Pfs /\ server' = Remember(s, m)     \* x25519::shared refused
     /\ Transit({m}, {})
     /\ Spend("faults", MaxFaults)
  \/ /\ Cardinality(s.seen) < NonceCapacity
     /\ ~ Busy(s)
     /\ s.randomLeft = 0
     /\ Spend("responses", MaxResponses)
     /\ LET key == Key(m.nonce, used.responses + 1)
        IN  /\ server' = Offer(s, m, key)
            /\ Transit({m}, {ResponseMsg(key)})

ReceiveInit(m) ==
  /\ \E wall \in Walls :
       LET e == ExpirePending(ExpirePrevious(server))
           s == [e EXCEPT !.high = Larger(e.high, wall)]
       IN  \/ /\ Distance(m.stamp, s.high) > HalfWindow
              /\ server' = s
              /\ Transit({m}, {})
              /\ UNCHANGED used
           \/ /\ Distance(m.stamp, s.high) <= HalfWindow
              /\ m.nonce \in Purge(s).seen
              /\ AnswerSeen(Purge(s), m)
           \/ /\ Distance(m.stamp, s.high) <= HalfWindow
              /\ m.nonce \notin Purge(s).seen
              /\ AnswerFresh(Purge(s), m)
  /\ UNCHANGED <<client, deliveries>>

Activate(s) ==
  [s EXCEPT !.previous = s.active, !.previousLeft = OldLifetime,
            !.active = s.pending, !.pending = NoSession,
            !.generation = @ + 1, !.peer = s.pending.key]

ReceiveConfirm(m) ==
  LET s == ExpirePending(ExpirePrevious(server))
  IN  /\ server' = IF m.key = s.pending.key THEN Activate(s) ELSE s
      /\ Transit({m}, IF m.key \in {s.pending.key, s.active.key}
                        THEN {ConfirmAckMsg(m.key)} ELSE {})
      /\ UNCHANGED <<client, deliveries, used>>

ServerTick ==
  /\ server' = ExpirePending(ExpirePrevious(server))
  /\ UNCHANGED <<client, net, deliveries, used>>

-----------------------------------------------------------------------------
(* Ordinary packets, in both directions.                                   *)

(* encode_into(): the counter is part of the AEAD nonce.                   *)
Encoded(e, from, meta) == PacketMsg(e.active.key, from, e.active.next, meta)

FaultyCounted(e) == e
Counted(e) == [e EXCEPT !.active.next = @ + 1]

ClientSend(meta) ==
  /\ Ready(client)
  /\ Spend("packets", MaxPackets)
  /\ Transit({}, {Encoded(client, "client", meta)})
  /\ client' = Counted(client)
  /\ UNCHANGED <<server, deliveries>>

ServerSend(meta) ==
  /\ Ready(server)
  /\ Spend("packets", MaxPackets)
  /\ Transit({}, {Encoded(server, "server", meta)})
  /\ server' = Counted(server)
  /\ UNCHANGED <<client, deliveries>>

(* The slot whose session decodes the packet, if its type may use it.      *)
OpensActive(e, m) == e.active # NoSession /\ m.key = e.active.key
FaultyOpensPrevious(e, m) == e.previous # NoSession /\ m.key = e.previous.key
OpensPrevious(e, m) == e.previous # NoSession /\ m.key = e.previous.key /\ ~ m.meta

(* The session that opened the packet notes its counter.  One for the      *)
(* active session also restarts the client's idle timer and confirms the   *)
(* server's idea of where the client is.                                   *)
NotePrevious(e, m) == [e EXCEPT !.previous.replay = Retain(@, m.counter)]
NoteActive(e, m) == [e EXCEPT !.active.replay = Retain(@, m.counter)]

Deliver(m) == deliveries' = [deliveries EXCEPT ![<<m.key, m.from, m.counter>>] = @ + 1]

ClientReceivePacket(m) ==
  LET c == ExpirePrevious(client)
  IN  /\ m.from = "server"
      /\ \/ /\ OpensActive(c, m)
            /\ Accepts(c.active.replay, m.counter)
            /\ client' = [NoteActive(c, m) EXCEPT !.idleLeft = IdleRestart]
            /\ Deliver(m)
         \/ /\ OpensPrevious(c, m)
            /\ Accepts(c.previous.replay, m.counter)
            /\ client' = NotePrevious(c, m)
            /\ Deliver(m)
         \/ /\ ~ (OpensActive(c, m) /\ Accepts(c.active.replay, m.counter))
            /\ ~ (OpensPrevious(c, m) /\ Accepts(c.previous.replay, m.counter))
            /\ client' = c
            /\ UNCHANGED deliveries
      /\ Transit({m}, {})
      /\ UNCHANGED <<server, used>>

(* A packet of the pending session falls into the last case: it is dropped *)
(* without touching the replay window.                                     *)
ServerReceivePacket(m) ==
  LET s == ExpirePending(ExpirePrevious(server))
  IN  /\ m.from = "client"
      /\ \/ /\ OpensActive(s, m)
            /\ Accepts(s.active.replay, m.counter)
            /\ server' = [NoteActive(s, m) EXCEPT !.peer = s.active.key]
            /\ Deliver(m)
         \/ /\ OpensPrevious(s, m)
            /\ Accepts(s.previous.replay, m.counter)
            /\ server' = NotePrevious(s, m)
            /\ Deliver(m)
         \/ /\ ~ (OpensActive(s, m) /\ Accepts(s.active.replay, m.counter))
            /\ ~ (OpensPrevious(s, m) /\ Accepts(s.previous.replay, m.counter))
            /\ server' = s
            /\ UNCHANGED deliveries
      /\ Transit({m}, {})
      /\ UNCHANGED <<client, used>>

-----------------------------------------------------------------------------
(* The environment.                                                        *)

Lower(left) == IF left = 0 THEN 0 ELSE left - 1

TimePasses ==
  /\ Timely => net = {}
  /\ client' = [client EXCEPT !.previousLeft = Lower(@), !.flightLeft = Lower(@),
                              !.retryLeft = Lower(@), !.idleLeft = Lower(@),
                              !.randomLeft = Lower(@),
                              !.active.rekeyLeft = Lower(@),
                              !.previous.rekeyLeft = Lower(@)]
  /\ server' = [server EXCEPT !.previousLeft = Lower(@), !.pendingLeft = Lower(@),
                              !.resendLeft = Lower(@), !.randomLeft = Lower(@)]
  /\ UNCHANGED <<net, deliveries, used>>

(* A process dies and is started again: nothing is persisted.              *)
ClientReboot ==
  /\ Spend("restarts", MaxRestarts)
  /\ client' = FreshClient
  /\ UNCHANGED <<server, net, deliveries>>

ServerReboot ==
  /\ Spend("restarts", MaxRestarts)
  /\ server' = FreshServer
  /\ UNCHANGED <<client, net, deliveries>>

Lose(m) ==
  /\ Timely
  /\ Spend("losses", MaxLosses)
  /\ net' = net \ {m}
  /\ UNCHANGED <<client, server, deliveries>>

Receive(m) ==
  \/ m.type = "init" /\ ReceiveInit(m)
  \/ m.type = "response" /\ ReceiveResponse(m)
  \/ m.type = "confirm" /\ ReceiveConfirm(m)
  \/ m.type = "confirm_ack" /\ ReceiveConfirmAck(m)
  \/ m.type = "packet" /\ ClientReceivePacket(m)
  \/ m.type = "packet" /\ ServerReceivePacket(m)

Init ==
  /\ client = FreshClient
  /\ server = FreshServer
  /\ net = {}
  /\ deliveries = [id \in PacketIds |-> 0]
  /\ used = [inits |-> 0, responses |-> 0, packets |-> 0, faults |-> 0,
             restarts |-> 0, losses |-> 0]

Next ==
  \/ ClientTick
  \/ Restart
  \/ ServerTick
  \/ \E meta \in Kinds : ClientSend(meta) \/ ServerSend(meta)
  \/ \E m \in net : Receive(m) \/ Lose(m)
  \/ TimePasses
  \/ ClientReboot
  \/ ServerReboot

Spec == Init /\ [][Next]_vars

(* The event loop ticks the client and reads the socket again and again,   *)
(* and the clock does not stand still.  Relocation is left out: the server *)
(* asks for it once, and it starts over by design.                         *)
SteadyNext ==
  \/ ClientTick
  \/ ServerTick
  \/ \E m \in net : Receive(m) \/ Lose(m)
  \/ TimePasses
  \/ ClientReboot
  \/ ServerReboot

FairSpec ==
  /\ Init
  /\ [][SteadyNext]_vars
  /\ WF_vars(ClientTick)
  /\ WF_vars(\E m \in net : Receive(m))
  /\ WF_vars(TimePasses)

-----------------------------------------------------------------------------
(* Properties.                                                             *)

SessionRecords ==
  [key : Keys, next : Nat, replay : SUBSET Nat, rekeyLeft : 0 .. RekeyInterval]

InitRecords == [type : {"init"}, nonce : Nat, stamp : Nat]
KeyRecords == [type : {"response", "confirm", "confirm_ack"}, key : Keys]
PacketRecords ==
  [type : {"packet"}, key : Keys, from : Ends, counter : Nat, meta : BOOLEAN]

Messages == InitRecords \cup KeyRecords \cup PacketRecords

UsedRecords ==
  [inits : 0 .. MaxInits, responses : 0 .. MaxResponses,
   packets : 0 .. MaxPackets, faults : 0 .. MaxFaults,
   restarts : 0 .. MaxRestarts, losses : 0 .. MaxLosses]

ClientRecords ==
  [active : SessionRecords, previous : SessionRecords,
   previousLeft : 0 .. OldLifetime, waiting_ack : BOOLEAN,
   client_init : InitRecords, flight : {"none", "init", "confirm"},
   flightLeft : 0 .. PendingLifetime, retryLeft : 0 .. RetryInterval,
   idleLeft : 0 .. IdleRestart, randomLeft : 0 .. RetryInterval,
   begin_retry : BOOLEAN, generation : Nat]

ServerRecords ==
  [active : SessionRecords, previous : SessionRecords,
   previousLeft : 0 .. OldLifetime, pending : SessionRecords,
   pendingLeft : 0 .. PendingLifetime, resendLeft : 0 .. ResendInterval,
   randomLeft : 0 .. RetryInterval, seen : SUBSET Nat,
   expiry : SUBSET (Nat \X Nat), high : Nat, generation : Nat, peer : Keys,
   replies : Nat]

(* The shape of the two protocol objects and of what they send: no         *)
(* deadline is ever further away than the interval that armed it.          *)
TypeOK ==
  /\ client \in ClientRecords
  /\ server \in ServerRecords
  /\ net \subseteq Messages
  /\ deliveries \in [PacketIds -> Nat]
  /\ used \in UsedRecords

(* While the client holds a session it takes for confirmed, the server     *)
(* transmits under that same key, or has restarted and under none: neither *)
(* a delayed CONFIRM, nor the rollback at the flight deadline              *)
(* (session.hpp:197), nor a repeated message leaves the two on different   *)
(* keys.                                                                   *)
ConfirmedAgreement ==
  (client.active # NoSession /\ ~ client.waiting_ack) =>
     server.active.key \in {client.active.key, NoKey}

(* The server never holds a pending and a previous session together, so an *)
(* incoming datagram is tried against at most two keys: "At most two       *)
(* candidate session keys" (session.hpp:350).                              *)
AtMostTwoCandidates ==
  ~ (server.pending # NoSession /\ server.previous # NoSession)

(* One incarnation of the server answers a client nonce with at most one   *)
(* RESPONSE, however often the INIT is replayed and however the wall clock *)
(* jumps: a nonce leaves the history only when its timestamp can no longer *)
(* be accepted (session.hpp:259-273).                                      *)
OneResponsePerNonce ==
  \A n \in 1 .. MaxInits :
    Cardinality({m \in net : m.type = "response" /\ m.key[1] = n}) <= 1 + used.restarts

(* The two nonce indexes describe the same nonces, within the capacity,    *)
(* after every early return and every failure of session.hpp:270-357.      *)
NonceIndexesAgree ==
  /\ server.seen = {entry[2] : entry \in server.expiry}
  /\ Cardinality(server.expiry) = Cardinality(server.seen)
  /\ Cardinality(server.seen) <= NonceCapacity

(* Both: the nonce history does what it is for, and stays consistent.      *)
NonceHistorySound == OneResponsePerNonce /\ NonceIndexesAgree

(* The UDP peer the server transmits to was authenticated by the session   *)
(* it transmits under: neither INIT processing nor packets of the previous *)
(* session move it (session.hpp:417, 452-455).                             *)
PeerOfActive == server.peer = server.active.key

(* Every packet already sent under a key a side still transmits with has a *)
(* smaller counter than the next one, so no counter encrypts two packets:  *)
(* repeated RESPONSEs and CONFIRMs never reset it (session.hpp:222-223,    *)
(* 363-370, 411).                                                          *)
CountersNotReused ==
  \A m \in net : m.type = "packet" =>
    /\ m.from = "client" /\ m.key = client.active.key => m.counter < client.active.next
    /\ m.from = "server" /\ m.key = server.active.key => m.counter < server.active.next

(* No packet is handed to the tunnel twice, across rekeying, the overlap   *)
(* of old and new sessions, repeated confirmations and restarts            *)
(* (session.hpp:448).                                                      *)
DeliveredOnce == \A id \in PacketIds : deliveries[id] <= 1

(* The server hands up no packet of a session it has not activated         *)
(* (session.hpp:439).                                                      *)
NoDataBeforeConfirm ==
  \A id \in PacketIds :
    deliveries[id] > 0 /\ id[2] = "client" => ConfirmAckMsg(id[1]) \in net

(* Both of these: what is handed up is genuine and new.                    *)
DeliverySound == DeliveredOnce /\ NoDataBeforeConfirm

(* For one pending exchange the server emits at most two RESPONSEs at once *)
(* and one more per ResendInterval (session.hpp:287-289, 353).             *)
ResendBudget ==
  server.pending # NoSession =>
    server.replies <= 2 + (PendingLifetime - server.pendingLeft) \div ResendInterval

(* Both limits on what exchanges that are never finished can cost.         *)
ExchangeBounded == AtMostTwoCandidates /\ ResendBudget

Rebooted == used'.restarts # used.restarts

(* A pending exchange stays until its fixed deadline unless its own        *)
(* CONFIRM activates it: no other INIT evicts it and no retry extends it   *)
(* ("A different INIT cannot evict an exchange awaiting CONFIRM",          *)
(* session.hpp:321).                                                       *)
PendingKept ==
  [][server.pending # NoSession /\ server.pendingLeft > 0 /\ ~ Rebooted =>
       \/ server'.active = server.pending
       \/ /\ server'.pending = server.pending
          /\ server'.pendingLeft <= server.pendingLeft]_vars

(* Whenever a side changes the key it transmits under, rollback and        *)
(* relocation included, its transmit generation changes: the tunnel        *)
(* discards queued ciphertext by it (session.hpp:122-123).                 *)
GenerationMarksKey ==
  [][~ Rebooted =>
       /\ client'.active.key # client.active.key => client'.generation > client.generation
       /\ server'.active.key # server.active.key => server'.generation > server.generation]_vars

(* Metadata (INFO, CONTROL, AUTH, CONFIG ...) is handed up only while its  *)
(* session is the receiver's active one, never in the overlap after a      *)
(* rekey (session.hpp:440-447).                                            *)
MetaOnActive ==
  \A id \in PacketIds :
    deliveries'[id] # deliveries[id] /\ PacketMsg(id[1], id[2], id[3], TRUE) \in net =>
      id[1] = IF id[2] = "client" THEN server.active.key ELSE client.active.key

(* Both: what a rekey leaves of the old key carries data and nothing else. *)
OldKeyLimit == PeerOfActive' /\ MetaOnActive
OldKeysLimited == [][OldKeyLimit]_vars

(* The handshake implements KeyAgreement: over a network that forgets      *)
(* nothing, the messages sent tell which keys have reached which stage.    *)
KeysSent(type) == {m.key : m \in {msg \in net : msg.type = type}}

Agreement == INSTANCE KeyAgreement WITH
  offered <- KeysSent("response"),
  adopted <- KeysSent("confirm"),
  activated <- KeysSent("confirm_ack"),
  clientKey <- client.active.key,
  serverKey <- server.active.key,
  confirmed <- client.active # NoSession /\ ~ client.waiting_ack,
  Keys <- (1 .. MaxInits) \X (1 .. MaxResponses)

(* Every step of the two protocol objects is one of the stages of          *)
(* KeyAgreement or changes nothing there: each key is offered, adopted and *)
(* activated at most once and in that order, and the server never changes  *)
(* keys while the client holds a confirmed one.                            *)
ImplementsKeyAgreement == Agreement!Spec

-----------------------------------------------------------------------------
(* Why ConfirmedAgreement holds, over the network that forgets nothing.    *)

Empty(slot) == slot = NoSession <=> slot.key = NoKey

SlotsShaped ==
  /\ Empty(client.active) /\ Empty(client.previous)
  /\ Empty(server.active) /\ Empty(server.previous) /\ Empty(server.pending)

(* Nonces come from the two counters, and the client's current INIT has    *)
(* the newest of them.                                                     *)
NoncesDrawn ==
  /\ \A m \in net : m.type = "init" => m.nonce \in 1 .. used.inits
  /\ \A k \in KeysSent("response") : k[1] \in 1 .. used.inits /\ k[2] \in 1 .. used.responses
  /\ client.client_init.nonce \in {0, used.inits}
  /\ client.client_init.nonce = 0 <=> client.client_init = NoInit

(* A flight belongs to an INIT.  The client waits for an ACK exactly while *)
(* its flight is a CONFIRM, and the session before it expires no later     *)
(* than that flight: the rollback at the deadline finds nothing to roll    *)
(* back to.                                                                *)
ClientStages ==
  /\ client.flight # "none" => client.client_init # NoInit
  /\ client.waiting_ack <=> client.flight = "confirm"
  /\ client.waiting_ack => client.active.key # NoKey
  /\ client.waiting_ack => client.previousLeft <= client.flightLeft

(* The client adopts keys in the order of its nonces, its active one is    *)
(* the last adopted, and whatever answers a later nonce was offered later. *)
AdoptionOrder ==
  /\ KeysSent("confirm") \subseteq KeysSent("response")
  /\ client.active.key # NoKey =>
       /\ client.active.key \in KeysSent("confirm")
       /\ \A k \in KeysSent("confirm") : k = client.active.key \/ k[1] < client.active.key[1]
  /\ client.client_init # NoInit /\ ~ client.waiting_ack =>
       \A k \in KeysSent("confirm") : k[1] < client.client_init.nonce
  /\ \A k \in KeysSent("confirm"), q \in KeysSent("response") : q[1] > k[1] => q[2] > k[2]

(* A pending exchange is the newest offer.                                 *)
PendingNewest ==
  server.pending.key # NoKey =>
    /\ server.pending.key \in KeysSent("response")
    /\ server.pending.key[2] = used.responses

(* Acknowledged keys were adopted, the client trusts only acknowledged     *)
(* ones, and as long as it holds one the server has no other.              *)
AckedKeys ==
  /\ KeysSent("confirm_ack") \subseteq KeysSent("confirm")
  /\ server.active.key # NoKey => server.active.key \in KeysSent("confirm")
  /\ client.active.key # NoKey /\ ~ client.waiting_ack =>
       client.active.key \in KeysSent("confirm_ack")
  /\ client.active.key \in KeysSent("confirm_ack") =>
       server.active.key \in {client.active.key, NoKey}

(* The inductive strengthening of ConfirmedAgreement.                      *)
AgreementInv ==
  /\ TypeOK /\ SlotsShaped /\ NoncesDrawn /\ ClientStages
  /\ AdoptionOrder /\ PendingNewest /\ AckedKeys

-----------------------------------------------------------------------------
(* Liveness.                                                               *)

Agreed ==
  /\ client.active # NoSession
  /\ ~ client.waiting_ack
  /\ server.active.key = client.active.key

(* From any state the two sides get (back) to a confirmed common key,      *)
(* whatever was lost, failed or restarted within the bounds, as long as    *)
(* enough attempts are left to count: retries, flight deadlines, cached    *)
(* RESPONSEs and the idle restart together recover every interruption.     *)
AttemptsLeft == used.inits + AttemptsNeeded <= MaxInits
AgreementReturns == AttemptsLeft ~> Agreed

=============================================================================
