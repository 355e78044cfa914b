----------------------------- MODULE UdpTransmit -----------------------------
(***************************************************************************)
(* The transmit path of one tunnel process: UdpTxQueue                     *)
(* (udp_tx_queue.hpp), the FIFO of datagrams the socket did not take, and  *)
(* the handlers of Tunnel (tunnel.hpp) that fill, flush and discard it     *)
(* while the session changes its transmit key and the peer its address.    *)
(*                                                                         *)
(* A queued datagram is already encrypted, with a counter, a key and a     *)
(* size fixed when it was encoded.  It can wait; it can never be adapted.  *)
(*                                                                         *)
(* The session is seen through what this code reads of it: the key in use  *)
(* (0 = none), the key a rollback returns to, transmit_generation() and    *)
(* the next counter of every key.  Keys are numbered in the order they are *)
(* agreed on.  Session.tla has the protocol behind these steps.            *)
(***************************************************************************)
EXTENDS Naturals, Sequences, FiniteSets

CONSTANTS
    Capacity,      \* UdpTxQueue::capacity
    ByteLimit,     \* UdpTxQueue::byte_limit
    MaxAge,        \* UdpTxQueue::max_age, in ticks
    RetryDelay,    \* UdpTxQueue::retry_delay, in ticks
    KeyLimit,      \* last counter ready() allows under a key
    Sizes,         \* datagram sizes
    Slack,         \* per-datagram overhead send_data reserves over the payload
    Peers,         \* addresses of the peer
    FirstPeer,     \* the one a process starts with
    Relay,         \* whether the process relays for other channels (relay_)
    PmtudAuto,     \* options_.pmtud_auto
    MaxKeys,       \* bound: keys agreed on
    MaxGeneration, \* bound: changes of the transmit generation
    MaxMessages,   \* bound: logical packets accepted for sending
    MaxFragments   \* most fragments of a logical packet

VARIABLES
    key,            \* key of active_, 0 when there is none
    previous,       \* key of previous_, what tick() rolls back to
    agreed,         \* keys agreed on so far
    generation,     \* transmit_generation_
    next,           \* next_counter of every key
    tx_generation,  \* udp_tx_generation_ of the tunnel
    peer,           \* peer_ of the endpoint
    queue,          \* entries_ from head_, size_ of them
    bytes,          \* bytes_
    retry,          \* ticks until retry_at_, 0 when it is not in the future
    messages,       \* logical packets that were encoded
    out,            \* what the last step put on the wire
    last            \* history: highest counter of DATA sent under each key

session == <<key, previous, agreed, generation>>
buffer == <<queue, bytes, retry>>
vars == <<key, previous, agreed, generation, next, tx_generation, peer,
          queue, bytes, retry, messages, out, last>>

Keys == 1 .. MaxKeys

Datagram == [message: 1 .. MaxMessages, fragment: 1 .. MaxFragments,
             of: 1 .. MaxFragments, key: Keys, counter: 1 .. KeyLimit,
             peer: Peers, size: Sizes, left: 0 .. MaxAge]

\* The shape of the queue and of what it reads of the session: no counter
\* beyond the key's limit, no deadline further off than it was armed.
TypeOK ==
    /\ key \in 0 .. MaxKeys
    /\ previous \in 0 .. MaxKeys
    /\ agreed \in 0 .. MaxKeys
    /\ generation \in 0 .. MaxGeneration
    /\ next \in [Keys -> 1 .. KeyLimit + 1]
    /\ tx_generation \in 0 .. MaxGeneration
    /\ peer \in Peers
    /\ queue \in Seq(Datagram)
    /\ bytes \in Nat
    /\ retry \in 0 .. RetryDelay
    /\ messages \in 0 .. MaxMessages
    /\ out \in Seq(Datagram)
    /\ last \in [Keys -> 0 .. KeyLimit]

Ready == key # 0 /\ next[key] <= KeyLimit

Init ==
    /\ key = 0
    /\ previous = 0
    /\ agreed = 0
    /\ generation = 0
    /\ next = [k \in Keys |-> 1]
    /\ tx_generation = 0
    /\ peer = FirstPeer
    /\ queue = <<>>
    /\ bytes = 0
    /\ retry = 0
    /\ messages = 0
    /\ out = <<>>
    /\ last = [k \in Keys |-> 0]

-----------------------------------------------------------------------------
(***************************************************************************)
(* UdpTxQueue as functions on its state [q, bytes, retry].                 *)
(***************************************************************************)
Buffer == [q |-> queue, bytes |-> bytes, retry |-> retry]

Keep(b) ==
    /\ queue' = b.q
    /\ bytes' = b.bytes
    /\ retry' = b.retry

\* bytes of the first n entries
SizeOf(q) ==
    LET sum[i \in 0 .. Len(q)] == IF i = 0 THEN 0 ELSE sum[i - 1] + q[i].size
    IN  sum

\* n calls of pop(); the one that empties the queue clears retry_at_
Pop(b, n) ==
    [q     |-> SubSeq(b.q, n + 1, Len(b.q)),
     bytes |-> b.bytes - SizeOf(b.q)[n],
     retry |-> IF n > 0 /\ n = Len(b.q) THEN 0 ELSE b.retry]

\* the entries at the head that have reached max_age; the first younger one
\* stops the loop
ExpiredPrefix(q) ==
    Cardinality({n \in 1 .. Len(q) : \A i \in 1 .. n : q[i].left = 0})

Expire(b) == Pop(b, ExpiredPrefix(b.q))

Discard(b) == Pop(b, Len(b.q))

Fits(b, count, size) ==
    /\ count <= Capacity - Len(b.q)
    /\ size <= ByteLimit - b.bytes

Blocked(b) == [b EXCEPT !.retry = RetryDelay]

\* the entire unsent suffix or none of it
Append_(b, wire) ==
    LET e == Expire(b)
        size == SizeOf(wire)[Len(wire)]
    IN  IF Fits(e, Len(wire), size)
        THEN [e EXCEPT !.q = @ \o wire, !.bytes = @ + size]
        ELSE e

WritableInterest(b) == b.q # <<>> /\ b.retry = 0

-----------------------------------------------------------------------------
(***************************************************************************)
(* What flush() and send_batch() may meet: the socket takes a prefix of    *)
(* n datagrams and answers the next one with an error.                     *)
(***************************************************************************)
Errors == {"EAGAIN", "EINTR", "EMSGSIZE", "other"}

Answers(total) ==
    {[sent |-> total, error |-> "none"]} \cup
    [sent: 0 .. total - 1, error: Errors]

\* Variant: the last datagram taken before EAGAIN stays queued
FlushKeepsSent(b, answer) ==
    LET s == Pop(b, IF answer.sent > 0 THEN answer.sent - 1 ELSE 0)
    IN  CASE answer.error = "none" -> Pop(b, answer.sent)
          [] answer.error \in {"EAGAIN", "EINTR"} -> Blocked(s)
          [] OTHER -> Pop(s, 1)

\* flush() after its own expire(): EAGAIN and EINTR keep the datagram for
\* later, any other error loses it and ends the round
Flush(b, answer) ==
    LET s == Pop(b, answer.sent)
    IN  CASE answer.error = "none" -> s
          [] answer.error \in {"EAGAIN", "EINTR"} -> Blocked(s)
          [] OTHER -> Pop(s, 1)

\* The datagrams leave for the peer the endpoint has now.
Transmit(wire) ==
    /\ out' = wire
    /\ last' = [k \in Keys |->
                  LET under == {i \in DOMAIN wire : wire[i].key = k}
                  IN  IF under = {} THEN last[k]
                      ELSE wire[CHOOSE i \in under : \A j \in under : j <= i].counter]

Silent == out' = <<>> /\ UNCHANGED last

\* Variant: the generation is not compared
SyncKeepsOldKey(b, g, ready) == IF ~ ready THEN Discard(b) ELSE b

\* sync_udp_tx_session(): what it makes of the buffer for a generation and
\* an answer of ready()
Sync(b, g, ready) == IF g # tx_generation \/ ~ ready THEN Discard(b) ELSE b

Synced == Sync(Buffer, generation, Ready)

\* Packets sent at once (handshake extensions, probes, keepalives) consume
\* counters of the active key and never enter the queue.
Consume(nx, k, n) ==
    [i \in Keys |-> IF i = k /\ nx[i] + n <= KeyLimit + 1 THEN nx[i] + n ELSE nx[i]]

-----------------------------------------------------------------------------
(***************************************************************************)
(* Key changes, each with the rest of its handler.                         *)
(***************************************************************************)
NewGeneration == generation < MaxGeneration /\ generation' = generation + 1

\* A RESPONSE or CONFIRM activates a new key.  The handler syncs, then learns
\* the address the activation came from; session_activated() sends a probe.
Activate(p, probes) ==
    /\ agreed < MaxKeys
    /\ NewGeneration
    /\ key' = agreed + 1
    /\ previous' = key
    /\ agreed' = agreed + 1
    /\ tx_generation' = generation + 1
    /\ peer' = p
    /\ Keep(Sync(Buffer, generation + 1, TRUE))
    /\ next' = Consume(next, agreed + 1, probes)
    /\ Silent
    /\ UNCHANGED messages

\* tick() drops the previous session at its deadline, or begin() does.
ForgetPrevious ==
    /\ previous # 0
    /\ previous' = 0
    /\ tx_generation' = generation
    /\ Keep(Synced)
    /\ Silent
    /\ UNCHANGED <<key, agreed, generation, next, peer, messages>>

\* tick() withdraws a key whose ACK never came.  begin() runs after the
\* change: when it throws bad_alloc the handler never reaches its sync.
Rollback(bad_alloc) ==
    /\ key # 0
    /\ NewGeneration
    /\ key' = previous
    /\ previous' = 0
    /\ IF bad_alloc
       THEN UNCHANGED <<buffer, tx_generation>>
       ELSE /\ tx_generation' = generation + 1
            /\ Keep(Sync(Buffer, generation + 1, previous # 0))
    /\ Silent
    /\ UNCHANGED <<agreed, next, peer, messages>>

\* RELOCATE: a new address, the queue discarded, every key dropped.
RelocatePeer(p) ==
    /\ NewGeneration
    /\ key # 0
    /\ peer' = p
    /\ Keep(Discard(Synced))
    /\ key' = 0
    /\ previous' = 0
    /\ tx_generation' = generation
    /\ Silent
    /\ UNCHANGED <<agreed, next, messages>>

\* Authenticated traffic from another address moves the return path.
MovePeer(p, probes) ==
    /\ key # 0
    /\ p # peer
    /\ peer' = p
    /\ Keep(Discard(Synced))
    /\ next' = Consume(next, key, probes)
    /\ tx_generation' = generation
    /\ Silent
    /\ UNCHANGED <<session, messages>>

-----------------------------------------------------------------------------
(***************************************************************************)
(* The event loop.                                                         *)
(***************************************************************************)
\* Variant: the loop leaves expiry to the next flush
LoopHeadNoExpire ==
    /\ Keep(Synced)
    /\ tx_generation' = generation
    /\ Silent
    /\ UNCHANGED <<session, next, peer, messages>>

LoopHead ==
    /\ Keep(Expire(Synced))
    /\ tx_generation' = generation
    /\ Silent
    /\ UNCHANGED <<session, next, peer, messages>>

\* flush_udp_tx() on POLLOUT.  After EMSGSIZE nothing queued can be resized:
\* the queue is discarded and the path is probed again.
FlushUdpTx(probes) ==
    LET b == Expire(Synced)
    IN  /\ tx_generation' = generation
        /\ IF WritableInterest(b)
           THEN \E answer \in Answers(Len(b.q)) :
                  LET restart == answer.error = "EMSGSIZE" /\ PmtudAuto
                      f == Flush(b, answer)
                  IN  /\ Keep(IF restart THEN Discard(f) ELSE f)
                      /\ next' = IF restart THEN Consume(next, key, probes) ELSE next
                      /\ Transmit(SubSeq(b.q, 1, answer.sent))
           ELSE Keep(b) /\ Silent /\ UNCHANGED next
        /\ UNCHANGED <<session, peer, messages>>

\* A packet that is sent at once.
SendControl ==
    /\ Ready
    /\ next' = Consume(next, key, 1)
    /\ Silent
    /\ UNCHANGED <<session, tx_generation, peer, buffer, messages>>

Fragments(n, z) ==
    [i \in 1 .. n |->
        [message |-> messages + 1, fragment |-> i, of |-> n, key |-> key,
         counter |-> next[key] + i - 1, peer |-> peer, size |-> z, left |-> MaxAge]]

\* The end of send_data() with an empty queue: the socket takes a prefix, and
\* a suffix it is not ready for is queued.  The copies may throw bad_alloc,
\* which publishes no slot.  After EMSGSIZE the path is probed again.
SendNow(b, wire, answer, probes, bad_alloc) ==
    LET r == IF answer.error = "EAGAIN" THEN Blocked(b) ELSE b
        suffix == SubSeq(wire, answer.sent + 1, Len(wire))
        after == [next EXCEPT ![key] = @ + Len(wire)]
    IN  /\ next' = IF answer.error = "EMSGSIZE" /\ PmtudAuto
                   THEN Consume(after, key, probes)
                   ELSE after
        /\ Keep(IF answer.error \in {"EAGAIN", "EINTR"} /\ ~ bad_alloc
                THEN Append_(r, suffix) ELSE r)
        /\ Transmit(SubSeq(wire, 1, answer.sent))

\* send_data(): TUN and switch input is only read while the queue is empty;
\* a relay hands over packets at any time.
SendData(n, z, bad_alloc) ==
    LET b == Expire(Synced)
        wire == Fragments(n, z)
    IN  /\ messages < MaxMessages
        /\ Relay \/ queue = <<>>
        /\ tx_generation' = generation
        /\ IF ~ Ready \/ (b.q # <<>> /\ ~ Fits(b, n, n * (z + Slack)))
           THEN /\ Keep(IF Ready THEN b ELSE Synced)
                /\ Silent
                /\ UNCHANGED <<messages, next>>
           ELSE /\ messages' = messages + 1
                /\ IF next[key] + n > KeyLimit + 1
                   THEN \* encode_into() fails once the key is used up
                        /\ next' = [next EXCEPT ![key] = KeyLimit + 1]
                        /\ Keep(b)
                        /\ Silent
                   ELSE IF b.q # <<>>
                   THEN /\ next' = [next EXCEPT ![key] = @ + n]
                        /\ Keep(IF bad_alloc THEN b ELSE Append_(b, wire))
                        /\ Silent
                   ELSE \E answer \in Answers(n), probes \in 0 .. 1 :
                            SendNow(b, wire, answer, probes, bad_alloc)
        /\ UNCHANGED <<session, peer>>

TimePasses ==
    LET older(x) == IF x = 0 THEN 0 ELSE x - 1
    IN  /\ retry > 0 \/ \E i \in DOMAIN queue : queue[i].left > 0
        /\ retry' = older(retry)
        /\ queue' = [i \in DOMAIN queue |-> [queue[i] EXCEPT !.left = older(@)]]
        /\ Silent
        /\ UNCHANGED <<session, next, tx_generation, peer, bytes, messages>>

Next ==
    \/ \E p \in Peers, probes \in 0 .. 1 : Activate(p, probes)
    \/ ForgetPrevious
    \/ \E bad_alloc \in BOOLEAN : Rollback(bad_alloc)
    \/ \E p \in Peers : RelocatePeer(p)
    \/ \E p \in Peers, probes \in 0 .. 1 : MovePeer(p, probes)
    \/ LoopHead
    \/ \E probes \in 0 .. 1 : FlushUdpTx(probes)
    \/ SendControl
    \/ \E n \in 1 .. MaxFragments, z \in Sizes, bad_alloc \in BOOLEAN :
          SendData(n, z, bad_alloc)
    \/ TimePasses

Spec == Init /\ [][Next]_vars

\* The loop comes back to its head: poll() waits at most poll_timeout(), and
\* every handler returns.  Nothing is assumed of the socket.
FairSpec == Spec /\ WF_vars(LoopHead) /\ WF_vars(TimePasses)
-----------------------------------------------------------------------------
(***************************************************************************)
(* Properties.                                                             *)
(***************************************************************************)
\* Whatever leaves was encoded under the key the session uses now and for the
\* path it leaves on: ciphertext that waited does not outlive a key change, a
\* rollback or a move of the peer (sync_udp_tx_session, discard).
CurrentOnly == \A i \in DOMAIN out : out[i].key = key /\ out[i].peer = peer

\* Under one key DATA leaves in the order of its counters, each counter once:
\* "New data must not overtake a delayed prefix" (send_data), so a retained
\* datagram cannot fall behind the receiver's replay window, and a retry
\* never repeats one that was already taken.
OrderKept ==
    \A i \in DOMAIN out' :
        /\ out'[i].counter > last[out'[i].key]
        /\ \A j \in 1 .. i - 1 : out'[j].counter < out'[i].counter

\* What the queue holds of a logical packet is an unbroken run of fragments
\* up to its last one: a packet is admitted whole or with everything that was
\* still unsent (append), and only leaves from the front.
SuffixesOnly ==
    \A i \in DOMAIN queue :
        queue[i].fragment < queue[i].of =>
            /\ i < Len(queue)
            /\ queue[i + 1].message = queue[i].message
            /\ queue[i + 1].fragment = queue[i].fragment + 1

\* bytes_ is what the entries weigh, through every append, expiry, discard and
\* partial flush, and neither limit is exceeded; a subtraction in fits() or
\* pop() can therefore not wrap.
BoundedAndCounted ==
    /\ Len(queue) <= Capacity
    /\ bytes = SizeOf(queue)[Len(queue)]
    /\ bytes <= ByteLimit

\* Nothing is put on the wire max_age or more after it was queued.
NothingStale == \A i \in DOMAIN out : out[i].left > 0

\* The head is the oldest entry and has the lowest counter, so expire(), which
\* stops at the first young entry, leaves nothing overdue behind it.
OldestFirst ==
    \A i, j \in DOMAIN queue : i < j =>
        /\ queue[i].left <= queue[j].left
        /\ queue[i].key = queue[j].key => queue[i].counter < queue[j].counter

\* Every queued packet leaves the queue, sent, expired or discarded, even if
\* the socket never becomes writable: TUN and switch input waits for that.
Queued(m) == \E i \in DOMAIN queue : queue[i].message = m
=============================================================================
