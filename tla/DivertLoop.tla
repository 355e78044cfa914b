----------------------------- MODULE DivertLoop -----------------------------
(***************************************************************************)
(* The event loop of the divert adapter (divert/main.cpp): one thread, two *)
(* TUN devices, and for each path to a switch a client on either side.     *)
(* Workers that share flows hold their TUN queues only while their path is *)
(* up, so that the kernel gives the packets to the others.  Packets are    *)
(* counted; which of them are diverted is in Learning and SharedTable, how *)
(* frames travel in SwitchTransport.                                       *)
(***************************************************************************)
EXTENDS Integers, FiniteSets, FiniteSetsExt

CONSTANTS
  Paths, Sides,   \* paths to switches; the sides this worker has (0, 1)
  Shared,         \* --shared-flows
  Batch,          \* frames staged before append_frame flushes by itself
  Rounds,         \* rounds of a slice (64)
  MaxPackets, MaxFaults   \* bounds of a behaviour

Clients == Paths \X Sides
Sources == [path : Paths, side : Sides, switch : BOOLEAN]

VARIABLES
  pc,        \* "top", "poll", "asleep", "events", "slice", "flush" or "backoff"
  link,      \* each client: "down", "connecting" or "up"
  inbox,     \* frames for each client in the kernel
  pending,   \* frames of a record that the client has only begun to read
  tun,       \* packets in each TUN queue
  queues,    \* queues_active
  staged,    \* frames staged for the switch, per client
  retry,     \* frames the socket did not take, kept to try again
  round, left,         \* of the slice; sources, then clients, still to visit
  arrived,   \* packets that have come
  read, sent, written, dropped,      \* packets counted: switch_rx and tun_rx, and their fates
  faults

vars == <<pc, link, inbox, pending, tun, queues, staged, retry, round, left, arrived, read, sent, written, dropped,
          faults>>
io == <<inbox, tun, arrived>>
ledger == <<read, sent, written, dropped>>

Zero == [c \in Clients |-> 0]

Init ==
  /\ pc = "top" /\ link = [c \in Clients |-> "down"] /\ queues = ~Shared
  /\ inbox = Zero /\ pending = Zero /\ staged = Zero /\ retry = Zero /\ tun = [s \in Sides |-> 0]
  /\ round = 0 /\ left = {}
  /\ arrived = 0 /\ read = 0 /\ sent = 0 /\ written = 0 /\ dropped = 0 /\ faults = 0
-----------------------------------------------------------------------------
Ready(links, p) == \A s \in Sides : links[<<p, s>>] = "up"
Updated(links) == IF Shared THEN \A p \in Paths : Ready(links, p) ELSE queues

(* The connection of c ends (disconnect): n packets in hand are dropped    *)
(* with the frames kept for it, g of which had been sent.  What it has not *)
(* read goes with the socket, and this worker's queues to other workers.   *)
Ends(c, n, g) ==
  /\ link[c] = "up" /\ link' = [link EXCEPT ![c] = "down"]
  /\ faults < MaxFaults /\ faults' = faults + 1
  /\ sent' = sent + g /\ dropped' = dropped + n + staged[c] + retry[c] - g
  /\ staged' = [staged EXCEPT ![c] = 0] /\ retry' = [retry EXCEPT ![c] = 0]
  /\ pending' = [pending EXCEPT ![c] = 0] /\ inbox' = [inbox EXCEPT ![c] = 0]
  /\ queues' = Updated(link')

(* append_frame and account, for a packet in hand.  Frames kept too long   *)
(* go first; behind the others it is kept if there is room.  Otherwise it  *)
(* is staged, or sent with those staged before it, the batch being full or *)
(* the slots used up: g of the frames leave before the socket is full.     *)
Append(c) ==
  \/ /\ link[c] # "up" /\ dropped' = dropped + 1
     /\ UNCHANGED <<sent, staged, retry>>
  \/ /\ link[c] = "up"
     /\ \E kept \in 1 .. retry[c], room \in {0, 1} :
          /\ retry' = [retry EXCEPT ![c] = kept + room]
          /\ dropped' = dropped + retry[c] - kept + 1 - room
     /\ UNCHANGED <<sent, staged>>
  \/ /\ link[c] = "up" /\ retry' = [retry EXCEPT ![c] = 0] /\ dropped' = dropped + retry[c]
     /\ staged[c] + 1 < Batch /\ staged' = [staged EXCEPT ![c] = @ + 1]
     /\ UNCHANGED sent
  \/ /\ link[c] = "up" /\ dropped' = dropped + retry[c]
     /\ \E g \in {0, staged[c], staged[c] + 1} :
          sent' = sent + g /\ retry' = [retry EXCEPT ![c] = staged[c] + 1 - g]
     /\ staged' = [staged EXCEPT ![c] = 0]

(* The world.                                                              *)
Arrive ==
  /\ arrived < MaxPackets /\ arrived' = arrived + 1
  /\ \/ \E c \in Clients : link[c] = "up" /\ inbox' = [inbox EXCEPT ![c] = @ + 1] /\ UNCHANGED tun
     \/ \E s \in Sides : queues /\ tun' = [tun EXCEPT ![s] = @ + 1] /\ UNCHANGED inbox
  /\ UNCHANGED <<pc, link, pending, queues, staged, retry, round, left, ledger, faults>>
-----------------------------------------------------------------------------
(* Before the poll: connections that are due are started; legacy ones are  *)
(* up at once.                                                             *)
Top ==
  /\ pc = "top" /\ pc' = "poll"
  /\ link' \in [Clients -> {"down", "connecting", "up"}]
  /\ \A c \in Clients : link[c] # "down" => link'[c] = link[c]
  /\ queues' = Updated(link')
  /\ UNCHANGED <<io, pending, staged, retry, round, left, ledger, faults>>

(* poll_timeout_ms is zero while a client has frames of a record left, and *)
(* short while it has frames to try again.                                 *)
Readable == (\E c \in Clients : inbox[c] > 0) \/ (queues /\ \E s \in Sides : tun[s] > 0)

Poll ==
  /\ pc = "poll"
  /\ pc' = IF Readable \/ \E c \in Clients : pending[c] + retry[c] > 0 THEN "events" ELSE "asleep"
  /\ UNCHANGED <<link, io, pending, queues, staged, retry, round, left, ledger, faults>>

Wake ==
  /\ pc = "asleep" /\ pc' = "events"
  /\ UNCHANGED <<link, io, pending, queues, staged, retry, round, left, ledger, faults>>

PollFails ==
  /\ pc = "poll" /\ faults < MaxFaults /\ faults' = faults + 1
  /\ pc' = "backoff"
  /\ UNCHANGED <<link, io, pending, queues, staged, retry, round, left, ledger>>

Backoff ==
  /\ pc = "backoff" /\ pc' = "top"
  /\ UNCHANGED <<link, io, pending, queues, staged, retry, round, left, ledger, faults>>

(* After it: handshakes advance or fail, and a peer may have hung up.      *)
Events ==
  /\ pc = "events"
  /\ \/ /\ pc' = "slice" /\ round' = 1 /\ left' = Sources
        /\ UNCHANGED <<link, queues, staged, retry, pending, inbox, sent, dropped, faults>>
     \/ \E c \in Clients :
          /\ link[c] = "connecting"
          /\ \E result \in {"up", "down"} : link' = [link EXCEPT ![c] = result]
          /\ queues' = Updated(link')
          /\ UNCHANGED <<pc, staged, retry, pending, inbox, sent, dropped, round, left, faults>>
     \/ (\E c \in Clients : Ends(c, 0, 0)) /\ UNCHANGED <<pc, round, left>>
  /\ UNCHANGED <<tun, arrived, read, written>>
-----------------------------------------------------------------------------
Visit(src) == pc = "slice" /\ src \in left /\ left' = left \ {src}
Client(src) == <<src.path, src.side>>

(* Nothing there, no such client, or no queues: the next source.           *)
Skip(src) ==
  /\ Visit(src)
  /\ IF src.switch THEN link[Client(src)] # "up" \/ inbox[Client(src)] + pending[Client(src)] = 0
                   ELSE ~queues \/ tun[src.side] = 0
  /\ UNCHANGED <<pc, link, io, pending, queues, staged, retry, round, ledger, faults>>

(* receive(): a frame alone, or one of a record, whose others are pending. *)
Receives(c) ==
  /\ link[c] = "up" /\ read' = read + 1
  /\ \/ pending[c] > 0 /\ pending' = [pending EXCEPT ![c] = @ - 1] /\ UNCHANGED inbox
     \/ /\ pending[c] = 0
        /\ \E n \in 1 .. inbox[c] : /\ inbox' = [inbox EXCEPT ![c] = @ - n]
                                    /\ pending' = [pending EXCEPT ![c] = n - 1]

(* Such a frame is dropped, goes back past the adapter, or is learned and  *)
(* written.                                                                *)
FromSwitch(src) ==
  LET c == Client(src)
  IN  /\ Visit(src) /\ src.switch /\ Receives(c)
      /\ \/ dropped' = dropped + 1 /\ UNCHANGED <<sent, written, staged, retry>>
         \/ src.side = 0 /\ Ready(link, src.path) /\ Append(c) /\ UNCHANGED written
         \/ Ready(link, src.path) /\ written' = written + 1 /\ UNCHANGED <<sent, dropped, staged, retry>>
      /\ UNCHANGED <<pc, link, queues, tun, arrived, round, faults>>

(* The connection ends when it is read, or when a frame is sent back.      *)
SwitchEnds(src) ==
  LET c == Client(src)
  IN  /\ Visit(src) /\ src.switch
      /\ \/ Ends(c, 0, 0) /\ UNCHANGED read
         \/ /\ src.side = 0 /\ Ready(link, src.path) /\ inbox[c] + pending[c] > 0 /\ read' = read + 1
            /\ \E g \in {0, staged[c]} : Ends(c, 1, g)
      /\ UNCHANGED <<pc, tun, arrived, written, round>>

(* A packet from the TUN goes where its flow was learned.  An error of the *)
(* socket drops what is staged too.                                        *)
Reads(s) == queues /\ tun[s] > 0 /\ tun' = [tun EXCEPT ![s] = @ - 1] /\ read' = read + 1
Onward(src) == {<<p, src.side>> : p \in IF Shared THEN {src.path} ELSE Paths}

FromTun(src) ==
  /\ Visit(src) /\ ~src.switch /\ Reads(src.side)
  /\ \/ dropped' = dropped + 1 /\ UNCHANGED <<sent, staged, retry, link, queues, inbox, pending, faults>>
     \/ \E c \in Onward(src) : Append(c) /\ UNCHANGED <<link, queues, inbox, pending, faults>>
     \/ \E c \in Onward(src) : \E g \in {0, staged[c]} : Ends(c, 1, g)
  /\ UNCHANGED <<pc, arrived, written, round>>

(* Another round; the slice may also end here, after a millisecond or when *)
(* nothing has come.                                                       *)
NextRound ==
  /\ pc = "slice" /\ left = {} /\ round < Rounds
  /\ round' = round + 1 /\ left' = Sources
  /\ UNCHANGED <<pc, link, io, pending, queues, staged, retry, ledger, faults>>
-----------------------------------------------------------------------------
(* The end of a slice: each client that is up is flushed.  What is staged  *)
(* goes at once or is kept for later, if there is room; of the frames kept *)
(* some go, in order, before the socket is full, and some are too old.     *)
Slice ==
  /\ pc = "slice" /\ left = {} /\ pc' = "flush"
  /\ left' = {c \in Clients : link[c] = "up"} /\ round' = 0
  /\ UNCHANGED <<link, io, pending, queues, staged, retry, ledger, faults>>

Flush(c) ==
  /\ pc = "flush" /\ c \in left /\ left' = left \ {c}
  /\ \E g \in 0 .. staged[c] + retry[c] : \E kept \in 0 .. staged[c] + retry[c] - g :
       /\ staged[c] > 0 => g \in {0, staged[c]}
       /\ sent' = sent + g /\ dropped' = dropped + staged[c] + retry[c] - g - kept
       /\ staged' = [staged EXCEPT ![c] = 0] /\ retry' = [retry EXCEPT ![c] = kept]
  /\ UNCHANGED <<pc, link, io, pending, queues, read, written, round, faults>>

FlushEnds(c) ==
  /\ pc = "flush" /\ c \in left /\ left' = left \ {c} /\ staged[c] + retry[c] > 0
  /\ \E g \in 0 .. retry[c] : g < staged[c] + retry[c] /\ Ends(c, 0, g)
  /\ UNCHANGED <<pc, tun, arrived, read, written, round>>

Flushed ==
  /\ pc = "flush" /\ left = {} /\ pc' = "top"
  /\ UNCHANGED <<link, io, pending, queues, staged, retry, round, left, ledger, faults>>
-----------------------------------------------------------------------------
Total(f) == MapThenSumSet(LAMBDA c : f[c], DOMAIN f)

(* Variant: what other clients had staged or kept is not counted.          *)
GivesUpUncounted(h) ==
  /\ faults < MaxFaults /\ faults' = faults + 1
  /\ staged' = Zero /\ retry' = Zero /\ dropped' = dropped
  /\ pc' = "backoff" /\ left' = {} /\ round' = 0

(* catch (bad_alloc): every client's discard_staged is counted.  The call  *)
(* that threw had already taken h of the frames away, or sent them, and    *)
(* its Outcome is lost.                                                    *)
GivesUp(h) ==
  /\ faults < MaxFaults /\ faults' = faults + 1
  /\ staged' = Zero /\ retry' = Zero /\ dropped' = dropped + Total(staged) + Total(retry) - h
  /\ pc' = "backoff" /\ left' = {} /\ round' = 0

(* No packet is in hand: tables, control messages.                         *)
AllocationFails ==
  /\ pc \in {"top", "poll", "events", "slice"} /\ GivesUp(0)
  /\ UNCHANGED <<link, io, pending, queues, read, sent, written>>

(* With a packet in hand, as it is learned or kept for c: the packet has   *)
(* no fate, nor have the frames of c that this append found too old, sent  *)
(* first, or could not keep (retry_queue.hpp:57).                          *)
PacketFails(src) ==
  /\ Visit(src)
  /\ \/ src.switch /\ Ready(link, src.path) /\ Receives(Client(src)) /\ UNCHANGED tun
     \/ ~src.switch /\ Reads(src.side) /\ UNCHANGED <<inbox, pending>>
  /\ \/ GivesUp(0)
     \/ \E c \in IF ~src.switch THEN Onward(src) ELSE IF src.side = 0 THEN {Client(src)} ELSE {} :
          link[c] = "up" /\ \E h \in 1 .. staged[c] + retry[c] : GivesUp(h)
  /\ UNCHANGED <<link, queues, arrived, sent, written>>

(* In a flush: staged_count_ is zero already, and the frames not yet kept  *)
(* are forgotten.                                                          *)
FlushFails(c) ==
  /\ pc = "flush" /\ c \in left
  /\ \E h \in 1 .. staged[c] : GivesUp(h)
  /\ UNCHANGED <<link, io, pending, queues, read, sent, written>>

Next ==
  \/ Arrive \/ Top \/ Poll \/ Wake \/ PollFails \/ Backoff \/ Events \/ NextRound \/ Slice \/ Flushed \/ AllocationFails
  \/ \E src \in Sources : Skip(src) \/ FromSwitch(src) \/ SwitchEnds(src) \/ FromTun(src) \/ PacketFails(src)
  \/ \E c \in Clients : Flush(c) \/ FlushEnds(c) \/ FlushFails(c)

Spec == Init /\ [][Next]_vars
-----------------------------------------------------------------------------
(* Every packet the worker has read is staged, kept, sent, written or      *)
(* counted as dropped, across lost connections.  Only a failed allocation  *)
(* takes packets from the counters (divert/main.cpp:388): the one in hand  *)
(* and frames of the one client it was for, never those of other clients.  *)
Missing == read - (Total(staged) + Total(retry) + sent + written + dropped)
Accounted ==
  \/ Missing' = Missing
  \/ /\ pc' = "backoff" /\ Missing' > Missing
     /\ \E c \in Clients : Missing' - Missing <= read' - read + staged[c] + retry[c]

(* A worker of a group holds its TUN queues exactly while its path is up,  *)
(* also within a slice: packets the kernel gave it meanwhile would be lost.*)
QueuesFollow ==
  Shared /\ pc \in {"poll", "asleep", "slice", "flush"} => (queues <=> \A p \in Paths : Ready(link, p))

(* The loop sleeps on nothing that only itself can move: no staged or kept *)
(* frame, no frame of a record it has begun to read.                       *)
SleepsClean == pc = "asleep" => Total(staged) + Total(retry) + Total(pending) = 0
=============================================================================
