------------------------------ MODULE MCTunnel ------------------------------
(***************************************************************************)
(* Instances of the tunnel's components for TLC.  A run is about the       *)
(* components in Parts: each of its behaviours is one of a single          *)
(* component.                                                              *)
(***************************************************************************)
EXTENDS InfoWorker, Session, ReplayArray

CONSTANT Parts      \* the components of a run
VARIABLE part       \* the one that moves

Piece(b, e) == [begin |-> b, end |-> e]
OneMessage == <<{Piece(0, 1), Piece(1, 2), Piece(2, 3)}>>
\* Overlap, another length, and a message larger than the pool.
Stray4(i, b, e, l) == [id |-> i, begin |-> b, end |-> e, length |-> l]
Malformed == {Stray4(1, 0, 2, 3), Stray4(1, 2, 4, 4), Stray4(2, 0, 2, 9), Stray4(3, 1, 2, 5)}
PacketSizes == (1 .. 9) \cup (16 .. 21) \cup {11, 13, 23, 24, 29, 31, 32, 37, 40, 41, 47, 53, 59, 60}

-----------------------------------------------------------------------------
(* InfoWorker, Session and ReplayArray are extended: a configuration gives *)
(* their constants, and they rest in an initial state of theirs.           *)
-----------------------------------------------------------------------------
(* UdpTransmit: two peers and two keys; and, for liveness, one peer.       *)
VARIABLES key, previous, agreed, udp_generation, udp_next, tx_generation, peer, queue, bytes, retry, messages,
          udp_out, udp_last
Udp == INSTANCE UdpTransmit WITH
  Capacity <- 3, ByteLimit <- 3, MaxAge <- 2, RetryDelay <- 1, KeyLimit <- 4, Sizes <- {1, 2}, Slack <- 1,
  Peers <- {"p1", "p2"}, FirstPeer <- "p1", Relay <- TRUE, PmtudAuto <- TRUE, MaxKeys <- 2, MaxGeneration <- 3,
  MaxMessages <- 2, MaxFragments <- 2, generation <- udp_generation, next <- udp_next, out <- udp_out,
  last <- udp_last
UdpMoves == INSTANCE UdpTransmit WITH
  Capacity <- 3, ByteLimit <- 3, MaxAge <- 2, RetryDelay <- 1, KeyLimit <- 4, Sizes <- {1}, Slack <- 1,
  Peers <- {"p1"}, FirstPeer <- "p1", Relay <- TRUE, PmtudAuto <- TRUE, MaxKeys <- 2, MaxGeneration <- 2,
  MaxMessages <- 2, MaxFragments <- 2, generation <- udp_generation, next <- udp_next, out <- udp_out,
  last <- udp_last
udpVars == <<key, previous, agreed, udp_generation, udp_next, tx_generation, peer, queue, bytes, retry, messages,
             udp_out, udp_last>>
udpOff == key = 0 /\ previous = 0 /\ agreed = 0 /\ udp_generation = 0 /\ udp_next = 0 /\ tx_generation = 0 /\
          peer = 0 /\ queue = 0 /\ bytes = 0 /\ retry = 0 /\ messages = 0 /\ udp_out = 0 /\ udp_last = 0
-----------------------------------------------------------------------------
(* Access: handing clients over to workers; serving them in place; and one *)
(* session without deadlines.                                              *)
VARIABLES c, l, access_job, w, crel, lrel, access_net, notes, access_last, deadlines
Gate == INSTANCE Access WITH
  Workers <- {1, 2}, MaxSessions <- 3, MaxClients <- 2, MaxDeadlines <- 1, MaxChildren <- 2, Relocates <- TRUE,
  job <- access_job, net <- access_net, last <- access_last
Here == INSTANCE Access WITH
  Workers <- {1, 2}, MaxSessions <- 3, MaxClients <- 2, MaxDeadlines <- 1, MaxChildren <- 2, Relocates <- FALSE,
  job <- access_job, net <- access_net, last <- access_last
Answers == INSTANCE Access WITH
  Workers <- {1, 2}, MaxSessions <- 1, MaxClients <- 2, MaxDeadlines <- 0, MaxChildren <- 2, Relocates <- TRUE,
  job <- access_job, net <- access_net, last <- access_last
accessVars == <<c, l, access_job, w, crel, lrel, access_net, notes, access_last, deadlines>>
accessOff == c = 0 /\ l = 0 /\ access_job = 0 /\ w = 0 /\ crel = 0 /\ lrel = 0 /\ access_net = 0 /\ notes = 0 /\
             access_last = 0 /\ deadlines = 0
-----------------------------------------------------------------------------
(* Reassembly: three competing messages; and one among malformed fragments. *)
VARIABLES entries, arrival_order, activity_order, total_bytes, discarded, reass_now, in_flight, taken, complete,
          given_up
Stray == INSTANCE Reassembly WITH
  Cut <- OneMessage, Strays <- Malformed, MaxEntries <- 2, MaxBytes <- 7, MaxDiscarded <- 1, MaxRanges <- 2,
  Timeout <- 2, MaxTime <- 2, now <- reass_now
\* Three messages that compete for two entries and seven bytes.
CutInto(n, limit) == Stray!Fragments(Stray!make_fragment_plan(n, limit))
ThreeMessages == <<CutInto(4, 2), CutInto(2, 1), CutInto(5, 3)>>
Reass == INSTANCE Reassembly WITH
  Cut <- ThreeMessages, Strays <- {}, MaxEntries <- 2, MaxBytes <- 7, MaxDiscarded <- 1, MaxRanges <- 3,
  Timeout <- 2, MaxTime <- 2, now <- reass_now
reassVars == <<entries, arrival_order, activity_order, total_bytes, discarded, reass_now, in_flight, taken, complete,
               given_up>>
reassOff == entries = 0 /\ arrival_order = 0 /\ activity_order = 0 /\ total_bytes = 0 /\ discarded = 0 /\
            reass_now = 0 /\ in_flight = 0 /\ taken = 0 /\ complete = 0 /\ given_up = 0
-----------------------------------------------------------------------------
(* A packet, of a size around the multiples of the fragment sizes, is sent *)
(* on a path: its MTU, outer headers and whether it leads through a relay. *)
VARIABLES size, mtu, header, relay
fragVars == <<size, mtu, header, relay>>
fragOff == size = 0 /\ mtu = 0 /\ header = 0 /\ relay = FALSE
MaxCount == 12
SendPacket ==
  /\ size = 0
  /\ size' \in PacketSizes /\ mtu' \in {90, 91, 95, 100, 108, 120} /\ header' \in {28, 48} /\ relay' \in BOOLEAN
  /\ Reass!Admissible(mtu', header', relay', PacketSizes, MaxCount)
PacketPlan == Reass!Plan(size, mtu, header, relay)
-----------------------------------------------------------------------------
(* Pmtud: paths below, at, between and above the sizes that are probed.    *)
VARIABLES pmtud_session, fallback, pmtud_started, pmtud_pending, probe, known_good, known_bad, active_mtu, last_id,
          pmtud_probes, replies, path, device, arrived, clean, restarts
Search == INSTANCE Pmtud WITH
  MinMtu <- 3, UpperMtu <- 9, Configured <- 7, Paths <- {2, 3, 6, 7, 12}, Devices <- {5, 12}, MaxRestarts <- 2,
  session <- pmtud_session, started <- pmtud_started, pending <- pmtud_pending, probes <- pmtud_probes
Settle == INSTANCE Pmtud WITH
  MinMtu <- 3, UpperMtu <- 6, Configured <- 5, Paths <- {3, 7, 12}, Devices <- {12}, MaxRestarts <- 2,
  session <- pmtud_session, started <- pmtud_started, pending <- pmtud_pending, probes <- pmtud_probes
pmtudVars == <<pmtud_session, fallback, pmtud_started, pmtud_pending, probe, known_good, known_bad, active_mtu,
               last_id, pmtud_probes, replies, path, device, arrived, clean, restarts>>
pmtudOff == pmtud_session = 0 /\ fallback = 0 /\ pmtud_started = 0 /\ pmtud_pending = 0 /\ probe = 0 /\
            known_good = 0 /\ known_bad = 0 /\ active_mtu = 0 /\ last_id = 0 /\ pmtud_probes = 0 /\ replies = 0 /\
            path = 0 /\ device = 0 /\ arrived = 0 /\ clean = 0 /\ restarts = 0
-----------------------------------------------------------------------------
(* RttProbes: a network that loses, one that does not, and a listener that *)
(* hands its client over.                                                  *)
VARIABLES rtt_now, rtt_session, keyed, retired, active, rtt_next, rtt_probes, rtt_sent, samples, lost, rtt_net
Rtt == INSTANCE RttProbes WITH
  Interval <- 4, Timeout <- 2, Lossy <- TRUE, Listener <- FALSE, MaxTime <- 4, MaxSessions <- 2, MaxProbes <- 2,
  now <- rtt_now, session <- rtt_session, next <- rtt_next, probes <- rtt_probes, sent <- rtt_sent, net <- rtt_net
Quiet == INSTANCE RttProbes WITH
  Interval <- 5, Timeout <- 2, Lossy <- FALSE, Listener <- FALSE, MaxTime <- 8, MaxSessions <- 3, MaxProbes <- 3,
  now <- rtt_now, session <- rtt_session, next <- rtt_next, probes <- rtt_probes, sent <- rtt_sent, net <- rtt_net
Handed == INSTANCE RttProbes WITH
  Interval <- 4, Timeout <- 2, Lossy <- TRUE, Listener <- TRUE, MaxTime <- 4, MaxSessions <- 2, MaxProbes <- 3,
  now <- rtt_now, session <- rtt_session, next <- rtt_next, probes <- rtt_probes, sent <- rtt_sent, net <- rtt_net
rttVars == <<rtt_now, rtt_session, keyed, retired, active, rtt_next, rtt_probes, rtt_sent, samples, lost, rtt_net>>
rttOff == rtt_now = 0 /\ rtt_session = 0 /\ keyed = 0 /\ retired = 0 /\ active = 0 /\ rtt_next = 0 /\
          rtt_probes = 0 /\ rtt_sent = 0 /\ samples = 0 /\ lost = 0 /\ rtt_net = 0
-----------------------------------------------------------------------------
(* Logger: a ring and a bucket of two lines.                               *)
VARIABLES log_now, attempted, log_started, tokens, refill_at, write, read, records, publishing, writer, lines,
          dropped, passed, log_out
Log == INSTANCE Logger WITH
  Capacity <- 2, Interval <- 2, Attempts <- 2, MaxTime <- 5, MaxLines <- 5, now <- log_now, started <- log_started,
  out <- log_out
Drains == INSTANCE Logger WITH
  Capacity <- 2, Interval <- 2, Attempts <- 2, MaxTime <- 2, MaxLines <- 4, now <- log_now, started <- log_started,
  out <- log_out
logVars == <<log_now, attempted, log_started, tokens, refill_at, write, read, records, publishing, writer, lines,
             dropped, passed, log_out>>
logOff == log_now = 0 /\ attempted = 0 /\ log_started = 0 /\ tokens = 0 /\ refill_at = 0 /\ write = 0 /\ read = 0 /\
          records = 0 /\ publishing = 0 /\ writer = 0 /\ lines = 0 /\ dropped = 0 /\ passed = 0 /\ log_out = 0
-----------------------------------------------------------------------------
(* TunnelLoop: one frame waits at each source.                             *)
VARIABLES loop_pc, waiting, txq, open, link, staged, polled, turn, round, offset, progress, overload, busy,
          loop_last, failures
Loop == INSTANCE TunnelLoop WITH
  MaxWaiting <- 1, MaxRounds <- 2, MaxFailures <- 1, Batch <- 2, pc <- loop_pc, last <- loop_last
Serves == INSTANCE TunnelLoop WITH
  MaxWaiting <- 1, MaxRounds <- 2, MaxFailures <- 0, Batch <- 1, pc <- loop_pc, last <- loop_last
loopVars == <<loop_pc, waiting, txq, open, link, staged, polled, turn, round, offset, progress, overload, busy,
              loop_last, failures>>
loopOff == loop_pc = 0 /\ waiting = 0 /\ txq = 0 /\ open = 0 /\ link = 0 /\ staged = 0 /\ polled = 0 /\ turn = 0 /\
           round = 0 /\ offset = 0 /\ progress = 0 /\ overload = 0 /\ busy = 0 /\ loop_last = 0 /\ failures = 0
-----------------------------------------------------------------------------
(* TunProvider: three devices and a socket that holds one message.         *)
VARIABLES how, patterns, tuns_pc, child, made, socket, ends, received, owned, leaked
Tuns == INSTANCE TunProvider WITH
  Requests <- 3, Room <- 1, pc <- tuns_pc
tunsVars == <<how, patterns, tuns_pc, child, made, socket, ends, received, owned, leaked>>
tunsOff == how = 0 /\ patterns = 0 /\ tuns_pc = 0 /\ child = 0 /\ made = 0 /\ socket = 0 /\ ends = 0 /\
           received = 0 /\ owned = 0 /\ leaked = 0
-----------------------------------------------------------------------------
suiteVars == <<part, infoVars, vars, arrayVars, udpVars, accessVars, fragVars, reassVars, pmtudVars, rttVars,
               logVars, loopVars, tunsVars>>

(* A behaviour is one of the component chosen, with the others at rest.    *)
SuiteInit ==
  /\ part \in Parts
  /\ InfoInit
  /\ Init
  /\ ArrayInit
  /\ IF part = "udp" THEN Udp!Init ELSE
     IF part = "udp_moves" THEN UdpMoves!Init ELSE udpOff
  /\ IF part = "access" THEN Gate!Init ELSE
     IF part = "here" THEN Here!Init ELSE
     IF part = "answers" THEN Answers!Init ELSE accessOff
  /\ fragOff
  /\ IF part = "reass" THEN Reass!Init ELSE
     IF part = "strays" THEN Stray!Init ELSE reassOff
  /\ IF part = "pmtud" THEN Search!Init ELSE
     IF part = "settles" THEN Settle!Init ELSE pmtudOff
  /\ IF part = "rtt" THEN Rtt!Init ELSE
     IF part = "rtt_quiet" THEN Quiet!Init ELSE
     IF part = "rtt_listener" THEN Handed!Init ELSE rttOff
  /\ IF part = "log" THEN Log!Init ELSE
     IF part = "log_drains" THEN Drains!Init ELSE logOff
  /\ IF part = "loop" THEN Loop!Init ELSE
     IF part = "loop_serves" THEN Serves!Init ELSE loopOff
  /\ IF part = "tuns" THEN Tuns!Init ELSE tunsOff
Rest ==
  /\ UNCHANGED part
  /\ part # "info" => UNCHANGED infoVars
  /\ part # "session" => UNCHANGED vars
  /\ part # "replay" => UNCHANGED arrayVars
  /\ part \notin {"udp", "udp_moves"} => UNCHANGED udpVars
  /\ part \notin {"access", "here", "answers"} => UNCHANGED accessVars
  /\ part # "frag" => UNCHANGED fragVars
  /\ part \notin {"reass", "strays"} => UNCHANGED reassVars
  /\ part \notin {"pmtud", "settles"} => UNCHANGED pmtudVars
  /\ part \notin {"rtt", "rtt_quiet", "rtt_listener"} => UNCHANGED rttVars
  /\ part \notin {"log", "log_drains"} => UNCHANGED logVars
  /\ part \notin {"loop", "loop_serves"} => UNCHANGED loopVars
  /\ part # "tuns" => UNCHANGED tunsVars
SuiteNext ==
  /\ Rest
  /\ \/ part = "info" /\ InfoNext
     \/ part = "session" /\ Next
     \/ part = "replay" /\ ArrayNext
     \/ part = "udp" /\ Udp!Next
     \/ part = "udp_moves" /\ UdpMoves!Next
     \/ part = "access" /\ Gate!Next
     \/ part = "here" /\ Here!Next
     \/ part = "answers" /\ Answers!Next
     \/ part = "frag" /\ SendPacket
     \/ part = "reass" /\ Reass!Next
     \/ part = "strays" /\ Stray!Next
     \/ part = "pmtud" /\ Search!Next
     \/ part = "settles" /\ Settle!Next
     \/ part = "rtt" /\ Rtt!Next
     \/ part = "rtt_quiet" /\ Quiet!Next
     \/ part = "rtt_listener" /\ Handed!Next
     \/ part = "log" /\ Log!Next
     \/ part = "log_drains" /\ Drains!Next
     \/ part = "loop" /\ Loop!Next
     \/ part = "loop_serves" /\ Serves!Next
     \/ part = "tuns" /\ Tuns!Next

SuiteSpec == SuiteInit /\ [][SuiteNext]_suiteVars
(* Event loops and threads run on and clocks advance; of a message that is *)
(* repeated for ever one gets through; a datagram that cannot be sent      *)
(* expires.  Nothing is assumed of sockets, of the network or of peers.    *)
SuiteFairSpec ==
  /\ SuiteSpec
  /\ WF_infoVars(part = "info" /\ Thread) /\ WF_infoVars(part = "info" /\ Notify)
  /\ WF_infoVars(part = "info" /\ Take) /\ WF_infoVars(part = "info" /\ ReadEvent)
  /\ WF_udpVars(part = "udp_moves" /\ UdpMoves!LoopHead) /\ WF_udpVars(part = "udp_moves" /\ UdpMoves!TimePasses)
  /\ WF_accessVars(part = "answers" /\ c.sess = 0 /\ Answers!ConnectListener)
  /\ WF_accessVars(part = "answers" /\ c.sess = 0 /\ Answers!ConnectWorker)
  /\ WF_accessVars(part = "answers" /\ (Answers!JobAllowsHere \/ Answers!JobAllows \/ Answers!JobDenies))
  /\ WF_accessVars(part = "answers" /\ Answers!ReadNote) /\ WF_accessVars(part = "answers" /\ Answers!ClientRepeats)
  /\ WF_accessVars(part = "answers" /\ Answers!ListenerRepeats)
  /\ SF_<<c, l, w>>(part = "answers" /\ Answers!Receive) /\ SF_accessVars(part = "answers" /\ Answers!ReceiveType("bind"))
  /\ WF_pmtudVars(part = "settles" /\ Settle!handle_pmtud_timeout) /\ WF_pmtudVars(part = "settles" /\ Settle!RollBack)
  /\ WF_logVars(part = "log_drains" /\ Drains!Writer) /\ WF_logVars(part = "log_drains" /\ Drains!Publish)
  /\ WF_tunsVars(part = "tuns" /\ Tuns!Ours) /\ WF_tunsVars(part = "tuns" /\ Tuns!Theirs)
  /\ WF_loopVars(part = "loop_serves" /\ Serves!Step) /\ SF_loopVars(part = "loop_serves" /\ Serves!Top(TRUE))
-----------------------------------------------------------------------------
(* What waits for a socket.  In the UDP queue: ciphertext of the key and   *)
(* the peer in use, unbroken runs of fragments up to a packet's last, none *)
(* older than max_age, oldest first, within both limits and rightly        *)
(* counted, through append, expiry, discard and partial flush              *)
(* (udp_tx_queue.hpp, sync_udp_tx_session).  And the loop never sleeps     *)
(* with frames for the switch still staged.                                *)
QueueSound ==
  /\ part = "udp" => /\ Udp!CurrentOnly /\ Udp!SuffixesOnly /\ Udp!NothingStale
                     /\ Udp!OldestFirst /\ Udp!BoundedAndCounted
  /\ part = "loop" => Loop!NothingStagedAsleep

(* Under one key DATA leaves in the order of its counters, each once       *)
(* (send_data).                                                            *)
DataInOrder == [][part = "udp" => Udp!OrderKept]_udpVars

(* A client sends data only to a worker that has consumed its ticket, also *)
(* when the worker may exit at any time; one that is authenticated under   *)
(* the listener's challenge is so at the listener, with workers or without *)
(* (tunnel.hpp:570); and the retries of a handover end only when it is     *)
(* over, replaced or late (docs/PROTOCOL_V5.md:136).                       *)
AccessSound ==
  [][/\ part = "access" => Gate!GateAgrees' /\ Gate!AuthAgrees' /\ Gate!KeepsRetries
     /\ part = "here" => Here!AuthAgrees']_accessVars

(* Fragments.  Those of a packet cover its bytes once and fit the path     *)
(* (tunnel.hpp:862, :917).  accept() neither loses nor invents part of a   *)
(* message; the byte total and both orders match the entries after every   *)
(* eviction and the heads of the orders are the oldest, so expiry may stop *)
(* there; a message given up is not opened again by a late fragment; and   *)
(* one is delivered only with every byte written, although bytes are only  *)
(* counted (reassembly.hpp:116-206).                                       *)
FragmentsSound ==
  [][/\ part = "frag" => /\ Reass!CoversOnce(size', PacketPlan')
                         /\ Reass!FitsPath(PacketPlan', mtu', header', relay', MaxCount)
     /\ part = "reass" => /\ Reass!NothingForgotten' /\ Reass!Accounting'
                          /\ Reass!HeadsAreOldest' /\ Reass!ClosedStaysClosed'
     /\ part = "strays" => Stray!Accounting' /\ Stray!DeliversWhole]_<<fragVars, reassVars>>

(* The search for the path's size: its bounds enclose the probe, also      *)
(* after a late answer; the size in use was seen by the peer in this       *)
(* search; without loss it ends with the largest that passes; and no order *)
(* of replies, timeouts and session changes leaves it waiting for nothing  *)
(* (tunnel.hpp:1619, :1836, :1924).                                        *)
(* RTT probes: one is counted once at most, as a sample or as lost; where  *)
(* nothing is lost nothing is counted as lost, although sessions are       *)
(* replaced under way; a listener that has handed its client over neither  *)
(* probes nor counts (tunnel.hpp:593).                                     *)
ProbesSound ==
  [][/\ part = "pmtud" => Search!Bracket' /\ Search!ActiveProven' /\ Search!Exact' /\ Search!NeverStalls'
     /\ part = "rtt" => Rtt!OneFate'
     /\ part = "rtt_quiet" => Quiet!NoFalseLoss'
     /\ part = "rtt_listener" => Handed!SilentRetired]_<<pmtudVars, rttVars>>

(* What reaches the log file is whole lines in their order, although the   *)
(* ring's slots are reused; every line is written, counted as dropped or   *)
(* in the ring; in no stretch of time do more pass than the bucket allows  *)
(* (logging.hpp).                                                          *)
LinesSound == part = "log" => Log!LinesIntact /\ Log!Accounted /\ Log!RateBound

(* A process gets all the devices it wants or holds none, whatever fails   *)
(* on either side, and waits for the child it forked on every path         *)
(* (tun_provider.hpp:112-130, adapter_tuns.hpp:37-49).                     *)
DevicesSound == part = "tuns" => Tuns!AllOrNothing /\ Tuns!ChildReaped

(* What is queued leaves its queue: a packet waiting for the UDP socket,   *)
(* even if that never becomes writable (TUN and switch input waits for     *)
(* it), and a line in the logger's ring, even if the file refuses it.  Who *)
(* waits for a result is told it: a client that has answered the           *)
(* challenge, where no rekey comes in between (docs/PROTOCOL_V5.md:51),    *)
(* and the loop that asked the INFO thread, unless it is stopped.  UDP     *)
(* input is served however long outbound data is held back, and outbound   *)
(* input is taken up again after every pause.  And what was begun ends: a  *)
(* handover, with the client at a worker whose gate is open, unless that   *)
(* worker has exited; the search for the path's size; the destructor's     *)
(* join; the passing of devices by a child that may wait for room, or die. *)
Waits(i) ==
  CASE part = "udp_moves" -> UdpMoves!Queued(i)
    [] part = "log_drains" -> log_started /\ read < i /\ i <= write
    [] part = "answers" -> i = 1 /\ c.state = "waiting_result"
    [] part = "info" -> i = 1 /\ ready /\ ~stopping
    [] part = "loop_serves" -> IF i = 1 THEN Serves!UdpWaits ELSE Serves!OutboundWaits
    [] OTHER -> FALSE
Served(i) ==
  IF part = "loop_serves" THEN IF i = 1 THEN Serves!UdpServed ELSE Serves!OutboundTaken ELSE ~Waits(i)
Unfinished == CASE part = "answers" -> c.pending # 0 /\ w[c.pending].status # "gone"
                [] part = "settles" -> pmtud_pending
                [] part = "info" -> stopping /\ pc # "gone"
                [] part = "tuns" -> tuns_pc \notin {"done", "failed"}
                [] OTHER -> FALSE
AllServed == (\A i \in 1 .. 2 : Waits(i) ~> Served(i)) /\ <>[](~Unfinished)
=============================================================================
