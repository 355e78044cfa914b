----------------------------- MODULE TunnelLoop -----------------------------
(***************************************************************************)
(* The event loop of a tunnel process (tunnel.hpp run()): one thread takes *)
(* packets from the TUN device, the UDP socket and the switch socket in a  *)
(* rotating order, several rounds when overloaded, stops taking outbound   *)
(* packets while datagrams wait for the UDP socket, stages frames for the  *)
(* switch and flushes them, reconnects, and backs off after a failed       *)
(* allocation.  What queues and transports do inside is modelled elsewhere *)
(* (UdpTransmit, SwitchTransport, Session): here they are lengths.         *)
(***************************************************************************)
EXTENDS Naturals

CONSTANTS
  MaxWaiting,     \* bound on packets waiting in the kernel per source
  MaxRounds,      \* rounds of an overloaded slice (4 to 16 in the code)
  MaxFailures,    \* bound on failed allocations
  Batch           \* frames staged before append() flushes by itself

Tun == 0
Udp == 1
Sw == 2
Sources == {Tun, Udp, Sw}

VARIABLES
  pc,          \* "top", "poll", "slice", "tail" or "backoff"
  waiting,     \* packets in the kernel, per source
  txq,         \* datagrams in udp_tx_queue_
  open,        \* session ready and traffic allowed
  link,        \* the switch: "connected", "connecting" or "disconnected"
  staged,      \* frames staged for the switch
  polled,      \* sources the poll found readable
  turn,        \* next_data_source_
  round, offset, progress,
  overload,    \* AdaptivePolling: overloaded_
  busy,        \* its busy streak has reached the entry streak
  last,        \* the source served by the last step, or 3
  failures

vars == <<pc, waiting, txq, open, link, staged, polled, turn, round, offset, progress, overload, busy, last, failures>>
slice == <<polled, turn, round, offset, progress>>
Nobody == 3

Init ==
  /\ pc = "top" /\ waiting = [s \in Sources |-> 0] /\ txq = 0 /\ open = FALSE /\ link = "disconnected"
  /\ staged = 0 /\ polled = {} /\ turn = 0 /\ round = 0 /\ offset = 0 /\ progress = FALSE
  /\ overload = FALSE /\ busy = FALSE /\ last = Nobody /\ failures = 0

\* The world: packets arrive.
Arrive ==
  /\ \E s \in Sources : /\ waiting[s] < MaxWaiting /\ (s = Sw => link = "connected")
                        /\ waiting' = [waiting EXCEPT ![s] = @ + 1]
  /\ last' = Nobody
  /\ UNCHANGED <<pc, txq, open, link, staged, slice, overload, busy, failures>>

-----------------------------------------------------------------------------
Disconnected(w) == [w EXCEPT ![Sw] = 0]

\* Session changes and expiry may have emptied the queue of datagrams when poll() is prepared.
Top(empties) ==
  /\ pc = "top" /\ pc' = "poll"
  /\ IF empties THEN txq > 0 /\ txq' = 0 ELSE UNCHANGED txq
  /\ last' = Nobody
  /\ UNCHANGED <<waiting, open, link, staged, slice, overload, busy, failures>>

Interest(s) == IF s = Udp THEN TRUE ELSE txq = 0 /\ (s = Sw => link = "connected")

\* A long wait ends the overload, a short one extends the streak, one between resets it.
ObservePoll ==
  \/ overload' = FALSE /\ busy' = FALSE
  \/ busy' \in BOOLEAN /\ UNCHANGED overload

\* flush_udp_tx()
FlushUdp == txq' \in 0..txq

Poll ==
  /\ pc = "poll" /\ pc' = "slice"
  /\ polled' = {s \in Sources : Interest(s) /\ waiting[s] > 0}
  /\ ObservePoll /\ FlushUdp
  /\ round' = 1 /\ offset' = 0 /\ progress' = FALSE /\ last' = Nobody
  /\ UNCHANGED <<waiting, open, link, staged, turn, failures>>

-----------------------------------------------------------------------------
(* Serving one packet.                                                     *)
\* send_data(): dropped, sent, failed, or kept when the socket would block.
SendData == txq' \in (IF open THEN {txq, txq + 1} ELSE {txq}) /\ UNCHANGED <<open, link, staged>>

Lost == link' = "disconnected" /\ staged' = 0

\* append_frame(): the frame is staged; the last of a batch goes out with the others, and a
\* broken socket is closed.
Append ==
  \/ staged + 1 < Batch /\ staged' = staged + 1 /\ UNCHANGED link
  \/ staged + 1 >= Batch /\ staged' = 0 /\ UNCHANGED link
  \/ Lost

\* deliver_received_data() to the switch or the TUN device, or session, probe and control packets.
ReceiveUdp ==
  \/ /\ open /\ link = "connected" /\ Append /\ UNCHANGED <<txq, open>>
  \/ UNCHANGED <<txq, open, link, staged>>
  \/ /\ open' \in BOOLEAN /\ txq' = 0 /\ UNCHANGED <<link, staged>>

\* A frame from the switch is sent on or written to the TUN device; end of file and errors disconnect.
ReceiveSwitch ==
  \/ SendData
  \/ UNCHANGED <<txq, open, link, staged>>
  \/ Lost /\ UNCHANGED <<txq, open>>

Source == (turn + offset) % 3
Taken(s) ==
  /\ round = 1 => s \in polled
  /\ s # Udp => txq = 0
  /\ waiting[s] > 0 /\ (s = Sw => link = "connected")

\* The next source of the round: one packet, or nothing there.
Serve ==
  /\ pc = "slice" /\ offset < 3
  /\ offset' = offset + 1
  /\ IF Taken(Source)
     THEN /\ \/ Source = Tun /\ SendData
             \/ Source = Udp /\ ReceiveUdp
             \/ Source = Sw /\ ReceiveSwitch
          /\ waiting' = (IF link' = "connected" THEN [waiting EXCEPT ![Source] = @ - 1]
                         ELSE Disconnected([waiting EXCEPT ![Source] = @ - 1]))
          /\ progress' = TRUE /\ last' = Source
     ELSE UNCHANGED <<waiting, txq, open, link, staged, progress>> /\ last' = Nobody
  /\ UNCHANGED <<pc, polled, turn, round, overload, busy, failures>>

\* bad_alloc while a packet is handled, or in the rest of the pass: the packet and the staged
\* frames are discarded.
OutOfMemory ==
  /\ failures < MaxFailures /\ failures' = failures + 1
  /\ \/ /\ pc = "slice" /\ offset < 3 /\ Taken(Source)
        /\ waiting' = [waiting EXCEPT ![Source] = @ - 1] /\ last' = Source
     \/ pc \in {"top", "tail"} /\ last' = Nobody /\ UNCHANGED waiting
  /\ pc' = "backoff" /\ staged' = 0
  /\ UNCHANGED <<txq, open, link, slice, overload, busy>>

\* poll() itself fails.
PollFailed ==
  /\ pc = "poll" /\ failures < MaxFailures /\ failures' = failures + 1
  /\ pc' = "backoff" /\ last' = Nobody
  /\ UNCHANGED <<waiting, txq, open, link, staged, slice, overload, busy>>

\* After 100 ms, in which only control requests are served.
Resume == pc = "backoff" /\ pc' = "top" /\ last' = Nobody
          /\ UNCHANGED <<waiting, txq, open, link, staged, slice, overload, busy, failures>>

Rounds == IF overload THEN MaxRounds ELSE 1

\* The end of a round: another one, or the end of the slice, also when its time is up.
EndRound ==
  /\ pc = "slice" /\ offset = 3
  /\ turn' = (turn + 1) % 3 /\ last' = Nobody
  /\ \/ /\ progress /\ round < Rounds
        /\ round' = round + 1 /\ offset' = 0 /\ progress' = FALSE
        /\ UNCHANGED pc
     \/ pc' = "tail" /\ UNCHANGED <<round, offset, progress>>
  /\ UNCHANGED <<waiting, txq, open, link, staged, polled, overload, busy, failures>>

\* data_backlog_ready()
Backlog == \E s \in Sources : Interest(s) /\ waiting[s] > 0

\* A confirmed backlog after a streak of immediate polls is an overload; it ends some time after
\* the last one seen.
ObserveBacklog ==
  /\ overload' \in (IF Backlog /\ busy THEN {TRUE} ELSE IF Backlog THEN {overload} ELSE {overload, FALSE})
  /\ busy' = IF overload /\ ~overload' THEN FALSE ELSE busy

\* flush(): into the socket or its retry queue; an error, or a hang-up poll() reported, disconnects.
Flush == (staged' = 0 /\ UNCHANGED link) \/ Lost

\* try_switch_reconnect()
Reconnect == link' \in (IF link = "connecting" THEN {"connecting", "connected", "disconnected"}
                        ELSE {"disconnected", "connecting"})

\* The rest of the pass: flush, backlog check, reconnection, timers.
Tail ==
  /\ pc = "tail" /\ pc' = "top"
  /\ \/ link = "connected" /\ Flush
     \/ link # "connected" /\ Reconnect /\ UNCHANGED staged
  /\ waiting' = IF link' = "connected" THEN waiting ELSE Disconnected(waiting)
  /\ ObserveBacklog
  /\ (open' \in BOOLEAN /\ txq' = 0) \/ UNCHANGED <<open, txq>>
  /\ last' = Nobody
  /\ UNCHANGED <<slice, failures>>
Step == Top(FALSE) \/ Top(TRUE) \/ Poll \/ Serve \/ OutOfMemory \/ PollFailed \/ Resume \/ EndRound \/ Tail
Next == Arrive \/ Step

\* The loop always goes on (poll() has a timeout), and a datagram that cannot be sent expires.
Spec == Init /\ [][Next]_vars /\ WF_vars(Step) /\ SF_vars(Top(TRUE))

-----------------------------------------------------------------------------
\* The loop never waits with frames for the switch still staged: whatever ended the slice, they
\* have been flushed or discarded.
NothingStagedAsleep == pc \in {"top", "poll", "backoff"} => staged = 0

\* UDP input is served however long outbound data is held back, so that two peers whose
\* send buffers are full keep reading from each other.
UdpWaits == waiting[Udp] > 0
UdpServed == last = Udp

\* Outbound input is taken up again after every pause, for whatever reason the queue emptied.
OutboundWaits == waiting[Tun] > 0
OutboundTaken == last \in {Tun, Sw}
=============================================================================
