----------------------------- MODULE RttProbes -----------------------------
(***************************************************************************)
(* How a tunnel measures round trips and losses (tunnel.hpp): each side    *)
(* sends PINGs by a schedule of its own, remembers them until the PONG     *)
(* comes or five seconds have passed, and forgets them when a session is   *)
(* confirmed or the authenticated client is handed to a worker.            *)
(***************************************************************************)
EXTENDS Integers, Sequences, FiniteSets, Functions, SequencesExt

CONSTANTS
  Interval,     \* rtt_probe_interval_seconds, in units of time; even
  Timeout,      \* rtt_probe_timeout_seconds, likewise
  Lossy,        \* the network may lose, hold and reorder datagrams, and a send may fail
  Listener,     \* the server is a listener that hands its clients to workers
  MaxTime, MaxSessions, MaxProbes   \* bounds of a behaviour

VARIABLES
  now,       \* the time
  session,   \* the session each side has seen confirmed, counted from 1
  keyed,     \* the session the client sends with: it may wait for the ACK
  retired,   \* relocating_original_ of the listener
  active,    \* rtt_probe_schedule_active_
  next,      \* next_rtt_probe_
  probes,    \* rtt_probes_: when each probe without an answer was sent
  sent,      \* probes sent so far: the generator of their ids
  samples,   \* probes counted in rtt_samples, in that order
  lost,      \* probes counted in rtt_lost
  net        \* datagrams under way

vars == <<now, session, keyed, retired, active, next, probes, sent, samples, lost, net>>

Sides == {"client", "server"}
Peer(s) == IF s = "client" THEN "server" ELSE "client"
Nothing == [id \in {} |-> 0]

(* The client's schedule runs from the start of the program.               *)
Init ==
  /\ now = 0 /\ session = [s \in Sides |-> 0] /\ keyed = 0 /\ retired = FALSE
  /\ active = [s \in Sides |-> s = "client"]
  /\ next = [s \in Sides |-> Interval]
  /\ probes = [s \in Sides |-> Nothing] /\ sent = [s \in Sides |-> 0]
  /\ samples = [s \in Sides |-> <<>>] /\ lost = [s \in Sides |-> <<>>]
  /\ net = {}
-----------------------------------------------------------------------------
(* The session a side sends with; the codec needs one.                     *)
Current(s) == IF s = "client" THEN keyed ELSE session["server"]

(* A control packet leaves, or the socket refuses it.                      *)
SendControl(s, with, type, id, rest, ok) ==
  /\ ok \in (IF with # 0 THEN IF Lossy THEN BOOLEAN ELSE {TRUE} ELSE {FALSE})
  /\ net' = IF ok THEN rest \union {[to |-> Peer(s), type |-> type, id |-> id,
                                     session |-> with]}
                  ELSE rest

(* Only a probe that has left is remembered.                               *)
SendProbe(s, with, remembered, ok) ==
  /\ SendControl(s, with, "ping", sent[s] + 1, net, ok)
  /\ sent' = [sent EXCEPT ![s] = @ + 1]
  /\ probes' = [probes EXCEPT ![s] =
       IF ok THEN [id \in DOMAIN remembered \union {sent[s] + 1} |->
                     IF id = sent[s] + 1 THEN now ELSE remembered[id]]
             ELSE remembered]

Overdue(s, remembered) == {id \in DOMAIN remembered : now - remembered[id] >= Timeout}

(* cleanup_rtt_probes.                                                     *)
Cleanup(s, remembered) ==
  /\ lost' = [lost EXCEPT ![s] = @ \o SetToSeq(Overdue(s, remembered))]
  /\ probes' = [probes EXCEPT ![s] = Restrict(remembered, DOMAIN remembered \ Overdue(s, remembered))]

(* The timed part of a turn of the loop.                                   *)
ScheduledProbe(s, ok) ==
  /\ active[s] /\ now >= next[s] /\ sent[s] < MaxProbes
  /\ next' = [next EXCEPT ![s] = @ + Interval]
  /\ SendProbe(s, Current(s), Restrict(probes[s], DOMAIN probes[s] \ Overdue(s, probes[s])),
               ok)
  /\ lost' = [lost EXCEPT ![s] = @ \o SetToSeq(Overdue(s, probes[s]))]
  /\ UNCHANGED <<now, session, keyed, retired, active, samples>>

LoopCleanup(s) ==
  /\ ~(active[s] /\ now >= next[s]) /\ Overdue(s, probes[s]) # {}
  /\ Cleanup(s, probes[s])
  /\ UNCHANGED <<now, session, keyed, retired, active, next, sent, samples, net>>

(* The client has the RESPONSE: it sends with the new keys from here on.   *)
Response ==
  /\ keyed = session["client"] /\ keyed = session["server"] /\ keyed < MaxSessions
  /\ keyed' = keyed + 1
  /\ UNCHANGED <<now, session, retired, active, next, probes, sent, samples, lost, net>>

(* CONFIRM reaches the server, then its ACK the client.                    *)
MayConfirm(s) ==
  /\ session[s] < keyed /\ sent[s] < MaxProbes
  /\ s = "client" => session["server"] = keyed

Confirmed(s, remembered, ok) ==
  /\ MayConfirm(s)
  /\ session' = [session EXCEPT ![s] = @ + 1]
  /\ retired' = (retired /\ s = "client")
  /\ SendProbe(s, keyed, remembered, ok)
  /\ next' = [next EXCEPT ![s] = now + Interval]
  /\ active' = [active EXCEPT ![s] = TRUE]
  /\ UNCHANGED <<now, keyed, samples, lost>>

(* session_activated: the probes of the old session are forgotten, and the *)
(* first of the new one leaves.                                            *)
Activated(s, ok) == Confirmed(s, Nothing, ok)

(* The client is authenticated and relocated: stop_rtt_tracking.           *)
HandOver ==
  /\ Listener /\ session["server"] # 0 /\ ~retired
  /\ retired' = TRUE
  /\ active' = [active EXCEPT !["server"] = FALSE]
  /\ probes' = [probes EXCEPT !["server"] = Nothing]
  /\ UNCHANGED <<now, session, keyed, next, sent, samples, lost, net>>
-----------------------------------------------------------------------------
(* A session takes datagrams of the current keys and of the ones before,   *)
(* the server none of keys that are not confirmed.  A listener allows no   *)
(* traffic before it has authenticated its client, nor after.  Datagrams   *)
(* that are not reordered come after the CONFIRM or ACK sent before them.  *)
InTurn(m) == Lossy \/ m.session <= session[m.to]
Accepts(m) ==
  /\ m.session \in {Current(m.to) - 1, Current(m.to)}
  /\ InTurn(m)
  /\ ~(Listener /\ m.to = "server")

(* PING: a server whose schedule does not run starts it, half an interval  *)
(* off the client's; the answer carries the probe's id.                    *)
Ping(m, ok) ==
  /\ m.type = "ping" /\ Accepts(m)
  /\ LET starts == m.to = "server" /\ ~active["server"] IN
     /\ active' = [active EXCEPT ![m.to] = @ \/ starts]
     /\ next' = [next EXCEPT ![m.to] = IF starts THEN now + Interval \div 2 ELSE @]
  /\ SendControl(m.to, Current(m.to), "pong", m.id, net \ {m}, ok)
  /\ UNCHANGED <<now, session, keyed, retired, probes, sent, samples, lost>>

(* PONG: of a probe that is remembered, once.                              *)
Pong(m) ==
  /\ m.type = "pong" /\ Accepts(m)
  /\ net' = net \ {m}
  /\ IF m.id \in DOMAIN probes[m.to]
       THEN /\ samples' = [samples EXCEPT ![m.to] = Append(@, m.id)]
            /\ probes' = [probes EXCEPT ![m.to] = Restrict(@, DOMAIN @ \ {m.id})]
       ELSE UNCHANGED <<samples, probes>>
  /\ UNCHANGED <<now, session, keyed, retired, active, next, sent, lost>>

(* A datagram is lost, or refused where it arrives.                        *)
Drop(m) ==
  /\ Lossy \/ (~Accepts(m) /\ InTurn(m))
  /\ net' = net \ {m}
  /\ UNCHANGED <<now, session, keyed, retired, active, next, probes, sent, samples, lost>>

Due(s) == (active[s] /\ now >= next[s]) \/ Overdue(s, probes[s]) # {}

(* Time passes.  On a network that is not lossy both loops keep up, and    *)
(* datagrams and a rekeying that has begun arrive at once.                 *)
Tick ==
  /\ now < MaxTime
  /\ Lossy \/ (net = {} /\ session["client"] = keyed /\ \A s \in Sides : ~Due(s))
  /\ now' = now + 1
  /\ UNCHANGED <<session, keyed, retired, active, next, probes, sent, samples, lost, net>>

Next ==
  \/ \E s \in Sides, ok \in BOOLEAN : ScheduledProbe(s, ok)
  \/ \E s \in Sides : LoopCleanup(s)
  \/ \E s \in Sides, ok \in BOOLEAN : Activated(s, ok)
  \/ Response
  \/ HandOver
  \/ \E m \in net, ok \in BOOLEAN : Ping(m, ok)
  \/ \E m \in net : Pong(m)
  \/ \E m \in net : Drop(m)
  \/ Tick

Spec == Init /\ [][Next]_vars
-----------------------------------------------------------------------------
(* A probe is counted once at most, as a sample or as lost, and not while  *)
(* it still waits for its answer; only probes that were sent are counted.  *)
OneFate ==
  \A s \in Sides :
    LET counted == samples[s] \o lost[s] IN
    /\ IsInjective(counted)
    /\ Range(counted) \subseteq 1 .. sent[s] \ DOMAIN probes[s]

(* On a network that loses nothing and between loops that keep up, no      *)
(* probe is counted as lost, although sessions are replaced under way.     *)
NoFalseLoss == ~Lossy => \A s \in Sides : lost[s] = <<>>

(* A listener that has handed its client over counts no loss and sends no  *)
(* probe until it has confirmed another session.                           *)
SilentRetired ==
  retired /\ retired' => lost'["server"] = lost["server"] /\ sent'["server"] = sent["server"]
=============================================================================
