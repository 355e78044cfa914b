-------------------------------- MODULE Pmtud --------------------------------
(***************************************************************************)
(* Path MTU discovery of one tunnel end (tunnel.hpp): a binary search with *)
(* one probe at a time, answered by the peer, over a path that loses and   *)
(* delays, while sessions and the path change.  A probe is its id and the  *)
(* size it declares.                                                       *)
(***************************************************************************)
EXTENDS Integers, FiniteSets

CONSTANTS
  MinMtu,      \* min_transport_mtu
  UpperMtu,    \* pmtud_upper_mtu
  Configured,  \* options_.transport_mtu
  Paths,       \* what the path carries
  Devices,     \* what the local interface takes
  MaxRestarts  \* bound on restarts, and on changes of path and session

VARIABLES
  session,   \* "none", "unconfirmed" or "confirmed"
  fallback,  \* the session a failed one rolls back to
  started, pending,
  probe,     \* [id, size] of the last probe
  known_good, known_bad, active_mtu,
  last_id,
  probes, replies, \* in flight
  path, device,
  arrived,   \* history: probes of this search the peer has seen
  clean,     \* history: this search lost no probe the path carries
  restarts

search == <<started, pending, probe, known_good, known_bad, active_mtu, last_id>>
vars == <<session, fallback, search, probes, replies, path, device, arrived, clean, restarts>>

Upper == IF UpperMtu > Configured THEN UpperMtu ELSE Configured
First == IF Configured < MinMtu + 1 THEN MinMtu + 1 ELSE Configured
Ready == session # "none"

Finished(good, bad) == good >= Upper \/ (bad # 0 /\ bad <= good + 1)

Candidate(good, bad) ==
  LET middle == IF bad = 0 THEN Upper ELSE good + (bad - good) \div 2
  IN IF middle <= good THEN good + 1 ELSE middle

(* advance_pmtud_search() and send_mtu_probe() call each other while the   *)
(* local send fails: where they end, for every known_bad they may start    *)
(* from.                                                                   *)
Advance(good) ==
  LET step[bad \in 0 .. Upper] ==
        IF Finished(good, bad) \/ ~ Ready THEN [bad |-> bad, size |-> 0]
        ELSE IF Candidate(good, bad) <= device THEN [bad |-> bad, size |-> Candidate(good, bad)]
        ELSE step[Candidate(good, bad)]
  IN step

(* The search continues from these bounds; size 0 sends nothing.           *)
Continue(good, result) ==
  /\ known_good' = good /\ known_bad' = result.bad /\ active_mtu' = good
  /\ IF result.size = 0 THEN pending' = FALSE /\ UNCHANGED <<probe, last_id, probes>>
     ELSE /\ pending' = TRUE /\ last_id' = last_id + 1
          /\ probe' = [id |-> last_id', size |-> result.size]
          /\ probes' = probes \cup {probe'}

Init ==
  /\ session = "none" /\ fallback = "none" /\ started = FALSE /\ pending = FALSE
  /\ probe = [id |-> 0, size |-> 0] /\ last_id = 0
  /\ known_good = MinMtu /\ known_bad = 0 /\ active_mtu = MinMtu
  /\ probes = {} /\ replies = {} /\ path \in Paths /\ device \in Devices
  /\ arrived = {} /\ clean = TRUE /\ restarts = 0
-----------------------------------------------------------------------------
(* restart_pmtud() and start_pmtud().                                      *)
Restart ==
  /\ restarts < MaxRestarts /\ restarts' = restarts + 1
  /\ started' = TRUE /\ arrived' = {} /\ clean' = TRUE
  /\ Continue(MinMtu, IF First <= device THEN [bad |-> 0, size |-> First]
                      ELSE Advance(MinMtu)[First])

(* A data datagram exceeded the path, or the peer's address changed.       *)
PathComplains ==
  /\ session = "confirmed" /\ Restart
  /\ UNCHANGED <<session, fallback, replies, path, device>>

(* The client has a response: its key is in use before the peer confirms.  *)
NewKey ==
  /\ session # "unconfirmed" /\ restarts < MaxRestarts
  /\ session' = "unconfirmed" /\ fallback' = session
  /\ UNCHANGED <<search, probes, replies, path, device, arrived, clean, restarts>>

(* session_activated().                                                    *)
Activated ==
  /\ session = "unconfirmed"
  /\ session' = "confirmed" /\ Restart
  /\ UNCHANGED <<fallback, replies, path, device>>

(* SessionProtocol::tick() gives up a key that was not confirmed.          *)
RollBack ==
  /\ session = "unconfirmed" /\ session' = fallback
  /\ UNCHANGED <<fallback, search, probes, replies, path, device, arrived, clean, restarts>>

(* SessionProtocol::restart() on a relocation.                             *)
SessionDropped ==
  /\ session = "confirmed" /\ session' = "none"
  /\ UNCHANGED <<fallback, search, probes, replies, path, device, arrived, clean, restarts>>

(* handle_mtu_probe() of the peer; the path drops what does not fit.       *)
ProbeArrives(p) ==
  /\ p \in probes /\ p.size <= path
  /\ probes' = probes \ {p}
  /\ replies' = replies \cup {p}
  /\ arrived' = IF p.id \in {q.id : q \in arrived} \cup {probe.id} THEN arrived \cup {p} ELSE arrived
  /\ UNCHANGED <<session, fallback, search, path, device, clean, restarts>>

(* Variant: the size alone identifies the probe.                           *)
AnswersSize(r) == pending /\ r.size = probe.size

Answers(r) == pending /\ r.id = probe.id /\ r.size = probe.size

handle_mtu_reply(r) ==
  /\ r \in replies /\ session # "none"
  /\ replies' = replies \ {r}
  /\ IF Answers(r)
       THEN Continue(IF r.size > known_good THEN r.size ELSE known_good,
                     Advance(IF r.size > known_good THEN r.size ELSE known_good)[known_bad])
       ELSE UNCHANGED <<pending, probe, last_id, probes, known_good, known_bad, active_mtu>>
  /\ UNCHANGED <<session, fallback, started, path, device, arrived, clean, restarts>>

(* The timer does not know whether probe or reply are lost or late.        *)
handle_pmtud_timeout ==
  /\ pending
  /\ Continue(known_good, Advance(known_good)[probe.size])
  /\ clean' = (clean /\ probe.size > path)
  /\ UNCHANGED <<session, fallback, started, replies, path, device, arrived, restarts>>

Lose ==
  /\ \/ \E p \in probes : probes' = probes \ {p} /\ UNCHANGED replies
     \/ \E r \in replies : replies' = replies \ {r} /\ UNCHANGED probes
  /\ UNCHANGED <<session, fallback, search, path, device, arrived, clean, restarts>>

PathChanges ==
  /\ restarts < MaxRestarts
  /\ path' \in Paths \ {path} /\ clean' = FALSE
  /\ UNCHANGED <<session, fallback, search, probes, replies, device, arrived, restarts>>

Next ==
  \/ PathComplains \/ NewKey \/ Activated \/ RollBack \/ SessionDropped
  \/ (\E p \in probes : ProbeArrives(p)) \/ (\E r \in replies : handle_mtu_reply(r))
  \/ handle_pmtud_timeout \/ Lose \/ PathChanges

Spec == Init /\ [][Next]_vars

(* The main loop runs the timer at least once a second, and tick() gives   *)
(* an unconfirmed key up when its own deadline has passed.                 *)
FairSpec == Spec /\ WF_vars(handle_pmtud_timeout) /\ WF_vars(RollBack)
-----------------------------------------------------------------------------
(* The bounds of the search enclose the probe: the search narrows with     *)
(* every answer and every timeout, also a late one (tunnel.hpp:1924).      *)
Bracket ==
  /\ known_bad # 0 => known_good < known_bad
  /\ active_mtu = known_good
  /\ pending => known_good < probe.size /\ (known_bad # 0 => probe.size < known_bad)

(* The size in use is the smallest there is or one the peer has seen in    *)
(* this search; replies to an earlier search prove nothing (:1836).        *)
ActiveProven == active_mtu > MinMtu => \E p \in arrived : p.size = active_mtu

(* A search that met no loss ends with the largest size that passes.       *)
Exact ==
  (started /\ Ready /\ ~ pending /\ clean /\ Finished(known_good, known_bad)) =>
    LET limit == CHOOSE x \in {path, device, Upper} : \A y \in {path, device, Upper} : x <= y
    IN active_mtu = IF limit < MinMtu THEN MinMtu ELSE limit

(* With a confirmed session the search is under way or finished: no order  *)
(* of replies, timeouts and session changes leaves it waiting for nothing, *)
(* although send_mtu_probe() may silently do nothing (:1619).              *)
NeverStalls == (started /\ session = "confirmed") => pending \/ Finished(known_good, known_bad)

(* The search ends.                                                        *)
Settles == <>[](~ pending)
=============================================================================
