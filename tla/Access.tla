------------------------------- MODULE Access -------------------------------
(***************************************************************************)
(* AUTH and RELOCATE (v5_auth_state.hpp, relocation.hpp, tunnel.hpp): a    *)
(* listener challenges the client of its session, a helper process checks  *)
(* the answer, and the client is handed over to a worker process, which    *)
(* opens its gate once its ticket is bound.  Messages belong to a session, *)
(* may be lost and overtake each other, and are repeated until answered or *)
(* until their deadline.  Establishing a session is one step here; Session *)
(* has its steps.                                                          *)
(***************************************************************************)
EXTENDS Naturals, FiniteSets

CONSTANTS
  Workers,           \* the children the listener can start, in this order
  MaxSessions, MaxClients, MaxDeadlines,     \* bounds: sessions with rekeys, client incarnations, deadlines passed
  MaxChildren,       \* auth_max_children
  Relocates          \* whether the listener has a switch socket, so that clients are handed over

VARIABLES
  c,         \* the client: state, id, pending (a ticket or 0), target, sess, inc
  l,         \* the listener: state, id, handed (relocating_original_), active, sess, peer
  job,       \* the verification in progress: {} or {challenge id}
  w,         \* each worker: status, sess, joins
  crel, lrel,        \* reliable_ of client and listener: sets of <<type, argument>>
  net,       \* messages on their way
  notes,     \* workers whose "BOUND" is in the control socket
  last, deadlines    \* the last session and challenge numbers given out; deadlines passed

vars == <<c, l, job, w, crel, lrel, net, notes, last, deadlines>>

\* The ends of a session besides the workers.
Listener == 0
Client == Cardinality(Workers) + 1

FreshClient(i) == [state |-> "open", id |-> 0, pending |-> 0, target |-> Listener, sess |-> 0, inc |-> i]

Init ==
  /\ c = FreshClient(1)
  /\ l = [state |-> "need_challenge", id |-> 0, handed |-> FALSE, active |-> 0, sess |-> 0, peer |-> 0]
  /\ job = {} /\ w = [i \in Workers |-> [status |-> "none", sess |-> 0, joins |-> 0]]
  /\ crel = {} /\ lrel = {} /\ net = {} /\ notes = {}
  /\ last = [sess |-> 0, id |-> 0] /\ deadlines = 0

-----------------------------------------------------------------------------
Msg(to, s, x) == [to |-> to, sess |-> s, what |-> x]
ToClient(s, X) == {Msg(Client, s, x) : x \in X}
\* Reliable messages have one entry per type; a new one replaces the old.
Reliably(rel, x) == {y \in rel : y[1] # x[1]} \union {x}
Acknowledge(rel, types) == {y \in rel : y[1] \notin types}

AllowsData(state) == state \in {"open", "authenticated"}
\* Variant: a handover under way does not close the gate.
GatedByAuthOnly == AllowsData(c.state)
ClientTraffic == AllowsData(c.state) /\ c.pending = 0

-----------------------------------------------------------------------------
(* session_activated() at both ends of a new session.                      *)
Again == l.handed \/ l.state = "rejected" \/ (l.peer # c.inc /\ l.state # "need_challenge")

\* begin_session_auth()
Challenge == <<"challenge", last.id + 1>>

ConnectListener ==
  LET s == last.sess + 1
      fresh == Again \/ l.state = "need_challenge"
  IN /\ c.target = Listener /\ (c.sess = 0 \/ s <= MaxSessions)
     /\ c' = [c EXCEPT !.sess = s]
     /\ IF fresh
        THEN /\ l' = [l EXCEPT !.state = "pending", !.id = last.id + 1, !.handed = FALSE, !.sess = s, !.peer = c.inc]
             /\ lrel' = Reliably(IF Again THEN {} ELSE lrel, Challenge)
             /\ net' = {m \in net : m.to \in Workers} \union ToClient(s, {Challenge})
             /\ last' = [sess |-> s, id |-> last.id + 1]
        ELSE /\ l' = [l EXCEPT !.sess = s, !.peer = c.inc]
             /\ last' = [last EXCEPT !.sess = s]
             /\ net' = {m \in net : m.to \in Workers}
             /\ UNCHANGED lrel
     /\ UNCHANGED <<job, w, crel, notes, deadlines>>

ConnectWorker ==
  LET s == last.sess + 1
      i == c.target
      bind == <<"bind", c.pending>>
  IN /\ i \in Workers /\ w[i].status # "gone" /\ (c.sess = 0 \/ s <= MaxSessions)
     /\ c' = [c EXCEPT !.sess = s] /\ w' = [w EXCEPT ![i].sess = s] /\ last' = [last EXCEPT !.sess = s]
     /\ crel' = IF c.pending # 0 THEN Reliably(crel, bind) ELSE crel
     /\ net' = {m \in net : m.to # Client} \union (IF c.pending # 0 THEN {Msg(i, s, bind)} ELSE {})
     /\ UNCHANGED <<l, job, lrel, notes, deadlines>>

-----------------------------------------------------------------------------
(* handle_session_extension()                                              *)
ReceiveChallenge(id) == c.state = "open" \/ (c.state = "pending" /\ c.id = id)

ClientChallenge(id, answers) ==
  /\ ReceiveChallenge(id)
  /\ c' = [c EXCEPT !.state = IF answers THEN "waiting_result" ELSE "pending", !.id = id]
  /\ crel' = IF answers THEN Reliably(crel, <<"response", id>>) ELSE crel
  /\ net' = (net \ {Msg(Client, c.sess, <<"challenge", id>>)})
            \union (IF answers THEN {Msg(c.target, c.sess, <<"response", id>>)} ELSE {})
  /\ UNCHANGED <<l, job, w, lrel, notes, last, deadlines>>

OwnResult(id) == c.state = "waiting_result" /\ c.id = id

ClientResult(type, id) ==
  /\ OwnResult(id)
  /\ c' = [c EXCEPT !.state = IF type = "ok" THEN "authenticated" ELSE "rejected"]
  /\ crel' = Acknowledge(crel, {"response"})
  /\ net' = net \ {Msg(Client, c.sess, <<type, id>>)}
  /\ UNCHANGED <<l, job, w, lrel, notes, last, deadlines>>

ClientRelocate(i) ==
  /\ AllowsData(c.state)
  /\ c' = [c EXCEPT !.pending = i, !.target = i, !.sess = 0]
  /\ crel' = Acknowledge(crel, {"response", "ok"})
  /\ net' = {m \in net : m.to # Client}
  /\ UNCHANGED <<l, job, w, lrel, notes, last, deadlines>>

ClientRelocated(i) ==
  /\ c.pending = i
  /\ c' = [c EXCEPT !.pending = 0]
  /\ crel' = Acknowledge(crel, {"bind"})
  /\ net' = net \ {Msg(Client, c.sess, <<"relocated", i>>)}
  /\ UNCHANGED <<l, job, w, lrel, notes, last, deadlines>>

\* A previous job still running is waited for and its result dropped.
ListenerResponse(id) ==
  /\ l.state = "pending" /\ l.id = id
  /\ l' = [l EXCEPT !.state = "verifying"]
  /\ lrel' = Acknowledge(lrel, {"challenge"})
  /\ job' = {id}
  /\ net' = net \ {Msg(Listener, l.sess, <<"response", id>>)}
  /\ UNCHANGED <<c, w, crel, notes, last, deadlines>>

\* Ticket::consume(): once, before its expiry, with its own token.
Consumes(i, t) == w[i].status = "waiting" /\ t = i

BoundReply(i) == ToClient(w[i].sess, {<<"relocated", i>>})

WorkerBind(i, t) ==
  /\ \/ /\ Consumes(i, t)
        /\ w' = [w EXCEPT ![i].status = "bound", ![i].joins = @ + 1]
        /\ notes' = notes \union {i}
     \/ /\ ~Consumes(i, t) /\ w[i].status = "bound" /\ t = i        \* accepted before: repeat the answer
        /\ UNCHANGED <<w, notes>>
  /\ net' = (net \ {Msg(i, w[i].sess, <<"bind", t>>)}) \union BoundReply(i)
  /\ UNCHANGED <<c, l, job, crel, lrel, last, deadlines>>

Deliver(m) ==
  \/ m.to = Client /\ m.sess = c.sess /\
     \/ m.what[1] = "challenge" /\ \E answers \in BOOLEAN : ClientChallenge(m.what[2], answers)
     \/ m.what[1] \in {"ok", "failed"} /\ ClientResult(m.what[1], m.what[2])
     \/ m.what[1] = "relocate" /\ ClientRelocate(m.what[2])
     \/ m.what[1] = "relocated" /\ ClientRelocated(m.what[2])
  \/ m.to = Listener /\ m.sess = l.sess /\ m.what[1] = "response" /\ ListenerResponse(m.what[2])
  \/ m.to \in Workers /\ m.sess = w[m.to].sess /\ m.what[1] = "bind" /\ WorkerBind(m.to, m.what[2])

Receive == \E m \in net : Deliver(m)
\* Lost on the way, or ignored by its receiver.
Lose == \E m \in net : net' = net \ {m} /\ UNCHANGED <<c, l, job, w, crel, lrel, notes, last, deadlines>>

-----------------------------------------------------------------------------
(* finish_auth_job(): start a worker and answer, in whatever session there *)
(* is now.                                                                 *)
Children == {i \in Workers : w[i].status # "none"}
NextWorker == {i \in Workers : w[i].status = "none" /\ \A j \in Workers : j < i => w[j].status # "none"}

Answer(X) ==
  /\ lrel' = {y \in lrel : y[1] \notin {x[1] : x \in X}} \union X
  /\ net' = net \union (IF l.sess = 0 THEN {} ELSE ToClient(l.sess, X))

Verified(allow) == IF l.state # "verifying" THEN l.state ELSE IF allow THEN "authenticated" ELSE "rejected"

JobAllowsHere ==
  \E id \in job :
    /\ ~Relocates
    /\ l' = [l EXCEPT !.state = Verified(TRUE)]
    /\ Answer({<<"ok", id>>})
    /\ job' = {}
    /\ UNCHANGED <<c, w, crel, notes, last, deadlines>>

JobAllows ==
  \E id \in job, i \in NextWorker :
    /\ Relocates
    /\ Cardinality({j \in Children : w[j].status # "gone"}) < MaxChildren
    /\ w' = [w EXCEPT ![i].status = "waiting"]
    /\ l' = [l EXCEPT !.state = Verified(TRUE), !.handed = TRUE, !.active = i]
    /\ Answer({<<"ok", id>>, <<"relocate", i>>})
    /\ job' = {}
    /\ UNCHANGED <<c, crel, notes, last, deadlines>>

\* Denied by the helper, no helper result, too many children, or no worker could be started.
JobDenies ==
  \E id \in job :
    /\ l' = [l EXCEPT !.state = Verified(FALSE)]
    /\ Answer({<<"failed", id>>})
    /\ job' = {}
    /\ UNCHANGED <<c, w, crel, notes, last, deadlines>>

\* reap_children(): a worker's notice ends the retries of its own handover only.
StopsRetries(i) == i = l.active

ReadNote ==
  \E i \in notes :
    /\ notes' = notes \ {i}
    /\ IF StopsRetries(i)
       THEN lrel' = Acknowledge(lrel, {"ok", "relocate"}) /\ l' = [l EXCEPT !.active = 0]
       ELSE UNCHANGED <<lrel, l>>
    /\ UNCHANGED <<c, job, w, crel, net, last, deadlines>>

\* tick_extensions(): repeat what is unanswered, or give it up at its deadline.
ClientRepeats ==
  /\ c.sess # 0 /\ crel # {}
  /\ net' = net \union {Msg(c.target, c.sess, x) : x \in crel}
  /\ UNCHANGED <<c, l, job, w, crel, lrel, notes, last, deadlines>>

ListenerRepeats ==
  /\ l.sess = c.sess /\ l.sess # 0 /\ lrel # {}
  /\ net' = net \union ToClient(l.sess, lrel)
  /\ UNCHANGED <<c, l, job, w, crel, lrel, notes, last, deadlines>>

Deadline ==
  /\ deadlines < MaxDeadlines /\ deadlines' = deadlines + 1
  /\ \/ \E x \in crel : crel' = crel \ {x} /\ UNCHANGED lrel
     \/ \E x \in lrel : lrel' = lrel \ {x} /\ UNCHANGED crel
  /\ UNCHANGED <<c, l, job, w, net, notes, last>>

\* The expiry of a ticket, ten seconds after the worker was started.
TicketExpires ==
  /\ deadlines < MaxDeadlines /\ deadlines' = deadlines + 1
  /\ \E i \in Workers : w[i].status = "waiting" /\ w' = [w EXCEPT ![i].status = "expired"]
  /\ UNCHANGED <<c, l, job, crel, lrel, net, notes, last>>

\* The client process is started again; it comes from another UDP port of the same host.
ClientRestart ==
  /\ c.inc < MaxClients
  /\ c' = FreshClient(c.inc + 1) /\ crel' = {}
  /\ net' = {m \in net : m.to # Client}
  /\ UNCHANGED <<l, job, w, lrel, notes, last, deadlines>>

\* A worker that has accepted no packet for 60 seconds exits, wherever its client is.
WorkerExit ==
  \E i \in Workers :
    /\ w[i].status \in {"waiting", "expired", "bound"}
    /\ w' = [w EXCEPT ![i].status = "gone"]
    /\ UNCHANGED <<c, l, job, crel, lrel, net, notes, last, deadlines>>

\* reap_children(): it is no longer the one waited for; what it had to say has been read.
Reap ==
  /\ l.active \in Workers \ notes /\ w[l.active].status = "gone"
  /\ l' = [l EXCEPT !.active = 0]
  /\ UNCHANGED <<c, job, w, crel, lrel, net, notes, last, deadlines>>

Next == ConnectListener \/ ConnectWorker \/ Receive \/ Lose \/ JobAllowsHere \/ JobAllows \/ JobDenies
        \/ ReadNote \/ Reap \/ ClientRepeats \/ ListenerRepeats \/ Deadline \/ TicketExpires
        \/ ClientRestart \/ WorkerExit
Spec == Init /\ [][Next]_vars

\* The loops run on: sessions are made, jobs end, messages are repeated, and of a message that
\* is repeated for ever one gets through.
ReceiveType(t) == \E m \in net : m.what[1] = t /\ Deliver(m)
Fairness ==
  /\ WF_vars(c.sess = 0 /\ ConnectListener) /\ WF_vars(c.sess = 0 /\ ConnectWorker)
  /\ WF_vars(JobAllowsHere \/ JobAllows \/ JobDenies) /\ WF_vars(ReadNote) /\ WF_vars(ClientRepeats) /\ WF_vars(ListenerRepeats)
  /\ \A t \in {"response", "ok", "failed", "relocate", "relocated", "bind"} : SF_vars(ReceiveType(t))
FairSpec == Spec /\ Fairness

-----------------------------------------------------------------------------
\* A client sends data to a worker only when that worker has consumed its ticket, once: the gate
\* is open, or the worker has exited since and the data goes nowhere.  RELOCATE_OK comes from no
\* other, whatever answers and sessions came in between.
GateAgrees ==
  ClientTraffic /\ c.target \in Workers =>
    w[c.target].joins = 1 /\ w[c.target].status \in {"bound", "gone"}

\* A client authenticated by the listener's current challenge is authenticated at the listener:
\* the result of an earlier verification is never taken for this one's.
AuthAgrees == c.state = "authenticated" /\ c.id = l.id => l.state = "authenticated"

\* The retries of a handover end only when its own worker was bound, the listener starts over with
\* a new session, a newer answer replaces them or a deadline passes (docs/PROTOCOL_V5.md:136).
KeepsRetries ==
  \A i \in Workers : <<"relocate", i>> \in lrel /\ <<"relocate", i>> \notin lrel' =>
    w[i].joins = 1 \/ last' # last \/ (job # {} /\ job' = {}) \/ deadlines' # deadlines

\* A client that has answered is told the result (docs/PROTOCOL_V5.md:51), no deadline passing.
Answered == c.state = "waiting_result" ~> c.state # "waiting_result"
=============================================================================
