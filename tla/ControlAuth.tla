---------------------------- MODULE ControlAuth ----------------------------
(***************************************************************************)
(* How remote commands are authenticated (control_auth.hpp, and the part   *)
(* of remote_control.hpp that asks for it): the node that executes answers *)
(* an unproven frame with a challenge, the peer that holds the authority's *)
(* key repeats the frame with a proof, and each challenge that is answered *)
(* carries counters of its own in both directions.  Frames overtake one    *)
(* another and may be lost; the tunnel below delivers none of them twice.  *)
(* Proofs are not made up by others, and a request and its result fit into *)
(* one frame each (RemoteControl has their transfer).                      *)
(***************************************************************************)
EXTENDS Naturals, Sequences, FiniteSets, FiniteSetsExt, SequencesExt

CONSTANTS
  Requests,
  Need,          \* capabilities, with their level, that a request needs
  Basic,         \* those of a frame of an unknown request: "read"
  Signing,       \* the authority's keys with their grants, in order
  Trusted,       \* what the node grants to each key
  Requirements,  \* --control-require-authority: keys, or None
  None,
  MaxLive,       \* challenges the node keeps (32)
  MaxOut,        \* sessions the authority keeps (16)
  Window,        \* width of the replay window (64)
  Retries,       \* of each request
  MaxChallenges, \* bound on the challenges of a behaviour
  Faults         \* what may happen: "loss", "expiry", "pacing"

VARIABLES
  required,    \* what the node was configured with
  asked,       \* the authority's requests
  outgoing,    \* its session for each request
  incoming,    \* the node's challenges
  responding,  \* the challenge that each request was proven with
  txn,         \* the node's transactions: the key each was admitted with
  made,        \* challenges made so far
  net,         \* frames on the way
  strange      \* history: a proven frame came from another key than its transaction

vars == <<required, asked, outgoing, incoming, responding, txn, made, net, strange>>

NoRequest == [phase |-> "new", last |-> "put", attempts |-> 0]

Init ==
  /\ required \in Requirements
  /\ asked = [r \in Requests |-> NoRequest]
  /\ outgoing = [r \in Requests |-> None]
  /\ incoming = [n \in {} |-> None]
  /\ responding = [r \in Requests |-> None]
  /\ txn = [r \in Requests |-> None]
  /\ made = 0 /\ net = {} /\ strange = FALSE
-----------------------------------------------------------------------------
(* Window::accept.                                                         *)
Accepts(rx, seq) == seq \notin rx /\ \A old \in rx : old < seq + Window

Frame(kind, r, n, key, seq) == [kind |-> kind, request |-> r, n |-> n, key |-> key, seq |-> seq]
Without(ns) == [n \in DOMAIN incoming \ ns |-> incoming[n]]
Of(r) == {n \in DOMAIN incoming : incoming[n].request = r}

(* emit: with a proof when there is a session; `a' is the request's record *)
(* and s its session from now on.                                          *)
Emit(r, kind, a, s, rest) ==
  LET signed == IF s = None THEN None ELSE [s EXCEPT !.tx = @ + 1]
  IN  /\ asked' = [asked EXCEPT ![r] = [a EXCEPT !.last = kind]]
      /\ outgoing' = [outgoing EXCEPT ![r] = signed]
      /\ net' = rest \cup {IF s = None THEN Frame(kind, r, None, None, a.attempts)
                                       ELSE Frame(kind, r, s.n, s.key, signed.tx)}

Waiting(r) == asked[r].phase \in {"put", "finish"}

Submit(r) ==
  /\ asked[r].phase = "new"
  /\ Emit(r, "put", [NoRequest EXCEPT !.phase = "put"], None, net)
  /\ UNCHANGED <<required, incoming, responding, txn, made, strange>>

(* The timer of a request: asks again, or gives up.                        *)
Retry(r) ==
  /\ Waiting(r) /\ asked[r].attempts < Retries
  /\ Emit(r, IF asked[r].phase = "finish" THEN "finish" ELSE "status",
          [asked[r] EXCEPT !.attempts = @ + 1], outgoing[r], net)
  /\ UNCHANGED <<required, incoming, responding, txn, made, strange>>

(* The result is a time-out, and the next tick frees the session.          *)
GiveUp(r) ==
  /\ Waiting(r) /\ asked[r].attempts = Retries
  /\ asked' = [asked EXCEPT ![r].phase = "failed"]
  /\ outgoing' = [outgoing EXCEPT ![r] = None]
  /\ UNCHANGED <<required, incoming, responding, txn, made, net, strange>>

(* accept_challenge: the first key that will do.                           *)
Chosen(c) ==
  LET fits == {i \in DOMAIN Signing :
                 IF c.authority # None THEN Signing[i].key = c.authority
                                       ELSE c.caps \subseteq Signing[i].caps}
  IN  IF fits = {} THEN None ELSE Signing[Min(fits)].key

(* Variant: the first challenge stays, later ones are ignored.             *)
OnChallengeFirst(c) ==
  LET r == c.request
      key == Chosen(c)
  IN  /\ c.kind = "challenge"
      /\ IF ~Waiting(r) \/ key = None \/ outgoing[r] # None
           THEN net' = net \ {c} /\ UNCHANGED <<asked, outgoing>>
           ELSE Emit(r, asked[r].last, asked[r], [n |-> c.n, key |-> key, tx |-> 0, rx |-> {}], net \ {c})
      /\ UNCHANGED <<required, incoming, responding, txn, made, strange>>

OnChallenge(c) ==
  LET r == c.request
      key == Chosen(c)
      full == outgoing[r] = None /\ Cardinality({q \in Requests : outgoing[q] # None}) >= MaxOut
  IN  /\ c.kind = "challenge"
      /\ IF ~Waiting(r) \/ key = None \/ full \/ (outgoing[r] # None /\ outgoing[r].n = c.n)
           THEN net' = net \ {c} /\ UNCHANGED <<asked, outgoing>>
           ELSE Emit(r, asked[r].last, asked[r], [n |-> c.n, key |-> key, tx |-> 0, rx |-> {}], net \ {c})
      /\ UNCHANGED <<required, incoming, responding, txn, made, strange>>

Replies == {"result", "not_found", "confirmed"}

(* verify_reply, and what the request makes of a reply that is genuine.    *)
OnReply(m) ==
  LET r == m.request
      s == outgoing[r]
      a == asked[r]
      genuine == s # None /\ s.n = m.n /\ s.key = m.key /\ Accepts(s.rx, m.seq)
      read == [s EXCEPT !.rx = @ \cup {m.seq}]
  IN  /\ m.kind \in Replies
      /\ \/ /\ ~genuine
            /\ net' = net \ {m} /\ UNCHANGED <<asked, outgoing>>
         \/ /\ genuine /\ (~Waiting(r) \/ (m.kind = "confirmed") # (a.phase = "finish"))
            /\ net' = net \ {m} /\ outgoing' = [outgoing EXCEPT ![r] = read] /\ UNCHANGED asked
         \/ /\ genuine /\ a.phase = "finish" /\ m.kind = "confirmed"
            /\ net' = net \ {m}
            /\ asked' = [asked EXCEPT ![r].phase = "done"]
            /\ outgoing' = [outgoing EXCEPT ![r] = None]
         \/ /\ genuine /\ a.phase = "put" /\ m.kind = "not_found"
            /\ Emit(r, "put", a, read, net \ {m})
         \/ /\ genuine /\ a.phase = "put" /\ m.kind = "result"
            /\ Emit(r, "finish", [a EXCEPT !.phase = "finish"], read, net \ {m})
      /\ UNCHANGED <<required, incoming, responding, txn, made, strange>>
-----------------------------------------------------------------------------
(* The node.                                                               *)

Caps(m) == IF m.kind = "put" \/ txn[m.request] # None THEN Need[m.request] ELSE Basic

Verifies(m) ==
  /\ m.n \in DOMAIN incoming
  /\ LET s == incoming[m.n]
     IN  /\ s.request = m.request
         /\ m.key \in DOMAIN Trusted
         /\ IF s.authority # None THEN s.authority = m.key ELSE s.caps \subseteq Trusted[m.key]
         /\ Caps(m) \subseteq Trusted[m.key]
         /\ s.bound => s.key = m.key
         /\ Accepts(s.rx, m.seq)

(* The challenge that is answered first ends the others of its request.    *)
Bound(m) ==
  [n \in (DOMAIN incoming \ Of(m.request)) \cup {m.n} |->
     IF n = m.n THEN [incoming[n] EXCEPT !.bound = TRUE, !.key = m.key, !.rx = @ \cup {m.seq}]
                ELSE incoming[n]]

(* challenge(): one every 20 ms, and as many as there is room for.         *)
Challenge(m) ==
  IF Cardinality(DOMAIN incoming) >= MaxLive
    THEN net' = net \ {m} /\ UNCHANGED <<incoming, made>>
    ELSE \/ /\ "pacing" \in Faults
            /\ net' = net \ {m} /\ UNCHANGED <<incoming, made>>
         \/ /\ made < MaxChallenges
            /\ made' = made + 1
            /\ LET c == [request |-> m.request, authority |-> required,
                         caps |-> IF required = None THEN Caps(m) ELSE {}]
               IN  /\ incoming' = [n \in DOMAIN incoming \cup {made'} |->
                                     IF n \in DOMAIN incoming THEN incoming[n]
                                     ELSE c @@ [bound |-> FALSE, key |-> None, tx |-> 0, rx |-> {}]]
                   /\ net' = (net \ {m}) \cup {c @@ [kind |-> "challenge", n |-> made']}

(* Answers are signed in the session that proved the request; the last one *)
(* ends it.  A key that is not the transaction's gets none.                *)
Answer(m, kind) ==
  LET r == m.request
      last == kind = "confirmed"
      kept == [n \in DOMAIN Bound(m) \ (IF last THEN {m.n} ELSE {}) |->
                 IF n = m.n /\ kind # "none" THEN [Bound(m)[n] EXCEPT !.tx = @ + 1] ELSE Bound(m)[n]]
  IN  /\ incoming' = kept
      /\ responding' = [responding EXCEPT ![r] = IF last THEN None ELSE m.n]
      /\ net' = (net \ {m}) \cup (IF kind = "none" THEN {}
                                  ELSE {Frame(kind, r, m.n, m.key, incoming[m.n].tx + 1)})

OnCommand(m) ==
  LET r == m.request
      stranger == txn[r] \notin {None, m.key}
  IN  /\ m.kind \in {"put", "status", "finish"}
      /\ \/ /\ ~Verifies(m)
            /\ Challenge(m)
            /\ UNCHANGED <<responding, txn, strange>>
         \/ /\ Verifies(m)
            /\ strange' = (strange \/ stranger)
            /\ txn' = IF m.kind = "put" /\ ~stranger THEN [txn EXCEPT ![r] = m.key] ELSE txn
            /\ Answer(m, CASE stranger -> "none"
                           [] ~stranger /\ txn'[r] = None -> "not_found"
                           [] ~stranger /\ txn'[r] # None /\ m.kind = "finish" -> "confirmed"
                           [] OTHER -> "result")
            /\ UNCHANGED made
      /\ UNCHANGED <<required, asked, outgoing>>

(* tick(): two minutes.                                                    *)
ExpireIncoming(n) ==
  /\ "expiry" \in Faults /\ n \in DOMAIN incoming
  /\ incoming' = Without({n})
  /\ responding' = [r \in Requests |-> IF responding[r] = n THEN None ELSE responding[r]]
  /\ UNCHANGED <<required, asked, outgoing, txn, made, net, strange>>
ExpireOutgoing(r) ==
  /\ "expiry" \in Faults /\ outgoing[r] # None
  /\ outgoing' = [outgoing EXCEPT ![r] = None]
  /\ UNCHANGED <<required, asked, incoming, responding, txn, made, net, strange>>

Lose(m) ==
  /\ "loss" \in Faults
  /\ net' = net \ {m}
  /\ UNCHANGED <<required, asked, outgoing, incoming, responding, txn, made, strange>>

Deliver == \E m \in net : OnChallenge(m) \/ OnReply(m) \/ OnCommand(m)

Next ==
  \/ Deliver
  \/ \E r \in Requests : Submit(r) \/ Retry(r) \/ GiveUp(r) \/ ExpireOutgoing(r)
  \/ \E n \in DOMAIN incoming : ExpireIncoming(n)
  \/ \E m \in net : Lose(m)

Spec == Init /\ [][Next]_vars
-----------------------------------------------------------------------------
(* A request has one challenge that was proven, and so one pair of         *)
(* counters, at any time; the node answers in that one.                    *)
OneSession ==
  \A r \in Requests :
    LET bound == {n \in Of(r) : incoming[n].bound}
    IN  Cardinality(bound) <= 1 /\ (responding[r] # None => bound = {responding[r]})

(* A frame that is proven comes from the key its transaction was admitted  *)
(* with: the frame that is dropped in silence otherwise would be repeated  *)
(* in vain.                                                                *)
NoStranger == ~strange

(* When nothing is lost and the keys will do, frames in any order and any  *)
(* number of crossing challenges leave no request waiting for its timer:   *)
(* when the last frame has arrived, it is done, or given up.               *)
NeverStuck ==
  net = {} => \A r \in Requests : ~Waiting(r)
=============================================================================
