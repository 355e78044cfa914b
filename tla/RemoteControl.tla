---------------------------- MODULE RemoteControl ----------------------------
(***************************************************************************)
(* Remote commands between two peers (remote_control.hpp): one submits     *)
(* requests, uploads their bodies block by block, polls, collects the      *)
(* response and confirms it; the other admits, reassembles, executes and   *)
(* keeps results.  Datagrams are lost, delayed and reordered.  Bodies and  *)
(* responses are counted in blocks; what a block holds is a function of    *)
(* the request, so the checks against a changed body have nothing to find. *)
(***************************************************************************)
EXTENDS Naturals, Sequences, FiniteSets, FiniteSetsExt, Functions

CONSTANTS
  Ids,          \* request identifiers
  Body,         \* blocks of each request's body
  Response,     \* blocks of each request's response
  Cheap,        \* requests that need no exclusive slot
  Retries,      \* retry budget of a request
  ActiveLimit,  \* active_limit
  History,      \* entries the receiver keeps, as its memory allows: a set
  InFlight,     \* bound on datagrams on the way; more are lost
  Copies,       \* bound on equal ones among them
  Breaks        \* bound on session changes

ASSUME FiniteIds == IsFiniteSet(Ids)
ASSUME BlocksAssumption == Body \in [Ids -> Nat] /\ Response \in [Ids -> Nat]

VARIABLES
  outgoing,   \* of the peer that asks; <<>> or one record each
  incoming,   \* of the peer that executes
  order,      \* order_
  net,        \* datagrams on the way, with a copy number
  ran,        \* history: how often each request was executed
  evicted,    \* history: results that were evicted
  breaks      \* session changes so far

remoteVars == <<outgoing, incoming, order, net, ran, evicted, breaks>>

Terminal == {"succeeded", "failed", "rejected", "expired"}
Active(i) == i # <<>> /\ i[1].state \notin Terminal
Present == {id \in Ids : incoming[id] # <<>>}

RemoteInit ==
  /\ outgoing = [id \in Ids |-> <<>>] /\ incoming = [id \in Ids |-> <<>>]
  /\ order = 0 /\ net = {} /\ ran = [id \in Ids |-> 0] /\ evicted = {} /\ breaks = 0

(* UDP: a datagram joins those on the way, or is lost.                     *)
Send(m, rest) ==
  LET free == {k \in 1 .. Copies : <<k, m>> \notin rest}
  IN net' = IF free = {} \/ Cardinality(rest) = InFlight THEN rest ELSE rest \cup {<<Min(free), m>>}

Frame(kind, id, state, offset, total, data) ==
  [kind |-> kind, id |-> id, state |-> state, offset |-> offset, total |-> total, data |-> data]
-----------------------------------------------------------------------------
(* The peer that asks.                                                     *)

Outgoing(known) ==
  [sent |-> 0, total |-> 0, got |-> <<>>, state |-> "receiving", known |-> known, seen |-> known,
   finishing |-> FALSE, query |-> known, attempts |-> 0, result |-> "none"]

Put(id, r) == Frame("put", id, "receiving", r.sent, Body[id], IF r.sent < Body[id] THEN 1 ELSE 0)

send_next(id, r, retry) ==
  CASE r.finishing                 -> Frame("finish", id, r.state, 0, Len(r.got), 0)
    [] ~ r.finishing /\ (retry \/ r.known) -> Frame("status", id, "receiving", Len(r.got), 0, 0)
    [] OTHER                       -> Put(id, r)

Waiting(id) == outgoing[id] # <<>> /\ outgoing[id][1].result = "none"
admit_outgoing == Cardinality({id \in Ids : Waiting(id)}) < ActiveLimit

Asks(id, r, retry, rest) ==
  /\ outgoing' = [outgoing EXCEPT ![id] = <<r>>]
  /\ Send(send_next(id, r, retry), rest)
Answered(id, r, rest) == outgoing' = [outgoing EXCEPT ![id] = <<r>>] /\ net' = rest

(* Identifiers are random: each is submitted once.                         *)
Submit(id) ==
  /\ outgoing[id] = <<>> /\ ran[id] = 0 /\ incoming[id] = <<>> /\ admit_outgoing
  /\ \A m \in net : m[2].id # id
  /\ Asks(id, Outgoing(FALSE), FALSE, net)
  /\ UNCHANGED <<incoming, order, ran, evicted, breaks>>

(* A failed request may be asked about again.                              *)
Query(id) ==
  /\ outgoing[id] # <<>> /\ outgoing[id][1].result = "failed" /\ admit_outgoing
  /\ ~ outgoing[id][1].query
  /\ Asks(id, Outgoing(TRUE), TRUE, net)
  /\ UNCHANGED <<incoming, order, ran, evicted, breaks>>

(* tick(): the wait of a request is over.                                  *)
Retry(id) ==
  /\ Waiting(id)
  /\ LET r == outgoing[id][1] IN
     IF r.attempts >= Retries THEN Answered(id, [r EXCEPT !.attempts = @ + 1, !.result = "failed"], net)
     ELSE Asks(id, [r EXCEPT !.attempts = @ + 1], TRUE, net)
  /\ UNCHANGED <<incoming, order, ran, evicted, breaks>>

Confirmed(f, r, rest) ==
  IF r.finishing /\ f.state = r.state /\ f.total = Len(r.got)
    THEN Answered(f.id, [r EXCEPT !.result = CASE r.state = "succeeded" -> "ok"
                                               [] r.state = "rejected" -> "rejected"
                                               [] OTHER -> "failed"], rest)
    ELSE Answered(f.id, r, rest)

(* The next block of one response, not of another one.                     *)
Block(f, r) == f.offset = Len(r.got) /\ (r.got # <<>> => r.state = f.state /\ r.total = f.total)

Reply(f, r, rest) ==
  LET seen == [r EXCEPT !.seen = TRUE]
      more == [seen EXCEPT !.known = TRUE, !.state = f.state, !.total = f.total,
                 !.got = IF f.data > 0 THEN Append(@, f.offset) ELSE @,
                 !.attempts = IF f.data > 0 THEN 0 ELSE @, !.finishing = Len(r.got) + f.data = f.total]
  IN CASE r.finishing -> Answered(f.id, r, rest)
       [] ~ r.finishing /\ f.state = "not_found" ->
            IF r.seen \/ r.known THEN Answered(f.id, [r EXCEPT !.result = "failed"], rest)
            ELSE Asks(f.id, [r EXCEPT !.sent = 0], FALSE, rest)
       [] ~ r.finishing /\ f.state = "receiving" ->
            IF r.query THEN Answered(f.id, [seen EXCEPT !.state = f.state], rest)
            ELSE IF f.offset < r.sent THEN Answered(f.id, seen, rest)
            ELSE Asks(f.id, [seen EXCEPT !.sent = f.offset, !.known = f.offset = Body[f.id],
                               !.attempts = IF f.offset > r.sent THEN 0 ELSE @], FALSE, rest)
       [] ~ r.finishing /\ f.state \in Terminal ->
            IF Block(f, r) THEN Asks(f.id, more, FALSE, rest)
            ELSE Answered(f.id, [seen EXCEPT !.known = TRUE], rest)

(* receive() of a reply or a confirmation.                                 *)
ClientReceive(m) ==
  LET f == m[2] IN
  /\ m \in net /\ f.kind \in {"reply", "confirmed"}
  /\ IF Waiting(f.id)
       THEN IF f.kind = "confirmed" THEN Confirmed(f, outgoing[f.id][1], net \ {m})
            ELSE Reply(f, outgoing[f.id][1], net \ {m})
       ELSE net' = net \ {m} /\ UNCHANGED outgoing
  /\ UNCHANGED <<incoming, order, ran, evicted, breaks>>
-----------------------------------------------------------------------------
(* The peer that executes.                                                 *)

(* Variant: an entry may go as soon as it is finished.                     *)
EvictableUnread == {id \in Present : ~ Active(incoming[id])}

Evictable == {id \in Present : incoming[id][1].acknowledged}

(* admit() with room for capacity entries: whom it evicts, oldest first,   *)
(* and whether that was enough.                                            *)
Victims(capacity) ==
  LET need == Cardinality(Present) + 1 - capacity
  IN {id \in Evictable :
        Cardinality({j \in Evictable : incoming[j][1].order < incoming[id][1].order}) < need}
Admits(capacity) == Cardinality(Present \ Victims(capacity)) < capacity

Answer(id, r, offset) ==
  IF r.state \in Terminal
    THEN LET o == IF offset < r.response THEN offset ELSE r.response
         IN Frame("reply", id, r.state, o, r.response, IF o < r.response THEN 1 ELSE 0)
    ELSE Frame("reply", id, r.state, r.body, 0, 0)

NotFound(id) == Frame("reply", id, "not_found", 0, 0, 0)

(* STATUS, and FINISH of the whole result, which acknowledges it.          *)
ServerPoll(m) ==
  LET f == m[2]
      r == incoming[f.id][1]
      all == f.kind = "finish" /\ r.state \in Terminal /\ f.state = r.state /\ f.total = r.response
  IN /\ m \in net /\ f.kind \in {"status", "finish"}
     /\ IF incoming[f.id] = <<>>
          THEN /\ Send(IF f.kind = "finish" /\ f.state = "rejected"
                         THEN Frame("confirmed", f.id, "rejected", 0, f.total, 0)
                         ELSE NotFound(f.id), net \ {m})
               /\ UNCHANGED incoming
          ELSE /\ incoming' = IF all THEN [incoming EXCEPT ![f.id] = <<[r EXCEPT !.acknowledged = TRUE]>>] ELSE incoming
               /\ Send(IF all THEN Frame("confirmed", f.id, r.state, 0, r.response, 0)
                       ELSE Answer(f.id, r, f.offset), net \ {m})
     /\ UNCHANGED <<outgoing, order, ran, evicted, breaks>>

(* A block for an entry r, just opened or known: append it, execute the    *)
(* complete request, respond.                                              *)
Absorb(f, in, r, rest) ==
  LET body == IF r.state = "receiving" /\ f.offset = r.body THEN r.body + f.data ELSE r.body
      runs == r.state = "receiving" /\ body = Body[f.id]
      keep(s, n) == /\ incoming' = [in EXCEPT ![f.id] = <<s>>] /\ order' = n
                    /\ Send(Answer(f.id, s, 0), rest)
  IN \/ runs /\ \E state \in {"succeeded", "failed", "rejected"} :
          /\ keep([r EXCEPT !.body = body, !.state = state, !.order = order + 1,
                            !.response = Response[f.id]], order + 1)
          /\ ran' = [ran EXCEPT ![f.id] = IF state = "rejected" THEN @ ELSE @ + 1]
     \/ ~ runs /\ keep([r EXCEPT !.body = body], IF r.order > order THEN r.order ELSE order)
               /\ UNCHANGED ran

Known(f) == incoming[f.id] # <<>>

(* PUT.  The exclusive slot belongs to the one active request that is not  *)
(* cheap; its loser (like a command that is unknown or denied) keeps an    *)
(* entry that says rejected, while one that finds no capacity leaves none. *)
ServerPut(m) ==
  LET f == m[2]
      fresh == [state |-> "receiving", body |-> 0, response |-> 0, acknowledged |-> FALSE, order |-> 0]
      busy == f.id \notin Cheap /\ \E id \in Ids \ Cheap : Active(incoming[id])
      active == Cardinality({id \in Ids : Active(incoming[id])})
      stateless(answer, in) == Send(answer, net \ {m}) /\ incoming' = in /\ UNCHANGED <<order, ran>>
  IN /\ m \in net /\ f.kind = "put"
     /\ \/ Known(f) /\ Absorb(f, incoming, incoming[f.id][1], net \ {m}) /\ UNCHANGED evicted
        \/ ~ Known(f) /\ f.offset # 0 /\ stateless(NotFound(f.id), incoming) /\ UNCHANGED evicted
        \/ ~ Known(f) /\ f.offset = 0 /\ \E capacity \in History :
             LET victims == IF active >= ActiveLimit THEN {} ELSE Victims(capacity)
                 in == [id \in Ids |-> IF id \in victims THEN <<>> ELSE incoming[id]]
             IN /\ evicted' = evicted \cup victims
                /\ IF active >= ActiveLimit \/ ~ Admits(capacity)
                     THEN stateless(Frame("reply", f.id, "rejected", 0, 1, 1), in)
                     ELSE Absorb(f, in, IF busy THEN [fresh EXCEPT !.state = "rejected", !.response = 1,
                                                                  !.order = order + 1]
                                        ELSE fresh, net \ {m})
     /\ UNCHANGED <<outgoing, breaks>>

(* tick(): an upload makes no progress.                                    *)
UploadExpires(id) ==
  /\ Active(incoming[id])
  /\ incoming' = [incoming EXCEPT ![id] = <<[@[1] EXCEPT !.state = "expired", !.order = order + 1,
                                                          !.response = 1, !.body = 0]>>]
  /\ order' = order + 1
  /\ UNCHANGED <<outgoing, net, ran, evicted, breaks>>

(* session_changed() at either peer.                                       *)
ClientSessionChanged ==
  /\ breaks < Breaks /\ breaks' = breaks + 1
  /\ outgoing' = [id \in Ids |-> IF Waiting(id) THEN <<[outgoing[id][1] EXCEPT !.result = "failed"]>>
                                 ELSE outgoing[id]]
  /\ UNCHANGED <<incoming, order, net, ran, evicted>>

ServerSessionChanged ==
  LET cut == {id \in Ids : Active(incoming[id])} IN
  /\ breaks < Breaks /\ breaks' = breaks + 1
  /\ \E rank \in Bijection(cut, 1 .. Cardinality(cut)) :
       incoming' = [id \in Ids |-> IF id \notin cut THEN incoming[id]
                                  ELSE <<[incoming[id][1] EXCEPT !.state = "expired", !.response = 1,
                                           !.order = order + rank[id]]>>]
  /\ order' = order + Cardinality(cut)
  /\ UNCHANGED <<outgoing, net, ran, evicted>>

RemoteNext ==
  \/ \E id \in Ids : Submit(id) \/ Query(id) \/ Retry(id) \/ UploadExpires(id)
  \/ \E m \in net : ClientReceive(m) \/ ServerPoll(m) \/ ServerPut(m)
  \/ ClientSessionChanged \/ ServerSessionChanged

RemoteSpec == RemoteInit /\ [][RemoteNext]_remoteVars
-----------------------------------------------------------------------------
(* Retransmitted blocks and polls never execute a request twice, unless    *)
(* its confirmed result has been evicted (remote_control.hpp:348-389).     *)
AtMostOnce == \A id \in Ids : ran[id] <= 1 \/ id \in evicted

(* A result reported as a success is the result of an execution, and its   *)
(* response is complete and in order (:319-327).                           *)
SuccessIsReal ==
  \A id \in Ids : outgoing[id] # <<>> /\ outgoing[id][1].result = "ok" =>
    ran[id] >= 1 /\ outgoing[id][1].got = [i \in 1 .. Response[id] |-> i - 1]

(* A result is there until its requester has all of it: admission evicts   *)
(* no entry that a waiting request still needs (:165-183).                 *)
ResultKept ==
  \A id \in Ids : (ran[id] > 0 /\ Waiting(id) /\ ~ outgoing[id][1].finishing /\ ~ outgoing[id][1].query)
    => incoming[id] # <<>>

(* What a requester relies on, whatever is lost, repeated or overtaken:    *)
(* one execution, an honest success, and a result that waits (:165-389).   *)
RequestsSound == AtMostOnce /\ SuccessIsReal /\ ResultKept

(* A request whose refusal was confirmed to its requester does not run,    *)
(* unless the entry that says so was evicted.  Of refusals for want of     *)
(* capacity, which leave no entry, the code says: "They never execute and  *)
(* may therefore be confirmed statelessly" (:335-336).                     *)
RejectedNeverRuns ==
  \A id \in Ids : outgoing[id] # <<>> /\ outgoing[id][1].result = "rejected" =>
    ran[id] = 0 \/ id \in evicted

=============================================================================
