---------------------------- MODULE RemoteProofs ----------------------------
(***************************************************************************)
(* Remote commands: at most one execution, whole and real results, and     *)
(* results that are kept while they are needed, for any number of requests *)
(* and blocks, any history and any network.                                *)
(***************************************************************************)
EXTENDS RemoteControl, FiniteSetTheorems, TLAPS

States == Terminal \cup {"receiving", "not_found"}

Client ==
  [sent : Nat, total : Nat, got : Seq(Nat), state : States, known : BOOLEAN, seen : BOOLEAN,
   finishing : BOOLEAN, query : BOOLEAN, attempts : Nat, result : {"none", "ok", "failed", "rejected"}]
Entry == [state : States, body : Nat, response : Nat, acknowledged : BOOLEAN, order : Nat]
Datagram ==
  [kind : {"put", "status", "finish", "reply", "confirmed"}, id : Ids, state : States, offset : Nat,
   total : Nat, data : {0, 1}]
Optional(S) == {<<>>} \cup {<<x>> : x \in S}

(* A request of the peer that asks, executed n times: its blocks are the   *)
(* first ones, in order, all of them once it confirms; a success in it is  *)
(* that of an execution.                                                   *)
ClientOK(id, r, n) ==
  /\ r \in Client
  /\ r.got = [i \in 1 .. Len(r.got) |-> i - 1]
  /\ r.finishing => Len(r.got) = r.total
  /\ r.state = "succeeded" => n >= 1 /\ r.total = Response[id]
  /\ r.result = "ok" => r.state = "succeeded" /\ r.finishing

EntryOK(id, e, n) == e \in Entry /\ (e.state = "succeeded" => n >= 1 /\ e.response = Response[id])

FrameOK(f, n) ==
  f \in Datagram /\ (f.kind = "reply" /\ f.state = "succeeded" => n >= 1 /\ f.total = Response[f.id])

(* A request that was never confirmed: not asked about again, and without  *)
(* its whole response.                                                     *)
Early(q) == q = <<>> \/ (~ q[1].finishing /\ ~ q[1].query)

(* What holds of a request: of its two records, how often it was executed  *)
(* and whether its result was evicted.                                     *)
RequestInv(id, q, e, n, gone) ==
  /\ q \in Optional(Client) /\ e \in Optional(Entry) /\ n \in Nat
  /\ q # <<>> => ClientOK(id, q[1], n)
  /\ e # <<>> => EntryOK(id, e[1], n)
  /\ ~ gone => n <= 1 /\ (n > 0 => e # <<>> /\ e[1].state \in Terminal)
  /\ Early(q) => ~ gone /\ (e # <<>> => ~ e[1].acknowledged)

RemoteInv ==
  /\ outgoing \in [Ids -> Optional(Client)] /\ incoming \in [Ids -> Optional(Entry)]
  /\ ran \in [Ids -> Nat] /\ order \in Nat
  /\ \A id \in Ids : RequestInv(id, outgoing[id], incoming[id], ran[id], id \in evicted)
  /\ \A m \in net : /\ FrameOK(m[2], ran[m[2].id])
                    /\ m[2].kind = "finish" => ~ Early(outgoing[m[2].id])
-----------------------------------------------------------------------------
LEMMA OptionalSome ==
  ASSUME NEW S, NEW q \in Optional(S), q # <<>>
  PROVE  q[1] \in S /\ q = <<q[1]>>
BY DEF Optional

LEMMA OptionalMakes ==
  ASSUME NEW S, NEW x \in S
  PROVE  <<x>> \in Optional(S) /\ <<x>> # <<>> /\ <<x>>[1] = x
BY DEF Optional

(* The network gains at most the datagram sent.                            *)
LEMMA SendAdds ==
  ASSUME NEW f, NEW rest, Send(f, rest)
  PROVE  \A m \in net' : m \in rest \/ m[2] = f
BY DEF Send

(* An entry that was not finished is closed without success.               *)
LEMMA EntryCloses ==
  ASSUME NEW id \in Ids, NEW q, NEW e \in Entry, NEW n, NEW gone \in BOOLEAN,
         RequestInv(id, q, <<e>>, n, gone),
         NEW x \in Entry, x.state = "expired", x.acknowledged <=> e.acknowledged
  PROVE  RequestInv(id, q, <<x>>, n, gone)
<1>1. <<x>> \in Optional(Entry) /\ <<x>> # <<>> /\ <<x>>[1] = x /\ <<e>> # <<>> /\ <<e>>[1] = e
  BY OptionalMakes
<1> QED
  BY <1>1 DEF RequestInv, EntryOK, Terminal

(* An entry changes its body only.                                         *)
LEMMA EntryStays ==
  ASSUME NEW id \in Ids, NEW q, NEW e \in Entry, NEW n, NEW gone \in BOOLEAN,
         RequestInv(id, q, <<e>>, n, gone),
         NEW x \in Entry, x.state = e.state, x.response = e.response, x.acknowledged <=> e.acknowledged
  PROVE  RequestInv(id, q, <<x>>, n, gone)
<1>1. <<x>> \in Optional(Entry) /\ <<x>> # <<>> /\ <<x>>[1] = x /\ <<e>> # <<>> /\ <<e>>[1] = e
  BY OptionalMakes
<1> QED
  BY <1>1 DEF RequestInv, EntryOK

(* An entry is opened, receiving or refused.                               *)
LEMMA EntryOpens ==
  ASSUME NEW id \in Ids, NEW q, NEW n, NEW gone \in BOOLEAN,
         RequestInv(id, q, <<>>, n, gone),
         NEW x \in Entry, x.state \in {"receiving", "rejected"}, ~ x.acknowledged
  PROVE  RequestInv(id, q, <<x>>, n, gone)
<1>1. <<x>> \in Optional(Entry) /\ <<x>> # <<>> /\ <<x>>[1] = x
  BY OptionalMakes
<1> QED
  BY <1>1 DEF RequestInv, EntryOK

(* An unfinished entry is executed: e becomes x, n executions become k.    *)
Runs(id, e, x, n, k) ==
  /\ e.state = "receiving" /\ x \in Entry /\ x.response = Response[id]
  /\ x.acknowledged <=> e.acknowledged
  /\ n \in Nat /\ k \in {n, n + 1}
  /\ x.state = "failed" \/ x.state = "rejected" \/ (x.state = "succeeded" /\ k = n + 1)

LEMMA EntryRuns ==
  ASSUME NEW id \in Ids, NEW q, NEW e \in Entry, NEW n, NEW gone \in BOOLEAN,
         RequestInv(id, q, <<e>>, n, gone), NEW x, NEW k, Runs(id, e, x, n, k)
  PROVE  RequestInv(id, q, <<x>>, k, gone)
<1>0. /\ e.state = "receiving" /\ x \in Entry /\ x.response = Response[id]
      /\ x.acknowledged <=> e.acknowledged
      /\ n \in Nat /\ k \in {n, n + 1}
      /\ x.state = "failed" \/ x.state = "rejected" \/ (x.state = "succeeded" /\ k = n + 1)
  BY DEF Runs
<1>1. <<x>> \in Optional(Entry) /\ <<x>> # <<>> /\ <<x>>[1] = x /\ <<e>> # <<>> /\ <<e>>[1] = e
  BY <1>0, OptionalMakes
<1>2. q # <<>> => ClientOK(id, q[1], k)
  BY <1>0 DEF RequestInv, ClientOK
<1>3. EntryOK(id, x, k)
  BY <1>0 DEF EntryOK
<1>4. ~ gone => n = 0
  BY <1>0, <1>1 DEF RequestInv, Terminal
<1>5. ~ gone => k <= 1 /\ x.state \in Terminal
  BY <1>0, <1>4 DEF Terminal
<1> QED
  BY <1>0, <1>1, <1>2, <1>3, <1>5 DEF RequestInv

(* The requester has confirmed the whole result.                           *)
LEMMA EntryAcknowledged ==
  ASSUME NEW id \in Ids, NEW q, NEW e \in Entry, NEW n, NEW gone \in BOOLEAN,
         RequestInv(id, q, <<e>>, n, gone), ~ Early(q),
         NEW x \in Entry, x.state = e.state, x.response = e.response
  PROVE  RequestInv(id, q, <<x>>, n, gone)
<1>1. <<x>> \in Optional(Entry) /\ <<x>> # <<>> /\ <<x>>[1] = x /\ <<e>> # <<>> /\ <<e>>[1] = e
  BY OptionalMakes
<1> QED
  BY <1>1 DEF RequestInv, EntryOK

(* A confirmed result is evicted.                                          *)
LEMMA EntryEvicted ==
  ASSUME NEW id \in Ids, NEW q, NEW e, NEW n, NEW gone \in BOOLEAN,
         RequestInv(id, q, e, n, gone), e # <<>>, e[1].acknowledged
  PROVE  RequestInv(id, q, <<>>, n, TRUE)
BY DEF RequestInv, Optional
-----------------------------------------------------------------------------
(* A step of the peer that asks: one request of it changes, and at most    *)
(* one datagram about it is sent.                                          *)
LEMMA ClientSteps ==
  ASSUME RemoteInv, NEW id \in Ids, NEW r, ClientOK(id, r, ran[id]),
         outgoing' = [outgoing EXCEPT ![id] = <<r>>],
         Early(<<r>>) => Early(outgoing[id]),
         \A m \in net' : \/ m \in net
                         \/ /\ FrameOK(m[2], ran[m[2].id]) /\ m[2].id = id
                            /\ m[2].kind = "finish" => r.finishing,
         UNCHANGED <<incoming, order, ran, evicted>>
  PROVE  RemoteInv'
<1>1. r \in Client /\ <<r>> \in Optional(Client) /\ <<r>> # <<>> /\ <<r>>[1] = r
  BY OptionalMakes DEF ClientOK
<1>2. outgoing' \in [Ids -> Optional(Client)] /\ outgoing'[id] = <<r>>
  BY <1>1 DEF RemoteInv
<1>3. \A j \in Ids : j # id => outgoing'[j] = outgoing[j]
  BY DEF RemoteInv
<1>4. RequestInv(id, <<r>>, incoming[id], ran[id], id \in evicted)
  BY <1>1 DEF RemoteInv, RequestInv
<1>5. \A j \in Ids : RequestInv(j, outgoing'[j], incoming[j], ran[j], j \in evicted)
  BY Zenon, <1>2, <1>3, <1>4 DEF RemoteInv
<1>6. \A j \in Ids : Early(outgoing'[j]) => Early(outgoing[j])
  BY Zenon, <1>2, <1>3
<1>7. ASSUME NEW m \in net'
      PROVE  FrameOK(m[2], ran[m[2].id]) /\ (m[2].kind = "finish" => ~ Early(outgoing'[m[2].id]))
  <2>1. CASE m \in net
    <3>1. m[2].id \in Ids
      BY <2>1 DEF RemoteInv, FrameOK, Datagram
    <3> QED
      BY Zenon, <1>6, <2>1, <3>1 DEF RemoteInv
  <2>2. CASE FrameOK(m[2], ran[m[2].id]) /\ m[2].id = id /\ (m[2].kind = "finish" => r.finishing)
    <3>1. r.finishing => ~ Early(<<r>>)
      BY Zenon, <1>1 DEF Early
    <3> QED
      BY Zenon, <1>2, <2>2, <3>1
  <2> QED
    BY Zenon, <2>1, <2>2
<1>8. incoming' = incoming /\ order' = order /\ ran' = ran /\ evicted' = evicted
  OBVIOUS
<1> QED
  BY Zenon, <1>2, <1>5, <1>7, <1>8 DEF RemoteInv

(* A step of the peer that executes.                                       *)
LEMMA ServerSteps ==
  ASSUME RemoteInv, outgoing' = outgoing, order' \in Nat,
         incoming' \in [Ids -> Optional(Entry)], ran' \in [Ids -> Nat],
         \A j \in Ids : ran[j] <= ran'[j],
         \A j \in Ids : RequestInv(j, outgoing[j], incoming'[j], ran'[j], j \in evicted'),
         \A m \in net' : m \in net \/ (FrameOK(m[2], ran'[m[2].id]) /\ m[2].kind # "finish")
  PROVE  RemoteInv'
<1>1. ASSUME NEW m \in net'
      PROVE  FrameOK(m[2], ran'[m[2].id]) /\ (m[2].kind = "finish" => ~ Early(outgoing[m[2].id]))
  <2>1. CASE m \in net
    <3>1. FrameOK(m[2], ran[m[2].id]) /\ (m[2].kind = "finish" => ~ Early(outgoing[m[2].id]))
      BY Zenon, <2>1 DEF RemoteInv
    <3>2. m[2].id \in Ids
      BY <3>1 DEF FrameOK, Datagram
    <3>3. ran[m[2].id] \in Nat /\ ran'[m[2].id] \in Nat /\ ran[m[2].id] <= ran'[m[2].id]
      BY <3>2 DEF RemoteInv
    <3>4. FrameOK(m[2], ran'[m[2].id])
      BY <3>1, <3>3 DEF FrameOK
    <3> QED
      BY <3>1, <3>4
  <2>2. CASE FrameOK(m[2], ran'[m[2].id]) /\ m[2].kind # "finish"
    BY Zenon, <2>2
  <2> QED
    BY Zenon, <2>1, <2>2
<1>2. outgoing \in [Ids -> Optional(Client)]
  BY DEF RemoteInv
<1> QED
  BY Zenon, <1>1, <1>2 DEF RemoteInv
-----------------------------------------------------------------------------
(* What a peer that asks sends is no reply, and confirms whole results.    *)
LEMMA NextSent ==
  ASSUME NEW id \in Ids, NEW r \in Client, NEW retry \in BOOLEAN, NEW n
  PROVE  /\ FrameOK(send_next(id, r, retry), n) /\ send_next(id, r, retry).id = id
         /\ send_next(id, r, retry).kind = "finish" => r.finishing
<1>1. r.state \in States /\ Len(r.got) \in Nat /\ r.sent \in Nat /\ Body[id] \in Nat
  BY BlocksAssumption DEF Client
<1> DEFINE f == send_next(id, r, retry)
<1>2. CASE r.finishing
  <2>1. f = Frame("finish", id, r.state, 0, Len(r.got), 0)
    BY <1>2 DEF send_next
  <2>2. f \in Datagram /\ f.id = id /\ f.kind = "finish"
    BY <1>1, <2>1 DEF Frame, Datagram
  <2> QED
    BY <1>2, <2>2 DEF FrameOK
<1>3. CASE ~ r.finishing /\ (retry \/ r.known)
  <2>1. f = Frame("status", id, "receiving", Len(r.got), 0, 0)
    BY <1>3 DEF send_next
  <2>2. f \in Datagram /\ f.id = id /\ f.kind = "status"
    BY <1>1, <2>1 DEF Frame, Datagram, States
  <2> QED
    BY <2>2 DEF FrameOK
<1>4. CASE ~ r.finishing /\ ~ (retry \/ r.known)
  <2>1. f = Put(id, r)
    BY <1>4 DEF send_next
  <2>2. f \in Datagram /\ f.id = id /\ f.kind = "put"
    BY <1>1, <2>1 DEF Put, Frame, Datagram, States
  <2> QED
    BY <2>2 DEF FrameOK
<1> QED
  BY Zenon, <1>2, <1>3, <1>4

LEMMA AsksKeeps ==
  ASSUME RemoteInv, NEW id \in Ids, NEW r, ClientOK(id, r, ran[id]), NEW retry \in BOOLEAN,
         NEW rest \in SUBSET net, Asks(id, r, retry, rest),
         Early(<<r>>) => Early(outgoing[id]), UNCHANGED <<incoming, order, ran, evicted>>
  PROVE  RemoteInv'
<1> DEFINE f == send_next(id, r, retry)
<1>1. r \in Client
  BY DEF ClientOK
<1>2. FrameOK(f, ran[id]) /\ f.id = id /\ (f.kind = "finish" => r.finishing)
  BY Zenon, <1>1, NextSent
<1>3. \A m \in net' : m \in rest \/ m[2] = f
  BY Zenon, SendAdds DEF Asks
<1>4. outgoing' = [outgoing EXCEPT ![id] = <<r>>]
  BY DEF Asks
<1> HIDE DEF f
<1>5. \A m \in net' : \/ m \in net
                      \/ /\ FrameOK(m[2], ran[m[2].id]) /\ m[2].id = id
                         /\ m[2].kind = "finish" => r.finishing
  BY Zenon, <1>2, <1>3
<1> QED
  BY Zenon, <1>4, <1>5, ClientSteps

LEMMA AnsweredKeeps ==
  ASSUME RemoteInv, NEW id \in Ids, NEW r, ClientOK(id, r, ran[id]),
         NEW rest \in SUBSET net, Answered(id, r, rest),
         Early(<<r>>) => Early(outgoing[id]), UNCHANGED <<incoming, order, ran, evicted>>
  PROVE  RemoteInv'
<1>1. outgoing' = [outgoing EXCEPT ![id] = <<r>>] /\ \A m \in net' : m \in net
  BY DEF Answered
<1> QED
  BY Zenon, <1>1, ClientSteps

(* A request changes, not what it has collected.                           *)
LEMMA ClientChanges ==
  ASSUME NEW id \in Ids, NEW n, NEW r, ClientOK(id, r, n), NEW x \in Client,
         x.got = r.got, x.total = r.total, x.state = r.state \/ x.state # "succeeded",
         x.finishing <=> r.finishing, x.result = "ok" => x.state = "succeeded" /\ r.finishing
  PROVE  ClientOK(id, x, n)
BY DEF ClientOK

LEMMA SameEarly ==
  ASSUME NEW q \in Optional(Client), q # <<>>, NEW x,
         x.finishing <=> q[1].finishing, x.query <=> q[1].query
  PROVE  Early(<<x>>) => Early(q)
<1>1. <<x>> # <<>> /\ <<x>>[1] = x
  OBVIOUS
<1> QED
  BY Zenon, <1>1 DEF Early

LEMMA SubmitKeeps ==
  ASSUME RemoteInv, NEW id \in Ids, Submit(id)
  PROVE  RemoteInv'
<1>1. ClientOK(id, Outgoing(FALSE), ran[id])
  <2>1. Outgoing(FALSE) \in Client
    BY DEF Outgoing, Client, States
  <2>2. <<>> = [i \in 1 .. Len(<<>>) |-> i - 1]
    OBVIOUS
  <2> QED
    BY <2>1, <2>2 DEF ClientOK, Outgoing
<1>2. Early(outgoing[id])
  BY Zenon DEF Submit, Early
<1> QED
  BY Zenon, <1>1, <1>2, AsksKeeps DEF Submit

LEMMA QueryKeeps ==
  ASSUME RemoteInv, NEW id \in Ids, Query(id)
  PROVE  RemoteInv'
<1>1. ClientOK(id, Outgoing(TRUE), ran[id])
  <2>1. Outgoing(TRUE) \in Client
    BY DEF Outgoing, Client, States
  <2>2. <<>> = [i \in 1 .. Len(<<>>) |-> i - 1]
    OBVIOUS
  <2> QED
    BY <2>1, <2>2 DEF ClientOK, Outgoing
<1>2. ~ Early(<<Outgoing(TRUE)>>)
  <2>1. Outgoing(TRUE).query = TRUE
    BY DEF Outgoing
  <2>2. <<Outgoing(TRUE)>> # <<>> /\ <<Outgoing(TRUE)>>[1] = Outgoing(TRUE)
    OBVIOUS
  <2> QED
    BY Zenon, <2>1, <2>2 DEF Early
<1> QED
  BY Zenon, <1>1, <1>2, AsksKeeps DEF Query

(* The record of a waiting request.                                        *)
LEMMA WaitingRecord ==
  ASSUME RemoteInv, NEW id \in Ids, Waiting(id)
  PROVE  /\ outgoing[id] \in Optional(Client) /\ outgoing[id] # <<>>
         /\ outgoing[id][1] \in Client /\ outgoing[id][1].result = "none"
         /\ ClientOK(id, outgoing[id][1], ran[id])
BY DEF RemoteInv, RequestInv, ClientOK, Waiting

(* The record x follows r: with the blocks it has, and no new success      *)
(* unless all are there.                                                   *)
Follows(x, r) ==
  /\ x \in Client /\ x.got = r.got /\ x.total = r.total
  /\ x.finishing <=> r.finishing
  /\ x.query <=> r.query
  /\ x.state = r.state \/ x.state # "succeeded"
  /\ x.result = "ok" => x.state = "succeeded" /\ r.finishing

LEMMA FollowsKeeps ==
  ASSUME RemoteInv, NEW id \in Ids, Waiting(id), NEW x, Follows(x, outgoing[id][1])
  PROVE  ClientOK(id, x, ran[id]) /\ (Early(<<x>>) => Early(outgoing[id]))
<1> DEFINE r == outgoing[id][1]
<1>1. /\ outgoing[id] \in Optional(Client) /\ outgoing[id] # <<>>
      /\ r \in Client /\ ClientOK(id, r, ran[id])
  BY Zenon, WaitingRecord
<1>2. ClientOK(id, x, ran[id])
  BY <1>1, ClientChanges DEF Follows
<1>3. Early(<<x>>) => Early(outgoing[id])
  BY <1>1, SameEarly DEF Follows
<1> QED
  BY Zenon, <1>2, <1>3

LEMMA UpdateAnswered ==
  ASSUME RemoteInv, NEW id \in Ids, Waiting(id), NEW x, Follows(x, outgoing[id][1]),
         NEW rest \in SUBSET net, Answered(id, x, rest), UNCHANGED <<incoming, order, ran, evicted>>
  PROVE  RemoteInv'
BY Zenon, FollowsKeeps, AnsweredKeeps

LEMMA UpdateAsks ==
  ASSUME RemoteInv, NEW id \in Ids, Waiting(id), NEW x, Follows(x, outgoing[id][1]), NEW retry \in BOOLEAN,
         NEW rest \in SUBSET net, Asks(id, x, retry, rest), UNCHANGED <<incoming, order, ran, evicted>>
  PROVE  RemoteInv'
BY Zenon, FollowsKeeps, AsksKeeps

LEMMA RetryKeeps ==
  ASSUME RemoteInv, NEW id \in Ids, Retry(id)
  PROVE  RemoteInv'
<1> DEFINE r == outgoing[id][1]
           v == r.attempts + 1
           a == [r EXCEPT !.attempts = v, !.result = "failed"]
           b == [r EXCEPT !.attempts = v]
<1>1. Waiting(id) /\ r \in Client /\ r.result = "none"
  BY WaitingRecord DEF Retry
<1>2. Answered(id, a, net) \/ Asks(id, b, TRUE, net)
  BY DEF Retry
<1>3. UNCHANGED <<incoming, order, ran, evicted>>
  BY DEF Retry
<1>4. v \in Nat
  BY <1>1 DEF Client
<1>5. r = outgoing[id][1]
  OBVIOUS
<1> HIDE DEF r, v
<1>6. a \in Client /\ b \in Client
  BY <1>1, <1>4 DEF Client
<1>7. /\ a.got = r.got /\ a.total = r.total /\ a.state = r.state /\ a.result = "failed"
      /\ b.got = r.got /\ b.total = r.total /\ b.state = r.state /\ b.result = "none"
  BY <1>1 DEF Client
<1>8. a.finishing = r.finishing /\ a.query = r.query /\ b.finishing = r.finishing /\ b.query = r.query
  BY Zenon, <1>1 DEF Client
<1> HIDE DEF a, b
<1>9. Follows(a, r) /\ Follows(b, r)
  BY <1>6, <1>7, <1>8 DEF Follows
<1> QED
  BY Zenon, <1>1, <1>2, <1>3, <1>5, <1>9, UpdateAnswered, UpdateAsks

LEMMA ConfirmedKeeps ==
  ASSUME RemoteInv, NEW f, f.id \in Ids, Waiting(f.id), NEW rest \in SUBSET net,
         Confirmed(f, outgoing[f.id][1], rest), UNCHANGED <<incoming, order, ran, evicted>>
  PROVE  RemoteInv'
<1> DEFINE r == outgoing[f.id][1]
           w == CASE r.state = "succeeded" -> "ok" [] r.state = "rejected" -> "rejected" [] OTHER -> "failed"
           x == [r EXCEPT !.result = w]
<1>1. r \in Client /\ r.result = "none"
  BY Zenon, WaitingRecord
<1>2. w \in {"none", "ok", "failed", "rejected"} /\ (w = "ok" => r.state = "succeeded")
  OBVIOUS
<1>3. (r.finishing /\ Answered(f.id, x, rest)) \/ Answered(f.id, r, rest)
  BY DEF Confirmed
<1>4. r = outgoing[f.id][1]
  OBVIOUS
<1> HIDE DEF w, r
<1>5. x \in Client
  BY <1>1, <1>2 DEF Client
<1>6. x.got = r.got /\ x.total = r.total /\ x.state = r.state /\ x.result = w
  BY <1>1 DEF Client
<1>7. x.finishing = r.finishing /\ x.query = r.query
  BY Zenon, <1>1 DEF Client
<1> HIDE DEF x
<1>8. r.finishing => Follows(x, r)
  BY <1>2, <1>5, <1>6, <1>7 DEF Follows
<1>9. Follows(r, r)
  BY <1>1 DEF Follows
<1> QED
  BY Zenon, <1>3, <1>4, <1>8, <1>9, UpdateAnswered

LEMMA AppendNext ==
  ASSUME NEW q \in Seq(Nat), q = [i \in 1 .. Len(q) |-> i - 1]
  PROVE  /\ Len(Append(q, Len(q))) = Len(q) + 1
         /\ Append(q, Len(q)) = [i \in 1 .. Len(q) + 1 |-> i - 1]
<1>1. \A i \in 1 .. Len(q) : q[i] = i - 1
  OBVIOUS
<1>2. \A i \in 1 .. Len(q) + 1 : Append(q, Len(q))[i] = i - 1
  BY <1>1
<1>3. Append(q, Len(q)) \in Seq(Nat) /\ Len(Append(q, Len(q))) = Len(q) + 1
  OBVIOUS
<1>4. Append(q, Len(q)) = [i \in 1 .. Len(Append(q, Len(q))) |-> Append(q, Len(q))[i]]
  <2> DEFINE p == Append(q, Len(q))
  <2> HIDE DEF p
  <2>1. p \in Seq(Nat) => p = [i \in 1 .. Len(p) |-> p[i]]
    OBVIOUS
  <2> QED
    BY <1>3, <2>1 DEF p
<1> QED
  BY <1>2, <1>3, <1>4

(* The next block of a response, or its end.                               *)
LEMMA BlockKeeps ==
  ASSUME RemoteInv, NEW f, f.id \in Ids, FrameOK(f, ran[f.id]), f.kind = "reply", Waiting(f.id),
         NEW r, r = outgoing[f.id][1], ~ r.finishing, f.state \in Terminal, Block(f, r),
         NEW x \in Client, x.state = f.state, x.total = f.total, x.result = "none",
         x.got = IF f.data > 0 THEN Append(r.got, f.offset) ELSE r.got,
         x.finishing <=> Len(r.got) + f.data = f.total, x.query <=> r.query,
         NEW rest \in SUBSET net, Asks(f.id, x, FALSE, rest), UNCHANGED <<incoming, order, ran, evicted>>
  PROVE  RemoteInv'
<1>1. /\ outgoing[f.id] \in Optional(Client) /\ outgoing[f.id] # <<>>
      /\ r \in Client /\ ClientOK(f.id, r, ran[f.id])
  BY Zenon, WaitingRecord
<1>2. r.got \in Seq(Nat) /\ f.data \in {0, 1} /\ f.offset = Len(r.got) /\ f.offset \in Nat
  BY <1>1 DEF Client, FrameOK, Datagram, Block
<1>3. r.got = [i \in 1 .. Len(r.got) |-> i - 1]
  BY <1>1 DEF ClientOK
<1>4. Len(x.got) = Len(r.got) + f.data /\ x.got = [i \in 1 .. Len(x.got) |-> i - 1]
  <2>1. CASE f.data = 0
    BY <1>2, <1>3, <2>1
  <2>2. CASE f.data = 1
    <3>1. x.got = Append(r.got, Len(r.got))
      BY <1>2, <2>2
    <3>2. /\ Len(x.got) = Len(r.got) + 1
          /\ x.got = [i \in 1 .. Len(r.got) + 1 |-> i - 1]
      BY Zenon, <1>2, <1>3, <3>1, AppendNext
    <3> QED
      BY <2>2, <3>2
  <2> QED
    BY <1>2, <2>1, <2>2
<1>5. x.finishing => Len(x.got) = x.total
  BY <1>4
<1>6. ClientOK(f.id, x, ran[f.id])
  BY <1>4, <1>5 DEF ClientOK, FrameOK
<1>7. Early(<<x>>) => Early(outgoing[f.id])
  <2>1. <<x>> # <<>> /\ <<x>>[1] = x
    OBVIOUS
  <2> QED
    BY Zenon, <1>1, <2>1 DEF Early
<1> QED
  BY Zenon, <1>6, <1>7, AsksKeeps

LEMMA ReplyKeeps ==
  ASSUME RemoteInv, NEW f, f.id \in Ids, FrameOK(f, ran[f.id]), f.kind = "reply", Waiting(f.id),
         NEW rest \in SUBSET net, Reply(f, outgoing[f.id][1], rest), UNCHANGED <<incoming, order, ran, evicted>>
  PROVE  RemoteInv'
<1> DEFINE r == outgoing[f.id][1]
           seen == [r EXCEPT !.seen = TRUE]
           lost == [r EXCEPT !.result = "failed"]
           again == [r EXCEPT !.sent = 0]
           asked == [seen EXCEPT !.state = f.state]
           tries == IF f.offset > r.sent THEN 0 ELSE r.attempts
           whole == f.offset = Body[f.id]
           upload == [seen EXCEPT !.sent = f.offset, !.known = whole, !.attempts = tries]
           got == IF f.data > 0 THEN Append(r.got, f.offset) ELSE r.got
           fewer == IF f.data > 0 THEN 0 ELSE r.attempts
           all == Len(r.got) + f.data = f.total
           more == [seen EXCEPT !.known = TRUE, !.state = f.state, !.total = f.total, !.got = got,
                                !.attempts = fewer, !.finishing = all]
           other == [seen EXCEPT !.known = TRUE]
<1>1. r \in Client /\ r.result = "none"
  BY Zenon, WaitingRecord
<1>2. r = outgoing[f.id][1]
  OBVIOUS
<1>3. f.state \in States /\ f.offset \in Nat /\ f.total \in Nat /\ f.data \in {0, 1}
  BY DEF FrameOK, Datagram
<1>4. \/ r.finishing /\ Answered(f.id, r, rest)
      \/ Answered(f.id, lost, rest)
      \/ Asks(f.id, again, FALSE, rest)
      \/ f.state = "receiving" /\ Answered(f.id, asked, rest)
      \/ Answered(f.id, seen, rest)
      \/ Asks(f.id, upload, FALSE, rest)
      \/ ~ r.finishing /\ f.state \in Terminal /\ Block(f, r) /\ Asks(f.id, more, FALSE, rest)
      \/ Answered(f.id, other, rest)
  <2>0. f.state = "not_found" \/ f.state = "receiving" \/ f.state \in Terminal
    BY <1>3 DEF States
  <2>1. r.finishing \in BOOLEAN
    BY <1>1 DEF Client
  <2>2. seen.sent = r.sent /\ seen.attempts = r.attempts /\ seen.got = r.got
    BY <1>1 DEF Client
  <2>3. CASE r.finishing
    BY <2>3 DEF Reply
  <2>4. CASE ~ r.finishing /\ f.state = "not_found"
    BY <2>4 DEF Reply, Terminal
  <2>5. CASE ~ r.finishing /\ f.state = "receiving"
    BY <2>2, <2>5 DEF Reply, Terminal
  <2>6. CASE ~ r.finishing /\ f.state \in Terminal
    BY <2>2, <2>6 DEF Reply, Terminal
  <2> QED
    BY Zenon, <2>0, <2>1, <2>3, <2>4, <2>5, <2>6
<1>5. /\ tries \in Nat /\ fewer \in Nat /\ whole \in BOOLEAN /\ all \in BOOLEAN /\ got \in Seq(Nat)
  BY <1>1, <1>3 DEF Client
<1>6. f.state = "receiving" => f.state # "succeeded"
  OBVIOUS
<1> HIDE DEF r, tries, whole, got, fewer, all
<1>7. seen \in Client /\ lost \in Client /\ again \in Client
  BY <1>1 DEF Client
<1>8. /\ seen.got = r.got /\ seen.total = r.total /\ seen.state = r.state /\ seen.result = "none"
      /\ lost.got = r.got /\ lost.total = r.total /\ lost.state = r.state /\ lost.result = "failed"
      /\ again.got = r.got /\ again.total = r.total /\ again.state = r.state /\ again.result = "none"
  BY <1>1 DEF Client
<1>9. /\ seen.finishing = r.finishing /\ seen.query = r.query
      /\ lost.finishing = r.finishing /\ lost.query = r.query
      /\ again.finishing = r.finishing /\ again.query = r.query
  BY Zenon, <1>1 DEF Client
<1> HIDE DEF seen, lost, again
<1>10. asked \in Client /\ upload \in Client /\ more \in Client /\ other \in Client
  <2>1. asked \in Client
    BY <1>3, <1>7 DEF Client
  <2>2. upload \in Client
    BY <1>3, <1>5, <1>7 DEF Client
  <2>3. more \in Client
    BY <1>3, <1>5, <1>7 DEF Client
  <2>4. other \in Client
    BY <1>7 DEF Client
  <2> QED
    BY <2>1, <2>2, <2>3, <2>4
<1>11. /\ asked.got = r.got /\ asked.total = r.total /\ asked.state = f.state /\ asked.result = "none"
       /\ upload.got = r.got /\ upload.total = r.total /\ upload.state = r.state /\ upload.result = "none"
       /\ more.got = got /\ more.total = f.total /\ more.state = f.state /\ more.result = "none"
       /\ other.got = r.got /\ other.total = r.total /\ other.state = r.state /\ other.result = "none"
  BY <1>7, <1>8 DEF Client
<1>12. /\ asked.finishing = r.finishing /\ asked.query = r.query
       /\ upload.finishing = r.finishing /\ upload.query = r.query
       /\ more.finishing = all /\ more.query = r.query
       /\ other.finishing = r.finishing /\ other.query = r.query
  <2>1. asked.finishing = r.finishing /\ asked.query = r.query
    BY Zenon, <1>7, <1>9 DEF Client
  <2>2. upload.finishing = r.finishing /\ upload.query = r.query
    BY Zenon, <1>7, <1>9 DEF Client
  <2>3. more.finishing = all /\ more.query = r.query
    BY Zenon, <1>7, <1>9 DEF Client
  <2>4. other.finishing = r.finishing /\ other.query = r.query
    BY Zenon, <1>7, <1>9 DEF Client
  <2> QED
    BY <2>1, <2>2, <2>3, <2>4
<1> HIDE DEF asked, upload, more, other
<1>13. Follows(r, r)
  BY <1>1 DEF Follows
<1>14. Follows(lost, r) /\ Follows(again, r) /\ Follows(seen, r)
  BY <1>7, <1>8, <1>9 DEF Follows
<1>15. Follows(upload, r) /\ Follows(other, r)
  BY <1>10, <1>11, <1>12 DEF Follows
<1>16. f.state = "receiving" => Follows(asked, r)
  BY <1>6, <1>10, <1>11, <1>12 DEF Follows
<1>17. ASSUME ~ r.finishing, f.state \in Terminal, Block(f, r), Asks(f.id, more, FALSE, rest)
       PROVE  RemoteInv'
  <2>1. more.finishing <=> Len(r.got) + f.data = f.total
    BY <1>12 DEF all
  <2>2. more.got = IF f.data > 0 THEN Append(r.got, f.offset) ELSE r.got
    BY <1>11 DEF got
  <2>3. more.query <=> r.query
    BY <1>12
  <2> QED
    BY Zenon, <1>2, <1>10, <1>11, <1>17, <2>1, <2>2, <2>3, BlockKeeps
<1> QED
  BY Zenon, <1>2, <1>4, <1>13, <1>14, <1>15, <1>16, <1>17, UpdateAnswered, UpdateAsks

LEMMA ClientReceiveKeeps ==
  ASSUME RemoteInv, NEW m \in net, ClientReceive(m)
  PROVE  RemoteInv'
<1> DEFINE f == m[2]
<1>1. FrameOK(f, ran[f.id]) /\ f.id \in Ids
  BY DEF RemoteInv, FrameOK, Datagram
<1>2. UNCHANGED <<incoming, order, ran, evicted>> /\ f.kind \in {"reply", "confirmed"}
  BY DEF ClientReceive
<1>3. \/ Waiting(f.id) /\ Confirmed(f, outgoing[f.id][1], net \ {m})
      \/ Waiting(f.id) /\ f.kind = "reply" /\ Reply(f, outgoing[f.id][1], net \ {m})
      \/ net' = net \ {m} /\ UNCHANGED outgoing
  BY <1>2 DEF ClientReceive
<1>4. net \ {m} \in SUBSET net
  OBVIOUS
<1> HIDE DEF f
<1>5. CASE Waiting(f.id) /\ Confirmed(f, outgoing[f.id][1], net \ {m})
  BY Zenon, <1>1, <1>2, <1>4, <1>5, ConfirmedKeeps
<1>6. CASE Waiting(f.id) /\ f.kind = "reply" /\ Reply(f, outgoing[f.id][1], net \ {m})
  BY Zenon, <1>1, <1>2, <1>4, <1>6, ReplyKeeps
<1>7. CASE net' = net \ {m} /\ UNCHANGED outgoing
  BY <1>2, <1>7 DEF RemoteInv
<1> QED
  BY Zenon, <1>3, <1>5, <1>6, <1>7
-----------------------------------------------------------------------------
(* What is answered from an entry is true of it.                           *)
LEMMA AnswerTrue ==
  ASSUME NEW id \in Ids, NEW r, NEW n, EntryOK(id, r, n), NEW offset \in Nat
  PROVE  FrameOK(Answer(id, r, offset), n) /\ Answer(id, r, offset).kind = "reply" /\ Answer(id, r, offset).id = id
<1> DEFINE a == Answer(id, r, offset)
<1>1. r \in Entry /\ r.state \in States /\ r.response \in Nat /\ r.body \in Nat
  BY DEF EntryOK, Entry
<1>2. CASE r.state \in Terminal
  <2> DEFINE o == IF offset < r.response THEN offset ELSE r.response
             d == IF o < r.response THEN 1 ELSE 0
  <2>1. a = Frame("reply", id, r.state, o, r.response, d)
    BY <1>2 DEF Answer
  <2>2. o \in Nat /\ d \in {0, 1}
    BY <1>1
  <2> HIDE DEF o, d
  <2>3. a \in Datagram /\ a.kind = "reply" /\ a.id = id /\ a.state = r.state /\ a.total = r.response
    BY <1>1, <2>1, <2>2 DEF Frame, Datagram
  <2> QED
    BY <2>3 DEF FrameOK, EntryOK
<1>3. CASE r.state \notin Terminal
  <2>1. a = Frame("reply", id, r.state, r.body, 0, 0)
    BY <1>3 DEF Answer
  <2>2. a \in Datagram /\ a.kind = "reply" /\ a.id = id /\ a.state = r.state
    BY <1>1, <2>1 DEF Frame, Datagram
  <2>3. r.state # "succeeded"
    BY <1>3 DEF Terminal
  <2> QED
    BY <2>2, <2>3 DEF FrameOK
<1> QED
  BY Zenon, <1>2, <1>3

(* The other answers.                                                      *)
LEMMA NotFoundTrue ==
  ASSUME NEW id \in Ids, NEW n
  PROVE  FrameOK(NotFound(id), n) /\ NotFound(id).kind = "reply" /\ NotFound(id).id = id
<1>1. NotFound(id) \in Datagram /\ NotFound(id).kind = "reply" /\ NotFound(id).state = "not_found" /\ NotFound(id).id = id
  BY DEF NotFound, Frame, Datagram, States
<1> QED
  BY <1>1 DEF FrameOK

LEMMA ConfirmedTrue ==
  ASSUME NEW id \in Ids, NEW n, NEW state \in States, NEW total \in Nat, NEW a,
         a = Frame("confirmed", id, state, 0, total, 0)
  PROVE  FrameOK(a, n) /\ a.kind = "confirmed" /\ a.id = id
<1>1. a \in Datagram /\ a.kind = "confirmed" /\ a.id = id
  BY DEF Frame, Datagram
<1> QED
  BY <1>1 DEF FrameOK

LEMMA RefusedTrue ==
  ASSUME NEW id \in Ids, NEW n, NEW a, a = Frame("reply", id, "rejected", 0, 1, 1)
  PROVE  FrameOK(a, n) /\ a.kind = "reply" /\ a.id = id
<1>1. a \in Datagram /\ a.kind = "reply" /\ a.state = "rejected" /\ a.id = id
  BY DEF Frame, Datagram, States, Terminal
<1> QED
  BY <1>1 DEF FrameOK

(* A step that changes one entry, or none.                                 *)
LEMMA EntrySteps ==
  ASSUME RemoteInv, NEW id \in Ids, NEW x, x \in Optional(Entry),
         incoming' = [incoming EXCEPT ![id] = x],
         RequestInv(id, outgoing[id], x, ran[id], id \in evicted),
         UNCHANGED <<outgoing, ran, evicted>>, order' \in Nat,
         \A m \in net' : m \in net \/ (FrameOK(m[2], ran[m[2].id]) /\ m[2].kind # "finish")
  PROVE  RemoteInv'
<1>1. outgoing' = outgoing /\ ran' = ran /\ evicted' = evicted
  OBVIOUS
<1>2. incoming' \in [Ids -> Optional(Entry)] /\ incoming'[id] = x
  BY DEF RemoteInv
<1>3. \A j \in Ids : j # id => incoming'[j] = incoming[j]
  BY DEF RemoteInv
<1>4. \A j \in Ids : RequestInv(j, outgoing[j], incoming'[j], ran'[j], j \in evicted')
  BY Zenon, <1>1, <1>2, <1>3 DEF RemoteInv
<1>5. ran' \in [Ids -> Nat] /\ \A j \in Ids : ran[j] <= ran'[j]
  BY <1>1 DEF RemoteInv
<1>6. \A m \in net' : m \in net \/ (FrameOK(m[2], ran'[m[2].id]) /\ m[2].kind # "finish")
  BY Zenon, <1>1
<1> QED
  BY Zenon, <1>1, <1>2, <1>4, <1>5, <1>6, ServerSteps

LEMMA PollKeeps ==
  ASSUME RemoteInv, NEW m \in net, ServerPoll(m)
  PROVE  RemoteInv'
<1> DEFINE f == m[2]
           r == incoming[f.id][1]
           all == f.kind = "finish" /\ r.state \in Terminal /\ f.state = r.state /\ f.total = r.response
           x == [r EXCEPT !.acknowledged = TRUE]
<1>1. FrameOK(f, ran[f.id]) /\ f.id \in Ids /\ f.state \in States /\ f.total \in Nat /\ f.offset \in Nat
  BY DEF RemoteInv, FrameOK, Datagram
<1>2. /\ f.kind = "finish" => ~ Early(outgoing[f.id])
      /\ RequestInv(f.id, outgoing[f.id], incoming[f.id], ran[f.id], f.id \in evicted)
      /\ order \in Nat /\ incoming \in [Ids -> Optional(Entry)]
  BY Zenon, <1>1 DEF RemoteInv
<1>3. UNCHANGED <<outgoing, ran, evicted>> /\ order' = order
  BY DEF ServerPoll
<1>4. CASE incoming[f.id] = <<>>
  <2>1. incoming' = [incoming EXCEPT ![f.id] = <<>>]
    BY <1>1, <1>2, <1>4 DEF ServerPoll
  <2>2. \/ Send(Frame("confirmed", f.id, "rejected", 0, f.total, 0), net \ {m})
        \/ Send(NotFound(f.id), net \ {m})
    BY <1>4 DEF ServerPoll
  <2>3. "rejected" \in States
    BY DEF States, Terminal
  <2> HIDE DEF f
  <2>4. \A p \in net' : p \in net \/ (FrameOK(p[2], ran[p[2].id]) /\ p[2].kind # "finish")
    <3>1. CASE Send(Frame("confirmed", f.id, "rejected", 0, f.total, 0), net \ {m})
      <4> DEFINE a == Frame("confirmed", f.id, "rejected", 0, f.total, 0)
      <4>1. FrameOK(a, ran[f.id]) /\ a.kind = "confirmed" /\ a.id = f.id
        BY <1>1, <2>3, ConfirmedTrue
      <4>2. \A p \in net' : p \in net \ {m} \/ p[2] = a
        BY Zenon, <3>1, SendAdds
      <4> HIDE DEF a
      <4> QED
        BY <4>1, <4>2
    <3>2. CASE Send(NotFound(f.id), net \ {m})
      <4>1. FrameOK(NotFound(f.id), ran[f.id]) /\ NotFound(f.id).kind = "reply" /\ NotFound(f.id).id = f.id
        BY Zenon, <1>1, NotFoundTrue
      <4>2. \A p \in net' : p \in net \ {m} \/ p[2] = NotFound(f.id)
        BY Zenon, <3>2, SendAdds
      <4> QED
        BY <4>1, <4>2
    <3> QED
      BY Zenon, <2>2, <3>1, <3>2
  <2>5. <<>> \in Optional(Entry) /\ order' \in Nat
    BY <1>2, <1>3 DEF Optional
  <2> QED
    BY Zenon, <1>1, <1>2, <1>3, <1>4, <2>1, <2>4, <2>5, EntrySteps
<1>5. CASE incoming[f.id] # <<>>
  <2>1. r \in Entry /\ incoming[f.id] = <<r>> /\ EntryOK(f.id, r, ran[f.id])
    BY <1>1, <1>2, <1>5, OptionalSome DEF RequestInv
  <2>2. \/ all /\ incoming' = [incoming EXCEPT ![f.id] = <<x>>]
               /\ Send(Frame("confirmed", f.id, r.state, 0, r.response, 0), net \ {m})
        \/ incoming' = incoming /\ Send(Answer(f.id, r, f.offset), net \ {m})
    BY <1>5 DEF ServerPoll
  <2>3. all => ~ Early(outgoing[f.id])
    BY <1>2
  <2> HIDE DEF f, r, all
  <2>4. x \in Entry
    BY <2>1 DEF Entry
  <2>5. x.state = r.state /\ x.response = r.response
    BY <2>1 DEF Entry
  <2> HIDE DEF x
  <2>6. r.state \in States /\ r.response \in Nat
    BY <2>1 DEF Entry
  <2>7. <<x>> \in Optional(Entry) /\ <<r>> \in Optional(Entry) /\ order' \in Nat
    BY <1>2, <1>3, <2>1, <2>4, OptionalMakes
  <2>8. CASE all /\ incoming' = [incoming EXCEPT ![f.id] = <<x>>]
                 /\ Send(Frame("confirmed", f.id, r.state, 0, r.response, 0), net \ {m})
    <3> DEFINE a == Frame("confirmed", f.id, r.state, 0, r.response, 0)
    <3>1. FrameOK(a, ran[f.id]) /\ a.kind = "confirmed" /\ a.id = f.id
      BY <1>1, <2>6, ConfirmedTrue
    <3>2. \A p \in net' : p \in net \ {m} \/ p[2] = a
      BY Zenon, <2>8, SendAdds
    <3> HIDE DEF a
    <3>3. \A p \in net' : p \in net \/ (FrameOK(p[2], ran[p[2].id]) /\ p[2].kind # "finish")
      BY <3>1, <3>2
    <3>4. RequestInv(f.id, outgoing[f.id], <<r>>, ran[f.id], f.id \in evicted)
      BY Zenon, <1>2, <2>1
    <3>b. (f.id \in evicted) \in BOOLEAN
      OBVIOUS
    <3>5. RequestInv(f.id, outgoing[f.id], <<x>>, ran[f.id], f.id \in evicted)
      BY Zenon, <1>1, <2>1, <2>3, <2>4, <2>5, <2>8, <3>4, <3>b, EntryAcknowledged
    <3> QED
      BY Zenon, <1>1, <1>3, <2>7, <2>8, <3>3, <3>5, EntrySteps
  <2>9. CASE incoming' = incoming /\ Send(Answer(f.id, r, f.offset), net \ {m})
    <3> DEFINE a == Answer(f.id, r, f.offset)
    <3>1. FrameOK(a, ran[f.id]) /\ a.kind = "reply" /\ a.id = f.id
      BY Zenon, <1>1, <2>1, AnswerTrue
    <3>2. \A p \in net' : p \in net \ {m} \/ p[2] = a
      BY Zenon, <2>9, SendAdds
    <3> HIDE DEF a
    <3>3. \A p \in net' : p \in net \/ (FrameOK(p[2], ran[p[2].id]) /\ p[2].kind # "finish")
      BY <3>1, <3>2
    <3>4. incoming' = [incoming EXCEPT ![f.id] = <<r>>]
      BY <1>1, <1>2, <2>1, <2>9
    <3>5. RequestInv(f.id, outgoing[f.id], <<r>>, ran[f.id], f.id \in evicted)
      BY Zenon, <1>2, <2>1
    <3> QED
      BY Zenon, <1>1, <1>3, <2>7, <3>3, <3>4, <3>5, EntrySteps
  <2> QED
    BY Zenon, <2>2, <2>8, <2>9
<1> QED
  BY Zenon, <1>4, <1>5

LEMMA ExpiresKeeps ==
  ASSUME RemoteInv, NEW id \in Ids, UploadExpires(id)
  PROVE  RemoteInv'
<1> DEFINE r == incoming[id][1]
           x == [r EXCEPT !.state = "expired", !.order = order + 1, !.response = 1, !.body = 0]
<1>1. incoming[id] # <<>> /\ UNCHANGED <<outgoing, ran, evicted>> /\ net' = net /\ order' = order + 1
  BY DEF UploadExpires, Active
<1>2. /\ RequestInv(id, outgoing[id], incoming[id], ran[id], id \in evicted)
      /\ order \in Nat /\ incoming \in [Ids -> Optional(Entry)]
  BY Zenon DEF RemoteInv
<1>3. incoming' = [incoming EXCEPT ![id] = <<x>>]
  BY <1>2 DEF UploadExpires
<1>4. r \in Entry /\ incoming[id] = <<r>>
  BY <1>1, <1>2, OptionalSome
<1>5. order + 1 \in Nat /\ "expired" \in States
  BY <1>2 DEF States, Terminal
<1> HIDE DEF r
<1>6. x \in Entry
  BY <1>4, <1>5 DEF Entry
<1>7. x.state = "expired" /\ x.acknowledged = r.acknowledged
  BY Zenon, <1>4 DEF Entry
<1> HIDE DEF x
<1>8. RequestInv(id, outgoing[id], <<r>>, ran[id], id \in evicted)
  BY Zenon, <1>2, <1>4
<1>b. (id \in evicted) \in BOOLEAN
  OBVIOUS
<1>9. RequestInv(id, outgoing[id], <<x>>, ran[id], id \in evicted)
  BY Zenon, <1>4, <1>6, <1>7, <1>8, <1>b, EntryCloses
<1>10. <<x>> \in Optional(Entry) /\ order' \in Nat
  BY <1>1, <1>5, <1>6, OptionalMakes
<1> QED
  BY Zenon, <1>1, <1>3, <1>9, <1>10, EntrySteps

(* A block for the entry r, with the entries in left by admission.         *)
LEMMA AbsorbKeeps ==
  ASSUME RemoteInv, NEW f, f.id \in Ids, f.data \in Nat,
         NEW in \in [Ids -> Optional(Entry)], NEW rest \in SUBSET net,
         \A j \in Ids : RequestInv(j, outgoing[j], in[j], ran[j], j \in evicted'),
         NEW r \in Entry, RequestInv(f.id, outgoing[f.id], <<r>>, ran[f.id], f.id \in evicted'),
         Absorb(f, in, r, rest), outgoing' = outgoing
  PROVE  RemoteInv'
<1> DEFINE body == IF r.state = "receiving" /\ f.offset = r.body THEN r.body + f.data ELSE r.body
           stays == [r EXCEPT !.body = body]
           ends(state) == [r EXCEPT !.body = body, !.state = state, !.order = order + 1,
                                    !.response = Response[f.id]]
<1>1. /\ r.body \in Nat /\ r.order \in Nat /\ order \in Nat /\ ran \in [Ids -> Nat] /\ ran[f.id] \in Nat
      /\ Response[f.id] \in Nat /\ body \in Nat /\ order + 1 \in Nat
  BY BlocksAssumption DEF RemoteInv, Entry
<1>2. \/ /\ r.state = "receiving"
         /\ \E state \in {"succeeded", "failed", "rejected"} :
              /\ incoming' = [in EXCEPT ![f.id] = <<ends(state)>>] /\ order' = order + 1
              /\ Send(Answer(f.id, ends(state), 0), rest)
              /\ ran' = [ran EXCEPT ![f.id] = IF state = "rejected" THEN @ ELSE @ + 1]
      \/ /\ incoming' = [in EXCEPT ![f.id] = <<stays>>] /\ order' \in {r.order, order}
         /\ Send(Answer(f.id, stays, 0), rest) /\ ran' = ran
  BY DEF Absorb
<1>b. (f.id \in evicted') \in BOOLEAN
  OBVIOUS
<1> HIDE DEF body
<1>3. ASSUME NEW x \in Entry, NEW k \in Nat, ran[f.id] <= k,
             RequestInv(f.id, outgoing[f.id], <<x>>, k, f.id \in evicted'),
             incoming' = [in EXCEPT ![f.id] = <<x>>], Send(Answer(f.id, x, 0), rest),
             ran' = [ran EXCEPT ![f.id] = k], order' \in Nat
      PROVE  RemoteInv'
  <2>1. <<x>> \in Optional(Entry) /\ <<x>> # <<>> /\ <<x>>[1] = x
    BY OptionalMakes
  <2>2. incoming' \in [Ids -> Optional(Entry)] /\ ran' \in [Ids -> Nat]
    BY <1>1, <1>3, <2>1
  <2>3. incoming'[f.id] = <<x>> /\ ran'[f.id] = k
    BY <1>1, <1>3
  <2>4. \A j \in Ids : j # f.id => incoming'[j] = in[j] /\ ran'[j] = ran[j]
    BY <1>1, <1>3
  <2>5. \A j \in Ids : ran[j] <= ran'[j]
    BY SMTT(30), <1>1, <1>3, <2>3, <2>4
  <2>6. \A j \in Ids : RequestInv(j, outgoing[j], incoming'[j], ran'[j], j \in evicted')
    BY ZenonT(40), <1>3, <2>3, <2>4
  <2>7. EntryOK(f.id, x, k)
    BY Zenon, <1>3, <2>1 DEF RequestInv
  <2> DEFINE a == Answer(f.id, x, 0)
  <2>8. FrameOK(a, k) /\ a.kind = "reply" /\ a.id = f.id
    BY <2>7, AnswerTrue
  <2>9. \A p \in net' : p \in rest \/ p[2] = a
    BY Zenon, <1>3, SendAdds
  <2> HIDE DEF a
  <2>10. \A p \in net' : p \in net \/ (FrameOK(p[2], ran'[p[2].id]) /\ p[2].kind # "finish")
    BY <2>3, <2>8, <2>9
  <2> QED
    BY Zenon, <1>3, <2>2, <2>5, <2>6, <2>10, ServerSteps
<1>4. ASSUME NEW state \in {"succeeded", "failed", "rejected"}, r.state = "receiving",
             incoming' = [in EXCEPT ![f.id] = <<ends(state)>>], order' = order + 1,
             Send(Answer(f.id, ends(state), 0), rest),
             ran' = [ran EXCEPT ![f.id] = IF state = "rejected" THEN @ ELSE @ + 1]
      PROVE  RemoteInv'
  <2> DEFINE x == ends(state)
             k == IF state = "rejected" THEN ran[f.id] ELSE ran[f.id] + 1
  <2>1. k \in {ran[f.id], ran[f.id] + 1} /\ k \in Nat /\ ran[f.id] <= k /\ (state = "succeeded" => k = ran[f.id] + 1)
    BY <1>1
  <2>2. ran' = [ran EXCEPT ![f.id] = k]
    BY <1>4
  <2>3. state \in States
    BY DEF States, Terminal
  <2> DEFINE next == order + 1
             all == Response[f.id]
  <2> HIDE DEF k, next, all
  <2>4. x = [r EXCEPT !.body = body, !.state = state, !.order = next, !.response = all]
    BY DEF next, all
  <2>5. next \in Nat /\ all \in Nat
    BY <1>1 DEF next, all
  <2>6. x \in Entry
    BY <1>1, <2>3, <2>4, <2>5 DEF Entry
  <2>7. x.state = state /\ x.response = Response[f.id]
    BY <2>4 DEF Entry, all
  <2>8. x.acknowledged = r.acknowledged
    BY Zenon, <2>4 DEF Entry
  <2>9. Send(Answer(f.id, x, 0), rest) /\ incoming' = [in EXCEPT ![f.id] = <<x>>] /\ order' \in Nat
    BY <1>1, <1>4
  <2> HIDE DEF x
  <2>10. RequestInv(f.id, outgoing[f.id], <<x>>, k, f.id \in evicted')
    <3>1. Runs(f.id, r, x, ran[f.id], k)
      <4>1. x.state = "failed" \/ x.state = "rejected" \/ (x.state = "succeeded" /\ k = ran[f.id] + 1)
        BY Zenon, <2>1, <2>7
      <4>2. x.acknowledged <=> r.acknowledged
        BY Zenon, <2>8
      <4> QED
        BY Zenon, <1>1, <1>4, <2>1, <2>6, <2>7, <4>1, <4>2 DEF Runs
    <3>2. RequestInv(f.id, outgoing[f.id], <<r>>, ran[f.id], f.id \in evicted')
      OBVIOUS
    <3>3. \A q, g : g \in BOOLEAN /\ Runs(f.id, r, x, ran[f.id], k) /\ RequestInv(f.id, q, <<r>>, ran[f.id], g)
                       => RequestInv(f.id, q, <<x>>, k, g)
      BY EntryRuns
    <3> QED
      BY Zenon, <1>b, <3>1, <3>2, <3>3
  <2> QED
    BY Zenon, <1>3, <2>1, <2>2, <2>6, <2>9, <2>10
<1>5. ASSUME incoming' = [in EXCEPT ![f.id] = <<stays>>], order' \in {r.order, order},
             Send(Answer(f.id, stays, 0), rest), ran' = ran
      PROVE  RemoteInv'
  <2>1. stays \in Entry
    BY <1>1 DEF Entry
  <2>2. stays.state = r.state /\ stays.response = r.response
    BY DEF Entry
  <2>3. stays.acknowledged = r.acknowledged
    BY Zenon DEF Entry
  <2> HIDE DEF stays
  <2>4. RequestInv(f.id, outgoing[f.id], <<stays>>, ran[f.id], f.id \in evicted')
    BY Zenon, <1>b, <2>1, <2>2, <2>3, EntryStays
  <2>5. ran' = [ran EXCEPT ![f.id] = ran[f.id]] /\ ran[f.id] <= ran[f.id] /\ order' \in Nat
    BY <1>1, <1>5
  <2> QED
    BY Zenon, <1>1, <1>3, <1>5, <2>1, <2>4, <2>5
<1> QED
  BY Zenon, <1>2, <1>4, <1>5

LEMMA PutKeeps ==
  ASSUME RemoteInv, NEW m \in net, ServerPut(m)
  PROVE  RemoteInv'
<1> DEFINE f == m[2]
           rest == net \ {m}
           fresh == [state |-> "receiving", body |-> 0, response |-> 0, acknowledged |-> FALSE, order |-> 0]
           refused == [fresh EXCEPT !.state = "rejected", !.response = 1, !.order = order + 1]
           kept(victims) == [id \in Ids |-> IF id \in victims THEN <<>> ELSE incoming[id]]
           stateless(answer, in) == Send(answer, rest) /\ incoming' = in /\ UNCHANGED <<order, ran>>
<1>1. /\ FrameOK(f, ran[f.id]) /\ f.id \in Ids /\ f.data \in Nat
      /\ order \in Nat /\ incoming \in [Ids -> Optional(Entry)] /\ ran \in [Ids -> Nat]
      /\ \A j \in Ids : RequestInv(j, outgoing[j], incoming[j], ran[j], j \in evicted)
  BY DEF RemoteInv, FrameOK, Datagram
<1>2. outgoing' = outgoing
  BY DEF ServerPut
<1>3. \/ incoming[f.id] # <<>> /\ Absorb(f, incoming, incoming[f.id][1], rest) /\ evicted' = evicted
      \/ incoming[f.id] = <<>> /\ stateless(NotFound(f.id), incoming) /\ evicted' = evicted
      \/ /\ incoming[f.id] = <<>>
         /\ \E victims \in SUBSET Evictable :
              /\ evicted' = evicted \cup victims
              /\ \/ stateless(Frame("reply", f.id, "rejected", 0, 1, 1), kept(victims))
                 \/ \E r \in {fresh, refused} : Absorb(f, kept(victims), r, rest)
  <2>1. {} \in SUBSET Evictable /\ \A capacity : Victims(capacity) \in SUBSET Evictable
    BY DEF Victims
  <2> QED
    BY <2>1 DEF ServerPut, Known
<1>4. rest \in SUBSET net
  OBVIOUS
<1>5. ASSUME NEW a, FrameOK(a, ran[f.id]), a.kind = "reply", a.id = f.id, NEW in, stateless(a, in),
             in \in [Ids -> Optional(Entry)],
             \A j \in Ids : RequestInv(j, outgoing[j], in[j], ran[j], j \in evicted')
      PROVE  RemoteInv'
  <2>1. incoming' = in /\ ran' = ran /\ order' = order
    BY <1>5
  <2>2. \A p \in net' : p \in rest \/ p[2] = a
    BY Zenon, <1>5, SendAdds
  <2>3. \A p \in net' : p \in net \/ (FrameOK(p[2], ran'[p[2].id]) /\ p[2].kind # "finish")
    BY <1>4, <1>5, <2>1, <2>2
  <2>4. \A j \in Ids : ran[j] <= ran'[j]
    BY <1>1, <2>1
  <2>5. incoming' \in [Ids -> Optional(Entry)] /\ ran' \in [Ids -> Nat] /\ order' \in Nat
    BY Zenon, <1>1, <1>5, <2>1
  <2>6. \A j \in Ids : RequestInv(j, outgoing[j], incoming'[j], ran'[j], j \in evicted')
    BY Zenon, <1>5, <2>1
  <2> QED
    BY Zenon, <1>2, <2>3, <2>4, <2>5, <2>6, ServerSteps
<1> HIDE DEF f, rest, stateless
<1>6. CASE incoming[f.id] # <<>> /\ Absorb(f, incoming, incoming[f.id][1], rest) /\ evicted' = evicted
  <2>1. incoming[f.id][1] \in Entry /\ incoming[f.id] = <<incoming[f.id][1]>>
    BY <1>1, <1>6, OptionalSome
  <2>2. RequestInv(f.id, outgoing[f.id], <<incoming[f.id][1]>>, ran[f.id], f.id \in evicted')
    BY Zenon, <1>1, <1>6, <2>1
  <2>3. \A j \in Ids : RequestInv(j, outgoing[j], incoming[j], ran[j], j \in evicted')
    BY Zenon, <1>1, <1>6
  <2> QED
    BY Zenon, <1>1, <1>2, <1>4, <1>6, <2>1, <2>2, <2>3, AbsorbKeeps
<1>7. CASE incoming[f.id] = <<>> /\ stateless(NotFound(f.id), incoming) /\ evicted' = evicted
  <2>1. FrameOK(NotFound(f.id), ran[f.id]) /\ NotFound(f.id).kind = "reply" /\ NotFound(f.id).id = f.id
    BY Zenon, <1>1, NotFoundTrue
  <2>2. \A j \in Ids : RequestInv(j, outgoing[j], incoming[j], ran[j], j \in evicted')
    BY Zenon, <1>1, <1>7
  <2> QED
    BY Zenon, <1>1, <1>5, <1>7, <2>1, <2>2
<1>8. ASSUME incoming[f.id] = <<>>, NEW victims \in SUBSET Evictable, evicted' = evicted \cup victims,
             \/ stateless(Frame("reply", f.id, "rejected", 0, 1, 1), kept(victims))
             \/ \E r \in {fresh, refused} : Absorb(f, kept(victims), r, rest)
      PROVE  RemoteInv'
  <2> DEFINE in == kept(victims)
  <2>1. \A j \in victims : j \in Ids /\ incoming[j] # <<>> /\ incoming[j][1].acknowledged
    BY DEF Evictable, Present
  <2>2. in \in [Ids -> Optional(Entry)]
    <3>1. <<>> \in Optional(Entry)
      BY DEF Optional
    <3> QED
      BY <1>1, <3>1
  <2>3. /\ \A j \in Ids : j \in victims => in[j] = <<>>
        /\ \A j \in Ids : j \notin victims => in[j] = incoming[j]
    OBVIOUS
  <2> HIDE DEF in
  <2>4. ASSUME NEW j \in Ids PROVE RequestInv(j, outgoing[j], in[j], ran[j], j \in evicted')
    <3>1. CASE j \in victims
      <4>1. (j \in evicted') <=> TRUE
        BY <1>8, <3>1
      <4>2. (j \in evicted) \in BOOLEAN
        OBVIOUS
      <4>3. RequestInv(j, outgoing[j], <<>>, ran[j], TRUE)
        BY Zenon, <1>1, <2>1, <3>1, <4>2, EntryEvicted
      <4>4. in[j] = <<>>
        BY Zenon, <2>3, <3>1
      <4> QED
        BY Zenon, <4>1, <4>3, <4>4 DEF RequestInv
    <3>2. CASE j \notin victims
      <4>1. (j \in evicted') <=> (j \in evicted)
        BY <1>8, <3>2
      <4>2. in[j] = incoming[j] /\ RequestInv(j, outgoing[j], incoming[j], ran[j], j \in evicted)
        BY Zenon, <1>1, <2>3, <3>2
      <4> QED
        BY Zenon, <4>1, <4>2 DEF RequestInv
    <3> QED
      BY Zenon, <3>1, <3>2
  <2>5. CASE stateless(Frame("reply", f.id, "rejected", 0, 1, 1), kept(victims))
    <3> DEFINE a == Frame("reply", f.id, "rejected", 0, 1, 1)
    <3>1. FrameOK(a, ran[f.id]) /\ a.kind = "reply" /\ a.id = f.id
      BY Zenon, <1>1, RefusedTrue
    <3>2. stateless(a, in)
      BY <2>5 DEF in
    <3> HIDE DEF a
    <3> QED
      BY Zenon, <1>5, <2>2, <2>4, <3>1, <3>2
  <2>6. ASSUME NEW r \in {fresh, refused}, Absorb(f, kept(victims), r, rest) PROVE RemoteInv'
    <3>1. in[f.id] = <<>>
      BY Zenon, <1>1, <1>8, <2>1, <2>3
    <3>2. r \in Entry /\ r.state \in {"receiving", "rejected"} /\ ~ r.acknowledged
      <4> DEFINE next == order + 1
      <4>1. next \in Nat
        BY <1>1
      <4>2. fresh \in Entry /\ fresh.state = "receiving" /\ ~ fresh.acknowledged
        BY DEF Entry, States
      <4>3. refused = [fresh EXCEPT !.state = "rejected", !.response = 1, !.order = next]
        OBVIOUS
      <4> HIDE DEF next, fresh, refused
      <4>4. refused \in Entry /\ refused.state = "rejected" /\ ~ refused.acknowledged
        <5>1. refused \in Entry
          BY <4>1, <4>2, <4>3 DEF Entry, States, Terminal
        <5>2. refused.state = "rejected"
          BY <4>2, <4>3 DEF Entry
        <5>3. refused.acknowledged = fresh.acknowledged
          BY Zenon, <4>2, <4>3 DEF Entry
        <5> QED
          BY Zenon, <4>2, <5>1, <5>2, <5>3
      <4> QED
        BY Zenon, <4>2, <4>4
    <3>3. RequestInv(f.id, outgoing[f.id], <<>>, ran[f.id], f.id \in evicted')
      BY Zenon, <1>1, <2>4, <3>1
    <3>b. (f.id \in evicted') \in BOOLEAN
      OBVIOUS
    <3>4. RequestInv(f.id, outgoing[f.id], <<r>>, ran[f.id], f.id \in evicted')
      <4> HIDE DEF fresh, refused
      <4> QED
        BY ZenonT(30), <1>1, <3>2, <3>3, <3>b, EntryOpens
    <3>5. Absorb(f, in, r, rest)
      BY <2>6 DEF in
    <3> QED
      BY Zenon, <1>1, <1>2, <1>4, <2>2, <2>4, <3>2, <3>4, <3>5, AbsorbKeeps
  <2> QED
    BY Zenon, <1>8, <2>5, <2>6
<1> QED
  BY Zenon, <1>3, <1>6, <1>7, <1>8
-----------------------------------------------------------------------------
LEMMA ClientChangedKeeps ==
  ASSUME RemoteInv, ClientSessionChanged
  PROVE  RemoteInv'
<1>1. incoming' = incoming /\ order' = order /\ ran' = ran /\ evicted' = evicted /\ net' = net
  BY DEF ClientSessionChanged
<1> DEFINE x(id) == [outgoing[id][1] EXCEPT !.result = "failed"]
<1>2. outgoing' = [id \in Ids |-> IF Waiting(id) THEN <<x(id)>> ELSE outgoing[id]]
  BY DEF ClientSessionChanged
<1>3. ASSUME NEW id \in Ids, Waiting(id)
      PROVE  ClientOK(id, x(id), ran[id]) /\ (Early(<<x(id)>>) <=> Early(outgoing[id]))
  <2> DEFINE r == outgoing[id][1]
             y == [r EXCEPT !.result = "failed"]
  <2>1. outgoing[id] # <<>> /\ r \in Client /\ ClientOK(id, r, ran[id])
    BY Zenon, <1>3, WaitingRecord
  <2> HIDE DEF r
  <2>2. y \in Client
    BY <2>1 DEF Client
  <2>3. y.got = r.got /\ y.total = r.total /\ y.state = r.state /\ y.result = "failed"
    BY <2>1 DEF Client
  <2>4. y.finishing = r.finishing /\ y.query = r.query
    BY Zenon, <2>1 DEF Client
  <2> HIDE DEF y
  <2>5. ClientOK(id, y, ran[id])
    BY <2>1, <2>2, <2>3, <2>4, ClientChanges
  <2>6. <<y>> # <<>> /\ <<y>>[1] = y
    OBVIOUS
  <2>7. Early(<<y>>) <=> Early(outgoing[id])
    BY Zenon, <2>1, <2>4, <2>6 DEF Early, r
  <2> QED
    BY Zenon, <2>5, <2>7 DEF y, r
<1>4. \A id \in Ids : /\ Waiting(id) => outgoing'[id] = <<x(id)>>
                      /\ ~ Waiting(id) => outgoing'[id] = outgoing[id]
  BY Zenon, <1>2
<1>5. ASSUME NEW id \in Ids
      PROVE  /\ RequestInv(id, outgoing'[id], incoming[id], ran[id], id \in evicted)
             /\ outgoing'[id] \in Optional(Client)
             /\ Early(outgoing'[id]) <=> Early(outgoing[id])
  <2>1. RequestInv(id, outgoing[id], incoming[id], ran[id], id \in evicted) /\ outgoing[id] \in Optional(Client)
    BY DEF RemoteInv
  <2>2. CASE ~ Waiting(id)
    BY Zenon, <1>4, <2>1, <2>2
  <2>3. CASE Waiting(id)
    <3> DEFINE y == x(id)
    <3>1. outgoing'[id] = <<y>> /\ ClientOK(id, y, ran[id]) /\ (Early(<<y>>) <=> Early(outgoing[id]))
      BY Zenon, <1>3, <1>4, <2>3
    <3> HIDE DEF y, x
    <3>2. y \in Client /\ <<y>> \in Optional(Client) /\ <<y>>[1] = y
      BY <3>1, OptionalMakes DEF ClientOK
    <3>3. RequestInv(id, <<y>>, incoming[id], ran[id], id \in evicted)
      BY <2>1, <3>1, <3>2 DEF RequestInv
    <3> QED
      BY Zenon, <3>1, <3>2, <3>3
  <2> QED
    BY Zenon, <2>2, <2>3
<1>6. outgoing' \in [Ids -> Optional(Client)]
  <2>1. outgoing' = [id \in Ids |-> outgoing'[id]]
    <3> HIDE DEF x
    <3> QED
      BY <1>2
  <2> QED
    BY <1>5, <2>1
<1>7. \A m \in net : m[2].id \in Ids
  BY DEF RemoteInv, FrameOK, Datagram
<1>8. \A m \in net : /\ FrameOK(m[2], ran[m[2].id])
                     /\ m[2].kind = "finish" => ~ Early(outgoing'[m[2].id])
  BY Zenon, <1>5, <1>7 DEF RemoteInv
<1>9. \A id \in Ids : RequestInv(id, outgoing'[id], incoming'[id], ran'[id], id \in evicted')
  BY Zenon, <1>1, <1>5
<1> QED
  BY Zenon, <1>1, <1>6, <1>8, <1>9 DEF RemoteInv

LEMMA ServerChangedKeeps ==
  ASSUME RemoteInv, ServerSessionChanged
  PROVE  RemoteInv'
<1> DEFINE cut == {id \in Ids : Active(incoming[id])}
           x(id, n) == [incoming[id][1] EXCEPT !.state = "expired", !.response = 1, !.order = n]
<1>1. outgoing' = outgoing /\ net' = net /\ ran' = ran /\ evicted' = evicted
  BY DEF ServerSessionChanged
<1>2. order \in Nat /\ ran \in [Ids -> Nat] /\ incoming \in [Ids -> Optional(Entry)]
      /\ \A id \in Ids : RequestInv(id, outgoing[id], incoming[id], ran[id], id \in evicted)
  BY DEF RemoteInv
<1>3. Cardinality(cut) \in Nat
  <2>1. cut \in SUBSET Ids
    OBVIOUS
  <2> HIDE DEF cut
  <2> QED
    BY Zenon, FiniteIds, <2>1, FS_Subset, FS_CardinalityType
<1>4. PICK rank \in Bijection(cut, 1 .. Cardinality(cut)) :
        incoming' = [id \in Ids |-> IF id \notin cut THEN incoming[id] ELSE <<x(id, order + rank[id])>>]
  BY DEF ServerSessionChanged
<1>5. \A id \in cut : order + rank[id] \in Nat
  <2>1. rank \in [cut -> 1 .. Cardinality(cut)]
    BY DEF Bijection, Injection
  <2> HIDE DEF cut
  <2> QED
    BY <1>2, <1>3, <2>1
<1>6. order' \in Nat
  <2>1. order' = order + Cardinality(cut)
    BY DEF ServerSessionChanged
  <2> HIDE DEF cut
  <2> QED
    BY <1>2, <1>3, <2>1
<1>7. ASSUME NEW id \in Ids
      PROVE  /\ incoming'[id] \in Optional(Entry)
             /\ RequestInv(id, outgoing[id], incoming'[id], ran[id], id \in evicted)
  <2>1. CASE id \notin cut
    <3>1. incoming'[id] = incoming[id]
      BY Zenon, <1>4, <2>1
    <3> QED
      BY Zenon, <1>2, <3>1
  <2>2. CASE id \in cut
    <3> DEFINE n == order + rank[id]
               r == incoming[id][1]
               y == [r EXCEPT !.state = "expired", !.response = 1, !.order = n]
    <3>1. incoming'[id] = <<y>>
      BY Zenon, <1>4, <2>2
    <3>2. n \in Nat /\ "expired" \in States
      BY <1>5, <2>2 DEF States, Terminal
    <3>3. incoming[id] # <<>>
      BY <2>2 DEF Active
    <3>4. r \in Entry /\ incoming[id] = <<r>>
      BY <1>2, <3>3, OptionalSome
    <3> HIDE DEF n, r
    <3>5. y \in Entry
      BY <3>2, <3>4 DEF Entry
    <3>6. y.state = "expired" /\ y.acknowledged = r.acknowledged
      BY Zenon, <3>4 DEF Entry
    <3> HIDE DEF y
    <3>7. RequestInv(id, outgoing[id], <<r>>, ran[id], id \in evicted)
      BY Zenon, <1>2, <3>4
    <3>b. (id \in evicted) \in BOOLEAN
      OBVIOUS
    <3>8. RequestInv(id, outgoing[id], <<y>>, ran[id], id \in evicted)
      BY Zenon, <3>4, <3>5, <3>6, <3>7, <3>b, EntryCloses
    <3>9. <<y>> \in Optional(Entry)
      BY <3>5, OptionalMakes
    <3> QED
      BY Zenon, <3>1, <3>8, <3>9
  <2> QED
    BY Zenon, <2>1, <2>2
<1>8. incoming' \in [Ids -> Optional(Entry)]
  <2>1. incoming' = [id \in Ids |-> incoming'[id]]
    <3> HIDE DEF x, cut
    <3> QED
      BY <1>4
  <2> QED
    BY <1>7, <2>1
<1>9. \A j \in Ids : ran[j] <= ran'[j]
  BY <1>1, <1>2
<1>10. \A j \in Ids : RequestInv(j, outgoing[j], incoming'[j], ran'[j], j \in evicted')
  BY Zenon, <1>1, <1>7
<1> QED
  BY Zenon, <1>1, <1>2, <1>6, <1>8, <1>9, <1>10, ServerSteps

LEMMA RemoteInvInitially == RemoteInit => RemoteInv
<1> SUFFICES ASSUME RemoteInit PROVE RemoteInv
  OBVIOUS
<1>1. /\ outgoing = [id \in Ids |-> <<>>] /\ incoming = [id \in Ids |-> <<>>]
      /\ order = 0 /\ net = {} /\ ran = [id \in Ids |-> 0] /\ evicted = {}
  BY DEF RemoteInit
<1>2. <<>> \in Optional(Client) /\ <<>> \in Optional(Entry)
  BY DEF Optional
<1>3. \A id \in Ids : RequestInv(id, <<>>, <<>>, 0, FALSE)
  BY <1>2 DEF RequestInv
<1>4. \A id \in Ids : outgoing[id] = <<>> /\ incoming[id] = <<>> /\ ran[id] = 0 /\ ((id \in evicted) <=> FALSE)
  BY <1>1
<1>5. \A id \in Ids : RequestInv(id, outgoing[id], incoming[id], ran[id], id \in evicted)
  BY Zenon, <1>3, <1>4 DEF RequestInv
<1>6. /\ outgoing \in [Ids -> Optional(Client)] /\ incoming \in [Ids -> Optional(Entry)]
      /\ ran \in [Ids -> Nat] /\ order \in Nat
  BY <1>1, <1>2
<1> QED
  BY Zenon, <1>1, <1>5, <1>6 DEF RemoteInv

LEMMA RemoteInvSound == RemoteInv => RequestsSound
<1> SUFFICES ASSUME RemoteInv PROVE RequestsSound
  OBVIOUS
<1>1. \A id \in Ids : RequestInv(id, outgoing[id], incoming[id], ran[id], id \in evicted)
  BY DEF RemoteInv
<1>2. AtMostOnce
  BY <1>1 DEF AtMostOnce, RequestInv
<1>3. SuccessIsReal
  <2> SUFFICES ASSUME NEW id \in Ids, outgoing[id] # <<>>, outgoing[id][1].result = "ok"
               PROVE  ran[id] >= 1 /\ outgoing[id][1].got = [i \in 1 .. Response[id] |-> i - 1]
    BY DEF SuccessIsReal
  <2> DEFINE r == outgoing[id][1]
  <2>1. ClientOK(id, r, ran[id])
    BY <1>1 DEF RequestInv
  <2> HIDE DEF r
  <2>2. r.result = "ok"
    BY DEF r
  <2>3. ran[id] >= 1 /\ Len(r.got) = Response[id] /\ r.got = [i \in 1 .. Len(r.got) |-> i - 1]
    BY <2>1, <2>2 DEF ClientOK
  <2> QED
    BY <2>3 DEF r
<1>4. ResultKept
  BY <1>1 DEF ResultKept, RequestInv, Early, Waiting
<1> QED
  BY <1>2, <1>3, <1>4 DEF RequestsSound

(* Requests are executed at most once, reported as a success only with the *)
(* whole response of an execution, and kept until their requester has it   *)
(* (remote_control.hpp:165-183, :319-389): for every number of requests    *)
(* and blocks, every size of the history and of the network, whatever is   *)
(* lost, delayed or repeated, and across session changes.                  *)
THEOREM RequestsServed == RemoteSpec => []RequestsSound
<1>1. RemoteInv /\ [RemoteNext]_remoteVars => RemoteInv'
  <2> SUFFICES ASSUME RemoteInv, [RemoteNext]_remoteVars PROVE RemoteInv'
    OBVIOUS
  <2>1. CASE UNCHANGED remoteVars
    BY <2>1 DEF remoteVars, RemoteInv
  <2>2. CASE RemoteNext
    BY Zenon, <2>2, FiniteIds, SubmitKeeps, QueryKeeps, RetryKeeps, ExpiresKeeps, ClientReceiveKeeps, PollKeeps,
       PutKeeps, ClientChangedKeeps, ServerChangedKeeps DEF RemoteNext
  <2> QED
    BY <2>1, <2>2
<1> QED
  BY <1>1, RemoteInvInitially, RemoteInvSound, PTL DEF RemoteSpec
=============================================================================
