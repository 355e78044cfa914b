----------------------------- MODULE SwitchLoop -----------------------------
(***************************************************************************)
(* The single-threaded switch (switch/main.cpp): clients connect, register *)
(* a port and send frames; the loop polls, accepts, expires registrations, *)
(* flushes what waits, and serves the ready connections in bounded turns.  *)
(* A rules load replaces the routing of all ports.  Which port a rule set  *)
(* selects for an ingress port is a constant here; how it is selected is   *)
(* the subject of SwitchRules.                                             *)
(***************************************************************************)
EXTENDS Naturals, Sequences, FiniteSets, SequencesExt

CONSTANTS
  Clients,      \* connections, each made once
  PortOf,       \* the port each client registers
  Route,        \* by rule set: from ingress port to egress port
  MaxPorts, MaxPending, RetrySize,
  Rounds,       \* bound on the rounds of a turn
  MaxFrames,    \* frames a client sends
  Endless,      \* clients that send for ever
  Faults        \* bound on allocation failures

NoPort == "no port"
Ports == {PortOf[c] : c \in Clients}

VARIABLES
  link,        \* by client: "new", "backlog", "open" or "closed", as the switch sees it
  port,        \* Connection::port
  retry,       \* Connection::retry, with the rule set each frame was routed by
  list,        \* connections
  backlog,     \* connections the listener holds
  input,       \* what the client sent and the switch has not read
  hup,         \* clients that hung up
  sent,        \* frames each client sent
  rules,       \* the current rule set
  pc, next, polled, ready, hung, accepting, round, offset, progress,
  latest,      \* history: who registered a port last
  got,         \* history: last frame delivered, by sender and receiver
  stale,       \* history: a frame went out after its rule set was retired
  faults

client == <<input, hup, sent, backlog>>
loop == <<pc, next, polled, ready, hung, accepting, round, offset, progress>>
vars == <<link, port, retry, list, client, rules, loop, latest, got, stale, faults>>

Open(c) == link[c] = "open"
Registered == {c \in Clients : Open(c) /\ port[c] # NoPort}
Pending == {c \in Clients : Open(c) /\ port[c] = NoPort}
Readable(c) == input[c] # <<>> \/ c \in hup

Init ==
  /\ link = [c \in Clients |-> "new"] /\ port = [c \in Clients |-> NoPort]
  /\ retry = [c \in Clients |-> <<>>] /\ list = <<>> /\ backlog = <<>>
  /\ input = [c \in Clients |-> <<>>] /\ hup = {} /\ sent = [c \in Clients |-> 0]
  /\ rules = 1 /\ pc = "top" /\ next = 0 /\ polled = 0 /\ ready = {} /\ hung = {}
  /\ accepting = FALSE /\ round = 0 /\ offset = 0 /\ progress = FALSE
  /\ latest = [p \in Ports |-> {}] /\ got = [x \in Clients \X Clients |-> 0]
  /\ stale = FALSE /\ faults = 0
-----------------------------------------------------------------------------
(* Clients.  A client's first record is its registration.                  *)
Connect(c) ==
  /\ link[c] = "new" /\ link' = [link EXCEPT ![c] = "backlog"]
  /\ backlog' = Append(backlog, c) /\ input' = [input EXCEPT ![c] = <<0>>]
  /\ UNCHANGED <<port, retry, list, hup, sent, rules, loop, latest, got, stale, faults>>

SendFrame(c) ==
  /\ Open(c) /\ c \notin hup /\ Len(input[c]) < 2
  /\ c \in Endless \/ sent[c] < MaxFrames
  /\ sent' = IF c \in Endless THEN sent ELSE [sent EXCEPT ![c] = @ + 1]
  /\ input' = [input EXCEPT ![c] = Append(@, sent[c] + 1)]
  /\ UNCHANGED <<link, port, retry, list, hup, backlog, rules, loop, latest, got, stale, faults>>

HangUp(c) ==
  /\ Open(c) /\ c \notin hup /\ hup' = hup \cup {c}
  /\ UNCHANGED <<link, port, retry, list, input, sent, backlog, rules, loop, latest, got, stale, faults>>
-----------------------------------------------------------------------------
(* The loop.  x is the state a handler changes.                            *)
World == [link |-> link, port |-> port, retry |-> retry, latest |-> latest, got |-> got, stale |-> stale]
Becomes(x) ==
  /\ link' = x.link /\ port' = x.port /\ retry' = x.retry
  /\ latest' = x.latest /\ got' = x.got /\ stale' = x.stale

Close(x, S) ==
  [x EXCEPT !.link = [c \in Clients |-> IF c \in S THEN "closed" ELSE @[c]],
            !.retry = [c \in Clients |-> IF c \in S THEN <<>> ELSE @[c]]]

Compacted(cs, x) == SelectSeq(cs, LAMBDA c : x.link[c] = "open")
Turn(cs, n) == IF cs = <<>> THEN 0 ELSE n % Len(cs)

(* Expired registrations are closed before and after the poll; the list is *)
(* compacted only here, so the indexes of this poll stay valid.            *)
Poll ==
  /\ pc = "top"
  /\ \E late \in SUBSET Pending :
       LET x == Close(World, late)
           cs == Compacted(list, x)
           fds == 1 .. Len(cs)
       IN /\ Becomes(x) /\ list' = cs /\ next' = Turn(cs, next) /\ polled' = Len(cs)
          /\ ready' = {i \in fds : Readable(cs[i])} /\ hung' = {i \in fds : cs[i] \in hup}
          /\ accepting' = (backlog # <<>> /\ Cardinality(Pending \ late) < MaxPending)
          /\ ready' # {} \/ accepting' \/ late # {} \/ \E i \in fds : retry[cs[i]] # <<>>
             \/ rules < Len(Route)
  /\ pc' = "events"
  /\ UNCHANGED <<client, rules, round, offset, progress, faults>>

Deliver(x, c, f, current) ==
  [x EXCEPT !.got[<<f.from, c>>] = f.n, !.stale = @ \/ f.rules # current]

(* RetryQueue::flush(): from the head frames are sent or too old, until    *)
(* the socket is full or fails, which closes the connection.               *)
FlushedTo(x, c, current) ==
  LET q == x.retry[c]
      Until(k, out) == FoldLeft(LAMBDA y, i : IF i \in out THEN Deliver(y, c, q[i], current) ELSE y,
                                [x EXCEPT !.retry[c] = SubSeq(q, k + 1, Len(q))], [i \in 1 .. k |-> i])
  IN IF x.link[c] # "open" \/ q = <<>> THEN {x}
     ELSE {Until(k, out) : k \in 0 .. Len(q), out \in SUBSET DOMAIN q}
          \cup {Close(Until(k - 1, out), {c}) : k \in DOMAIN q, out \in SUBSET DOMAIN q}

(* Variant: a load leaves the queues as they are.                          *)
LoadedKeepsQueues(x, v) == x

(* A load routes all ports anew and drops what the old rules queued.       *)
Loaded(x, v) == IF v = rules THEN x ELSE [x EXCEPT !.retry = [c \in Clients |-> <<>>]]

(* After the poll: expiry, control, accept, then for each polled port hang *)
(* ups and the retry queue.                                                *)
Events ==
  /\ pc = "events"
  /\ \E late \in SUBSET Pending, v \in {rules} \cup (IF rules < Len(Route) THEN {rules + 1} ELSE {}),
        accepted \in (IF accepting THEN BOOLEAN ELSE {FALSE}) :
       LET x == Loaded(Close(World, late), v)
           y == IF accepted THEN [x EXCEPT !.link[Head(backlog)] = "open"] ELSE x
           z == Close(y, {list[i] : i \in hung})
       IN /\ rules' = v
          /\ \E w \in FoldLeft(LAMBDA ws, i : UNION {FlushedTo(x1, list[i], v) : x1 \in ws}, {z}, [i \in 1 .. polled |-> i]) :
               Becomes(w)
          /\ IF accepted THEN list' = Append(list, Head(backlog)) /\ backlog' = Tail(backlog)
             ELSE UNCHANGED <<list, backlog>>
  /\ ready' = ready \ hung
  /\ pc' = (IF polled = 0 THEN "end" ELSE "serve") /\ round' = 0 /\ offset' = 0 /\ progress' = FALSE
  /\ UNCHANGED <<input, hup, sent, next, polled, hung, accepting, faults>>

(* RetryQueue::submit() and send_frame(): behind what waits, or out, or    *)
(* queued, or the connection fails.                                        *)
SubmitTo(x, c, f) ==
  LET queued == IF Len(x.retry[c]) < RetrySize THEN [x EXCEPT !.retry[c] = Append(@, f)] ELSE x
  IN IF x.retry[c] # <<>> THEN {queued} ELSE {Deliver(x, c, f, rules), queued, Close(x, {c})}

Forward(x, c, n) ==
  LET to == {d \in Registered : port[d] = Route[rules][port[c]]}
      f == [from |-> c, n |-> n, rules |-> rules]
  IN IF to = {} THEN {x} ELSE UNION {SubmitTo(x, d, f) : d \in to}

(* A port that is taken may be taken over when all ports are in use.       *)
Full(c) == (\A d \in Registered : port[d] # PortOf[c]) /\ Cardinality(Registered) >= MaxPorts

(* The name is taken before the former owner is closed.                    *)
Register(x, c) ==
  LET old == {d \in Registered : port[d] = PortOf[c]}
  IN IF Full(c) THEN {Close(x, {c})}
     ELSE {[Close(x, old) EXCEPT !.port[c] = PortOf[c], !.latest[PortOf[c]] = {c}]}

(* try_handle_connection(): what it may leave, for a record or none.       *)
Handled(c) ==
  IF port[c] = NoPort /\ input[c] # <<>> THEN Register(World, c) \cup {Close(World, {c})}
  ELSE IF input[c] # <<>> THEN Forward(World, c, Head(input[c]))
  ELSE IF c \in hup THEN {Close(World, {c})} ELSE {World}

(* A turn that runs out of time resumes behind the port it served last.    *)
After(i) == (i + 1) % polled

(* The next position of the sweep.                                         *)
Advance(made) ==
  IF offset + 1 < polled THEN offset' = offset + 1 /\ progress' = made /\ UNCHANGED <<pc, round, next>>
  ELSE /\ next' = (next + 1) % polled /\ offset' = 0 /\ progress' = FALSE
       /\ IF made /\ round + 1 < Rounds THEN round' = round + 1 /\ UNCHANGED pc
          ELSE pc' = "end" /\ UNCHANGED round

Serve ==
  LET i == (next + offset) % polled
      c == list[i + 1]
  IN /\ pc = "serve"
     /\ IF ~ Open(c) \/ (round = 0 /\ i + 1 \notin ready)
          THEN /\ Advance(progress) /\ UNCHANGED <<link, port, retry, latest, got, stale, input>>
          ELSE /\ \E x \in Handled(c) : Becomes(x)
               /\ input' = IF input[c] = <<>> THEN input ELSE [input EXCEPT ![c] = Tail(@)]
               /\ \/ Advance(progress \/ Readable(c))
                  \/ next' = After(i) /\ pc' = "end" /\ UNCHANGED <<offset, round, progress>>
     /\ UNCHANGED <<list, hup, sent, backlog, rules, polled, ready, hung, accepting, faults>>

(* Memory runs out: the record is lost, and with it a connection that was  *)
(* registering; the loop starts over.                                      *)
AllocationFails ==
  LET c == list[((next + offset) % polled) + 1] IN
  /\ pc = "serve" /\ faults < Faults /\ Open(c) /\ input[c] # <<>>
  /\ Becomes(IF port[c] = NoPort THEN Close(World, {c}) ELSE World)
  /\ input' = [input EXCEPT ![c] = Tail(@)] /\ faults' = faults + 1 /\ pc' = "top"
  /\ UNCHANGED <<list, hup, sent, backlog, rules, next, polled, ready, hung, accepting, round, offset, progress>>

EndTurn ==
  /\ pc = "end" /\ pc' = "top"
  /\ list' = Compacted(list, World) /\ next' = Turn(list', next)
  /\ polled' = 0 /\ ready' = {} /\ hung' = {} /\ accepting' = FALSE
  /\ round' = 0 /\ offset' = 0 /\ progress' = FALSE
  /\ UNCHANGED <<link, port, retry, client, rules, latest, got, stale, faults>>

Loop == Poll \/ Events \/ Serve \/ AllocationFails \/ EndTurn
Next == Loop \/ \E c \in Clients : Connect(c) \/ SendFrame(c) \/ HangUp(c)

Spec == Init /\ [][Next]_vars
FairSpec == Spec /\ WF_vars(Loop)
-----------------------------------------------------------------------------
(* A port has one connection, the one that registered it last, whoever     *)
(* reconnects, fails or is taken over in between (switch/main.cpp:399-431).*)
OneOwner == \A c \in Registered : latest[port[c]] = {c}

(* No frame goes out under rules that were retired before it left (:693).  *)
FreshRules == ~ stale

(* Frames of one sender reach a receiver in the order they were sent, sent *)
(* at once or from the retry queue.                                        *)
KeepsOrder == \A x \in Clients \X Clients : got'[x] # got[x] => got'[x] > got[x]

=============================================================================
