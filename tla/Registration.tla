---------------------------- MODULE Registration ----------------------------
(***************************************************************************)
(* How a port gets onto the switch: SwitchClient's connection automaton    *)
(* (switch_client.hpp), the ServerHandshake (ipc/switch_handshake.hpp)     *)
(* with the records of ipc/switch_v2.hpp, and the registration half of the *)
(* tomtom-switch-mp main loop (switch_mp/main.cpp) that admits, prepares,  *)
(* activates and publishes ports.  A connection is one SEQPACKET socket.   *)
(* Deadlines may pass at any moment.                                       *)
(***************************************************************************)
EXTENDS Integers, Sequences, FiniteSets, FiniteSetsExt

CONSTANTS
  Clients, NameOf, ModeOf, SlotsOf, BatchOf,   \* the clients and their options
  SMode, SSlots, SBatch,                       \* the switch's ipc options
  MaxPorts, MaxPending, Budget,                \* capacity and mmap_budget, in slots
  MaxEpoch,                                    \* stands for UINT64_MAX
  Conns                                        \* bound on sockets; the listen backlog

Nobody == 0
NoPar == [epoch |-> 0, map |-> FALSE, slots |-> 0, batch |-> 1]
Disc == [st |-> "disconnected", conn |-> 0, legacy |-> FALSE, par |-> NoPar, declined |-> FALSE]
Empty == [by |-> Nobody, sst |-> "none", up |-> <<>>, down |-> <<>>, copen |-> FALSE, sopen |-> FALSE,
          legacy |-> FALSE, par |-> NoPar, map |-> 0]

VARIABLES
  cl,       \* per client: state_, its socket, legacy_attempt_, negotiated parameters
  conn,     \* per socket: records under way both ways, ends open, the switch's side
  epoch

vars == <<cl, conn, epoch>>
Init == cl = [c \in Clients |-> Disc] /\ conn = [i \in Conns |-> Empty] /\ epoch = 0

Handshaking == {"first", "welcome", "registration", "setup", "ready", "activate"}
Ports(cn) == {i \in DOMAIN cn : cn[i].sst = "port"}
Pending == {i \in Conns : conn[i].sst \in Handshaking}
Rec(t, p) == [t |-> t, p |-> p]
InlineOnly(p) == [p EXCEPT !.map = FALSE, !.slots = 0, !.batch = 1]
Connecting(k) == k.st \notin {"disconnected", "connected"}

Freed(r) == IF r.copen \/ r.sopen THEN r ELSE Empty
\* The client closes its end; the switch closes its end and forgets the handshake.
Closed(cn, i) == IF i = 0 THEN cn ELSE [cn EXCEPT ![i] = Freed([@ EXCEPT !.copen = FALSE, !.down = <<>>])]
Discarded(cn, i) == [cn EXCEPT ![i] = Freed([@ EXCEPT !.sopen = FALSE, !.up = <<>>, !.sst = "none",
                                                      !.legacy = FALSE, !.par = NoPar, !.map = 0])]

-----------------------------------------------------------------------------
(* SwitchClient.                                                           *)
Hello(c) == [epoch |-> 0, map |-> ModeOf[c] = "auto", slots |-> IF ModeOf[c] = "auto" THEN SlotsOf[c] ELSE 0,
             batch |-> IF ModeOf[c] = "auto" THEN BatchOf[c] ELSE 1]

\* write_setup(): the record of the state is sent and the state advances.
Record(c, k) ==
  CASE k.st = "registration" -> Rec("registration", NoPar)
    [] k.st = "hello" -> Rec("hello", Hello(c))
    [] k.st = "ready" -> Rec("ready", k.par)
AfterWrite(k) ==
  CASE k.st = "registration" -> IF k.legacy THEN "connected" ELSE "setup"
    [] k.st = "hello" -> "welcome"
    [] k.st = "ready" -> "active"

\* open_socket(): refused, or a new socket whose first record is sent now or when it is writable.
Opened(cn, c, legacy) ==
  LET free == {j \in Conns : cn[j] = Empty}
      i == Min(free)
      k == [Disc EXCEPT !.st = IF legacy THEN "registration" ELSE "hello", !.conn = i, !.legacy = legacy]
      r == [Empty EXCEPT !.by = c, !.sst = "backlog", !.copen = TRUE, !.sopen = TRUE] IN
  {[k |-> Disc, cn |-> cn]} \cup
  IF free = {} THEN {} ELSE
    {[k |-> k, cn |-> [cn EXCEPT ![i] = r]],
     [k |-> [k EXCEPT !.st = AfterWrite(k)], cn |-> [cn EXCEPT ![i] = [r EXCEPT !.up = <<Record(c, k)>>]]]}

Becomes(c, o) == cl' = [cl EXCEPT ![c] = o.k] /\ conn' = o.cn /\ UNCHANGED epoch
Fail(c) == Becomes(c, [k |-> Disc, cn |-> Closed(conn, cl[c].conn)])

StartConnect(c) ==
  /\ cl[c].st = "disconnected"
  /\ \E o \in Opened(conn, c, ModeOf[c] = "legacy") : Becomes(c, o)

\* fallback(): only an automatic client, and only before it has registered.
Fallback(c) ==
  IF ModeOf[c] = "auto" /\ ~cl[c].legacy
  THEN \E o \in Opened(Closed(conn, cl[c].conn), c, TRUE) : Becomes(c, o)
  ELSE Fail(c)

\* A deadline has passed: the probe's only while nothing has been answered.
ClientTimeout(c) ==
  \/ Connecting(cl[c]) /\ Fail(c)
  \/ ~cl[c].legacy /\ cl[c].st \in {"hello", "welcome"} /\ Fallback(c)

Write(c) ==
  LET k == cl[c] IN
  /\ k.st \in {"hello", "registration", "ready"}
  /\ IF conn[k.conn].sopen
     THEN Becomes(c, [k |-> [k EXCEPT !.st = AfterWrite(k)],
                      cn |-> [conn EXCEPT ![k.conn].up = Append(@, Record(c, k))]])
     ELSE Fail(c)

\* The pools of a SETUP are mapped, or mapping fails and is declined.
Attached(c, p) == IF p.map THEN {p, InlineOnly(p)} ELSE {p}

\* read_setup()
Read(c) ==
  LET k == cl[c]
      i == k.conn
      m == Head(conn[i].down)
      rest == [conn EXCEPT ![i].down = Tail(@)] IN
  /\ k.st \in {"welcome", "setup", "active"}
  /\ \/ /\ conn[i].down = <<>> /\ ~conn[i].sopen
        /\ IF k.st = "welcome" THEN Fallback(c) ELSE Fail(c)
     \/ /\ conn[i].down # <<>> /\ k.st = "welcome"
        /\ IF m.t = "welcome" /\ m.p.slots <= SlotsOf[c] /\ m.p.batch <= BatchOf[c] /\ (m.p.map => ModeOf[c] = "auto")
           THEN Becomes(c, [k |-> [k EXCEPT !.st = "registration", !.par = m.p], cn |-> rest])
           ELSE Fail(c)
     \/ /\ conn[i].down # <<>> /\ k.st = "setup"
        /\ IF m.t = "setup" /\ m.p.epoch = k.par.epoch /\ (m.p.map => m.p = k.par)
           THEN \E p \in Attached(c, m.p) :
                  Becomes(c, [k |-> [k EXCEPT !.st = "ready", !.par = p, !.declined = p # m.p], cn |-> rest])
           ELSE Fail(c)
     \/ /\ conn[i].down # <<>> /\ k.st = "active"
        /\ IF m.t = "active" /\ m.p.epoch = k.par.epoch /\ m.p.map = k.par.map
           THEN Becomes(c, [k |-> [k EXCEPT !.st = "connected", !.declined = FALSE], cn |-> rest])
           ELSE Fail(c)

\* The owner of a connected client finds its socket closed, or gives it up.
Disconnect(c) == cl[c].st = "connected" /\ Fail(c)

Client(c) == StartConnect(c) \/ ClientTimeout(c) \/ Write(c) \/ Read(c) \/ Disconnect(c)

-----------------------------------------------------------------------------
(* The switch: accepting and the handler of one pending entry.             *)
Same == UNCHANGED <<cl, epoch>>

Accept(i) ==
  /\ Cardinality(Pending) < MaxPending
  /\ conn[i].sst = "backlog" /\ conn' = [conn EXCEPT ![i].sst = "first"]
  /\ Same

Expire(i) == i \in Pending /\ conn' = Discarded(conn, i) /\ Same

NameAt(cn, i) == NameOf[cn[i].by]
\* admission_allowed(): room, or a port of that name to replace.
Allowed(cn, name) == Cardinality(Ports(cn)) < MaxPorts \/ \E j \in Ports(cn) : NameAt(cn, j) = name

Sends(r, rec, next) == [r EXCEPT !.down = IF r.copen THEN Append(@, rec) ELSE @, !.sst = next]

\* publish(): the new plan has the candidate in the place of the port of its name.
Published(cn, i) ==
  LET old == {j \in Ports(cn) : NameAt(cn, j) = NameAt(cn, i)}
      new == [cn EXCEPT ![i].sst = "port"] IN
  [j \in Conns |-> IF j \in old THEN Discarded(new, j)[j] ELSE new[j]]

\* Variant: the limits are not looked at again.
ActivateUnchecked(cn, i) ==
  IF cn[i].legacy THEN {Published(cn, i)}
  ELSE IF ~cn[i].copen THEN {Discarded(cn, i)}
  ELSE {[cn EXCEPT ![i].sst = "activate"],
        Published([cn EXCEPT ![i] = Sends(@, Rec("active", @.par), "activate")], i)}
\* Capacity again, then ACTIVE, which may have to wait for the socket, then publication.
Activate(cn, i) ==
  IF ~Allowed(cn, NameAt(cn, i)) THEN {Discarded(cn, i)}
  ELSE IF cn[i].legacy THEN {Published(cn, i)}
  ELSE IF ~cn[i].copen THEN {Discarded(cn, i)}
  ELSE {[cn EXCEPT ![i].sst = "activate"],
        Published([cn EXCEPT ![i] = Sends(@, Rec("active", @.par), "activate")], i)}

MappingBytes == FoldSet(LAMBDA i, sum : sum + conn[i].map, 0, Conns)
\* prepare(): pools are allocated if two of them fit what is left of the budget.
Prepare(cn, i) ==
  LET p == cn[i].par
      fits == p.slots <= (Budget - MappingBytes) \div 2
      used == IF p.map /\ fits THEN {InlineOnly(p), p} ELSE {InlineOnly(p)} IN
  {[cn EXCEPT ![i].sst = "setup", ![i].par = q, ![i].map = 2 * q.slots] : q \in used}

\* The registration names the port; a V1 client is activated at once.
Identified(cn, i, legacy) ==
  LET c2 == [cn EXCEPT ![i].legacy = legacy] IN
  IF ~Allowed(cn, NameAt(cn, i)) THEN {Discarded(cn, i)}
  ELSE IF legacy THEN Activate(c2, i) ELSE Prepare(c2, i)

\* What a HELLO is answered with.
Negotiated(p, e) ==
  IF SMode # "auto" \/ ~p.map THEN InlineOnly([p EXCEPT !.epoch = e])
  ELSE [p EXCEPT !.epoch = e, !.slots = Min({@, SSlots}), !.batch = Min({@, SBatch})]

ServerRead(i) ==
  LET r == conn[i]
      m == Head(r.up)
      cn == [conn EXCEPT ![i].up = Tail(@)] IN
  /\ r.sst \in {"first", "registration", "ready"}
  /\ UNCHANGED cl
  /\ \/ r.up = <<>> /\ ~r.copen /\ conn' = Discarded(conn, i) /\ UNCHANGED epoch
     \/ /\ r.up # <<>> /\ r.sst = "first" /\ m.t = "hello"
        /\ IF SMode = "legacy" \/ epoch = MaxEpoch
           THEN conn' = Discarded(conn, i) /\ UNCHANGED epoch
           ELSE /\ epoch' = epoch + 1
                /\ conn' = [cn EXCEPT ![i].sst = "welcome", ![i].par = Negotiated(m.p, epoch')]
     \/ /\ r.up # <<>> /\ r.sst \in {"first", "registration"} /\ m.t = "registration"
        /\ conn' \in Identified(cn, i, r.sst = "first") /\ UNCHANGED epoch
     \/ /\ r.up # <<>> /\ r.sst = "ready" /\ UNCHANGED epoch
        /\ IF m.t = "ready" /\ m.p.epoch = r.par.epoch /\ (m.p.map => r.par.map)
           THEN conn' \in Activate([cn EXCEPT ![i].par = IF m.p.map THEN @ ELSE InlineOnly(@),
                                              ![i].map = IF m.p.map THEN @ ELSE 0], i)
           ELSE conn' = Discarded(conn, i)

\* WELCOME, SETUP, or ACTIVE once more.
ServerWrite(i) ==
  /\ Same
  /\ \/ /\ conn[i].sst \in {"welcome", "setup"}
        /\ conn' = IF conn[i].copen
                   THEN [conn EXCEPT ![i] = Sends(@, Rec(@.sst, @.par), IF @.sst = "welcome" THEN "registration" ELSE "ready")]
                   ELSE Discarded(conn, i)
     \/ conn[i].sst = "activate" /\ conn' \in Activate(conn, i)

\* A port whose client has gone leaves the plan.
Reap(i) == conn[i].sst = "port" /\ ~conn[i].copen /\ conn' = Discarded(conn, i) /\ Same

Switch == \E i \in Conns : Accept(i) \/ Expire(i) \/ ServerRead(i) \/ ServerWrite(i) \/ Reap(i)
Next == Switch \/ \E c \in Clients : Client(c)

\* Deadlines pass, the switch's loop serves every entry and the listen queue is served in order;
\* a client need only mind its deadlines.
Spec == /\ Init /\ [][Next]_vars
        /\ \A i \in Conns : SF_vars(Accept(i)) /\ WF_vars(Expire(i)) /\ WF_vars(ServerRead(i)) /\ WF_vars(Reap(i))
        /\ \A c \in Clients : WF_vars(ClientTimeout(c))
-----------------------------------------------------------------------------
\* A client that believes itself connected and a switch that has its port use the same transport
\* with the same pools and batch size, whichever side declined mapping; and a V2 client is
\* told ACTIVE only when its port is in the plan.
Agreed ==
  \A c \in Clients : LET k == cl[c] r == conn[k.conn] IN
    k.st = "connected" /\ r.sopen =>
      /\ r.sst = "port" \/ k.legacy
      /\ r.sst = "port" => r.legacy = k.legacy /\ r.par = k.par

\* The plan has one port per name and never more than the capacity, however many handshakes
\* were admitted when there was still room.
PortsBounded ==
  /\ Cardinality(Ports(conn)) <= MaxPorts
  /\ \A i, j \in Ports(conn) : NameAt(conn, i) = NameAt(conn, j) => i = j

\* Pools of active and pending connections together stay within the memory budget.
BudgetKept == MappingBytes <= Budget

\* No unsuccessful handshake replaces the port of its name: a port whose client is there leaves
\* the plan only when its successor enters it.
KeepsOld ==
  \A i \in Ports(conn) : conn[i].copen /\ conn'[i].sst # "port" /\ cl'[conn[i].by].conn = i =>
    \E j \in Ports(conn') : NameAt(conn', j) = NameAt(conn, i)

\* A connection attempt always ends.
Settles == \A c \in Clients : Connecting(cl[c]) ~> ~Connecting(cl[c])
=============================================================================
