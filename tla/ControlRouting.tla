--------------------------- MODULE ControlRouting ---------------------------
(***************************************************************************)
(* Routed control (control_router.hpp, control_route.hpp and the routing   *)
(* half of routed_control.hpp): one node discovers the others by flooding  *)
(* and sends a request along a discovered path.  A frame carries the hops  *)
(* still to take and the hops back; a hop is a port name, or a token that  *)
(* stands for one connection.  Connections are replaced by others on the   *)
(* same port.  Where discovery is authenticated, a node asks the origin    *)
(* for a proof on every branch and goes on only when it has come; proofs   *)
(* and their checks are assumed.  The hop to the peer of a tunnel is a     *)
(* port like the others.  Left out: frame sizes, the expiry of what a node *)
(* remembers (30 s), its 256 discoveries and its rate limits.              *)
(***************************************************************************)
EXTENDS Naturals, Sequences, FiniteSets, SequencesExt

CONSTANTS
  Nodes, Origin,
  Conns, EndsOf,    \* connections that may ever be up; EndsOf[c] is a set of two [node, port]
  Initially,        \* those up at the start
  MaxHops,          \* max_hops
  MaxPath,          \* stands for the 256 bytes of a discovered path
  MaxSends,         \* bound on sendings of the request
  Required,         \* discovery_required_, at every node
  Lossy             \* frames may be lost

Nobody == 0
NodesOf(c) == {e.node : e \in EndsOf[c]}
EndAt(c, n) == CHOOSE e \in EndsOf[c] : e.node = n
Other(c, n) == CHOOSE m \in NodesOf(c) : m # n

VARIABLES
  live,       \* connections that are up
  was,        \* connections that have been up: a generation is not used again
  net,        \* frames under way: connection, receiving node, frame
  seen,       \* nodes with the discovery in seen_
  asked,      \* discovery_in_ of all nodes: node, original frame, connection it came by
  proved,     \* discovery_out_ of the origin: the nonces it has answered
  disc,       \* the discovery at the origin: "no", "on", "error", "done"
  answers,    \* Pending::answers: answering node, path, found or alt_path
  replies,    \* Receiver::replies of the request, per node
  path,       \* Pending::path of the request; <<>>: none is pending
  aim,        \* the node whose reply pinned that path
  sends,
  error       \* Pending::error of the request

vars == <<live, was, net, seen, asked, proved, disc, answers, replies, path, aim, sends, error>>
request == <<path, aim, sends, error>>
flood == <<seen, asked, proved, disc, answers>>

Port(p) == [type |-> "port", value |-> <<p>>]
\* Hop::link(): the token of the connection a frame came in by.
Link(c, n) == [type |-> "link", value |-> <<c, n>>]

NoNonce == <<>>
Frame(kind, by, dest, names, to) ==
  [kind |-> kind, req |-> IF kind \in {"put", "reply"} THEN "put" ELSE "discover", by |-> by, dest |-> dest, reply |-> <<>>, names |-> names, left |-> MaxHops,
   nonce |-> NoNonce, aim |-> to]
Asking == Frame("discover", Origin, <<>>, <<>>, Nobody)
Answers == {"found", "alt_path", "route_error", "reply", "challenge"}
\* control_route::response()
response(n, f, kind) == [Frame(kind, n, f.reply, f.names, f.aim) EXCEPT !.nonce = f.nonce, !.req = f.req]

Init ==
  /\ live = Initially /\ was = Initially /\ net = {}
  /\ seen = {} /\ asked = {} /\ proved = {} /\ disc = "no" /\ answers = {}
  /\ replies = [n \in Nodes |-> <<>>] /\ path = <<>> /\ aim = Nobody /\ sends = 0 /\ error = FALSE

-----------------------------------------------------------------------------
Edges(n) == {c \in live : n \in NodesOf(c)}
\* resolve()
Resolve(n, hop) ==
  {c \in Edges(n) : IF hop.type = "port" THEN <<EndAt(c, n).port>> = hop.value ELSE hop = Link(c, n)}

\* Variant: one hop less.
StuckEarly(n, f) == f.dest # <<>> /\ (f.left <= 2 \/ Resolve(n, Head(f.dest)) = {})
\* route(): the frame n sends; one that cannot go on is answered, unless it is an answer itself.
Stuck(n, f) == f.dest # <<>> /\ (f.left <= 1 \/ Resolve(n, Head(f.dest)) = {})
Onward(n, f) ==
  {[conn |-> c, to |-> Other(c, n), f |-> [f EXCEPT !.dest = Tail(@), !.left = @ - 1]] : c \in Resolve(n, Head(f.dest))}
\* reject()
Reject(f) == IF f.kind \in Answers THEN {} ELSE {response(f.by, f, "route_error")}
\* A frame or the error in its place.
Tried(n, fs) == UNION {IF Stuck(n, f) THEN Reject(f) ELSE {f} : f \in fs}
Routed(n, fs) == UNION {Onward(n, f) : f \in {g \in Tried(n, fs) : g.dest # <<>> /\ ~Stuck(n, g)}}
Here(n, fs) == {f \in Tried(n, fs) : f.dest = <<>>}

\* Variant: the path is not extended.
BranchAll(n, f, ingress) ==
  {[f EXCEPT !.dest = <<Port(EndAt(c, n).port)>>, !.nonce = NoNonce] : c \in {d \in Edges(n) : EndAt(d, n).port # ingress}}
\* discover(): fan-out to every connection but the one the frame came by, each with its own path.
Branch(n, f, ingress) ==
  {[f EXCEPT !.dest = <<Port(EndAt(c, n).port)>>, !.names = Append(@, EndAt(c, n).port), !.nonce = NoNonce] :
     c \in {d \in Edges(n) : EndAt(d, n).port # ingress}}
\* discover(): the answer; the first visit is FOUND.
Answer(n, f) == {response(n, f, IF n \in seen THEN "alt_path" ELSE "found")}

\* discover() once the frame is allowed: what node n makes of it.
Visit(n, f, ingress) ==
  LET branches == IF n \in seen THEN {} ELSE Branch(n, f, ingress) IN
  Answer(n, f) \cup {b \in branches : Len(b.names) <= MaxPath}
  \cup (IF \E b \in branches : Len(b.names) > MaxPath THEN Reject(f) ELSE {})

Nonce(n, f) == <<n, f.reply>>
Challenge(n, f) == [response(n, f, "challenge") EXCEPT !.nonce = Nonce(n, f)]
\* The original branch a proof goes on with.
Original(n, f) == {a \in asked : a.node = n /\ Nonce(n, a.f) = f.nonce /\ a.f.names = f.names}

-----------------------------------------------------------------------------
\* delivered() at the origin.
Verified(f) == f.nonce \in proved \/ (~Required /\ f.nonce = NoNonce) \/ (f.reply = <<>> /\ f.names = <<>>)
Collect(fs) ==
  /\ answers' = IF disc \notin {"on", "error"} THEN answers
                ELSE answers \cup {[node |-> f.by, names |-> f.names, kind |-> f.kind] :
                                   f \in {g \in fs : g.kind \in {"found", "alt_path"} /\ Verified(g)}}
  /\ disc' = IF disc = "on" /\ \E f \in fs : f.kind = "route_error" /\ f.req = "discover" THEN "error" ELSE disc
Concludes(fs) ==
  IF path = <<>> THEN UNCHANGED <<path, aim, error>>
  ELSE /\ error' = (error \/ \E f \in fs : f.kind = "route_error" /\ f.req = "put")
       /\ LET rs == {f \in fs : f.kind = "reply"} IN
          IF rs = {} THEN UNCHANGED <<path, aim>> ELSE \E f \in rs : path' = f.reply /\ aim' = f.by
\* answer_discovery_challenge()
NewChallenges(fs) == {f \in fs : f.kind = "challenge" /\ disc \in {"on", "error"} /\ f.nonce \notin proved}
Proofs(fs) ==
  {[Frame("discover", Origin, f.reply, f.names, Nobody) EXCEPT !.nonce = f.nonce] : f \in NewChallenges(fs)}

\* local_discovery(), from submit().
Begin ==
  /\ disc = "no"
  /\ LET fs == Visit(Origin, Asking, "") IN
     /\ net' = net \cup Routed(Origin, fs)
     /\ answers' = {[node |-> f.by, names |-> f.names, kind |-> f.kind] : f \in {g \in Here(Origin, fs) : g.kind = "found"}}
     /\ disc' = IF \E f \in Here(Origin, fs) : f.kind = "route_error" THEN "error" ELSE "on"
  /\ seen' = seen \cup {Origin}
  /\ UNCHANGED <<live, was, asked, proved, replies, request>>

\* What node n makes of frame f that came by connection c with the hop back added.
Handle(n, f, c) ==
  IF f.kind # "discover" \/ f.dest # <<>> THEN [out |-> {f}, seen |-> FALSE, ask |-> {}]
  ELSE IF f.nonce # NoNonce THEN
    LET os == Original(n, f) IN
    [out |-> UNION {Visit(n, [o.f EXCEPT !.nonce = f.nonce], o.ingress) : o \in os}, seen |-> os # {}, ask |-> {}]
  ELSE IF Required THEN [out |-> {Challenge(n, f)}, seen |-> FALSE, ask |-> {[node |-> n, f |-> f, ingress |-> EndAt(c, n).port]}]
  ELSE [out |-> Visit(n, f, EndAt(c, n).port), seen |-> TRUE, ask |-> {}]

\* receive(): a frame comes in, gets the hop back, and is delivered, flooded or sent on.
Receive(x) ==
  LET n == x.to
      over == Len(x.f.reply) >= MaxHops
      f == [x.f EXCEPT !.reply = <<Link(x.conn, n)>> \o @]
      d == IF over THEN [out |-> Reject(x.f), seen |-> FALSE, ask |-> {}] ELSE Handle(n, f, x.conn)
      here == Here(n, d.out) IN
  /\ x \in net /\ seen' = seen \cup (IF d.seen THEN {n} ELSE {}) /\ asked' = asked \cup d.ask
  /\ IF n = Origin
     THEN /\ Collect(here) /\ Concludes(here) /\ proved' = proved \cup {g.nonce : g \in NewChallenges(here)}
          /\ net' = (net \ {x}) \cup Routed(n, d.out) \cup Routed(n, Proofs(here)) /\ UNCHANGED replies
     ELSE /\ net' = (net \ {x}) \cup Routed(n, d.out)
          /\ replies' = [replies EXCEPT ![n] = IF \E g \in here : g.kind = "put" THEN f.reply ELSE @]
          /\ UNCHANGED <<disc, answers, proved, path, aim, error>>
  /\ UNCHANGED <<live, was, sends>>

\* A node answers the request, now or later, by the path it last came by.
Reply(n) ==
  /\ replies[n] # <<>>
  /\ net' = net \cup Routed(n, {Frame("reply", n, replies[n], <<>>, Nobody)})
  /\ UNCHANGED <<live, was, flood, replies, request>>

\* submit(): a request along a path the discovery found, sent again until it ends.
Submit(a) ==
  /\ a \in answers /\ a.node # Origin /\ a.names # <<>> /\ path = <<>> /\ sends = 0
  /\ path' = [i \in DOMAIN a.names |-> Port(a.names[i])]
  /\ UNCHANGED <<live, was, net, flood, replies, aim, sends, error>>
Send ==
  /\ path # <<>> /\ sends < MaxSends /\ sends' = sends + 1
  /\ LET fs == {Frame("put", Origin, path, <<>>, aim)} IN
     net' = net \cup Routed(Origin, fs) /\ error' = (error \/ Here(Origin, fs) # {})
  /\ UNCHANGED <<live, was, flood, replies, path, aim>>
\* The caller's poll takes an error and the request is forgotten; so is a discovery.
TakeDiscovery == disc = "error" /\ disc' = "done" /\ UNCHANGED <<live, was, net, seen, asked, proved, answers, replies, request>>
Take ==
  /\ error /\ path # <<>> /\ path' = <<>> /\ sends' = MaxSends
  /\ UNCHANGED <<live, was, net, flood, replies, aim, error>>

-----------------------------------------------------------------------------
\* A connection comes up on ports that others may have held; it is never one of the old ones.
Replace(c) ==
  /\ c \in Conns \ was /\ was' = was \cup {c}
  /\ live' = {d \in live : EndsOf[d] \cap EndsOf[c] = {}} \cup {c}
  /\ net' = {x \in net : x.conn \in live'}
  /\ UNCHANGED <<flood, replies, request>>

Lose(x) == Lossy /\ x \in net /\ net' = net \ {x} /\ UNCHANGED <<live, was, flood, replies, request>>

Next ==
  \/ Begin \/ (\E a \in answers : Submit(a)) \/ Send \/ Take \/ TakeDiscovery
  \/ \E n \in Nodes : Reply(n)
  \/ \E x \in net : Receive(x) \/ Lose(x)
  \/ \E c \in Conns : Replace(c)

Spec == Init /\ [][Next]_vars /\ WF_vars(Begin) /\ WF_vars(\E x \in net : x.f.req = "discover" /\ Receive(x))

-----------------------------------------------------------------------------
\* A frame on its last hop goes to the right node: an answer to the node that asked, a proof to the
\* node that wants it, and a request whose path a reply has pinned to the node that replied,
\* whichever connections were replaced on the same ports meanwhile.
Targets ==
  \A x \in net : x.f.dest = <<>> =>
    /\ x.f.kind \in Answers => x.to = Origin
    /\ x.f.kind = "discover" /\ x.f.nonce # NoNonce => x.to = x.f.nonce[1]
    /\ x.f.kind = "put" /\ x.f.aim # Nobody => x.to = x.f.aim

Walk(names) ==
  FoldLeft(LAMBDA n, p : IF n \in Nodes /\ \E c \in Edges(n) : EndAt(c, n).port = p
                         THEN Other(CHOOSE c \in Edges(n) : EndAt(c, n).port = p, n) ELSE Nobody, Origin, names)
\* While connections stay as they are, the path in an answer leads to the node that answered.
PathsLead == was = Initially => \A a \in answers : Walk(a.names) = a.node

\* A node answers FOUND on one path only, whatever cycles the flood runs through.
FoundOnce == \A a, b \in answers : a.kind = "found" /\ b.kind = "found" /\ a.node = b.node => a = b

\* Where proofs are required, no node but the origin takes part in the discovery (remembers it,
\* answers it, floods it) before the origin has answered a challenge of that node.
ProvedFirst == Required => \A n \in seen \ {Origin} : \E p \in proved : p[1] = n

=============================================================================
