------------------------------- MODULE Relay --------------------------------
(***************************************************************************)
(* Remote adapters (relay/endpoint.hpp, relay/protocol.hpp, relay/         *)
(* registry.hpp and the relay records of switch/main.cpp): a listening     *)
(* endpoint gives each local adapter a channel, advertises the directory   *)
(* of channels with an epoch and a revision through the tunnel, and the    *)
(* connecting endpoint passes records to and from the switch, which keeps  *)
(* the directory in a registry that expires.  The tunnel loses and         *)
(* reorders records and drops those of an older session; its two ends      *)
(* change session at different moments.  A record carries, as a history    *)
(* field, the name of the adapter it is from or for.                       *)
(***************************************************************************)
EXTENDS Naturals, Sequences, FiniteSets, Functions

CONSTANTS
  Names,        \* adapter names
  MaxChannel,   \* bound on channels handed out by one listener
  MaxSession,   \* bound on sessions of the tunnel
  MaxFaults,    \* bound on failures of the upstream socket
  MaxNet,       \* records of each type in the tunnel, each way
  MaxPipe       \* records in the upstream socket, each way

VARIABLES
  sess,       \* the session each endpoint is in; the listener's also stands for its epoch_
  chan,       \* listener: active clients, channel -> name
  next,       \* next_channel_
  rev,        \* revision_
  acked,      \* acknowledged_, or 0 once ack_deadline_ has passed
  toC, toL,   \* records in the tunnel, each way
  linked,     \* connecting endpoint: registered_
  up, down,   \* records in the upstream socket, each way
  reg,        \* the switch's registry for this port
  live,       \* it has not expired
  faults

vars == <<sess, chan, next, rev, acked, toC, toL, linked, up, down, reg, live, faults>>
listener == <<chan, next, rev, acked>>
tunnel == <<toC, toL>>
switch == <<reg, live>>
upstream == <<linked, up, down>>

NoDir == <<>>
NoReg == [epoch |-> 0, rev |-> 0, dir |-> NoDir]

Init ==
  /\ sess = [l |-> 1, c |-> 1] /\ chan = NoDir /\ next = 0 /\ rev = 1 /\ acked = 0
  /\ toC = {} /\ toL = {} /\ linked = FALSE /\ up = <<>> /\ down = <<>>
  /\ reg = NoReg /\ live = FALSE /\ faults = 0

Snap(e, r, d) == [type |-> "snapshot", epoch |-> e, rev |-> r, dir |-> d]
Ack(e, r) == [type |-> "ack", epoch |-> e, rev |-> r]
Data(e, ch, name) == [type |-> "data", epoch |-> e, ch |-> ch, name |-> name]
Sent(net, s, m) == IF Cardinality({x \in net : x.m.type = m.type}) < MaxNet THEN net \cup {[s |-> s, m |-> m]} ELSE net
Queued(pipe, m) == IF Len(pipe) < MaxPipe THEN {Append(pipe, m), pipe} ELSE {pipe}

-----------------------------------------------------------------------------
(* The listening endpoint.                                                 *)
\* Variant: the revision stays.
ChangedQuietly == acked' = 0 /\ UNCHANGED rev
\* changed()
Changed == rev' = rev + 1 /\ acked' = 0

NewChannel == next + 1

\* An adapter has completed its handshake; its name is not that of another.
Joins(name) ==
  /\ next < MaxChannel /\ name \notin Range(chan)
  /\ next' = next + 1 /\ chan' = [ch \in DOMAIN chan \cup {NewChannel} |-> IF ch = NewChannel THEN name ELSE chan[ch]]
  /\ Changed
  /\ UNCHANGED <<sess, tunnel, upstream, switch, faults>>

Leaves(ch) ==
  /\ ch \in DOMAIN chan /\ chan' = Restrict(chan, DOMAIN chan \ {ch})
  /\ Changed
  /\ UNCHANGED <<sess, next, tunnel, upstream, switch, faults>>

\* Once a second.
Advertise ==
  /\ toC' = Sent(toC, sess.l, Snap(sess.l, rev, chan))
  /\ UNCHANGED <<sess, listener, toL, upstream, switch, faults>>

\* The revision the switch has acknowledged, recently, is the current one.
Acknowledged == acked = rev

\* A frame from an adapter.
Outbound(ch) ==
  /\ ch \in DOMAIN chan /\ Acknowledged
  /\ toC' = Sent(toC, sess.l, Data(sess.l, ch, chan[ch]))
  /\ UNCHANGED <<sess, listener, toL, upstream, switch, faults>>

\* receive(): an acknowledgement is noted; a data record goes to the client of its channel.
ListenerReceives ==
  \E x \in toL :
    /\ toL' = toL \ {x}
    /\ IF x.s = sess.l /\ x.m.epoch = sess.l /\ x.m.type = "ack" /\ x.m.rev = rev
       THEN acked' = rev ELSE UNCHANGED acked
    /\ UNCHANGED <<sess, chan, next, rev, toC, upstream, switch, faults>>

AckExpires == Acknowledged /\ acked' = 0 /\ UNCHANGED <<sess, chan, next, rev, tunnel, upstream, switch, faults>>

\* Whether a record from the tunnel would be delivered to an adapter.
Delivers(x) == x.s = sess.l /\ x.m.type = "data" /\ x.m.epoch = sess.l /\ Acknowledged /\ x.m.ch \in DOMAIN chan

-----------------------------------------------------------------------------
(* Sessions.  Each end calls session() when it has activated one.          *)
SessionBound == sess.l < MaxSession /\ sess.l <= sess.c
\* The tunnel process of the listener may have been restarted with it: channels start over.
ListenerSession ==
  /\ SessionBound /\ sess' = [sess EXCEPT !.l = @ + 1]
  /\ rev' = 1 /\ acked' = 0
  /\ (chan' = NoDir /\ next' = 0) \/ UNCHANGED <<chan, next>>
  /\ UNCHANGED <<tunnel, upstream, switch, faults>>

CloseUpstream == linked' = FALSE /\ up' = <<>> /\ down' = <<>>
ConnectorSession ==
  /\ sess.c < MaxSession /\ sess.c <= sess.l /\ sess' = [sess EXCEPT !.c = @ + 1]
  /\ CloseUpstream
  /\ UNCHANGED <<listener, tunnel, switch, faults>>

-----------------------------------------------------------------------------
(* The connecting endpoint.                                                *)
\* The socket is connected and registered again: the switch has a new port with an empty registry.
Connect ==
  /\ ~linked /\ linked' = TRUE /\ reg' = NoReg /\ live' = FALSE
  /\ UNCHANGED <<sess, listener, tunnel, up, down, faults>>

UpstreamFails ==
  /\ linked /\ faults < MaxFaults /\ faults' = faults + 1 /\ linked' = FALSE /\ up' = <<>> /\ down' = <<>>
  /\ UNCHANGED <<sess, listener, tunnel, switch>>

\* receive(): snapshots and data go upstream, unless the retry queue has to drop them.
ConnectorReceives(x) ==
  /\ x \in toC /\ toC' = toC \ {x}
  /\ IF linked /\ x.s = sess.c THEN up' \in Queued(up, x.m) ELSE UNCHANGED up
  /\ UNCHANGED <<sess, listener, toL, linked, down, switch, faults>>

\* step(): acknowledgements and data come down.
ConnectorSends ==
  /\ down # <<>> /\ down' = Tail(down) /\ toL' = Sent(toL, sess.c, Head(down))
  /\ UNCHANGED <<sess, listener, toC, linked, up, switch, faults>>

-----------------------------------------------------------------------------
(* The switch.                                                             *)
\* update(): one epoch per connection, revisions never go back, and one revision is one directory.
Update(m) ==
  /\ reg.epoch \in {0, m.epoch} /\ m.rev >= reg.rev
  /\ m.rev = reg.rev => m.dir = reg.dir

\* Whether a data record is taken, as coming from the adapter of its channel.
Takes(m) == m.type = "data" /\ live /\ m.epoch = reg.epoch /\ m.ch \in DOMAIN reg.dir

SwitchReceives ==
  /\ up # <<>> /\ up' = Tail(up)
  /\ LET m == Head(up) IN
     IF m.type = "snapshot" /\ Update(m)
     THEN /\ reg' = [epoch |-> m.epoch, rev |-> m.rev, dir |-> m.dir] /\ live' = TRUE
          /\ down' \in Queued(down, Ack(m.epoch, m.rev))
     ELSE UNCHANGED <<down, switch>>
  /\ UNCHANGED <<sess, listener, tunnel, linked, faults>>

\* A frame routed to a relayed adapter.
Routes(ch) ==
  /\ linked /\ live /\ ch \in DOMAIN reg.dir /\ down' \in Queued(down, Data(reg.epoch, ch, reg.dir[ch]))
  /\ UNCHANGED <<sess, listener, tunnel, linked, up, switch, faults>>

RegistryExpires == live /\ live' = FALSE /\ UNCHANGED <<sess, listener, tunnel, upstream, reg, faults>>

-----------------------------------------------------------------------------
\* The tunnel.
Lose(x) ==
  /\ \/ x \in toC /\ toC' = toC \ {x} /\ UNCHANGED toL
     \/ x \in toL /\ toL' = toL \ {x} /\ UNCHANGED toC
  /\ UNCHANGED <<sess, listener, upstream, switch, faults>>

\* A snapshot that is neither lost, delayed nor dropped.
Through ==
  /\ linked /\ sess.l = sess.c /\ Len(up) < MaxPipe /\ up' = Append(up, Snap(sess.l, rev, chan))
  /\ UNCHANGED <<sess, listener, tunnel, linked, down, switch, faults>>

Next ==
  \/ \E name \in Names : Joins(name)
  \/ \E ch \in 1..MaxChannel : Leaves(ch) \/ Outbound(ch) \/ Routes(ch)
  \/ Advertise \/ Through \/ ListenerReceives \/ AckExpires \/ ListenerSession \/ ConnectorSession
  \/ Connect \/ UpstreamFails \/ (\E x \in toC : ConnectorReceives(x)) \/ ConnectorSends
  \/ SwitchReceives \/ RegistryExpires \/ (\E x \in toC \cup toL : Lose(x))

\* Timers fire, sockets are served, both ends activate every session, and of the
\* snapshots, sent again and again, some get through.
Spec == /\ Init /\ [][Next]_vars
        /\ WF_vars(Connect) /\ WF_vars(SwitchReceives)
        /\ WF_vars(sess.l < sess.c /\ ListenerSession) /\ WF_vars(sess.c < sess.l /\ ConnectorSession)
        /\ SF_vars(Through)

-----------------------------------------------------------------------------
\* A record the switch would take is attributed to the adapter that sent it, and one that would
\* be delivered to an adapter was routed to that name, whatever adapters came and went, and
\* however old the record.
Attributed ==
  /\ \A i \in DOMAIN up : Takes(up[i]) => reg.dir[up[i].ch] = up[i].name
  /\ \A x \in toL : Delivers(x) => chan[x.m.ch] = x.m.name

\* A revision names one directory: what the switch has installed under the current revision is
\* what the listener has.
RevisionFaithful == reg.epoch = sess.l /\ reg.rev = rev => reg.dir = chan

=============================================================================
