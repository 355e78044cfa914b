----------------------------- MODULE Forwarding -----------------------------
(***************************************************************************)
(* What the multi-worker switch does to frames (switch_mp/runtime.hpp):    *)
(* buffers of per-port pools travel through one queue per pair of ports to *)
(* the output port's pending batch, while plans are published.  A job of a *)
(* worker is one step: its effects on other workers are pushes and pops of *)
(* Spsc queues and single flags.  Publication is one step because no       *)
(* worker runs meanwhile (WorkerLoop).                                     *)
(***************************************************************************)
EXTENDS Naturals, Sequences, FiniteSets, SequencesExt

CONSTANTS
  Ports,        \* generations, hence numbers
  FirstPorts,   \* those of the first plan
  Plans,        \* the sets of links a plan may have between its ports
  PoolSize, QueueSize, ControlSize, Batch,
  MaxFrames,    \* bound on the frames received for one link
  MaxPublish

VARIABLES
  ports,         \* plan_->ports
  joined,        \* the ports there were so far: a port that returns is a new one
  links,         \* the keys of plan_->links
  queue,         \* the frames waiting on each link
  pending,       \* Port::pending
  source_cursor, \* Port::source_cursor
  control,       \* Port::relay_control
  held,          \* the control buffers the controller works on
  in_use,        \* Buffer::used
  disconnected,
  received,      \* how many frames were received for each link
  delivered,     \* the number of the last frame of each link that left
  skipped,       \* how often a link with frames was passed over since it was served
  published

vars == <<ports, joined, links, queue, pending, source_cursor, control, held, in_use, disconnected,
          received, delivered, skipped, published>>
frameVars == <<received, delivered, skipped>>
planVars == <<ports, joined, links, published>>

Pairs == Ports \X Ports
Pool(p) == {p} \X (1 .. PoolSize)
Buffers(s) == {s[i].buffer : i \in DOMAIN s}

Init ==
  /\ ports = FirstPorts /\ joined = FirstPorts /\ published = 0
  /\ links \in {plan \cap (FirstPorts \X FirstPorts) : plan \in Plans}
  /\ queue = [l \in Pairs |-> <<>>]
  /\ pending = [p \in Ports |-> <<>>] /\ source_cursor = [p \in Ports |-> 0]
  /\ control = [p \in Ports |-> <<>>] /\ held = {}
  /\ in_use = {} /\ disconnected = {}
  /\ received = [l \in Pairs |-> 0] /\ delivered = [l \in Pairs |-> 0]
  /\ skipped = [l \in Pairs |-> 0]
-----------------------------------------------------------------------------
(* receive(): the steps that keep the buffer they acquire.  EAGAIN, a full *)
(* queue, a malformed frame or one without a target releases it again.     *)

Acquirable(p) == {b \in Pool(p) : b \notin in_use}
Receiving(p) == p \in ports \ disconnected /\ Acquirable(p) # {}

Forward(p, q) ==
  /\ Receiving(p) /\ <<p, q>> \in links
  /\ received[p, q] < MaxFrames
  /\ received' = [received EXCEPT ![p, q] = @ + 1]
  /\ IF Len(queue[p, q]) < QueueSize
       THEN LET b == CHOOSE x \in Acquirable(p) : TRUE IN
            /\ queue' = [queue EXCEPT ![p, q] = Append(@, [buffer |-> b, n |-> received'[p, q]])]
            /\ in_use' = in_use \cup {b}
       ELSE UNCHANGED <<queue, in_use>>
  /\ UNCHANGED <<planVars, pending, source_cursor, control, held, disconnected, delivered, skipped>>

(* A control record or a relay snapshot, for the controller.               *)
ReceiveControl(p) ==
  /\ Receiving(p) /\ Len(control[p]) < ControlSize
  /\ LET b == CHOOSE x \in Acquirable(p) : TRUE IN
     /\ control' = [control EXCEPT ![p] = Append(@, b)]
     /\ in_use' = in_use \cup {b}
  /\ UNCHANGED <<planVars, queue, pending, source_cursor, held, disconnected, frameVars>>

ReceiveError(p) ==
  /\ Receiving(p)
  /\ disconnected' = disconnected \cup {p}
  /\ UNCHANGED <<planVars, queue, pending, source_cursor, control, held, in_use, frameVars>>
-----------------------------------------------------------------------------
(* transmit(): sweep the input queues once, from the cursor, one frame     *)
(* from each until the batch is full; then submit the batch.               *)

Incoming(q) == SetToSortSeq({p \in Ports : <<p, q>> \in links}, <)
Turns(q, in) == [i \in DOMAIN in |-> in[((source_cursor[q] + i - 1) % Len(in)) + 1]]
Served(q, turns) == SelectSeq(turns, LAMBDA p : queue[p, q] # <<>>)
Sweep(q, turns) == CHOOSE k \in 0 .. Len(turns) :
                     /\ Len(Served(q, SubSeq(turns, 1, k))) = Batch \/ k = Len(turns)
                     /\ \A j \in 0 .. k - 1 : Len(Served(q, SubSeq(turns, 1, j))) < Batch

Cursor(q, turns) ==
  IF turns = <<>> THEN source_cursor[q]
  ELSE (source_cursor[q] + Sweep(q, turns)) % Len(turns)

Taken(q, sources) ==
  [i \in DOMAIN sources |-> LET f == Head(queue[sources[i], q])
                            IN [source |-> sources[i], buffer |-> f.buffer, n |-> f.n]]

Swept(q, turns) ==
  IF pending[q] # <<>> THEN pending[q]
  ELSE Taken(q, Served(q, SubSeq(turns, 1, Sweep(q, turns))))

(* Variants: the whole batch is released; the unsent suffix is not moved up.*)
SubmitReleasesAll(q, batch, sent) ==
  /\ pending' = [pending EXCEPT ![q] = SubSeq(batch, sent + 1, Len(batch))]
  /\ in_use' = IF sent = 0 THEN in_use ELSE in_use \ Buffers(batch)
  /\ UNCHANGED <<disconnected, delivered>>

(* The sent prefix is released, the rest stays for the next call.          *)
Submit(q, batch, sent) ==
  /\ pending' = [pending EXCEPT ![q] = SubSeq(batch, sent + 1, Len(batch))]
  /\ in_use' = in_use \ Buffers(SubSeq(batch, 1, sent))
  /\ delivered' = [l \in Pairs |-> IF \E i \in 1 .. sent : l = <<batch[i].source, q>>
                     THEN (CHOOSE f \in ToSet(SubSeq(batch, 1, sent)) : f.source = l[1]).n
                     ELSE delivered[l]]
  /\ UNCHANGED disconnected

(* discard_pending() and disconnect() after an error.                      *)
SubmitFails(q, batch) ==
  /\ pending' = [pending EXCEPT ![q] = <<>>]
  /\ in_use' = in_use \ Buffers(batch)
  /\ disconnected' = disconnected \cup {q}
  /\ UNCHANGED delivered

Transmit(q) ==
  /\ q \in ports \ disconnected
  /\ LET turns == Turns(q, Incoming(q))
         batch == Swept(q, turns)
         swept == IF pending[q] = <<>> THEN {f.source : f \in ToSet(batch)} ELSE {}
     IN /\ batch # <<>>
        /\ queue' = [l \in Pairs |-> IF l[2] = q /\ l[1] \in swept THEN Tail(queue[l]) ELSE queue[l]]
        /\ source_cursor' = [source_cursor EXCEPT ![q] = IF swept = {} THEN @ ELSE Cursor(q, turns)]
        /\ skipped' = [l \in Pairs |->
             IF l[2] # q \/ swept = {} THEN skipped[l]
             ELSE IF l[1] \in swept \/ queue[l] = <<>> THEN 0 ELSE skipped[l] + 1]
        /\ \/ \E sent \in 0 .. Len(batch) : Submit(q, batch, sent)
           \/ SubmitFails(q, batch)
  /\ UNCHANGED <<planVars, control, held, received>>
-----------------------------------------------------------------------------
(* relay_maintenance(): the controller takes a control buffer, may publish *)
(* what it says, and releases the buffer.                                  *)

MaintenanceTakes(p) ==
  /\ p \in ports \ disconnected /\ held = {} /\ control[p] # <<>>
  /\ held' = {Head(control[p])}
  /\ control' = [control EXCEPT ![p] = Tail(@)]
  /\ UNCHANGED <<planVars, queue, pending, source_cursor, in_use, disconnected, frameVars>>

MaintenanceDone ==
  /\ held # {}
  /\ held' = {} /\ in_use' = in_use \ held
  /\ UNCHANGED <<planVars, queue, pending, source_cursor, control, disconnected, frameVars>>

(* discard_pending(port, next): what stays pending under the next plan.    *)
KeptPending(p, next, rules_changed) ==
  SelectSeq(pending[p], LAMBDA f : ~ rules_changed /\ p \in next /\ f.source \in next)

KeptQueue(l, nextLinks, rules_changed) ==
  IF l \in links /\ (rules_changed \/ l \notin nextLinks) THEN <<>> ELSE queue[l]

(* publish(): drop what has no place in the next plan, swap, and free the  *)
(* retired ports with their pools and control queues.  While a control     *)
(* buffer is held the set of ports stays.                                  *)
Publish(next, nextLinks, rules_changed) ==
  /\ published < MaxPublish /\ (held # {} => next = ports)
  /\ published' = published + 1
  /\ ports' = next /\ joined' = joined \cup next /\ links' = nextLinks
  /\ pending' = [p \in Ports |-> KeptPending(p, next, rules_changed)]
  /\ queue' = [l \in Pairs |-> KeptQueue(l, nextLinks, rules_changed)]
  /\ control' = [p \in Ports |-> IF p \in next THEN control[p] ELSE <<>>]
  /\ in_use' = in_use \ ( UNION {Buffers(pending[p]) \ Buffers(pending'[p]) : p \in ports}
                     \cup UNION {Buffers(queue[l]) \ Buffers(queue'[l]) : l \in links}
                     \cup UNION {Pool(p) : p \in ports \ next})
  /\ disconnected' = disconnected \cap next
  /\ skipped' = [l \in Pairs |-> 0]
  /\ UNCHANGED <<source_cursor, held, received, delivered>>

Next ==
  \/ \E p \in ports : \/ \E q \in ports : Forward(p, q)
                      \/ ReceiveControl(p) \/ ReceiveError(p)
                      \/ Transmit(p) \/ MaintenanceTakes(p)
  \/ MaintenanceDone
  \/ \E next \in SUBSET (ports \cup (Ports \ joined)), choice \in Plans, rules_changed \in BOOLEAN :
       Publish(next, choice \cap (next \X next), rules_changed)

Spec == Init /\ [][Next]_vars
-----------------------------------------------------------------------------
(* The places a buffer can be, one by one.                                 *)
Places ==
  {<<"queue", l, i>> : l \in Pairs, i \in 1 .. QueueSize}
    \cup {<<"pending", p, i>> : p \in Ports, i \in 1 .. Batch}
    \cup {<<"control", p, i>> : p \in Ports, i \in 1 .. ControlSize}

At(place) ==
  LET s == CASE place[1] = "queue"   -> [i \in DOMAIN queue[place[2]] |-> queue[place[2]][i].buffer]
             [] place[1] = "pending" -> [i \in DOMAIN pending[place[2]] |-> pending[place[2]][i].buffer]
             [] place[1] = "control" -> control[place[2]]
  IN IF place[3] \in DOMAIN s THEN {s[place[3]]} ELSE {}

(* A buffer is marked used exactly while one queue, batch or handler holds *)
(* it: none leaks, none is released twice and none is in two places, also  *)
(* when a batch fails half way or a plan drops it (queues.hpp:63, :81).    *)
EachBufferOnce ==
  /\ in_use = held \cup UNION {At(x) : x \in Places}
  /\ Cardinality(in_use) = Cardinality(held) + Cardinality({x \in Places : At(x) # {}})

(* No queue, batch or handler holds a buffer of a port that a publication  *)
(* freed (runtime.hpp:963).                                                *)
NothingFreed == \A b \in held \cup UNION {At(x) : x \in Places} : b[1] \in ports

(* Frames of one link leave in the order they came, across partial sends,  *)
(* retained batches and changes of plan (runtime.hpp:841, :959).           *)
Waiting(l) ==
  LET mine == SelectSeq(pending[l[2]], LAMBDA f : f.source = l[1])
  IN [i \in DOMAIN mine |-> mine[i].n] \o [i \in DOMAIN queue[l] |-> queue[l][i].n]

InOrder ==
  \A l \in links :
    LET w == Waiting(l)
    IN \A i \in DOMAIN w : w[i] > (IF i = 1 THEN delivered[l] ELSE w[i - 1])

(* A link with waiting frames is passed over at most once for every other  *)
(* link of the same output before it is served (runtime.hpp:465-473).      *)
FairSweeps == \A l \in links : skipped[l] < Cardinality({p \in Ports : <<p, l[2]>> \in links})
=============================================================================
