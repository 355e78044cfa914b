# Verification of tuntom

TLA+ models of tuntom, model-checked with TLC on small instances and, where it
matters most, proved with TLAPS for every value of the constants. The models
are translated from the C++ code under `src/src/`; paths below are relative to
that directory. `PROJECT.json` maps every definition to the lines it models,
lists the hazards of the code with the properties that would notice them, and
names every run, mutant and theorem.

1. [The system](#the-system)
2. [Modules and how they correspond to the code](#modules)
3. [Runs](#runs)
4. [Proofs](#proofs)
5. [Disagreements found](#disagreements-found)
6. [Not modelled](#not-modelled)

## The system

tuntom carries IP packets and switch frames between hosts over encrypted UDP
datagrams. A *tunnel* process is one end of a session. A *switch* process joins
tunnels and adapters by labelled frames over Unix sockets or shared memory; it
exists with one thread and with several workers. *Adapters* are where packets
leave the fabric (exit adapter) or are given to a proxy (divert adapter). A
*control plane* configures all of them, locally and across tunnels.

| Part | Modules | What makes it hard |
|---|---|---|
| Session (`session.hpp`, `replay.hpp`) | `Session`, `KeyAgreement`, `ReplayWindow`, `ReplayArray` | loss, repetition and reordering; rekeying under traffic; rollback; restarts; a wall clock that jumps; failed allocations |
| UDP transmission (`udp_tx_queue.hpp`, `tunnel.hpp`) | `UdpTransmit` | what waits was encrypted for a key and a path that may be gone; partial sends |
| Fragments (`fragmentation.hpp`, `reassembly.hpp`) | `Reassembly` | sizes at the edge; overlap, eviction at limits, late fragments |
| Path MTU and round trips (`tunnel.hpp`) | `Pmtud`, `RttProbes` | a lost probe looks like a size that is too large; replies of an earlier search or session |
| Authentication and relocation (`v5_auth_state.hpp`, `relocation.hpp`, `child_supervisor.hpp`, `tunnel.hpp`) | `Access` | retries crossing answers, the helper's result arriving late, a client handed to another process |
| Tunnel process (`tunnel.hpp` `run()`, `info_worker.hpp`, `logging.hpp`) | `TunnelLoop`, `InfoWorker`, `Logger` | one input must not starve the others; two threads beside the loop |
| TUN devices (`tun_device.hpp`, `tun_provider.hpp`, `tun_fd_socket.hpp`, `tun_helper_main.cpp`, `adapter_tuns.hpp`) | `TunProvider` | descriptors passed one by one between processes, either of which may fail |
| Multi-worker switch (`switch_mp/`) | `Spsc`, `Fifo`, `WorkerLoop`, `Forwarding`, `Planning` | lock-free rings, lost wake-ups, replacing ports while workers run |
| Switch connections (`ipc/`, `switch_client.hpp`, `switch_mp/main.cpp`) | `SwitchTransport`, `Registration` | two processes on the same slots; three ways to the socket that keep one order; a new connection for a used name |
| Single-threaded switch (`switch/main.cpp`) | `SwitchLoop` | frames of old rules in full sockets; fairness between ports |
| Rules (`switch_ruleset.hpp`, `switch_ecmp.hpp`, `switch_stack_match.hpp`, `switch_routes.hpp`) | `RuleStacks`, `SwitchRules`, `RulesText` | compiled tables against the order of the file; text that must load again |
| Relay (`relay/`) | `Relay` | directories and acknowledgements of an earlier revision, session or connection |
| Service chains (`via/`, `divert/main.cpp`) | `Via` | envelopes older than the rules |
| Exit adapter (`adapter/`, `packet_classifier.hpp`, `ip_flow.hpp`) | `ExitAdapter` | two caches, a flush that leaves entries in place |
| Divert adapter (`divert/`) | `DivertLoop`, `Learning`, `SharedTable`, `SharedGroup` | tables in shared memory, workers killed between any two writes |
| Remote control (`remote_control.hpp`, `control_auth.hpp`, `control_router.hpp`, `routed_control.hpp`, `control_socket.hpp`) | `RemoteControl`, `ControlAuth`, `ControlRouting`, `ControlSocket` | at most one execution over a lossy channel; proofs and counters that cross; cyclic graphs; reused descriptors |

How the parts lean on each other, and where the models hand over:

- The session hands the tunnel a *transmit generation*; the transmit path
  discards what it holds when it changes. `GenerationMarksKey` (of `Session`) is
  what `CurrentOnly` (of `UdpTransmit`, part of `QueueSound`) needs.
- `Session` uses the replay window as a set (`ReplayWindow`); `ReplayArray` is the
  code's array and implements that set (`ImplementsWindow`, proved).
- `Reassembly` receives each fragment once: that is `DeliverySound` of `Session` (proved).
- `Forwarding` takes its queues to be FIFO and the publication of a plan to be one
  step: the first is `ImplementsFifo` of `Spsc` (proved), the second `BarrierSound`
  of `WorkerLoop` (proved).
- `Planning` says which worker owns which side of a queue, so that each ring has
  one producer and one consumer (part of `PlanSound`), as `Spsc` requires.
- `SwitchLoop` and `Planning` take the choice of a port as given; `SwitchRules` has
  the choice. `DivertLoop` takes classification as given; `Learning` has it, over
  tables that change by whole entries (`FileSound`).
- `RemoteControl` has the transfer of requests, `ControlAuth` the proofs on one
  frame each, `ControlRouting` the paths they take.

## Modules

Definitions that restate another the way a plausible bug would (`Faulty...`, or
named for what they leave out: `LoopHeadNoExpire`, `PopUnchecked`) are used by no
specification. Each stands before the definition it varies, and shows that some
property can fail. Bounds on what a model may do are constants that begin with `Max`; a
bound is a conjunct of a guard.

### Tunnel

`Session.tla` is one client and one server `SessionProtocol` and the network
between them. `client` and `server` are records with the fields of the class;
`net` is the set of datagrams sent. A datagram stays in `net` after delivery, so
it may arrive again, late, out of order or never. (With `Timely`, used for
liveness only, it is delivered once or lost before the clock moves.)

| Action | Code |
|---|---|
| `ClientTick`, with `Begin`, `Abandon`, `BeginDue` | `tick()`, `begin()`: retry, flight deadline with rollback, idle restart, timed rekey |
| `Restart` | `restart()`, called on relocation |
| `ReceiveInit`, with `AnswerSeen`, `AnswerFresh`, `Offer`, `Purge` | the server's INIT handler: timestamp window, nonce history, cached RESPONSE, new pending session |
| `ReceiveResponse`, `ReceiveConfirm`, `ReceiveConfirmAck` | the other three handshake messages |
| `ClientSend`, `ServerSend` | `encode`, one counter each |
| `ClientReceivePacket`, `ServerReceivePacket` | `decode` against active and previous sessions and their replay windows |
| `ServerTick` | `tick()` of a server: expiry |
| `TimePasses`, `ClientReboot`, `ServerReboot`, `Lose` | the environment |

A key is the pair of nonces in its transcript: only the holder of the same pair
opens a message, so the cryptography is assumed to be correct. A deadline is the
time left until it. The wall clock is read anew from `Walls` each time and may
jump either way. `randomLeft` and the `faults` bound stand for a failing random
source, failed key exchanges and failed allocations where they can occur.
`KeyAgreement.tla` says what the handshake promises, without messages or timers:
a key is offered, adopted, activated and confirmed, each at most once, and the
server never changes keys while the client holds a confirmed one.

`UdpTransmit.tla` is the queue with the handlers of `Tunnel` that use it: handshake
and tick handlers followed by `sync_udp_tx_session` (`Activate`, `ForgetPrevious`,
`Rollback`), moves of the peer, the head of the loop, `flush_udp_tx` with every
prefix and error the socket may answer, and `send_data`. The ring's head index is
abstracted. `Rollback` may return to a previous key; by `ClientStages` (see the
proofs) the session has dropped that key by then, so this is more than the
program does. `Rollback(TRUE)` is `bad_alloc` in `begin()`, after which the handler
never reaches its sync.

`Reassembly.tla` is both ends of a fragmented message: `make_fragment_plan` with the
loop that cuts along the plan, and the entries, both orders, byte counts,
eviction, expiry and the ids discarded of the receiver. `Pmtud.tla` is the binary search with one probe under way, over a
path that changes. `RttProbes.tla` is the schedule of PINGs of both ends with
their fates. `Access.tla` is the two AUTH machines, the helper job, RELOCATE and the
worker processes; establishing a session is one step there. `TunnelLoop.tla` is
`run()`: rotation over UDP, TUN and switch, rounds under overload, the pause of
outbound input, the flush before sleeping, reconnection, and the back-off after a
failed allocation. `InfoWorker.tla` has each critical section of `mutex_` as a step
and the notifications outside of it as steps of their own. `Logger.tla` is the ring
of records with its token bucket and the writing thread. `TunProvider.tla` is how a
process gets its devices (directly, from a forked child, from a helper), step by
step on both sides of the socket.

### Switch

`Spsc.tla` is the ring access by access: a load of the other side's index may
return any value it held since this side's previous load. `Fifo.tla` is what it
promises. `WorkerLoop.tla` is a worker's pass, its last look before sleeping, the
wake-up flags, the barrier of `pause()` and `resume()` and the publication of plans.
`Forwarding.tla` has buffers of per-port pools on their way through queues, pending
batches and control frames while plans change. `Planning.tla` is `schedule()` and the
wiring of `make_plan()`. `SwitchTransport.tla` is one direction of a connection: slots
with tokens in memory shared by two processes, staged records, inline frames, the
retry queue. `Registration.tla` is `SwitchClient`'s automaton against
`ServerHandshake` and the listener's admission, with deadlines that may pass at any
moment. `SwitchLoop.tla` is the loop of the single-threaded switch.

`RuleStacks.tla` and `SwitchRules.tla` have matching, rewriting, the compiled
programs of formats 1 and 2, port roles, ECMP and legacy routes as operators; the
properties compare them with references (first match in file order, highest
score, longest prefix) over every file of a few statements. `RulesText.tla` is the
parser and the printer on tokens. `Relay.tla` is the listening endpoint, the
connecting endpoint and the registry of the switch; `epoch` stands for the
listener's session number, and the expiry of `ack_deadline_` is `acked' = 0`.
`Via.tla` is the choice of instances, the envelopes adapters keep, and reloads.
`ExitAdapter.tla` is the caches for tuples and pairs with generations, eviction
and reclaiming; what a cache promises is at the end of the module (`LruStep`).

### Divert and control

`SharedTable.tla` has every write to a shard as a step, with `MaxCrashes` workers
killed between any two, and the recovery by the next to lock (which may be killed
as well); the map of whole entries it promises is at the end of the module
(`StepsAtomic`). `SharedGroup.tla` is how workers enter and leave the file. `Learning.tla` feeds the same packets to `Admission`
and to `SharedFlows::classify`; a worker reads its clock and classifies later.
`DivertLoop.tla` is the event loop with TUN queues that follow the state of the path,
and with allocations that fail between packets, with a packet in hand, or in a flush.

`RemoteControl.tla` is upload, execution, polling, confirmation, history and session
change. `ControlAuth.tla` is challenges, proofs, counters and their limits.
`ControlRouting.tla` is flooded discovery, stored reply paths, tokens and routed
frames over a graph whose connections are replaced. `ControlSocket.tla` is the local
socket with its deadlines, deferred answers and batches of events.


## Runs

Three modules instantiate the components for TLC: `MCTunnel`, `MCSwitch` and
`MCDivert` (divert adapter and remote control). The variable `part`, fixed in the
initial state, names the instance a behaviour belongs to; the variables of the
others do not move and are 0, except that the modules the theorems are about
(`InfoWorker`, `Session` and `ReplayArray` for the tunnel, `Spsc` and `WorkerLoop` for
the switch, `RemoteControl` for the control plane) are extended, get their constants from the configuration and rest in their initial
state. So a run is the union of the behaviours of its instances, each with its own
bounds, and every property says which instances it is about; the properties of the
extended modules are checked as the theorems state them. The session is also run
by itself, by configurations of `Session.tla`.

| Run | Instances | Distinct states | Shows |
|---|---|---|---|
| `session_keys` | `Session`: 3 INITs, 3 RESPONSEs, 1 restart | 140,698 | one key on both sides whenever the client takes it for confirmed; two candidate keys and a bounded number of RESPONSEs; a pending exchange is not evicted; the generation marks every change of key; the handshake implements `KeyAgreement` |
| `session_live` | `Session`: 7 INITs, 9 RESPONSEs, 1 loss, 1 failure, 1 restart | 200,099 | agreement returns |
| `tunnel` | `Session` with packets of both kinds under two keys; `UdpTransmit`; `TunnelLoop`; `Access` with and without workers | 507,971 | no counter reused, nothing delivered twice or before CONFIRM, no metadata under an old key; order, wholeness, age, key and address of what is sent; no frame staged asleep; data goes only to a worker that was bound; gates and authentication agree |
| `tunnel_paths` | `InfoWorker`; `Session` with a history of one nonce, a jumping clock, 1 failure and 1 restart; `ReplayArray`, `Reassembly` (plans; competing messages; malformed fragments), `Pmtud`, `RttProbes` (lossy; lossless; a listener), `Logger`, `TunProvider` | 683,360 | one RESPONSE per nonce and incarnation; the sorted array of three sequences is the replay window; plans cover packets and fit the path; nothing delivered with a hole; bounds and sizes of the search are proven; probes have one fate; whole lines in order; all devices or none |
| `tunnel_live` | `InfoWorker`, `UdpTransmit`, `Access`, `Pmtud`, `Logger`, `TunnelLoop`, `TunProvider` | 88,195 | queues drain, results arrive, begun work ends, no input is starved |
| `engine` | `Spsc`; `WorkerLoop` with a plan and with sockets that fail; `Forwarding` three times; `Planning` with many and few workers; `SwitchTransport` with client and worker; `Registration` of two names and of one; `Relay` | 989,566 | rings without races that implement `Fifo`; no plan freed in use; no lost wake-up; every buffer in one place; order per link across plans; slots never overwritten or lost; the budget and the old port kept; directories match their revision |
| `switch` | `SwitchLoop`, `SwitchRules` (formats 1 and 2, bidirectional rules, routes), `RulesText` (1 and 3), `Via` (ports that change; a reload), `ExitAdapter` (with pairs; tuples only) | 596,815 | frames in order and by the rules in force; the compiled rules decide as the file says; printed rules load again; no service passed by; caches in the order of use |
| `switch_live` | `WorkerLoop`, `SwitchLoop`, `Registration`, `Relay` | 228,537 | nobody waits for ever; the directory converges |
| `control` | `SharedTable`, `SharedGroup`, `Learning` (alone; two workers), `DivertLoop` (in a group; alone), `RemoteControl` (capacity; sessions), `ControlAuth` three times, `ControlRouting` three times, `ControlSocket` | 1,486,983 | sound indexes after any crash; one group; packets counted, but for those a failed allocation had in hand; no connection taken over in its middle; at most one execution; counters never stuck; answers from who was asked |
| `control_live` | `SharedTable`, `SharedGroup`, `RemoteControl`, `ControlRouting`, `ControlSocket` | 149,660 | nobody waits for ever; a discovery finds every node in reach |
| `remote_refused`, `rules_text_via` | `RemoteControl`; `RulesText` | | two [disagreements](#disagreements-found) |

The bounds are in the three modules, beside each instance, and in the
configurations. What makes them large
enough to be interesting:

- *Session.* Two INITs give a rekey; the third gives a delayed message of an
  exchange two generations old. The intervals 1, 1, 1, 2, 3, 3 keep the order of
  the code's constants; the proofs hold for all intervals in that order.
  A history of one nonce makes capacity check and purge fire at once.
- *Queues and rings.* Capacities of one to three, with one or two items more than
  fit, so that rings wrap, batches are cut and limits by count and by bytes differ.
- *Concurrent parts.* Two workers, processes or clients for one resource, and
  a third where one may wait behind another (`SharedGroup`, `SwitchLoop`,
  `Forwarding` with three inputs). Two workers are killed in `SharedTable`, so the
  recovery can be interrupted by the second.
- *Networks.* One or two records under way at a time where a record may be
  overtaken; sets that never forget in `Session`; a ring of nodes with a tail, and
  a chain whose ports change hands, in `ControlRouting`.
- *Operators.* `SwitchRules` takes every file of up to three or four statements from
  six forms and asks about every port, stack and connection; `RulesText` every line
  built from its parts, with ports named like keywords; fragment plans sizes at and
  beside the multiples of the fragment size.

TLC does not check traffic together with failures and restarts of the session
(`session_keys` sends no packets and lets nothing fail; the theorems below have
no such limit). Deadlock is checked for the two session runs;
the suites switch it off because bounded models stop when their input is used up.
What must not stop is stated by the liveness properties.

### Fairness

Only what the code schedules by itself is fair: an event loop or thread that has
something to do does it, a timer that is due fires, a clock advances, a process
that is not killed goes on. Nothing is assumed of sockets becoming writable, of
peers, or of the network, with these exceptions (strong fairness, at most three
per run):

- `Access`: of a message that is repeated for ever one gets through.
- `TunnelLoop`: it polls with all descriptors again and again, and the kernel
  reports what is ready.
- `Registration`: the kernel's queue of connections is served in order, so a client
  that connects again and again is accepted. `Relay`: a directory sent again and
  again gets through with its acknowledgement (one action, `Through`).
- `SharedGroup`: the kernel grants the lock of byte 0 to each that waits.
- `ControlRouting`: in `flood` the network loses nothing, so frames of a discovery
  arrive (weak fairness).
- `session_live`: datagrams are read or lost before the clock moves (`Timely`), and
  losses, failures and restarts are finite in number. `AgreementReturns` only speaks
  of states with enough INITs left for the interruptions still possible; the bound
  on INITs belongs to the model, not to the code.

`AllServed` of the tunnel is about TUN and switch together: while the UDP queue fills again
in every turn the rotation can keep in step with it, so that one of the two is not
read for as long as that goes on.

## Proofs

| Theorem | Says, for every value of the constants | Assumptions |
|---|---|---|
| `TypeCorrect` (`SessionProofs`) | `Spec => []TypeOK` of `Session`: shapes, and no deadline further away than its interval | `IntervalAssumption`, `LimitAssumption`, `WindowSizeAssumption` |
| `PendingStays` (`SessionProofs`) | `Spec => PendingKept`: an exchange that awaits CONFIRM is neither evicted nor extended | the same |
| `GenerationsMark` (`SessionProofs`) | `Spec => GenerationMarksKey`: a change of key changes the transmit generation | the same |
| `ExchangeLimited` (`SessionProofs`) | `Spec => []ExchangeBounded`: two candidate keys at most; two RESPONSEs per pending exchange and one more per `ResendInterval` | the same |
| `KeysAgree` (`AgreementProofs`) | `Spec => []ConfirmedAgreement`: the server has the key the client takes for confirmed, or none | the same, and `~ Timely`: the network that forgets nothing |
| `AgreementImplemented` (`KeyProofs`) | `Spec => ImplementsKeyAgreement`: every step of the handshake is a step of `KeyAgreement` or a stutter | as `KeysAgree` |
| `CountersFresh` (`KeyProofs`) | `Spec => []CountersNotReused` | as `KeysAgree` |
| `DeliveredRight` (`KeyProofs`) | `Spec => []DeliverySound`: nothing is handed up twice, nothing before CONFIRM | as `KeysAgree` |
| `OldKeysCarryData` (`KeyProofs`) | `Spec => OldKeysLimited`: the old key moves neither the peer nor metadata | as `KeysAgree` |
| `NoncesAnsweredOnce` (`KeyProofs`) | `Spec => []NonceHistorySound`: each incarnation of the server answers a nonce once; the two indexes of the history agree and respect its capacity | as `KeysAgree` |
| `ArrayIsWindow` (`PartProofs`) | `ArraySpec => []ImplementsWindow`: the sorted array of `replay.hpp` decides and retains as the set of highest values does | `WindowSizeAssumption`, `MaxSequenceAssumption` |
| `RaceFree` (`PartProofs`) | `SpscSpec => []SlotsRaceFree`: producer and consumer are never at one slot | `CapacityAssumption` |
| `FifoImplemented` (`PartProofs`) | `SpscSpec => ImplementsFifo` | the same |
| `BarrierHolds` (`WorkerProofs`) | `Spec => []BarrierSound` of `WorkerLoop` | `Instance`: finitely many workers, a natural bound on the input |
| `HandsOver` (`PartProofs`) | `InfoSpec => [](Fresh /\ NoLostWake)` | `GenerationAssumption` |
| `RequestsServed` (`RemoteProofs`) | `RemoteSpec => []RequestsSound`: a request runs once while its result is kept, a success is that of an execution with its whole response in order, no result is evicted that its requester waits for | `FiniteIds`, `BlocksAssumption` |

The runs of the session and of the tunnel evaluate the assumptions of `Session`,
those of the tunnel also the ones of `InfoWorker` and `ReplayArray`, those of the switch
the ones of `Spsc` and `WorkerLoop`, those of the control plane the ones of
`RemoteControl`. All theorems about `Session` hold with
traffic, failures, restarts and any clock together.

### The handshake

`ConfirmedAgreement` is not inductive: it says nothing of the messages under
way. `AgreementInv` adds, in this order of dependence:

1. `NoncesDrawn`: nonces come from counters, and the client's INIT is the newest.
2. `ClientStages`: the client waits for an acknowledgement exactly while its
   flight is a CONFIRM, and the session before it expires no later than that
   flight. The rollback at the deadline therefore finds nothing to return to.
   This is where the proof needs `OldLifetime < PendingLifetime`.
3. `AdoptionOrder`: the client adopts keys in the order of its nonces, and what
   answers a later nonce was offered later.
4. `PendingNewest`: the server's pending exchange is its newest offer.
5. `AckedKeys`: once the client's active key has been acknowledged, the server
   has that key or none.

The heart is `ReceiveConfirm`. A delayed CONFIRM could move the server away from
a confirmed key only if its exchange were still pending. The pending exchange
is the newest offer (4), and the client's key is the last one adopted (3), so
that CONFIRM carries the client's own key.

For the budget of RESPONSEs (`ExchangeLimited`) the invariant `Paced` is an account:
all replies but the first have been paid for with the age of the exchange, and
what is left of the current resend interval is still owed. The debt is dropped
when the exchange is over, because every handler expires it before it answers.

### The traffic, and the refinement

`TrafficProofs` describes each step of `Session` once, as a *turn* of the client, of
the server or of the clock: which keys move on a stage, which packets enter the
network, and what becomes of the sessions. The rest of it reasons about turns only,
and `KeyProofs` states the theorems.
`TrafficInv` has one clause per end (`EndInv`): the keys in its slots have reached the
stage at which it transmits and differ; what it has sent is numbered below its
next counter; what was handed up at it is refused by the window of that key. A
key that is installed is new (`Agreement` again, so a late CONFIRM cannot bring
back a key with its counter at 1), which is why the counters and windows of a
slot never start over. `PartProofs` shows what this needs of `ReplayWindow`
(`WindowLaw`): whatever a window refuses it refuses after every later packet,
although it forgets its lowest sequence when it is full. This is an argument about
cardinality; it holds for every size.

The same module has the theorem about the code's array. `Descending` (the slots in
use strictly decrease and are no more than the array holds) makes the insertion
place a split: everything before it is larger, everything from it on is not
(`IndexSplits`). So the place counts the larger values (`HeldCounted`), which is what
the set asks for, and what the shift drops from a full array is its minimum.

The abstract stages are sets of keys among the messages sent, so each turn is
matched with a step of `KeyAgreement`: an offer, an adoption, an activation or a
confirmation, a loss of a key, or nothing.

### The nonce history

`NonceHistorySound` needs to know why a nonce that was purged cannot be answered
again. `NonceProofs` describes each step by what it does to INITs, RESPONSEs and
history, given `AgreementInv`. By its invariant `NonceInv` the INITs with one nonce are
the same message, an entry of the history expires when the stamp of that message
does, and a nonce with as many answers as there were incarnations is *spent*: it is
in the history, or its stamp is overtaken by `high`, the latest wall clock the
server has read. `high` never goes back (`Larger`), although the clock does, and a
purge removes only what `high` has overtaken, so a spent nonce stays spent. A restart
empties the history; the answers a nonce may have grow with it by one.

### The other components

*Ring.* The inductive invariant says that each side errs on the safe side: the
cached index of the other never runs ahead of the true one, so the producer
takes the ring for at least as full, and the consumer for at most as full, as it
is; a side that has passed its check stays clear of the other until it has stored
its index. The refinement maps the slots between the two indices to the queue.

*Workers.* `WorkerInv` has two parts. `BarrierInv` ties the place of the controller to
the barrier: `pausing` holds exactly between opening and closing it, `paused` counts
the workers inside, and at the publication all of them are. So no worker is
between reading a plan and using it. `WakeInv` is about a worker that has armed its
wake-up: if it is no longer in `sleeping`, its event is set or a poke is under way;
and after its last look a frame that arrives for it is followed by a notification.
A worker that sleeps has been through both, so it does not sleep over a frame.
TLC checked `WorkerInv` on two workers first.

*INFO thread.* The invariant relates the generation of the job, of the result and
of the request that is pending to that of the session: a result is published
only if no newer request has come, and both happen under the lock.

*Remote control.* `RemoteInv` has one clause per request (`RequestInv`) and one per
datagram (`FrameOK`). A request that has run and was not evicted still has its
entry, in a final state, so a repeated PUT finds it and does not run again. Only
a confirmed entry is evicted, and it is confirmed by a FINISH; a FINISH is under
way only if its requester has the whole response or asked about an old request
(`~ Early`). So a requester that still waits finds its result. What it has received are the
first blocks of the response in order, since it takes a block only at the place it
waits for; a reply that says "succeeded" comes from an execution and has its size.

### Only model-checked

- Liveness (`AgreementReturns`, `AllServed`): fairness and `ENABLED` are outside what
  the prover handles.
- What recursive definitions and folds compute (`RulesText`, the references in
  `SwitchRules`, plans of fragments): this takes induction
  over data, which the installed provers cannot instantiate.
- The other invariants, refinements and action properties, on the instances of
  the runs. No part of their argument is proved.

## Disagreements found

- `remote_refused`: a request that is refused for want of capacity leaves no entry
  (`remote_control.hpp:350`). A copy of its first block that arrives later is a new
  request to the receiver and may run, although the caller was told that it was
  rejected. The comment at `remote_control.hpp:335` says refusals never execute.
- `rules_text_via`: a VIA rule without source and destination is printed as `switch
  via [s] allow` (`switch_ruleset.hpp:141`), where `via` reads as a port when it is
  loaded. `docs/SWITCH_RULESET_V1.md:81` says that `show` remains reloadable.
  `ExportReloadsElse` checks the same property for all other rules; it holds.

## Not modelled

`PROJECT.json` lists every part with its reason. Left out as a whole: frame and
packet codecs, cryptography, option parsing, statistics, the contents of host
information, the gatekeeper (one request, one answer, no state), privileges, the
control tools, the Python fabric, scripts, benchmarks and the experimental
threaded switch. They keep no protocol state or are not part of the system.
Accept pacing (`switch_admission.hpp`, `accept_backoff.hpp`) keeps a timer that no
other part reads.

What the modelled parts leave out, and what a reader should know:

- *Session.* Codec and key bytes. `replay.hpp`'s `SequenceGenerator` belongs to older
  packet versions.
- *Access.* Restart of the listener, CONFIG ids. Overwriting `auth_job_` waits for
  the old future in the code and is immediate here. `AllServed` does not cover a
  client that rekeys while it waits for its result (`tunnel.hpp:581`,
  `docs/PROTOCOL_V5.md:51`). A worker may exit at any time, also under its client
  (60 s without an accepted packet, `tunnel.hpp:307`): that client, for whom
  RELOCATE changed the address for good, sends to the old port until it is started
  again, and a handover whose worker exits before the bind never ends. `GateAgrees`
  and `AllServed` say so: the worker was bound, or has gone.
- *TunnelLoop.* A source whose allocation fails for ever keeps the ones after it
  from being served; failures are bounded (`MaxFailures`).
- *RttProbes.* The rollback of the client's keys when the acknowledgement never
  comes; `NoFalseLoss` is stated for tunnels without access control. Catching up
  sends one probe per turn.
- *Logger.* Formatting of lines. *InfoWorker.* `ready()` of the protocol.
- *TunProvider.* A constructor that fails in `set_mtu()` leaves its descriptor open
  until the process ends (`leaked`). Errors of `waitpid` other than EINTR; a wrong
  MTU is treated like a wrong name.
- *SwitchTransport.* Sizes (EMSGSIZE) and `disable_mmap`. When the word of a slot is at
  its limit, `append()` sets its drop count to 1 and forgets what expired just
  before (`ipc/switch_transport.hpp:185`); the model does so too, and the ledger in
  `TransportSound` excepts that case.
- *WorkerLoop.* A pool without free buffers, which makes a port wait 50 us and wake
  by itself (`switch_mp/runtime.hpp:266`, `:549`; the pool is in `Forwarding`), and
  the pause that `control_send` makes around a control frame (`:886`).
- *Reassembly.* `bad_alloc` and what it undoes (`reassembly.hpp:149`, `:245`).
- *Registration.* VIA permissions, the state `connecting`, ABI versions. ACTIVE and
  the publication of the port (`switch_mp/main.cpp:345`, `:350`) are one step.
- *Planning.* Relay directories and VIA in `make_plan()`, the limit on resolution
  work, set-up of epoll, plans that cannot be built. Workers 1 and 2 are reserved
  for tunnels as in `README_SWITCHING_MP.md`.
- *Relay.* The record layout, and what `update()` asks of the names in a directory
  (configured, accepted, free, of one owner, split; `relay/registry.hpp:22-49`):
  the directories of the model pass. *Via.* Overflow of labels, relayed attachments, the
  older envelope (`divert/switch.hpp`), ECMP at the exit, exhaustion of 32-bit ids.
- *SwitchRules, RulesText.* Spellings of literals, size limits, service blocks.
- *ExitAdapter.* The loop that moves packets, the text of classifier rules; a rule
  is the set of flows it matches.
- *SharedTable, SharedGroup, Learning.* Files of another version or owner, I/O
  errors, the "immediate" mode, the split into shards; a sweep expires any of the
  idle entries, in place of the 64 nodes after its cursor. Between two workers a flow
  can be given back in its middle if one read the clock just before the learning
  time ended (`divert/shared_flows.hpp:312`); `StaysDiverted` is about one adapter.
- *DivertLoop.* The sources of a round are visited in any order (the code rotates).
  Frames that a lost connection had not handed over are in no counter, in the code
  and here. When an allocation fails, the packet in hand, and frames of the client
  it was for that `append()` or `flush()` had taken from their place
  (`ipc/switch_transport.hpp:154`, `:177`), are in no counter either: `Accounted`
  allows these and no more. The slot at its limit (`:185`) is left to
  `SwitchTransport`.
- *RemoteControl.* Expiry and eviction of outgoing results, conflicting bodies,
  `bad_alloc` in `execute`. A request rejected for its command, length or
  permission (`remote_control.hpp:354-358`) is like one that finds the slot busy.
- *ControlAuth.* Proofs cannot be made by others and the transport below delivers
  no frame twice (a repeated challenge would restart the counters,
  `control_auth.hpp:276`). Levels are folded into capabilities; request and result
  are one block; key files are not read.
- *ControlRouting.* Frame sizes, the expiry after 30 s, the limit of 256
  discoveries, rate limits, exclusivity and limits of receivers. Proofs are
  assumed. A route error on any branch ends the whole discovery, as in the code.
- *ControlSocket.* `bad_alloc` while the answer to a remote request is collected. A
  remote request that is abandoned keeps its place in
  `RoutedControl::pending_` until its own deadline.
