----------------------------- MODULE WorkerLoop -----------------------------
(***************************************************************************)
(* The threads of the multi-worker switch (switch_mp/runtime.hpp): the     *)
(* workers' loop with its wake-up protocol, and the barrier at which the   *)
(* controller publishes a plan or stops the engine.  One worker receives   *)
(* from one socket and transmits to one; frames are counted.  Forwarding   *)
(* models what happens to the frames themselves.                           *)
(***************************************************************************)
EXTENDS Naturals, FiniteSets, FiniteSetsExt

CONSTANTS
  Workers,
  Main,           \* the controller thread
  NoOne,
  MaxInput,       \* bound on the frames that arrive
  MaxPublish,     \* bound on the plans published
  MaxFull,        \* bound on the times an output socket fills up
  MaxFaults       \* bound on the failures of epoll

VARIABLES
  loop,        \* of each worker: place in run(), armed pass or not, progress, plan in use
  io,          \* of each worker: rx.ready, tx.blocked, io_fault and what epoll would report
  inbox,       \* frames waiting in each worker's input socket
  queue,       \* frames waiting for each worker's transmit task
  full,        \* the output sockets that accept nothing
  sleeping,    \* Wake::sleeping_
  event,       \* Wake's eventfd is readable
  pausing, stopping, paused,
  mutex,       \* who holds mutex_
  waiting,     \* who waits on condition_ and has not been notified
  main,        \* where the controller is, and the workers it has yet to poke
  version,     \* the plan published last
  used         \* what has been used up of each bound

vars == <<loop, io, inbox, queue, full, sleeping, event, pausing, stopping, paused, mutex,
          waiting, main, version, used>>
engineVars == <<inbox, queue, full, io>>
wakeVars == <<sleeping, event>>
barrierVars == <<pausing, stopping, paused, mutex, waiting, main, version>>

Quiet == [ready |-> FALSE, blocked |-> FALSE, fault |-> FALSE, in |-> FALSE, out |-> FALSE]
Start == [at |-> "check", armed |-> FALSE, progress |-> FALSE, target |-> NoOne, plan |-> 0]

Init ==
  /\ loop = [w \in Workers |-> Start] /\ io = [w \in Workers |-> Quiet]
  /\ inbox = [w \in Workers |-> 0] /\ queue = [w \in Workers |-> 0]
  /\ full = {} /\ sleeping = {} /\ event = {}
  /\ pausing = FALSE /\ stopping = FALSE /\ paused = 0 /\ mutex = NoOne /\ waiting = {}
  /\ main = [at |-> "idle", poke |-> {}] /\ version = 1
  /\ used = [input |-> 0, full |-> 0, faults |-> 0]

At(w, place) == loop[w].at = place
Goto(w, place) == loop' = [loop EXCEPT ![w].at = place]
interrupted == pausing \/ stopping
Spend(what, bound) == used[what] < bound /\ used' = [used EXCEPT ![what] = @ + 1]
-----------------------------------------------------------------------------
(* checkpoint(): the barrier as the worker sees it.                        *)

CheckPausing(w) ==
  /\ At(w, "check")
  /\ Goto(w, IF pausing THEN "lock" ELSE "leave")
  /\ UNCHANGED <<engineVars, wakeVars, barrierVars, used>>

(* ++paused_, notify_all, and wait unless the engine stops already.        *)
Park(w) ==
  /\ At(w, "lock") /\ mutex = NoOne
  /\ IF pausing
       THEN /\ paused' = paused + 1 /\ waiting' = IF stopping THEN {} ELSE {w}
            /\ Goto(w, "parked")
       ELSE Goto(w, "leave") /\ UNCHANGED <<paused, waiting>>
  /\ UNCHANGED <<engineVars, wakeVars, pausing, stopping, mutex, main, version, used>>

Unpark(w) ==
  /\ At(w, "parked") /\ w \notin waiting /\ mutex = NoOne
  /\ IF ~ pausing \/ stopping
       THEN paused' = paused - 1 /\ waiting' = {} /\ Goto(w, "leave")
       ELSE waiting' = waiting \cup {w} /\ UNCHANGED <<paused, loop>>
  /\ UNCHANGED <<engineVars, wakeVars, pausing, stopping, mutex, main, version, used>>

(* Back in run(): stop, or take the current plan.  A fresh plan has a new  *)
(* epoll instance, which reports whatever is ready, and is asked at once.  *)
TakePlan(w) ==
  /\ At(w, "leave")
  /\ loop' = [loop EXCEPT ![w] = IF stopping THEN [Start EXCEPT !.at = "done"]
                                 ELSE [Start EXCEPT !.at = "transmit", !.plan = version]]
  /\ IF stopping \/ loop[w].plan = version
       THEN UNCHANGED <<io, event>>
       ELSE /\ io' = [io EXCEPT ![w] = [Quiet EXCEPT !.ready = inbox[w] > 0]]
            /\ event' = event \ {w}
  /\ UNCHANGED <<inbox, queue, full, sleeping, barrierVars, used>>
-----------------------------------------------------------------------------
(* pass(): the transmit job and the receive job, each skipped once the     *)
(* controller calls.                                                       *)

Transmit(w) ==
  /\ At(w, "transmit")
  /\ \/ /\ interrupted \/ io[w].blocked \/ queue[w] = 0
        /\ Goto(w, "receive") /\ UNCHANGED queue
     \/ /\ ~ interrupted /\ ~ io[w].blocked /\ queue[w] > 0 /\ w \notin full
        /\ queue' = [queue EXCEPT ![w] = @ - 1]
        /\ loop' = [loop EXCEPT ![w].at = "receive", ![w].progress = TRUE]
     \/ /\ ~ interrupted /\ ~ io[w].blocked /\ queue[w] > 0 /\ w \in full
        /\ Goto(w, "interest") /\ UNCHANGED queue
  /\ UNCHANGED <<io, inbox, full, wakeVars, barrierVars, used>>

(* set_output_interest(TRUE) after EAGAIN: epoll reports the socket if it  *)
(* became writable in between.  The call may fail.                         *)
OutputInterest(w) ==
  /\ At(w, "interest")
  /\ Goto(w, "receive")
  /\ \/ io' = [io EXCEPT ![w].blocked = TRUE, ![w].out = w \notin full] /\ UNCHANGED used
     \/ io' = [io EXCEPT ![w].fault = TRUE] /\ Spend("faults", MaxFaults)
  /\ UNCHANGED <<inbox, queue, full, wakeVars, barrierVars>>

(* receive(): a frame goes to some worker's queue; its owner is told, if   *)
(* it is another.                                                          *)
Queued(w, target) ==
  /\ queue' = [queue EXCEPT ![target] = @ + 1]
  /\ loop' = [loop EXCEPT ![w].at = IF target = w THEN "passed" ELSE "notify",
                          ![w].progress = TRUE, ![w].target = target]

ReceiveFrame(w) ==
  /\ \E target \in Workers : Queued(w, target)
  /\ inbox' = [inbox EXCEPT ![w] = @ - 1]
  /\ UNCHANGED io

Receive(w) ==
  /\ At(w, "receive")
  /\ \/ /\ interrupted \/ ~ io[w].ready
        /\ Goto(w, "passed") /\ UNCHANGED <<io, inbox, queue>>
     \/ /\ ~ interrupted /\ io[w].ready /\ inbox[w] = 0
        /\ Goto(w, "passed")
        /\ io' = [io EXCEPT ![w].ready = FALSE] /\ UNCHANGED <<inbox, queue>>
     \/ /\ ~ interrupted /\ io[w].ready /\ inbox[w] > 0
        /\ ReceiveFrame(w)
  /\ UNCHANGED <<full, wakeVars, barrierVars, used>>

(* Wake::notify(): clear the flag, and write the eventfd if it was set.    *)
Notify(w) ==
  /\ At(w, "notify")
  /\ sleeping' = sleeping \ {loop[w].target}
  /\ Goto(w, IF loop[w].target \in sleeping THEN "poke" ELSE "passed")
  /\ UNCHANGED <<engineVars, event, barrierVars, used>>

Poke(w) ==
  /\ At(w, "poke")
  /\ event' = event \cup {loop[w].target}
  /\ Goto(w, "passed")
  /\ UNCHANGED <<engineVars, sleeping, barrierVars, used>>

(* poll_recovery() and collect_events(): what epoll reports becomes the    *)
(* readiness of the tasks.  Clearing the interest in output may fail.      *)
Reported(e, failed) ==
  IF e.fault THEN [Quiet EXCEPT !.ready = TRUE, !.fault = failed]
             ELSE [e EXCEPT !.ready = e.ready \/ e.in, !.in = FALSE,
                            !.blocked = e.blocked /\ ~ e.out, !.out = FALSE, !.fault = failed]

Collected(w) ==
  /\ \E failed \in BOOLEAN :
       /\ IF failed THEN (io[w].fault \/ io[w].out) /\ Spend("faults", MaxFaults)
                    ELSE UNCHANGED used
       /\ io' = [io EXCEPT ![w] = Reported(io[w], failed)]
  /\ event' = event \ {w}

(* The end of a pass: go round again after progress, having asked epoll    *)
(* after 32 jobs or a fault; otherwise arm and look a second time; after   *)
(* that sleep.                                                             *)
Passed(w) ==
  /\ At(w, "passed")
  /\ \/ /\ ~ loop[w].armed /\ interrupted
        /\ Goto(w, "check") /\ UNCHANGED <<wakeVars, io, used>>
     \/ /\ ~ loop[w].armed /\ ~ interrupted
        /\ \/ Collected(w)
           \/ ~ io[w].fault /\ UNCHANGED <<io, event, used>>
        /\ IF loop[w].progress
             THEN Goto(w, "check") /\ UNCHANGED sleeping
             ELSE /\ sleeping' = sleeping \cup {w}
                  /\ loop' = [loop EXCEPT ![w].at = "transmit", ![w].armed = TRUE]
     \/ /\ loop[w].armed
        /\ Goto(w, IF loop[w].progress \/ interrupted THEN "cancel" ELSE "sleep")
        /\ UNCHANGED <<wakeVars, io, used>>
  /\ UNCHANGED <<inbox, queue, full, barrierVars>>

Sleep(w) ==
  /\ At(w, "sleep")
  /\ w \in event \/ io[w].in \/ io[w].out \/ io[w].fault
  /\ Collected(w)
  /\ Goto(w, "cancel")
  /\ UNCHANGED <<inbox, queue, full, sleeping, barrierVars>>

Cancel(w) ==
  /\ At(w, "cancel")
  /\ sleeping' = sleeping \ {w}
  /\ Goto(w, "check")
  /\ UNCHANGED <<engineVars, event, barrierVars, used>>
-----------------------------------------------------------------------------
(* pause(), publish(), resume(), stop().                                   *)

PauseBegins ==
  /\ main.at = "idle" /\ mutex = NoOne /\ version <= MaxPublish
  /\ mutex' = Main /\ pausing' = TRUE
  /\ main' = [at |-> "poking", poke |-> Workers]
  /\ UNCHANGED <<loop, engineVars, wakeVars, stopping, paused, waiting, version, used>>

(* Variant: the flag is set, and the eventfd is not written.               *)
MainPokesUnheard(w) ==
  /\ w \in main.poke
  /\ main' = [main EXCEPT !.poke = @ \ {w}]
  /\ UNCHANGED <<loop, engineVars, wakeVars, pausing, stopping, paused, mutex, waiting,
                 version, used>>

MainPokes(w) ==
  /\ w \in main.poke
  /\ event' = event \cup {w}
  /\ main' = [main EXCEPT !.poke = @ \ {w}]
  /\ UNCHANGED <<loop, engineVars, sleeping, pausing, stopping, paused, mutex, waiting,
                 version, used>>

(* condition_.wait(lock, count reached): first with the mutex held, then   *)
(* after each notification.                                                *)
MainWaits(from, to, reached) ==
  \/ /\ main.at = from /\ main.poke = {} /\ mutex = Main
     /\ mutex' = NoOne
     /\ IF reached THEN main' = [main EXCEPT !.at = to] /\ UNCHANGED waiting
                   ELSE waiting' = waiting \cup {Main} /\ UNCHANGED main
     /\ UNCHANGED <<loop, engineVars, wakeVars, pausing, stopping, paused, version, used>>
  \/ /\ main.at = from /\ main.poke = {} /\ mutex = NoOne /\ Main \notin waiting
     /\ mutex' = Main
     /\ UNCHANGED <<loop, engineVars, wakeVars, pausing, stopping, paused, waiting, main,
                    version, used>>

(* Variants: one worker may be missing; nobody is waited for.              *)
PauseWaitsShort == MainWaits("poking", "publish", paused + 1 >= Cardinality(Workers))

PauseWaits == MainWaits("poking", "publish", paused = Cardinality(Workers))
ResumeWaits == MainWaits("resuming", "idle", paused = 0)

Total(counts) == MapThenSumSet(LAMBDA w : counts[w], Workers)

(* plan_.swap(next): the queues stay and may change owners.                *)
Publish ==
  /\ main.at = "publish"
  /\ version' = version + 1
  /\ queue' \in {q \in [Workers -> 0 .. MaxInput] : Total(q) = Total(queue)}
  /\ main' = [main EXCEPT !.at = "published"]
  /\ UNCHANGED <<loop, io, inbox, full, wakeVars, pausing, stopping, paused, mutex, waiting, used>>

ResumeBegins ==
  /\ main.at = "published" /\ mutex = NoOne
  /\ mutex' = Main /\ pausing' = FALSE /\ waiting' = {}
  /\ main' = [main EXCEPT !.at = "resuming"]
  /\ UNCHANGED <<loop, engineVars, wakeVars, stopping, paused, version, used>>

(* stop(): called when no barrier is open; the notification needs no lock. *)
Stop ==
  /\ main.at = "idle" /\ ~ stopping
  /\ stopping' = TRUE /\ waiting' = {}
  /\ main' = [at |-> "joining", poke |-> Workers]
  /\ UNCHANGED <<loop, engineVars, wakeVars, pausing, paused, mutex, version, used>>
-----------------------------------------------------------------------------
(* The sockets.  epoll is edge triggered.                                  *)

Arrive(w) ==
  /\ Spend("input", MaxInput)
  /\ inbox' = [inbox EXCEPT ![w] = @ + 1]
  /\ io' = [io EXCEPT ![w].in = TRUE]
  /\ UNCHANGED <<loop, queue, full, wakeVars, barrierVars>>

Fill(w) ==
  /\ w \notin full /\ Spend("full", MaxFull)
  /\ full' = full \cup {w}
  /\ UNCHANGED <<loop, io, inbox, queue, wakeVars, barrierVars>>

Drain(w) ==
  /\ w \in full
  /\ full' = full \ {w}
  /\ io' = [io EXCEPT ![w].out = @ \/ io[w].blocked]
  /\ UNCHANGED <<loop, inbox, queue, wakeVars, barrierVars, used>>

Work(w) ==
  \/ CheckPausing(w) \/ Park(w) \/ Unpark(w) \/ TakePlan(w)
  \/ Transmit(w) \/ OutputInterest(w) \/ Receive(w) \/ Notify(w) \/ Poke(w)
  \/ Passed(w) \/ Sleep(w) \/ Cancel(w)

Control ==
  \/ \E w \in Workers : MainPokes(w)
  \/ PauseWaits \/ ResumeWaits \/ Publish \/ ResumeBegins

Next ==
  \/ \E w \in Workers : Work(w) \/ Arrive(w) \/ Fill(w) \/ Drain(w)
  \/ Control \/ PauseBegins \/ Stop

Spec == Init /\ [][Next]_vars

-----------------------------------------------------------------------------
Places == {"check", "lock", "parked", "leave", "transmit", "interest", "receive", "notify",
           "poke", "passed", "sleep", "cancel", "done"}
Turn == [at : Places, armed : BOOLEAN, progress : BOOLEAN, target : Workers \cup {NoOne},
         plan : Nat]
Events == [ready : BOOLEAN, blocked : BOOLEAN, fault : BOOLEAN, in : BOOLEAN, out : BOOLEAN]

TypeOK ==
  /\ loop \in [Workers -> Turn] /\ io \in [Workers -> Events]
  /\ inbox \in [Workers -> Nat] /\ queue \in [Workers -> Nat]
  /\ sleeping \subseteq Workers /\ event \subseteq Workers
  /\ pausing \in BOOLEAN /\ stopping \in BOOLEAN /\ paused \in Nat /\ version \in Nat
  /\ main \in [at : {"idle", "poking", "publish", "published", "resuming", "joining"},
               poke : SUBSET Workers]

Inside == {"transmit", "interest", "receive", "notify", "poke", "passed", "sleep", "cancel"}

(* publish() swaps the plan and frees the old one, its ports and their     *)
(* buffers (runtime.hpp:962-963): no worker inside its loop body holds a   *)
(* reference to a plan that is not the current one.                        *)
PlanInUse == \A w \in Workers : loop[w].at \in Inside => loop[w].plan = version

(* paused_ counts the workers inside the barrier, so that a barrier is     *)
(* never complete with a worker outside (runtime.hpp:227-232), and the     *)
(* next one begins only when all have left the last (:250).                *)
BarrierCounts ==
  /\ paused = Cardinality({w \in Workers : At(w, "parked")})
  /\ main.at = "idle" => paused = 0

(* A worker never sleeps on a frame it could send: its eventfd is          *)
(* readable, or the worker that queued the frame is about to write it      *)
(* (runtime.hpp:637-640 against :430-432).                                 *)
NoLostWake ==
  \A w \in Workers :
    At(w, "sleep") /\ queue[w] > 0 /\ ~ io[w].blocked =>
      \/ w \in event \/ io[w].in \/ io[w].fault
      \/ \E v \in Workers : loop[v].target = w /\ loop[v].at \in {"notify", "poke"}

(* All three: plans, barriers and wake-ups.                                *)
BarrierSound == PlanInUse /\ BarrierCounts /\ NoLostWake
-----------------------------------------------------------------------------
=============================================================================
