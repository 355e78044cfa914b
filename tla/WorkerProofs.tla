----------------------------- MODULE WorkerProofs -----------------------------
(***************************************************************************)
(* BarrierSound of WorkerLoop for every finite set of workers: the plans,  *)
(* barriers and wake-ups of the multi-worker switch (switch_mp/runtime.hpp)*)
(***************************************************************************)
EXTENDS WorkerLoop, FiniteSetTheorems, TLAPS

(* What the proofs ask of the constants.                                   *)
Instance == IsFiniteSet(Workers) /\ MaxInput \in Nat

Parked == {w \in Workers : At(w, "parked")}

(* The controller's place tells whether a barrier is open and complete.    *)
BarrierInv ==
  /\ paused = Cardinality(Parked)
  /\ pausing <=> main.at \in {"poking", "publish", "published"}
  /\ stopping => main.at = "joining"
  /\ main.at \in {"publish", "published"} => Parked = Workers
  /\ main.at = "idle" => paused = 0
  /\ PlanInUse

(* A worker that has armed its wake-up looks once more and sleeps.  Past   *)
(* that look a frame for it is followed by a notification.                 *)
Looked == {"receive", "notify", "poke", "passed", "sleep"}
Arming(w) == loop[w].armed /\ loop[w].at \in Looked \cup {"transmit", "interest"}
Poked(w) == \E v \in Workers : loop[v].target = w /\ At(v, "poke")
Told(w) == \E v \in Workers : loop[v].target = w /\ loop[v].at \in {"notify", "poke"}
HasWork(w) == queue[w] > 0 /\ ~ io[w].blocked

Wake(w) ==
  /\ loop[w].at \in {"notify", "poke"} => loop[w].target \in Workers
  /\ At(w, "sleep") => loop[w].armed /\ ~ loop[w].progress
  /\ Arming(w) /\ w \notin sleeping => w \in event \/ Poked(w)
  /\ Arming(w) /\ loop[w].at \in Looked /\ ~ loop[w].progress /\ HasWork(w)
     => \/ w \in event \/ io[w].in \/ io[w].fault \/ Told(w)
        \/ interrupted /\ ~ At(w, "sleep")

WakeInv == \A w \in Workers : Wake(w)

WorkerInv == TypeOK /\ BarrierInv /\ WakeInv
-----------------------------------------------------------------------------
(* What a step does to the record of the worker that takes it.             *)
Moves(w, turn) ==
  /\ loop' \in [Workers -> Turn] /\ loop'[w] = turn
  /\ \A v \in Workers : v # w => loop'[v] = loop[v]

LEMMA Moving ==
  ASSUME TypeOK, NEW w \in Workers, NEW turn \in Turn, loop' = [loop EXCEPT ![w] = turn]
  PROVE  Moves(w, turn)
BY DEF TypeOK, Moves

LEMMA Going ==
  ASSUME TypeOK, NEW w \in Workers, NEW place \in Places, Goto(w, place)
  PROVE  Moves(w, [loop[w] EXCEPT !.at = place])
<1>1. loop[w] \in Turn
  BY DEF TypeOK
<1>2. [loop[w] EXCEPT !.at = place] \in Turn
  BY <1>1 DEF Turn
<1>3. loop' = [loop EXCEPT ![w] = [loop[w] EXCEPT !.at = place]]
  BY DEF Goto
<1> QED
  BY <1>2, <1>3, Moving

(* The worker that moves, in its own terms.                                *)
Place(w, place) ==
  /\ loop' \in [Workers -> Turn]
  /\ \A v \in Workers : v # w => loop'[v] = loop[v]
  /\ loop'[w].at = place
Same(w) ==
  /\ loop'[w].armed <=> loop[w].armed
  /\ loop'[w].progress <=> loop[w].progress
  /\ loop'[w].target = loop[w].target
  /\ loop'[w].plan = loop[w].plan

LEMMA GoingPlace ==
  ASSUME TypeOK, NEW w \in Workers, NEW place \in Places, Goto(w, place)
  PROVE  Place(w, place) /\ Same(w)
<1>1. loop[w] \in Turn
  BY DEF TypeOK
<1>2. Moves(w, [loop[w] EXCEPT !.at = place])
  BY Going
<1> QED
  BY <1>1, <1>2 DEF Moves, Place, Same, Turn

(* Goto with something else in the same record.                            *)
LEMMA Progressing ==
  ASSUME TypeOK, NEW w \in Workers, NEW place \in Places,
         loop' = [loop EXCEPT ![w].at = place, ![w].progress = TRUE]
  PROVE  /\ Place(w, place) /\ loop'[w].progress
         /\ loop'[w].armed <=> loop[w].armed
         /\ loop'[w].target = loop[w].target /\ loop'[w].plan = loop[w].plan
<1> DEFINE turn == [loop[w] EXCEPT !.at = place, !.progress = TRUE]
<1>1. loop[w] \in Turn
  BY DEF TypeOK
<1>2. turn \in Turn
  BY <1>1 DEF Turn
<1>3. loop' = [loop EXCEPT ![w] = turn]
  BY DEF TypeOK
<1>4. Moves(w, turn)
  BY <1>2, <1>3, Moving
<1> QED
  BY <1>1, <1>4 DEF Moves, Place, Turn

LEMMA Queuing ==
  ASSUME TypeOK, NEW w \in Workers, NEW target \in Workers, Queued(w, target)
  PROVE  /\ Place(w, IF target = w THEN "passed" ELSE "notify") /\ loop'[w].progress
         /\ loop'[w].armed <=> loop[w].armed
         /\ loop'[w].target = target /\ loop'[w].plan = loop[w].plan
         /\ queue' \in [Workers -> Nat]
         /\ \A v \in Workers : v # target => queue'[v] = queue[v]
<1> DEFINE place == IF target = w THEN "passed" ELSE "notify"
           turn == [loop[w] EXCEPT !.at = place, !.progress = TRUE, !.target = target]
<1>1. loop[w] \in Turn
  BY DEF TypeOK
<1>2. turn \in Turn
  BY <1>1 DEF Turn, Places
<1>3. loop' = [loop EXCEPT ![w] = turn]
  BY DEF Queued, TypeOK
<1>4. Moves(w, turn)
  BY <1>2, <1>3, Moving
<1>5. /\ queue' \in [Workers -> Nat]
      /\ \A v \in Workers : v # target => queue'[v] = queue[v]
  BY DEF Queued, TypeOK
<1> QED
  BY <1>1, <1>4, <1>5 DEF Moves, Place, Turn

LEMMA ArmingAgain ==
  ASSUME TypeOK, NEW w \in Workers,
         loop' = [loop EXCEPT ![w].at = "transmit", ![w].armed = TRUE]
  PROVE  /\ Place(w, "transmit") /\ loop'[w].armed
         /\ loop'[w].progress <=> loop[w].progress
         /\ loop'[w].target = loop[w].target /\ loop'[w].plan = loop[w].plan
<1> DEFINE turn == [loop[w] EXCEPT !.at = "transmit", !.armed = TRUE]
<1>1. loop[w] \in Turn
  BY DEF TypeOK
<1>2. turn \in Turn
  BY <1>1 DEF Turn, Places
<1>3. loop' = [loop EXCEPT ![w] = turn]
  BY DEF TypeOK
<1>4. Moves(w, turn)
  BY <1>2, <1>3, Moving
<1> QED
  BY <1>1, <1>4 DEF Moves, Place, Turn

LEMMA TakingPlan ==
  ASSUME TypeOK, NEW w \in Workers, TakePlan(w)
  PROVE  /\ Place(w, IF stopping THEN "done" ELSE "transmit") /\ ~ loop'[w].armed
         /\ ~ stopping => loop'[w].plan = version
<1> DEFINE turn == IF stopping THEN [Start EXCEPT !.at = "done"]
                               ELSE [Start EXCEPT !.at = "transmit", !.plan = version]
<1>2. turn \in Turn
  BY DEF Turn, Places, Start, TypeOK
<1>3. loop' = [loop EXCEPT ![w] = turn]
  BY DEF TakePlan
<1>4. Moves(w, turn)
  BY <1>2, <1>3, Moving
<1> QED
  BY <1>4 DEF Moves, Place, Start

(* What epoll reported to a worker changes its own record only.            *)
OwnEvents(w) ==
  /\ io' \in [Workers -> Events]
  /\ \A v \in Workers : v # w => io'[v] = io[v]

LEMMA Collecting ==
  ASSUME TypeOK, NEW w \in Workers, Collected(w)
  PROVE  OwnEvents(w) /\ event' = event \ {w}
<1>1. PICK failed \in BOOLEAN : io' = [io EXCEPT ![w] = Reported(io[w], failed)]
  BY DEF Collected
<1>2. io[w] \in Events
  BY DEF TypeOK
<1>3. Reported(io[w], failed) \in Events
  BY <1>2 DEF Reported, Events, Quiet
<1> QED
  BY <1>1, <1>3 DEF OwnEvents, TypeOK, Collected

LEMMA TypeInit ==
  ASSUME Init
  PROVE  TypeOK
BY DEF Init, TypeOK, Start, Quiet, Places, Turn, Events

(* The types of the other variables, when a worker moves.                  *)
RestOK ==
  /\ inbox \in [Workers -> Nat] /\ queue \in [Workers -> Nat]
  /\ sleeping \subseteq Workers /\ event \subseteq Workers
  /\ pausing \in BOOLEAN /\ stopping \in BOOLEAN /\ paused \in Nat /\ version \in Nat
  /\ main \in [at : {"idle", "poking", "publish", "published", "resuming", "joining"},
               poke : SUBSET Workers]

LEMMA WorkType ==
  ASSUME Instance, TypeOK, BarrierInv, WakeInv, NEW w \in Workers, Work(w)
  PROVE  TypeOK'
<1> USE DEF engineVars, wakeVars, barrierVars
<1> SUFFICES /\ loop' \in [Workers -> Turn] /\ io' \in [Workers -> Events]
             /\ RestOK'
  BY DEF TypeOK, RestOK
<1>0. loop[w] \in Turn /\ io[w] \in Events /\ RestOK
  BY DEF TypeOK, RestOK
<1>1. CASE CheckPausing(w)
  BY <1>1, <1>0, GoingPlace DEF CheckPausing, Place, TypeOK, RestOK, Places
<1>2. CASE Park(w)
  BY <1>2, <1>0, GoingPlace DEF Park, Place, TypeOK, RestOK, Places
<1>3. CASE Unpark(w)
  <2>1. Parked # {} /\ IsFiniteSet(Parked)
    BY <1>3, FS_Subset DEF Unpark, Parked, Instance
  <2>2. paused \in Nat \ {0}
    BY <2>1, FS_EmptySet, FS_CardinalityType DEF BarrierInv
  <2> QED
    BY <1>3, <1>0, <2>2, GoingPlace DEF Unpark, Place, TypeOK, RestOK, Places
<1>4. CASE TakePlan(w)
  <2>1. \A r \in BOOLEAN : [Quiet EXCEPT !.ready = r] \in Events
    BY DEF Quiet, Events
  <2>2. io' \in [Workers -> Events]
    BY <1>4, <2>1, (inbox[w] > 0) \in BOOLEAN DEF TakePlan, TypeOK
  <2> QED
    BY <1>4, <1>0, <2>2, TakingPlan DEF TakePlan, Place, RestOK
<1>5. CASE Transmit(w)
  <2>1. loop' \in [Workers -> Turn]
    BY <1>5, GoingPlace, Progressing DEF Transmit, Place, Places
  <2>2. queue' \in [Workers -> Nat]
    BY <1>5, <1>0 DEF Transmit, RestOK
  <2> QED
    BY <1>5, <1>0, <2>1, <2>2 DEF Transmit, TypeOK, RestOK
<1>6. CASE OutputInterest(w)
  <2>1. [io[w] EXCEPT !.blocked = TRUE, !.out = w \notin full] \in Events
        /\ [io[w] EXCEPT !.fault = TRUE] \in Events
    BY <1>0 DEF Events
  <2>2. \/ io' = [io EXCEPT ![w] = [io[w] EXCEPT !.blocked = TRUE, !.out = w \notin full]]
        \/ io' = [io EXCEPT ![w] = [io[w] EXCEPT !.fault = TRUE]]
    BY <1>6 DEF OutputInterest, TypeOK
  <2>3. io' \in [Workers -> Events]
    BY <2>1, <2>2 DEF TypeOK
  <2> QED
    BY <1>6, <1>0, <2>3, GoingPlace DEF OutputInterest, Place, RestOK, Places
<1>7. CASE Receive(w)
  <2>1. CASE Goto(w, "passed") /\ UNCHANGED <<io, inbox, queue>>
    BY <1>7, <2>1, <1>0, GoingPlace DEF Receive, Place, TypeOK, RestOK, Places
  <2>2. CASE /\ Goto(w, "passed")
             /\ io' = [io EXCEPT ![w].ready = FALSE] /\ UNCHANGED <<inbox, queue>>
    <3>1. [io[w] EXCEPT !.ready = FALSE] \in Events
      BY <1>0 DEF Events
    <3>2. io' \in [Workers -> Events]
      BY <2>2, <3>1 DEF TypeOK
    <3> QED
      BY <1>7, <2>2, <1>0, <3>2, GoingPlace DEF Receive, Place, RestOK, Places
  <2>3. CASE inbox[w] > 0 /\ ReceiveFrame(w)
    <3>1. PICK target \in Workers : Queued(w, target)
      BY <2>3 DEF ReceiveFrame
    <3>2. inbox' \in [Workers -> Nat]
      BY <2>3, <1>0 DEF ReceiveFrame, RestOK
    <3> QED
      BY <1>7, <2>3, <1>0, <3>1, <3>2, Queuing DEF Receive, ReceiveFrame, Place, TypeOK, RestOK
  <2> QED
    BY <1>7, <2>1, <2>2, <2>3 DEF Receive
<1>8. CASE Notify(w)
  BY <1>8, <1>0, GoingPlace DEF Notify, Place, TypeOK, RestOK, Places
<1>9. CASE Poke(w)
  <2>1. loop[w].target \in Workers
    BY <1>9 DEF Poke, At, WakeInv, Wake
  <2> QED
    BY <1>9, <1>0, <2>1, GoingPlace DEF Poke, Place, TypeOK, RestOK, Places
<1>10. CASE Passed(w)
  <2>1. loop' \in [Workers -> Turn]
    BY <1>10, GoingPlace, ArmingAgain DEF Passed, Place, Places
  <2>2. io' \in [Workers -> Events] /\ event' \subseteq event
    BY <1>10, Collecting DEF Passed, OwnEvents, TypeOK
  <2>3. sleeping' \subseteq Workers
    BY <1>10, <1>0 DEF Passed, RestOK
  <2> QED
    BY <1>10, <1>0, <2>1, <2>2, <2>3 DEF Passed, RestOK
<1>11. CASE Sleep(w)
  BY <1>11, <1>0, GoingPlace, Collecting DEF Sleep, Place, OwnEvents, RestOK, Places
<1>12. CASE Cancel(w)
  BY <1>12, <1>0, GoingPlace DEF Cancel, Place, TypeOK, RestOK, Places
<1> QED
  BY <1>1, <1>2, <1>3, <1>4, <1>5, <1>6, <1>7, <1>8, <1>9, <1>10, <1>11, <1>12 DEF Work

LEMMA OtherType ==
  ASSUME Instance, TypeOK,
         \/ \E w \in Workers : Arrive(w) \/ Fill(w) \/ Drain(w)
         \/ Control \/ PauseBegins \/ Stop \/ UNCHANGED vars
  PROVE  TypeOK'
<1> USE DEF engineVars, wakeVars, barrierVars
<1>1. ASSUME NEW w \in Workers, Arrive(w) PROVE TypeOK'
  <2>0. io[w] \in Events
    BY DEF TypeOK
  <2>1. [io[w] EXCEPT !.in = TRUE] \in Events
    BY <2>0 DEF Events
  <2>2. io' = [io EXCEPT ![w] = [io[w] EXCEPT !.in = TRUE]]
    BY <1>1 DEF Arrive, TypeOK
  <2> QED
    BY <1>1, <2>1, <2>2 DEF Arrive, TypeOK
<1>2. ASSUME NEW w \in Workers, Fill(w) PROVE TypeOK'
  BY <1>2 DEF Fill, TypeOK
<1>3. ASSUME NEW w \in Workers, Drain(w) PROVE TypeOK'
  <2>0. io[w] \in Events
    BY DEF TypeOK
  <2>1. [io[w] EXCEPT !.out = @ \/ io[w].blocked] \in Events
    BY <2>0 DEF Events
  <2>2. io' = [io EXCEPT ![w] = [io[w] EXCEPT !.out = @ \/ io[w].blocked]]
    BY <1>3 DEF Drain, TypeOK
  <2> QED
    BY <1>3, <2>1, <2>2 DEF Drain, TypeOK
<1>4. ASSUME NEW w \in Workers, MainPokes(w) PROVE TypeOK'
  BY <1>4 DEF MainPokes, TypeOK
<1>5. CASE PauseWaits \/ ResumeWaits
  BY <1>5 DEF PauseWaits, ResumeWaits, MainWaits, TypeOK
<1>6. CASE Publish
  BY <1>6 DEF Publish, TypeOK, Instance
<1>7. CASE ResumeBegins
  BY <1>7 DEF ResumeBegins, TypeOK
<1>9. CASE PauseBegins
  BY <1>9 DEF PauseBegins, TypeOK
<1>10. CASE Stop
  BY <1>10 DEF Stop, TypeOK
<1>8. CASE UNCHANGED vars
  BY <1>8 DEF vars, TypeOK
<1> QED
  BY <1>1, <1>2, <1>3, <1>4, <1>5, <1>6, <1>7, <1>8, <1>9, <1>10 DEF Control
-----------------------------------------------------------------------------
(* The barrier.                                                            *)

LEMMA FiniteParked ==
  ASSUME Instance
  PROVE  /\ IsFiniteSet(Parked) /\ Cardinality(Parked) \in Nat
         /\ Cardinality(Parked) = Cardinality(Workers) => Parked = Workers
         /\ Cardinality(Parked) = 0 <=> Parked = {}
BY FS_Subset, FS_CardinalityType, FS_EmptySet DEF Instance, Parked

(* A worker that is outside the barrier and stays there.                   *)
LEMMA OutsideStep ==
  ASSUME BarrierInv, NEW w \in Workers, NEW place \in Places \ {"parked"}, Place(w, place),
         ~ At(w, "parked"), UNCHANGED <<pausing, stopping, paused, main, version>>,
         place \in Inside => loop'[w].plan = version
  PROVE  BarrierInv'
<1>1. Parked' = Parked
  BY DEF Parked, Place, At
<1>2. PlanInUse'
  BY DEF PlanInUse, BarrierInv, Place
<1> QED
  BY <1>1, <1>2 DEF BarrierInv

LEMMA WorkBarrier ==
  ASSUME Instance, TypeOK, BarrierInv, NEW w \in Workers, Work(w)
  PROVE  BarrierInv'
<1> USE DEF barrierVars
<1>0. loop[w].at \in Inside => loop[w].plan = version
  BY DEF BarrierInv, PlanInUse
<1>1. CASE CheckPausing(w)
  BY <1>1, GoingPlace, OutsideStep DEF CheckPausing, Places, Inside, At
<1>2. CASE Park(w)
  <2>1. CASE ~ pausing
    BY <1>2, <2>1, GoingPlace, OutsideStep DEF Park, Places, Inside, At
  <2>2. CASE pausing
    <3>1. Place(w, "parked")
      BY <1>2, <2>2, GoingPlace DEF Park, Places
    <3>2. Parked' = Parked \cup {w} /\ w \notin Parked
      BY <1>2, <3>1 DEF Place, Parked, Park, At
    <3>3. Cardinality(Parked') = Cardinality(Parked) + 1
      BY <3>2, FiniteParked, FS_AddElement
    <3>4. PlanInUse'
      BY <1>2, <3>1 DEF BarrierInv, PlanInUse, Place, Inside, Park
    <3> QED
      BY <1>2, <2>2, <3>2, <3>3, <3>4 DEF BarrierInv, Park
  <2> QED
    BY <2>1, <2>2
<1>3. CASE Unpark(w)
  <2>1. CASE pausing /\ ~ stopping
    BY <1>3, <2>1 DEF Unpark, BarrierInv, Parked, At, PlanInUse
  <2>2. CASE ~ pausing \/ stopping
    <3>1. Place(w, "leave")
      BY <1>3, <2>2, GoingPlace DEF Unpark, Places
    <3>2. Parked' = Parked \ {w} /\ w \in Parked
      BY <1>3, <3>1 DEF Place, Parked, Unpark, At
    <3>3. Cardinality(Parked') = Cardinality(Parked) - 1
      BY <3>2, FiniteParked, FS_RemoveElement
    <3>4. PlanInUse'
      BY <1>3, <3>1 DEF BarrierInv, PlanInUse, Place, Inside, Unpark
    <3>5. paused # 0
      BY <3>2, FiniteParked DEF BarrierInv
    <3> QED
      BY <1>3, <2>2, <3>2, <3>3, <3>4, <3>5 DEF BarrierInv, Unpark
  <2> QED
    BY <2>1, <2>2
<1>4. CASE TakePlan(w)
  BY <1>4, TakingPlan, OutsideStep DEF TakePlan, Places, Inside, At
<1>5. CASE Transmit(w)
  BY <1>5, <1>0, GoingPlace, Progressing, OutsideStep DEF Transmit, Places, Inside, At, Same
<1>6. CASE OutputInterest(w)
  BY <1>6, <1>0, GoingPlace, OutsideStep DEF OutputInterest, Places, Inside, At, Same
<1>7. CASE Receive(w)
  <2>1. CASE Goto(w, "passed")
    BY <1>7, <2>1, <1>0, GoingPlace, OutsideStep DEF Receive, Places, Inside, At, Same
  <2>2. CASE ReceiveFrame(w)
    <3>1. PICK target \in Workers : Queued(w, target)
      BY <2>2 DEF ReceiveFrame
    <3> QED
      BY <1>7, <3>1, <1>0, Queuing, OutsideStep DEF Receive, Places, Inside, At
  <2> QED
    BY <1>7, <2>1, <2>2 DEF Receive
<1>8. CASE Notify(w) \/ Poke(w) \/ Cancel(w)
  BY <1>8, <1>0, GoingPlace, OutsideStep DEF Notify, Poke, Cancel, Places, Inside, At, Same
<1>9. CASE Passed(w)
  BY <1>9, <1>0, GoingPlace, ArmingAgain, OutsideStep DEF Passed, Places, Inside, At, Same
<1>10. CASE Sleep(w)
  BY <1>10, <1>0, GoingPlace, OutsideStep DEF Sleep, Places, Inside, At, Same
<1> QED
  BY <1>1, <1>2, <1>3, <1>4, <1>5, <1>6, <1>7, <1>8, <1>9, <1>10 DEF Work

LEMMA OtherBarrier ==
  ASSUME Instance, TypeOK, BarrierInv,
         \/ \E w \in Workers : Arrive(w) \/ Fill(w) \/ Drain(w)
         \/ Control \/ PauseBegins \/ Stop \/ UNCHANGED vars
  PROVE  BarrierInv'
<1> USE DEF barrierVars
<1>0. loop' = loop /\ Parked' = Parked
  BY DEF Arrive, Fill, Drain, Control, MainPokes, PauseWaits, ResumeWaits, MainWaits, Publish,
         ResumeBegins, PauseBegins, Stop, vars, Parked, At
<1>1. ASSUME UNCHANGED <<pausing, stopping, paused, version>>, main'.at = main.at
      PROVE  BarrierInv'
  BY <1>0, <1>1 DEF BarrierInv, PlanInUse
<1>2. CASE \E w \in Workers : Arrive(w) \/ Fill(w) \/ Drain(w)
  BY <1>1, <1>2 DEF Arrive, Fill, Drain
<1>3. ASSUME NEW w \in Workers, MainPokes(w) PROVE BarrierInv'
  BY <1>1, <1>3 DEF MainPokes, TypeOK
<1>4. CASE PauseWaits
  <2>1. CASE main' = main
    BY <1>1, <1>4, <2>1 DEF PauseWaits, MainWaits
  <2>2. CASE /\ main.at = "poking" /\ main'.at = "publish"
             /\ paused = Cardinality(Workers)
    <3>1. Parked = Workers
      BY <2>2, FiniteParked DEF BarrierInv
    <3>2. UNCHANGED <<pausing, stopping, paused, version>>
      BY <1>4 DEF PauseWaits, MainWaits
    <3>3. PlanInUse'
      BY <1>0, <3>2 DEF PlanInUse, BarrierInv
    <3> QED
      BY <1>0, <2>2, <3>1, <3>2, <3>3 DEF BarrierInv
  <2> QED
    BY <1>4, <2>1, <2>2 DEF PauseWaits, MainWaits, TypeOK
<1>5. CASE ResumeWaits
  <2>1. CASE main' = main
    BY <1>1, <1>5, <2>1 DEF ResumeWaits, MainWaits
  <2>2. CASE main.at = "resuming" /\ main'.at = "idle" /\ paused = 0
    BY <1>0, <1>5, <2>2 DEF ResumeWaits, MainWaits, BarrierInv, PlanInUse
  <2> QED
    BY <1>5, <2>1, <2>2 DEF ResumeWaits, MainWaits, TypeOK
<1>6. CASE Publish
  <2>1. main'.at = "published"
    BY <1>6 DEF Publish, TypeOK
  <2>2. \A w \in Workers : loop[w].at \notin Inside
    BY <1>6 DEF Publish, BarrierInv, Parked, At, Inside
  <2> QED
    BY <1>0, <1>6, <2>1, <2>2 DEF Publish, BarrierInv, PlanInUse
<1>7. CASE ResumeBegins
  <2>1. main'.at = "resuming"
    BY <1>7 DEF ResumeBegins, TypeOK
  <2> QED
    BY <1>0, <1>7, <2>1 DEF ResumeBegins, BarrierInv, PlanInUse
<1>8. CASE PauseBegins
  BY <1>0, <1>8 DEF PauseBegins, BarrierInv, PlanInUse
<1>9. CASE Stop
  BY <1>0, <1>9 DEF Stop, BarrierInv, PlanInUse
<1>10. CASE UNCHANGED vars
  BY <1>1, <1>10 DEF vars
<1> QED
  BY <1>2, <1>3, <1>4, <1>5, <1>6, <1>7, <1>8, <1>9, <1>10 DEF Control
-----------------------------------------------------------------------------
(* Wake-ups.                                                               *)

(* Places at which a worker is neither about to sleep nor about to wake    *)
(* another.                                                                *)
Aside == {"check", "lock", "parked", "leave", "cancel", "done"}

LEMMA AsideWake ==
  ASSUME NEW w \in Workers, loop'[w].at \in Aside
  PROVE  Wake(w)'
BY DEF Wake, Arming, Looked, Aside, At

(* Steps that leave the workers where they are.                            *)
LEMMA StillWake ==
  ASSUME NEW w \in Workers, Wake(w), loop' = loop, queue' = queue, sleeping' = sleeping,
         io'[w].blocked <=> io[w].blocked, io[w].in => io'[w].in, io[w].fault => io'[w].fault,
         event \subseteq event', interrupted => interrupted'
  PROVE  Wake(w)'
BY DEF Wake, Arming, HasWork, Told, Poked, At

(* A notification under way stays so while the notifier does not move.     *)
LEMMA StillTold ==
  ASSUME NEW w \in Workers, loop[w].at \notin {"notify", "poke"},
         \A v \in Workers : v # w => loop'[v] = loop[v]
  PROVE  \A x \in Workers : (Told(x) => Told(x)') /\ (Poked(x) => Poked(x)')
BY DEF Told, Poked, At

(* The step of one worker as the others see it.                            *)
Undisturbed(w) ==
  \A x \in Workers : x # w =>
    /\ loop'[x] = loop[x] /\ io'[x] = io[x]
    /\ x \in event => x \in event'
    /\ x \in sleeping => x \in sleeping' \/ Poked(x)'
    /\ queue'[x] = queue[x] \/ Told(x)'
    /\ Poked(x) => x \in event' \/ Poked(x)'
    /\ Told(x) => x \in event' \/ Told(x)' \/ x \notin sleeping

LEMMA OthersWake ==
  ASSUME WakeInv, NEW w \in Workers, Undisturbed(w), UNCHANGED <<pausing, stopping>>,
         NEW x \in Workers, x # w
  PROVE  Wake(x)'
<1>1. Wake(x)
  BY DEF WakeInv
<1>2. /\ loop'[x] = loop[x] /\ io'[x] = io[x]
      /\ x \in event => x \in event'
      /\ x \in sleeping => x \in sleeping' \/ Poked(x)'
      /\ queue'[x] = queue[x] \/ Told(x)'
      /\ Poked(x) => x \in event' \/ Poked(x)'
      /\ Told(x) => x \in event' \/ Told(x)' \/ x \notin sleeping
  BY DEF Undisturbed
<1>3. Poked(x)' => Told(x)'
  BY DEF Poked, Told, At
<1>4. (Arming(x) <=> Arming(x)') /\ (interrupted <=> interrupted')
  BY <1>2 DEF Arming, interrupted
<1>5. Arming(x)' /\ x \notin sleeping' => x \in event' \/ Poked(x)'
  BY <1>1, <1>2, <1>4 DEF Wake
<1>6. (/\ Arming(x)' /\ loop'[x].at \in Looked /\ ~ loop'[x].progress /\ HasWork(x)')
      => \/ x \in event' \/ io'[x].in \/ io'[x].fault \/ Told(x)'
         \/ interrupted' /\ ~ At(x, "sleep")'
  BY <1>1, <1>2, <1>3, <1>4 DEF Wake, HasWork, At
<1> QED
  BY <1>1, <1>2, <1>5, <1>6 DEF Wake, At

LEMMA WorkUndisturbed ==
  ASSUME TypeOK, WakeInv, NEW w \in Workers, Work(w)
  PROVE  Undisturbed(w) /\ UNCHANGED <<pausing, stopping>>
<1> USE DEF engineVars, wakeVars, barrierVars
<1>0. UNCHANGED <<pausing, stopping>>
  BY DEF Work, CheckPausing, Park, Unpark, TakePlan, Transmit, OutputInterest, Receive, Notify,
         Poke, Passed, Sleep, Cancel
<1> SUFFICES ASSUME NEW x \in Workers, x # w
             PROVE  /\ loop'[x] = loop[x] /\ io'[x] = io[x]
                    /\ x \in event => x \in event'
                    /\ x \in sleeping => x \in sleeping' \/ Poked(x)'
                    /\ queue'[x] = queue[x] \/ Told(x)'
                    /\ Poked(x) => x \in event' \/ Poked(x)'
                    /\ Told(x) => x \in event' \/ Told(x)' \/ x \notin sleeping
  BY <1>0 DEF Undisturbed
(* Steps other than notify() itself.                                       *)
<1>1. ASSUME loop[w].at \notin {"notify", "poke"}, \A v \in Workers : v # w => loop'[v] = loop[v],
             io'[x] = io[x], x \in event => x \in event', x \in sleeping => x \in sleeping',
             queue'[x] = queue[x] \/ Told(x)'
      PROVE  /\ loop'[x] = loop[x] /\ io'[x] = io[x]
             /\ x \in event => x \in event'
             /\ x \in sleeping => x \in sleeping' \/ Poked(x)'
             /\ queue'[x] = queue[x] \/ Told(x)'
             /\ Poked(x) => x \in event' \/ Poked(x)'
             /\ Told(x) => x \in event' \/ Told(x)' \/ x \notin sleeping
  BY <1>1, StillTold
<1>2. CASE CheckPausing(w) \/ Cancel(w)
  BY <1>1, <1>2, GoingPlace DEF CheckPausing, Cancel, Place, Places, At
<1>3. CASE Park(w) \/ Unpark(w)
  BY <1>1, <1>3, GoingPlace DEF Park, Unpark, Place, Places, At
<1>4. CASE TakePlan(w)
  <2>1. io'[x] = io[x]
    BY <1>4 DEF TakePlan, TypeOK
  <2> QED
    BY <1>1, <1>4, <2>1, TakingPlan DEF TakePlan, Place, At
<1>5. CASE Transmit(w)
  <2>1. queue'[x] = queue[x]
    BY <1>5 DEF Transmit, TypeOK
  <2> QED
    BY <1>1, <1>5, <2>1, GoingPlace, Progressing DEF Transmit, Place, Places, At
<1>6. CASE OutputInterest(w)
  <2>1. io'[x] = io[x]
    BY <1>6 DEF OutputInterest, TypeOK
  <2> QED
    BY <1>1, <1>6, <2>1, GoingPlace DEF OutputInterest, Place, Places, At
<1>7. CASE Receive(w)
  <2>1. io'[x] = io[x]
    BY <1>7 DEF Receive, ReceiveFrame, TypeOK
  <2>2. CASE Goto(w, "passed") /\ UNCHANGED queue
    BY <1>1, <1>7, <2>1, <2>2, GoingPlace DEF Receive, Place, Places, At
  <2>3. CASE ReceiveFrame(w)
    <3>1. PICK target \in Workers : Queued(w, target)
      BY <2>3 DEF ReceiveFrame
    <3>2. /\ Place(w, IF target = w THEN "passed" ELSE "notify") /\ loop'[w].target = target
          /\ \A v \in Workers : v # target => queue'[v] = queue[v]
      BY <3>1, Queuing
    <3>3. queue'[x] = queue[x] \/ Told(x)'
      BY <3>2 DEF Told, Place
    <3> QED
      BY <1>1, <1>7, <2>1, <3>2, <3>3 DEF Receive, Place, At
  <2> QED
    BY <1>7, <2>2, <2>3 DEF Receive
<1>8. CASE Notify(w)
  <2>1. /\ Place(w, IF loop[w].target \in sleeping THEN "poke" ELSE "passed")
        /\ loop'[w].target = loop[w].target
    BY <1>8, GoingPlace DEF Notify, Places, Same
  <2>2. x \in sleeping => x \in sleeping' \/ Poked(x)'
    BY <1>8, <2>1 DEF Notify, Poked, Place, At
  <2>3. Poked(x) => Poked(x)'
    BY <1>8, <2>1 DEF Notify, Poked, Place, At
  <2>4. Told(x) => Told(x)' \/ x \notin sleeping
    BY <1>8, <2>1 DEF Notify, Told, Place, At
  <2> QED
    BY <1>8, <2>1, <2>2, <2>3, <2>4 DEF Notify, Place
<1>9. CASE Poke(w)
  <2>1. Place(w, "passed")
    BY <1>9, GoingPlace DEF Poke, Places
  <2>2. Poked(x) => x \in event' \/ Poked(x)'
    BY <1>9, <2>1 DEF Poke, Poked, Place, At
  <2>3. Told(x) => x \in event' \/ Told(x)'
    BY <1>9, <2>1 DEF Poke, Told, Place, At
  <2> QED
    BY <1>9, <2>1, <2>2, <2>3 DEF Poke, Place
<1>10. CASE Passed(w)
  <2>1. \A v \in Workers : v # w => loop'[v] = loop[v]
    BY <1>10, GoingPlace, ArmingAgain DEF Passed, Place, Places
  <2>2. io'[x] = io[x] /\ (x \in event => x \in event')
    BY <1>10, Collecting DEF Passed, OwnEvents
  <2> QED
    BY <1>1, <1>10, <2>1, <2>2 DEF Passed, At
<1>11. CASE Sleep(w)
  BY <1>1, <1>11, GoingPlace, Collecting DEF Sleep, Place, OwnEvents, Places, At
<1> QED
  BY <1>2, <1>3, <1>4, <1>5, <1>6, <1>7, <1>8, <1>9, <1>10, <1>11 DEF Work

(* A worker on its way to sleep: the facts that keep Wake.                 *)
LEMMA OwnWake ==
  ASSUME NEW w \in Workers, Wake(w), NEW place \in Looked, Place(w, place),
         place \in {"notify", "poke"} => loop'[w].target \in Workers,
         place = "sleep" => loop[w].armed /\ ~ loop'[w].progress /\ ~ interrupted,
         loop[w].armed => Arming(w), loop'[w].armed <=> loop[w].armed,
         UNCHANGED <<pausing, stopping>>,
         w \in sleeping => w \in sleeping' \/ Poked(w)',
         w \in event => w \in event',
         Poked(w) => w \in event' \/ Poked(w)',
         \/ loop'[w].progress \/ ~ HasWork(w)'
         \/ interrupted /\ place # "sleep"
         \/ w \in event' \/ io'[w].in \/ io'[w].fault \/ Told(w)'
         \/ /\ loop[w].at \in Looked \ {"sleep"} /\ HasWork(w)
            /\ loop'[w].progress <=> loop[w].progress
            /\ io[w].in => io'[w].in
            /\ io[w].fault => io'[w].fault
            /\ Told(w) => w \in event' \/ Told(w)' \/ w \notin sleeping
  PROVE  Wake(w)'
<1>1. loop'[w].at = place /\ (interrupted <=> interrupted')
  BY DEF Place, interrupted
<1>2. Poked(w)' => Told(w)'
  BY DEF Poked, Told, At
<1>3. Arming(w)' => Arming(w)
  BY DEF Arming
<1>4. Arming(w)' /\ w \notin sleeping' => w \in event' \/ Poked(w)'
  BY <1>3 DEF Wake
<1>5. (/\ Arming(w)' /\ loop'[w].at \in Looked /\ ~ loop'[w].progress /\ HasWork(w)')
      => \/ w \in event' \/ io'[w].in \/ io'[w].fault \/ Told(w)'
         \/ interrupted' /\ ~ At(w, "sleep")'
  BY <1>1, <1>2, <1>3 DEF Wake, At
<1> QED
  BY <1>1, <1>4, <1>5 DEF Wake, At

LEMMA WorkWake ==
  ASSUME TypeOK, WakeInv, NEW w \in Workers, Work(w)
  PROVE  Wake(w)'
<1> USE DEF engineVars, wakeVars, barrierVars
<1>0. Wake(w) /\ UNCHANGED <<pausing, stopping>>
  BY WorkUndisturbed DEF WakeInv
<1>a. ASSUME \A v \in Workers : v # w => loop'[v] = loop[v], loop[w].at \notin {"notify", "poke"}
      PROVE  (Told(w) => Told(w)') /\ (Poked(w) => Poked(w)')
  BY <1>a, StillTold
<1>1. CASE CheckPausing(w) \/ Cancel(w)
  BY <1>1, GoingPlace, AsideWake DEF CheckPausing, Cancel, Place, Places, Aside
<1>2. CASE Park(w) \/ Unpark(w)
  BY <1>2, GoingPlace, AsideWake DEF Park, Unpark, Place, Places, Aside, At
<1>3. CASE TakePlan(w)
  BY <1>3, TakingPlan DEF Place, Wake, Arming, At
<1>4. CASE Transmit(w)
  <2>1. CASE /\ interrupted \/ io[w].blocked \/ queue[w] = 0
             /\ Goto(w, "receive") /\ UNCHANGED queue
    <3>1. Place(w, "receive") /\ Same(w)
      BY <2>1, GoingPlace DEF Places
    <3>2. (Told(w) => Told(w)') /\ (Poked(w) => Poked(w)')
      BY <1>4, <1>a, <3>1 DEF Transmit, Place, At
    <3>3. interrupted \/ ~ HasWork(w)'
      BY <1>4, <2>1 DEF Transmit, HasWork
    <3>4. loop[w].armed => Arming(w)
      BY <1>4 DEF Transmit, Arming, At
    <3> QED
      BY <1>0, <1>4, <3>1, <3>2, <3>3, <3>4, OwnWake DEF Transmit, Same, Looked
  <2>2. CASE loop' = [loop EXCEPT ![w].at = "receive", ![w].progress = TRUE]
    <3>1. Place(w, "receive") /\ loop'[w].progress /\ (loop'[w].armed <=> loop[w].armed)
      BY <2>2, Progressing DEF Places
    <3>2. (Told(w) => Told(w)') /\ (Poked(w) => Poked(w)')
      BY <1>4, <1>a, <3>1 DEF Transmit, Place, At
    <3>4. loop[w].armed => Arming(w)
      BY <1>4 DEF Transmit, Arming, At
    <3> QED
      BY <1>0, <1>4, <3>1, <3>2, <3>4, OwnWake DEF Transmit, Looked
  <2>3. CASE Goto(w, "interest")
    <3>1. Place(w, "interest") /\ Same(w)
      BY <2>3, GoingPlace DEF Places
    <3>2. (Told(w) => Told(w)') /\ (Poked(w) => Poked(w)')
      BY <1>4, <1>a, <3>1 DEF Transmit, Place, At
    <3> QED
      BY <1>0, <1>4, <3>1, <3>2 DEF Transmit, Same, Place, Wake, Arming, Looked, At
  <2> QED
    BY <1>4, <2>1, <2>2, <2>3 DEF Transmit
<1>5. CASE OutputInterest(w)
  <2>1. Place(w, "receive") /\ Same(w)
    BY <1>5, GoingPlace DEF OutputInterest, Places
  <2>2. (Told(w) => Told(w)') /\ (Poked(w) => Poked(w)')
    BY <1>5, <1>a, <2>1 DEF OutputInterest, Place, At
  <2>3. io'[w].blocked \/ io'[w].fault
    BY <1>5 DEF OutputInterest, TypeOK, Events
  <2>4. loop[w].armed => Arming(w)
    BY <1>5 DEF OutputInterest, Arming, At
  <2> QED
    BY <1>0, <1>5, <2>1, <2>2, <2>3, <2>4, OwnWake DEF OutputInterest, Same, Looked, HasWork
<1>6. CASE Receive(w)
  <2>0. loop[w].armed => Arming(w)
    BY <1>6 DEF Receive, Arming, Looked, At
  <2>1. CASE Goto(w, "passed") /\ UNCHANGED queue
    <3>1. Place(w, "passed") /\ Same(w)
      BY <2>1, GoingPlace DEF Places
    <3>2. (Told(w) => Told(w)') /\ (Poked(w) => Poked(w)')
      BY <1>6, <1>a, <3>1 DEF Receive, Place, At
    <3>3. /\ io'[w].blocked <=> io[w].blocked
          /\ io'[w].in <=> io[w].in
          /\ io'[w].fault <=> io[w].fault
      BY <1>6 DEF Receive, ReceiveFrame, TypeOK, Events
    <3>4. HasWork(w)' <=> HasWork(w)
      BY <2>1, <3>3 DEF HasWork
    <3> QED
      BY <1>0, <1>6, <2>0, <3>1, <3>2, <3>3, <3>4, OwnWake DEF Receive, Same, Looked, At
  <2>2. CASE ReceiveFrame(w)
    <3>1. PICK target \in Workers : Queued(w, target)
      BY <2>2 DEF ReceiveFrame
    <3>2. /\ Place(w, IF target = w THEN "passed" ELSE "notify") /\ loop'[w].progress
          /\ loop'[w].armed <=> loop[w].armed
          /\ loop'[w].target \in Workers
      BY <3>1, Queuing
    <3>3. (Told(w) => Told(w)') /\ (Poked(w) => Poked(w)')
      BY <1>6, <1>a, <3>2 DEF Receive, Place, At
    <3> QED
      BY <1>0, <1>6, <2>0, <3>2, <3>3, OwnWake DEF Receive, Looked
  <2> QED
    BY <1>6, <2>1, <2>2 DEF Receive
<1>7. CASE Notify(w)
  <2>0. loop[w].armed => Arming(w)
    BY <1>7 DEF Notify, Arming, Looked, At
  <2>1. /\ Place(w, IF loop[w].target \in sleeping THEN "poke" ELSE "passed") /\ Same(w)
        /\ loop[w].target \in Workers
    BY <1>0, <1>7, GoingPlace DEF Notify, Places, Wake, At
  <2>2. w \in sleeping => w \in sleeping' \/ Poked(w)'
    BY <1>7, <2>1 DEF Notify, Poked, Place, Same, At
  <2>3. Poked(w) => Poked(w)'
    BY <1>7, <2>1 DEF Notify, Poked, Place, At
  <2>4. Told(w) => Told(w)' \/ w \notin sleeping
    BY <1>7, <2>1 DEF Notify, Told, Place, Same, At
  <2>5. HasWork(w)' <=> HasWork(w)
    BY <1>7 DEF Notify, HasWork
  <2> QED
    BY <1>0, <1>7, <2>0, <2>1, <2>2, <2>3, <2>4, <2>5, OwnWake DEF Notify, Same, Looked, At
<1>8. CASE Poke(w)
  <2>0. loop[w].armed => Arming(w)
    BY <1>8 DEF Poke, Arming, Looked, At
  <2>1. Place(w, "passed") /\ Same(w)
    BY <1>8, GoingPlace DEF Poke, Places
  <2>2. Poked(w) => w \in event' \/ Poked(w)'
    BY <1>8, <2>1 DEF Poke, Poked, Place, At
  <2>3. Told(w) => w \in event' \/ Told(w)'
    BY <1>8, <2>1 DEF Poke, Told, Place, At
  <2>5. HasWork(w)' <=> HasWork(w)
    BY <1>8 DEF Poke, HasWork
  <2> QED
    BY <1>0, <1>8, <2>0, <2>1, <2>2, <2>3, <2>5, OwnWake DEF Poke, Same, Looked, At
<1>9. CASE Passed(w)
  <2>1. CASE Goto(w, "check") \/ Goto(w, "cancel")
    BY <2>1, GoingPlace, AsideWake DEF Place, Places, Aside
  <2>2. CASE sleeping' = sleeping \cup {w} /\ loop' = [loop EXCEPT ![w].at = "transmit", ![w].armed = TRUE]
    BY <2>2, ArmingAgain DEF Place, Wake, Looked, At
  <2>3. CASE /\ loop[w].armed /\ ~ loop[w].progress /\ ~ interrupted
             /\ Goto(w, "sleep") /\ UNCHANGED <<wakeVars, io, used>>
    <3>0. Arming(w)
      BY <1>9, <2>3 DEF Passed, Arming, Looked, At
    <3>1. Place(w, "sleep") /\ Same(w)
      BY <2>3, GoingPlace DEF Places
    <3>2. (Told(w) => Told(w)') /\ (Poked(w) => Poked(w)')
      BY <1>9, <1>a, <3>1 DEF Passed, Place, At
    <3>3. HasWork(w)' <=> HasWork(w)
      BY <1>9, <2>3 DEF Passed, HasWork
    <3> QED
      BY <1>0, <1>9, <2>3, <3>0, <3>1, <3>2, <3>3, OwnWake DEF Passed, Same, Looked, At
  <2> QED
    BY <1>9, <2>1, <2>2, <2>3 DEF Passed
<1>10. CASE Sleep(w)
  BY <1>10, GoingPlace, AsideWake DEF Sleep, Place, Places, Aside
<1> QED
  BY <1>1, <1>2, <1>3, <1>4, <1>5, <1>6, <1>7, <1>8, <1>9, <1>10 DEF Work

LEMMA OtherWake ==
  ASSUME TypeOK, BarrierInv, WakeInv,
         \/ \E w \in Workers : Arrive(w) \/ Fill(w) \/ Drain(w)
         \/ Control \/ PauseBegins \/ Stop \/ UNCHANGED vars
  PROVE  WakeInv'
<1> USE DEF engineVars, wakeVars, barrierVars
<1> SUFFICES ASSUME NEW x \in Workers PROVE Wake(x)'
  BY DEF WakeInv
<1>0. Wake(x) /\ io[x] \in Events
  BY DEF WakeInv, TypeOK
<1>1. ASSUME UNCHANGED <<loop, queue, sleeping, io, pausing, stopping>>, event \subseteq event'
      PROVE  Wake(x)'
  BY <1>0, <1>1, StillWake DEF interrupted
<1>2. ASSUME NEW w \in Workers, Arrive(w) PROVE Wake(x)'
  <2>1. /\ io'[x].blocked <=> io[x].blocked
        /\ io[x].in => io'[x].in
        /\ io[x].fault => io'[x].fault
    BY <1>0, <1>2 DEF Arrive, TypeOK, Events
  <2> QED
    BY <1>0, <1>2, <2>1, StillWake DEF Arrive, interrupted
<1>3. ASSUME NEW w \in Workers, Drain(w) PROVE Wake(x)'
  <2>1. /\ io'[x].blocked <=> io[x].blocked
        /\ io[x].in => io'[x].in
        /\ io[x].fault => io'[x].fault
    BY <1>0, <1>3 DEF Drain, TypeOK, Events
  <2> QED
    BY <1>0, <1>3, <2>1, StillWake DEF Drain, interrupted
<1>4. ASSUME NEW w \in Workers, Fill(w) \/ MainPokes(w) PROVE Wake(x)'
  BY <1>1, <1>4 DEF Fill, MainPokes
<1>5. CASE PauseWaits \/ ResumeWaits \/ UNCHANGED vars
  BY <1>1, <1>5 DEF PauseWaits, ResumeWaits, MainWaits, vars
<1>6. CASE Publish \/ ResumeBegins
  <2>1. At(x, "parked") /\ loop' = loop
    BY <1>6 DEF Publish, ResumeBegins, BarrierInv, Parked
  <2> QED
    BY <2>1, AsideWake DEF Aside, At
<1>7. CASE PauseBegins \/ Stop
  BY <1>0, <1>7, StillWake DEF PauseBegins, Stop, interrupted
<1> QED
  BY <1>2, <1>3, <1>4, <1>5, <1>6, <1>7 DEF Control
-----------------------------------------------------------------------------
LEMMA WorkerInit ==
  ASSUME Instance, Init
  PROVE  WorkerInv
<1>1. TypeOK
  BY TypeInit
<1>2. \A w \in Workers : loop[w] = Start
  BY DEF Init
<1>3. Parked = {} /\ PlanInUse /\ WakeInv
  BY <1>2 DEF Parked, PlanInUse, WakeInv, Wake, Arming, Start, Inside, Looked, At
<1>4. BarrierInv
  BY <1>3, FS_EmptySet DEF Init, BarrierInv
<1> QED
  BY <1>1, <1>3, <1>4 DEF WorkerInv

LEMMA WorkerStep ==
  ASSUME Instance, WorkerInv, [Next]_vars
  PROVE  WorkerInv'
<1> USE DEF WorkerInv
<1>1. ASSUME NEW w \in Workers, Work(w) PROVE WorkerInv'
  <2>1. \A x \in Workers : Wake(x)'
    BY <1>1, WorkUndisturbed, OthersWake, WorkWake
  <2> QED
    BY <1>1, <2>1, WorkType, WorkBarrier DEF WakeInv
<1>2. CASE \/ \E w \in Workers : Arrive(w) \/ Fill(w) \/ Drain(w)
           \/ Control \/ PauseBegins \/ Stop \/ UNCHANGED vars
  BY <1>2, OtherType, OtherBarrier, OtherWake
<1> QED
  BY <1>1, <1>2 DEF Next

(* Plans, barriers and wake-ups.  For every finite set of workers and      *)
(* every bound on what arrives, is published, fills up or fails: publish() *)
(* frees no plan that a worker still uses, a barrier is complete only with *)
(* every worker inside it, and no worker sleeps over a frame it could send *)
(* (switch_mp/runtime.hpp:227-251, :430-432, :637-640, :962-963).          *)
THEOREM BarrierHolds ==
  ASSUME Instance
  PROVE  Spec => []BarrierSound
<1>1. Init => WorkerInv
  BY WorkerInit
<1>2. WorkerInv /\ [Next]_vars => WorkerInv'
  BY WorkerStep
<1>3. WorkerInv => BarrierSound
  BY DEF WorkerInv, BarrierInv, BarrierSound, BarrierCounts, NoLostWake, WakeInv, Wake, Arming,
         Looked, HasWork, Told, Parked, At
<1> QED
  BY <1>1, <1>2, <1>3, PTL DEF Spec

=============================================================================
