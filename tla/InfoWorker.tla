----------------------------- MODULE InfoWorker -----------------------------
(***************************************************************************)
(* The thread that collects host information (info_worker.hpp) and the     *)
(* tunnel's loop that asks for it at every new session and sends the       *)
(* result.  Every critical section of mutex_ is one step; the condition    *)
(* variable and the eventfd are signalled in steps of their own.           *)
(***************************************************************************)
EXTENDS Naturals

CONSTANTS MaxGeneration   \* bound on the sessions of a run
ASSUME GenerationAssumption == MaxGeneration \in Nat \ {0}

VARIABLES
  pending, ready, stopping, generation, result,   \* under mutex_; result: generation and valid
  event,       \* the eventfd's count is not zero
  asleep,      \* the thread waits on wake_ and has not been notified since
  pc,          \* the thread: "idle", "collect", "publish", "signal", "gone"
  job,         \* its copy of the generation and whether the collector gave a valid text
  loop,        \* the loop: "run", "notify", "take", "stop", "join"
  session,     \* transmit_generation()
  sent         \* generations whose information the tunnel has sent

infoVars == <<pending, ready, stopping, generation, result, event, asleep, pc, job, loop, session, sent>>
shared == <<pending, ready, stopping, generation, result>>
worker == <<asleep, pc, job>>
tunnel == <<loop, session, sent>>
NoInfo == [generation |-> 0, valid |-> FALSE]

InfoInit ==
  /\ pending = FALSE /\ ready = FALSE /\ stopping = FALSE /\ generation = 0 /\ result = NoInfo
  /\ event = FALSE /\ asleep = FALSE /\ pc = "idle" /\ job = NoInfo
  /\ loop = "run" /\ session = 0 /\ sent = {}

-----------------------------------------------------------------------------
\* request(), up to the unlock, by session_activated().
Request ==
  /\ loop = "run" /\ session < MaxGeneration /\ session' = session + 1 /\ loop' = "notify"
  /\ generation' = session + 1 /\ pending' = TRUE /\ ready' = FALSE
  /\ UNCHANGED <<stopping, result, event, worker, sent>>
\* notify_one(), after request() and in the destructor.
Notify ==
  /\ loop \in {"notify", "stop"} /\ asleep' = FALSE /\ loop' = IF loop = "stop" THEN "join" ELSE "run"
  /\ UNCHANGED <<shared, event, pc, job, session, sent>>

\* take(): the eventfd is read, then the result is fetched under the lock.
ReadEvent ==
  /\ loop = "run" /\ event /\ event' = FALSE /\ loop' = "take"
  /\ UNCHANGED <<shared, worker, session, sent>>
\* The tunnel sends a valid result of the session it transmits in.
Take ==
  /\ loop = "take" /\ loop' = "run" /\ ready' = FALSE
  /\ sent' = IF ready /\ result.valid /\ result.generation = session THEN sent \cup {session} ELSE sent
  /\ UNCHANGED <<pending, stopping, generation, result, event, worker, session>>

\* ~Worker(): then pthread_join().
Stop ==
  /\ loop = "run" /\ loop' = "stop" /\ stopping' = TRUE
  /\ UNCHANGED <<pending, ready, generation, result, event, worker, session, sent>>

-----------------------------------------------------------------------------
\* work(): wait, with its predicate evaluated under the lock; a wait may also end by itself.
Wait ==
  /\ pc = "idle" /\ ~asleep
  /\ IF stopping THEN pc' = "gone" /\ UNCHANGED <<pending, asleep, job>>
     ELSE IF pending THEN /\ pending' = FALSE /\ pc' = "collect" /\ UNCHANGED asleep
                          /\ job' = [generation |-> generation, valid |-> FALSE]
     ELSE asleep' = TRUE /\ UNCHANGED <<pending, pc, job>>
  /\ UNCHANGED <<ready, stopping, generation, result, event, tunnel>>
Spurious ==
  /\ pc = "idle" /\ asleep /\ asleep' = FALSE /\ UNCHANGED <<shared, event, pc, job, tunnel>>

\* collect_() and decode(), without the lock; either may fail.
Collect ==
  /\ pc = "collect" /\ pc' = "publish" /\ \E v \in BOOLEAN : job' = [job EXCEPT !.valid = v]
  /\ UNCHANGED <<shared, event, asleep, tunnel>>

\* Variant: a result is kept whatever was asked since.
OvertakenNever == FALSE
\* The result of an overtaken request is thrown away.
Overtaken == pending \/ job.generation # generation
\* Publication of the result, under the lock.
Publish ==
  /\ pc = "publish"
  /\ IF stopping THEN pc' = "gone" /\ UNCHANGED <<ready, result>>
     ELSE IF Overtaken THEN pc' = "idle" /\ UNCHANGED <<ready, result>>
     ELSE pc' = "signal" /\ ready' = TRUE /\ result' = job
  /\ UNCHANGED <<pending, stopping, generation, event, asleep, job, tunnel>>

\* The write to the eventfd.
Signal == pc = "signal" /\ pc' = "idle" /\ event' = TRUE /\ UNCHANGED <<shared, asleep, job, tunnel>>

Thread == Wait \/ Collect \/ Publish \/ Signal
InfoNext == Request \/ Notify \/ ReadEvent \/ Take \/ Stop \/ Spurious \/ Thread
InfoSpec ==
  /\ InfoInit /\ [][InfoNext]_infoVars
  /\ WF_infoVars(Thread) /\ WF_infoVars(Notify) /\ WF_infoVars(Take) /\ WF_infoVars(ReadEvent)

-----------------------------------------------------------------------------
\* A result that can be taken is the latest request's: never that of an earlier session, though
\* requests come while the thread collects.
Fresh == ready => result.generation = generation /\ ~pending

\* Nobody sleeps over work: when the loop has finished its call and the thread sleeps, there is
\* neither a request nor an order to stop.
NoLostWake == asleep /\ loop \in {"run", "take", "join"} => ~pending /\ ~stopping

\* The destructor's join returns.
Joins == stopping ~> pc = "gone"

=============================================================================
