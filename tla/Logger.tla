------------------------------- MODULE Logger -------------------------------
(***************************************************************************)
(* The asynchronous log (logging.hpp, class AsyncLogger): the event loop   *)
(* puts lines into a ring, as far as a token bucket and the ring allow,    *)
(* and a detached thread writes them.  Neither waits for the other, and    *)
(* the program may log before the thread is started, or without one.       *)
(***************************************************************************)
EXTENDS Naturals, Sequences, FiniteSets, FiniteSetsExt

CONSTANTS
  Capacity,   \* records of the ring, and tokens of the bucket (64)
  Interval,   \* refill_interval, in units of time
  Attempts,   \* calls of write() for one record (4)
  MaxTime, MaxLines   \* bounds of a behaviour

VARIABLES
  now,        \* the time
  attempted, started,       \* start() was called; the thread runs
  tokens, refill_at,        \* the bucket
  write, read, records,     \* the ring; a record is the number of its line
  publishing, \* submit has filled a record and not stored write
  writer,     \* where the thread stands, and what it has read of the record
  lines,      \* lines submitted
  dropped,    \* dropped_
  passed,     \* when lines took their tokens
  out         \* what reached the file, record by record

ring == <<write, read, records, publishing>>
vars == <<now, attempted, started, tokens, refill_at, ring, writer, lines, dropped, passed, out>>

Slots == 0 .. Capacity - 1
Slot(i) == i % Capacity
Resting == [at |-> "idle", attempt |-> 0, seen |-> {}, ok |-> FALSE]

Init ==
  /\ now = 0 /\ attempted = FALSE /\ started = FALSE
  /\ tokens = Capacity /\ refill_at = 0
  /\ write = 0 /\ read = 0 /\ records = [s \in Slots |-> 0] /\ publishing = FALSE
  /\ writer = Resting
  /\ lines = 0 /\ dropped = 0 /\ passed = <<>> /\ out = <<>>
-----------------------------------------------------------------------------
(* start(): without signals, a sink or a thread what waits in the ring is  *)
(* discarded, and there will never be a reader.                            *)
Start(ok) ==
  /\ ~attempted /\ ~publishing
  /\ attempted' = TRUE /\ started' = ok
  /\ IF ok THEN UNCHANGED <<dropped, read>>
           ELSE dropped' = dropped + (write - read) /\ read' = write
  /\ UNCHANGED <<now, tokens, refill_at, write, records, publishing, writer, lines, passed, out>>

Bucket ==
  IF now >= refill_at
    THEN [tokens |-> Min({Capacity, tokens + (now - refill_at) \div Interval + 1}),
          at |-> now + Interval]
    ELSE [tokens |-> tokens, at |-> refill_at]

(* Variant: one record more than the ring has.                             *)
FullLate == (attempted /\ ~started) \/ write - read = Capacity + 1

Full == (attempted /\ ~started) \/ write - read = Capacity

(* submit(): a token, a free record, the copy; write is stored after it.   *)
Submit ==
  /\ ~publishing /\ lines < MaxLines
  /\ lines' = lines + 1
  /\ refill_at' = Bucket.at
  /\ IF Bucket.tokens = 0
       THEN /\ dropped' = dropped + 1 /\ tokens' = 0
            /\ UNCHANGED <<ring, passed>>
       ELSE /\ tokens' = Bucket.tokens - 1
            /\ passed' = Append(passed, now)
            /\ UNCHANGED <<write, read>>
            /\ IF Full
                 THEN /\ dropped' = dropped + 1
                      /\ UNCHANGED <<records, publishing>>
                 ELSE /\ records' = [records EXCEPT ![Slot(write)] = lines + 1]
                      /\ publishing' = TRUE
                      /\ UNCHANGED dropped
  /\ UNCHANGED <<now, attempted, started, writer, out>>

Publish ==
  /\ publishing
  /\ publishing' = FALSE /\ write' = write + 1
  /\ UNCHANGED <<now, attempted, started, tokens, refill_at, read, records, writer, lines,
                 dropped, passed, out>>
-----------------------------------------------------------------------------
(* The thread: a record is there.                                          *)
Take ==
  /\ started /\ writer.at = "idle" /\ read # write
  /\ writer' = [Resting EXCEPT !.at = "write"]
  /\ UNCHANGED <<now, attempted, started, tokens, refill_at, ring, lines, dropped, passed, out>>

(* write_record: a call of write() takes the rest, or a part, or fails; a  *)
(* file at its limit and a record not written after the last attempt fail  *)
(* like it.                                                                *)
WriteSome(result) ==
  LET seen == IF result = "error" THEN writer.seen
                                  ELSE writer.seen \union {records[Slot(read)]}
      ends == result # "part" \/ writer.attempt + 1 = Attempts
  IN
  /\ writer.at = "write"
  /\ writer' = [at |-> IF ends THEN "done" ELSE "write", attempt |-> writer.attempt + 1,
                seen |-> seen, ok |-> result = "rest"]
  /\ out' = IF ends /\ seen # {} THEN Append(out, [lines |-> seen, whole |-> result = "rest"])
                                 ELSE out
  /\ dropped' = IF ends /\ result # "rest" THEN dropped + 1 ELSE dropped
  /\ UNCHANGED <<now, attempted, started, tokens, refill_at, ring, lines, passed>>

Store ==
  /\ writer.at = "done"
  /\ read' = read + 1
  /\ writer' = Resting
  /\ UNCHANGED <<now, attempted, started, tokens, refill_at, write, records, publishing, lines,
                 dropped, passed, out>>

Tick ==
  /\ now < MaxTime
  /\ now' = now + 1
  /\ UNCHANGED <<attempted, started, tokens, refill_at, ring, writer, lines, dropped, passed, out>>

Writer == Take \/ (\E result \in {"rest", "part", "error"} : WriteSome(result)) \/ Store

Next == (\E ok \in BOOLEAN : Start(ok)) \/ Submit \/ Publish \/ Writer \/ Tick

Spec == Init /\ [][Next]_vars

(* The thread is scheduled and its calls of write() return; the event loop *)
(* finishes a submit it has begun.                                         *)
FairSpec == Spec /\ WF_vars(Writer) /\ WF_vars(Publish)
-----------------------------------------------------------------------------
(* What reaches the file is one submitted line after the other, in their   *)
(* order: no record changes while it is written.                           *)
LinesIntact ==
  /\ \A k \in DOMAIN out : Cardinality(out[k].lines) = 1
  /\ \A j, k \in DOMAIN out : j < k => \A a \in out[j].lines, b \in out[k].lines : a < b

(* Every line submitted is in the file as a whole, counted as dropped, or  *)
(* in the ring; a line of which a part was written is counted as dropped.  *)
Accounted ==
  lines = Cardinality({k \in DOMAIN out : out[k].whole}) + dropped
          + (write - read) + (IF publishing THEN 1 ELSE 0)
          - (IF writer.at = "done" THEN 1 ELSE 0)

(* In any stretch of time no more lines pass than the bucket holds and one *)
(* per interval.                                                           *)
RateBound ==
  \A j, k \in DOMAIN passed : j <= k =>
    (k - j + 1) * Interval <= Capacity * Interval + (passed[k] - passed[j])

=============================================================================
