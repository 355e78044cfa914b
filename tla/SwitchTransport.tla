--------------------------- MODULE SwitchTransport ---------------------------
(***************************************************************************)
(* One direction of a switch connection (ipc/switch_transport.hpp): frames *)
(* go through shared slots, announced by reference records on a socket, or *)
(* inline when they are too large or no slot is free, or wait in the retry *)
(* queue (ipc/retry_queue.hpp) while the socket is full.  The producer is  *)
(* a client that stages frames with append() and flush(), or a switch      *)
(* worker that uses send_batch().  A frame is its number and whether it    *)
(* fits a slot.  The slots' words and payloads are shared by two processes *)
(* (ipc/switch_mmap.hpp).                                                  *)
(***************************************************************************)
EXTENDS Naturals, Sequences, SequencesExt

CONSTANTS
  Slots,       \* slots of the pool, numbered from 0
  Batch,       \* batch_limit()
  RetrySize,   \* RetryQueue::capacity
  SocketSize,  \* records the socket holds
  LastToken,   \* where the words overflow (UINT64_MAX - 1); even
  MaxFrames,   \* bound on the frames accepted
  Producers    \* which of "client" and "worker" produce

VARIABLES
  tokens, payload,   \* shared, by slot
  cursor,            \* Mapping::cursor_
  staged,            \* staged_: references not announced yet
  retry,             \* the frames of retry_
  socket,            \* records on the way
  received,          \* received_ from read_cursor_
  reading,           \* the reference receive() copies from, if any
  delivered,         \* history: the last frame the receiver got
  accepted, sent, drops, \* frames given to, submitted by and dropped by the producer
  open,              \* FALSE once either end closes the connection
  bad                \* bad_reference() happened

producer == <<cursor, staged, retry, accepted, sent, drops>>
vars == <<tokens, payload, producer, socket, received, reading, delivered, open, bad>>

SlotSet == 0 .. Slots - 1
Frames == [n : 1 .. MaxFrames, small : BOOLEAN]
Numbers(s) == [i \in DOMAIN s |-> s[i].n]

Init ==
  /\ tokens = [s \in SlotSet |-> 0] /\ payload = [s \in SlotSet |-> 0] /\ cursor = 0
  /\ staged = <<>> /\ retry = <<>> /\ socket = <<>>
  /\ received = <<>> /\ reading = <<>> /\ delivered = 0
  /\ accepted = 0 /\ sent = 0 /\ drops = 0 /\ open = TRUE /\ bad = FALSE
-----------------------------------------------------------------------------
(* The producer's handlers map a state of its side to the states it may    *)
(* leave, one for every behaviour of the socket.                           *)

Side == [tokens |-> tokens, payload |-> payload, cursor |-> cursor, staged |-> staged,
         retry |-> retry, socket |-> socket, sent |-> sent, drops |-> drops, error |-> FALSE]

(* Variant: reserve() takes a slot whatever its word says.                 *)
FreeAny(x) == [step |-> 0, slot |-> x.cursor]

(* reserve(): the first free slot from the cursor, none if there is none.  *)
Free(x) ==
  LET at(i) == (x.cursor + i) % Slots
      steps == {i \in 0 .. Slots - 1 : x.tokens[at(i)] % 2 = 0}
  IN IF steps = {} THEN [step |-> Slots, slot |-> x.cursor]
     ELSE LET i == CHOOSE k \in steps : \A j \in steps : k <= j IN [step |-> i, slot |-> at(i)]

HasSlot(x) == Free(x).step < Slots
Overflows(x) == HasSlot(x) /\ x.tokens[Free(x).slot] >= LastToken

(* Copy the frame and publish the slot; the reference goes to the batch.   *)
Stage(x, f) ==
  LET s == Free(x).slot IN
  [x EXCEPT !.tokens[s] = @ + 1, !.payload[s] = f.n, !.cursor = (s + 1) % Slots,
            !.staged = Append(@, [slot |-> s, token |-> x.tokens[s] + 1, n |-> f.n])]

ReleaseStaged(x) ==
  [x EXCEPT !.staged = <<>>,
            !.tokens = [s \in SlotSet |-> IF \E i \in DOMAIN x.staged : x.staged[i].slot = s
                                          THEN @[s] + 1 ELSE @[s]]]

Room(x) == Len(x.socket) < SocketSize
Failed(x, lost) == [x EXCEPT !.error = TRUE, !.drops = @ + lost]

Enqueue(x, n) ==
  IF Len(x.retry) < RetrySize THEN [x EXCEPT !.retry = Append(@, n)]
  ELSE [x EXCEPT !.drops = @ + 1]

(* expire(): some of the oldest are too old by now.                        *)
Expired(x) ==
  {[x EXCEPT !.retry = SubSeq(@, k + 1, Len(@)), !.drops = @ + k] : k \in 0 .. Len(x.retry)}

EnqueueAfterExpiry(x, n) == {Enqueue(y, n) : y \in Expired(x)}

(* inline_send() succeeds, is told to retry, or fails.                     *)
Inlined(x, n) == [x EXCEPT !.socket = Append(@, [inline |-> TRUE, n |-> n]), !.sent = @ + 1]

(* RetryQueue::flush(): the first k frames go out or expire, then the      *)
(* socket blocks, the queue is empty, or the next frame fails and is       *)
(* dropped.                                                                *)
RetryFlush(x) ==
  LET out(k, S) == SelectSeq(SubSeq(x.retry, 1, k), LAMBDA n : n \in S)
      after(k, S) == [x EXCEPT !.retry = SubSeq(@, k + 1, Len(@)),
                        !.sent = @ + Len(out(k, S)), !.drops = @ + k - Len(out(k, S)),
                        !.socket = @ \o [i \in DOMAIN out(k, S) |-> [inline |-> TRUE, n |-> out(k, S)[i]]]]
      all == {after(k, S) : k \in 0 .. Len(x.retry), S \in SUBSET ToSet(x.retry)}
      fits == {y \in all : Len(y.socket) <= SocketSize}
  IN fits \cup {Failed([y EXCEPT !.retry = Tail(@)], 1) : y \in {z \in fits : z.retry # <<>>}}

(* send_refs() of the staged batch, with what flush() does on each result. *)
SendStaged(x) ==
  (IF Room(x) THEN {[x EXCEPT !.staged = <<>>, !.sent = @ + Len(x.staged),
                      !.socket = Append(@, [inline |-> FALSE, refs |-> x.staged])]} ELSE {})
    \cup {FoldLeft(LAMBDA y, ref : Enqueue(y, y.payload[ref.slot]), ReleaseStaged(x), x.staged),
          Failed(ReleaseStaged(x), Len(x.staged))}

FlushFrom(x) ==
  UNION {IF y.staged = <<>> \/ y.error THEN {y} ELSE SendStaged(y) : y \in RetryFlush(x)}

(* append() after its flush(): inline, behind whatever waits.              *)
AppendInline(x, f) ==
  UNION {IF y.error THEN {[y EXCEPT !.drops = @ + 1]}
         ELSE IF y.retry # <<>> THEN EnqueueAfterExpiry(y, f.n)
         ELSE (IF Room(y) THEN {Inlined(y, f.n)} ELSE {}) \cup {Enqueue(y, f.n), Failed(y, 1)}
         : y \in FlushFrom(x)}

(* append().  Its overflow path overwrites the drops counted so far.       *)
AppendFrom(x, f) ==
  UNION {IF y.retry # <<>> THEN EnqueueAfterExpiry(y, f.n)
         ELSE IF f.small /\ Overflows(y) THEN {Failed([y EXCEPT !.drops = x.drops], 1)}
         ELSE IF f.small /\ HasSlot(y)
           THEN IF Len(y.staged) + 1 = Batch THEN FlushFrom(Stage(y, f)) ELSE {Stage(y, f)}
         ELSE AppendInline(y, f)
         : y \in Expired(x)}

(* send_batch(): the slots of a prefix of the batch, or its first frame    *)
(* inline.  What is not accepted stays with the caller.                    *)
StagedPrefix(x, batch) ==
  LET step(y, f) == IF y.error \/ Len(y.staged) < f.n - accepted - 1 \/ ~ f.small \/ ~ HasSlot(y) THEN y
                    ELSE IF Overflows(y) THEN [y EXCEPT !.error = TRUE] ELSE Stage(y, f)
  IN FoldLeft(step, x, batch)

SendBatchFrom(x, batch) ==
  LET y == StagedPrefix(x, batch)
      undone == [x EXCEPT !.tokens = ReleaseStaged(y).tokens, !.cursor = y.cursor, !.payload = y.payload]
      failed == {undone, [undone EXCEPT !.error = TRUE]}
  IN IF y.error THEN {[undone EXCEPT !.error = TRUE]}
     ELSE IF y.staged # <<>>
       THEN failed \cup (IF Room(y) THEN {[y EXCEPT !.staged = <<>>, !.sent = @ + Len(y.staged),
                           !.socket = Append(@, [inline |-> FALSE, refs |-> y.staged])]} ELSE {})
     ELSE failed \cup (IF Room(x) THEN {Inlined(x, batch[1].n)} ELSE {})

(* An error makes the caller disconnect(): discard_staged() and reset().   *)
Becomes(x, n) ==
  /\ tokens' = (IF x.error THEN ReleaseStaged(x).tokens ELSE x.tokens)
  /\ payload' = x.payload /\ cursor' = x.cursor /\ socket' = x.socket
  /\ accepted' = n /\ sent' = x.sent /\ open' = ~ x.error
  /\ IF x.error THEN /\ staged' = <<>> /\ retry' = <<>>
                     /\ drops' = x.drops + Len(x.staged) + Len(x.retry)
     ELSE staged' = x.staged /\ retry' = x.retry /\ drops' = x.drops
  /\ UNCHANGED <<received, reading, delivered, bad>>

AppendFrame ==
  /\ open /\ "client" \in Producers /\ accepted < MaxFrames
  /\ \E small \in BOOLEAN :
       \E x \in AppendFrom(Side, [n |-> accepted + 1, small |-> small]) : Becomes(x, accepted + 1)

Flush == open /\ "client" \in Producers /\ \E x \in FlushFrom(Side) : Becomes(x, accepted)

SendBatch ==
  /\ open /\ "worker" \in Producers
  /\ \E c \in 1 .. Batch : \E small \in [1 .. c -> BOOLEAN] :
       /\ accepted + c <= MaxFrames
       /\ \E x \in SendBatchFrom(Side, [i \in 1 .. c |-> [n |-> accepted + i, small |-> small[i]]]) :
            Becomes(x, accepted + (x.sent - sent))
-----------------------------------------------------------------------------
(* receive(), access by access: the producer runs in another process.      *)

Valid(ref) == tokens[ref.slot] = ref.token

ReceiveRecord ==
  /\ open /\ received = <<>> /\ reading = <<>> /\ socket # <<>>
  /\ socket' = Tail(socket)
  /\ LET r == Head(socket) IN
     IF r.inline THEN delivered' = r.n /\ UNCHANGED <<received, open, bad>>
     ELSE IF \A i \in DOMAIN r.refs : Valid(r.refs[i])
       THEN received' = r.refs /\ UNCHANGED <<delivered, open, bad>>
     ELSE bad' = TRUE /\ open' = FALSE /\ UNCHANGED <<received, delivered>>
  /\ UNCHANGED <<tokens, payload, producer, reading>>

ReceiveCopy ==
  /\ open /\ received # <<>> /\ reading = <<>>
  /\ IF Valid(Head(received))
       THEN /\ reading' = <<Head(received)>> /\ delivered' = payload[Head(received).slot]
            /\ received' = Tail(received)
            /\ UNCHANGED <<open, bad>>
       ELSE bad' = TRUE /\ open' = FALSE /\ UNCHANGED <<reading, delivered, received>>
  /\ UNCHANGED <<tokens, payload, producer, socket>>

ReceiveRelease ==
  /\ open /\ reading # <<>>
  /\ tokens' = [tokens EXCEPT ![reading[1].slot] = reading[1].token + 1]
  /\ reading' = <<>>
  /\ UNCHANGED <<payload, producer, socket, received, delivered, open, bad>>

Next == AppendFrame \/ Flush \/ SendBatch \/ ReceiveRecord \/ ReceiveCopy \/ ReceiveRelease

Spec == Init /\ [][Next]_vars
-----------------------------------------------------------------------------
Announced ==
  UNION {{r.refs[i] : i \in DOMAIN r.refs} : r \in {x \in ToSet(socket) : ~ x.inline}}
    \cup ToSet(received) \cup ToSet(reading) \cup ToSet(staged)

(* A slot that a reference on its way points to holds that frame and that  *)
(* word until the receiver gives it back: the producer neither writes it   *)
(* nor takes it for another frame (switch_mmap.hpp:91).  So a correct      *)
(* receiver never finds a bad reference.                                   *)
SlotsHeld ==
  /\ ~ bad
  /\ open => \A ref \in Announced : tokens[ref.slot] = ref.token /\ payload[ref.slot] = ref.n

(* No slot is lost: a word says taken exactly while a reference to the     *)
(* slot exists, however many batches were refused (:61, :127, :204).       *)
NoSlotLost ==
  open => \A s \in SlotSet : tokens[s] % 2 = 1 <=> \E ref \in Announced : ref.slot = s

(* Frames arrive in the order they were given, whichever way each of them  *)
(* takes (:188): behind the last one delivered are, in order, those being  *)
(* received, on the socket, staged or waiting to be retried.               *)
Ahead ==
  Numbers(received) \o FlattenSeq([i \in DOMAIN socket |->
      IF socket[i].inline THEN <<socket[i].n>> ELSE Numbers(socket[i].refs)])
    \o Numbers(staged) \o retry

InOrder ==
  open => LET w == <<delivered>> \o Ahead
          IN \A i \in 1 .. Len(w) - 1 : w[i] < w[i + 1]

(* What the outcomes report adds up: every frame accepted was submitted,   *)
(* dropped, or is still staged or queued, and never two of these; frames   *)
(* are not staged while others wait for a retry (:148-169).  A word at its *)
(* limit is excepted: the overflow path forgets the frames that expired.   *)
Outcomes ==
  (\A s \in SlotSet : tokens[s] < LastToken) =>
    /\ accepted = sent + drops + Len(staged) + Len(retry)
    /\ staged = <<>> \/ retry = <<>>
=============================================================================
