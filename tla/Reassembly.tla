----------------------------- MODULE Reassembly -----------------------------
(***************************************************************************)
(* Fragments.  How a packet becomes datagrams: make_fragment_plan          *)
(* (fragmentation.hpp) and the loop of Tunnel::send_data (tunnel.hpp) that *)
(* cuts along the plan, with the sizes ProtocolV5 adds (protocol.hpp).     *)
(* And Reassembler (reassembly.hpp) of one session, behind a network that  *)
(* loses and reorders the fragments of the peer's messages; the replay     *)
(* window in front of it lets each pass once.                              *)
(***************************************************************************)
EXTENDS Naturals, Sequences, FiniteSets, FiniteSetsExt, SequencesExt

CONSTANTS
  Cut,          \* the fragments, as ranges [begin, end], of every message of the peer
  Strays,       \* other fragments that pass the decoder
  MaxEntries, MaxBytes, MaxDiscarded, MaxRanges,
  Timeout,
  MaxTime       \* bound on the clock

VARIABLES
  entries,          \* entries_: id -> [original_length, ranges, last_update]
  arrival_order, activity_order,
  total_bytes,
  discarded,        \* discarded_order_, with discarded_ its index
  now,
  in_flight,        \* fragments the network holds
  taken,            \* history: the fragments that arrived, by message
  complete,         \* history: messages delivered
  given_up          \* history: messages evicted, expired or refused

pool == <<entries, arrival_order, activity_order, total_bytes, discarded>>
vars == <<pool, now, in_flight, taken, complete, given_up>>

Sealed == 25                                    \* protocol_header_v5_size
Extension(ipc) == IF ipc THEN 16 ELSE 12        \* what a fragment adds to it
WireSize(ipc, whole, payload) == Sealed + payload + (IF whole THEN 0 ELSE Extension(ipc))

Overhead(h, r) == h + Sealed + Extension(FALSE) + (IF r THEN 4 ELSE 0)
maximum_fragment_payload(m, h, r) == m - Overhead(h, r)

(* A packet that fits without the fragment extension is sent whole.        *)
SizeLimit(n, maximum, ipc) ==
  IF n <= maximum + Extension(ipc) THEN maximum + Extension(ipc) ELSE maximum

make_fragment_plan(n, limit) ==
  LET count == (n + limit - 1) \div limit
  IN [count |-> count, base_size |-> n \div count, larger_fragments |-> n % count]

Offset(plan, i) ==
  i * plan.base_size + (IF i < plan.larger_fragments THEN i ELSE plan.larger_fragments)

(* Fragment i, from 0, as the half-open range of bytes it carries.         *)
Fragment(plan, i) ==
  [begin |-> Offset(plan, i),
   end |-> Offset(plan, i) + plan.base_size + (IF i < plan.larger_fragments THEN 1 ELSE 0)]

Fragments(plan) == {Fragment(plan, i) : i \in 0 .. plan.count - 1}
Bytes(f) == f.begin .. f.end - 1

(* The plan for n bytes on a path of MTU m, with h bytes of outer headers, *)
(* relayed or not.                                                         *)
Plan(n, m, h, r) == make_fragment_plan(n, SizeLimit(n, maximum_fragment_payload(m, h, r), r))

(* validate_fragment_capacity(): packets of these sizes need no more than  *)
(* `most' fragments.                                                       *)
Admissible(m, h, r, sizes, most) ==
  /\ m > Overhead(h, r)
  /\ \A n \in sizes :
       (n + maximum_fragment_payload(m, h, r) - 1) \div maximum_fragment_payload(m, h, r) <= most
-----------------------------------------------------------------------------
Messages == DOMAIN Cut
Length(m) == Max({r.end : r \in Cut[m]})
FragmentsOf(m) == {[id |-> m, begin |-> r.begin, end |-> r.end, length |-> Length(m)] : r \in Cut[m]}

Init ==
  /\ entries = <<>> /\ arrival_order = <<>> /\ activity_order = <<>>
  /\ total_bytes = 0 /\ discarded = <<>>
  /\ now = 0
  /\ in_flight = Strays \cup UNION {FragmentsOf(m) : m \in Messages}
  /\ taken = [m \in Messages |-> {}] /\ complete = {} /\ given_up = {}
-----------------------------------------------------------------------------
(* The helpers take the pool as a record, as the code takes the object.    *)

Pool == [entries |-> entries, arrival |-> arrival_order, activity |-> activity_order,
         total |-> total_bytes, discarded |-> discarded]

Ids(order) == {order[i].id : i \in DOMAIN order}

Erase(r, id) ==
  [r EXCEPT !.entries = [x \in DOMAIN r.entries \ {id} |-> r.entries[x]],
            !.arrival = SelectSeq(@, LAMBDA x : x # id),
            !.activity = SelectSeq(@, LAMBDA x : x # id),
            !.total = @ - r.entries[id].original_length]

remember_discarded(r, id) ==
  IF id \in Ids(r.discarded) THEN r
  ELSE LET kept == IF Len(r.discarded) >= MaxDiscarded THEN Tail(r.discarded) ELSE r.discarded
       IN [r EXCEPT !.discarded = Append(kept, [id |-> id, expires |-> now + Timeout])]

GiveUp(r, id) == Erase(remember_discarded(r, id), id)

(* The longest prefix of a queue whose elements all satisfy the test.      *)
Prefix(s, Test(_)) ==
  SubSeq(s, 1, Max({k \in 0 .. Len(s) : \A i \in 1 .. k : Test(s[i])}))

cleanup_expired(r) ==
  LET late == Prefix(r.discarded, LAMBDA d : now >= d.expires)
      kept == [r EXCEPT !.discarded = SubSeq(@, Len(late) + 1, Len(@))]
      idle == Prefix(r.activity, LAMBDA id : now - r.entries[id].last_update >= Timeout)
  IN FoldLeft(GiveUp, kept, idle)

(* The oldest arrivals that make way for a message of this length.         *)
Evicted(r, length) ==
  SubSeq(r.arrival, 1,
    Min({k \in 0 .. Len(r.arrival) :
          /\ Len(r.arrival) - k < MaxEntries
          /\ length + r.total - FoldLeft(LAMBDA n, id : n + r.entries[id].original_length,
                                         0, SubSeq(r.arrival, 1, k)) <= MaxBytes}))

Open(r, f) ==
  LET room == FoldLeft(GiveUp, r, Evicted(r, f.length))
      new == [original_length |-> f.length, ranges |-> {}, last_update |-> now]
  IN [room EXCEPT !.entries = [x \in DOMAIN @ \cup {f.id} |-> IF x = f.id THEN new ELSE @[x]],
                  !.arrival = Append(@, f.id), !.activity = Append(@, f.id),
                  !.total = @ + f.length]

Received(ranges) == MapThenSumSet(LAMBDA r : r.end - r.begin, ranges)

Overlaps(f, ranges) == \E r \in ranges : f.begin < r.end /\ f.end > r.begin

Store(r, f) ==
  [r EXCEPT !.entries[f.id].ranges = @ \cup {[begin |-> f.begin, end |-> f.end]},
            !.entries[f.id].last_update = now,
            !.activity = Append(SelectSeq(@, LAMBDA x : x # f.id), f.id)]

(* Variant: nothing is late.                                               *)
NeverLate(r, f) == FALSE

Late(r, f) == f.id \in Ids(r.discarded)

(* accept() on a fragment of a message: the pool it leaves and its answer. *)
Accept(f) ==
  LET r == cleanup_expired(Pool)
      opened == IF f.id \in DOMAIN r.entries THEN r ELSE Open(r, f)
      e == opened.entries[f.id]
      stored == Store(opened, f)
      drop(x) == [pool |-> x, complete |-> FALSE]
  IN CASE f.begin = 0 /\ f.end = f.length -> [pool |-> Pool, complete |-> TRUE]
       [] Late(r, f) -> drop(r)
       [] f.id \notin DOMAIN r.entries /\ f.length > MaxBytes -> drop(remember_discarded(r, f.id))
       [] e.original_length # f.length \/ Cardinality(e.ranges) >= MaxRanges -> drop(GiveUp(opened, f.id))
       [] Overlaps(f, e.ranges) -> drop(opened)
       [] Received(stored.entries[f.id].ranges) # f.length -> drop(stored)
       [] OTHER -> [pool |-> Erase(stored, f.id), complete |-> TRUE]
-----------------------------------------------------------------------------
Becomes(r) ==
  /\ entries' = r.entries /\ arrival_order' = r.arrival /\ activity_order' = r.activity
  /\ total_bytes' = r.total /\ discarded' = r.discarded

(* Messages whose fragments so far are gone.                               *)
Dropped(r) ==
  {m \in DOMAIN entries : m \notin DOMAIN r.entries \/ ~ entries[m].ranges \subseteq r.entries[m].ranges}

Arrive(f) ==
  /\ f \in in_flight
  /\ LET answer == Accept(f) IN
     /\ Becomes(answer.pool)
     /\ complete' = IF answer.complete THEN complete \cup {f.id} ELSE complete
     /\ given_up' = given_up \cup IF answer.complete THEN Dropped(answer.pool) \ {f.id}
                               ELSE Dropped(answer.pool) \cup ({f.id} \ DOMAIN answer.pool.entries)
  /\ in_flight' = in_flight \ {f}
  /\ taken' = IF f.id \in Messages /\ f \in FragmentsOf(f.id) THEN [taken EXCEPT ![f.id] = @ \cup {f}] ELSE taken
  /\ UNCHANGED now

Lose(f) ==
  /\ f \in in_flight
  /\ in_flight' = in_flight \ {f}
  /\ UNCHANGED <<pool, now, taken, complete, given_up>>

(* SessionProtocol::cleanup(), once a second.                              *)
Cleanup ==
  /\ Becomes(cleanup_expired(Pool))
  /\ given_up' = given_up \cup Dropped(cleanup_expired(Pool))
  /\ UNCHANGED <<now, in_flight, taken, complete>>

Tick ==
  /\ now < MaxTime /\ now' = now + 1
  /\ UNCHANGED <<pool, in_flight, taken, complete, given_up>>

Next == (\E f \in in_flight : Arrive(f) \/ Lose(f)) \/ Cleanup \/ Tick

Spec == Init /\ [][Next]_vars
-----------------------------------------------------------------------------
(* The fragments of a packet are its bytes, each byte in one fragment: the *)
(* reassembler, which refuses overlap, can complete it (tunnel.hpp:917).   *)
CoversOnce(n, plan) ==
  /\ UNION {Bytes(f) : f \in Fragments(plan)} = 0 .. n - 1
  /\ \A i, j \in 0 .. plan.count - 1 :
       i # j => Bytes(Fragment(plan, i)) \cap Bytes(Fragment(plan, j)) = {}

(* No datagram is larger than the path carries, whether the packet is sent *)
(* whole or in fragments, and no plan needs more fragments than either end *)
(* keeps room for (tunnel.hpp:899, :862).                                  *)
FitsPath(plan, m, h, r, most) ==
  /\ plan.count \in 1 .. most
  /\ \A f \in Fragments(plan) : h + WireSize(r, plan.count = 1, f.end - f.begin) <= m

(* The two queues are the entries, each once; the byte count is their sum; *)
(* neither limit is exceeded, however the pool was filled, evicted and     *)
(* expired (reassembly.hpp:134, :227).                                     *)
Accounting ==
  /\ ToSet(arrival_order) = DOMAIN entries /\ Len(arrival_order) = Cardinality(DOMAIN entries)
  /\ ToSet(activity_order) = DOMAIN entries /\ Len(activity_order) = Cardinality(DOMAIN entries)
  /\ total_bytes = MapThenSumSet(LAMBDA m : entries[m].original_length, DOMAIN entries)
  /\ total_bytes <= MaxBytes /\ Cardinality(DOMAIN entries) <= MaxEntries
  /\ Len(discarded) <= MaxDiscarded /\ Cardinality(Ids(discarded)) = Len(discarded)

(* Looking at the queue heads alone finds everything that is overdue,      *)
(* because both queues are in the order of their times (:116, :206).       *)
HeadsAreOldest ==
  /\ \A i, j \in DOMAIN activity_order :
       i < j => entries[activity_order[i]].last_update <= entries[activity_order[j]].last_update
  /\ \A i, j \in DOMAIN discarded : i < j => discarded[i].expires <= discarded[j].expires

(* A message is never both given up and being collected: a late fragment   *)
(* does not open again what an eviction or a timeout closed (:120).        *)
ClosedStaysClosed == Ids(discarded) \cap DOMAIN entries = {}

(* An unfinished message has exactly the fragments that arrived, and every *)
(* message whose fragments have all arrived was delivered unless it was    *)
(* given up: accept() neither loses nor invents part of a message (:170).  *)
NothingForgotten ==
  \A m \in Messages \ given_up :
    /\ taken[m] = FragmentsOf(m) => m \in complete
    /\ (taken[m] # {} /\ m \notin complete) =>
         /\ m \in DOMAIN entries
         /\ {<<r.begin, r.end>> : r \in entries[m].ranges} = {<<f.begin, f.end>> : f \in taken[m]}

(* A message is delivered only when every byte of it was written: counting *)
(* bytes is enough because overlap is refused (:181, :190).                *)
DeliversWhole ==
  \A m \in complete' \ complete :
    m \in Messages =>
      LET before == IF m \in DOMAIN entries THEN entries[m].ranges ELSE {}
          last == CHOOSE f \in in_flight \ in_flight' : TRUE
      IN (0 .. Length(m) - 1)
           \subseteq UNION {Bytes(r) : r \in before \cup {last}}
=============================================================================
