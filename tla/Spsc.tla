-------------------------------- MODULE Spsc --------------------------------
(***************************************************************************)
(* The ring between two workers of the switch (switch_mp/queues.hpp, class *)
(* Spsc), access by access.  A load of the other side's index may return   *)
(* any value it held since this side's previous load: release and acquire  *)
(* order the slots behind the indices, and promise nothing about how soon  *)
(* a store is seen.                                                        *)
(***************************************************************************)
EXTENDS Naturals, Sequences

CONSTANTS
  Items,      \* what the producer pushes
  Capacity,   \* constructor argument; the ring has one slot more
  Vacant        \* the content of an unused slot

ASSUME CapacityAssumption == Capacity \in Nat \ {0}

VARIABLES
  write,        \* write_, stored by the producer
  read_cache,   \* the producer's copy of read
  read,         \* read_, stored by the consumer
  write_cache,  \* the consumer's copy of write
  slots,        \* slots_
  producer,     \* where push stands, and the item it carries
  consumer,     \* where pop stands, and the item it has read
  popped        \* the item pop returned last

spscVars == <<write, read_cache, read, write_cache, slots, producer, consumer, popped>>

Count == Capacity + 1
Indices == 0 .. Capacity
After(i) == IF i + 1 = Count THEN 0 ELSE i + 1

(* How many steps lead from index a to index b.                            *)
Ahead(a, b) == IF a <= b THEN b - a ELSE b + Count - a

(* The values of the other side's index since `seen' was read.             *)
Loadable(seen, current) == {i \in Indices : Ahead(seen, i) <= Ahead(seen, current)}

SpscInit ==
  /\ write = 0 /\ read_cache = 0 /\ read = 0 /\ write_cache = 0
  /\ slots = [i \in Indices |-> Vacant]
  /\ producer = [at |-> "idle", item |-> Vacant]
  /\ consumer = [at |-> "idle", item |-> Vacant]
  /\ popped = Vacant
-----------------------------------------------------------------------------
(* push(item): check the cached index and refresh it when the ring looks   *)
(* full, write the slot, publish it.                                       *)

PushCheck ==
  /\ producer.at = "idle"
  /\ \E item \in Items :
       producer' = [at   |-> IF After(write) = read_cache THEN "refresh" ELSE "fill",
                    item |-> item]
  /\ UNCHANGED <<write, read_cache, read, write_cache, slots, consumer, popped>>

(* Variant: the refreshed index is not compared again.                     *)
PushRefreshUnchecked ==
  /\ producer.at = "refresh"
  /\ read_cache' \in Loadable(read_cache, read)
  /\ producer' = [producer EXCEPT !.at = "fill"]
  /\ UNCHANGED <<write, read, write_cache, slots, consumer, popped>>

PushRefresh ==
  /\ producer.at = "refresh"
  /\ \E i \in Loadable(read_cache, read) :
       /\ read_cache' = i
       /\ producer' = IF After(write) = i
                        THEN [at |-> "idle", item |-> Vacant]
                        ELSE [producer EXCEPT !.at = "fill"]
  /\ UNCHANGED <<write, read, write_cache, slots, consumer, popped>>

PushFill ==
  /\ producer.at = "fill"
  /\ slots' = [slots EXCEPT ![write] = producer.item]
  /\ producer' = [producer EXCEPT !.at = "publish"]
  /\ UNCHANGED <<write, read_cache, read, write_cache, consumer, popped>>

PushPublish ==
  /\ producer.at = "publish"
  /\ write' = After(write)
  /\ producer' = [at |-> "idle", item |-> Vacant]
  /\ UNCHANGED <<read_cache, read, write_cache, slots, consumer, popped>>
-----------------------------------------------------------------------------
(* pop(): the mirror image.                                                *)

(* Variant: pop does not ask whether the ring is empty.                    *)
PopUnchecked ==
  /\ consumer.at = "idle"
  /\ consumer' = [consumer EXCEPT !.at = "take"]
  /\ UNCHANGED <<write, read_cache, read, write_cache, slots, producer, popped>>

PopCheck ==
  /\ consumer.at = "idle"
  /\ consumer' = [consumer EXCEPT !.at = IF read = write_cache THEN "refresh" ELSE "take"]
  /\ UNCHANGED <<write, read_cache, read, write_cache, slots, producer, popped>>

PopRefresh ==
  /\ consumer.at = "refresh"
  /\ \E i \in Loadable(write_cache, write) :
       /\ write_cache' = i
       /\ consumer' = [consumer EXCEPT !.at = IF read = i THEN "idle" ELSE "take"]
  /\ UNCHANGED <<write, read_cache, read, slots, producer, popped>>

PopTake ==
  /\ consumer.at = "take"
  /\ consumer' = [at |-> "release", item |-> slots[read]]
  /\ UNCHANGED <<write, read_cache, read, write_cache, slots, producer, popped>>

PopRelease ==
  /\ consumer.at = "release"
  /\ read' = After(read)
  /\ consumer' = [consumer EXCEPT !.at = "idle"]
  /\ popped' = consumer.item
  /\ UNCHANGED <<write, read_cache, write_cache, slots, producer>>

SpscNext ==
  \/ PushCheck \/ PushRefresh \/ PushFill \/ PushPublish
  \/ PopCheck \/ PopRefresh \/ PopTake \/ PopRelease

SpscSpec == SpscInit /\ [][SpscNext]_spscVars
-----------------------------------------------------------------------------
SpscTypeOK ==
  /\ {write, read_cache, read, write_cache} \subseteq Indices
  /\ slots \in [Indices -> Items \cup {Vacant}]
  /\ producer \in [at : {"idle", "refresh", "fill", "publish"}, item : Items \cup {Vacant}]
  /\ consumer \in [at : {"idle", "refresh", "take", "release"}, item : Items \cup {Vacant}]
  /\ popped \in Items \cup {Vacant}

(* The slots are plain pointers: while push writes one, pop is not reading *)
(* the same one, although each side decides from an old copy of the        *)
(* other's index (queues.hpp:33 and :44).                                  *)
SlotsRaceFree == producer.at = "fill" /\ consumer.at = "take" => write # read

(* The items between the two indices, oldest first.                        *)
Slot(i) == IF read + i - 1 < Count THEN read + i - 1 ELSE read + i - 1 - Count
Contents == [i \in 1 .. Ahead(read, write) |-> slots[Slot(i)]]

Queue == INSTANCE Fifo WITH queue <- Contents, out <- popped

(* push and pop of the ring are push and pop of a bounded FIFO queue: no   *)
(* item is lost, repeated, reordered or overwritten (queues.hpp:30-52).    *)
ImplementsFifo == Queue!Spec
=============================================================================
