-------------------------------- MODULE Fifo --------------------------------
(***************************************************************************)
(* What a queue between one producer and one consumer promises: items      *)
(* leave in the order they entered, each once, and no more than Capacity   *)
(* wait at a time.                                                         *)
(***************************************************************************)
EXTENDS Naturals, Sequences

CONSTANTS Items, Capacity, Vacant

VARIABLES
  queue,     \* the items that wait
  out        \* the item the consumer took last

Init == queue = <<>> /\ out = Vacant

Push == /\ Len(queue) < Capacity
        /\ \E item \in Items : queue' = Append(queue, item)
        /\ UNCHANGED out

Pop == /\ queue # <<>>
       /\ out' = Head(queue)
       /\ queue' = Tail(queue)

Next == Push \/ Pop

Spec == Init /\ [][Next]_<<queue, out>>
=============================================================================
