----------------------------- MODULE ReplayArray -----------------------------
(***************************************************************************)
(* class ReplayWindow of replay.hpp as the code has it: the accepted       *)
(* sequences in descending order in an array of WindowSize slots, of which *)
(* the first sequence_count_ are in use.  accept() binary-searches the     *)
(* insertion place, shifts the tail down by one and lets the last value of *)
(* a full array fall off.  (Faulty... definitions restate the one after    *)
(* them the way a plausible bug would, to show that a property can fail.)  *)
(***************************************************************************)
EXTENDS ReplayWindow, Sequences

CONSTANT MaxSequence    \* bound: the sequences offered are 0 .. MaxSequence

ASSUME MaxSequenceAssumption == MaxSequence \in Nat

VARIABLES sequences,    \* the slots in use
          accepted,     \* history: every sequence accept() returned true for
          offered       \* the last sequence offered and what accept() said

arrayVars == <<sequences, accepted, offered>>

Candidates == 0 .. MaxSequence

(* std::lower_bound with the comparison accepted > candidate: the number   *)
(* of slots that hold a larger value.                                      *)
InsertIndex(slots, s) == Cardinality({i \in 1 .. Len(slots) : slots[i] > s})

ArrayAccepts(slots, s) ==
  LET index == InsertIndex(slots, s)
  IN  /\ s # 0
      /\ ~ (index < Len(slots) /\ slots[index + 1] = s)
      /\ index # WindowSize

FaultyArrayInsert(slots, s) ==
  LET index == InsertIndex(slots, s)
  IN  [i \in 1 .. Len(slots) + 1 |->
         CASE i <= index     -> slots[i]
           [] i = index + 1  -> s
           [] i > index + 1  -> slots[i - 1]]

(* The shift loop and the store: everything from the insertion place on    *)
(* moves one slot down, and the count saturates at the array size.         *)
ArrayInsert(slots, s) ==
  LET index == InsertIndex(slots, s)
      count == IF Len(slots) + 1 < WindowSize THEN Len(slots) + 1 ELSE WindowSize
  IN  [i \in 1 .. count |->
         CASE i <= index     -> slots[i]
           [] i = index + 1  -> s
           [] i > index + 1  -> slots[i - 1]]

ArrayInit ==
  /\ sequences = <<>>
  /\ accepted = {}
  /\ offered = [sequence |-> 0, taken |-> FALSE]

Accept(s) ==
  /\ ArrayAccepts(sequences, s)
  /\ sequences' = ArrayInsert(sequences, s)
  /\ accepted' = accepted \cup {s}
  /\ offered' = [sequence |-> s, taken |-> TRUE]

Reject(s) ==
  /\ ~ ArrayAccepts(sequences, s)
  /\ offered' = [sequence |-> s, taken |-> FALSE]
  /\ UNCHANGED <<sequences, accepted>>

ArrayNext == \E s \in Candidates : Accept(s) \/ Reject(s)

ArraySpec == ArrayInit /\ [][ArrayNext]_arrayVars

-----------------------------------------------------------------------------
Held(slots) == {slots[i] : i \in 1 .. Len(slots)}

(* The count never exceeds the array of replay.hpp:72.                     *)
ArrayTypeOK ==
  /\ Len(sequences) <= WindowSize
  /\ Held(sequences) \subseteq Nat
  /\ accepted \subseteq Candidates

(* The array implements the set operators the session model uses: same     *)
(* verdict on every sequence, same retained values after it (replay.hpp:47, *)
(* :62).                                                                   *)
ImplementsWindow ==
  \A s \in Candidates :
    /\ ArrayAccepts(sequences, s) <=> Accepts(Held(sequences), s)
    /\ ArrayAccepts(sequences, s) =>
         Held(ArrayInsert(sequences, s)) = Retain(Held(sequences), s)
=============================================================================
