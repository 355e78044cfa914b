---------------------------- MODULE ReplayWindow ----------------------------
(***************************************************************************)
(* The 64-value replay window of a session, as the set of the highest      *)
(* sequences accepted so far.  The code keeps the same values in a sorted  *)
(* array; module ReplayArray models that array and is shown to implement   *)
(* these two operators.  (FaultyAccepts forgets the values below a full    *)
(* window; it only shows that the properties can fail.)                    *)
(***************************************************************************)
EXTENDS Naturals, FiniteSets

CONSTANT WindowSize   \* sequences_.size(): 64 in the code

ASSUME WindowSizeAssumption == WindowSize \in Nat \ {0}

Lowest(window) == CHOOSE s \in window : \A t \in window : s <= t

FaultyAccepts(window, s) == s # 0 /\ s \notin window

(* Sequence 0, a retained sequence, and, once the window is full, anything *)
(* below it are refused.                                                   *)
Accepts(window, s) ==
  /\ s # 0
  /\ s \notin window
  /\ \/ Cardinality(window) < WindowSize
     \/ \E t \in window : t < s

(* The window after an accepted sequence: a full window loses its lowest.  *)
Retain(window, s) ==
  IF Cardinality(window) < WindowSize
    THEN window \cup {s}
    ELSE (window \ {Lowest(window)}) \cup {s}

(* What a window is: at most WindowSize sequences.                         *)
IsWindow(w) == w \in SUBSET Nat /\ IsFiniteSet(w) /\ Cardinality(w) <= WindowSize
=============================================================================
