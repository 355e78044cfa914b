----------------------------- MODULE PartProofs -----------------------------
(***************************************************************************)
(* The small parts, each for every size: the replay window and its array,  *)
(* the ring between two workers, and the INFO thread.                      *)
(***************************************************************************)
EXTENDS ReplayArray, Spsc, InfoWorker, FiniteSetTheorems, WellFoundedInduction, TLAPS

-----------------------------------------------------------------------------
(* The replay window.                                                      *)

(* A nonempty window has a lowest sequence.                                *)
LEMMA LowestExists ==
  ASSUME NEW w \in SUBSET Nat, w # {}
  PROVE  Lowest(w) \in w /\ \A t \in w : Lowest(w) <= t
<1>1. \E s \in w : \A t \in w : ~ (<<t, s>> \in OpToRel(<, Nat))
  BY Zenon, NatLessThanWellFounded, WFMin
<1>2. PICK s \in w : \A t \in w : ~ (<<t, s>> \in OpToRel(<, Nat))
  BY Zenon, <1>1
<1>3. \A x, y \in Nat : <<x, y>> \in OpToRel(<, Nat) <=> x < y
  BY DEF OpToRel
<1>4. s \in Nat /\ \A t \in w : t \in Nat /\ ~ (t < s)
  BY Zenon, <1>2, <1>3
<1>5. \A t \in w : s <= t
  BY <1>4
<1>6. QED
  BY Zenon, <1>5 DEF Lowest

(* A window keeps its shape when it accepts a sequence, contains that      *)
(* sequence, and goes on refusing whatever it refused: neither a sequence  *)
(* it held nor one below it is ever accepted again, although the lowest is *)
(* forgotten.                                                              *)
LEMMA WindowRetains ==
  ASSUME NEW w, IsWindow(w), NEW d \in Nat, Accepts(w, d)
  PROVE  /\ IsWindow(Retain(w, d)) /\ d \in Retain(w, d)
         /\ \A c \in Nat : ~ Accepts(w, c) => ~ Accepts(Retain(w, d), c)
<1>1. /\ WindowSize \in Nat /\ WindowSize >= 1 /\ d \notin w
      /\ Cardinality(w) \in Nat
  BY WindowSizeAssumption, FS_CardinalityType DEF Accepts, IsWindow
<1>2. CASE Cardinality(w) < WindowSize
  <2>1. Retain(w, d) = w \cup {d}
    BY <1>2 DEF Retain
  <2>2. IsFiniteSet(w \cup {d}) /\ Cardinality(w \cup {d}) = Cardinality(w) + 1
    BY <1>1, FS_AddElement DEF IsWindow
  <2>3. IsWindow(Retain(w, d))
    BY <1>1, <1>2, <2>1, <2>2 DEF IsWindow
  <2>4. \A c \in Nat : ~ Accepts(w, c) => ~ Accepts(Retain(w, d), c)
    BY <1>2, <2>1 DEF Accepts
  <2>5. QED
    BY <2>1, <2>3, <2>4
<1>3. CASE Cardinality(w) = WindowSize
  <2> DEFINE low == Lowest(w)
             rest == w \ {low}
  <2>1. w # {}
    BY <1>1, <1>3, FS_EmptySet
  <2>2. low \in w /\ \A t \in w : low <= t
    BY <2>1, LowestExists DEF IsWindow
  <2>3. Retain(w, d) = rest \cup {d}
    BY <1>1, <1>3 DEF Retain
  <2> HIDE DEF low
  <2>4. IsFiniteSet(rest) /\ Cardinality(rest) = Cardinality(w) - 1
    BY <2>2, FS_RemoveElement DEF IsWindow
  <2>5. IsFiniteSet(rest \cup {d}) /\ Cardinality(rest \cup {d}) = Cardinality(rest) + 1
    BY Zenon, <1>1, <2>4, FS_AddElement
  <2>6. Cardinality(Retain(w, d)) = WindowSize
    BY <1>1, <1>3, <2>3, <2>4, <2>5
  <2>7. IsWindow(Retain(w, d))
    <3>1. Retain(w, d) \in SUBSET Nat
      BY Zenon, <2>3 DEF IsWindow
    <3>2. IsFiniteSet(Retain(w, d))
      BY <2>3, <2>5
    <3>3. QED
      BY <1>1, <2>6, <3>1, <3>2 DEF IsWindow
  <2>8. low < d /\ low \in Nat /\ w \subseteq Nat
    <3>1. PICK t \in w : t < d
      BY <1>1, <1>3 DEF Accepts
    <3>2. low <= t /\ w \subseteq Nat
      BY <2>2 DEF IsWindow
    <3>3. QED
      BY <2>2, <3>1, <3>2
  <2>9. ASSUME NEW c \in Nat, ~ Accepts(w, c) PROVE ~ Accepts(Retain(w, d), c)
    <3>1. c = 0 \/ c \in w \/ \A t \in w : ~ (t < c)
      BY <2>9 DEF Accepts
    <3>2. CASE c \in Retain(w, d) \/ c = 0
      BY <3>2 DEF Accepts
    <3>3. CASE c \notin Retain(w, d) /\ c # 0
      <4>1. c <= low
        BY <2>2, <2>3, <2>8, <3>1, <3>3
      <4>2. \A t \in Retain(w, d) : ~ (t < c)
        <5>1. \A t \in w : t \in Nat /\ low <= t
          BY <2>2, <2>8
        <5>2. \A t \in w : ~ (t < c)
          BY <2>8, <4>1, <5>1
        <5>3. ~ (d < c)
          BY <2>8, <4>1
        <5>4. \A t \in Retain(w, d) : t \in w \/ t = d
          BY <2>3
        <5>5. QED
          BY Zenon, <5>2, <5>3, <5>4
      <4>3. QED
        BY <1>1, <2>6, <4>2 DEF Accepts
    <3>4. QED
      BY <3>2, <3>3
  <2>10. QED
    BY <2>3, <2>7, <2>9
<1>4. QED
  BY <1>1, <1>2, <1>3 DEF IsWindow

-----------------------------------------------------------------------------
(* The sorted array                                                        *)

(* The slots in use are in descending order and within the array.          *)
Descending(q) ==
  /\ q \in Seq(Nat) /\ Len(q) <= WindowSize
  /\ \A i, j \in 1 .. Len(q) : i < j => q[i] > q[j]

(* The insertion place splits the slots into the larger and the others.    *)
LEMMA IndexSplits ==
  ASSUME NEW q, Descending(q), NEW s \in Nat
  PROVE  /\ InsertIndex(q, s) \in 0 .. Len(q)
         /\ \A i \in 1 .. Len(q) : q[i] > s <=> i <= InsertIndex(q, s)
<1> DEFINE n == Len(q)
           J == {i \in 1 .. n + 1 : i = n + 1 \/ ~ (q[i] > s)}
           j == Lowest(J)
<1>1. n \in Nat /\ \A i \in 1 .. n : q[i] \in Nat
  BY DEF Descending
<1>2. J \in SUBSET Nat /\ n + 1 \in J
  BY <1>1
<1>3. j \in J /\ \A t \in J : j <= t
  BY <1>2, LowestExists
<1> HIDE DEF j
<1>4. j \in 1 .. n + 1
  BY <1>3
<1>5. \A i \in 1 .. n : i < j => q[i] > s
  BY <1>1, <1>3, <1>4
<1>6. ASSUME NEW i \in 1 .. n, i >= j PROVE ~ (q[i] > s)
  <2>1. j \in 1 .. n /\ ~ (q[j] > s)
    BY <1>1, <1>3, <1>4, <1>6
  <2>2. i = j \/ q[j] > q[i]
    BY <1>6, <2>1 DEF Descending
  <2> QED
    BY <1>1, <2>1, <2>2
<1>7. {i \in 1 .. n : q[i] > s} = 1 .. j - 1
  BY <1>1, <1>4, <1>5, <1>6
<1>8. Cardinality(1 .. j - 1) = j - 1
  BY <1>1, <1>4, FS_Interval
<1>9. InsertIndex(q, s) = j - 1
  BY <1>7, <1>8 DEF InsertIndex
<1> QED
  BY <1>1, <1>4, <1>5, <1>6, <1>9

(* As many values as slots.                                                *)
LEMMA HeldCounted ==
  ASSUME NEW q, Descending(q)
  PROVE  /\ Held(q) \in SUBSET Nat /\ IsFiniteSet(Held(q))
         /\ Cardinality(Held(q)) = Len(q)
<1> DEFINE n == Len(q)
           f == [i \in 1 .. n |-> q[i]]
<1>1. n \in Nat /\ \A i \in 1 .. n : q[i] \in Nat
  BY DEF Descending
<1>2. IsFiniteSet(1 .. n) /\ Cardinality(1 .. n) = n
  <2>1. 1 \in Int /\ n \in Int
    BY <1>1
  <2>2. /\ IsFiniteSet(1 .. n)
        /\ Cardinality(1 .. n) = IF 1 > n THEN 0 ELSE n - 1 + 1
    BY Zenon, <2>1, FS_Interval
  <2> HIDE DEF n
  <2> QED
    BY <1>1, <2>2
<1>3. f \in [1 .. n -> Held(q)]
  BY DEF Held
<1>4. \A i, j \in 1 .. n : f[i] = f[j] => i = j
  BY <1>1 DEF Descending
<1>5. \A t \in Held(q) : \E i \in 1 .. n : f[i] = t
  BY DEF Held
<1> HIDE DEF f
<1>6. f \in Bijection(1 .. n, Held(q))
  BY <1>3, <1>4, <1>5 DEF Bijection, Injection, Surjection, IsInjective
<1>7. ExistsBijection(1 .. n, Held(q))
  BY <1>6 DEF ExistsBijection
<1>8. IsFiniteSet(Held(q)) /\ Cardinality(Held(q)) = n
  BY <1>2, <1>7, FS_Bijection
<1> QED
  BY <1>1, <1>8 DEF Held

(* Binary search and comparison come to the test on the set.               *)
LEMMA SameVerdict ==
  ASSUME NEW q, Descending(q), NEW s \in Nat
  PROVE  ArrayAccepts(q, s) <=> Accepts(Held(q), s)
<1> DEFINE n == Len(q)
           k == InsertIndex(q, s)
<1>1. n \in Nat /\ n <= WindowSize /\ WindowSize \in Nat /\ \A i \in 1 .. n : q[i] \in Nat
  BY WindowSizeAssumption DEF Descending
<1>2. k \in 0 .. n /\ \A i \in 1 .. n : q[i] > s <=> i <= k
  BY IndexSplits
<1>3. Cardinality(Held(q)) = n
  BY HeldCounted
<1> HIDE DEF k
<1>4. s \in Held(q) <=> k < n /\ q[k + 1] = s
  <2>1. ASSUME s \in Held(q) PROVE k < n /\ q[k + 1] = s
    <3>1. PICK i \in 1 .. n : q[i] = s
      BY <2>1 DEF Held
    <3>2. i > k
      BY <1>1, <1>2, <3>1
    <3>3. k + 1 \in 1 .. n /\ ~ (q[k + 1] > s)
      BY <1>1, <1>2, <3>2
    <3>4. i = k + 1 \/ q[k + 1] > q[i]
      BY <1>1, <1>2, <3>2, <3>3 DEF Descending
    <3> QED
      BY <1>1, <1>2, <3>1, <3>3, <3>4
  <2>2. ASSUME k < n, q[k + 1] = s PROVE s \in Held(q)
    BY <1>1, <1>2, <2>2 DEF Held
  <2> QED
    BY <2>1, <2>2
<1>5. ASSUME s \notin Held(q)
      PROVE  k # WindowSize <=> (n < WindowSize \/ \E t \in Held(q) : t < s)
  <2>1. CASE n < WindowSize
    BY <1>1, <1>2, <2>1
  <2>2. CASE n = WindowSize
    <3>1. ASSUME k # WindowSize PROVE \E t \in Held(q) : t < s
      <4>1. k + 1 \in 1 .. n /\ ~ (q[k + 1] > s)
        BY <1>1, <1>2, <2>2, <3>1
      <4>2. q[k + 1] \in Held(q)
        BY <4>1 DEF Held
      <4> QED
        BY <1>1, <1>5, <4>1, <4>2
    <3>2. ASSUME NEW t \in Held(q), t < s PROVE k # WindowSize
      <4>1. PICK i \in 1 .. n : q[i] = t
        BY DEF Held
      <4> QED
        BY <1>1, <1>2, <2>2, <3>2, <4>1
    <3> QED
      BY <2>2, <3>1, <3>2
  <2> QED
    BY <1>1, <2>1, <2>2
<1> QED
  BY <1>3, <1>4, <1>5 DEF ArrayAccepts, Accepts, k

(* The shift keeps the order, the size and the highest values.             *)
LEMMA InsertRetains ==
  ASSUME NEW q, Descending(q), NEW s \in Nat, ArrayAccepts(q, s)
  PROVE  /\ Descending(ArrayInsert(q, s))
         /\ Held(ArrayInsert(q, s)) = Retain(Held(q), s)
<1> DEFINE n == Len(q)
           k == InsertIndex(q, s)
           count == IF n + 1 < WindowSize THEN n + 1 ELSE WindowSize
           r == ArrayInsert(q, s)
           slot(i) == CASE i <= k -> q[i] [] i = k + 1 -> s [] i > k + 1 -> q[i - 1]
<1>1. /\ n \in Nat /\ n <= WindowSize /\ WindowSize \in Nat /\ WindowSize >= 1
      /\ \A i \in 1 .. n : q[i] \in Nat
      /\ \A i, j \in 1 .. n : i < j => q[i] > q[j]
  BY WindowSizeAssumption DEF Descending
<1>2. k \in 0 .. n /\ \A i \in 1 .. n : q[i] > s <=> i <= k
  BY IndexSplits
<1>3. /\ k # WindowSize /\ s \notin Held(q)
  BY SameVerdict DEF ArrayAccepts, Accepts
<1>4. \A i \in 1 .. n : i > k => s > q[i]
  <2>1. \A i \in 1 .. n : q[i] # s
    BY <1>3 DEF Held
  <2> QED
    BY <1>1, <1>2, <2>1
<1>5. r = [i \in 1 .. count |-> slot(i)]
  BY DEF ArrayInsert
<1> HIDE DEF k, r
<1>6. count \in Nat /\ count <= n + 1 /\ count <= WindowSize /\ k + 1 <= count /\ count >= n
  BY <1>1, <1>2, <1>3
<1>7. /\ \A i \in 1 .. count : i <= k => i \in 1 .. n /\ r[i] = q[i]
      /\ r[k + 1] = s /\ k + 1 \in 1 .. count
      /\ \A i \in 1 .. count : i > k + 1 => i - 1 \in 1 .. n /\ r[i] = q[i - 1]
  <2>1. \A i \in 1 .. count : i <= k => i \in 1 .. n /\ r[i] = q[i]
    BY <1>1, <1>2, <1>5, <1>6
  <2>2. r[k + 1] = s /\ k + 1 \in 1 .. count
    BY <1>2, <1>5, <1>6
  <2>3. \A i \in 1 .. count : i > k + 1 => i - 1 \in 1 .. n /\ r[i] = q[i - 1]
    BY <1>1, <1>2, <1>5, <1>6
  <2> QED
    BY <2>1, <2>2, <2>3
<1> HIDE DEF count
<1>8. \A i \in 1 .. count : r[i] \in Nat
  <2> SUFFICES ASSUME NEW i \in 1 .. count PROVE r[i] \in Nat
    OBVIOUS
  <2>1. i <= k \/ i = k + 1 \/ i > k + 1
    BY <1>2, <1>6
  <2> QED
    BY <1>1, <1>7, <2>1
<1>9. r \in Seq(Nat) /\ Len(r) = count
  <2>1. r = [i \in 1 .. count |-> r[i]]
    <3> HIDE DEF slot
    <3> QED
      BY <1>5
  <2> QED
    BY <1>6, <1>8, <2>1
<1>10. ASSUME NEW i \in 1 .. count, NEW j \in 1 .. count, i < j PROVE r[i] > r[j]
  <2>1. CASE j <= k
    BY <1>1, <1>2, <1>6, <1>7, <1>10, <2>1
  <2>2. CASE j = k + 1
    BY <1>1, <1>2, <1>6, <1>7, <1>10, <2>2
  <2>3. CASE j > k + 1 /\ i <= k
    BY <1>1, <1>2, <1>6, <1>7, <1>10, <2>3
  <2>4. CASE j > k + 1 /\ i = k + 1
    BY <1>1, <1>2, <1>4, <1>6, <1>7, <1>10, <2>4
  <2>5. CASE i > k + 1
    <3>1. j > k + 1
      BY <1>2, <1>6, <1>10, <2>5
    <3>2. i - 1 \in 1 .. n /\ r[i] = q[i - 1] /\ j - 1 \in 1 .. n /\ r[j] = q[j - 1]
      BY <1>7, <2>5, <3>1
    <3>3. i - 1 < j - 1
      BY <1>6, <1>10
    <3> QED
      BY <1>1, <3>2, <3>3
  <2> QED
    BY <1>2, <1>6, <2>1, <2>2, <2>3, <2>4, <2>5
<1>11. Descending(r)
  BY <1>6, <1>9, <1>10 DEF Descending
<1>12. Cardinality(Held(q)) = n /\ Held(q) \in SUBSET Nat
  BY HeldCounted
<1>13. Held(r) = {r[i] : i \in 1 .. count}
  BY <1>9 DEF Held
<1>14. CASE n < WindowSize
  <2>1. count = n + 1
    BY <1>1, <1>14 DEF count
  <2>2. ASSUME NEW t \in Held(q) PROVE t \in Held(r)
    <3>1. PICK i \in 1 .. n : t = q[i]
      BY DEF Held
    <3>2. CASE i <= k
      <4>1. i \in 1 .. count
        BY <1>1, <2>1
      <4>2. r[i] = q[i]
        BY <1>7, <3>2, <4>1
      <4> QED
        BY <1>13, <3>1, <4>1, <4>2
    <3>3. CASE i > k
      <4>1. i + 1 \in 1 .. count /\ i + 1 > k + 1 /\ (i + 1) - 1 = i
        BY <1>1, <1>2, <2>1, <3>3
      <4>2. r[i + 1] = q[i]
        BY <1>7, <4>1
      <4> QED
        BY <1>13, <3>1, <4>1, <4>2
    <3> QED
      BY <1>1, <1>2, <3>2, <3>3
  <2>3. ASSUME NEW t \in Held(r) PROVE t \in Held(q) \cup {s}
    <3>1. PICK i \in 1 .. count : t = r[i]
      BY <1>13
    <3>2. i <= k \/ i = k + 1 \/ i > k + 1
      BY <1>2, <1>6
    <3>3. t = s \/ \E l \in 1 .. n : t = q[l]
      BY <1>7, <3>1, <3>2
    <3> QED
      BY <3>3 DEF Held
  <2>4. s \in Held(r)
    BY <1>7, <1>13
  <2>5. Held(r) = Held(q) \cup {s}
    BY <2>2, <2>3, <2>4
  <2> QED
    BY <1>11, <1>12, <1>14, <2>5 DEF Retain, r
<1>15. CASE n = WindowSize
  <2>1. count = n /\ k < n /\ n \in 1 .. n
    BY <1>1, <1>2, <1>3, <1>15 DEF count
  <2>2. \A i \in 1 .. n : q[n] <= q[i]
    BY <1>1, <2>1
  <2>3. q[n] \in Held(q) /\ \A t \in Held(q) : q[n] <= t
    BY <2>1, <2>2 DEF Held
  <2>4. Lowest(Held(q)) = q[n]
    <3>1. Lowest(Held(q)) \in Held(q) /\ \A t \in Held(q) : Lowest(Held(q)) <= t
      BY <1>12, <2>3, LowestExists
    <3> QED
      BY <1>12, <2>3, <3>1
  <2>5. ASSUME NEW t \in Held(q), t # q[n] PROVE t \in Held(r)
    <3>1. PICK i \in 1 .. n : t = q[i]
      BY DEF Held
    <3>2. i < n
      BY <1>1, <2>5, <3>1
    <3>3. CASE i <= k
      <4>1. i \in 1 .. count
        BY <2>1
      <4>2. r[i] = q[i]
        BY <1>7, <3>3, <4>1
      <4> QED
        BY <1>13, <3>1, <4>1, <4>2
    <3>4. CASE i > k
      <4>1. i + 1 \in 1 .. count /\ i + 1 > k + 1 /\ (i + 1) - 1 = i
        BY <1>1, <1>2, <2>1, <3>2, <3>4
      <4>2. r[i + 1] = q[i]
        BY <1>7, <4>1
      <4> QED
        BY <1>13, <3>1, <4>1, <4>2
    <3> QED
      BY <1>1, <1>2, <3>3, <3>4
  <2>6. ASSUME NEW t \in Held(r) PROVE t = s \/ (t \in Held(q) /\ t # q[n])
    <3>1. PICK i \in 1 .. count : t = r[i]
      BY <1>13
    <3>2. CASE i <= k
      <4>1. i \in 1 .. n /\ i < n /\ t = q[i]
        BY <1>1, <1>2, <1>7, <2>1, <3>1, <3>2
      <4> QED
        BY <1>1, <2>1, <4>1 DEF Held
    <3>3. CASE i > k + 1
      <4>1. i - 1 \in 1 .. n /\ i - 1 < n /\ t = q[i - 1]
        BY <1>1, <1>2, <1>7, <2>1, <3>1, <3>3
      <4> QED
        BY <1>1, <2>1, <4>1 DEF Held
    <3> QED
      BY <1>2, <1>6, <1>7, <3>1, <3>2, <3>3
  <2>7. s \in Held(r)
    BY <1>7, <1>13
  <2>8. Held(r) = (Held(q) \ {q[n]}) \cup {s}
    BY <2>5, <2>6, <2>7
  <2> QED
    BY <1>1, <1>11, <1>12, <1>15, <2>4, <2>8 DEF Retain, r
<1> QED
  BY <1>1, <1>14, <1>15

(* The sorted array of replay.hpp, of any size, is the window that the     *)
(* session theorems are about: it gives every sequence the verdict of the  *)
(* set of the highest sequences accepted, and holds that set afterwards    *)
(* (replay.hpp:47, :62).                                                   *)
THEOREM ArrayIsWindow == ArraySpec => []ImplementsWindow
<1>1. ArrayInit => Descending(sequences)
  BY WindowSizeAssumption DEF ArrayInit, Descending
<1>2. Descending(sequences) /\ [ArrayNext]_arrayVars => Descending(sequences)'
  <2>1. Candidates \subseteq Nat
    BY MaxSequenceAssumption DEF Candidates
  <2>2. ASSUME Descending(sequences), NEW s \in Candidates, Accept(s) PROVE Descending(sequences')
    BY <2>1, <2>2, InsertRetains DEF Accept
  <2>3. ASSUME Descending(sequences), NEW s \in Candidates, Reject(s) PROVE Descending(sequences')
    BY <2>3 DEF Reject
  <2>4. Descending(sequences)' <=> Descending(sequences')
    BY DEF Descending
  <2> QED
    BY <2>2, <2>3, <2>4 DEF ArrayNext, arrayVars
<1>3. Descending(sequences) => ImplementsWindow
  <2>1. Candidates \subseteq Nat
    BY MaxSequenceAssumption DEF Candidates
  <2> QED
    BY <2>1, SameVerdict, InsertRetains DEF ImplementsWindow
<1> QED
  BY <1>1, <1>2, <1>3, PTL DEF ArraySpec

-----------------------------------------------------------------------------
(* The ring is race free and implements the queue, for every capacity and *)
(* every set of items.                                                     *)

(* Each side errs on the safe side: the producer takes the ring for at     *)
(* least as full, the consumer for at most as full, as it is.  A side that *)
(* passed its check stays clear of the other until it has stored its index.*)
RingInv ==
  /\ SpscTypeOK
  /\ Ahead(read, write) <= Ahead(read_cache, write)
  /\ Ahead(read, write_cache) <= Ahead(read, write)
  /\ producer.at # "idle" => producer.item \in Items
  /\ producer.at \in {"fill", "publish"} => After(write) # read_cache
  /\ producer.at = "publish" => slots[write] = producer.item
  /\ consumer.at \in {"take", "release"} => read # write_cache
  /\ consumer.at = "release" => consumer.item = slots[read]

-----------------------------------------------------------------------------
(* Arithmetic of the ring.                                                 *)

LEMMA IndexFacts ==
  /\ Capacity \in Nat /\ Capacity > 0 /\ Count = Capacity + 1
  /\ 0 \in Indices
  /\ \A i \in Indices : i \in Nat /\ i <= Capacity /\ After(i) \in Indices
  /\ \A i, j \in Indices : Ahead(i, j) \in 0 .. Capacity
  /\ \A i, j \in Indices : Ahead(i, j) = 0 <=> i = j
BY CapacityAssumption DEF Count, Indices, After, Ahead

(* A refreshed copy lies between the old one and the index itself.         *)
LEMMA RefreshedRead ==
  ASSUME NEW r \in Indices, NEW w \in Indices, NEW c \in Indices,
         Ahead(r, w) <= Ahead(c, w), NEW i \in Loadable(c, r)
  PROVE  i \in Indices /\ Ahead(r, w) <= Ahead(i, w)
BY IndexFacts DEF Loadable, Ahead, Indices

LEMMA RefreshedWrite ==
  ASSUME NEW r \in Indices, NEW w \in Indices, NEW c \in Indices,
         Ahead(r, c) <= Ahead(r, w), NEW i \in Loadable(c, w)
  PROVE  i \in Indices /\ Ahead(r, i) <= Ahead(r, w)
BY IndexFacts DEF Loadable, Ahead, Indices

(* Room for one more: storing the index keeps both estimates.              *)
LEMMA Advanced ==
  ASSUME NEW r \in Indices, NEW w \in Indices, NEW rc \in Indices, NEW wc \in Indices,
         Ahead(r, w) <= Ahead(rc, w), Ahead(r, wc) <= Ahead(r, w)
  PROVE  /\ After(w) # rc =>
              /\ Ahead(r, w) < Capacity
              /\ Ahead(r, After(w)) = Ahead(r, w) + 1
              /\ Ahead(r, After(w)) <= Ahead(rc, After(w))
              /\ Ahead(r, wc) <= Ahead(r, After(w))
         /\ r # wc =>
              /\ r # w /\ Ahead(r, w) > 0
              /\ Ahead(After(r), w) = Ahead(r, w) - 1
              /\ Ahead(After(r), w) <= Ahead(rc, w)
              /\ Ahead(After(r), wc) <= Ahead(After(r), w)
BY IndexFacts DEF Ahead, After, Indices

-----------------------------------------------------------------------------
LEMMA RingInit == SpscInit => RingInv
BY IndexFacts DEF SpscInit, RingInv, SpscTypeOK

LEMMA RingStep ==
  ASSUME RingInv, [SpscNext]_spscVars
  PROVE  RingInv'
<1>1. /\ write \in Indices /\ read_cache \in Indices
      /\ read \in Indices /\ write_cache \in Indices
  BY DEF RingInv, SpscTypeOK
<1>2. CASE PushCheck
  BY <1>2 DEF PushCheck, RingInv, SpscTypeOK
<1>3. CASE PushRefresh
  BY <1>1, <1>3, RefreshedRead DEF PushRefresh, RingInv, SpscTypeOK
<1>4. CASE PushFill
  <2>1. consumer.at \in {"take", "release"} => read # write
    BY <1>1, Advanced DEF RingInv
  <2>2. QED
    BY <1>1, <1>4, <2>1 DEF PushFill, RingInv, SpscTypeOK
<1>5. CASE PushPublish
  <2>1. After(write) \in Indices /\ After(write) # read_cache
    BY <1>1, <1>5, IndexFacts DEF PushPublish, RingInv
  <2>2. /\ Ahead(read, write)' <= Ahead(read_cache, write)'
        /\ Ahead(read, write_cache)' <= Ahead(read, write)'
    BY <1>1, <1>5, <2>1, Advanced DEF PushPublish, RingInv
  <2>3. QED
    BY <1>1, <1>5, <2>1, <2>2 DEF PushPublish, RingInv, SpscTypeOK
<1>6. CASE PopCheck
  BY <1>6 DEF PopCheck, RingInv, SpscTypeOK
<1>7. CASE PopRefresh
  BY <1>1, <1>7, RefreshedWrite DEF PopRefresh, RingInv, SpscTypeOK
<1>8. CASE PopTake
  BY <1>1, <1>8 DEF PopTake, RingInv, SpscTypeOK
<1>9. CASE PopRelease
  <2>1. After(read) \in Indices /\ read # write_cache
    BY <1>1, <1>9, IndexFacts DEF PopRelease, RingInv
  <2>2. /\ Ahead(read, write)' <= Ahead(read_cache, write)'
        /\ Ahead(read, write_cache)' <= Ahead(read, write)'
    BY <1>1, <1>9, <2>1, Advanced DEF PopRelease, RingInv
  <2>3. QED
    BY <1>1, <1>9, <2>1, <2>2 DEF PopRelease, RingInv, SpscTypeOK
<1>10. CASE UNCHANGED spscVars
  BY <1>10 DEF spscVars, RingInv, SpscTypeOK
<1>11. QED
  BY <1>2, <1>3, <1>4, <1>5, <1>6, <1>7, <1>8, <1>9, <1>10 DEF SpscNext

(* Whatever the capacity, the two threads never touch one slot at a time.  *)
THEOREM RaceFree == SpscSpec => []SlotsRaceFree
<1>1. RingInv => SlotsRaceFree
  BY Advanced DEF RingInv, SpscTypeOK, SlotsRaceFree
<1>2. RingInv /\ [SpscNext]_spscVars => RingInv'
  BY RingStep
<1>3. QED
  BY <1>1, <1>2, RingInit, PTL DEF SpscSpec
-----------------------------------------------------------------------------
(* The items between the indices, under each access.                       *)

LEMMA ContentsFacts ==
  ASSUME RingInv
  PROVE  /\ Contents \in Seq(Items \cup {Vacant})
         /\ Len(Contents) = Ahead(read, write)
         /\ \A i \in 1 .. Ahead(read, write) :
              /\ Slot(i) \in Indices /\ Slot(i) # write
              /\ Contents[i] = slots[Slot(i)]
<1>1. /\ write \in Indices /\ read \in Indices
      /\ slots \in [Indices -> Items \cup {Vacant}]
  BY DEF RingInv, SpscTypeOK
<1>2. Ahead(read, write) \in Nat /\ Ahead(read, write) <= Capacity
  BY <1>1, IndexFacts
<1>3. \A i \in 1 .. Ahead(read, write) : Slot(i) \in Indices /\ Slot(i) # write
  BY <1>1, <1>2, IndexFacts DEF Slot, Ahead, Indices
<1>4. \A i \in 1 .. Ahead(read, write) : slots[Slot(i)] \in Items \cup {Vacant}
  BY <1>1, <1>3
<1>5. QED
  BY <1>2, <1>3, <1>4 DEF Contents

LEMMA FilledOutside ==
  ASSUME RingInv, PushFill
  PROVE  Contents' = Contents
<1>1. /\ read' = read /\ write' = write
      /\ \A i \in Indices : i # write => slots'[i] = slots[i]
  BY DEF PushFill, RingInv, SpscTypeOK
<1>2. \A i \in 1 .. Ahead(read, write) : slots'[Slot(i)] = slots[Slot(i)]
  BY <1>1, ContentsFacts
<1>3. QED
  BY <1>1, <1>2 DEF Contents, Slot

LEMMA Published ==
  ASSUME RingInv, PushPublish
  PROVE  /\ Len(Contents) < Capacity
         /\ producer.item \in Items
         /\ Contents' = Append(Contents, producer.item)
<1> DEFINE n == Ahead(read, write)
<1>1. /\ write \in Indices /\ read \in Indices /\ n \in Nat
      /\ write' = After(write) /\ read' = read /\ slots' = slots
      /\ slots[write] = producer.item /\ producer.item \in Items
  BY IndexFacts DEF PushPublish, RingInv, SpscTypeOK
<1>2. n < Capacity /\ Ahead(read', write') = n + 1
  BY <1>1, Advanced DEF PushPublish, RingInv, SpscTypeOK
<1>3. Slot(n + 1) = write
  BY <1>1, IndexFacts DEF Slot, Ahead, Indices
<1>4. Contents' = [i \in 1 .. n + 1 |-> slots[Slot(i)]]
  BY <1>1, <1>2 DEF Contents, Slot
<1>5. Append(Contents, producer.item)
        = [i \in 1 .. n + 1 |-> IF i = n + 1 THEN producer.item ELSE Contents[i]]
  BY <1>1, ContentsFacts
<1>6. \A i \in 1 .. n + 1 :
        slots[Slot(i)] = IF i = n + 1 THEN producer.item ELSE Contents[i]
  BY <1>1, <1>3, ContentsFacts
<1>7. QED
  BY <1>1, <1>2, <1>4, <1>5, <1>6, ContentsFacts

(* Two facts about sequences.                                              *)
LEMMA SameSequence ==
  ASSUME NEW S, NEW s \in Seq(S), NEW t \in Seq(S), Len(s) = Len(t),
         \A i \in 1 .. Len(s) : s[i] = t[i]
  PROVE  s = t
OBVIOUS

LEMMA TailShifts ==
  ASSUME NEW S, NEW s \in Seq(S), s # <<>>
  PROVE  /\ Tail(s) \in Seq(S) /\ Len(Tail(s)) = Len(s) - 1
         /\ \A i \in 1 .. Len(s) - 1 : Tail(s)[i] = s[i + 1]
OBVIOUS

LEMMA Released ==
  ASSUME RingInv, PopRelease
  PROVE  /\ Contents # <<>>
         /\ popped' = Head(Contents)
         /\ Contents' = Tail(Contents)
<1> DEFINE n == Ahead(read, write)
<1>1. /\ write \in Indices /\ read \in Indices /\ n \in Nat
      /\ write' = write /\ read' = After(read) /\ slots' = slots
      /\ popped' = slots[read]
  BY IndexFacts DEF PopRelease, RingInv, SpscTypeOK
<1>2. n > 0 /\ Ahead(read', write') = n - 1
  BY <1>1, Advanced DEF PopRelease, RingInv, SpscTypeOK
<1>3. Slot(1) = read
  BY <1>1, IndexFacts DEF Slot, Indices
<1>4. \A i \in 1 .. n - 1 : Slot(i)' = Slot(i + 1)
  BY <1>1, IndexFacts DEF Slot, After, Indices, Ahead
<1>5. Contents' = [i \in 1 .. n - 1 |-> slots[Slot(i + 1)]]
  BY <1>1, <1>2, <1>4 DEF Contents
<1>6. /\ Contents \in Seq(Items \cup {Vacant}) /\ Len(Contents) = n /\ Contents # <<>>
      /\ Contents[1] = slots[read]
  BY <1>1, <1>2, <1>3, ContentsFacts
<1>7. \A i \in 1 .. n - 1 : Contents[i + 1] = slots[Slot(i + 1)]
  BY <1>1, ContentsFacts
<1>8. /\ Tail(Contents) \in Seq(Items \cup {Vacant}) /\ Len(Tail(Contents)) = n - 1
      /\ \A i \in 1 .. n - 1 : Tail(Contents)[i] = Contents[i + 1]
  BY <1>6, TailShifts
<1>9. /\ Contents' \in Seq(Items \cup {Vacant}) /\ Len(Contents') = n - 1
      /\ \A i \in 1 .. n - 1 : Contents'[i] = Contents[i + 1]
  <2>1. \A i \in 1 .. n - 1 : Contents[i + 1] \in Items \cup {Vacant}
    BY <1>1, <1>6
  <2>2. QED
    BY <1>1, <1>2, <1>5, <1>7, <2>1
<1>10. Contents' = Tail(Contents)
  BY <1>8, <1>9, SameSequence
<1>11. QED
  BY <1>1, <1>6, <1>10

(* Whatever the capacity, what is pushed is popped in the order it was     *)
(* pushed, once, and nothing else is.                                      *)
THEOREM FifoImplemented == SpscSpec => ImplementsFifo
<1>1. SpscInit => Queue!Init
  <2> SUFFICES ASSUME SpscInit PROVE Queue!Init
    OBVIOUS
  <2>1. Ahead(read, write) = 0 /\ popped = Vacant
    BY IndexFacts DEF SpscInit
  <2>2. Contents = <<>>
    BY <2>1 DEF Contents
  <2>3. QED
    BY <2>1, <2>2 DEF Queue!Init
<1>2. RingInv /\ [SpscNext]_spscVars => [Queue!Next]_<<Contents, popped>>
  <2> SUFFICES ASSUME RingInv, [SpscNext]_spscVars PROVE [Queue!Next]_<<Contents, popped>>
    OBVIOUS
  <2>1. CASE PushPublish
    BY <2>1, Published DEF PushPublish, Queue!Next, Queue!Push
  <2>2. CASE PopRelease
    BY <2>2, Released DEF Queue!Next, Queue!Pop
  <2>3. CASE PushFill
    BY <2>3, FilledOutside DEF PushFill
  <2>4. CASE PushCheck \/ PushRefresh \/ PopCheck \/ PopRefresh \/ PopTake \/ UNCHANGED spscVars
    <3>1. read' = read /\ write' = write /\ slots' = slots /\ popped' = popped
      BY <2>4 DEF PushCheck, PushRefresh, PopCheck, PopRefresh, PopTake, spscVars
    <3>2. QED
      BY <3>1 DEF Contents, Slot
  <2>5. QED
    BY <2>1, <2>2, <2>3, <2>4 DEF SpscNext
<1>3. RingInv /\ [SpscNext]_spscVars => RingInv'
  BY RingStep
<1>4. QED
  BY <1>1, <1>2, <1>3, RingInit, PTL DEF SpscSpec, ImplementsFifo, Queue!Spec

-----------------------------------------------------------------------------
(* The INFO thread.                                                        *)

InfoTypeOK ==
  /\ pending \in BOOLEAN /\ ready \in BOOLEAN /\ stopping \in BOOLEAN /\ asleep \in BOOLEAN

\* For any number of sessions: what take() can fetch belongs to the last request(), and the thread
\* of work() does not sleep through a request or an order to stop.
THEOREM HandsOver == InfoSpec => [](Fresh /\ NoLostWake)
<1> DEFINE IInv == InfoTypeOK /\ Fresh /\ NoLostWake
<1>1. InfoInit => IInv
  BY DEF InfoInit, InfoTypeOK, Fresh, NoLostWake
<1>2. IInv /\ [InfoNext]_infoVars => IInv'
  <2> SUFFICES ASSUME InfoTypeOK, Fresh, NoLostWake, [InfoNext]_infoVars PROVE InfoTypeOK' /\ Fresh' /\ NoLostWake'
    OBVIOUS
  <2> USE DEF InfoTypeOK, Fresh, NoLostWake
  <2>1. CASE Request
    BY <2>1 DEF Request, worker
  <2>2. CASE Notify
    BY <2>2 DEF Notify, shared
  <2>3. CASE ReadEvent
    BY <2>3 DEF ReadEvent, shared, worker
  <2>11. CASE Take
    BY <2>11 DEF Take, worker
  <2>4. CASE Stop
    BY <2>4 DEF Stop, worker
  <2>5. CASE Wait
    BY <2>5 DEF Wait, tunnel
  <2>6. CASE Spurious
    BY <2>6 DEF Spurious, shared, tunnel
  <2>7. CASE Collect
    BY <2>7 DEF Collect, shared, tunnel
  <2>8. CASE Publish
    BY <2>8 DEF Publish, Overtaken, tunnel
  <2>9. CASE Signal
    BY <2>9 DEF Signal, shared, tunnel
  <2>10. CASE UNCHANGED infoVars
    BY <2>10 DEF infoVars
  <2> QED
    BY <2>1, <2>2, <2>3, <2>4, <2>5, <2>6, <2>7, <2>8, <2>9, <2>10, <2>11 DEF InfoNext, Thread
<1> QED
  BY <1>1, <1>2, PTL DEF InfoSpec

=============================================================================
