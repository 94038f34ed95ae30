------------------------------ MODULE FoldFacts ------------------------------
(***************************************************************************)
(* What the folds of the community modules compute, for proofs about the   *)
(* loops that are written with them: the function a fold is defined by     *)
(* exists, if each step keeps to a set, so that the fold is its value.     *)
(***************************************************************************)
EXTENDS Integers, SequencesExt, FiniteSetTheorems, WellFoundedInduction, TLAPS

\* A set of natural numbers has a least one: every induction here assumes a
\* least number for which something fails.
LEMMA LeastOf ==
    ASSUME NEW I \in SUBSET Nat, I # {}
    PROVE  \E m \in I : \A k \in I : m =< k
<1> DEFINE Less == OpToRel(<, Nat)
<1>1. IsWellFoundedOn(Less, Nat)
  BY NatLessThanWellFounded
<1>2. \A x, y \in Nat : x < y => <<x, y>> \in Less
  BY DEF OpToRel
<1> HIDE DEF Less
<1>3. PICK x \in I : \A y \in I : <<y, x>> \notin Less
  BY <1>1, WFMin
<1>4. ASSUME NEW y \in I PROVE x =< y
  <2>1. x \in Nat /\ y \in Nat /\ <<y, x>> \notin Less
    BY <1>3
  <2>2. ~(y < x)
    BY <1>2, <2>1
  <2> QED BY <2>1, <2>2
<1> QED BY <1>4

LEMMA LeastIsMin ==
    ASSUME NEW I \in SUBSET Nat, I # {}
    PROVE  Min(I) \in I /\ \A k \in I : Min(I) =< k
BY LeastOf, Zenon DEF Min

\* Counting up: what holds of 0 and, if of k - 1, of k, holds up to n.
LEMMA CountingUp ==
    ASSUME NEW n \in Nat, NEW I, 0 \in I, \A k \in 1..n : k - 1 \in I => k \in I
    PROVE  0..n \subseteq I
<1> DEFINE Missing == (0..n) \ I
<1>1. Missing \in SUBSET Nat
  OBVIOUS
<1>2. ASSUME Missing # {} PROVE FALSE
  <2>1. PICK m \in Missing : \A k \in Missing : m =< k
    <3> HIDE DEF Missing
    <3> QED BY <1>1, <1>2, LeastOf
  <2>2. m \in 1..n /\ m - 1 \in 0..n /\ m - 1 \notin Missing
    BY <2>1
  <2> QED BY <2>1, <2>2
<1> QED BY <1>2

\* The same for finite sets: what holds of a set, if of that set without any one
\* of its elements, holds of every finite set.
GrowsBy(I, D) == \A s \in SUBSET D : (\A x \in s : s \ {x} \in I) => s \in I

LEMMA AddingUp ==
    ASSUME NEW D, IsFiniteSet(D), NEW I, GrowsBy(I, D)
    PROVE  SUBSET D \subseteq I
<1> DEFINE n == Cardinality(D)
           J == {m \in 0..n : \A s \in SUBSET D : Cardinality(s) = m => s \in I}
<1>1. n \in Nat /\ \A s \in SUBSET D : IsFiniteSet(s) /\ Cardinality(s) \in 0..n
  BY FS_Subset, FS_CardinalityType
<1>2. 0 \in J
  <2>1. ASSUME NEW s \in SUBSET D, Cardinality(s) = 0 PROVE s \in I
    <3>1. IsFiniteSet(s)
      BY <1>1
    <3>2. s = {}
      BY <2>1, <3>1, FS_EmptySet
    <3> QED BY <3>2 DEF GrowsBy
  <2>2. 0 \in 0..n
    BY <1>1
  <2> QED BY <2>1, <2>2
<1>3. ASSUME NEW m \in 1..n, m - 1 \in J PROVE m \in J
  <2>1. ASSUME NEW s \in SUBSET D, Cardinality(s) = m PROVE s \in I
    <3>1. ASSUME NEW x \in s PROVE s \ {x} \in I
      <4>1. s \ {x} \in SUBSET D /\ Cardinality(s \ {x}) = m - 1
        BY <1>1, <2>1, FS_RemoveElement
      <4> QED BY <1>3, <4>1
    <3> QED BY <3>1 DEF GrowsBy
  <2> QED BY <1>1, <2>1
<1> HIDE DEF n, J
<1>4. 0..n \subseteq J
  BY <1>1, <1>2, <1>3, CountingUp
<1> QED BY <1>1, <1>4 DEF J

LEMMA MaxIs ==
    ASSUME NEW s \in SUBSET Nat, NEW n \in s, \A y \in s : n >= y
    PROVE  Max(s) = n
<1>1. \E x \in s : \A y \in s : x >= y
  OBVIOUS
<1>2. Max(s) \in s /\ \A y \in s : Max(s) >= y
  BY <1>1, Zenon DEF Max
<1> DEFINE m == Max(s)
<1>3. m \in Nat /\ n \in Nat /\ m >= n /\ n >= m
  BY <1>2
<1> HIDE DEF m
<1>4. m = n
  BY <1>3
<1> QED BY <1>4 DEF m

LEMMA MaxOfPrefix ==
    ASSUME NEW n \in Nat, NEW s \in SUBSET (1..n), n \in s
    PROVE  Max(s) = n
<1>1. s \in SUBSET Nat /\ \A y \in s : n >= y
  OBVIOUS
<1> QED BY <1>1, MaxIs

\* A set of numbers up to n has a greatest.
LEMMA GreatestOf ==
    ASSUME NEW n \in Nat, NEW s \in SUBSET (0..n), s # {}
    PROVE  Max(s) \in s /\ \A y \in s : Max(s) >= y
<1> DEFINE I == {n - x : x \in s}
<1>1. I \in SUBSET Nat /\ I # {}
  <2>1. \A x \in s : n - x \in Nat
    OBVIOUS
  <2>2. I # {}
    OBVIOUS
  <2> QED BY <2>1, <2>2
<1>2. PICK m \in I : \A k \in I : m =< k
  <2> HIDE DEF I
  <2> QED BY <1>1, LeastOf
<1>3. PICK x \in s : m = n - x
  BY <1>2
<1>4. \A y \in s : x >= y
  BY <1>2, <1>3
<1>5. \E x1 \in s : \A y \in s : x1 >= y
  BY <1>4
<1> QED BY <1>5, Zenon DEF Max

\* pick takes an element of every set there is to fold.
Picks(pick, D) ==
    /\ pick \in [(SUBSET D) \ {{}} -> D]
    /\ \A s \in (SUBSET D) \ {{}} : pick[s] \in s

\* g is what a fold over D is defined by.
FoldsBy(g, D, base, step, pick) ==
    \A s \in SUBSET D :
        g[s] = IF s = {} THEN base ELSE step[<<g[s \ {pick[s]}], pick[s]>>]

\* The function behind a fold over a finite set exists.
LEMMA FoldExists ==
    ASSUME NEW D, IsFiniteSet(D), NEW S, NEW base \in S, NEW step \in [S \X D -> S],
           NEW pick, Picks(pick, D)
    PROVE  \E g \in [SUBSET D -> S] : FoldsBy(g, D, base, step, pick)
<1> DEFINE Value(g, s) == IF s = {} THEN base ELSE step[<<g[s \ {pick[s]}], pick[s]>>]
           Solved(m) == \E g \in [SUBSET D -> S] :
                            \A s \in SUBSET D : Cardinality(s) =< m => g[s] = Value(g, s)
           n == Cardinality(D)
           I == {m \in 0..n : Solved(m)}
<1>1. n \in Nat /\ \A s \in SUBSET D : IsFiniteSet(s) /\ Cardinality(s) \in 0..n
  BY FS_Subset, FS_CardinalityType
<1>2. \A s \in (SUBSET D) \ {{}} :
        /\ s \ {pick[s]} \in SUBSET D
        /\ Cardinality(s \ {pick[s]}) = Cardinality(s) - 1
  BY <1>1, FS_RemoveElement DEF Picks
<1>3. Solved(0)
  <2> DEFINE g == [s \in SUBSET D |-> base]
  <2>1. \A s \in SUBSET D : Cardinality(s) =< 0 => s = {}
    BY <1>1, FS_EmptySet
  <2>2. g \in [SUBSET D -> S] /\ \A s \in SUBSET D : Cardinality(s) =< 0 => g[s] = Value(g, s)
    BY <2>1
  <2> QED BY <2>2
<1>4. ASSUME NEW m \in 1..n, Solved(m - 1) PROVE Solved(m)
  <2>1. PICK g \in [SUBSET D -> S] :
               \A s \in SUBSET D : Cardinality(s) =< m - 1 => g[s] = Value(g, s)
    BY <1>4
  <2> DEFINE h == [s \in SUBSET D |-> IF Cardinality(s) = m THEN Value(g, s) ELSE g[s]]
  <2>2. h \in [SUBSET D -> S]
    BY <1>2 DEF Picks
  <2>3. ASSUME NEW s \in SUBSET D, Cardinality(s) =< m, s # {} PROVE h[s] = Value(h, s)
    <3>1. h[s] = Value(g, s)
      <4>1. Cardinality(s) \in Nat
        BY <1>1
      <4>2. CASE Cardinality(s) = m
        BY <4>2
      <4>3. CASE Cardinality(s) =< m - 1
        BY <2>1, <4>1, <4>3
      <4> HIDE DEF h, Value
      <4> QED BY <2>3, <4>1, <4>2, <4>3
    <3>2. h[s \ {pick[s]}] = g[s \ {pick[s]}]
      <4>1. s \ {pick[s]} \in SUBSET D /\ Cardinality(s \ {pick[s]}) # m
        BY <1>1, <1>2, <2>3
      <4> QED BY <4>1
    <3> HIDE DEF h
    <3> QED BY <2>3, <3>1, <3>2
  <2>4. h[{}] = Value(h, {})
    <3>1. {} \in SUBSET D /\ Cardinality({}) = 0 /\ 0 =< m - 1
      BY FS_EmptySet
    <3>2. g[{}] = Value(g, {})
      BY <2>1, <3>1
    <3> QED BY <3>1, <3>2
  <2> HIDE DEF h, Value
  <2>5. \A s \in SUBSET D : Cardinality(s) =< m => h[s] = Value(h, s)
    BY <2>3, <2>4
  <2> QED BY <2>2, <2>5
<1> HIDE DEF Solved, Value, n
<1>5. Solved(n)
  <2>1. 0 \in I /\ \A m \in 1..n : m - 1 \in I => m \in I
    BY <1>1, <1>3, <1>4
  <2> HIDE DEF I
  <2>2. n \in I
    BY <1>1, <2>1, CountingUp
  <2> QED BY <2>2 DEF I
<1>6. PICK g \in [SUBSET D -> S] :
             \A s \in SUBSET D : Cardinality(s) =< n => g[s] = Value(g, s)
  BY <1>5 DEF Solved
<1>7. \A s \in SUBSET D : g[s] = Value(g, s)
  BY <1>1, <1>6
<1> QED BY <1>7 DEF Value, FoldsBy

\* g is what FoldLeft over a sequence of length n is defined by.
FoldsLeft(g, n, base, step) ==
    \A s \in SUBSET (1..n) :
        g[s] = IF s = {} THEN base ELSE step[<<g[s \ {Max(s)}], Max(s)>>]

LEMMA LeftFoldExists ==
    ASSUME NEW n \in Nat, NEW S, NEW base \in S, NEW step \in [S \X (1..n) -> S]
    PROVE  \E g \in [SUBSET (1..n) -> S] : FoldsLeft(g, n, base, step)
<1> DEFINE D == 1..n
           pick == [s \in (SUBSET D) \ {{}} |-> Max(s)]
<1>1. \A s \in (SUBSET D) \ {{}} : Max(s) \in s
  <2>1. SUBSET (1..n) \subseteq SUBSET (0..n)
    OBVIOUS
  <2> QED BY <2>1, GreatestOf
<1>2. /\ \A s \in (SUBSET D) \ {{}} : pick[s] = Max(s)
      /\ \A s \in (SUBSET D) \ {{}} : pick[s] \in s
  BY <1>1
<1>3. Picks(pick, D)
  BY <1>1, <1>2 DEF Picks
<1>4. IsFiniteSet(D) /\ step \in [S \X D -> S]
  BY FS_Interval
<1> HIDE DEF pick, D
<1>5. PICK g \in [SUBSET D -> S] : FoldsBy(g, D, base, step, pick)
  BY <1>3, <1>4, FoldExists
<1>6. \A s \in SUBSET D :
        g[s] = IF s = {} THEN base ELSE step[<<g[s \ {Max(s)}], Max(s)>>]
  BY <1>2, <1>5 DEF FoldsBy
<1> QED BY <1>6 DEF D, FoldsLeft

\* What a left fold takes off the first k elements is the last of them.
LEMMA PrefixStep ==
    ASSUME NEW k \in Nat \ {0}
    PROVE  1..k # {} /\ Max(1..k) = k /\ (1..k) \ {k} = 1..(k - 1)
<1>1. 1..k # {} /\ (1..k) \ {k} = 1..(k - 1)
  OBVIOUS
<1> QED BY <1>1, MaxOfPrefix

\* The values a loop over 1..n goes through exist.
RunsBy(run, n, base, step) ==
    run[0] = base /\ \A k \in 1..n : run[k] = step[<<run[k - 1], k>>]

LEMMA RunExists ==
    ASSUME NEW n \in Nat, NEW S, NEW base \in S, NEW step \in [S \X (1..n) -> S]
    PROVE  \E run \in [0..n -> S] : RunsBy(run, n, base, step)
<1>1. PICK g \in [SUBSET (1..n) -> S] : FoldsLeft(g, n, base, step)
  BY LeftFoldExists
<1> DEFINE run == [k \in 0..n |-> g[1..k]]
<1>2. \A k \in 0..n : 1..k \in SUBSET (1..n)
  OBVIOUS
<1>3. run \in [0..n -> S]
  BY <1>2
<1>4. run[0] = base
  <2>1. 1..0 = {} /\ 0 \in 0..n
    OBVIOUS
  <2> QED BY <1>1, <2>1 DEF FoldsLeft
<1>5. ASSUME NEW k \in 1..n PROVE run[k] = step[<<run[k - 1], k>>]
  <2>1. 1..k # {} /\ Max(1..k) = k /\ (1..k) \ {k} = 1..(k - 1)
    BY SMTT(30), PrefixStep
  <2>2. 1..k \in SUBSET (1..n) /\ k \in 0..n /\ k - 1 \in 0..n
    OBVIOUS
  <2>3. g[1..k] = step[<<g[(1..k) \ {Max(1..k)}], Max(1..k)>>]
    BY <1>1, <2>1, <2>2 DEF FoldsLeft
  <2> QED BY <2>1, <2>2, <2>3
<1> HIDE DEF run
<1>6. RunsBy(run, n, base, step)
  BY <1>4, <1>5 DEF RunsBy
<1> QED BY <1>3, <1>6

\* What step makes of a function at a place depends on later places only.
LooksAhead(step, n, S) ==
    \A i \in 1..n, g, h \in [1..n -> S] :
        (\A j \in (i + 1)..n : g[j] = h[j]) => step[<<g, i>>] = step[<<h, i>>]

\* A function on 1..n defined by its own values at later places exists.
RunsBack(f, n, step) == \A i \in 1..n : f[i] = step[<<f, i>>]

LEMMA RunBackExists ==
    ASSUME NEW n \in Nat, NEW S, S # {}, NEW step \in [[1..n -> S] \X (1..n) -> S],
           LooksAhead(step, n, S)
    PROVE  \E f \in [1..n -> S] : RunsBack(f, n, step)
<1> DEFINE Solves(g, m) == \A i \in (n - m + 1)..n : g[i] = step[<<g, i>>]
           I == {m \in 0..n : \E g \in [1..n -> S] : Solves(g, m)}
<1>1. 0 \in I
  <2>1. PICK s \in S : TRUE
    OBVIOUS
  <2> DEFINE g == [i \in 1..n |-> s]
  <2>2. g \in [1..n -> S] /\ 0 \in 0..n
    OBVIOUS
  <2>3. Solves(g, 0)
    OBVIOUS
  <2> HIDE DEF g, Solves
  <2> QED BY <2>2, <2>3
<1>2. ASSUME NEW m \in 1..n, m - 1 \in I PROVE m \in I
  <2>1. PICK g \in [1..n -> S] : Solves(g, m - 1)
    BY <1>2
  <2> DEFINE at == n - m + 1
             h == [g EXCEPT ![at] = step[<<g, at>>]]
  <2>2. at \in 1..n /\ h \in [1..n -> S]
    OBVIOUS
  <2>3. h[at] = step[<<g, at>>] /\ \A j \in (at + 1)..n : h[j] = g[j]
    BY <2>2
  <2> HIDE DEF h
  <2>4. ASSUME NEW i \in at..n PROVE h[i] = step[<<h, i>>]
    <3>1. i \in 1..n /\ \A j \in (i + 1)..n : g[j] = h[j]
      BY <2>2, <2>3, <2>4
    <3>2. step[<<g, i>>] = step[<<h, i>>]
      BY <2>2, <3>1 DEF LooksAhead
    <3>3. CASE i = at
      <4> HIDE DEF at
      <4> QED BY <2>3, <3>2, <3>3
    <3>4. CASE i # at
      <4>1. i \in (n - (m - 1) + 1)..n /\ h[i] = g[i]
        BY <2>2, <2>3, <2>4, <3>4
      <4> QED BY <2>1, <3>2, <4>1
    <3> QED BY <3>3, <3>4
  <2>5. Solves(h, m)
    BY <2>4
  <2> HIDE DEF Solves
  <2> QED BY <2>2, <2>5
<1>3. n \in I
  <2> HIDE DEF I
  <2>1. 0..n \subseteq I
    BY <1>1, <1>2, CountingUp
  <2> QED BY <2>1
<1>4. PICK f \in [1..n -> S] : Solves(f, n)
  BY <1>3
<1>5. (n - n + 1)..n = 1..n
  OBVIOUS
<1> QED BY <1>4, <1>5 DEF RunsBack
=============================================================================
