----------------------------- MODULE FoldLemmas -----------------------------
(***************************************************************************)
(* What the proofs need of numbers, of folds and of orders: a bounded set  *)
(* has its ends, a fold goes through its steps one at a time, and a finite *)
(* set put in order has each of its members once.                          *)
(***************************************************************************)
EXTENDS Ranking, Integers, Sequences, FiniteSets, Folds, FiniteSetsExt, SequencesExt,
        FiniteSetTheorems, FunctionTheorems, WellFoundedInduction, TLAPS

-----------------------------------------------------------------------------
(***************************************************************************)
(* Numbers.                                                                *)
(***************************************************************************)

\* A set of naturals has a least.
LEMMA LeastNatural ==
  ASSUME NEW T \in SUBSET Nat, T # {}
  PROVE  \E x \in T : \A y \in T : x <= y
<1> DEFINE R == StrictSubsetOrdering(Nat)
           F == { 0 .. x : x \in T }
<1>1. F # {} /\ F \subseteq FiniteSubsetsOf(Nat)
  <2>1. \A x \in T : 0 .. x \in SUBSET Nat /\ IsFiniteSet(0 .. x)
    BY FS_Interval
  <2>2. QED
    BY <2>1 DEF FiniteSubsetsOf
<1>2. PICK U \in F : \A V \in F : <<V, U>> \notin R
  <2>1. IsWellFoundedOn(R, FiniteSubsetsOf(Nat))
    BY FS_StrictSubsetOrderingWellFounded
  <2> HIDE DEF R, F
  <2>2. QED
    BY <1>1, <2>1, WFMin
<1>3. PICK x \in T : U = 0 .. x
  OBVIOUS
<1>4. ASSUME NEW y \in T, y < x
      PROVE  FALSE
  <2>1. 0 .. y \in SUBSET Nat /\ U \in SUBSET Nat /\ 0 .. y \subseteq U
    BY <1>3, <1>4
  <2>2. x \in U /\ x \notin 0 .. y
    BY <1>3, <1>4
  <2>3. <<0 .. y, U>> \in R
    BY <2>1, <2>2 DEF StrictSubsetOrdering
  <2>4. QED
    BY <1>2, <2>3
<1>5. x \in Nat /\ \A y \in T : y \in Nat /\ ~(y < x)
  BY <1>4
<1>6. QED
  BY <1>5

\* What holds at 0, and at each number if at the one before, holds at all of them.
LEMMA CountUp ==
  ASSUME NEW n \in Nat, NEW G, 0 \in G, \A k \in 1 .. n : k - 1 \in G => k \in G
  PROVE  \A k \in 0 .. n : k \in G
<1>1. SUFFICES ASSUME NEW k \in 0 .. n, k \notin G PROVE FALSE
  OBVIOUS
<1> DEFINE T == { i \in 0 .. n : i \notin G }
<1>2. PICK i \in T : \A j \in T : i <= j
  <2>1. T \in SUBSET Nat /\ k \in T
    BY <1>1
  <2> HIDE DEF T
  <2>2. QED
    BY <2>1, LeastNatural
<1>3. i \in 1 .. n /\ i - 1 \notin T /\ i - 1 \in 0 .. n
  BY <1>2
<1>4. QED
  BY <1>2, <1>3

\* The less and the greater of two.
LEMMA MinOfTwo ==
  ASSUME NEW a \in Int, NEW b \in Int
  PROVE  Min({a, b}) = IF a <= b THEN a ELSE b
<1>1. \E x \in {a, b} : \A y \in {a, b} : x <= y
  OBVIOUS
<1>2. Min({a, b}) \in {a, b} /\ \A y \in {a, b} : Min({a, b}) <= y
  BY <1>1 DEF Min
<1>3. QED
  BY <1>2

LEMMA MaxOfTwo ==
  ASSUME NEW a \in Int, NEW b \in Int
  PROVE  Max({a, b}) = IF a <= b THEN b ELSE a
<1>1. \E x \in {a, b} : \A y \in {a, b} : x >= y
  OBVIOUS
<1>2. Max({a, b}) \in {a, b} /\ \A y \in {a, b} : Max({a, b}) >= y
  BY <1>1 DEF Max
<1>3. QED
  BY <1>2

\* A set that is bounded has both ends in it.
LEMMA MinFromMax ==
  ASSUME NEW n \in Nat, NEW s, s \in SUBSET (0 .. n), s # {}
  PROVE  Min(s) \in s /\ Max(s) \in s /\ \A x \in s : Min(s) <= x /\ x <= Max(s)
<1>1. s \in SUBSET Nat
  OBVIOUS
<1>2. \E x \in s : \A y \in s : x <= y
  BY <1>1, LeastNatural
<1>3. Min(s) \in s /\ \A y \in s : Min(s) <= y
  BY <1>2 DEF Min
<1> DEFINE T == { n - x : x \in s }
<1>4. T \in SUBSET Nat /\ T # {}
  <2>1. \A x \in s : x \in 0 .. n /\ n - x \in Nat
    OBVIOUS
  <2>2. PICK x \in s : TRUE
    OBVIOUS
  <2>3. n - x \in T
    OBVIOUS
  <2>4. QED
    BY <2>1, <2>3
<1>5. PICK y \in T : \A z \in T : y <= z
  <2> HIDE DEF T
  <2>1. QED
    BY <1>4, LeastNatural
<1>6. PICK x \in s : y = n - x
  OBVIOUS
<1>7. \A z \in s : z \in Nat /\ n - x <= n - z
  BY <1>1, <1>5, <1>6
<1>8. x \in Nat /\ \A z \in s : x >= z
  BY <1>1, <1>7
<1>9. \E v \in s : \A z \in s : v >= z
  BY <1>8
<1>10. Max(s) \in s /\ \A z \in s : Max(s) >= z
  BY <1>9 DEF Max
<1>11. QED
  BY <1>1, <1>3, <1>10

\* The largest of 1 .. m and some, all, or none of what is below.
LEMMA LargestOf ==
  ASSUME NEW m \in Nat, NEW s, s \in SUBSET (1 .. m), m \in s
  PROVE  Max(s) = m
<1>1. \A y \in s : m >= y
  OBVIOUS
<1>2. \E x \in s : \A y \in s : x >= y
  BY <1>1
<1>3. Max(s) \in s /\ \A y \in s : Max(s) >= y
  BY <1>2 DEF Max
<1>4. Max(s) \in 1 .. m /\ Max(s) >= m
  BY <1>3
<1>5. QED
  BY <1>4

\* The largest of some is one of them.
LEMMA LargestIn ==
  ASSUME NEW n \in Nat, NEW s, s \in SUBSET (1 .. n), s # {}
  PROVE  Max(s) \in s
<1> DEFINE T == { n - x : x \in s }
<1>1. T \in SUBSET Nat /\ T # {}
  <2>1. PICK x \in s : TRUE
    OBVIOUS
  <2>2. n - x \in T
    OBVIOUS
  <2>3. QED
    BY <2>2
<1>2. PICK y \in T : \A z \in T : y <= z
  <2> HIDE DEF T
  <2>1. QED
    BY <1>1, LeastNatural
<1>3. PICK x \in s : y = n - x
  OBVIOUS
<1>4. \A z \in s : z \in 1 .. n /\ n - x <= n - z
  BY <1>2, <1>3
<1>5. x \in s /\ \A z \in s : x >= z
  BY <1>4
<1>6. \E z \in s : \A v \in s : z >= v
  BY <1>5
<1>7. QED
  BY <1>6 DEF Max

-----------------------------------------------------------------------------
(***************************************************************************)
(* Folds of the community modules, over 1 .. n.                            *)
(***************************************************************************)

\* f folds step over 1 .. n, taking the largest off each set.
Folding(f, n, base, step) ==
  \A s \in SUBSET (1 .. n) :
    f[s] = IF s = {} THEN base ELSE step[<<f[s \ {Max(s)}], Max(s)>>]

LEMMA FoldExists ==
  ASSUME NEW n \in Nat, NEW V, NEW base \in V, NEW step \in [V \X (1 .. n) -> V]
  PROVE  \E f \in [SUBSET (1 .. n) -> V] : Folding(f, n, base, step)
<1> DEFINE G == { m \in 0 .. n : \E f \in [SUBSET (1 .. m) -> V] : Folding(f, m, base, step) }
<1>1. 0 \in G
  <2> DEFINE f == [s \in SUBSET (1 .. 0) |-> base]
  <2>1. f \in [SUBSET (1 .. 0) -> V] /\ \A s \in SUBSET (1 .. 0) : s = {} /\ f[s] = base
    OBVIOUS
  <2> HIDE DEF f
  <2>2. Folding(f, 0, base, step)
    BY <2>1 DEF Folding
  <2>3. QED
    BY <2>1, <2>2
<1>2. ASSUME NEW m \in 1 .. n, m - 1 \in G
      PROVE  m \in G
  <2>1. PICK f \in [SUBSET (1 .. m - 1) -> V] : Folding(f, m - 1, base, step)
    BY <1>2
  <2> DEFINE g == [s \in SUBSET (1 .. m) |->
                     IF m \notin s THEN f[s] ELSE step[<<f[s \ {m}], m>>]]
  <2>2. \A s \in SUBSET (1 .. m) : s \ {m} \in SUBSET (1 .. m - 1)
    OBVIOUS
  <2>3. ASSUME NEW s \in SUBSET (1 .. m) PROVE g[s] \in V
    <3>1. f[s \ {m}] \in V
      BY <2>1, <2>2
    <3>2. CASE m \notin s
      <4>1. s = s \ {m}
        BY <3>2
      <4>2. QED
        BY <3>1, <3>2, <4>1
    <3>3. CASE m \in s
      BY <3>1, <3>3
    <3>4. QED
      BY <3>2, <3>3
  <2>4. ASSUME NEW s \in SUBSET (1 .. m)
        PROVE  g[s] = IF s = {} THEN base ELSE step[<<g[s \ {Max(s)}], Max(s)>>]
    <3>1. CASE m \in s
      <4>1. Max(s) = m /\ s # {}
        BY <3>1, LargestOf, m \in Nat
      <4>2. s \ {m} \in SUBSET (1 .. m) /\ m \notin s \ {m}
        OBVIOUS
      <4>3. g[s \ {m}] = f[s \ {m}]
        BY <4>2
      <4>4. g[s] = step[<<f[s \ {m}], m>>]
        BY <3>1
      <4>5. QED
        BY <4>1, <4>3, <4>4
    <3>2. CASE m \notin s
      <4>1. s \in SUBSET (1 .. m - 1) /\ g[s] = f[s]
        BY <3>2
      <4>2. f[s] = IF s = {} THEN base ELSE step[<<f[s \ {Max(s)}], Max(s)>>]
        BY <2>1, <4>1 DEF Folding
      <4>3. s \ {Max(s)} \in SUBSET (1 .. m) /\ m \notin s \ {Max(s)}
        BY <3>2
      <4>4. g[s \ {Max(s)}] = f[s \ {Max(s)}]
        BY <4>3
      <4>5. QED
        BY <4>1, <4>2, <4>4
    <3>3. QED
      BY <3>1, <3>2
  <2>5. g \in [SUBSET (1 .. m) -> V]
    BY <2>3
  <2> HIDE DEF g
  <2>6. Folding(g, m, base, step)
    BY <2>4 DEF Folding
  <2>7. QED
    BY <2>5, <2>6
<1> HIDE DEF G
<1>3. n \in G
  BY <1>1, <1>2, CountUp
<1>4. QED
  BY <1>3 DEF G

\* t takes the steps one at a time.
Trace(t, n, base, step) == t[0] = base /\ \A k \in 1 .. n : t[k] = step[<<t[k - 1], k>>]

\* Along 1 .. 0, 1 .. 1, ..., 1 .. n a fold takes one step at a time.
Along(f, n, V, base, step) ==
  f[{}] = base /\ \A k \in 1 .. n : f[1 .. k - 1] \in V => f[1 .. k] = step[<<f[1 .. k - 1], k>>]

Reached(f, n, V, base, step) ==
  \E t \in [0 .. n -> V] : Trace(t, n, base, step) /\ t[n] = f[1 .. n]

LEMMA FoldSteps ==
  ASSUME NEW n \in Nat, NEW V, NEW base \in V, NEW step \in [V \X (1 .. n) -> V],
         NEW f, Along(f, n, V, base, step)
  PROVE  Reached(f, n, V, base, step)
<1> DEFINE G == { k \in 0 .. n : f[1 .. k] \in V }
           t == [k \in 0 .. n |-> f[1 .. k]]
<1> USE DEF Along
<1>1. 1 .. 0 = {}
  OBVIOUS
<1>2. 0 \in G
  BY <1>1
<1>3. ASSUME NEW k \in 1 .. n, k - 1 \in G
      PROVE  k \in G
  <2>1. f[1 .. k - 1] \in V
    BY <1>3
  <2>2. f[1 .. k] = step[<<f[1 .. k - 1], k>>]
    BY <2>1
  <2>3. f[1 .. k] \in V
    BY <2>1, <2>2
  <2>4. QED
    BY <2>3
<1>4. \A k \in 0 .. n : f[1 .. k] \in V
  <2> HIDE DEF G
  <2>1. \A k \in 0 .. n : k \in G
    BY <1>2, <1>3, CountUp
  <2>2. QED
    BY <2>1 DEF G
<1>5. t \in [0 .. n -> V] /\ t[0] = base /\ t[n] = f[1 .. n]
  BY <1>1, <1>4
<1>6. \A k \in 1 .. n : t[k] = step[<<t[k - 1], k>>]
  BY <1>4
<1> HIDE DEF t
<1>7. QED
  BY <1>5, <1>6 DEF Trace, Reached

-----------------------------------------------------------------------------
(***************************************************************************)
(* Orders.                                                                 *)
(***************************************************************************)

\* What R puts before x.
Below(S, R, x) == { y \in S : <<y, x>> \in R }

LEMMA FewerBelow ==
  ASSUME NEW S, IsFiniteSet(S), NEW R,
         \A x \in S : <<x, x>> \notin R,
         \A x, y, z \in S : <<x, y>> \in R /\ <<y, z>> \in R => <<x, z>> \in R,
         NEW x \in S, NEW y \in S, <<x, y>> \in R
  PROVE  Cardinality(Below(S, R, x)) < Cardinality(Below(S, R, y))
<1>1. Below(S, R, x) \subseteq Below(S, R, y) /\ x \in Below(S, R, y) /\ x \notin Below(S, R, x)
  BY DEF Below
<1>2. IsFiniteSet(Below(S, R, y)) /\ IsFiniteSet(Below(S, R, x))
  BY FS_Subset DEF Below
<1>3. Cardinality(Below(S, R, x)) \in Nat /\ Cardinality(Below(S, R, y)) \in Nat
  BY <1>2, FS_CardinalityType
<1>4. Cardinality(Below(S, R, x)) <= Cardinality(Below(S, R, y))
      /\ Cardinality(Below(S, R, y)) # Cardinality(Below(S, R, x))
  BY <1>1, <1>2, FS_Subset
<1>5. QED
  BY <1>3, <1>4

\* A finite set that a strict total order orders: each member has its place.
LEMMA PlacesAreTaken ==
  ASSUME NEW S, IsFiniteSet(S), NEW R,
         \A x \in S : <<x, x>> \notin R,
         \A x, y, z \in S : <<x, y>> \in R /\ <<y, z>> \in R => <<x, z>> \in R,
         \A x, y \in S : x = y \/ <<x, y>> \in R \/ <<y, x>> \in R
  PROVE  /\ Cardinality(S) \in Nat
         /\ \A x \in S : Cardinality(Below(S, R, x)) + 1 \in 1 .. Cardinality(S)
         /\ \A x, y \in S : Cardinality(Below(S, R, x)) = Cardinality(Below(S, R, y)) => x = y
         /\ \A k \in 1 .. Cardinality(S) : \E x \in S : Cardinality(Below(S, R, x)) = k - 1
<1> DEFINE n == Cardinality(S)
           place == [x \in S |-> Cardinality(Below(S, R, x)) + 1]
<1>1. n \in Nat
  BY FS_CardinalityType
<1>2. ASSUME NEW x \in S
      PROVE  /\ Cardinality(Below(S, R, x)) \in Nat
             /\ Cardinality(Below(S, R, x)) + 1 \in 1 .. n
  <2>1. Below(S, R, x) \in SUBSET S /\ Below(S, R, x) # S
    BY DEF Below
  <2>2. IsFiniteSet(Below(S, R, x)) /\ Cardinality(Below(S, R, x)) <= n
        /\ Cardinality(Below(S, R, x)) # n
    BY <2>1, FS_Subset
  <2>3. Cardinality(Below(S, R, x)) \in Nat
    BY <2>2, FS_CardinalityType
  <2>4. QED
    BY <1>1, <2>2, <2>3
<1>3. ASSUME NEW x \in S, NEW y \in S, Cardinality(Below(S, R, x)) = Cardinality(Below(S, R, y))
      PROVE  x = y
  <2>1. CASE <<x, y>> \in R
    <3>1. Cardinality(Below(S, R, x)) < Cardinality(Below(S, R, y))
      BY <2>1, FewerBelow
    <3>2. QED
      BY <1>2, <1>3, <3>1
  <2>2. CASE <<y, x>> \in R
    <3>1. Cardinality(Below(S, R, y)) < Cardinality(Below(S, R, x))
      BY <2>2, FewerBelow
    <3>2. QED
      BY <1>2, <1>3, <3>1
  <2>3. QED
    BY <2>1, <2>2
<1>4. place \in Injection(S, 1 .. n)
  <2>1. place \in [S -> 1 .. n]
    BY <1>2
  <2>2. \A x, y \in S : place[x] = place[y] => x = y
    BY <1>2, <1>3
  <2> HIDE DEF place
  <2>3. QED
    BY <2>1, <2>2 DEF Injection, IsInjective
<1>5. IsFiniteSet(1 .. n) /\ Cardinality(1 .. n) = n
  <2>1. Cardinality(1 .. n) = IF 1 > n THEN 0 ELSE n - 1 + 1
    BY <1>1, FS_Interval
  <2>2. QED
    BY <1>1, <2>1, FS_Interval
<1>6. place \in Surjection(S, 1 .. n)
  <2> HIDE DEF place, n
  <2>1. Cardinality(S) = Cardinality(1 .. n)
    BY <1>5 DEF n
  <2>2. QED
    BY <1>4, <1>5, <2>1, FS_Injection
<1>7. \A k \in 1 .. n : \E x \in S : place[x] = k
  <2> HIDE DEF place, n
  <2>1. QED
    BY <1>6 DEF Surjection
<1>8. \A k \in 1 .. n : \E x \in S : Cardinality(Below(S, R, x)) = k - 1
  <2>1. ASSUME NEW k \in 1 .. n PROVE \E x \in S : Cardinality(Below(S, R, x)) = k - 1
    <3>1. PICK x \in S : place[x] = k
      BY <1>7
    <3>2. QED
      BY <1>1, <1>2, <3>1
  <2>2. QED
    BY <2>1
<1>9. QED
  BY <1>1, <1>2, <1>3, <1>8

\* Put in order, each member of the set is there once, and before those it is to
\* be before.
LEMMA Ordered ==
  ASSUME NEW S, IsFiniteSet(S), NEW R,
         \A x \in S : <<x, x>> \notin R,
         \A x, y, z \in S : <<x, y>> \in R /\ <<y, z>> \in R => <<x, z>> \in R,
         \A x, y \in S : x = y \/ <<x, y>> \in R \/ <<y, x>> \in R,
         NEW s,
         \A k \in 1 .. Cardinality(S) : s[k] \in S /\ Cardinality(Below(S, R, s[k])) = k - 1
  PROVE  /\ \A x \in S : \E k \in 1 .. Cardinality(S) : s[k] = x
         /\ \A i, j \in 1 .. Cardinality(S) : i < j => <<s[i], s[j]>> \in R /\ s[i] # s[j]
<1> DEFINE n == Cardinality(S)
<1>1. /\ n \in Nat
      /\ \A x \in S : Cardinality(Below(S, R, x)) + 1 \in 1 .. n
      /\ \A x, y \in S : Cardinality(Below(S, R, x)) = Cardinality(Below(S, R, y)) => x = y
  BY PlacesAreTaken
<1>2. \A x \in S : Cardinality(Below(S, R, x)) \in Nat
  <2>1. \A x \in S : IsFiniteSet(Below(S, R, x))
    BY FS_Subset DEF Below
  <2>2. QED
    BY <2>1, FS_CardinalityType
<1>3. \A k \in 1 .. n : s[k] \in S /\ Cardinality(Below(S, R, s[k])) = k - 1
  OBVIOUS
<1> HIDE DEF n
<1>4. ASSUME NEW x \in S
      PROVE  \E k \in 1 .. n : s[k] = x
  <2> DEFINE k == Cardinality(Below(S, R, x)) + 1
  <2>1. k \in 1 .. n /\ k - 1 = Cardinality(Below(S, R, x))
    BY <1>1, <1>2
  <2> HIDE DEF k
  <2>2. s[k] \in S /\ Cardinality(Below(S, R, s[k])) = Cardinality(Below(S, R, x))
    BY <1>3, <2>1
  <2>3. QED
    BY <1>1, <2>1, <2>2
<1>5. ASSUME NEW i \in 1 .. n, NEW j \in 1 .. n, i < j
      PROVE  <<s[i], s[j]>> \in R /\ s[i] # s[j]
  <2>1. s[i] \in S /\ s[j] \in S /\ Cardinality(Below(S, R, s[i])) = i - 1
        /\ Cardinality(Below(S, R, s[j])) = j - 1
    BY <1>3
  <2>2. s[i] # s[j]
    BY <1>1, <1>5, <2>1
  <2>3. ~(<<s[j], s[i]>> \in R)
    <3>1. SUFFICES ASSUME <<s[j], s[i]>> \in R PROVE FALSE
      OBVIOUS
    <3>2. Cardinality(Below(S, R, s[j])) < Cardinality(Below(S, R, s[i]))
      BY <2>1, <3>1, FewerBelow
    <3>3. QED
      BY <1>1, <1>5, <2>1, <3>2
  <2>4. QED
    BY <2>1, <2>2, <2>3
<1>6. QED
  BY <1>4, <1>5 DEF n
=============================================================================
