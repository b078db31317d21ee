--------------------------- MODULE VStorageProofs ---------------------------
(***************************************************************************)
(* Theorems about the storage of records of any length, for files of any   *)
(* length, any sizes of the headers, any bands and any lengths that are    *)
(* asked for.                                                              *)
(***************************************************************************)
EXTENDS VStorage, TLAPS, WellFoundedInduction, FiniteSetTheorems

-----------------------------------------------------------------------------
(* About natural numbers.                                                  *)

\* The least element is what proofs by induction here start from: that of the
\* numbers for which a claim fails.
LEMMA Least ==
  ASSUME NEW T, T \subseteq Nat, T # {}
  PROVE  \E x \in T : \A y \in T : x <= y
<1> DEFINE R == OpToRel(<, Nat)
<1>1. \A x, y \in Nat : y < x => <<y, x>> \in R
  BY DEF OpToRel
<1>2. IsWellFoundedOn(R, Nat)
  BY NatLessThanWellFounded
<1> HIDE DEF R
<1>3. \E x \in T : \A y \in T : ~ (<<y, x>> \in R)
  BY <1>2, WFMin
<1>4. PICK x \in T : \A y \in T : ~ (<<y, x>> \in R)
  BY <1>3
<1>5. \A y \in T : y \in Nat /\ x \in Nat /\ ~(y < x)
  BY <1>1, <1>4
<1>6. \A y \in T : x <= y
  BY <1>5
<1>7. QED  BY <1>6

\* A bounded set of numbers has a greatest element.
LEMMA Greatest ==
  ASSUME NEW T, T \subseteq Nat, T # {}, NEW b \in Nat, \A x \in T : x <= b
  PROVE  \E x \in T : \A y \in T : y <= x
<1> DEFINE bounds == {m \in Nat : \A x \in T : x <= m}
<1>1. PICK m \in bounds : \A y \in bounds : m <= y
  <2>1. bounds \subseteq Nat /\ b \in bounds
    OBVIOUS
  <2> HIDE DEF bounds
  <2>2. QED  BY <2>1, Least
<1>2. CASE m \in T
  BY <1>2
<1>3. CASE m \notin T
  <2>1. \A x \in T : x <= m - 1
    BY <1>3
  <2>2. m - 1 \in Nat
    <3>1. PICK x \in T : TRUE
      OBVIOUS
    <3>2. x \in Nat /\ m \in Nat /\ x <= m - 1
      BY <2>1
    <3>3. QED  BY <3>2
  <2>3. m - 1 \in bounds
    BY <2>1, <2>2
  <2>4. QED  BY <1>1, <2>3
<1>4. QED  BY <1>2, <1>3

-----------------------------------------------------------------------------
(* Weights: lengths of blocks, as a function from the blocks.              *)

\* Block x of weight k as well.
With(W, x, k) == [y \in DOMAIN W \cup {x} |-> IF y = x THEN k ELSE W[y]]

\* All but block x.
Without(W, x) == [y \in DOMAIN W \ {x} |-> W[y]]

\* Those blocks of weight W that are in the band.
InBand(W, b) == [y \in {x \in DOMAIN W : CalcBand(W[x]) = b} |-> W[y]]

\* The sum of weights, as it is computed.
SumStep(W, h, s) ==
  IF s = {} THEN 0
  ELSE LET x == CHOOSE x \in s : TRUE IN W[x] + h[s \ {x}]

\* The function that computes the sum for every set of T.
Sums(W, T, h) == h = [s \in T |-> SumStep(W, h, s)]

\* The one that computes it for every set of the blocks of S.
Adds(W, S, h) == Sums(W, SUBSET S, h)

\* The sum of all weights.
Total(W) == MapThenSumSet(LAMBDA x : W[x], DOMAIN W)

\* n blocks weigh `space` together.
Weighs(n, space, W) ==
  /\ IsFiniteSet(DOMAIN W) /\ W \in [DOMAIN W -> Nat]
  /\ n = Cardinality(DOMAIN W) /\ space = Total(W)

\* The sum of weights is a value of such a function.
LEMMA TotalIs ==
  ASSUME NEW W, NEW g, Adds(W, DOMAIN W, g)
  PROVE  \E h : Adds(W, DOMAIN W, h) /\ Total(W) = h[DOMAIN W]
<1> DEFINE h == CHOOSE h : h = [s \in SUBSET DOMAIN W |-> IF s = {} THEN 0
                         ELSE W[CHOOSE x \in s : TRUE] + h[s \ {CHOOSE x \in s : TRUE}]]
<1>1. Total(W) = h[DOMAIN W]
  BY Zenon DEF Total, MapThenSumSet, MapThenFoldSet
<1>2. \E k : k = [s \in SUBSET DOMAIN W |-> IF s = {} THEN 0
                         ELSE W[CHOOSE x \in s : TRUE] + k[s \ {CHOOSE x \in s : TRUE}]]
  BY Zenon DEF Adds, Sums, SumStep
<1>3. h = [s \in SUBSET DOMAIN W |-> IF s = {} THEN 0
                         ELSE W[CHOOSE x \in s : TRUE] + h[s \ {CHOOSE x \in s : TRUE}]]
  BY Zenon, <1>2
<1>4. Adds(W, DOMAIN W, h)
  BY Zenon, <1>3 DEF Adds, Sums, SumStep
<1>5. QED  BY <1>1, <1>4

\* The sets of at most n blocks.
Small(S, n) == {s \in SUBSET S : Cardinality(s) <= n}

\* A set without one of its elements is smaller.
LEMMA SmallLess ==
  ASSUME NEW S, IsFiniteSet(S), NEW n \in Nat \ {0}, NEW s \in Small(S, n), NEW x \in s
  PROVE  s \ {x} \in Small(S, n - 1)
<1>1. s \in SUBSET S /\ IsFiniteSet(s) /\ Cardinality(s) \in Nat /\ Cardinality(s) <= n
  BY FS_Subset, FS_CardinalityType DEF Small
<1>2. Cardinality(s \ {x}) = Cardinality(s) - 1
  BY <1>1, FS_RemoveElement
<1>3. QED  BY <1>1, <1>2 DEF Small

\* A set of no elements is empty.
LEMMA SmallNone ==
  ASSUME NEW S, IsFiniteSet(S), NEW s \in Small(S, 0)
  PROVE  s = {}
<1>1. s \in SUBSET S /\ IsFiniteSet(s) /\ Cardinality(s) \in Nat /\ Cardinality(s) <= 0
  BY FS_Subset, FS_CardinalityType DEF Small
<1>2. Cardinality(s) = 0
  BY <1>1
<1>3. QED  BY <1>1, <1>2, FS_EmptySet

\* Every subset is small enough.
LEMMA SmallAll ==
  ASSUME NEW S, IsFiniteSet(S)
  PROVE  Cardinality(S) \in Nat /\ Small(S, Cardinality(S)) = SUBSET S
<1>1. Cardinality(S) \in Nat
  BY FS_CardinalityType
<1>2. Small(S, Cardinality(S)) = SUBSET S
  BY FS_Subset DEF Small
<1>3. QED  BY <1>1, <1>2

\* The sum of weights is defined for every finite set of blocks. By the least
\* number of elements for which it were not.
LEMMA SumsExist ==
  ASSUME NEW W, NEW S, IsFiniteSet(S)
  PROVE  \E g : Adds(W, S, g)
<1> DEFINE bad == {n \in Nat : ~ \E g : Sums(W, Small(S, n), g)}
<1>1. bad = {}
  <2> SUFFICES ASSUME bad # {} PROVE FALSE
    OBVIOUS
  <2>1. PICK n \in bad : \A k \in bad : n <= k
    <3>1. bad \subseteq Nat
      OBVIOUS
    <3> HIDE DEF bad
    <3>2. QED  BY <3>1, Least
  <2>2. n \in Nat /\ ~ \E g : Sums(W, Small(S, n), g)
    BY <2>1
  <2>3. CASE n = 0
    <3> DEFINE g == [s \in Small(S, 0) |-> 0]
    <3>1. \A s \in Small(S, 0) : s = {}
      BY SmallNone
    <3>2. g = [s \in Small(S, 0) |-> SumStep(W, g, s)]
      BY <3>1 DEF SumStep
    <3>3. Sums(W, Small(S, 0), g)
      BY <3>2 DEF Adds, Sums
    <3>4. QED  BY <2>2, <2>3, <3>3
  <2>4. CASE n # 0
    <3>1. n - 1 \in Nat /\ n - 1 \notin bad /\ n \in Nat \ {0}
      BY <2>1, <2>2, <2>4
    <3>2. PICK g : Sums(W, Small(S, n - 1), g)
      BY <3>1
    <3> DEFINE h == [s \in Small(S, n) |-> SumStep(W, g, s)]
    <3>3. ASSUME NEW s \in Small(S, n) PROVE SumStep(W, g, s) = SumStep(W, h, s)
      <4>1. CASE s = {}
        BY <4>1 DEF SumStep
      <4>2. CASE s # {}
        <5> DEFINE x == CHOOSE x \in s : TRUE
                   t == s \ {x}
        <5>1. x \in s
          BY <4>2
        <5>2. t \in Small(S, n - 1)
          BY <3>1, <5>1, SmallLess
        <5>3. t \in Small(S, n)
          <6>1. t \in SUBSET S /\ IsFiniteSet(t) /\ Cardinality(t) \in Nat /\ Cardinality(t) <= n - 1
            BY <5>2, FS_Subset, FS_CardinalityType DEF Small
          <6>2. QED  BY <3>1, <6>1 DEF Small
        <5> HIDE DEF t
        <5>4. g[t] = SumStep(W, g, t) /\ h[t] = SumStep(W, g, t)
          BY <3>2, <5>2, <5>3 DEF Adds, Sums
        <5>5. g[t] = h[t]
          BY <5>4
        <5> HIDE DEF h
        <5>6. QED  BY <4>2, <5>5 DEF SumStep, t
      <4>3. QED  BY <4>1, <4>2
    <3>4. h = [s \in Small(S, n) |-> SumStep(W, h, s)]
      <4>1. h = [s \in Small(S, n) |-> SumStep(W, g, s)]
        OBVIOUS
      <4> HIDE DEF h
      <4>2. QED  BY <3>3, <4>1
    <3>5. Sums(W, Small(S, n), h)
      BY <3>4 DEF Adds, Sums
    <3>6. QED  BY <2>2, <3>5
  <2>5. QED  BY <2>3, <2>4
<1>2. \A n \in Nat : \E g : Sums(W, Small(S, n), g)
  BY <1>1
<1>3. \E g : Sums(W, Small(S, Cardinality(S)), g)
  BY <1>2, SmallAll
<1>4. QED  BY <1>3, SmallAll DEF Adds

\* A sum without one of the blocks, whichever was taken first, is less by the
\* weight of that block. By the least number of blocks for which it is not.
LEMMA SumsTake ==
  ASSUME NEW W, NEW S, IsFiniteSet(S), \A x \in S : W[x] \in Nat, NEW h, Adds(W, S, h),
         NEW s \in SUBSET S, NEW z \in s
  PROVE  h[s] \in Nat /\ h[s \ {z}] \in Nat /\ h[s] = W[z] + h[s \ {z}]
<1> DEFINE Fine(t) == h[t] \in Nat /\ \A x \in t : h[t] = W[x] + h[t \ {x}]
           bad == {n \in Nat : \E t \in Small(S, n) : ~Fine(t)}
<1>1. bad = {}
  <2> SUFFICES ASSUME bad # {} PROVE FALSE
    OBVIOUS
  <2>1. PICK n \in bad : \A k \in bad : n <= k
    <3>1. bad \subseteq Nat
      OBVIOUS
    <3> HIDE DEF bad
    <3>2. QED  BY <3>1, Least
  <2>2. PICK u \in Small(S, n) : ~Fine(u)
    BY <2>1
  <2>3. n \in Nat /\ u \in SUBSET S
    BY <2>1 DEF Small
  <2>4. \A t \in SUBSET S : h[t] = SumStep(W, h, t)
    BY DEF Adds, Sums
  <2>5. CASE u = {}
    BY <2>2, <2>3, <2>4, <2>5 DEF SumStep
  <2>6. CASE u # {}
    <3>1. PICK y \in u : h[u] = W[y] + h[u \ {y}]
      BY <2>3, <2>4, <2>6 DEF SumStep
    <3>2. n # 0
      BY <2>6, SmallNone
    <3>3. n \in Nat \ {0} /\ n - 1 \in Nat /\ n - 1 \notin bad
      BY <2>1, <2>3, <3>2
    <3>4. \A x \in u : u \ {x} \in Small(S, n - 1)
      BY <3>3, SmallLess
    <3>5. \A x \in u : Fine(u \ {x})
      BY <3>3, <3>4
    <3>6. \A x \in u : W[x] \in Nat
      BY <2>3
    <3>7. h[u] \in Nat
      <4>1. h[u \ {y}] \in Nat /\ W[y] \in Nat
        BY <3>5, <3>6
      <4>2. QED  BY <3>1, <4>1
    <3>8. ASSUME NEW x \in u PROVE h[u] = W[x] + h[u \ {x}]
      <4>1. CASE x = y
        BY <3>1, <4>1
      <4>2. CASE x # y
        <5>1. h[u \ {y}] = W[x] + h[(u \ {y}) \ {x}] /\ h[u \ {x}] = W[y] + h[(u \ {x}) \ {y}]
          BY <3>5, <4>2
        <5>2. (u \ {y}) \ {x} = (u \ {x}) \ {y}
          OBVIOUS
        <5>3. \E v : v = (u \ {y}) \ {x}
          OBVIOUS
        <5>4. PICK v : v = (u \ {y}) \ {x}
          BY <5>3
        <5>5. h[v] \in Nat
          <6>1. u \ {y} \in Small(S, n - 1) /\ x \in u \ {y}
            BY <3>4, <4>2
          <6>2. n - 1 # 0
            BY <6>1, SmallNone
          <6>3. n - 1 \in Nat \ {0} /\ (n - 1) - 1 \in Nat
            BY <3>3, <6>2
          <6>4. v \in Small(S, (n - 1) - 1)
            BY <5>4, <6>1, <6>3, SmallLess
          <6>5. (n - 1) - 1 \notin bad
            BY <2>1, <2>3, <6>3
          <6>6. QED  BY <6>3, <6>4, <6>5
        <5>6. h[u] = W[y] + (W[x] + h[v]) /\ h[u \ {x}] = W[y] + h[v]
          BY <3>1, <5>1, <5>2, <5>4
        <5>7. W[x] \in Nat /\ W[y] \in Nat
          BY <3>6
        <5>8. QED  BY <5>5, <5>6, <5>7
      <4>3. QED  BY <4>1, <4>2
    <3>9. QED  BY <2>2, <3>7, <3>8
  <2>7. QED  BY <2>5, <2>6
<1>2. ASSUME NEW t \in SUBSET S PROVE Fine(t)
  <2>1. t \in Small(S, Cardinality(S)) /\ Cardinality(S) \in Nat
    BY SmallAll
  <2>2. QED  BY <1>1, <2>1
<1>3. s \ {z} \in SUBSET S
  OBVIOUS
<1>4. Fine(s) /\ Fine(s \ {z})
  BY <1>2, <1>3
<1>5. QED  BY <1>4

\* Sums of the same weights are the same.
LEMMA SumsSame ==
  ASSUME NEW V, NEW W, NEW S, NEW T, IsFiniteSet(S), S \subseteq T, \A x \in S : V[x] = W[x],
         NEW g, Adds(V, S, g), NEW h, Adds(W, T, h)
  PROVE  g[S] = h[S]
<1> DEFINE bad == {n \in Nat : \E s \in Small(S, n) : g[s] # h[s]}
<1>1. bad = {}
  <2> SUFFICES ASSUME bad # {} PROVE FALSE
    OBVIOUS
  <2>1. PICK n \in bad : \A k \in bad : n <= k
    <3>1. bad \subseteq Nat
      OBVIOUS
    <3> HIDE DEF bad
    <3>2. QED  BY <3>1, Least
  <2>2. PICK s \in Small(S, n) : g[s] # h[s]
    BY <2>1
  <2>3. n \in Nat /\ s \in SUBSET S /\ s \in SUBSET T
    BY <2>1 DEF Small
  <2>4. g[s] = SumStep(V, g, s) /\ h[s] = SumStep(W, h, s)
    BY <2>3 DEF Adds, Sums
  <2>5. CASE s = {}
    BY <2>2, <2>4, <2>5 DEF SumStep
  <2>6. CASE s # {}
    <3> DEFINE x == CHOOSE x \in s : TRUE
    <3>1. x \in s
      BY <2>6
    <3>2. g[s] = V[x] + g[s \ {x}] /\ h[s] = W[x] + h[s \ {x}]
      BY <2>4, <2>6 DEF SumStep
    <3> HIDE DEF x
    <3>3. n # 0
      BY <2>6, SmallNone
    <3>4. n - 1 \in Nat /\ n - 1 \notin bad /\ n \in Nat \ {0}
      BY <2>1, <2>3, <3>3
    <3>5. s \ {x} \in Small(S, n - 1)
      BY <3>1, <3>4, SmallLess
    <3>6. g[s \ {x}] = h[s \ {x}]
      BY <3>4, <3>5
    <3>7. QED  BY <2>2, <2>3, <3>1, <3>2, <3>6
  <2>7. QED  BY <2>5, <2>6
<1>2. S \in Small(S, Cardinality(S)) /\ Cardinality(S) \in Nat
  BY SmallAll
<1>3. QED  BY <1>1, <1>2

\* The weight of no blocks.
LEMMA WeighsNone ==
  ASSUME NEW W, DOMAIN W = {}
  PROVE  Total(W) = 0 /\ (W \in [DOMAIN W -> Nat] => Weighs(0, 0, W))
<1>1. IsFiniteSet(DOMAIN W) /\ Cardinality(DOMAIN W) = 0
  BY FS_EmptySet
<1>2. PICK g : Adds(W, DOMAIN W, g)
  BY <1>1, SumsExist
<1>3. PICK h : Adds(W, DOMAIN W, h) /\ Total(W) = h[DOMAIN W]
  BY <1>2, TotalIs
<1>4. Total(W) = 0
  BY <1>3 DEF Adds, Sums, SumStep
<1>5. QED  BY <1>1, <1>4 DEF Weighs

\* Counts and spaces are never negative.
LEMMA WeighsNat ==
  ASSUME NEW n, NEW space, NEW W, Weighs(n, space, W)
  PROVE  n \in Nat /\ space \in Nat /\ (n = 0 <=> DOMAIN W = {})
<1>1. PICK g : Adds(W, DOMAIN W, g)
  BY SumsExist DEF Weighs
<1>2. PICK h : Adds(W, DOMAIN W, h) /\ Total(W) = h[DOMAIN W]
  BY <1>1, TotalIs
<1>3. h[DOMAIN W] \in Nat
  <2>1. CASE DOMAIN W = {}
    BY <1>2, <2>1 DEF Adds, Sums, SumStep
  <2>2. CASE DOMAIN W # {}
    <3>1. PICK z \in DOMAIN W : TRUE
      BY <2>2
    <3>2. \A x \in DOMAIN W : W[x] \in Nat
      BY DEF Weighs
    <3>3. IsFiniteSet(DOMAIN W) /\ DOMAIN W \in SUBSET DOMAIN W
      BY DEF Weighs
    <3>4. QED  BY <1>2, <3>1, <3>2, <3>3, SumsTake
  <2>3. QED  BY <2>1, <2>2
<1>4. n \in Nat /\ (n = 0 <=> DOMAIN W = {})
  BY FS_CardinalityType, FS_EmptySet DEF Weighs
<1>5. QED  BY <1>2, <1>3, <1>4 DEF Weighs

\* A block less.
LEMMA WeighsLess ==
  ASSUME NEW n, NEW space, NEW W, Weighs(n, space, W), NEW x \in DOMAIN W
  PROVE  Weighs(n - 1, space - W[x], Without(W, x))
<1>1. PICK S : S = DOMAIN W
  OBVIOUS
<1>2. PICK U : U = Without(W, x)
  OBVIOUS
<1>3. PICK T : T = S \ {x}
  OBVIOUS
<1>4. IsFiniteSet(S) /\ W \in [S -> Nat] /\ n = Cardinality(S) /\ space = Total(W) /\ x \in S
  BY <1>1 DEF Weighs
<1>5. DOMAIN U = T /\ U \in [T -> Nat] /\ \A y \in T : U[y] = W[y] /\ W[y] \in Nat
  BY <1>1, <1>2, <1>3, <1>4 DEF Without
<1>6. IsFiniteSet(T) /\ Cardinality(T) = n - 1
  BY <1>3, <1>4, FS_RemoveElement
<1>7. PICK g : Adds(W, S, g) /\ space = g[S]
  BY <1>1, <1>4, SumsExist, TotalIs
<1>8. PICK h : Adds(U, T, h) /\ Total(U) = h[T]
  BY <1>5, <1>6, SumsExist, TotalIs
<1>9. h[T] = g[T]
  <2>1. T \subseteq S /\ IsFiniteSet(T)
    BY <1>3, <1>6
  <2>2. Adds(W, S, g) /\ Adds(U, T, h)
    BY <1>7, <1>8
  <2>3. \A y \in T : U[y] = W[y]
    BY <1>5
  <2>4. QED  BY <2>1, <2>2, <2>3, SumsSame
<1>10. g[S] = W[x] + g[T] /\ g[S] \in Nat /\ g[T] \in Nat /\ W[x] \in Nat
  <2>1. \A y \in S : W[y] \in Nat
    BY <1>4
  <2>2. S \in SUBSET S
    OBVIOUS
  <2>3. g[S] \in Nat /\ g[S \ {x}] \in Nat /\ g[S] = W[x] + g[S \ {x}]
    BY <1>4, <1>7, <2>1, <2>2, SumsTake
  <2>4. QED  BY <1>3, <1>4, <2>1, <2>3
<1>11. Total(U) = space - W[x]
  BY <1>7, <1>8, <1>9, <1>10
<1>12. QED  BY <1>2, <1>5, <1>6, <1>11 DEF Weighs

\* A block more.
LEMMA WeighsMore ==
  ASSUME NEW n, NEW space, NEW W, Weighs(n, space, W), NEW x, x \notin DOMAIN W, NEW k \in Nat
  PROVE  Weighs(n + 1, space + k, With(W, x, k))
<1> DEFINE U == With(W, x, k)
           m == Cardinality(DOMAIN U)
<1>1. DOMAIN U = DOMAIN W \cup {x} /\ U[x] = k /\ U \in [DOMAIN U -> Nat]
  BY DEF Weighs, With
<1>2. IsFiniteSet(DOMAIN U) /\ m = n + 1
  BY <1>1, FS_AddElement DEF Weighs
<1>3. Weighs(m, Total(U), U)
  BY <1>1, <1>2 DEF Weighs
<1>4. Without(U, x) = W
  BY DEF Weighs, With, Without
<1>5. Weighs(m - 1, Total(U) - k, W)
  BY <1>1, <1>3, <1>4, WeighsLess
<1>6. space = Total(U) - k /\ Total(U) \in Nat /\ space \in Nat
  BY <1>3, <1>5, WeighsNat DEF Weighs
<1>7. Total(U) = space + k
  BY <1>6
<1>8. QED  BY <1>2, <1>3, <1>7

\* A block of another length.
LEMMA WeighsChange ==
  ASSUME NEW n, NEW space, NEW W, Weighs(n, space, W), NEW x \in DOMAIN W, NEW y, NEW k \in Nat,
         y \notin DOMAIN W \/ y = x
  PROVE  Weighs(n, (space - W[x]) + k, With(Without(W, x), y, k))
<1>1. Weighs(n - 1, space - W[x], Without(W, x))
  BY WeighsLess
<1>2. y \notin DOMAIN Without(W, x)
  BY DEF Without
<1>3. Weighs((n - 1) + 1, (space - W[x]) + k, With(Without(W, x), y, k))
  BY <1>1, <1>2, WeighsMore
<1>4. (n - 1) + 1 = n
  BY WeighsNat
<1>5. QED  BY <1>3, <1>4

-----------------------------------------------------------------------------
(* Bands.                                                                  *)

\* MinSize is a sequence of numbers.
LEMMA Bands ==
  /\ Len(MinSize) \in Nat \ {0} /\ Band = 1 .. Len(MinSize) /\ NoBand \in Nat /\ NoBand \notin Band
  /\ \A b \in Band : MinSize[b] \in Nat /\ FP <= MinSize[b]
<1>1. MinSize \in Seq(Nat) /\ MinSize # << >>
  BY BandsAssumption
<1>2. Len(MinSize) \in Nat /\ DOMAIN MinSize = 1 .. Len(MinSize) /\ Len(MinSize) # 0
  BY <1>1
<1>3. \A b \in Band : MinSize[b] \in Nat
  BY <1>1, <1>2 DEF Band
<1>4. \A b \in Band : FP <= MinSize[b]
  BY <1>3, BandsAssumption, SizesAssumption DEF Band
<1>5. QED  BY <1>2, <1>3, <1>4 DEF Band, NoBand

\* The least of some numbers is one of them.
LEMMA MinIs ==
  ASSUME NEW S, S \subseteq Nat, S # {}
  PROVE  Min(S) \in S /\ \A x \in S : Min(S) <= x
<1>1. \E x \in S : \A y \in S : x <= y
  BY Least
<1>2. QED  BY <1>1 DEF Min

\* The band of a length holds blocks of at least that length.
LEMMA BandOf ==
  ASSUME NEW len \in Nat
  PROVE  /\ CalcBand(len) \in Band \cup {NoBand}
         /\ CalcBand(len) # NoBand => CalcBand(len) \in Band /\ FP <= len
<1> DEFINE S == {i \in Band : len >= MinSize[i]} \cup {NoBand}
<1>1. S \subseteq Nat /\ S # {}
  BY Bands
<1>2. CalcBand(len) = Min(S)
  BY DEF CalcBand
<1> HIDE DEF S
<1>3. CalcBand(len) \in S
  BY <1>1, <1>2, MinIs
<1>4. QED  BY <1>3, Bands, SizesAssumption DEF S

\* A block more in its band.
LEMMA InBandWith ==
  ASSUME NEW W, NEW x, x \notin DOMAIN W, NEW k, NEW b
  PROVE  InBand(With(W, x, k), b) =
           IF CalcBand(k) = b THEN With(InBand(W, b), x, k) ELSE InBand(W, b)
<1> DEFINE in == {y \in DOMAIN W : CalcBand(W[y]) = b}
<1>1. {y \in DOMAIN With(W, x, k) : CalcBand(With(W, x, k)[y]) = b} =
        IF CalcBand(k) = b THEN in \cup {x} ELSE in
  BY DEF With
<1>2. DOMAIN InBand(W, b) = in /\ \A y \in in : InBand(W, b)[y] = W[y]
  BY DEF InBand
<1>3. QED  BY <1>1, <1>2 DEF InBand, With

\* A block less in its band.
LEMMA InBandWithout ==
  ASSUME NEW W, NEW x \in DOMAIN W, NEW b
  PROVE  InBand(Without(W, x), b) =
           IF CalcBand(W[x]) = b THEN Without(InBand(W, b), x) ELSE InBand(W, b)
<1> DEFINE in == {y \in DOMAIN W : CalcBand(W[y]) = b}
<1>1. {y \in DOMAIN Without(W, x) : CalcBand(Without(W, x)[y]) = b} =
        IF CalcBand(W[x]) = b THEN in \ {x} ELSE in
  BY DEF Without
<1>2. DOMAIN InBand(W, b) = in /\ \A y \in in : InBand(W, b)[y] = W[y]
  BY DEF InBand
<1>3. QED  BY <1>1, <1>2 DEF InBand, Without

-----------------------------------------------------------------------------
(* Storages, and writing in them.                                          *)

\* A storage whose cells, counts and locators are of their types.
FileHdr  == [last_off : Int, used_count : Int, free_count : Int, used_space : Int, free_space : Int]
FreeBand == [count : Int, space : Int, first : Locator, last : Locator]
State    == [file : [Off -> Cell], hdr : FileHdr, bands : [Band -> FreeBand]]

\* t has the file of s, but for what is at the cells of C.
Same(s, t, C) == \A c \in Off \ C : t.file[c] = s.file[c]

\* The cells of a header at loc, and of a FreePos in the block at loc.
HdrAt(loc) == loc .. loc + BH - 1
PosAt(loc) == loc + BH .. loc + BH + FP - 1

\* What is written is there, and nothing else changes.
LEMMA WriteIs ==
  ASSUME NEW s \in State, NEW at \in Int, NEW n \in Nat, NEW cells \in [1 .. n -> Cell]
  PROVE  /\ Write(s, at, cells) \in State
         /\ Write(s, at, cells).hdr = s.hdr /\ Write(s, at, cells).bands = s.bands
         /\ \A c \in Off : Write(s, at, cells).file[c] =
               IF c \in at .. at + n - 1 THEN cells[c - at + 1] ELSE s.file[c]
<1>1. Len(cells) = n
  OBVIOUS
<1> DEFINE f == [c \in Off |-> IF c \in at .. at + n - 1 THEN cells[c - at + 1] ELSE s.file[c]]
<1>2. f \in [Off -> Cell]
  <2>1. ASSUME NEW c \in Off, c \in at .. at + n - 1 PROVE cells[c - at + 1] \in Cell
    <3>1. c - at + 1 \in 1 .. n
      BY <2>1, SizesAssumption DEF Off
    <3>2. QED  BY <3>1
  <2>2. s.file \in [Off -> Cell]
    BY DEF State
  <2>3. QED  BY <2>1, <2>2
<1>3. Write(s, at, cells) = [s EXCEPT !.file = f]
  BY <1>1 DEF Write
<1> HIDE DEF f
<1>4. Write(s, at, cells) \in State /\ Write(s, at, cells).hdr = s.hdr
      /\ Write(s, at, cells).bands = s.bands /\ Write(s, at, cells).file = f
  BY <1>2, <1>3 DEF State
<1>5. QED  BY <1>4 DEF f

\* A header that is written.
LEMMA BhdrIs ==
  ASSUME NEW s \in State, NEW loc \in Off, NEW b \in BlockHdr
  PROVE  /\ WriteBhdr(s, loc, b) \in State
         /\ WriteBhdr(s, loc, b).hdr = s.hdr /\ WriteBhdr(s, loc, b).bands = s.bands
         /\ WriteBhdr(s, loc, b).file[loc] = b
         /\ Same(s, WriteBhdr(s, loc, b), HdrAt(loc))
<1> DEFINE cells == Packed(b, BH)
<1>1. cells \in [1 .. BH -> Cell] /\ cells[1] = b /\ BH \in Nat \ {0} /\ loc \in Int /\ loc \in Off
  BY SizesAssumption DEF Packed, Cell, Off
<1> HIDE DEF cells
<1>2. /\ Write(s, loc, cells) \in State
      /\ Write(s, loc, cells).hdr = s.hdr /\ Write(s, loc, cells).bands = s.bands
      /\ \A c \in Off : Write(s, loc, cells).file[c] =
            IF c \in loc .. loc + BH - 1 THEN cells[c - loc + 1] ELSE s.file[c]
  BY <1>1, WriteIs
<1>3. loc - loc + 1 = 1 /\ loc \in loc .. loc + BH - 1
  BY <1>1
<1>4. QED  BY <1>1, <1>2, <1>3 DEF WriteBhdr, Same, HdrAt, cells

\* A FreePos that is written.
LEMMA FreeposIs ==
  ASSUME NEW s \in State, NEW loc \in Off, loc + BH \in Off, NEW fp \in FreePos
  PROVE  /\ WriteFreepos(s, loc, fp) \in State
         /\ WriteFreepos(s, loc, fp).hdr = s.hdr /\ WriteFreepos(s, loc, fp).bands = s.bands
         /\ WriteFreepos(s, loc, fp).file[loc + BH] = fp
         /\ Same(s, WriteFreepos(s, loc, fp), PosAt(loc))
<1> DEFINE cells == Packed(fp, FP)
<1>1. cells \in [1 .. FP -> Cell] /\ cells[1] = fp /\ FP \in Nat
  BY SizesAssumption DEF Packed, Cell
<1> HIDE DEF cells
<1>2. PICK x \in Int : x = loc + BH
  BY SizesAssumption DEF Off
<1>3. /\ Write(s, x, cells) \in State
      /\ Write(s, x, cells).hdr = s.hdr /\ Write(s, x, cells).bands = s.bands
      /\ \A c \in Off : Write(s, x, cells).file[c] =
            IF c \in x .. x + FP - 1 THEN cells[c - x + 1] ELSE s.file[c]
  BY <1>1, WriteIs, Zenon
<1>4. x - x + 1 = 1 /\ x \in x .. x + FP - 1 /\ x \in Off
  BY <1>1, <1>2, SizesAssumption
<1>5. WriteFreepos(s, loc, fp) = Write(s, x, cells)
  BY <1>2 DEF WriteFreepos, cells
<1>6. QED  BY <1>1, <1>2, <1>3, <1>4, <1>5 DEF Same, PosAt

-----------------------------------------------------------------------------
(* Lists of free blocks, whatever band and file they are in: `first` and   *)
(* `last` of the band, and what the FreePos of each block says.            *)

\* What the i-th of the n blocks of q should say.
Link(q, n, i) == [prevfree |-> IF i = 1 THEN RECLOCATOR_MAX ELSE q[i - 1],
                  nextfree |-> IF i = n THEN RECLOCATOR_MAX ELSE q[i + 1]]

\* The n blocks of q are linked from the first to the last.
Chain(first, last, pos, q, n) ==
  /\ first = IF n = 0 THEN RECLOCATOR_MAX ELSE q[1]
  /\ last  = IF n = 0 THEN RECLOCATOR_MAX ELSE q[n]
  /\ \A i \in 1 .. n : pos[q[i]] = Link(q, n, i)

\* q lists the blocks of S, each one once.
Lists(q, n, S) ==
  /\ q \in [1 .. n -> S]
  /\ \A x \in S : \E i \in 1 .. n : q[i] = x
  /\ \A i, j \in 1 .. n : q[i] = q[j] => i = j

\* The blocks of S are linked in a list.
Linked(first, last, pos, S) ==
  \E n \in Nat : \E q \in [1 .. n -> S] : Lists(q, n, S) /\ Chain(first, last, pos, q, n)

\* What block x of a list says of its neighbours.
Neighbours(S, first, last, pos, x) ==
  /\ pos[x] \in FreePos
  /\ pos[x].prevfree \in (S \ {x}) \cup {RECLOCATOR_MAX}
  /\ pos[x].nextfree \in (S \ {x}) \cup {RECLOCATOR_MAX}
  /\ (pos[x].prevfree = RECLOCATOR_MAX) <=> (x = first)
  /\ (pos[x].nextfree = RECLOCATOR_MAX) <=> (x = last)
  /\ pos[x].prevfree # RECLOCATOR_MAX => pos[pos[x].prevfree].nextfree = x
  /\ pos[x].nextfree # RECLOCATOR_MAX => pos[pos[x].nextfree].prevfree = x
  /\ pos[x].prevfree # RECLOCATOR_MAX => pos[x].prevfree # pos[x].nextfree

\* So it is in a list.
LEMMA LinkedAt ==
  ASSUME NEW S, S \subseteq Off, NEW first, NEW last, NEW pos, Linked(first, last, pos, S),
         NEW x \in S
  PROVE  Neighbours(S, first, last, pos, x)
<1>1. PICK n \in Nat : \E q \in [1 .. n -> S] : Lists(q, n, S) /\ Chain(first, last, pos, q, n)
  BY DEF Linked
<1>2. PICK q \in [1 .. n -> S] : Lists(q, n, S) /\ Chain(first, last, pos, q, n)
  BY <1>1
<1>3. RECLOCATOR_MAX \notin S
  BY ValuesAssumption DEF Off
<1>4. PICK i \in 1 .. n : q[i] = x
  BY <1>2 DEF Lists
<1>5. pos[x] = Link(q, n, i) /\ n # 0
  BY <1>2, <1>4 DEF Chain
<1>6. pos[x].prevfree = IF i = 1 THEN RECLOCATOR_MAX ELSE q[i - 1]
  BY <1>5 DEF Link
<1>7. pos[x].nextfree = IF i = n THEN RECLOCATOR_MAX ELSE q[i + 1]
  BY <1>5 DEF Link
<1>8. \A j, k \in 1 .. n : q[j] = q[k] => j = k
  BY <1>2 DEF Lists
<1>9. i # 1 => i - 1 \in 1 .. n /\ q[i - 1] \in S /\ q[i - 1] # x
  BY <1>4, <1>8
<1>10. i # n => i + 1 \in 1 .. n /\ q[i + 1] \in S /\ q[i + 1] # x
  BY <1>4, <1>8
<1>11. pos[x] \in FreePos
  BY <1>5, <1>9, <1>10 DEF Link, FreePos, Locator
<1>12. first = q[1] /\ last = q[n] /\ 1 \in 1 .. n /\ n \in 1 .. n
  BY <1>2, <1>5 DEF Chain
<1>13. (pos[x].prevfree = RECLOCATOR_MAX) <=> (x = first)
  BY <1>3, <1>4, <1>6, <1>8, <1>9, <1>12
<1>14. (pos[x].nextfree = RECLOCATOR_MAX) <=> (x = last)
  BY <1>3, <1>4, <1>7, <1>8, <1>10, <1>12
<1>15. i # 1 => pos[q[i - 1]].nextfree = x
  <2>1. ASSUME i # 1 PROVE pos[q[i - 1]] = Link(q, n, i - 1)
    BY <1>2, <1>9, <2>1 DEF Chain
  <2>2. ASSUME i # 1 PROVE Link(q, n, i - 1).nextfree = q[i]
    BY <2>2 DEF Link
  <2>3. QED  BY <1>4, <2>1, <2>2
<1>16. i # n => pos[q[i + 1]].prevfree = x
  <2>1. ASSUME i # n PROVE pos[q[i + 1]] = Link(q, n, i + 1)
    BY <1>2, <1>10, <2>1 DEF Chain
  <2>2. ASSUME i # n PROVE Link(q, n, i + 1).prevfree = q[i]
    BY <2>2 DEF Link
  <2>3. QED  BY <1>4, <2>1, <2>2
<1>17. i # 1 /\ i # n => q[i - 1] # q[i + 1]
  BY <1>8, <1>9, <1>10
<1>18. pos[x].prevfree # RECLOCATOR_MAX => i # 1
  BY <1>6
<1>19. pos[x].nextfree # RECLOCATOR_MAX => i # n
  BY <1>7
<1>20. QED
  BY <1>3, <1>6, <1>7, <1>9, <1>10, <1>11, <1>13, <1>14, <1>15, <1>16, <1>17, <1>18, <1>19
  DEF Neighbours

\* What a list of blocks looks like at its ends and at each of them.
LEMMA LinkedIs ==
  ASSUME NEW S, S \subseteq Off, NEW first, NEW last, NEW pos, Linked(first, last, pos, S)
  PROVE  /\ first \in S \cup {RECLOCATOR_MAX} /\ last \in S \cup {RECLOCATOR_MAX}
         /\ (S = {} <=> first = RECLOCATOR_MAX) /\ (S = {} <=> last = RECLOCATOR_MAX)
         /\ \A x \in S :
              /\ pos[x] \in FreePos
              /\ pos[x].prevfree \in (S \ {x}) \cup {RECLOCATOR_MAX}
              /\ pos[x].nextfree \in (S \ {x}) \cup {RECLOCATOR_MAX}
              /\ (pos[x].prevfree = RECLOCATOR_MAX) <=> (x = first)
              /\ (pos[x].nextfree = RECLOCATOR_MAX) <=> (x = last)
              /\ pos[x].prevfree # RECLOCATOR_MAX => pos[pos[x].prevfree].nextfree = x
              /\ pos[x].nextfree # RECLOCATOR_MAX => pos[pos[x].nextfree].prevfree = x
              /\ pos[x].prevfree # RECLOCATOR_MAX => pos[x].prevfree # pos[x].nextfree
<1>1. PICK n \in Nat : \E q \in [1 .. n -> S] : Lists(q, n, S) /\ Chain(first, last, pos, q, n)
  BY DEF Linked
<1>2. PICK q \in [1 .. n -> S] : Lists(q, n, S) /\ Chain(first, last, pos, q, n)
  BY <1>1
<1>3. RECLOCATOR_MAX \notin S
  BY ValuesAssumption DEF Off
<1>4. first \in S \cup {RECLOCATOR_MAX} /\ last \in S \cup {RECLOCATOR_MAX}
  BY <1>2 DEF Chain
<1>5. S = {} <=> n = 0
  BY <1>2 DEF Lists
<1>6. (S = {} <=> first = RECLOCATOR_MAX) /\ (S = {} <=> last = RECLOCATOR_MAX)
  BY <1>2, <1>3, <1>5 DEF Chain
<1>7. \A x \in S : Neighbours(S, first, last, pos, x)
  BY LinkedAt
<1>8. QED  BY <1>4, <1>6, <1>7 DEF Neighbours

\* A block is taken out: what pointed to it points past it.
LEMMA Unlinked ==
  ASSUME NEW S, S \subseteq Off, NEW first, NEW last, NEW pos, Linked(first, last, pos, S),
         NEW x \in S, NEW f, NEW l, NEW to,
         f = IF pos[x].prevfree = RECLOCATOR_MAX THEN pos[x].nextfree ELSE first,
         l = IF pos[x].nextfree = RECLOCATOR_MAX THEN pos[x].prevfree ELSE last,
         \A y \in S \ {x} :
           to[y] = [prevfree |-> IF y = pos[x].nextfree THEN pos[x].prevfree ELSE pos[y].prevfree,
                    nextfree |-> IF y = pos[x].prevfree THEN pos[x].nextfree ELSE pos[y].nextfree]
  PROVE  Linked(f, l, to, S \ {x})
<1>1. PICK n \in Nat : \E q \in [1 .. n -> S] : Lists(q, n, S) /\ Chain(first, last, pos, q, n)
  BY DEF Linked
<1>2. PICK q \in [1 .. n -> S] : Lists(q, n, S) /\ Chain(first, last, pos, q, n)
  BY <1>1
<1>3. PICK k \in 1 .. n : q[k] = x
  BY <1>2 DEF Lists
<1>4. n - 1 \in Nat /\ n \in Nat \ {0}
  BY <1>3
<1> DEFINE p == [i \in 1 .. n - 1 |-> IF i < k THEN q[i] ELSE q[i + 1]]
<1>5. \A i \in 1 .. n - 1 : i \in 1 .. n /\ i + 1 \in 1 .. n /\ p[i] = IF i < k THEN q[i] ELSE q[i + 1]
  BY <1>4
<1>6. p \in [1 .. n - 1 -> S]
  BY <1>5
<1> HIDE DEF p
<1>7. \A i, j \in 1 .. n : q[i] = q[j] => i = j
  BY <1>2 DEF Lists
<1>8. \A i \in 1 .. n - 1 : p[i] \in S \ {x}
  <2>1. ASSUME NEW i \in 1 .. n - 1 PROVE p[i] # q[k]
    BY <1>3, <1>5, <1>7
  <2>2. QED  BY <1>3, <1>6, <2>1
<1>9. Lists(p, n - 1, S \ {x})
  <2>1. ASSUME NEW y \in S \ {x} PROVE \E i \in 1 .. n - 1 : p[i] = y
    <3>1. PICK j \in 1 .. n : q[j] = y
      BY <1>2 DEF Lists
    <3>2. j # k
      BY <1>3, <3>1
    <3>3. CASE j < k
      <4>1. j \in 1 .. n - 1 /\ p[j] = y
        BY <1>3, <1>5, <3>1, <3>3
      <4>2. QED  BY <4>1
    <3>4. CASE j > k
      <4>1. j - 1 \in 1 .. n - 1 /\ ~(j - 1 < k) /\ (j - 1) + 1 = j
        BY <1>3, <3>1, <3>4
      <4>2. p[j - 1] = y
        BY <1>5, <3>1, <4>1
      <4>3. QED  BY <4>1, <4>2
    <3>5. QED  BY <3>2, <3>3, <3>4
  <2>2. ASSUME NEW i \in 1 .. n - 1, NEW j \in 1 .. n - 1, p[i] = p[j] PROVE i = j
    <3>1. (IF i < k THEN i ELSE i + 1) = (IF j < k THEN j ELSE j + 1)
      BY <1>5, <1>7, <2>2
    <3>2. QED  BY <1>3, <3>1
  <2>3. p \in [1 .. n - 1 -> S \ {x}]
    BY <1>6, <1>8
  <2>4. QED  BY <2>1, <2>2, <2>3 DEF Lists
<1>10. /\ first = q[1] /\ last = q[n] /\ 1 \in 1 .. n /\ n \in 1 .. n
       /\ \A i \in 1 .. n : /\ pos[q[i]].prevfree = IF i = 1 THEN RECLOCATOR_MAX ELSE q[i - 1]
                            /\ pos[q[i]].nextfree = IF i = n THEN RECLOCATOR_MAX ELSE q[i + 1]
  <2>1. first = q[1] /\ last = q[n] /\ 1 \in 1 .. n /\ n \in 1 .. n
    BY <1>2, <1>4 DEF Chain
  <2>2. ASSUME NEW i \in 1 .. n
        PROVE  /\ pos[q[i]].prevfree = IF i = 1 THEN RECLOCATOR_MAX ELSE q[i - 1]
               /\ pos[q[i]].nextfree = IF i = n THEN RECLOCATOR_MAX ELSE q[i + 1]
    <3>1. pos[q[i]] = Link(q, n, i)
      BY <1>2 DEF Chain
    <3>2. QED  BY <3>1 DEF Link
  <2>3. QED  BY <2>1, <2>2
<1>11. /\ pos[x].prevfree = IF k = 1 THEN RECLOCATOR_MAX ELSE q[k - 1]
       /\ pos[x].nextfree = IF k = n THEN RECLOCATOR_MAX ELSE q[k + 1]
  BY <1>3, <1>10
<1>12. \A i \in 1 .. n : q[i] # RECLOCATOR_MAX
  BY ValuesAssumption DEF Off
<1>13. k # 1 => k - 1 \in 1 .. n
  BY <1>3
<1>14. k # n => k + 1 \in 1 .. n
  BY <1>3
<1>15. Chain(f, l, to, p, n - 1)
  <2>1. f = IF n - 1 = 0 THEN RECLOCATOR_MAX ELSE p[1]
    <3>1. CASE k = 1
      <4>1. f = pos[x].nextfree
        BY <1>11, <3>1
      <4>2. CASE n = 1
        BY <1>3, <1>11, <3>1, <4>1, <4>2
      <4>3. CASE n # 1
        <5>1. p[1] = q[1 + 1] /\ n - 1 # 0 /\ k # n
          BY <1>4, <1>5, <3>1, <4>3
        <5>2. QED  BY <1>11, <3>1, <4>1, <5>1
      <4>4. QED  BY <4>2, <4>3
    <3>2. CASE k # 1
      <4>1. f = first /\ n - 1 # 0 /\ p[1] = q[1]
        BY <1>3, <1>4, <1>5, <1>11, <1>12, <1>13, <3>2
      <4>2. QED  BY <1>10, <4>1
    <3>3. QED  BY <3>1, <3>2
  <2>2. l = IF n - 1 = 0 THEN RECLOCATOR_MAX ELSE p[n - 1]
    <3>1. CASE k = n
      <4>1. l = pos[x].prevfree
        BY <1>11, <3>1
      <4>2. CASE n = 1
        BY <1>3, <1>11, <3>1, <4>1, <4>2
      <4>3. CASE n # 1
        <5>1. n - 1 \in 1 .. n - 1 /\ n - 1 < k /\ n - 1 # 0 /\ k # 1
          BY <1>4, <3>1, <4>3
        <5>2. p[n - 1] = q[n - 1]
          BY <1>5, <5>1
        <5>3. QED  BY <1>11, <3>1, <4>1, <5>1, <5>2
      <4>4. QED  BY <4>2, <4>3
    <3>2. CASE k # n
      <4>1. l = last
        BY <1>11, <1>12, <1>14, <3>2
      <4>2. n - 1 \in 1 .. n - 1 /\ ~(n - 1 < k) /\ n - 1 # 0 /\ (n - 1) + 1 = n
        BY <1>3, <1>4, <3>2
      <4>3. p[n - 1] = q[n]
        BY <1>5, <4>2
      <4>4. QED  BY <1>10, <4>1, <4>2, <4>3
    <3>3. QED  BY <3>1, <3>2
  <2>3. ASSUME NEW i \in 1 .. n - 1 PROVE to[p[i]] = Link(p, n - 1, i)
    <3> DEFINE j == IF i < k THEN i ELSE i + 1
               y == p[i]
    <3>1. j \in 1 .. n /\ y = q[j] /\ j # k /\ y \in S \ {x}
      BY <1>3, <1>5, <1>8
    <3>2. to[y] = [prevfree |-> IF y = pos[x].nextfree THEN pos[x].prevfree ELSE pos[y].prevfree,
                   nextfree |-> IF y = pos[x].prevfree THEN pos[x].nextfree ELSE pos[y].nextfree]
      BY <3>1
    <3>3. /\ pos[y].prevfree = IF j = 1 THEN RECLOCATOR_MAX ELSE q[j - 1]
          /\ pos[y].nextfree = IF j = n THEN RECLOCATOR_MAX ELSE q[j + 1]
      BY <1>10, <3>1
    <3>4. (y = pos[x].nextfree) <=> (j = k + 1)
      <4>1. CASE k = n
        BY <1>11, <1>12, <3>1, <4>1
      <4>2. CASE k # n
        BY <1>7, <1>11, <1>14, <3>1, <4>2
      <4>3. QED  BY <4>1, <4>2
    <3>5. (y = pos[x].prevfree) <=> (j = k - 1)
      <4>1. CASE k = 1
        BY <1>11, <1>12, <3>1, <4>1
      <4>2. CASE k # 1
        BY <1>7, <1>11, <1>13, <3>1, <4>2
      <4>3. QED  BY <4>1, <4>2
    <3>6. Link(p, n - 1, i).prevfree = IF y = pos[x].nextfree THEN pos[x].prevfree ELSE pos[y].prevfree
      <4>1. Link(p, n - 1, i).prevfree = IF i = 1 THEN RECLOCATOR_MAX ELSE p[i - 1]
        BY DEF Link
      <4>2. i # 1 => i - 1 \in 1 .. n - 1 /\ p[i - 1] = IF i - 1 < k THEN q[i - 1] ELSE q[(i - 1) + 1]
        BY <1>5
      <4>3. CASE j = k + 1
        <5>1. i = k /\ (k # 1 => p[i - 1] = q[k - 1])
          BY <4>2, <4>3
        <5>2. QED  BY <1>11, <3>4, <4>1, <4>3, <5>1
      <4>4. CASE j # k + 1 /\ i < k
        <5>1. j = i /\ (i # 1 => p[i - 1] = q[j - 1])
          BY <4>2, <4>4
        <5>2. QED  BY <3>3, <3>4, <4>1, <4>4, <5>1
      <4>5. CASE j # k + 1 /\ ~(i < k)
        <5>1. j = i + 1 /\ i # 1 /\ j # 1 /\ ~(i - 1 < k) /\ (i - 1) + 1 = j - 1
          BY <4>5
        <5>2. p[i - 1] = q[j - 1]
          BY <4>2, <5>1
        <5>3. QED  BY <3>3, <3>4, <4>1, <4>5, <5>1, <5>2
      <4>6. QED  BY <4>3, <4>4, <4>5
    <3>7. Link(p, n - 1, i).nextfree = IF y = pos[x].prevfree THEN pos[x].nextfree ELSE pos[y].nextfree
      <4>1. Link(p, n - 1, i).nextfree = IF i = n - 1 THEN RECLOCATOR_MAX ELSE p[i + 1]
        BY DEF Link
      <4>2. i # n - 1 => i + 1 \in 1 .. n - 1 /\ p[i + 1] = IF i + 1 < k THEN q[i + 1] ELSE q[(i + 1) + 1]
        BY <1>5
      <4>3. CASE j = k - 1
        <5>1. i = j /\ i + 1 = k /\ (i = n - 1 <=> k = n) /\ ~(i + 1 < k)
          BY <4>3
        <5>2. i # n - 1 => p[i + 1] = q[k + 1]
          BY <4>2, <5>1
        <5>3. QED  BY <1>11, <3>5, <4>1, <4>3, <5>1, <5>2
      <4>4. CASE j # k - 1 /\ i < k
        <5>1. j = i /\ i + 1 < k /\ i # n - 1 /\ j # n
          BY <4>4
        <5>2. p[i + 1] = q[j + 1]
          BY <4>2, <5>1
        <5>3. QED  BY <3>3, <3>5, <4>1, <4>4, <5>1, <5>2
      <4>5. CASE j # k - 1 /\ ~(i < k)
        <5>1. j = i + 1 /\ ~(i + 1 < k) /\ (i = n - 1 <=> j = n) /\ (i + 1) + 1 = j + 1
          BY <4>5
        <5>2. i # n - 1 => p[i + 1] = q[j + 1]
          BY <4>2, <5>1
        <5>3. QED  BY <3>3, <3>5, <4>1, <4>5, <5>1, <5>2
      <4>6. QED  BY <4>3, <4>4, <4>5
    <3> HIDE DEF j, y
    <3>8. to[y] = Link(p, n - 1, i)
      BY <3>2, <3>6, <3>7 DEF Link
    <3>9. QED  BY <3>8 DEF y
  <2>4. QED  BY <2>1, <2>2, <2>3 DEF Chain
<1>16. QED  BY <1>4, <1>9, <1>15 DEF Linked, Lists

\* What the blocks of a list and a new last one say.
LinkLast(S, last, pos, x, to) ==
  /\ to[x] = [prevfree |-> last, nextfree |-> RECLOCATOR_MAX]
  /\ \A y \in S : to[y] = [prevfree |-> pos[y].prevfree,
                           nextfree |-> IF y = last THEN x ELSE pos[y].nextfree]

\* A block is put behind the last one.
LEMMA Appended ==
  ASSUME NEW S, S \subseteq Off, NEW first, NEW last, NEW pos, Linked(first, last, pos, S),
         NEW x \in Off \ S, NEW f, f = IF last = RECLOCATOR_MAX THEN x ELSE first,
         NEW to, LinkLast(S, last, pos, x, to)
  PROVE  Linked(f, x, to, S \cup {x})
<1>1. /\ to[x] = [prevfree |-> last, nextfree |-> RECLOCATOR_MAX]
      /\ \A y \in S : to[y] = [prevfree |-> pos[y].prevfree,
                               nextfree |-> IF y = last THEN x ELSE pos[y].nextfree]
  BY DEF LinkLast
<1>2. PICK n \in Nat : \E q \in [1 .. n -> S] : Lists(q, n, S) /\ Chain(first, last, pos, q, n)
  BY DEF Linked
<1>3. PICK q \in [1 .. n -> S] : Lists(q, n, S) /\ Chain(first, last, pos, q, n)
  BY <1>2
<1> DEFINE p == [i \in 1 .. n + 1 |-> IF i = n + 1 THEN x ELSE q[i]]
<1>4. /\ \A i \in 1 .. n : i \in 1 .. n + 1 /\ i # n + 1 /\ p[i] = q[i]
      /\ p[n + 1] = x /\ n + 1 \in 1 .. n + 1 /\ n + 1 \in Nat /\ n + 1 # 0
  OBVIOUS
<1>5. p \in [1 .. n + 1 -> S \cup {x}]
  OBVIOUS
<1> HIDE DEF p
<1>6. \A i, j \in 1 .. n : q[i] = q[j] => i = j
  BY <1>3 DEF Lists
<1>7. Lists(p, n + 1, S \cup {x})
  <2>1. ASSUME NEW y \in S \cup {x} PROVE \E i \in 1 .. n + 1 : p[i] = y
    <3>1. CASE y = x
      BY <1>4, <3>1
    <3>2. CASE y # x
      <4>1. PICK j \in 1 .. n : q[j] = y
        BY <1>3, <3>2 DEF Lists
      <4>2. QED  BY <1>4, <4>1
    <3>3. QED  BY <3>1, <3>2
  <2>2. ASSUME NEW i \in 1 .. n + 1, NEW j \in 1 .. n + 1, p[i] = p[j] PROVE i = j
    <3>1. \A k \in 1 .. n + 1 : k = n + 1 \/ (k \in 1 .. n /\ p[k] = q[k] /\ p[k] # x)
      BY <1>4
    <3>2. QED  BY <1>4, <1>6, <2>2, <3>1
  <2>3. QED  BY <1>5, <2>1, <2>2 DEF Lists
<1>8. Chain(f, x, to, p, n + 1)
  <2>1. f = p[1]
    <3>1. CASE n = 0
      BY <1>3, <1>4, <3>1 DEF Chain
    <3>2. CASE n # 0
      <4>1. 1 \in 1 .. n /\ n \in 1 .. n
        BY <3>2
      <4>2. last = q[n] /\ first = q[1] /\ q[n] # RECLOCATOR_MAX
        BY <1>3, <3>2, <4>1, ValuesAssumption DEF Chain, Off
      <4>3. QED  BY <1>4, <4>1, <4>2
    <3>3. QED  BY <3>1, <3>2
  <2>2. ASSUME NEW i \in 1 .. n + 1 PROVE to[p[i]] = Link(p, n + 1, i)
    <3>1. CASE i = n + 1
      <4>1. n # 0 => n \in 1 .. n /\ p[n] = q[n]
        BY <1>4
      <4>2. last = IF i = 1 THEN RECLOCATOR_MAX ELSE p[i - 1]
        BY <1>3, <3>1, <4>1 DEF Chain
      <4>3. Link(p, n + 1, i) = [prevfree |-> last, nextfree |-> RECLOCATOR_MAX]
        BY <3>1, <4>2 DEF Link
      <4>4. QED  BY <1>4, <1>1, <3>1, <4>3
    <3>2. CASE i # n + 1
      <4>1. i \in 1 .. n /\ p[i] = q[i] /\ q[i] \in S /\ n # 0 /\ n \in 1 .. n
        BY <1>4, <3>2
      <4>2. pos[q[i]] = Link(q, n, i) /\ last = q[n]
        BY <1>3, <4>1 DEF Chain
      <4>3. (q[i] = last) <=> (i = n)
        BY <1>6, <4>1, <4>2
      <4>4. Link(p, n + 1, i).prevfree = Link(q, n, i).prevfree
        <5>1. i # 1 => i - 1 \in 1 .. n /\ p[i - 1] = q[i - 1]
          BY <1>4, <4>1
        <5>2. QED  BY <5>1 DEF Link
      <4>5. Link(p, n + 1, i).nextfree = IF q[i] = last THEN x ELSE Link(q, n, i).nextfree
        <5>1. i # n => i + 1 \in 1 .. n /\ p[i + 1] = q[i + 1]
          BY <1>4, <4>1
        <5>2. Link(p, n + 1, i).nextfree = p[i + 1]
          BY <3>2 DEF Link
        <5>3. i # n => Link(q, n, i).nextfree = q[i + 1]
          BY DEF Link
        <5>4. QED  BY <1>4, <4>3, <5>1, <5>2, <5>3
      <4>6. to[q[i]] = [prevfree |-> Link(q, n, i).prevfree,
                        nextfree |-> IF q[i] = last THEN x ELSE Link(q, n, i).nextfree]
        BY <1>1, <4>1, <4>2
      <4>7. QED  BY <4>1, <4>4, <4>5, <4>6 DEF Link
    <3>3. QED  BY <3>1, <3>2
  <2>3. QED  BY <1>4, <2>1, <2>2 DEF Chain
<1>9. QED  BY <1>4, <1>5, <1>7, <1>8 DEF Linked

\* What the blocks of a list say when z is where x was.
LinkInstead(S, pos, x, z, to) ==
  /\ to[z] = pos[x]
  /\ \A y \in S \ {x} :
       to[y] = [prevfree |-> IF y = pos[x].nextfree THEN z ELSE pos[y].prevfree,
                nextfree |-> IF y = pos[x].prevfree THEN z ELSE pos[y].nextfree]

\* A block takes the place of another one in the list.
LEMMA Replaced ==
  ASSUME NEW S, S \subseteq Off, NEW first, NEW last, NEW pos, Linked(first, last, pos, S),
         NEW x \in S, NEW z \in Off, z \notin S \ {x}, NEW f, NEW l,
         f = IF pos[x].prevfree = RECLOCATOR_MAX THEN z ELSE first,
         l = IF pos[x].nextfree = RECLOCATOR_MAX THEN z ELSE last,
         NEW to, LinkInstead(S, pos, x, z, to)
  PROVE  Linked(f, l, to, (S \ {x}) \cup {z})
<1>1. PICK n \in Nat : \E q \in [1 .. n -> S] : Lists(q, n, S) /\ Chain(first, last, pos, q, n)
  BY DEF Linked
<1>2. PICK q \in [1 .. n -> S] : Lists(q, n, S) /\ Chain(first, last, pos, q, n)
  BY <1>1
<1>3. PICK k \in 1 .. n : q[k] = x
  BY <1>2 DEF Lists
<1>4. n # 0 /\ 1 \in 1 .. n /\ n \in 1 .. n
  BY <1>3
<1> DEFINE p == [q EXCEPT ![k] = z]
<1>5. \A i \in 1 .. n : p[i] = IF i = k THEN z ELSE q[i]
  OBVIOUS
<1>6. \A i, j \in 1 .. n : q[i] = q[j] => i = j
  BY <1>2 DEF Lists
<1>7. p \in [1 .. n -> (S \ {x}) \cup {z}]
  <2>1. \A i \in 1 .. n : p[i] \in (S \ {x}) \cup {z}
    BY <1>3, <1>5, <1>6
  <2>2. QED  BY <2>1
<1> HIDE DEF p
<1>8. Lists(p, n, (S \ {x}) \cup {z})
  <2>1. ASSUME NEW y \in (S \ {x}) \cup {z} PROVE \E i \in 1 .. n : p[i] = y
    <3>1. CASE y = z
      BY <1>5, <3>1
    <3>2. CASE y # z
      <4>1. PICK j \in 1 .. n : q[j] = y
        BY <1>2, <3>2 DEF Lists
      <4>2. j # k
        BY <1>3, <3>2, <4>1
      <4>3. QED  BY <1>5, <4>1, <4>2
    <3>3. QED  BY <3>1, <3>2
  <2>2. ASSUME NEW i \in 1 .. n, NEW j \in 1 .. n, p[i] = p[j] PROVE i = j
    <3>1. \A m \in 1 .. n : m # k => q[m] \in S \ {x} /\ p[m] = q[m]
      BY <1>3, <1>5, <1>6
    <3>2. QED  BY <1>5, <1>6, <2>2, <3>1
  <2>3. QED  BY <1>7, <2>1, <2>2 DEF Lists
<1>9. first = q[1] /\ last = q[n]
  BY <1>2, <1>4 DEF Chain
<1>10. ASSUME NEW i \in 1 .. n
       PROVE  /\ pos[q[i]].prevfree = IF i = 1 THEN RECLOCATOR_MAX ELSE q[i - 1]
              /\ pos[q[i]].nextfree = IF i = n THEN RECLOCATOR_MAX ELSE q[i + 1]
              /\ pos[q[i]] = Link(q, n, i)
  <2>1. pos[q[i]] = Link(q, n, i)
    BY <1>2 DEF Chain
  <2>2. QED  BY <2>1 DEF Link
<1>11. \A i \in 1 .. n : q[i] # RECLOCATOR_MAX
  BY ValuesAssumption DEF Off
<1>12. k # 1 => k - 1 \in 1 .. n
  BY <1>3
<1>13. k # n => k + 1 \in 1 .. n
  BY <1>3
<1>14. (pos[x].prevfree = RECLOCATOR_MAX <=> k = 1) /\ (pos[x].nextfree = RECLOCATOR_MAX <=> k = n)
  BY <1>3, <1>10, <1>11, <1>12, <1>13
<1>15. Chain(f, l, to, p, n)
  <2>1. f = p[1] /\ l = p[n]
    BY <1>4, <1>5, <1>9, <1>14
  <2>2. ASSUME NEW i \in 1 .. n PROVE to[p[i]] = Link(p, n, i)
    <3>1. i # 1 => i - 1 \in 1 .. n /\ p[i - 1] = IF i - 1 = k THEN z ELSE q[i - 1]
      BY <1>5
    <3>2. i # n => i + 1 \in 1 .. n /\ p[i + 1] = IF i + 1 = k THEN z ELSE q[i + 1]
      BY <1>5
    <3>3. CASE i = k
      <4>1. p[i] = z /\ to[p[i]] = Link(q, n, i)
        BY <1>3, <1>5, <1>10, <3>3 DEF LinkInstead
      <4>2. Link(p, n, i) = Link(q, n, i)
        <5>1. i # 1 => p[i - 1] = q[i - 1]
          BY <3>1, <3>3
        <5>2. i # n => p[i + 1] = q[i + 1]
          BY <3>2, <3>3
        <5>3. QED  BY <5>1, <5>2 DEF Link
      <4>3. QED  BY <4>1, <4>2
    <3>4. CASE i # k
      <4>1. p[i] = q[i] /\ q[i] \in S \ {x}
        BY <1>3, <1>5, <1>6, <3>4
      <4>2. to[q[i]] = [prevfree |-> IF q[i] = pos[x].nextfree THEN z ELSE pos[q[i]].prevfree,
                        nextfree |-> IF q[i] = pos[x].prevfree THEN z ELSE pos[q[i]].nextfree]
        BY <4>1 DEF LinkInstead
      <4>3. (q[i] = pos[x].nextfree) <=> (i = k + 1)
        <5>1. CASE k = n
          BY <1>11, <1>14, <5>1
        <5>2. CASE k # n
          BY <1>3, <1>6, <1>10, <1>13, <5>2
        <5>3. QED  BY <5>1, <5>2
      <4>4. (q[i] = pos[x].prevfree) <=> (i = k - 1)
        <5>1. CASE k = 1
          BY <1>11, <1>14, <5>1
        <5>2. CASE k # 1
          BY <1>3, <1>6, <1>10, <1>12, <5>2
        <5>3. QED  BY <5>1, <5>2
      <4>5. Link(p, n, i).prevfree = IF q[i] = pos[x].nextfree THEN z ELSE pos[q[i]].prevfree
        <5>1. Link(p, n, i).prevfree = IF i = 1 THEN RECLOCATOR_MAX ELSE p[i - 1]
          BY DEF Link
        <5>2. i = k + 1 <=> i - 1 = k
          OBVIOUS
        <5>3. i = 1 => i # k + 1
          BY <1>3
        <5>4. QED  BY <1>10, <3>1, <4>3, <5>1, <5>2, <5>3
      <4>6. Link(p, n, i).nextfree = IF q[i] = pos[x].prevfree THEN z ELSE pos[q[i]].nextfree
        <5>1. Link(p, n, i).nextfree = IF i = n THEN RECLOCATOR_MAX ELSE p[i + 1]
          BY DEF Link
        <5>2. i = k - 1 <=> i + 1 = k
          OBVIOUS
        <5>3. i = n => i # k - 1
          BY <1>3
        <5>4. QED  BY <1>10, <3>2, <4>4, <5>1, <5>2, <5>3
      <4>7. QED  BY <4>1, <4>2, <4>5, <4>6 DEF Link
    <3>5. QED  BY <3>3, <3>4
  <2>3. QED  BY <1>4, <2>1, <2>2 DEF Chain
<1>16. QED  BY <1>7, <1>8, <1>15 DEF Linked

-----------------------------------------------------------------------------
(* The lists of the bands, in a storage.  W gives the free blocks their    *)
(* lengths.                                                                *)

\* Blocks that lie in the file and do not overlap.
Apart(W) ==
  /\ DOMAIN W \subseteq Off /\ W \in [DOMAIN W -> Nat]
  /\ \A x \in DOMAIN W : x + BH + W[x] \in Off
  /\ \A x, y \in DOMAIN W : x < y => x + BH + W[x] <= y

\* Those that are in a list, and the cells of their FreePos.
Listed(W) == {x \in DOMAIN W : CalcBand(W[x]) \in Band}
Posts(W)  == {c \in Off : \E x \in Listed(W) : c \in PosAt(x)}

\* The blocks are linked in the lists of their bands, as `pos` says, and they
\* are counted.
PooledAs(s, W, pos) ==
  /\ \A b \in Band :
       /\ Linked(s.bands[b].first, s.bands[b].last, pos, DOMAIN InBand(W, b))
       /\ Weighs(s.bands[b].count, s.bands[b].space, InBand(W, b))
  /\ Weighs(s.hdr.free_count, s.hdr.free_space, W)

\* What the file says of them.
FilePos(s, W) == [x \in DOMAIN W |-> s.file[x + BH]]

\* The lists are in order with it.
Pooled(s, W) == PooledAs(s, W, FilePos(s, W))

\* t has the end and the records of s.
SameUsed(s, t) ==
  /\ t.hdr.last_off = s.hdr.last_off
  /\ t.hdr.used_count = s.hdr.used_count /\ t.hdr.used_space = s.hdr.used_space

\* A FreePos is within the file, and apart from the next one's.
LEMMA ApartIs ==
  ASSUME NEW W, Apart(W), NEW x \in Listed(W)
  PROVE  /\ x \in Off /\ x + BH \in Off /\ PosAt(x) \subseteq Posts(W) /\ x + BH \in PosAt(x)
         /\ \A y \in Listed(W) : y # x => y + BH \notin PosAt(x)
<1>1. /\ x \in Off /\ W[x] \in Nat /\ x + BH + W[x] \in Off
      /\ BH \in Nat \ {0} /\ FP \in Nat \ {0} /\ MaxOff \in Nat
  BY SizesAssumption DEF Apart, Listed
<1>2. FP <= W[x]
  BY <1>1, BandOf, Bands DEF Listed
<1>3. x + BH \in Off /\ x + BH \in PosAt(x)
  BY <1>1, <1>2 DEF Off, PosAt
<1>4. PosAt(x) \subseteq Posts(W)
  BY <1>1, <1>2 DEF Off, PosAt, Posts
<1>5. ASSUME NEW y \in Listed(W), y # x PROVE y + BH \notin PosAt(x)
  <2>1. y \in DOMAIN W /\ x \in DOMAIN W /\ y \in Off /\ W[y] \in Nat
    BY DEF Listed, Apart
  <2>2. x < y \/ y < x
    BY <1>1, <1>5, <2>1 DEF Off
  <2>3. CASE x < y
    <3>1. x + BH + W[x] <= y
      BY <2>1, <2>3 DEF Apart
    <3>2. QED  BY <1>1, <1>2, <2>1, <3>1 DEF Off, PosAt
  <2>4. CASE y < x
    BY <1>1, <2>1, <2>4 DEF Off, PosAt
  <2>5. QED  BY <2>2, <2>3, <2>4
<1>6. QED  BY <1>1, <1>3, <1>4, <1>5

\* Fewer blocks are apart, and their FreePos are among those of all.
LEMMA ApartWithout ==
  ASSUME NEW W, Apart(W), NEW x
  PROVE  /\ Apart(Without(W, x)) /\ Posts(Without(W, x)) \subseteq Posts(W)
         /\ Listed(Without(W, x)) = Listed(W) \ {x}
  BY DEF Apart, Without, Posts, Listed

\* The lists depend on what is said of their blocks only.
LEMMA LinkedSame ==
  ASSUME NEW first, NEW last, NEW pos, NEW S, Linked(first, last, pos, S), NEW to,
         \A x \in S : to[x] = pos[x]
  PROVE  Linked(first, last, to, S)
<1>1. PICK n \in Nat : \E q \in [1 .. n -> S] : Lists(q, n, S) /\ Chain(first, last, pos, q, n)
  BY DEF Linked
<1>2. PICK q \in [1 .. n -> S] : Lists(q, n, S) /\ Chain(first, last, pos, q, n)
  BY <1>1
<1>3. \A i \in 1 .. n : to[q[i]] = pos[q[i]]
  OBVIOUS
<1>4. Chain(first, last, to, q, n)
  BY <1>2, <1>3 DEF Chain
<1>5. QED  BY <1>2, <1>4 DEF Linked

\* What SetNextFree changes.
LEMMA SetNextIs ==
  ASSUME NEW s \in State, NEW W, Apart(W), NEW b \in Band,
         NEW loc \in Listed(W) \cup {RECLOCATOR_MAX}, NEW to \in Locator,
         loc # RECLOCATOR_MAX => s.file[loc + BH] \in FreePos,
         NEW t, t = SetNextFree(s, b, loc, to)
  PROVE  /\ t \in State /\ t.hdr = s.hdr /\ Same(s, t, Posts(W))
         /\ \A d \in Band :
              /\ t.bands[d].count = s.bands[d].count /\ t.bands[d].space = s.bands[d].space
              /\ t.bands[d].last = s.bands[d].last
              /\ t.bands[d].first = IF d = b /\ loc = RECLOCATOR_MAX THEN to ELSE s.bands[d].first
         /\ \A y \in Listed(W) :
              t.file[y + BH] = IF y = loc THEN [prevfree |-> s.file[y + BH].prevfree, nextfree |-> to]
                                          ELSE s.file[y + BH]
<1>1. \A d \in Band : s.bands[d] \in FreeBand
  BY DEF State
<1>2. RECLOCATOR_MAX \notin Listed(W)
  BY ValuesAssumption DEF Listed, Apart, Off
<1>3. CASE loc = RECLOCATOR_MAX
  <2>1. PICK new : new = [s.bands[b] EXCEPT !.first = to]
    OBVIOUS
  <2>2. PICK all : all = [s.bands EXCEPT ![b] = new]
    OBVIOUS
  <2>3. t = [s EXCEPT !.bands = all]
    BY <1>3, <2>1, <2>2 DEF SetNextFree
  <2>4. new \in FreeBand
    BY <1>1, <2>1 DEF FreeBand
  <2>5. all \in [Band -> FreeBand] /\ \A d \in Band : all[d] = IF d = b THEN new ELSE s.bands[d]
    BY <2>2, <2>4 DEF State
  <2>6. t \in State /\ t.hdr = s.hdr /\ t.file = s.file /\ t.bands = all
    BY <2>3, <2>5 DEF State
  <2>7. QED  BY <1>1, <1>2, <1>3, <2>1, <2>5, <2>6 DEF Same, FreeBand
<1>4. CASE loc # RECLOCATOR_MAX
  <2>1. PICK fp \in FreePos : fp = [s.file[loc + BH] EXCEPT !.nextfree = to]
    BY <1>4 DEF FreePos
  <2>2. fp = [prevfree |-> s.file[loc + BH].prevfree, nextfree |-> to]
    BY <1>4, <2>1 DEF FreePos
  <2>3. t = WriteFreepos(s, loc, fp) /\ loc \in Listed(W)
    BY <1>4, <2>1 DEF SetNextFree, ReadFreepos
  <2>4. /\ loc \in Off /\ loc + BH \in Off /\ PosAt(loc) \subseteq Posts(W)
        /\ \A y \in Listed(W) : y + BH \in Off /\ (y # loc => y + BH \notin PosAt(loc))
    BY <2>3, ApartIs
  <2>5. t \in State /\ t.hdr = s.hdr /\ t.bands = s.bands /\ t.file[loc + BH] = fp
        /\ Same(s, t, PosAt(loc))
    BY <2>3, <2>4, FreeposIs
  <2>6. Same(s, t, Posts(W))
    BY <2>4, <2>5 DEF Same
  <2>7. \A y \in Listed(W) : t.file[y + BH] = IF y = loc THEN fp ELSE s.file[y + BH]
    BY <2>4, <2>5 DEF Same
  <2>8. QED  BY <1>1, <1>4, <2>2, <2>5, <2>6, <2>7 DEF FreeBand
<1>5. QED  BY <1>3, <1>4

\* What SetPrevFree changes.
LEMMA SetPrevIs ==
  ASSUME NEW s \in State, NEW W, Apart(W), NEW b \in Band,
         NEW loc \in Listed(W) \cup {RECLOCATOR_MAX}, NEW to \in Locator,
         loc # RECLOCATOR_MAX => s.file[loc + BH] \in FreePos,
         NEW t, t = SetPrevFree(s, b, loc, to)
  PROVE  /\ t \in State /\ t.hdr = s.hdr /\ Same(s, t, Posts(W))
         /\ \A d \in Band :
              /\ t.bands[d].count = s.bands[d].count /\ t.bands[d].space = s.bands[d].space
              /\ t.bands[d].first = s.bands[d].first
              /\ t.bands[d].last = IF d = b /\ loc = RECLOCATOR_MAX THEN to ELSE s.bands[d].last
         /\ \A y \in Listed(W) :
              t.file[y + BH] = IF y = loc THEN [prevfree |-> to, nextfree |-> s.file[y + BH].nextfree]
                                          ELSE s.file[y + BH]
<1>1. \A d \in Band : s.bands[d] \in FreeBand
  BY DEF State
<1>2. RECLOCATOR_MAX \notin Listed(W)
  BY ValuesAssumption DEF Listed, Apart, Off
<1>3. CASE loc = RECLOCATOR_MAX
  <2>1. PICK new : new = [s.bands[b] EXCEPT !.last = to]
    OBVIOUS
  <2>2. PICK all : all = [s.bands EXCEPT ![b] = new]
    OBVIOUS
  <2>3. t = [s EXCEPT !.bands = all]
    BY <1>3, <2>1, <2>2 DEF SetPrevFree
  <2>4. new \in FreeBand
    BY <1>1, <2>1 DEF FreeBand
  <2>5. all \in [Band -> FreeBand] /\ \A d \in Band : all[d] = IF d = b THEN new ELSE s.bands[d]
    BY <2>2, <2>4 DEF State
  <2>6. t \in State /\ t.hdr = s.hdr /\ t.file = s.file /\ t.bands = all
    BY <2>3, <2>5 DEF State
  <2>7. QED  BY <1>1, <1>2, <1>3, <2>1, <2>5, <2>6 DEF Same, FreeBand
<1>4. CASE loc # RECLOCATOR_MAX
  <2>1. PICK fp \in FreePos : fp = [s.file[loc + BH] EXCEPT !.prevfree = to]
    BY <1>4 DEF FreePos
  <2>2. fp = [prevfree |-> to, nextfree |-> s.file[loc + BH].nextfree]
    BY <1>4, <2>1 DEF FreePos
  <2>3. t = WriteFreepos(s, loc, fp) /\ loc \in Listed(W)
    BY <1>4, <2>1 DEF SetPrevFree, ReadFreepos
  <2>4. /\ loc \in Off /\ loc + BH \in Off /\ PosAt(loc) \subseteq Posts(W)
        /\ \A y \in Listed(W) : y + BH \in Off /\ (y # loc => y + BH \notin PosAt(loc))
    BY <2>3, ApartIs
  <2>5. t \in State /\ t.hdr = s.hdr /\ t.bands = s.bands /\ t.file[loc + BH] = fp
        /\ Same(s, t, PosAt(loc))
    BY <2>3, <2>4, FreeposIs
  <2>6. Same(s, t, Posts(W))
    BY <2>4, <2>5 DEF Same
  <2>7. \A y \in Listed(W) : t.file[y + BH] = IF y = loc THEN fp ELSE s.file[y + BH]
    BY <2>4, <2>5 DEF Same
  <2>8. QED  BY <1>1, <1>4, <2>2, <2>5, <2>6, <2>7 DEF FreeBand
<1>5. QED  BY <1>3, <1>4

\* What CountFree changes.
LEMMA CountIs ==
  ASSUME NEW s \in State, NEW b \in Band \cup {NoBand}, NEW n \in Int, NEW k \in Int,
         NEW t, t = CountFree(s, b, n, k)
  PROVE  /\ t \in State /\ t.file = s.file /\ SameUsed(s, t)
         /\ t.hdr.free_count = s.hdr.free_count + n /\ t.hdr.free_space = s.hdr.free_space + k
         /\ \A d \in Band :
              /\ t.bands[d].count = IF d = b THEN s.bands[d].count + n ELSE s.bands[d].count
              /\ t.bands[d].space = IF d = b THEN s.bands[d].space + k ELSE s.bands[d].space
              /\ t.bands[d].first = s.bands[d].first /\ t.bands[d].last = s.bands[d].last
<1>1. s.hdr \in FileHdr /\ \A d \in Band : s.bands[d] \in FreeBand
  BY DEF State
<1>2. PICK c \in Int : c = s.hdr.free_count + n
  BY <1>1 DEF FileHdr
<1>3. PICK m \in Int : m = s.hdr.free_space + k
  BY <1>1 DEF FileHdr
<1>4. PICK u : u = [s EXCEPT !.hdr.free_count = c, !.hdr.free_space = m]
  OBVIOUS
<1>5. PICK new : new = [s.hdr EXCEPT !.free_count = c, !.free_space = m]
  OBVIOUS
<1>6. u \in State /\ u.file = s.file /\ u.hdr = new /\ u.bands = s.bands
  <2>1. u = [s EXCEPT !.hdr = new]
    BY <1>4, <1>5 DEF State
  <2>2. new \in FileHdr
    BY <1>1, <1>5 DEF FileHdr
  <2>3. QED  BY <2>1, <2>2 DEF State
<1>7. SameUsed(s, u) /\ new.free_count = c /\ new.free_space = m
  BY <1>1, <1>5, <1>6 DEF SameUsed, FileHdr
<1>8. CASE b = NoBand
  <2>1. t = u
    BY <1>2, <1>3, <1>4, <1>8 DEF CountFree
  <2>2. QED  BY <1>1, <1>2, <1>3, <1>6, <1>7, <1>8, <2>1, Bands DEF FreeBand
<1>9. CASE b # NoBand
  <2>1. PICK i \in Int : i = s.bands[b].count + n
    BY <1>1, <1>9 DEF FreeBand
  <2>2. PICK j \in Int : j = s.bands[b].space + k
    BY <1>1, <1>9 DEF FreeBand
  <2>3. PICK one : one = [s.bands[b] EXCEPT !.count = i, !.space = j]
    OBVIOUS
  <2>4. PICK all : all = [s.bands EXCEPT ![b] = one]
    OBVIOUS
  <2>5. t = [u EXCEPT !.bands[b].count = i, !.bands[b].space = j]
    BY <1>2, <1>3, <1>4, <1>6, <1>9, <2>1, <2>2 DEF CountFree
  <2>6. t = [u EXCEPT !.bands = all]
    <3>1. PICK half : half = [u.bands EXCEPT ![b] = [s.bands[b] EXCEPT !.count = i]]
      OBVIOUS
    <3>2. PICK v : v = [u EXCEPT !.bands[b].count = i]
      OBVIOUS
    <3>3. v = [u EXCEPT !.bands = half] /\ v.bands = half
      BY <1>6, <1>9, <3>1, <3>2 DEF State
    <3>4. half[b] = [s.bands[b] EXCEPT !.count = i] /\ half \in [Band -> FreeBand]
      BY <1>1, <1>6, <1>9, <3>1 DEF State, FreeBand
    <3>5. PICK w : w = [v EXCEPT !.bands[b].space = j]
      OBVIOUS
    <3>6. v \in State
      BY <1>6, <3>3, <3>4 DEF State
    <3>7. w = [v EXCEPT !.bands = [half EXCEPT ![b] = [half[b] EXCEPT !.space = j]]]
      BY <1>9, <3>3, <3>5, <3>6 DEF State
    <3>8. [half EXCEPT ![b] = [half[b] EXCEPT !.space = j]] = all
      BY <1>6, <1>9, <2>3, <2>4, <3>1, <3>4
    <3>9. t = w
      BY <2>5, <3>2, <3>5
    <3>10. QED  BY <3>3, <3>7, <3>8, <3>9, <1>6 DEF State
  <2>7. one \in FreeBand
    BY <1>1, <1>9, <2>3 DEF FreeBand
  <2>8. all \in [Band -> FreeBand] /\ \A d \in Band : all[d] = IF d = b THEN one ELSE s.bands[d]
    BY <1>9, <2>4, <2>7 DEF State
  <2>9. t \in State /\ t.file = u.file /\ t.hdr = u.hdr /\ t.bands = all
    BY <1>6, <2>6, <2>8 DEF State
  <2>10. one.count = i /\ one.space = j
         /\ one.first = s.bands[b].first /\ one.last = s.bands[b].last
    BY <1>1, <1>9, <2>3 DEF FreeBand
  <2>11. t \in State /\ t.file = s.file /\ SameUsed(s, t)
         /\ t.hdr.free_count = s.hdr.free_count + n /\ t.hdr.free_space = s.hdr.free_space + k
    BY <1>2, <1>3, <1>6, <1>7, <2>9 DEF SameUsed
  <2>12. QED  BY <2>1, <2>2, <2>8, <2>9, <2>10, <2>11
<1>10. QED  BY <1>8, <1>9

\* The blocks of a band are in a list.
LEMMA InListed ==
  ASSUME NEW W, NEW b \in Band
  PROVE  /\ DOMAIN InBand(W, b) \subseteq Listed(W)
         /\ \A x \in DOMAIN InBand(W, b) : InBand(W, b)[x] = W[x] /\ CalcBand(W[x]) = b
         /\ \A x \in Listed(W) : CalcBand(W[x]) = b => x \in DOMAIN InBand(W, b)
  BY DEF InBand, Listed

\* A block leaves its list.
LEMMA FreeRemoveIs ==
  ASSUME NEW s \in State, NEW W, Apart(W), NEW x \in DOMAIN W, NEW pos, PooledAs(s, W, pos),
         \A y \in Listed(W) \ {x} : s.file[y + BH] = pos[y],
         NEW t, t = FreeRemoveRec(s, pos[x], W[x])
  PROVE  /\ t \in State /\ Pooled(t, Without(W, x)) /\ SameUsed(s, t)
         /\ Same(s, t, Posts(Without(W, x)))
<1>1. PICK R : R = Without(W, x)
  OBVIOUS
<1>2. PICK b : b = CalcBand(W[x])
  OBVIOUS
<1>3. PICK fp : fp = pos[x]
  OBVIOUS
<1>4. PICK k : k = W[x]
  OBVIOUS
<1>5. k \in Nat /\ b \in Band \cup {NoBand} /\ -k \in Int /\ -1 \in Int
  BY <1>2, <1>4, BandOf DEF Apart
<1>6. Apart(R) /\ Posts(R) \subseteq Posts(W) /\ Listed(R) = Listed(W) \ {x}
  BY <1>1, ApartWithout
<1>7. \A d \in Band : InBand(R, d) = IF b = d THEN Without(InBand(W, d), x) ELSE InBand(W, d)
  BY <1>1, <1>2, InBandWithout
<1>8. DOMAIN R = DOMAIN W \ {x}
  BY <1>1 DEF Without
<1>9. \A d \in Band : /\ Linked(s.bands[d].first, s.bands[d].last, pos, DOMAIN InBand(W, d))
                      /\ Weighs(s.bands[d].count, s.bands[d].space, InBand(W, d))
  BY DEF PooledAs
<1>10. Weighs(s.hdr.free_count - 1, s.hdr.free_space - k, R)
  BY <1>1, <1>4, WeighsLess DEF PooledAs
<1>11. PICK v : /\ v \in State /\ t = CountFree(v, b, -1, -k) /\ v.hdr = s.hdr
                /\ Same(s, v, Posts(R))
                /\ \A d \in Band : /\ v.bands[d].count = s.bands[d].count
                                   /\ v.bands[d].space = s.bands[d].space
                                   /\ Linked(v.bands[d].first, v.bands[d].last, FilePos(v, R),
                                             DOMAIN InBand(R, d))
  <2>1. CASE b = NoBand
    <3>1. t = CountFree(s, b, -1, -k)
      BY <1>2, <1>4, <2>1 DEF FreeRemoveRec
    <3>2. ASSUME NEW d \in Band
          PROVE  Linked(s.bands[d].first, s.bands[d].last, FilePos(s, R), DOMAIN InBand(R, d))
      <4>1. InBand(R, d) = InBand(W, d)
        BY <1>7, <2>1, Bands
      <4>2. \A y \in DOMAIN InBand(R, d) : y \in Listed(R)
        BY InListed
      <4>3. \A y \in DOMAIN InBand(R, d) : FilePos(s, R)[y] = pos[y]
        BY <1>6, <1>8, <4>2 DEF FilePos, Listed
      <4>4. QED  BY <1>9, <4>1, <4>3, LinkedSame
    <3>3. QED  BY <3>1, <3>2 DEF Same
  <2>2. CASE b \in Band
    <3>1. PICK S : S = DOMAIN InBand(W, b)
      OBVIOUS
    <3>2. S \subseteq Listed(W) /\ x \in S
      BY <1>2, <2>2, <3>1, InListed DEF Listed
    <3>3. S \subseteq Off
      BY <3>2 DEF Listed, Apart
    <3>4. PICK first : first = s.bands[b].first
      OBVIOUS
    <3>5. PICK last : last = s.bands[b].last
      OBVIOUS
    <3>6. Linked(first, last, pos, S)
      BY <1>9, <2>2, <3>1, <3>4, <3>5
    <3>7. /\ \A y \in S : pos[y] \in FreePos
          /\ fp.prevfree \in (S \ {x}) \cup {RECLOCATOR_MAX}
          /\ fp.nextfree \in (S \ {x}) \cup {RECLOCATOR_MAX}
      BY <1>3, <3>2, <3>3, <3>6, LinkedIs
    <3>8. PICK p : p = fp.prevfree
      OBVIOUS
    <3>9. PICK n : n = fp.nextfree
      OBVIOUS
    <3>10. PICK u : u = SetNextFree(s, b, p, n)
      OBVIOUS
    <3>11. PICK v : v = SetPrevFree(u, b, n, p)
      OBVIOUS
    <3>12. t = CountFree(v, b, -1, -k)
      BY <1>2, <1>3, <1>4, <2>2, <3>8, <3>9, <3>10, <3>11, Bands DEF FreeRemoveRec
    <3>13. /\ p \in Listed(R) \cup {RECLOCATOR_MAX} /\ n \in Listed(R) \cup {RECLOCATOR_MAX}
           /\ p \in Locator /\ n \in Locator
           /\ p \in (S \ {x}) \cup {RECLOCATOR_MAX} /\ n \in (S \ {x}) \cup {RECLOCATOR_MAX}
      BY <1>6, <3>2, <3>3, <3>7, <3>8, <3>9 DEF Locator
    <3>14. \A y \in Listed(R) : s.file[y + BH] = pos[y]
      BY <1>6
    <3>15. p # RECLOCATOR_MAX => s.file[p + BH] \in FreePos
      BY <3>7, <3>13, <3>14
    <3>16. /\ u \in State /\ u.hdr = s.hdr /\ Same(s, u, Posts(R))
           /\ \A d \in Band :
                /\ u.bands[d].count = s.bands[d].count /\ u.bands[d].space = s.bands[d].space
                /\ u.bands[d].last = s.bands[d].last
                /\ u.bands[d].first = IF d = b /\ p = RECLOCATOR_MAX THEN n ELSE s.bands[d].first
           /\ \A y \in Listed(R) :
                u.file[y + BH] = IF y = p THEN [prevfree |-> s.file[y + BH].prevfree, nextfree |-> n]
                                          ELSE s.file[y + BH]
      BY <1>6, <2>2, <3>10, <3>13, <3>15, SetNextIs
    <3>17. ASSUME NEW y \in S \ {x}
           PROVE  /\ y \in Listed(R) /\ pos[y] \in FreePos
                  /\ u.file[y + BH] = IF y = p THEN [prevfree |-> pos[y].prevfree, nextfree |-> n]
                                              ELSE pos[y]
      BY <1>6, <3>2, <3>7, <3>14, <3>16
    <3>18. n # RECLOCATOR_MAX => u.file[n + BH] \in FreePos
      <4>1. ASSUME NEW y \in S \ {x} PROVE u.file[y + BH] \in FreePos
        <5>1. u.file[y + BH] = (IF y = p THEN [prevfree |-> pos[y].prevfree, nextfree |-> n] ELSE pos[y])
              /\ pos[y] \in FreePos
          BY <3>17
        <5>2. CASE y = p
          BY <3>13, <5>1, <5>2 DEF FreePos
        <5>3. CASE y # p
          BY <5>1, <5>3
        <5>4. QED  BY <5>2, <5>3
      <4>2. QED  BY <3>13, <4>1
    <3>19. /\ v \in State /\ v.hdr = u.hdr /\ Same(u, v, Posts(R))
           /\ \A d \in Band :
                /\ v.bands[d].count = u.bands[d].count /\ v.bands[d].space = u.bands[d].space
                /\ v.bands[d].first = u.bands[d].first
                /\ v.bands[d].last = IF d = b /\ n = RECLOCATOR_MAX THEN p ELSE u.bands[d].last
           /\ \A y \in Listed(R) :
                v.file[y + BH] = IF y = n THEN [prevfree |-> p, nextfree |-> u.file[y + BH].nextfree]
                                          ELSE u.file[y + BH]
      <4>1. u \in State
        BY <3>16
      <4>2. QED  BY <1>6, <2>2, <3>11, <3>13, <3>18, <4>1, SetPrevIs
    <3>20. Same(s, v, Posts(R))
      BY <3>16, <3>19 DEF Same
    <3>21. ASSUME NEW d \in Band
           PROVE  /\ v.bands[d].count = s.bands[d].count /\ v.bands[d].space = s.bands[d].space
                  /\ v.bands[d].first = IF d = b /\ p = RECLOCATOR_MAX THEN n ELSE s.bands[d].first
                  /\ v.bands[d].last = IF d = b /\ n = RECLOCATOR_MAX THEN p ELSE s.bands[d].last
      BY <3>16, <3>19
    <3>22. PICK to : to = FilePos(v, R)
      OBVIOUS
    <3>23. \A y \in Listed(R) : to[y] = v.file[y + BH]
      BY <3>22 DEF FilePos, Listed
    <3>24. \A y \in S \ {x} : to[y] = [prevfree |-> IF y = n THEN p ELSE pos[y].prevfree,
                                       nextfree |-> IF y = p THEN n ELSE pos[y].nextfree]
      <4>1. ASSUME NEW y \in S \ {x}
            PROVE  to[y] = [prevfree |-> IF y = n THEN p ELSE pos[y].prevfree,
                            nextfree |-> IF y = p THEN n ELSE pos[y].nextfree]
        <5>1. y \in Listed(R) /\ to[y] = v.file[y + BH]
          BY <3>17, <3>23
        <5>2. pos[y] = [prevfree |-> pos[y].prevfree, nextfree |-> pos[y].nextfree]
          BY <3>17 DEF FreePos
        <5>3. CASE y = n
          <6>1. v.file[y + BH] = [prevfree |-> p, nextfree |-> u.file[y + BH].nextfree]
            BY <3>19, <5>1, <5>3
          <6>2. u.file[y + BH].nextfree = IF y = p THEN n ELSE pos[y].nextfree
            <7>1. u.file[y + BH] = IF y = p THEN [prevfree |-> pos[y].prevfree, nextfree |-> n]
                                            ELSE pos[y]
              BY <3>17
            <7>2. QED  BY <7>1
          <6>3. QED  BY <5>1, <5>3, <6>1, <6>2
        <5>4. CASE y # n
          <6>1. v.file[y + BH] = u.file[y + BH]
            BY <3>19, <5>1, <5>4
          <6>2. QED  BY <3>17, <5>1, <5>2, <5>4, <6>1
        <5>5. QED  BY <5>3, <5>4
      <4>2. QED  BY <4>1
    <3>25. Linked(v.bands[b].first, v.bands[b].last, to, S \ {x})
      <4>1. PICK f : f = v.bands[b].first
        OBVIOUS
      <4>2. PICK l : l = v.bands[b].last
        OBVIOUS
      <4>3. f = IF pos[x].prevfree = RECLOCATOR_MAX THEN pos[x].nextfree ELSE first
        BY <1>3, <2>2, <3>4, <3>8, <3>9, <3>21, <4>1
      <4>4. l = IF pos[x].nextfree = RECLOCATOR_MAX THEN pos[x].prevfree ELSE last
        BY <1>3, <2>2, <3>5, <3>8, <3>9, <3>21, <4>2
      <4>5. \A y \in S \ {x} :
              to[y] = [prevfree |-> IF y = pos[x].nextfree THEN pos[x].prevfree ELSE pos[y].prevfree,
                       nextfree |-> IF y = pos[x].prevfree THEN pos[x].nextfree ELSE pos[y].nextfree]
        BY <1>3, <3>8, <3>9, <3>24
      <4>6. Linked(f, l, to, S \ {x})
        BY <3>2, <3>3, <3>6, <4>3, <4>4, <4>5, Unlinked
      <4>7. QED  BY <4>1, <4>2, <4>6
    <3>26. ASSUME NEW d \in Band
           PROVE  Linked(v.bands[d].first, v.bands[d].last, to, DOMAIN InBand(R, d))
      <4>1. CASE d = b
        BY <1>7, <3>1, <3>25, <4>1 DEF Without
      <4>2. CASE d # b
        <5>1. InBand(R, d) = InBand(W, d)
          BY <1>7, <4>2
        <5>2. \A y \in DOMAIN InBand(R, d) : y \in Listed(R) /\ y \notin S
          BY <2>2, <3>1, <4>2, <5>1, InListed
        <5>3. \A y \in Listed(R) : y # RECLOCATOR_MAX
          BY <1>6, ValuesAssumption DEF Apart, Listed, Off
        <5>4. ASSUME NEW y \in DOMAIN InBand(R, d) PROVE to[y] = pos[y]
          <6>1. y \in Listed(R) /\ y # p /\ y # n
            BY <3>13, <5>2, <5>3
          <6>2. u.file[y + BH] = s.file[y + BH] /\ v.file[y + BH] = u.file[y + BH]
            BY <3>16, <3>19, <6>1
          <6>3. QED  BY <3>14, <3>23, <6>1, <6>2
        <5>5. QED  BY <1>9, <3>21, <4>2, <5>1, <5>4, LinkedSame
      <4>3. QED  BY <4>1, <4>2
    <3>27. QED  BY <3>12, <3>16, <3>19, <3>20, <3>21, <3>22, <3>26
  <2>3. QED  BY <1>5, <2>1, <2>2
<1>12. /\ t \in State /\ t.file = v.file /\ SameUsed(v, t)
       /\ t.hdr.free_count = v.hdr.free_count + (-1) /\ t.hdr.free_space = v.hdr.free_space + (-k)
       /\ \A d \in Band :
            /\ t.bands[d].count = IF d = b THEN v.bands[d].count + (-1) ELSE v.bands[d].count
            /\ t.bands[d].space = IF d = b THEN v.bands[d].space + (-k) ELSE v.bands[d].space
            /\ t.bands[d].first = v.bands[d].first /\ t.bands[d].last = v.bands[d].last
  BY <1>5, <1>11, CountIs
<1>13. FilePos(t, R) = FilePos(v, R)
  BY <1>12 DEF FilePos
<1>14. ASSUME NEW d \in Band
       PROVE  /\ Linked(t.bands[d].first, t.bands[d].last, FilePos(t, R), DOMAIN InBand(R, d))
              /\ Weighs(t.bands[d].count, t.bands[d].space, InBand(R, d))
  <2>1. Linked(t.bands[d].first, t.bands[d].last, FilePos(t, R), DOMAIN InBand(R, d))
    BY <1>11, <1>12, <1>13
  <2>2. Weighs(t.bands[d].count, t.bands[d].space, InBand(R, d))
    <3>1. CASE d = b
      <4>1. x \in DOMAIN InBand(W, d) /\ InBand(W, d)[x] = k
        BY <1>2, <1>4, <3>1 DEF InBand
      <4>2. Weighs(s.bands[d].count - 1, s.bands[d].space - k, Without(InBand(W, d), x))
        BY <1>9, <4>1, WeighsLess
      <4>3. s.bands[d].count \in Int /\ s.bands[d].space \in Int
        BY DEF State, FreeBand
      <4>4. t.bands[d].count = s.bands[d].count - 1 /\ t.bands[d].space = s.bands[d].space - k
        BY <1>5, <1>11, <1>12, <3>1, <4>3
      <4>5. QED  BY <1>7, <3>1, <4>2, <4>4
    <3>2. CASE d # b
      BY <1>7, <1>9, <1>11, <1>12, <3>2
    <3>3. QED  BY <3>1, <3>2
  <2>3. QED  BY <2>1, <2>2
<1>15. Weighs(t.hdr.free_count, t.hdr.free_space, R)
  <2>1. s.hdr.free_count \in Int /\ s.hdr.free_space \in Int
    BY DEF State, FileHdr
  <2>2. QED  BY <1>5, <1>10, <1>11, <1>12, <2>1
<1>16. Pooled(t, R)
  BY <1>14, <1>15 DEF Pooled, PooledAs
<1>17. SameUsed(s, t) /\ Same(s, t, Posts(R))
  BY <1>11, <1>12 DEF SameUsed, Same
<1>18. QED  BY <1>1, <1>12, <1>16, <1>17

\* The same, when the file still holds the block's FreePos.
LEMMA FreeRemoveRead ==
  ASSUME NEW s \in State, NEW W, Apart(W), NEW x \in DOMAIN W, Pooled(s, W),
         NEW t, t = FreeRemove(s, x, W[x])
  PROVE  /\ t \in State /\ Pooled(t, Without(W, x)) /\ SameUsed(s, t)
         /\ Same(s, t, Posts(Without(W, x)))
<1>1. PICK pos : pos = FilePos(s, W)
  OBVIOUS
<1>2. PooledAs(s, W, pos) /\ \A y \in DOMAIN W : s.file[y + BH] = pos[y]
  BY <1>1 DEF Pooled, FilePos
<1>3. t = FreeRemoveRec(s, pos[x], W[x])
  BY <1>2 DEF FreeRemove, ReadFreepos
<1>4. QED  BY <1>2, <1>3, FreeRemoveIs DEF Listed

\* Lengths of blocks.
Lengths(W) == W \in [DOMAIN W -> Nat]

\* One more block.
LEMMA WithIs ==
  ASSUME NEW W, Lengths(W), NEW x, x \notin DOMAIN W, NEW k \in Nat
  PROVE  /\ \A y : y \in DOMAIN With(W, x, k) <=> y \in DOMAIN W \/ y = x
         /\ With(W, x, k)[x] = k /\ Lengths(With(W, x, k))
         /\ \A y \in DOMAIN W : With(W, x, k)[y] = W[y]
         /\ Without(With(W, x, k), x) = W
         /\ \A y : y \in Listed(With(W, x, k)) <=> y \in Listed(W) \/ (y = x /\ CalcBand(k) \in Band)
         /\ Posts(W) \subseteq Posts(With(W, x, k))
<1>1. PICK G : G = With(W, x, k)
  OBVIOUS
<1>2. DOMAIN G = DOMAIN W \cup {x} /\ G[x] = k /\ \A y \in DOMAIN W : G[y] = W[y]
  BY <1>1 DEF With
<1>3. Lengths(G)
  BY <1>1, <1>2 DEF With, Lengths
<1>4. Without(G, x) = W
  BY <1>2 DEF Without, Lengths
<1>5. \A y : y \in Listed(G) <=> y \in Listed(W) \/ (y = x /\ CalcBand(k) \in Band)
  BY <1>2 DEF Listed
<1>6. Posts(W) \subseteq Posts(G)
  BY <1>5 DEF Posts
<1>7. QED  BY <1>1, <1>2, <1>3, <1>4, <1>5, <1>6

\* What a FreePos that is written leaves of the other ones.
LEMMA PosIs ==
  ASSUME NEW s \in State, NEW G, Apart(G), NEW x \in Listed(G), NEW fp \in FreePos,
         NEW t, t = WriteFreepos(s, x, fp)
  PROVE  /\ t \in State /\ t.hdr = s.hdr /\ t.bands = s.bands /\ Same(s, t, Posts(G))
         /\ \A y \in Listed(G) : t.file[y + BH] = IF y = x THEN fp ELSE s.file[y + BH]
<1>1. /\ x \in Off /\ x + BH \in Off /\ PosAt(x) \subseteq Posts(G)
      /\ \A y \in Listed(G) : y + BH \in Off /\ (y # x => y + BH \notin PosAt(x))
  BY ApartIs
<1>2. t \in State /\ t.hdr = s.hdr /\ t.bands = s.bands /\ t.file[x + BH] = fp
      /\ Same(s, t, PosAt(x))
  BY <1>1, FreeposIs
<1>3. Same(s, t, Posts(G))
  BY <1>1, <1>2 DEF Same
<1>4. \A y \in Listed(G) : t.file[y + BH] = IF y = x THEN fp ELSE s.file[y + BH]
  BY <1>1, <1>2 DEF Same
<1>5. QED  BY <1>2, <1>3, <1>4

\* A block is appended to its list.
LEMMA FreeAddIs ==
  ASSUME NEW s \in State, NEW W, Pooled(s, W), NEW x \in Off, x \notin DOMAIN W, NEW k \in Nat,
         Apart(With(W, x, k)), NEW t, t = FreeAdd(s, x, k)
  PROVE  /\ t \in State /\ Pooled(t, With(W, x, k)) /\ SameUsed(s, t)
         /\ Same(s, t, Posts(With(W, x, k)))
<1>1. PICK G : G = With(W, x, k)
  OBVIOUS
<1>2. PICK b : b = CalcBand(k)
  OBVIOUS
<1>3. PICK pos : pos = FilePos(s, W)
  OBVIOUS
<1>4. b \in Band \cup {NoBand} /\ k \in Int /\ 1 \in Int
  BY <1>2, BandOf
<1>5. Lengths(W)
  BY DEF Pooled, PooledAs, Weighs, Lengths
<1>6. /\ \A y : y \in DOMAIN G <=> y \in DOMAIN W \/ y = x
      /\ G[x] = k /\ Without(G, x) = W /\ Posts(W) \subseteq Posts(G)
      /\ \A y : y \in Listed(G) <=> y \in Listed(W) \/ (y = x /\ b \in Band)
  BY <1>1, <1>2, <1>5, WithIs
<1>7. Apart(G) /\ Apart(W)
  BY <1>1, <1>6, ApartWithout
<1>8. \A d \in Band : InBand(G, d) = IF b = d THEN With(InBand(W, d), x, k) ELSE InBand(W, d)
  BY <1>1, <1>2, InBandWith
<1>9. \A d \in Band : /\ Linked(s.bands[d].first, s.bands[d].last, pos, DOMAIN InBand(W, d))
                      /\ Weighs(s.bands[d].count, s.bands[d].space, InBand(W, d))
  BY <1>3 DEF Pooled, PooledAs
<1>10. Weighs(s.hdr.free_count + 1, s.hdr.free_space + k, G)
  BY <1>1, WeighsMore DEF Pooled, PooledAs
<1>11. PICK v : /\ v \in State /\ t = CountFree(v, b, 1, k) /\ v.hdr = s.hdr
                /\ Same(s, v, Posts(G))
                /\ \A d \in Band : /\ v.bands[d].count = s.bands[d].count
                                   /\ v.bands[d].space = s.bands[d].space
                                   /\ Linked(v.bands[d].first, v.bands[d].last, FilePos(v, G),
                                             DOMAIN InBand(G, d))
  <2>1. CASE b = NoBand
    <3>1. t = CountFree(s, b, 1, k)
      BY <1>2, <2>1 DEF FreeAdd
    <3>2. ASSUME NEW d \in Band
          PROVE  Linked(s.bands[d].first, s.bands[d].last, FilePos(s, G), DOMAIN InBand(G, d))
      <4>1. InBand(G, d) = InBand(W, d)
        BY <1>8, <2>1, Bands
      <4>2. \A y \in DOMAIN InBand(G, d) : y \in DOMAIN W
        BY <4>1, InListed DEF Listed
      <4>3. \A y \in DOMAIN InBand(G, d) : FilePos(s, G)[y] = pos[y]
        BY <1>3, <1>6, <4>2 DEF FilePos
      <4>4. QED  BY <1>9, <4>1, <4>3, LinkedSame
    <3>3. QED  BY <3>1, <3>2 DEF Same
  <2>2. CASE b \in Band
    <3>1. PICK S : S = DOMAIN InBand(W, b)
      OBVIOUS
    <3>2. S \subseteq Listed(W) /\ S \subseteq Off /\ x \notin S
      BY <1>7, <2>2, <3>1, InListed DEF Listed, Apart
    <3>3. PICK first : first = s.bands[b].first
      OBVIOUS
    <3>4. PICK last : last = s.bands[b].last
      OBVIOUS
    <3>5. Linked(first, last, pos, S)
      BY <1>9, <2>2, <3>1, <3>3, <3>4
    <3>6. last \in S \cup {RECLOCATOR_MAX} /\ \A y \in S : pos[y] \in FreePos
      <4>1. S \subseteq Off
        BY <3>2
      <4>2. last \in S \cup {RECLOCATOR_MAX}
        BY <3>5, <4>1, LinkedIs
      <4>3. \A y \in S : pos[y] \in FreePos
        BY <3>5, <4>1, LinkedAt DEF Neighbours
      <4>4. QED  BY <4>2, <4>3
    <3>7. PICK new \in FreePos : new = [prevfree |-> last, nextfree |-> RECLOCATOR_MAX]
      BY <3>2, <3>6 DEF FreePos, Locator
    <3>8. PICK u : u = SetNextFree(s, b, last, x)
      OBVIOUS
    <3>9. PICK w : w = WriteFreepos(u, x, new)
      OBVIOUS
    <3>10. PICK v : v = SetPrevFree(w, b, RECLOCATOR_MAX, x)
      OBVIOUS
    <3>11. t = CountFree(v, b, 1, k)
      <4>1. v = [w EXCEPT !.bands[b].last = x]
        BY <3>10 DEF SetPrevFree
      <4>2. QED  BY <1>2, <2>2, <3>4, <3>7, <3>8, <3>9, <4>1, Bands, Zenon DEF FreeAdd
    <3>12. \A y \in Listed(W) : s.file[y + BH] = pos[y] /\ y # x
      BY <1>3 DEF FilePos, Listed
    <3>13. /\ last \in Listed(W) \cup {RECLOCATOR_MAX} /\ x \in Locator
           /\ last # RECLOCATOR_MAX => s.file[last + BH] \in FreePos
      BY <3>2, <3>6, <3>12 DEF Locator
    <3>14. /\ u \in State /\ u.hdr = s.hdr /\ Same(s, u, Posts(W))
           /\ \A d \in Band :
                /\ u.bands[d].count = s.bands[d].count /\ u.bands[d].space = s.bands[d].space
                /\ u.bands[d].last = s.bands[d].last
                /\ u.bands[d].first = IF d = b /\ last = RECLOCATOR_MAX THEN x ELSE s.bands[d].first
           /\ \A y \in Listed(W) :
                u.file[y + BH] = IF y = last THEN [prevfree |-> s.file[y + BH].prevfree, nextfree |-> x]
                                             ELSE s.file[y + BH]
      BY <1>7, <2>2, <3>8, <3>13, SetNextIs
    <3>15. x \in Listed(G) /\ \A y \in Listed(W) : y \in Listed(G)
      BY <1>6, <2>2
    <3>16. /\ w \in State /\ w.hdr = u.hdr /\ w.bands = u.bands /\ Same(u, w, Posts(G))
           /\ \A y \in Listed(G) : w.file[y + BH] = IF y = x THEN new ELSE u.file[y + BH]
      <4>1. u \in State
        BY <3>14
      <4>2. QED  BY <1>7, <3>7, <3>9, <3>15, <4>1, PosIs
    <3>17. /\ v \in State /\ v.hdr = w.hdr /\ Same(w, v, Posts(G))
           /\ \A d \in Band :
                /\ v.bands[d].count = w.bands[d].count /\ v.bands[d].space = w.bands[d].space
                /\ v.bands[d].first = w.bands[d].first
                /\ v.bands[d].last = IF d = b THEN x ELSE w.bands[d].last
           /\ \A y \in Listed(G) : v.file[y + BH] = w.file[y + BH]
      <4>1. w \in State
        BY <3>16
      <4>2. \A y \in Listed(G) : y # RECLOCATOR_MAX
        BY <1>7, ValuesAssumption DEF Listed, Apart, Off
      <4>3. PICK none : none = RECLOCATOR_MAX
        OBVIOUS
      <4>4. none \in Listed(G) \cup {RECLOCATOR_MAX} /\ v = SetPrevFree(w, b, none, x)
        BY <3>10, <4>3
      <4>5. /\ v \in State /\ v.hdr = w.hdr /\ Same(w, v, Posts(G))
            /\ \A d \in Band :
                 /\ v.bands[d].count = w.bands[d].count /\ v.bands[d].space = w.bands[d].space
                 /\ v.bands[d].first = w.bands[d].first
                 /\ v.bands[d].last = IF d = b /\ none = RECLOCATOR_MAX THEN x ELSE w.bands[d].last
            /\ \A y \in Listed(G) :
                 v.file[y + BH] = IF y = none THEN [prevfree |-> x, nextfree |-> w.file[y + BH].nextfree]
                                              ELSE w.file[y + BH]
        BY <1>7, <2>2, <3>13, <4>1, <4>3, <4>4, SetPrevIs
      <4>6. QED  BY <4>2, <4>3, <4>5
    <3>18. Same(s, v, Posts(G))
      BY <1>6, <3>14, <3>16, <3>17 DEF Same
    <3>19. ASSUME NEW d \in Band
           PROVE  /\ v.bands[d].count = s.bands[d].count /\ v.bands[d].space = s.bands[d].space
                  /\ v.bands[d].first = IF d = b /\ last = RECLOCATOR_MAX THEN x ELSE s.bands[d].first
                  /\ v.bands[d].last = IF d = b THEN x ELSE s.bands[d].last
      BY <3>14, <3>16, <3>17
    <3>20. PICK to : to = FilePos(v, G)
      OBVIOUS
    <3>21. \A y \in Listed(G) : to[y] = v.file[y + BH]
      BY <3>20 DEF FilePos, Listed
    <3>22. to[x] = [prevfree |-> last, nextfree |-> RECLOCATOR_MAX]
      BY <3>7, <3>15, <3>16, <3>17, <3>21
    <3>23. ASSUME NEW y \in Listed(W)
           PROVE  to[y] = IF y = last THEN [prevfree |-> pos[y].prevfree, nextfree |-> x] ELSE pos[y]
      <4>1. y \in Listed(G) /\ y # x /\ s.file[y + BH] = pos[y]
        BY <3>12, <3>15
      <4>2. to[y] = u.file[y + BH]
        BY <3>16, <3>17, <3>21, <4>1
      <4>3. QED  BY <3>14, <4>1, <4>2
    <3>24. ASSUME NEW y \in S
           PROVE  to[y] = [prevfree |-> pos[y].prevfree,
                           nextfree |-> IF y = last THEN x ELSE pos[y].nextfree]
      <4>1. pos[y] = [prevfree |-> pos[y].prevfree, nextfree |-> pos[y].nextfree]
        BY <3>6 DEF FreePos
      <4>2. to[y] = IF y = last THEN [prevfree |-> pos[y].prevfree, nextfree |-> x] ELSE pos[y]
        BY <3>2, <3>23
      <4>3. QED  BY <4>1, <4>2
    <3>25. Linked(v.bands[b].first, v.bands[b].last, to, S \cup {x})
      <4>1. PICK f : f = v.bands[b].first
        OBVIOUS
      <4>2. f = IF last = RECLOCATOR_MAX THEN x ELSE first
        BY <2>2, <3>3, <3>19, <4>1
      <4>3. x \in Off \ S /\ S \subseteq Off
        BY <3>2
      <4>4. Linked(f, x, to, S \cup {x})
        <5>1. LinkLast(S, last, pos, x, to)
          BY <3>22, <3>24 DEF LinkLast
        <5>2. QED  BY <3>5, <4>2, <4>3, <5>1, Appended
      <4>5. QED  BY <2>2, <3>19, <4>1, <4>4
    <3>26. ASSUME NEW d \in Band
           PROVE  Linked(v.bands[d].first, v.bands[d].last, to, DOMAIN InBand(G, d))
      <4>1. CASE d = b
        BY <1>8, <3>1, <3>25, <4>1 DEF With
      <4>2. CASE d # b
        <5>1. InBand(G, d) = InBand(W, d)
          BY <1>8, <4>2
        <5>2. \A y \in DOMAIN InBand(G, d) : y \in Listed(W) /\ y \notin S
          BY <2>2, <3>1, <4>2, <5>1, InListed
        <5>3. \A y \in Listed(W) : y # RECLOCATOR_MAX
          BY <1>7, ValuesAssumption DEF Apart, Listed, Off
        <5>4. ASSUME NEW y \in DOMAIN InBand(G, d) PROVE to[y] = pos[y]
          <6>1. y \in Listed(W) /\ y # last
            BY <3>6, <5>2, <5>3
          <6>2. QED  BY <3>23, <6>1
        <5>5. QED  BY <1>9, <3>19, <4>2, <5>1, <5>4, LinkedSame
      <4>3. QED  BY <4>1, <4>2
    <3>27. v.hdr = s.hdr /\ v \in State
      BY <3>14, <3>16, <3>17
    <3>28. QED  BY <3>11, <3>18, <3>19, <3>20, <3>26, <3>27
  <2>3. QED  BY <1>4, <2>1, <2>2
<1>12. /\ t \in State /\ t.file = v.file /\ SameUsed(v, t)
       /\ t.hdr.free_count = v.hdr.free_count + 1 /\ t.hdr.free_space = v.hdr.free_space + k
       /\ \A d \in Band :
            /\ t.bands[d].count = IF d = b THEN v.bands[d].count + 1 ELSE v.bands[d].count
            /\ t.bands[d].space = IF d = b THEN v.bands[d].space + k ELSE v.bands[d].space
            /\ t.bands[d].first = v.bands[d].first /\ t.bands[d].last = v.bands[d].last
  BY <1>4, <1>11, CountIs
<1>13. FilePos(t, G) = FilePos(v, G)
  BY <1>12 DEF FilePos
<1>14. ASSUME NEW d \in Band
       PROVE  /\ Linked(t.bands[d].first, t.bands[d].last, FilePos(t, G), DOMAIN InBand(G, d))
              /\ Weighs(t.bands[d].count, t.bands[d].space, InBand(G, d))
  <2>1. Linked(t.bands[d].first, t.bands[d].last, FilePos(t, G), DOMAIN InBand(G, d))
    BY <1>11, <1>12, <1>13
  <2>2. Weighs(t.bands[d].count, t.bands[d].space, InBand(G, d))
    <3>1. CASE d = b
      <4>1. x \notin DOMAIN InBand(W, d)
        BY InListed DEF Listed
      <4>2. Weighs(s.bands[d].count + 1, s.bands[d].space + k, With(InBand(W, d), x, k))
        BY <1>9, <4>1, WeighsMore
      <4>3. t.bands[d].count = s.bands[d].count + 1 /\ t.bands[d].space = s.bands[d].space + k
        BY <1>11, <1>12, <3>1
      <4>4. QED  BY <1>8, <3>1, <4>2, <4>3
    <3>2. CASE d # b
      BY <1>8, <1>9, <1>11, <1>12, <3>2
    <3>3. QED  BY <3>1, <3>2
  <2>3. QED  BY <2>1, <2>2
<1>15. Weighs(t.hdr.free_count, t.hdr.free_space, G)
  BY <1>10, <1>11, <1>12
<1>16. Pooled(t, G)
  BY <1>14, <1>15 DEF Pooled, PooledAs
<1>17. SameUsed(s, t) /\ Same(s, t, Posts(G))
  BY <1>11, <1>12 DEF SameUsed, Same
<1>18. QED  BY <1>1, <1>12, <1>16, <1>17

\* What a storage says of blocks whose lists are those of `pos` but for x, and
\* of z instead of x, after the pointers to x and the FreePos were written.
LEMMA MovedIs ==
  ASSUME NEW s \in State, NEW W, Apart(W), NEW x \in Listed(W), NEW pos, PooledAs(s, W, pos),
         \A y \in Listed(W) \ {x} : s.file[y + BH] = pos[y],
         NEW z \in Off, NEW k \in Nat, z \notin DOMAIN Without(W, x),
         NEW b \in Band, b = CalcBand(W[x]), b = CalcBand(k), Apart(With(Without(W, x), z, k)),
         NEW v, v = WriteFreepos(SetNextFree(SetPrevFree(s, b, pos[x].nextfree, z),
                                             b, pos[x].prevfree, z),
                                 z, pos[x])
  PROVE  /\ v \in State /\ v.hdr = s.hdr
         /\ Same(s, v, Posts(With(Without(W, x), z, k)))
         /\ \A d \in Band : /\ v.bands[d].count = s.bands[d].count
                            /\ v.bands[d].space = s.bands[d].space
                            /\ Linked(v.bands[d].first, v.bands[d].last,
                                      FilePos(v, With(Without(W, x), z, k)),
                                      DOMAIN InBand(With(Without(W, x), z, k), d))
<1>1. PICK R : R = Without(W, x)
  OBVIOUS
<1>2. PICK G : G = With(R, z, k)
  OBVIOUS
<1>3. PICK fp : fp = pos[x]
  OBVIOUS
<1>4. PICK p : p = fp.prevfree
  OBVIOUS
<1>5. PICK n : n = fp.nextfree
  OBVIOUS
<1>6. PICK u : u = SetPrevFree(s, b, n, z)
  OBVIOUS
<1>7. PICK w : w = SetNextFree(u, b, p, z)
  OBVIOUS
<1>8. v = WriteFreepos(w, z, fp)
  BY <1>3, <1>4, <1>5, <1>6, <1>7
<1>9. /\ Apart(R) /\ Posts(R) \subseteq Posts(W) /\ \A y : y \in Listed(R) <=> y \in Listed(W) /\ y # x
      /\ x \in DOMAIN W
  BY <1>1, ApartWithout DEF Listed
<1>10. Lengths(R)
  BY <1>9 DEF Apart, Lengths
<1>11. /\ \A y : y \in DOMAIN G <=> y \in DOMAIN R \/ y = z
       /\ G[z] = k /\ \A y \in DOMAIN R : G[y] = R[y]
       /\ \A y : y \in Listed(G) <=> y \in Listed(R) \/ (y = z /\ CalcBand(k) \in Band)
       /\ Posts(R) \subseteq Posts(G)
  BY <1>1, <1>2, <1>10, WithIs
<1>12. z \in Listed(G) /\ \A y \in Listed(R) : y \in Listed(G) /\ y # z
  BY <1>1, <1>11 DEF Listed
<1>13. Apart(G)
  BY <1>1, <1>2
<1>14. \A d \in Band : Linked(s.bands[d].first, s.bands[d].last, pos, DOMAIN InBand(W, d))
  BY DEF PooledAs
<1>15. PICK S : S = DOMAIN InBand(W, b)
  OBVIOUS
<1>16. S \subseteq Listed(W) /\ x \in S
  BY <1>15, InListed
<1>17. S \subseteq Off
  BY <1>16 DEF Listed, Apart
<1>18. PICK first : first = s.bands[b].first
  OBVIOUS
<1>19. PICK last : last = s.bands[b].last
  OBVIOUS
<1>20. Linked(first, last, pos, S)
  BY <1>14, <1>15, <1>18, <1>19
<1>21. /\ \A y \in S : pos[y] \in FreePos
       /\ fp.prevfree \in (S \ {x}) \cup {RECLOCATOR_MAX}
       /\ fp.nextfree \in (S \ {x}) \cup {RECLOCATOR_MAX}
  BY <1>3, <1>16, <1>17, <1>20, LinkedIs
<1>22. /\ p \in Listed(R) \cup {RECLOCATOR_MAX} /\ n \in Listed(R) \cup {RECLOCATOR_MAX}
       /\ p \in (S \ {x}) \cup {RECLOCATOR_MAX} /\ n \in (S \ {x}) \cup {RECLOCATOR_MAX}
       /\ z \in Locator /\ fp \in FreePos
  BY <1>3, <1>4, <1>5, <1>9, <1>16, <1>21 DEF Locator
<1>23. \A y \in Listed(R) : s.file[y + BH] = pos[y]
  BY <1>9
<1>24. n # RECLOCATOR_MAX => s.file[n + BH] \in FreePos
  BY <1>21, <1>22, <1>23
<1>25. /\ u \in State /\ u.hdr = s.hdr /\ Same(s, u, Posts(R))
       /\ \A d \in Band :
            /\ u.bands[d].count = s.bands[d].count /\ u.bands[d].space = s.bands[d].space
            /\ u.bands[d].first = s.bands[d].first
            /\ u.bands[d].last = IF d = b /\ n = RECLOCATOR_MAX THEN z ELSE s.bands[d].last
       /\ \A y \in Listed(R) :
            u.file[y + BH] = IF y = n THEN [prevfree |-> z, nextfree |-> s.file[y + BH].nextfree]
                                      ELSE s.file[y + BH]
  <2>1. Apart(R) /\ n \in Listed(R) \cup {RECLOCATOR_MAX} /\ z \in Locator
    BY <1>9, <1>22
  <2>2. QED  BY <1>6, <1>24, <2>1, SetPrevIs
<1>26. u \in State
  BY <1>25
<1>27. ASSUME NEW y \in S \ {x}
       PROVE  /\ y \in Listed(R) /\ pos[y] \in FreePos
              /\ u.file[y + BH] = IF y = n THEN [prevfree |-> z, nextfree |-> pos[y].nextfree]
                                           ELSE pos[y]
  BY <1>9, <1>16, <1>21, <1>23, <1>25
<1>28. p # RECLOCATOR_MAX => u.file[p + BH] \in FreePos
  <2>1. ASSUME NEW y \in S \ {x} PROVE u.file[y + BH] \in FreePos
    <3>1. u.file[y + BH] = (IF y = n THEN [prevfree |-> z, nextfree |-> pos[y].nextfree] ELSE pos[y])
          /\ pos[y] \in FreePos
      BY <1>27
    <3>2. CASE y = n
      BY <1>22, <3>1, <3>2 DEF FreePos
    <3>3. CASE y # n
      BY <3>1, <3>3
    <3>4. QED  BY <3>2, <3>3
  <2>2. QED  BY <1>22, <2>1
<1>29. /\ w \in State /\ w.hdr = u.hdr /\ Same(u, w, Posts(R))
       /\ \A d \in Band :
            /\ w.bands[d].count = u.bands[d].count /\ w.bands[d].space = u.bands[d].space
            /\ w.bands[d].last = u.bands[d].last
            /\ w.bands[d].first = IF d = b /\ p = RECLOCATOR_MAX THEN z ELSE u.bands[d].first
       /\ \A y \in Listed(R) :
            w.file[y + BH] = IF y = p THEN [prevfree |-> u.file[y + BH].prevfree, nextfree |-> z]
                                      ELSE u.file[y + BH]
  <2>1. Apart(R) /\ p \in Listed(R) \cup {RECLOCATOR_MAX} /\ z \in Locator
    BY <1>9, <1>22
  <2>2. QED  BY <1>7, <1>26, <1>28, <2>1, SetNextIs
<1>30. w \in State
  BY <1>29
<1>31. /\ v \in State /\ v.hdr = w.hdr /\ v.bands = w.bands /\ Same(w, v, Posts(G))
       /\ \A y \in Listed(G) : v.file[y + BH] = IF y = z THEN fp ELSE w.file[y + BH]
  BY <1>8, <1>12, <1>13, <1>22, <1>30, PosIs
<1>32. Same(s, v, Posts(G))
  BY <1>11, <1>25, <1>29, <1>31 DEF Same
<1>33. ASSUME NEW d \in Band
       PROVE  /\ v.bands[d].count = s.bands[d].count /\ v.bands[d].space = s.bands[d].space
              /\ v.bands[d].first = IF d = b /\ p = RECLOCATOR_MAX THEN z ELSE s.bands[d].first
              /\ v.bands[d].last = IF d = b /\ n = RECLOCATOR_MAX THEN z ELSE s.bands[d].last
  BY <1>25, <1>29, <1>31
<1>34. PICK to : to = FilePos(v, G)
  OBVIOUS
<1>35. \A y \in Listed(G) : to[y] = v.file[y + BH]
  BY <1>34 DEF FilePos, Listed
<1>36. ASSUME NEW y \in Listed(R) PROVE to[y] = w.file[y + BH]
  BY <1>12, <1>31, <1>35
<1>37. LinkInstead(S, pos, x, z, to)
  <2>1. to[z] = pos[x]
    BY <1>3, <1>12, <1>31, <1>35
  <2>2. ASSUME NEW y \in S \ {x}
        PROVE  to[y] = [prevfree |-> IF y = n THEN z ELSE pos[y].prevfree,
                        nextfree |-> IF y = p THEN z ELSE pos[y].nextfree]
    <3>1. y \in Listed(R) /\ to[y] = w.file[y + BH]
      BY <1>27, <1>36
    <3>2. pos[y] = [prevfree |-> pos[y].prevfree, nextfree |-> pos[y].nextfree]
      BY <1>27 DEF FreePos
    <3>3. u.file[y + BH] = [prevfree |-> IF y = n THEN z ELSE pos[y].prevfree,
                            nextfree |-> pos[y].nextfree]
      <4>1. u.file[y + BH] = IF y = n THEN [prevfree |-> z, nextfree |-> pos[y].nextfree] ELSE pos[y]
        BY <1>27
      <4>2. QED  BY <3>2, <4>1
    <3>4. CASE y = p
      <4>1. w.file[y + BH] = [prevfree |-> u.file[y + BH].prevfree, nextfree |-> z]
        BY <1>29, <3>1, <3>4
      <4>2. QED  BY <3>1, <3>3, <3>4, <4>1
    <3>5. CASE y # p
      <4>1. w.file[y + BH] = u.file[y + BH]
        BY <1>29, <3>1, <3>5
      <4>2. QED  BY <3>1, <3>3, <3>5, <4>1
    <3>6. QED  BY <3>4, <3>5
  <2>3. QED  BY <1>3, <1>4, <1>5, <2>1, <2>2 DEF LinkInstead
<1>38. Linked(v.bands[b].first, v.bands[b].last, to, (S \ {x}) \cup {z})
  <2>1. PICK f : f = v.bands[b].first
    OBVIOUS
  <2>2. PICK l : l = v.bands[b].last
    OBVIOUS
  <2>3. f = IF pos[x].prevfree = RECLOCATOR_MAX THEN z ELSE first
    BY <1>3, <1>4, <1>18, <1>33, <2>1
  <2>4. l = IF pos[x].nextfree = RECLOCATOR_MAX THEN z ELSE last
    BY <1>3, <1>5, <1>19, <1>33, <2>2
  <2>5. z \notin S \ {x}
    BY <1>1, <1>16 DEF Without, Listed
  <2>6. Linked(f, l, to, (S \ {x}) \cup {z})
    BY <1>16, <1>17, <1>20, <1>37, <2>3, <2>4, <2>5, Replaced
  <2>7. QED  BY <2>1, <2>2, <2>6
<1>39. ASSUME NEW d \in Band
       PROVE  Linked(v.bands[d].first, v.bands[d].last, to, DOMAIN InBand(G, d))
  <2>1. InBand(G, d) = IF b = d THEN With(InBand(R, d), z, k) ELSE InBand(R, d)
    BY <1>1, <1>2, InBandWith
  <2>2. InBand(R, d) = IF b = d THEN Without(InBand(W, d), x) ELSE InBand(W, d)
    <3>1. x \in DOMAIN W
      BY <1>9
    <3>2. InBand(R, d) = IF CalcBand(W[x]) = d THEN Without(InBand(W, d), x) ELSE InBand(W, d)
      BY <1>1, <3>1, InBandWithout
    <3>3. QED  BY <3>2
  <2>3. CASE d = b
    <3>1. DOMAIN InBand(G, d) = (S \ {x}) \cup {z}
      BY <1>15, <2>1, <2>2, <2>3 DEF With, Without
    <3>2. QED  BY <1>38, <2>3, <3>1
  <2>4. CASE d # b
    <3>1. InBand(G, d) = InBand(W, d) /\ InBand(G, d) = InBand(R, d)
      BY <2>1, <2>2, <2>4
    <3>2. \A y \in DOMAIN InBand(R, d) : y \in Listed(R)
      BY InListed
    <3>3. \A y \in DOMAIN InBand(W, d) : y \notin S
      BY <1>15, <2>4, InListed
    <3>4. \A y \in Listed(R) : y # RECLOCATOR_MAX
      BY <1>9, ValuesAssumption DEF Apart, Listed, Off
    <3>5. ASSUME NEW y \in DOMAIN InBand(W, d) PROVE to[y] = pos[y]
      <4>1. y \in Listed(R) /\ y # p /\ y # n
        BY <1>22, <3>1, <3>2, <3>3, <3>4
      <4>2. u.file[y + BH] = s.file[y + BH] /\ w.file[y + BH] = u.file[y + BH]
        BY <1>25, <1>29, <4>1
      <4>3. QED  BY <1>23, <1>36, <4>1, <4>2
    <3>6. Linked(s.bands[d].first, s.bands[d].last, to, DOMAIN InBand(W, d))
      <4>1. Linked(s.bands[d].first, s.bands[d].last, pos, DOMAIN InBand(W, d))
        BY <1>14
      <4>2. QED  BY <3>5, <4>1, LinkedSame
    <3>7. v.bands[d].first = s.bands[d].first /\ v.bands[d].last = s.bands[d].last
      BY <1>33, <2>4
    <3>8. QED  BY <3>1, <3>6, <3>7
  <2>5. QED  BY <2>3, <2>4
<1>40. v.hdr = s.hdr
  BY <1>25, <1>29, <1>31
<1>41. QED  BY <1>1, <1>2, <1>31, <1>32, <1>33, <1>34, <1>39, <1>40

\* The lists of the bands hold the blocks, as the file says.
Chained(s, W) ==
  \A b \in Band : Linked(s.bands[b].first, s.bands[b].last, FilePos(s, W), DOMAIN InBand(W, b))

\* t has the counts of s.
SameCounts(s, t) ==
  /\ t.hdr = s.hdr
  /\ \A b \in Band : t.bands[b].count = s.bands[b].count /\ t.bands[b].space = s.bands[b].space

\* Block x has become block z of its band, of length k, and is counted again.
LEMMA Recounted ==
  ASSUME NEW s \in State, NEW W, NEW x \in DOMAIN W, NEW pos, PooledAs(s, W, pos),
         NEW z \in Off, NEW k \in Nat, z \notin DOMAIN Without(W, x), CalcBand(W[x]) = CalcBand(k),
         NEW v \in State, SameCounts(s, v), Chained(v, With(Without(W, x), z, k)),
         NEW t, t = CountFree(v, CalcBand(k), 0, k - W[x])
  PROVE  t \in State /\ t.file = v.file /\ SameUsed(s, t) /\ Pooled(t, With(Without(W, x), z, k))
<1>1. PICK G : G = With(Without(W, x), z, k)
  OBVIOUS
<1>2. PICK b : b = CalcBand(k)
  OBVIOUS
<1>3. W[x] \in Nat
  BY DEF PooledAs, Weighs
<1>4. b \in Band \cup {NoBand} /\ k - W[x] \in Int /\ 0 \in Int
  BY <1>2, <1>3, BandOf
<1>5. /\ t \in State /\ t.file = v.file /\ SameUsed(v, t)
      /\ t.hdr.free_count = v.hdr.free_count + 0 /\ t.hdr.free_space = v.hdr.free_space + (k - W[x])
      /\ \A d \in Band :
           /\ t.bands[d].count = IF d = b THEN v.bands[d].count + 0 ELSE v.bands[d].count
           /\ t.bands[d].space = IF d = b THEN v.bands[d].space + (k - W[x]) ELSE v.bands[d].space
           /\ t.bands[d].first = v.bands[d].first /\ t.bands[d].last = v.bands[d].last
  <2>1. PICK m \in Int : m = k - W[x]
    BY <1>4
  <2>2. t = CountFree(v, b, 0, m)
    BY <1>2, <2>1
  <2>3. /\ t \in State /\ t.file = v.file /\ SameUsed(v, t)
        /\ t.hdr.free_count = v.hdr.free_count + 0 /\ t.hdr.free_space = v.hdr.free_space + m
        /\ \A d \in Band :
             /\ t.bands[d].count = IF d = b THEN v.bands[d].count + 0 ELSE v.bands[d].count
             /\ t.bands[d].space = IF d = b THEN v.bands[d].space + m ELSE v.bands[d].space
             /\ t.bands[d].first = v.bands[d].first /\ t.bands[d].last = v.bands[d].last
    BY <1>4, <2>2, CountIs
  <2>4. QED  BY <2>1, <2>3
<1>6. v.hdr = s.hdr
  BY DEF SameCounts
<1>7. \A d \in Band : v.bands[d].count = s.bands[d].count /\ v.bands[d].space = s.bands[d].space
  BY DEF SameCounts
<1>8. s.hdr.free_count \in Int /\ s.hdr.free_space \in Int
  BY DEF State, FileHdr
<1>9. Weighs(t.hdr.free_count, t.hdr.free_space, G)
  <2>1. Weighs(s.hdr.free_count, s.hdr.free_space, W)
    BY DEF PooledAs
  <2>2. Weighs(s.hdr.free_count - 1, s.hdr.free_space - W[x], Without(W, x))
    BY <2>1, WeighsLess
  <2>3. Weighs((s.hdr.free_count - 1) + 1, (s.hdr.free_space - W[x]) + k, G)
    BY <1>1, <2>2, WeighsMore
  <2>4. (s.hdr.free_count - 1) + 1 = t.hdr.free_count
        /\ (s.hdr.free_space - W[x]) + k = t.hdr.free_space
    BY <1>3, <1>5, <1>6, <1>8
  <2>5. QED  BY <2>3, <2>4
<1>10. FilePos(t, G) = FilePos(v, G)
  BY <1>5 DEF FilePos
<1>11. ASSUME NEW d \in Band
       PROVE  /\ Linked(t.bands[d].first, t.bands[d].last, FilePos(t, G), DOMAIN InBand(G, d))
              /\ Weighs(t.bands[d].count, t.bands[d].space, InBand(G, d))
  <2>1. Linked(t.bands[d].first, t.bands[d].last, FilePos(t, G), DOMAIN InBand(G, d))
    <3>1. Linked(v.bands[d].first, v.bands[d].last, FilePos(v, G), DOMAIN InBand(G, d))
      BY <1>1 DEF Chained
    <3>2. t.bands[d].first = v.bands[d].first /\ t.bands[d].last = v.bands[d].last
      BY <1>5
    <3>3. QED  BY <1>10, <3>1, <3>2
  <2>2. Weighs(s.bands[d].count, s.bands[d].space, InBand(W, d))
    BY DEF PooledAs
  <2>3. InBand(G, d) = IF b = d THEN With(InBand(Without(W, x), d), z, k) ELSE InBand(Without(W, x), d)
    BY <1>1, <1>2, InBandWith
  <2>4. InBand(Without(W, x), d) = IF b = d THEN Without(InBand(W, d), x) ELSE InBand(W, d)
    BY <1>2, InBandWithout
  <2>5. Weighs(t.bands[d].count, t.bands[d].space, InBand(G, d))
    <3>1. CASE d = b
      <4>1. x \in DOMAIN InBand(W, d) /\ InBand(W, d)[x] = W[x]
        BY <1>2, <3>1 DEF InBand
      <4>2. Weighs(s.bands[d].count - 1, s.bands[d].space - W[x], Without(InBand(W, d), x))
        BY <2>2, <4>1, WeighsLess
      <4>3. z \notin DOMAIN Without(InBand(W, d), x)
        BY DEF Without, InBand
      <4>4. Weighs((s.bands[d].count - 1) + 1, (s.bands[d].space - W[x]) + k, InBand(G, d))
        BY <2>3, <2>4, <3>1, <4>2, <4>3, WeighsMore
      <4>5. s.bands[d].count \in Int /\ s.bands[d].space \in Int
        BY DEF State, FreeBand
      <4>6. t.bands[d].count = s.bands[d].count + 0 /\ t.bands[d].space = s.bands[d].space + (k - W[x])
        BY <1>5, <1>7, <3>1
      <4>7. (s.bands[d].count - 1) + 1 = t.bands[d].count
            /\ (s.bands[d].space - W[x]) + k = t.bands[d].space
        BY <1>3, <4>5, <4>6
      <4>8. QED  BY <4>4, <4>7
    <3>2. CASE d # b
      <4>1. t.bands[d].count = s.bands[d].count /\ t.bands[d].space = s.bands[d].space
        BY <1>5, <1>7, <3>2
      <4>2. InBand(G, d) = InBand(W, d)
        BY <2>3, <2>4, <3>2
      <4>3. QED  BY <2>2, <4>1, <4>2
    <3>3. QED  BY <3>1, <3>2
  <2>6. QED  BY <2>1, <2>5
<1>12. Pooled(t, G)
  BY <1>9, <1>11 DEF Pooled, PooledAs
<1>13. SameUsed(s, t)
  BY <1>5, <1>6 DEF SameUsed
<1>14. QED  BY <1>1, <1>5, <1>12, <1>13

\* A free block is now elsewhere, or of another length.
LEMMA MoveFreeIs ==
  ASSUME NEW s \in State, NEW W, Apart(W), NEW x \in DOMAIN W, NEW pos, PooledAs(s, W, pos),
         \A y \in Listed(W) \ {x} : s.file[y + BH] = pos[y],
         NEW z \in Off, NEW k \in Nat, z \notin DOMAIN Without(W, x),
         Apart(With(Without(W, x), z, k)),
         NEW t, t = MoveFree(s, pos[x], z, W[x], k)
  PROVE  /\ t \in State /\ Pooled(t, With(Without(W, x), z, k)) /\ SameUsed(s, t)
         /\ Same(s, t, Posts(With(Without(W, x), z, k)))
<1>1. PICK R : R = Without(W, x)
  OBVIOUS
<1>2. PICK G : G = With(R, z, k)
  OBVIOUS
<1>3. PICK b : b = CalcBand(W[x])
  OBVIOUS
<1>4. W[x] \in Nat /\ Lengths(R)
  BY <1>1 DEF Apart, Without, Lengths
<1>5. b \in Band \cup {NoBand}
  BY <1>3, <1>4, BandOf
<1>6. Posts(R) \subseteq Posts(G)
  BY <1>1, <1>2, <1>4, WithIs
<1>7. CASE CalcBand(k) # b
  <2>1. PICK u : u = FreeRemoveRec(s, pos[x], W[x])
    OBVIOUS
  <2>2. t = FreeAdd(u, z, k)
    BY <1>3, <1>7, <2>1 DEF MoveFree
  <2>3. u \in State /\ Pooled(u, R) /\ SameUsed(s, u) /\ Same(s, u, Posts(R))
    BY <1>1, <2>1, FreeRemoveIs
  <2>4. t \in State /\ Pooled(t, G) /\ SameUsed(u, t) /\ Same(u, t, Posts(G))
    BY <1>1, <1>2, <2>2, <2>3, FreeAddIs
  <2>5. SameUsed(s, t) /\ Same(s, t, Posts(G))
    BY <1>6, <2>3, <2>4 DEF SameUsed, Same
  <2>6. QED  BY <1>1, <1>2, <2>4, <2>5
<1>8. CASE CalcBand(k) = b
  <2>1. PICK v : /\ v \in State /\ SameCounts(s, v) /\ Chained(v, G) /\ Same(s, v, Posts(G))
                 /\ t = CountFree(v, b, 0, k - W[x])
    <3>1. CASE b = NoBand
      <4>1. t = CountFree(s, b, 0, k - W[x])
        BY <1>3, <1>8, <3>1 DEF MoveFree
      <4>2. ASSUME NEW d \in Band
            PROVE  Linked(s.bands[d].first, s.bands[d].last, FilePos(s, G), DOMAIN InBand(G, d))
        <5>1. InBand(G, d) = InBand(R, d)
          <6>1. InBand(G, d) = IF CalcBand(k) = d THEN With(InBand(R, d), z, k) ELSE InBand(R, d)
            BY <1>1, <1>2, InBandWith
          <6>2. QED  BY <1>8, <3>1, <6>1, Bands
        <5>2. InBand(R, d) = InBand(W, d)
          <6>1. InBand(R, d) = IF CalcBand(W[x]) = d THEN Without(InBand(W, d), x) ELSE InBand(W, d)
            BY <1>1, InBandWithout
          <6>2. QED  BY <1>3, <3>1, <6>1, Bands
        <5>3. ASSUME NEW y \in DOMAIN InBand(W, d) PROVE FilePos(s, G)[y] = pos[y]
          <6>1. y \in DOMAIN InBand(R, d)
            BY <5>2
          <6>2. y \in DOMAIN R
            BY <6>1 DEF InBand
          <6>3. y \in Listed(W) /\ y # x
            <7>1. y \in DOMAIN W /\ CalcBand(W[y]) = d
              BY DEF InBand
            <7>2. d # NoBand
              BY Bands
            <7>3. QED  BY <1>3, <3>1, <7>1, <7>2 DEF Listed
          <6>4. y \in DOMAIN G
            BY <1>2, <6>2 DEF With
          <6>5. QED  BY <6>3, <6>4 DEF FilePos
        <5>4. Linked(s.bands[d].first, s.bands[d].last, pos, DOMAIN InBand(W, d))
          BY DEF PooledAs
        <5>5. Linked(s.bands[d].first, s.bands[d].last, FilePos(s, G), DOMAIN InBand(W, d))
          BY <5>3, <5>4, LinkedSame
        <5>6. QED  BY <5>1, <5>2, <5>5
      <4>3. QED  BY <4>1, <4>2 DEF Same, SameCounts, Chained
    <3>2. CASE b \in Band
      <4>1. PICK v : v = WriteFreepos(SetNextFree(SetPrevFree(s, b, pos[x].nextfree, z),
                                                  b, pos[x].prevfree, z),
                                      z, pos[x])
        OBVIOUS
      <4>2. t = CountFree(v, b, 0, k - W[x])
        BY <1>3, <1>8, <3>2, <4>1, Bands DEF MoveFree
      <4>3. x \in Listed(W)
        BY <1>3, <3>2 DEF Listed
      <4>4. /\ v \in State /\ v.hdr = s.hdr /\ Same(s, v, Posts(With(Without(W, x), z, k)))
            /\ \A d \in Band : /\ v.bands[d].count = s.bands[d].count
                               /\ v.bands[d].space = s.bands[d].space
                               /\ Linked(v.bands[d].first, v.bands[d].last,
                                         FilePos(v, With(Without(W, x), z, k)),
                                         DOMAIN InBand(With(Without(W, x), z, k), d))
        BY <1>3, <1>8, <3>2, <4>1, <4>3, MovedIs
      <4>5. QED  BY <1>1, <1>2, <4>2, <4>4 DEF SameCounts, Chained
    <3>3. QED  BY <1>5, <3>1, <3>2
  <2>2. t \in State /\ t.file = v.file /\ SameUsed(s, t) /\ Pooled(t, G)
    <3>1. CalcBand(W[x]) = CalcBand(k) /\ t = CountFree(v, CalcBand(k), 0, k - W[x])
      BY <1>3, <1>8, <2>1
    <3>2. SameCounts(s, v) /\ Chained(v, With(Without(W, x), z, k)) /\ v \in State
      BY <1>1, <1>2, <2>1
    <3>3. t \in State /\ t.file = v.file /\ SameUsed(s, t) /\ Pooled(t, With(Without(W, x), z, k))
      BY <3>1, <3>2, Recounted
    <3>4. QED  BY <1>1, <1>2, <3>3
  <2>3. Same(s, t, Posts(G))
    BY <2>1, <2>2 DEF Same
  <2>4. QED  BY <1>1, <1>2, <2>2, <2>3
<1>9. QED  BY <1>7, <1>8

\* A free block is now of another length.
LEMMA GrowFreeIs ==
  ASSUME NEW s \in State, NEW W, Apart(W), NEW x \in DOMAIN W, Pooled(s, W), NEW k \in Nat,
         Apart(With(Without(W, x), x, k)), NEW t, t = GrowFree(s, x, W[x], k)
  PROVE  /\ t \in State /\ Pooled(t, With(Without(W, x), x, k)) /\ SameUsed(s, t)
         /\ Same(s, t, Posts(With(Without(W, x), x, k)))
<1>1. PICK R : R = Without(W, x)
  OBVIOUS
<1>2. PICK G : G = With(R, x, k)
  OBVIOUS
<1>3. PICK b : b = CalcBand(W[x])
  OBVIOUS
<1>4. W[x] \in Nat /\ Lengths(R) /\ x \in Off /\ x \notin DOMAIN R
  BY <1>1 DEF Apart, Without, Lengths
<1>5. Posts(R) \subseteq Posts(G)
  BY <1>2, <1>4, WithIs
<1>6. CASE CalcBand(k) # b
  <2>1. PICK u : u = FreeRemove(s, x, W[x])
    OBVIOUS
  <2>2. t = FreeAdd(u, x, k)
    BY <1>3, <1>6, <2>1 DEF GrowFree
  <2>3. u \in State /\ Pooled(u, R) /\ SameUsed(s, u) /\ Same(s, u, Posts(R))
    BY <1>1, <2>1, FreeRemoveRead
  <2>4. Apart(With(R, x, k))
    BY <1>1
  <2>5. t \in State /\ Pooled(t, G) /\ SameUsed(u, t) /\ Same(u, t, Posts(G))
    BY <1>2, <1>4, <2>2, <2>3, <2>4, FreeAddIs
  <2>6. SameUsed(s, t) /\ Same(s, t, Posts(G))
    BY <1>5, <2>3, <2>5 DEF SameUsed, Same
  <2>7. QED  BY <1>1, <1>2, <2>5, <2>6
<1>7. CASE CalcBand(k) = b
  <2>1. t = CountFree(s, CalcBand(k), 0, k - W[x])
    BY <1>3, <1>7 DEF GrowFree
  <2>2. PICK pos : pos = FilePos(s, W)
    OBVIOUS
  <2>3. PooledAs(s, W, pos)
    BY <2>2 DEF Pooled
  <2>4. Chained(s, G)
    <3>1. FilePos(s, G) = pos
      <4>1. DOMAIN G = DOMAIN W
        BY <1>1, <1>2 DEF With, Without
      <4>2. QED  BY <2>2, <4>1 DEF FilePos
    <3>2. ASSUME NEW d \in Band PROVE DOMAIN InBand(G, d) = DOMAIN InBand(W, d)
      <4>1. InBand(G, d) = IF CalcBand(k) = d THEN With(InBand(R, d), x, k) ELSE InBand(R, d)
        BY <1>2, <1>4, InBandWith
      <4>2. InBand(R, d) = IF CalcBand(W[x]) = d THEN Without(InBand(W, d), x) ELSE InBand(W, d)
        BY <1>1, InBandWithout
      <4>3. CASE d = b
        <5>1. InBand(G, d) = With(Without(InBand(W, d), x), x, k) /\ x \in DOMAIN InBand(W, d)
          BY <1>3, <1>7, <4>1, <4>2, <4>3 DEF InBand
        <5>2. QED  BY <5>1 DEF With, Without
      <4>4. CASE d # b
        BY <1>3, <1>7, <4>1, <4>2, <4>4
      <4>5. QED  BY <4>3, <4>4
    <3>3. QED  BY <2>3, <3>1, <3>2 DEF Chained, PooledAs
  <2>5. SameCounts(s, s) /\ CalcBand(W[x]) = CalcBand(k) /\ Chained(s, With(Without(W, x), x, k))
    BY <1>1, <1>2, <1>3, <1>7, <2>4 DEF SameCounts
  <2>6. x \in Off /\ x \notin DOMAIN Without(W, x)
    BY <1>1, <1>4
  <2>7. t \in State /\ t.file = s.file /\ SameUsed(s, t) /\ Pooled(t, With(Without(W, x), x, k))
    BY <2>1, <2>3, <2>5, <2>6, Recounted
  <2>8. QED  BY <2>7 DEF Same
<1>8. QED  BY <1>6, <1>7

-----------------------------------------------------------------------------
(* The row of the blocks.  B has the offsets of the blocks, `last` is that *)
(* of the sentinel.                                                        *)

\* There is a header for each block and for the sentinel.
Headed(f, B, last) ==
  /\ last \in Off /\ B \subseteq Off /\ (\A x \in B : x < last)
  /\ \A x \in B \cup {last} : f[x] \in BlockHdr
  /\ f[last].free /\ f[last].next = RECLOCATOR_MAX

\* What block x says of the one after it: it is the next one, and no second
\* free one.
Precedes(f, B, last, x) ==
  /\ f[x].next \in B \cup {last} /\ x + BH <= f[x].next
  /\ f[f[x].next].prev = x
  /\ \A y \in B \cup {last} : x < y => f[x].next <= y
  /\ f[x].free => f[x].next \in B /\ ~f[f[x].next].free

\* What block y, or the sentinel, says of the one before it.
Follows(f, B, y) ==
  IF y = 0 THEN f[y].prev = RECLOCATOR_MAX
           ELSE f[y].prev \in B /\ f[f[y].prev].next = y

\* The blocks follow each other from the first cell of f to the sentinel.
Row(f, B, last) ==
  /\ Headed(f, B, last) /\ 0 \in B \cup {last}
  /\ \A x \in B : Precedes(f, B, last, x)
  /\ \A y \in B \cup {last} : Follows(f, B, y)

\* Offsets are numbers.
LEMMA RowNat ==
  ASSUME NEW f, NEW B, NEW last, Row(f, B, last)
  PROVE  /\ last \in Nat /\ last \in Off /\ 0 \in B \cup {last}
         /\ \A x \in B : x \in Nat /\ x \in Off /\ x < last /\ f[x] \in BlockHdr
         /\ \A x \in B \cup {last} : x \in Nat /\ x \in Off /\ f[x] \in BlockHdr
         /\ f[last].free /\ f[last].next = RECLOCATOR_MAX
<1>1. Headed(f, B, last) /\ 0 \in B \cup {last}
  BY DEF Row
<1>2. last \in Off /\ B \subseteq Off /\ \A x \in B : x < last
  BY <1>1 DEF Headed
<1>3. \A x \in B \cup {last} : f[x] \in BlockHdr
  BY <1>1 DEF Headed
<1>4. Off \subseteq Nat
  BY SizesAssumption DEF Off
<1>5. f[last].free /\ f[last].next = RECLOCATOR_MAX
  BY <1>1 DEF Headed
<1>6. QED  BY <1>1, <1>2, <1>3, <1>4, <1>5

\* What a block says of the one after it.
LEMMA RowNext ==
  ASSUME NEW f, NEW B, NEW last, Row(f, B, last), NEW x \in B
  PROVE  /\ f[x].next \in B \cup {last} /\ f[x].next \in Nat /\ f[x].next \in Off
         /\ x + BH <= f[x].next /\ x < f[x].next /\ f[x].next <= last
         /\ f[f[x].next] \in BlockHdr /\ f[f[x].next].prev = x
         /\ \A y \in B \cup {last} : x < y => f[x].next <= y
         /\ f[x].free => f[x].next \in B /\ ~f[f[x].next].free
<1>1. Precedes(f, B, last, x)
  BY DEF Row
<1>2. f[x].next \in B \cup {last} /\ x + BH <= f[x].next /\ f[f[x].next].prev = x
  BY <1>1 DEF Precedes
<1>3. \A y \in B \cup {last} : x < y => f[x].next <= y
  BY <1>1 DEF Precedes
<1>4. f[x].free => f[x].next \in B /\ ~f[f[x].next].free
  BY <1>1 DEF Precedes
<1>5. PICK n : n = f[x].next
  OBVIOUS
<1>6. n \in Nat /\ n \in Off /\ f[n] \in BlockHdr /\ x \in Nat /\ n <= last /\ BH \in Nat \ {0}
  BY <1>2, <1>5, RowNat, SizesAssumption
<1>7. x < n
  BY <1>2, <1>5, <1>6
<1>8. QED  BY <1>2, <1>3, <1>4, <1>5, <1>6, <1>7

\* What a block says of the one before it.
LEMMA RowPrev ==
  ASSUME NEW f, NEW B, NEW last, Row(f, B, last), NEW y \in B \cup {last}
  PROVE  /\ y = 0 => f[y].prev = RECLOCATOR_MAX
         /\ y # 0 => f[y].prev \in B /\ f[y].prev \in Nat /\ f[y].prev < y /\ f[f[y].prev].next = y
                     /\ f[y].prev # RECLOCATOR_MAX
<1>1. Follows(f, B, y)
  BY DEF Row
<1>2. CASE y = 0
  BY <1>1, <1>2 DEF Follows
<1>3. CASE y # 0
  <2>1. PICK p \in B : p = f[y].prev /\ f[p].next = y
    BY <1>1, <1>3 DEF Follows
  <2>2. p \in Nat /\ p < y /\ p \in Off
    BY <2>1, RowNat, RowNext
  <2>3. p # RECLOCATOR_MAX
    BY <2>2, ValuesAssumption DEF Off
  <2>4. QED  BY <1>3, <2>1, <2>2, <2>3
<1>4. QED  BY <1>2, <1>3

\* C has the blocks of B but those between a and z, and m.
Parted(B, C, a, m, z) ==
  /\ \A y \in C : y = m \/ (y \in B /\ (y <= a \/ z <= y))
  /\ m \in C /\ \A y \in B : y <= a \/ z <= y => y \in C

\* g has the headers of f before a and after z.
Outside(f, g, B, last, a, z) == \A y \in B \cup {last} : y < a \/ z < y => g[y] = f[y]

\* A header.
IsHdr(b, free, prev, next) == b \in BlockHdr /\ b.free = free /\ b.prev = prev /\ b.next = next

\* Whatever lies between blocks a and z makes room for one free block m.
LEMMA RowPart ==
  ASSUME NEW f, NEW B, NEW last, Row(f, B, last), NEW a \in B, NEW z \in B, NEW m \in Off,
         a + BH <= m, m + BH <= z, ~f[z].free, NEW C, Parted(B, C, a, m, z),
         NEW g, IsHdr(g[a], FALSE, f[a].prev, m), IsHdr(g[m], TRUE, a, z),
         IsHdr(g[z], FALSE, m, f[z].next), Outside(f, g, B, last, a, z)
  PROVE  Row(g, C, last)
<1>1. /\ BH \in Nat \ {0} /\ a \in Nat /\ z \in Nat /\ m \in Nat /\ last \in Nat
      /\ a < m /\ m < z /\ z < last
  BY SizesAssumption, RowNat DEF Off
<1>2. \A y \in B \cup {last} : y \in Nat
  BY RowNat
<1>3. \A y \in C : y = m \/ y = a \/ y = z \/ (y \in B /\ y < a) \/ (y \in B /\ z < y)
  BY <1>1, <1>2 DEF Parted
<1>4. ASSUME NEW y \in C \cup {last}
      PROVE  y \in Nat /\ (y = m \/ y = a \/ y = z \/ (y \in B /\ y < a) \/ (y \in B \cup {last} /\ z < y))
  BY <1>1, <1>2, <1>3
<1>5. m \in C /\ a \in C /\ z \in C /\ \A y \in B : y <= a \/ z <= y => y \in C
  <2>1. m \in C
    BY DEF Parted
  <2>2. \A y \in B : y <= a \/ z <= y => y \in C
    BY DEF Parted
  <2>3. a <= a /\ z <= z
    BY <1>1
  <2>4. QED  BY <2>1, <2>2, <2>3
<1>6. \A y \in B \cup {last} : y < a \/ z < y => g[y] = f[y]
  BY DEF Outside
<1>7. g[a] \in BlockHdr /\ ~g[a].free /\ g[a].prev = f[a].prev /\ g[a].next = m
  BY DEF IsHdr
<1>8. g[m] \in BlockHdr /\ g[m].free /\ g[m].prev = a /\ g[m].next = z
  BY DEF IsHdr
<1>9. g[z] \in BlockHdr /\ ~g[z].free /\ g[z].prev = m /\ g[z].next = f[z].next
  BY DEF IsHdr
<1>10. Headed(g, C, last)
  <2>1. \A x \in C : x \in Off /\ x < last
    BY <1>1, <1>3, RowNat
  <2>2. ASSUME NEW x \in C \cup {last} PROVE g[x] \in BlockHdr
    <3>1. x = m \/ x = a \/ x = z \/ (x \in B \cup {last} /\ (x < a \/ z < x))
      BY <1>1, <1>3
    <3>2. CASE x \in B \cup {last} /\ (x < a \/ z < x)
      BY <1>6, <3>2, RowNat
    <3>3. QED  BY <1>7, <1>8, <1>9, <3>1, <3>2
  <2>3. g[last].free /\ g[last].next = RECLOCATOR_MAX /\ last \in Off
    BY <1>1, <1>6, RowNat
  <2>4. QED  BY <2>1, <2>2, <2>3 DEF Headed
<1>11. 0 \in C \cup {last}
  BY <1>1, <1>2, <1>5, RowNat
<1>12. ASSUME NEW x \in C PROVE Precedes(g, C, last, x)
  <2>1. CASE x = m
    BY <1>1, <1>3, <1>5, <1>8, <1>9, <2>1 DEF Precedes
  <2>2. CASE x = a
    BY <1>1, <1>3, <1>5, <1>7, <1>8, <2>2 DEF Precedes
  <2>3. CASE x = z
    <3>1. PICK n : n = f[z].next
      OBVIOUS
    <3>2. /\ n \in B \cup {last} /\ n \in Nat /\ z + BH <= n /\ z < n /\ f[n].prev = z
          /\ \A y \in B \cup {last} : z < y => n <= y
      BY <3>1, RowNext
    <3>3. g[n] = f[n] /\ n \in C \cup {last}
      BY <1>1, <1>5, <1>6, <3>2
    <3>4. \A y \in C \cup {last} : z < y => n <= y
      BY <1>4, <1>1, <3>2
    <3>5. g[z].next = n /\ ~g[z].free
      BY <1>9, <3>1
    <3>6. QED  BY <2>3, <3>2, <3>3, <3>4, <3>5 DEF Precedes
  <2>4. CASE x \in B /\ x < a
    <3>1. PICK n : n = f[x].next
      OBVIOUS
    <3>2. /\ n \in B \cup {last} /\ n \in Nat /\ x + BH <= n /\ x < n /\ f[n].prev = x /\ n <= a
          /\ \A y \in B \cup {last} : x < y => n <= y
          /\ f[x].free => n \in B /\ ~f[n].free
      BY <2>4, <3>1, RowNext
    <3>3. g[x] = f[x] /\ n \in B /\ n \in C
      BY <1>1, <1>5, <1>6, <2>4, <3>2
    <3>4. g[n].prev = f[n].prev /\ (~f[n].free => ~g[n].free)
      <4>1. CASE n = a
        BY <1>7, <4>1
      <4>2. CASE n # a
        BY <1>1, <1>6, <3>2, <4>2
      <4>3. QED  BY <4>1, <4>2
    <3>5. ASSUME NEW y \in C \cup {last}, x < y PROVE n <= y
      <4>1. y \in Nat
        BY <1>4
      <4>2. CASE y \in B \cup {last}
        BY <3>2, <3>5, <4>2
      <4>3. CASE y = m
        BY <1>1, <3>2, <4>3
      <4>4. QED  BY <1>4, <1>1, <4>2, <4>3
    <3>6. QED  BY <3>1, <3>2, <3>3, <3>4, <3>5 DEF Precedes
  <2>5. CASE x \in B /\ z < x
    <3>1. PICK n : n = f[x].next
      OBVIOUS
    <3>2. /\ n \in B \cup {last} /\ n \in Nat /\ x + BH <= n /\ x < n /\ f[n].prev = x
          /\ \A y \in B \cup {last} : x < y => n <= y
          /\ f[x].free => n \in B /\ ~f[n].free
      BY <2>5, <3>1, RowNext
    <3>3. g[x] = f[x] /\ g[n] = f[n] /\ n \in C \cup {last} /\ (n \in B => n \in C)
      <4>1. x \in Nat /\ n \in Nat /\ x < n /\ z < x
        BY <1>2, <2>5, <3>2
      <4>2. x \in Nat /\ z < n
        BY <1>1, <4>1
      <4>3. g[x] = f[x] /\ g[n] = f[n]
        BY <1>6, <2>5, <3>2, <4>2
      <4>4. n \in B => n \in C
        BY <1>1, <1>5, <3>2, <4>2
      <4>5. QED  BY <3>2, <4>3, <4>4
    <3>4. ASSUME NEW y \in C \cup {last}, x < y PROVE n <= y
      <4>1. x \in Nat /\ y \in Nat
        BY <1>4, <1>2, <2>5
      <4>2. y \in B \cup {last}
        <5>1. y # m /\ y # a /\ y # z
          BY <1>1, <2>5, <3>4, <4>1
        <5>2. y \in C => y \in B
          BY <1>3, <5>1
        <5>3. QED  BY <5>2
      <4>3. QED  BY <3>2, <3>4, <4>2
    <3>5. QED  BY <3>1, <3>2, <3>3, <3>4 DEF Precedes
  <2>6. QED  BY <1>3, <2>1, <2>2, <2>3, <2>4, <2>5
<1>13. ASSUME NEW y \in C \cup {last} PROVE Follows(g, C, y)
  <2>1. CASE y = m
    BY <1>1, <1>5, <1>7, <1>8, <2>1 DEF Follows
  <2>2. CASE y = z
    BY <1>1, <1>5, <1>8, <1>9, <2>2 DEF Follows
  <2>3. CASE y \in B /\ y <= a
    <3>1. y \in Nat /\ g[y].prev = f[y].prev
      <4>1. CASE y = a
        BY <1>1, <1>7, <4>1
      <4>2. CASE y # a
        <5>1. y \in Nat /\ y < a
          BY <1>1, <1>2, <2>3, <4>2
        <5>2. QED  BY <1>6, <2>3, <5>1
      <4>3. QED  BY <4>1, <4>2
    <3>2. CASE y = 0
      BY <2>3, <3>1, <3>2, RowPrev DEF Follows
    <3>3. CASE y # 0
      <4>1. PICK p \in B : p = f[y].prev /\ p \in Nat /\ p < y /\ f[p].next = y
        BY <2>3, <3>3, RowPrev
      <4>2. p \in C /\ g[p] = f[p]
        BY <1>1, <1>5, <1>6, <2>3, <3>1, <4>1
      <4>3. QED  BY <3>1, <3>3, <4>1, <4>2 DEF Follows
    <3>4. QED  BY <3>2, <3>3
  <2>4. CASE y \in B \cup {last} /\ z < y
    <3>1. y \in Nat /\ y # 0 /\ g[y] = f[y]
      BY <1>1, <1>2, <1>6, <2>4
    <3>2. PICK p \in B : p = f[y].prev /\ p \in Nat /\ p < y /\ f[p].next = y
      BY <2>4, <3>1, RowPrev
    <3>3. z <= p
      <4>1. p < z => f[p].next <= z
        BY <3>2, RowNext
      <4>2. QED  BY <1>1, <2>4, <3>1, <3>2, <4>1
    <3>4. p \in C /\ g[p].next = f[p].next
      <4>1. CASE p = z
        BY <1>5, <1>9, <4>1
      <4>2. CASE p # z
        BY <1>1, <1>5, <1>6, <3>2, <3>3, <4>2
      <4>3. QED  BY <4>1, <4>2
    <3>5. QED  BY <3>1, <3>2, <3>4 DEF Follows
  <2>5. QED  BY <1>4, <1>1, <2>1, <2>2, <2>3, <2>4
<1>14. QED  BY <1>10, <1>11, <1>12, <1>13 DEF Row

\* C has the blocks of B but those between a and z.
Joined(B, C, a, z) ==
  /\ \A y \in C : y \in B /\ (y <= a \/ z <= y)
  /\ \A y \in B : y <= a \/ z <= y => y \in C

\* A block takes what lies between it and block z.
LEMMA RowJoin ==
  ASSUME NEW f, NEW B, NEW last, Row(f, B, last), NEW a \in B, NEW z \in B, a < z, ~f[z].free,
         NEW C, Joined(B, C, a, z), NEW free, free => a = 0 \/ ~f[f[a].prev].free,
         NEW g, IsHdr(g[a], free, f[a].prev, z), IsHdr(g[z], FALSE, a, f[z].next),
         Outside(f, g, B, last, a, z)
  PROVE  Row(g, C, last)
<1>1. BH \in Nat \ {0} /\ a \in Nat /\ z \in Nat /\ last \in Nat /\ z < last /\ a + BH <= z
  <2>1. f[a].next <= z /\ f[a].next \in Nat /\ a + BH <= f[a].next
    BY RowNext
  <2>2. BH \in Nat \ {0} /\ a \in Nat /\ z \in Nat /\ last \in Nat /\ z < last
    BY SizesAssumption, RowNat
  <2>3. QED  BY <2>1, <2>2
<1>2. \A y \in B \cup {last} : y \in Nat
  BY RowNat
<1>3. \A y \in C : y = a \/ y = z \/ (y \in B /\ y < a) \/ (y \in B /\ z < y)
  <2>1. ASSUME NEW y \in C
        PROVE  y = a \/ y = z \/ (y \in B /\ y < a) \/ (y \in B /\ z < y)
    <3>1. y \in B /\ (y <= a \/ z <= y)
      BY DEF Joined
    <3>2. y \in Nat
      BY <1>2, <3>1
    <3>3. QED  BY <1>1, <3>1, <3>2
  <2>2. QED  BY <2>1
<1>4. a \in C /\ z \in C /\ \A y \in B : y <= a \/ z <= y => y \in C
  BY <1>1 DEF Joined
<1>5. \A y \in B \cup {last} : y < a \/ z < y => g[y] = f[y]
  BY DEF Outside
<1>6. ASSUME NEW y \in C \cup {last}
      PROVE  y \in Nat /\ (y = a \/ y = z \/ (y \in B /\ y < a) \/ (y \in B \cup {last} /\ z < y))
  BY <1>1, <1>2, <1>3
<1>7. g[a] \in BlockHdr /\ g[a].free = free /\ g[a].prev = f[a].prev /\ g[a].next = z
  BY DEF IsHdr
<1>8. g[z] \in BlockHdr /\ ~g[z].free /\ g[z].prev = a /\ g[z].next = f[z].next
  BY DEF IsHdr
<1>9. Headed(g, C, last)
  <2>1. \A x \in C : x \in Off /\ x < last
    BY <1>1, <1>3, RowNat
  <2>2. ASSUME NEW x \in C \cup {last} PROVE g[x] \in BlockHdr
    <3>1. x = a \/ x = z \/ (x \in B \cup {last} /\ (x < a \/ z < x))
      BY <1>6
    <3>2. CASE x \in B \cup {last} /\ (x < a \/ z < x)
      BY <1>5, <3>2, RowNat
    <3>3. QED  BY <1>7, <1>8, <3>1, <3>2
  <2>3. g[last].free /\ g[last].next = RECLOCATOR_MAX /\ last \in Off
    BY <1>1, <1>5, RowNat
  <2>4. QED  BY <2>1, <2>2, <2>3 DEF Headed
<1>10. 0 \in C \cup {last}
  BY <1>1, <1>2, <1>4, RowNat
<1>11. ASSUME NEW x \in C PROVE Precedes(g, C, last, x)
  <2>1. CASE x = a
    <3>1. \A y \in C \cup {last} : a < y => z <= y
      BY <1>1, <1>6
    <3>2. QED  BY <1>1, <1>4, <1>7, <1>8, <2>1, <3>1 DEF Precedes
  <2>2. CASE x = z
    <3>1. PICK n : n = f[z].next
      OBVIOUS
    <3>2. /\ n \in B \cup {last} /\ n \in Nat /\ z + BH <= n /\ z < n /\ f[n].prev = z
          /\ \A y \in B \cup {last} : z < y => n <= y
      BY <3>1, RowNext
    <3>3. g[n] = f[n] /\ n \in C \cup {last}
      BY <1>1, <1>4, <1>5, <3>2
    <3>4. \A y \in C \cup {last} : z < y => n <= y
      BY <1>1, <1>6, <3>2
    <3>5. g[z].next = n /\ ~g[z].free
      BY <1>8, <3>1
    <3>6. QED  BY <2>2, <3>2, <3>3, <3>4, <3>5 DEF Precedes
  <2>3. CASE x \in B /\ x < a
    <3>1. PICK n : n = f[x].next
      OBVIOUS
    <3>2. /\ n \in B \cup {last} /\ n \in Nat /\ x + BH <= n /\ x < n /\ f[n].prev = x /\ n <= a
          /\ \A y \in B \cup {last} : x < y => n <= y
          /\ f[x].free => n \in B /\ ~f[n].free
      BY <2>3, <3>1, RowNext
    <3>3. g[x] = f[x] /\ n \in B /\ n \in C
      BY <1>1, <1>4, <1>5, <2>3, <3>2
    <3>4. g[n].prev = f[n].prev /\ (f[x].free => ~g[n].free)
      <4>1. CASE n = a
        <5>1. a # 0
          BY <1>1, <1>2, <2>3
        <5>2. f[a].prev = x
          BY <3>2, <4>1
        <5>3. f[x].free => ~free
          BY <5>1, <5>2
        <5>4. QED  BY <1>7, <4>1, <5>3
      <4>2. CASE n # a
        BY <1>1, <1>5, <3>2, <4>2
      <4>3. QED  BY <4>1, <4>2
    <3>5. ASSUME NEW y \in C \cup {last}, x < y PROVE n <= y
      <4>1. y \in B \cup {last}
        BY <1>6
      <4>2. QED  BY <3>2, <3>5, <4>1
    <3>6. QED  BY <3>1, <3>2, <3>3, <3>4, <3>5 DEF Precedes
  <2>4. CASE x \in B /\ z < x
    <3>1. PICK n : n = f[x].next
      OBVIOUS
    <3>2. /\ n \in B \cup {last} /\ n \in Nat /\ x + BH <= n /\ x < n /\ f[n].prev = x
          /\ \A y \in B \cup {last} : x < y => n <= y
          /\ f[x].free => n \in B /\ ~f[n].free
      BY <2>4, <3>1, RowNext
    <3>3. g[x] = f[x] /\ g[n] = f[n] /\ n \in C \cup {last} /\ (n \in B => n \in C)
      <4>1. x \in Nat /\ n \in Nat /\ x < n /\ z < x
        BY <1>2, <2>4, <3>2
      <4>2. z < n
        BY <1>1, <4>1
      <4>3. g[x] = f[x] /\ g[n] = f[n]
        BY <1>5, <2>4, <3>2, <4>2
      <4>4. n \in B => n \in C
        BY <1>1, <1>4, <3>2, <4>2
      <4>5. QED  BY <3>2, <4>3, <4>4
    <3>4. ASSUME NEW y \in C \cup {last}, x < y PROVE n <= y
      <4>1. y \in B \cup {last}
        BY <1>6
      <4>2. QED  BY <3>2, <3>4, <4>1
    <3>5. QED  BY <3>1, <3>2, <3>3, <3>4 DEF Precedes
  <2>5. QED  BY <1>3, <2>1, <2>2, <2>3, <2>4
<1>12. ASSUME NEW y \in C \cup {last} PROVE Follows(g, C, y)
  <2>1. CASE y = z
    BY <1>1, <1>4, <1>7, <1>8, <2>1 DEF Follows
  <2>2. CASE y \in B /\ y <= a
    <3>1. y \in Nat /\ g[y].prev = f[y].prev
      <4>1. CASE y = a
        BY <1>1, <1>7, <4>1
      <4>2. CASE y # a
        <5>1. y \in Nat /\ y < a
          BY <1>1, <1>2, <2>2, <4>2
        <5>2. QED  BY <1>5, <2>2, <5>1
      <4>3. QED  BY <4>1, <4>2
    <3>2. CASE y = 0
      BY <2>2, <3>1, <3>2, RowPrev DEF Follows
    <3>3. CASE y # 0
      <4>1. PICK p \in B : p = f[y].prev /\ p \in Nat /\ p < y /\ f[p].next = y
        BY <2>2, <3>3, RowPrev
      <4>2. p \in C /\ g[p] = f[p]
        BY <1>1, <1>4, <1>5, <2>2, <3>1, <4>1
      <4>3. QED  BY <3>1, <3>3, <4>1, <4>2 DEF Follows
    <3>4. QED  BY <3>2, <3>3
  <2>3. CASE y \in B \cup {last} /\ z < y
    <3>1. y \in Nat /\ y # 0 /\ g[y] = f[y]
      BY <1>1, <1>2, <1>5, <2>3
    <3>2. PICK p \in B : p = f[y].prev /\ p \in Nat /\ p < y /\ f[p].next = y
      BY <2>3, <3>1, RowPrev
    <3>3. z <= p
      <4>1. p < z => f[p].next <= z
        BY <3>2, RowNext
      <4>2. QED  BY <1>1, <2>3, <3>1, <3>2, <4>1
    <3>4. p \in C /\ g[p].next = f[p].next
      <4>1. CASE p = z
        BY <1>4, <1>8, <4>1
      <4>2. CASE p # z
        BY <1>1, <1>4, <1>5, <3>2, <3>3, <4>2
      <4>3. QED  BY <4>1, <4>2
    <3>5. QED  BY <3>1, <3>2, <3>4 DEF Follows
  <2>4. QED  BY <1>1, <1>6, <2>1, <2>2, <2>3
<1>13. QED  BY <1>9, <1>10, <1>11, <1>12 DEF Row

\* C has the blocks of B before a.
Cut(B, C, a) ==
  /\ \A y \in C : y \in B /\ y < a
  /\ \A y \in B : y < a => y \in C

\* g has the headers of f before a.
SameBefore(f, g, B, a) == \A y \in B : y < a => g[y] = f[y]

\* The sentinel takes the place of the last blocks, from a on.
LEMMA RowCut ==
  ASSUME NEW f, NEW B, NEW last, Row(f, B, last), NEW a \in B, NEW C, Cut(B, C, a),
         a = 0 \/ ~f[f[a].prev].free,
         NEW g, IsHdr(g[a], TRUE, f[a].prev, RECLOCATOR_MAX), SameBefore(f, g, B, a)
  PROVE  Row(g, C, a)
<1>1. \A y \in C : g[y] = f[y]
  BY DEF Cut, SameBefore
<1>2. a \in Nat /\ a \in Off
  BY RowNat
<1>3. \A y \in C : y \in B /\ y < a /\ y \in Nat /\ y \in Off
  BY RowNat DEF Cut
<1>4. \A y \in B : y < a => y \in C
  BY DEF Cut
<1>5. g[a] \in BlockHdr /\ g[a].free /\ g[a].prev = f[a].prev /\ g[a].next = RECLOCATOR_MAX
  BY DEF IsHdr
<1>6. Headed(g, C, a)
  BY <1>1, <1>2, <1>3, <1>5, RowNat DEF Headed
<1>7. 0 \in C \cup {a}
  BY <1>2, <1>4, RowNat
<1>8. ASSUME NEW x \in C PROVE Precedes(g, C, a, x)
  <2>1. PICK n : n = f[x].next
    OBVIOUS
  <2>2. x \in B /\ x < a /\ x \in Nat
    BY <1>3
  <2>3. /\ n \in B \cup {last} /\ n \in Nat /\ x + BH <= n /\ x < n /\ f[n].prev = x /\ n <= a
        /\ \A y \in B \cup {last} : x < y => n <= y
        /\ f[x].free => n \in B /\ ~f[n].free
    BY <2>1, <2>2, RowNext
  <2>4. n \in C \cup {a}
    <3>1. n # last \/ n = a
      BY <1>2, <2>3, RowNat
    <3>2. n = a \/ n < a
      BY <1>2, <2>3
    <3>3. QED  BY <1>4, <2>3, <3>1, <3>2
  <2>5. g[n].prev = x /\ (f[x].free => n \in C /\ ~g[n].free)
    <3>1. CASE n = a
      <4>1. a # 0 /\ f[a].prev = x
        BY <2>2, <2>3, <3>1
      <4>2. QED  BY <1>5, <3>1, <4>1
    <3>2. CASE n # a
      BY <1>1, <2>3, <2>4, <3>2
    <3>3. QED  BY <3>1, <3>2
  <2>6. ASSUME NEW y \in C \cup {a}, x < y PROVE n <= y
    BY <1>3, <2>3, <2>6
  <2>7. QED  BY <1>1, <2>1, <2>3, <2>4, <2>5, <2>6 DEF Precedes
<1>9. ASSUME NEW y \in C \cup {a} PROVE Follows(g, C, y)
  <2>1. y \in B /\ y \in Nat /\ y <= a /\ g[y].prev = f[y].prev
    BY <1>1, <1>2, <1>3, <1>5
  <2>2. CASE y = 0
    BY <2>1, <2>2, RowPrev DEF Follows
  <2>3. CASE y # 0
    <3>1. PICK p \in B : p = f[y].prev /\ p \in Nat /\ p < y /\ f[p].next = y
      BY <2>1, <2>3, RowPrev
    <3>2. p < a
      BY <1>2, <2>1, <3>1
    <3>3. p \in C /\ g[p] = f[p]
      BY <1>1, <1>4, <3>1, <3>2
    <3>4. QED  BY <2>1, <2>3, <3>1, <3>3 DEF Follows
  <2>4. QED  BY <2>2, <2>3
<1>10. QED  BY <1>6, <1>7, <1>8, <1>9 DEF Row

\* C has the blocks of B up to a, and a.
Tailed(B, C, a) ==
  /\ \A y \in C : y = a \/ (y \in B /\ y < a)
  /\ a \in C /\ \A y \in B : y < a => y \in C
  /\ \A y \in B : y <= a

\* Block a, which is the last one or takes the place of the sentinel, ends at e,
\* where the sentinel is now.
LEMMA RowTail ==
  ASSUME NEW f, NEW B, NEW last, Row(f, B, last), NEW a \in B \cup {last},
         NEW e \in Off, a + BH <= e, NEW C, Tailed(B, C, a),
         NEW g, IsHdr(g[a], FALSE, f[a].prev, e), IsHdr(g[e], TRUE, a, RECLOCATOR_MAX),
         SameBefore(f, g, B, a)
  PROVE  Row(g, C, e)
<1>1. \A y \in B : y < a => g[y] = f[y]
  BY DEF SameBefore
<1>2. a \in Nat /\ a \in Off /\ e \in Nat /\ BH \in Nat \ {0} /\ a < e
  BY RowNat, SizesAssumption DEF Off
<1>3. \A y \in C : y \in Nat /\ y \in Off /\ y <= a /\ (y = a \/ (y \in B /\ y < a))
  BY <1>2, RowNat DEF Tailed
<1>4. a \in C /\ \A y \in B : y < a => y \in C
  BY DEF Tailed
<1>5. g[a] \in BlockHdr /\ ~g[a].free /\ g[a].prev = f[a].prev /\ g[a].next = e
  BY DEF IsHdr
<1>6. g[e] \in BlockHdr /\ g[e].free /\ g[e].prev = a /\ g[e].next = RECLOCATOR_MAX
  BY DEF IsHdr
<1>7. Headed(g, C, e)
  <2>1. \A y \in C : y \in Off /\ y < e /\ g[y] \in BlockHdr
    BY <1>1, <1>2, <1>3, <1>5, RowNat
  <2>2. QED  BY <1>6, <2>1 DEF Headed
<1>8. 0 \in C \cup {e}
  <2>1. 0 \in B \/ last = 0
    BY RowNat
  <2>2. CASE 0 \in B
    BY <1>2, <1>4, <2>2
  <2>3. CASE last = 0
    BY <1>2, <1>4, <2>3, RowNat
  <2>4. QED  BY <2>1, <2>2, <2>3
<1>9. ASSUME NEW x \in C PROVE Precedes(g, C, e, x)
  <2>1. CASE x = a
    <3>1. \A y \in C \cup {e} : a < y => e <= y
      BY <1>2, <1>3
    <3>2. QED  BY <1>2, <1>5, <1>6, <2>1, <3>1 DEF Precedes
  <2>2. CASE x \in B /\ x < a
    <3>1. PICK n : n = f[x].next
      OBVIOUS
    <3>2. /\ n \in B \cup {last} /\ n \in Nat /\ x + BH <= n /\ x < n /\ f[n].prev = x /\ n <= a
          /\ \A y \in B \cup {last} : x < y => n <= y
          /\ f[x].free => n \in B /\ ~f[n].free
      BY <2>2, <3>1, RowNext
    <3>3. n = a \/ (n \in B /\ n < a)
      <4>1. n = a \/ n < a
        BY <1>2, <3>2
      <4>2. n = last => n = a
        BY <1>2, <3>2, RowNat
      <4>3. QED  BY <3>2, <4>1, <4>2
    <3>4. n \in C /\ g[n].prev = x /\ (f[x].free => ~g[n].free) /\ g[x] = f[x]
      <4>1. CASE n = a
        BY <1>1, <1>4, <1>5, <2>2, <3>2, <4>1
      <4>2. CASE n \in B /\ n < a
        BY <1>1, <1>4, <2>2, <3>2, <4>2
      <4>3. QED  BY <3>3, <4>1, <4>2
    <3>5. ASSUME NEW y \in C \cup {e}, x < y PROVE n <= y
      <4>1. CASE y = e
        BY <1>2, <3>2, <4>1
      <4>2. CASE y \in C
        BY <1>3, <3>2, <3>5, <4>2
      <4>3. QED  BY <4>1, <4>2
    <3>6. QED  BY <3>1, <3>2, <3>4, <3>5 DEF Precedes
  <2>3. QED  BY <1>3, <2>1, <2>2
<1>10. ASSUME NEW y \in C \cup {e} PROVE Follows(g, C, y)
  <2>1. CASE y = e
    BY <1>2, <1>4, <1>5, <1>6, <2>1 DEF Follows
  <2>2. CASE y \in C
    <3>1. y \in B \cup {last} /\ y \in Nat /\ y <= a /\ g[y].prev = f[y].prev
      BY <1>1, <1>3, <1>5, <2>2
    <3>2. CASE y = 0
      BY <3>1, <3>2, RowPrev DEF Follows
    <3>3. CASE y # 0
      <4>1. PICK p \in B : p = f[y].prev /\ p \in Nat /\ p < y /\ f[p].next = y
        BY <3>1, <3>3, RowPrev
      <4>2. p < a
        BY <1>2, <3>1, <4>1
      <4>3. p \in C /\ g[p] = f[p]
        BY <1>1, <1>4, <4>1, <4>2
      <4>4. QED  BY <3>1, <3>3, <4>1, <4>3 DEF Follows
    <3>4. QED  BY <3>2, <3>3
  <2>3. QED  BY <2>1, <2>2
<1>11. QED  BY <1>7, <1>8, <1>9, <1>10 DEF Row

\* The row is what the headers say.
LEMMA RowSame ==
  ASSUME NEW f, NEW B, NEW last, Row(f, B, last), NEW g, \A x \in B \cup {last} : g[x] = f[x]
  PROVE  Row(g, B, last)
<1>1. Headed(g, B, last)
  BY RowNat DEF Row, Headed
<1>2. ASSUME NEW x \in B PROVE Precedes(g, B, last, x)
  <2>1. Precedes(f, B, last, x)
    BY DEF Row
  <2>2. g[x] = f[x]
    OBVIOUS
  <2>3. PICK n : n = f[x].next
    OBVIOUS
  <2>4. n \in B \cup {last}
    BY <2>1, <2>3 DEF Precedes
  <2>5. g[n] = f[n]
    BY <2>4
  <2>6. QED  BY <2>1, <2>2, <2>3, <2>5 DEF Precedes
<1>3. ASSUME NEW y \in B \cup {last} PROVE Follows(g, B, y)
  <2>1. Follows(f, B, y) /\ g[y] = f[y]
    BY DEF Row
  <2>2. CASE y = 0
    BY <2>1, <2>2 DEF Follows
  <2>3. CASE y # 0
    <3>1. PICK p \in B : p = f[y].prev /\ f[p].next = y
      BY <2>1, <2>3 DEF Follows
    <3>2. g[p] = f[p]
      BY <3>1
    <3>3. QED  BY <2>1, <2>3, <3>1, <3>2 DEF Follows
  <2>4. QED  BY <2>2, <2>3
<1>4. QED  BY <1>1, <1>2, <1>3, RowNat DEF Row

\* The lengths of the free blocks and of the records.
Sized(f, B, W, V) ==
  /\ Lengths(W) /\ Lengths(V)
  /\ \A x \in DOMAIN W : x \in B /\ f[x].free /\ W[x] = f[x].next - x - BH
  /\ \A x \in DOMAIN V : x \in B /\ ~f[x].free /\ V[x] = f[x].next - x - BH
  /\ \A x \in B : IF f[x].free THEN x \in DOMAIN W ELSE x \in DOMAIN V

\* The length of a free block.
LEMMA FreeSize ==
  ASSUME NEW f, NEW B, NEW last, Row(f, B, last), NEW W, NEW V, Sized(f, B, W, V), NEW x \in B,
         f[x].free
  PROVE  /\ x \in DOMAIN W /\ x \notin DOMAIN V /\ W[x] \in Nat /\ W[x] = f[x].next - x - BH
         /\ f[x].next = x + BH + W[x]
<1>1. x \in DOMAIN W /\ x \notin DOMAIN V /\ W[x] = f[x].next - x - BH /\ W[x] \in Nat
  BY DEF Sized, Lengths
<1>2. PICK n \in Nat : n = f[x].next
  BY RowNext
<1>3. x \in Nat /\ BH \in Nat
  BY RowNat, SizesAssumption
<1>4. W[x] = n - x - BH /\ n = x + BH + W[x]
  BY <1>1, <1>2, <1>3
<1>5. QED  BY <1>1, <1>2, <1>4

\* The length of a record.
LEMMA UsedSize ==
  ASSUME NEW f, NEW B, NEW last, Row(f, B, last), NEW W, NEW V, Sized(f, B, W, V), NEW x \in B,
         ~f[x].free
  PROVE  /\ x \in DOMAIN V /\ x \notin DOMAIN W /\ V[x] \in Nat /\ V[x] = f[x].next - x - BH
         /\ f[x].next = x + BH + V[x]
<1>1. x \in DOMAIN V /\ x \notin DOMAIN W /\ V[x] = f[x].next - x - BH /\ V[x] \in Nat
  BY DEF Sized, Lengths
<1>2. PICK n \in Nat : n = f[x].next
  BY RowNext
<1>3. x \in Nat /\ BH \in Nat
  BY RowNat, SizesAssumption
<1>4. V[x] = n - x - BH /\ n = x + BH + V[x]
  BY <1>1, <1>2, <1>3
<1>5. QED  BY <1>1, <1>2, <1>4

\* The blocks are the free ones and the records.
LEMMA SizedIs ==
  ASSUME NEW f, NEW B, NEW W, NEW V, Sized(f, B, W, V)
  PROVE  /\ \A x : x \in DOMAIN W => x \in B /\ f[x].free
         /\ \A x : x \in DOMAIN V => x \in B /\ ~f[x].free
  BY DEF Sized

\* Free blocks lie in the file and do not overlap.
LEMMA RowApart ==
  ASSUME NEW f, NEW B, NEW last, Row(f, B, last), NEW W, NEW V, Sized(f, B, W, V)
  PROVE  Apart(W)
<1>1. \A x \in DOMAIN W : x \in B /\ f[x].free
  BY SizedIs
<1>2. ASSUME NEW x \in DOMAIN W
      PROVE  /\ x \in Off /\ x + BH + W[x] \in Off
             /\ \A y \in DOMAIN W : x < y => x + BH + W[x] <= y
  <2>1. f[x].next = x + BH + W[x]
    BY <1>1, FreeSize
  <2>2. x \in Off /\ f[x].next \in Off /\ \A y \in B : x < y => f[x].next <= y
    BY <1>1, RowNext, RowNat
  <2>3. QED  BY <1>1, <2>1, <2>2
<1>3. W \in [DOMAIN W -> Nat]
  BY DEF Sized, Lengths
<1>4. QED  BY <1>2, <1>3 DEF Apart

-----------------------------------------------------------------------------
(* Which cells belong to what.                                             *)

\* The data of a block of length k.
DataAt(x, k) == x + BH .. x + BH + k - 1

\* The header of one block is no part of that of another.
LEMMA HdrApart ==
  ASSUME NEW f, NEW B, NEW last, Row(f, B, last), NEW x \in B \cup {last}, NEW z \in B \cup {last},
         x # z
  PROVE  x \notin HdrAt(z)
<1>1. x \in Nat /\ z \in Nat /\ BH \in Nat
  BY RowNat, SizesAssumption
<1>2. CASE x < z
  BY <1>1, <1>2 DEF HdrAt
<1>3. CASE z < x
  <2>1. z \in B
    BY <1>1, <1>3, RowNat
  <2>2. f[z].next <= x /\ z + BH <= f[z].next /\ f[z].next \in Nat
    BY <1>3, <2>1, RowNext
  <2>3. QED  BY <1>1, <2>2 DEF HdrAt
<1>4. QED  BY <1>1, <1>2, <1>3

\* Nor of the data of any block.
LEMMA DataApart ==
  ASSUME NEW f, NEW B, NEW last, Row(f, B, last), NEW x \in B, NEW z \in B \cup {last},
         NEW c, x + BH <= c, c < f[x].next, c \in Int
  PROVE  c \in Off /\ c \notin HdrAt(z) /\ c # z
<1>1. x \in Nat /\ z \in Nat /\ BH \in Nat \ {0} /\ f[x].next \in Nat /\ f[x].next <= last
      /\ last \in Nat
  BY RowNat, RowNext, SizesAssumption
<1>2. c \in Off
  <2>1. last \in 0 .. MaxOff /\ MaxOff \in Nat
    BY RowNat, SizesAssumption DEF Off
  <2>2. QED  BY <1>1, <2>1 DEF Off
<1>3. CASE x < z
  <2>1. f[x].next <= z
    BY <1>3, RowNext
  <2>2. QED  BY <1>1, <1>2, <2>1 DEF HdrAt
<1>4. CASE z <= x
  BY <1>1, <1>2, <1>4 DEF HdrAt
<1>5. QED  BY <1>1, <1>3, <1>4

\* The data of two blocks are apart.
LEMMA DataOnce ==
  ASSUME NEW f, NEW B, NEW last, Row(f, B, last), NEW x \in B, NEW y \in B,
         NEW c \in Int, x + BH <= c, c < f[x].next, y + BH <= c, c < f[y].next
  PROVE  x = y
<1>1. /\ x \in Nat /\ y \in Nat /\ BH \in Nat /\ f[x].next \in Nat /\ f[y].next \in Nat
      /\ x < y => f[x].next <= y
      /\ y < x => f[y].next <= x
  BY RowNat, RowNext, SizesAssumption
<1>2. QED  BY <1>1

\* What a FreePos takes is data of a free block.
LEMMA PostsIn ==
  ASSUME NEW f, NEW B, NEW last, Row(f, B, last), NEW W, NEW V, Sized(f, B, W, V),
         NEW c, c \in Posts(W)
  PROVE  \E x \in B : f[x].free /\ c \in Int /\ x + BH <= c /\ c < f[x].next
<1>1. PICK x \in Listed(W) : c \in PosAt(x)
  BY DEF Posts
<1>2. x \in DOMAIN W /\ CalcBand(W[x]) \in Band
  BY <1>1 DEF Listed
<1>3. x \in B /\ f[x].free
  BY <1>2, SizedIs
<1>4. x \in Nat /\ BH \in Nat /\ FP \in Nat /\ W[x] \in Nat /\ f[x].next = x + BH + W[x]
  BY <1>3, FreeSize, RowNat, SizesAssumption
<1>5. FP <= W[x]
  <2>1. CalcBand(W[x]) # NoBand
    BY <1>2, Bands
  <2>2. QED  BY <1>4, <2>1, BandOf
<1>6. c \in Int /\ x + BH <= c /\ c < x + BH + W[x]
  BY <1>1, <1>4, <1>5 DEF PosAt
<1>7. QED  BY <1>3, <1>4, <1>6

\* No header has a place in a FreePos.
LEMMA PostsOff ==
  ASSUME NEW f, NEW B, NEW last, Row(f, B, last), NEW W, NEW V, Sized(f, B, W, V),
         NEW z \in B \cup {last}
  PROVE  z \notin Posts(W) /\ \A c \in Posts(W) : c \notin HdrAt(z)
<1>1. ASSUME NEW c \in Posts(W) PROVE c \notin HdrAt(z) /\ c # z
  <2>1. PICK x \in B : c \in Int /\ x + BH <= c /\ c < f[x].next
    BY PostsIn
  <2>2. QED  BY <2>1, DataApart
<1>2. QED  BY <1>1

\* No cell of a record has.
LEMMA RecordOff ==
  ASSUME NEW f, NEW B, NEW last, Row(f, B, last), NEW W, NEW V, Sized(f, B, W, V),
         NEW y \in DOMAIN V, NEW c \in DataAt(y, V[y])
  PROVE  /\ c \in Off /\ c \in Int /\ y \in B /\ y + BH <= c /\ c < f[y].next
         /\ c \notin Posts(W) /\ \A z \in B \cup {last} : c \notin HdrAt(z)
<1>1. y \in B /\ ~f[y].free
  BY SizedIs
<1>2. f[y].next = y + BH + V[y] /\ y \in Nat /\ BH \in Nat /\ V[y] \in Nat
  BY <1>1, UsedSize, RowNat, SizesAssumption
<1>3. c \in Int /\ y + BH <= c /\ c < f[y].next
  BY <1>2 DEF DataAt
<1>4. c \in Off /\ \A z \in B \cup {last} : c \notin HdrAt(z)
  BY <1>1, <1>3, DataApart
<1>5. c \notin Posts(W)
  <2>1. SUFFICES ASSUME c \in Posts(W) PROVE FALSE
    OBVIOUS
  <2>2. PICK x \in B : f[x].free /\ x + BH <= c /\ c < f[x].next
    BY <2>1, PostsIn
  <2>3. x = y
    BY <1>1, <1>3, <2>2, DataOnce
  <2>4. QED  BY <1>1, <2>2, <2>3
<1>6. QED  BY <1>1, <1>3, <1>4, <1>5

-----------------------------------------------------------------------------
(* Storages that are in order.                                             *)

\* The blocks of B are the row of the file, W and V are the lengths of the free
\* ones and of the records.
InRow(s, B, last, W, V) == Row(s.file, B, last) /\ Sized(s.file, B, W, V)

\* The lists have the free blocks of W, and those and the records of V are
\* counted.
Counted(s, W, V) ==
  /\ s \in State /\ Pooled(s, W)
  /\ Weighs(s.hdr.used_count, s.hdr.used_space, V)

\* All that, and the sentinel is at `last`.
Stands(s, B, last, W, V) ==
  InRow(s, B, last, W, V) /\ Counted(s, W, V) /\ s.hdr.last_off = last

\* The blocks of U hold in t what they hold in s.
Held(s, t, U) == \A x \in DOMAIN U : \A c \in DataAt(x, U[x]) : t.file[c] = s.file[c]

\* t has the bands of s and its totals of free blocks.
SameFree(s, t) ==
  /\ t.bands = s.bands
  /\ t.hdr.free_count = s.hdr.free_count /\ t.hdr.free_space = s.hdr.free_space

\* The lists are what the bands and the FreePos say.
LEMMA PooledSame ==
  ASSUME NEW s, NEW W, Pooled(s, W), NEW t, SameFree(s, t),
         \A x \in Listed(W) : t.file[x + BH] = s.file[x + BH]
  PROVE  Pooled(t, W)
<1>1. ASSUME NEW b \in Band
      PROVE  /\ Linked(t.bands[b].first, t.bands[b].last, FilePos(t, W), DOMAIN InBand(W, b))
             /\ Weighs(t.bands[b].count, t.bands[b].space, InBand(W, b))
  <2>1. /\ Linked(s.bands[b].first, s.bands[b].last, FilePos(s, W), DOMAIN InBand(W, b))
        /\ Weighs(s.bands[b].count, s.bands[b].space, InBand(W, b))
    BY DEF Pooled, PooledAs
  <2>2. ASSUME NEW x \in DOMAIN InBand(W, b) PROVE FilePos(t, W)[x] = FilePos(s, W)[x]
    <3>1. x \in Listed(W)
      BY InListed
    <3>2. x \in DOMAIN W
      BY <3>1 DEF Listed
    <3>3. QED  BY <3>1, <3>2 DEF FilePos
  <2>3. Linked(s.bands[b].first, s.bands[b].last, FilePos(t, W), DOMAIN InBand(W, b))
    BY <2>1, <2>2, LinkedSame
  <2>4. t.bands = s.bands
    BY DEF SameFree
  <2>5. QED  BY <2>1, <2>3, <2>4
<1>2. Weighs(t.hdr.free_count, t.hdr.free_space, W)
  BY DEF Pooled, PooledAs, SameFree
<1>3. QED  BY <1>1, <1>2 DEF Pooled, PooledAs

\* What CountUsed changes.
LEMMA UsedIs ==
  ASSUME NEW s \in State, NEW n \in Int, NEW k \in Int, NEW t, t = CountUsed(s, n, k)
  PROVE  /\ t \in State /\ t.file = s.file /\ SameFree(s, t)
         /\ t.hdr.last_off = s.hdr.last_off
         /\ t.hdr.used_count = s.hdr.used_count + n /\ t.hdr.used_space = s.hdr.used_space + k
<1>1. s.hdr \in FileHdr
  BY DEF State
<1>2. PICK c \in Int : c = s.hdr.used_count + n
  BY <1>1 DEF FileHdr
<1>3. PICK m \in Int : m = s.hdr.used_space + k
  BY <1>1 DEF FileHdr
<1>4. t = [s EXCEPT !.hdr.used_count = c, !.hdr.used_space = m]
  BY <1>2, <1>3 DEF CountUsed, State, FileHdr
<1>5. PICK new : new = [s.hdr EXCEPT !.used_count = c, !.used_space = m]
  OBVIOUS
<1>6. t = [s EXCEPT !.hdr = new]
  BY <1>4, <1>5 DEF State
<1>7. /\ new \in FileHdr /\ new.used_count = c /\ new.used_space = m
      /\ new.last_off = s.hdr.last_off
      /\ new.free_count = s.hdr.free_count /\ new.free_space = s.hdr.free_space
  BY <1>1, <1>5 DEF FileHdr
<1>8. t \in State /\ t.file = s.file /\ t.bands = s.bands /\ t.hdr = new
  BY <1>6, <1>7 DEF State
<1>9. QED  BY <1>2, <1>3, <1>7, <1>8 DEF SameFree

\* The lists do not change with the totals of the records.
LEMMA UsedPooled ==
  ASSUME NEW s \in State, NEW W, Pooled(s, W), NEW n \in Int, NEW k \in Int,
         NEW t, t = CountUsed(s, n, k)
  PROVE  Pooled(t, W)
<1>1. t.file = s.file /\ SameFree(s, t)
  BY UsedIs
<1>2. QED  BY <1>1, PooledSame

\* A record more is counted.
LEMMA RecordMore ==
  ASSUME NEW s, NEW W, NEW V, Counted(s, W, V), NEW x, x \notin DOMAIN V, NEW k \in Nat,
         NEW t, t = CountUsed(s, 1, k)
  PROVE  Counted(t, W, With(V, x, k)) /\ t.file = s.file /\ t.hdr.last_off = s.hdr.last_off
<1>1. s \in State /\ Pooled(s, W) /\ Weighs(s.hdr.used_count, s.hdr.used_space, V)
      /\ 1 \in Int /\ k \in Int
  BY DEF Counted
<1>2. /\ t \in State /\ t.file = s.file /\ t.hdr.last_off = s.hdr.last_off
      /\ t.hdr.used_count = s.hdr.used_count + 1 /\ t.hdr.used_space = s.hdr.used_space + k
  BY <1>1, UsedIs
<1>3. Pooled(t, W)
  BY <1>1, UsedPooled
<1>4. Weighs(s.hdr.used_count + 1, s.hdr.used_space + k, With(V, x, k))
  BY <1>1, WeighsMore
<1>5. QED  BY <1>2, <1>3, <1>4 DEF Counted

\* A record less is counted.
LEMMA RecordLess ==
  ASSUME NEW s, NEW W, NEW V, Counted(s, W, V), NEW x \in DOMAIN V,
         NEW t, t = CountUsed(s, -1, -V[x])
  PROVE  Counted(t, W, Without(V, x)) /\ t.file = s.file /\ t.hdr.last_off = s.hdr.last_off
<1>1. s \in State /\ Pooled(s, W) /\ Weighs(s.hdr.used_count, s.hdr.used_space, V)
  BY DEF Counted
<1>2. V[x] \in Nat
  BY <1>1 DEF Weighs
<1>3. PICK m \in Int : m = -V[x]
  BY <1>2
<1>4. -1 \in Int /\ t = CountUsed(s, -1, m)
  BY <1>3
<1>5. /\ t \in State /\ t.file = s.file /\ t.hdr.last_off = s.hdr.last_off
      /\ t.hdr.used_count = s.hdr.used_count + (-1) /\ t.hdr.used_space = s.hdr.used_space + m
  BY <1>1, <1>4, UsedIs
<1>6. Pooled(t, W)
  BY <1>1, <1>4, UsedPooled
<1>7. Weighs(s.hdr.used_count - 1, s.hdr.used_space - V[x], Without(V, x))
  BY <1>1, WeighsLess
<1>8. s.hdr.used_count \in Int /\ s.hdr.used_space \in Int
  BY <1>1 DEF State, FileHdr
<1>9. t.hdr.used_count = s.hdr.used_count - 1 /\ t.hdr.used_space = s.hdr.used_space - V[x]
  BY <1>2, <1>3, <1>5, <1>8
<1>10. QED  BY <1>5, <1>6, <1>7, <1>9 DEF Counted

\* A record of another length is counted.
LEMMA RecordChange ==
  ASSUME NEW s, NEW W, NEW V, Counted(s, W, V), NEW x \in DOMAIN V, NEW k \in Nat,
         NEW m \in Int, m = k - V[x], NEW t, t = CountUsed(s, 0, m)
  PROVE  Counted(t, W, With(Without(V, x), x, k)) /\ t.file = s.file
         /\ t.hdr.last_off = s.hdr.last_off
<1>1. s \in State /\ Pooled(s, W) /\ Weighs(s.hdr.used_count, s.hdr.used_space, V) /\ 0 \in Int
  BY DEF Counted
<1>2. V[x] \in Nat
  BY <1>1 DEF Weighs
<1>3. /\ t \in State /\ t.file = s.file /\ t.hdr.last_off = s.hdr.last_off
      /\ t.hdr.used_count = s.hdr.used_count + 0 /\ t.hdr.used_space = s.hdr.used_space + m
  BY <1>1, UsedIs
<1>4. Pooled(t, W)
  BY <1>1, UsedPooled
<1>5. Weighs(s.hdr.used_count, (s.hdr.used_space - V[x]) + k, With(Without(V, x), x, k))
  BY <1>1, WeighsChange
<1>6. s.hdr.used_count \in Int /\ s.hdr.used_space \in Int
  BY <1>1 DEF State, FileHdr
<1>7. t.hdr.used_count = s.hdr.used_count /\ t.hdr.used_space = (s.hdr.used_space - V[x]) + k
  BY <1>2, <1>3, <1>6
<1>8. QED  BY <1>3, <1>4, <1>5, <1>7 DEF Counted

\* The records are counted as before when the lists change.
LEMMA CountedIn ==
  ASSUME NEW s, NEW W, NEW V, Counted(s, W, V), NEW t \in State, SameUsed(s, t),
         NEW G, Pooled(t, G)
  PROVE  Counted(t, G, V) /\ t.hdr.last_off = s.hdr.last_off
  BY DEF Counted, SameUsed

\* A storage is in order when the headers are written, the free blocks are in
\* their lists and the records are counted.
LEMMA Standing ==
  ASSUME NEW s, NEW B, NEW last, NEW W, NEW V, InRow(s, B, last, W, V),
         NEW t, Counted(t, W, V), Same(s, t, Posts(W)), t.hdr.last_off = last
  PROVE  Stands(t, B, last, W, V)
<1>1. Row(s.file, B, last) /\ Sized(s.file, B, W, V)
  BY DEF InRow
<1>2. \A x \in B \cup {last} : t.file[x] = s.file[x]
  <2>1. \A x \in B \cup {last} : x \in Off /\ x \notin Posts(W)
    BY <1>1, PostsOff, RowNat
  <2>2. QED  BY <2>1 DEF Same
<1>3. Row(t.file, B, last)
  BY <1>1, <1>2, RowSame
<1>4. Sized(t.file, B, W, V)
  BY <1>1, <1>2 DEF Sized
<1>5. QED  BY <1>3, <1>4 DEF Stands, InRow

\* The length of a block, as the storage finds it.
LEMMA LenIs ==
  ASSUME NEW s, NEW B, NEW last, NEW W, NEW V, InRow(s, B, last, W, V), NEW x \in B
  PROVE  /\ s.file[x].free => BlockLen(s, x) = W[x]
         /\ ~s.file[x].free => BlockLen(s, x) = V[x]
         /\ DataLen(s.file[x], x) = BlockLen(s, x)
<1>1. Row(s.file, B, last) /\ Sized(s.file, B, W, V)
  BY DEF InRow
<1>2. s.file[x].next # RECLOCATOR_MAX
  BY <1>1, RowNext, ValuesAssumption DEF Off
<1>3. BlockLen(s, x) = s.file[x].next - x - BH
  BY <1>2 DEF BlockLen, DataLen
<1>4. DataLen(s.file[x], x) = BlockLen(s, x)
  BY DEF BlockLen
<1>5. QED  BY <1>1, <1>3, <1>4, FreeSize, UsedSize

\* All but one of the blocks.
LEMMA WithoutIs ==
  ASSUME NEW W, Lengths(W), NEW x
  PROVE  /\ \A y : y \in DOMAIN Without(W, x) <=> y \in DOMAIN W /\ y # x
         /\ Lengths(Without(W, x))
         /\ \A y \in DOMAIN W : y # x => Without(W, x)[y] = W[y]
  BY DEF Without, Lengths

\* Nothing but headers at A is written.
Headers(s, t, A) == \A c \in Off : (\A a \in A : c \notin HdrAt(a)) => t.file[c] = s.file[c]

\* Headers at A take no cell of a FreePos, nor of the records of U.
OffLists(W, A)   == \A c \in Posts(W) : \A a \in A : c \notin HdrAt(a)
OffRecords(U, A) ==
  \A x \in DOMAIN U : \A c \in DataAt(x, U[x]) : c \in Off /\ \A a \in A : c \notin HdrAt(a)

\* No FreePos takes a cell of the records of U.
OffPosts(U, W) == \A x \in DOMAIN U : \A c \in DataAt(x, U[x]) : c \in Off /\ c \notin Posts(W)

\* The lists stay as they are when headers are written elsewhere.
LEMMA PooledUnder ==
  ASSUME NEW s, NEW W, Apart(W), Pooled(s, W), NEW t, SameFree(s, t), NEW A, Headers(s, t, A),
         OffLists(W, A)
  PROVE  Pooled(t, W)
<1>1. ASSUME NEW x \in Listed(W) PROVE t.file[x + BH] = s.file[x + BH]
  <2>1. x + BH \in Off /\ x + BH \in Posts(W)
    BY ApartIs
  <2>2. \A a \in A : x + BH \notin HdrAt(a)
    BY <2>1 DEF OffLists
  <2>3. QED  BY <2>1, <2>2 DEF Headers
<1>2. QED  BY <1>1, PooledSame

\* And so do the records.
LEMMA HeldUnder ==
  ASSUME NEW s, NEW t, NEW A, Headers(s, t, A), NEW U, OffRecords(U, A)
  PROVE  Held(s, t, U)
<1>1. ASSUME NEW y \in DOMAIN U, NEW c \in DataAt(y, U[y]) PROVE t.file[c] = s.file[c]
  <2>1. c \in Off /\ \A a \in A : c \notin HdrAt(a)
    BY DEF OffRecords
  <2>2. QED  BY <2>1 DEF Headers
<1>2. QED  BY <1>1 DEF Held

\* And when something is written in the lists.
LEMMA HeldLists ==
  ASSUME NEW s, NEW t, NEW U, Held(s, t, U), NEW u, NEW W, Same(t, u, Posts(W)), OffPosts(U, W)
  PROVE  Held(s, u, U)
<1>1. ASSUME NEW y \in DOMAIN U, NEW c \in DataAt(y, U[y]) PROVE u.file[c] = s.file[c]
  <2>1. c \in Off /\ c \notin Posts(W)
    BY DEF OffPosts
  <2>2. u.file[c] = t.file[c]
    BY <2>1 DEF Same
  <2>3. QED  BY <2>2 DEF Held
<1>2. QED  BY <1>1 DEF Held

\* The headers of the blocks, the lists and the records do not meet.
LEMMA RowOff ==
  ASSUME NEW s, NEW B, NEW last, NEW W, NEW V, InRow(s, B, last, W, V),
         NEW A, A \subseteq B \cup {last}
  PROVE  OffLists(W, A) /\ OffRecords(V, A) /\ OffPosts(V, W)
<1>1. Row(s.file, B, last) /\ Sized(s.file, B, W, V)
  BY DEF InRow
<1>2. ASSUME NEW c \in Posts(W), NEW a \in A PROVE c \notin HdrAt(a)
  <2>1. a \in B \cup {last}
    OBVIOUS
  <2>2. QED  BY <1>1, <2>1, PostsOff
<1>3. ASSUME NEW x \in DOMAIN V, NEW c \in DataAt(x, V[x])
      PROVE  c \in Off /\ c \notin Posts(W) /\ \A a \in A : c \notin HdrAt(a)
  BY <1>1, RecordOff
<1>4. QED  BY <1>2, <1>3 DEF OffLists, OffRecords, OffPosts

\* Fewer lists take no more cells.
LEMMA OffWithout ==
  ASSUME NEW U, NEW W, OffPosts(U, W), NEW G, Posts(G) \subseteq Posts(W)
  PROVE  OffPosts(U, G)
  BY DEF OffPosts

\* A free block becomes a record.
LEMMA ReuseBlockIs ==
  ASSUME NEW s, NEW B, NEW last, NEW W, NEW V, Stands(s, B, last, W, V), NEW x \in DOMAIN W,
         NEW t, t = ReuseBlock(s, x)
  PROVE  Stands(t, B, last, Without(W, x), With(V, x, W[x])) /\ Held(s, t, V)
<1>1. s.hdr.last_off = last
  BY DEF Stands
<1>2. InRow(s, B, last, W, V) /\ Counted(s, W, V)
  BY DEF Stands
<1>3. PICK f : f = s.file
  OBVIOUS
<1>4. Row(f, B, last) /\ Sized(f, B, W, V)
  BY <1>2, <1>3 DEF InRow
<1>5. s \in State /\ Pooled(s, W)
  BY <1>2 DEF Counted
<1>6. x \in B /\ f[x].free
  BY <1>4, SizedIs
<1>7. W[x] \in Nat /\ x \notin DOMAIN V /\ W[x] = f[x].next - x - BH
  BY <1>4, <1>6, FreeSize
<1>8. BlockLen(s, x) = W[x]
  BY <1>2, <1>3, <1>6, LenIs
<1>9. x \in Off /\ x \in Nat /\ f[x] \in BlockHdr
  BY <1>4, <1>6, RowNat
<1>10. PICK b \in BlockHdr : b = [f[x] EXCEPT !.free = FALSE]
  BY <1>9 DEF BlockHdr
<1>11. IsHdr(b, FALSE, f[x].prev, f[x].next)
  BY <1>9, <1>10 DEF IsHdr, BlockHdr
<1>12. PICK u : u = WriteBhdr(s, x, b)
  OBVIOUS
<1>13. u \in State /\ u.hdr = s.hdr /\ u.bands = s.bands /\ u.file[x] = b /\ Same(s, u, HdrAt(x))
  BY <1>5, <1>9, <1>12, BhdrIs
<1>14. Headers(s, u, {x}) /\ SameFree(s, u) /\ SameUsed(s, u)
  BY <1>13 DEF Headers, Same, SameFree, SameUsed
<1>15. PICK n : n = f[x].next
  OBVIOUS
<1>16. n \in B /\ n \in Nat /\ x < n /\ f[n] \in BlockHdr /\ f[n].prev = x /\ ~f[n].free
       /\ \A y \in B \cup {last} : x < y => n <= y
  BY <1>4, <1>6, <1>15, RowNext
<1>17. \A y \in B \cup {last} : y # x => u.file[y] = f[y]
  <2>1. \A y \in B \cup {last} : y # x => y \in Off /\ y \notin HdrAt(x)
    BY <1>4, <1>6, HdrApart, RowNat
  <2>2. QED  BY <1>3, <1>13, <2>1 DEF Same
<1>18. Row(u.file, B, last)
  <2>1. \A y \in B \cup {last} : y \in Nat
    BY <1>4, RowNat
  <2>2. Joined(B, B, x, n)
    BY <1>9, <1>16, <2>1 DEF Joined
  <2>3. IsHdr(u.file[x], FALSE, f[x].prev, n)
    BY <1>11, <1>13, <1>15
  <2>4. IsHdr(u.file[n], FALSE, x, f[n].next)
    <3>1. u.file[n] = f[n]
      BY <1>9, <1>16, <1>17
    <3>2. f[n].free = FALSE
      BY <1>16 DEF BlockHdr
    <3>3. QED  BY <1>16, <3>1, <3>2 DEF IsHdr
  <2>5. Outside(f, u.file, B, last, x, n)
    BY <1>9, <1>16, <1>17, <2>1 DEF Outside
  <2>6. QED  BY <1>4, <1>6, <1>16, <2>2, <2>3, <2>4, <2>5, RowJoin
<1>19. Sized(u.file, B, Without(W, x), With(V, x, W[x]))
  <2>1. Lengths(W) /\ Lengths(V)
    BY <1>4 DEF Sized
  <2>2. /\ Lengths(Without(W, x)) /\ \A y : y \in DOMAIN Without(W, x) <=> y \in DOMAIN W /\ y # x
        /\ \A y \in DOMAIN W : y # x => Without(W, x)[y] = W[y]
    BY <2>1, WithoutIs
  <2>3. /\ Lengths(With(V, x, W[x]))
        /\ \A y : y \in DOMAIN With(V, x, W[x]) <=> y \in DOMAIN V \/ y = x
        /\ With(V, x, W[x])[x] = W[x] /\ \A y \in DOMAIN V : With(V, x, W[x])[y] = V[y]
    BY <1>7, <2>1, WithIs
  <2>4. u.file[x].next = f[x].next /\ ~u.file[x].free
    BY <1>11, <1>13 DEF IsHdr
  <2>5. QED  BY <1>4, <1>6, <1>7, <1>17, <2>2, <2>3, <2>4 DEF Sized
<1>20. PICK w : w = FreeRemove(u, x, W[x])
  OBVIOUS
<1>21. Apart(W) /\ Pooled(u, W)
  <2>1. Apart(W) /\ OffLists(W, {x})
    BY <1>2, <1>4, <1>6, RowApart, RowOff
  <2>2. QED  BY <1>5, <1>14, <2>1, PooledUnder
<1>22. w \in State /\ Pooled(w, Without(W, x)) /\ SameUsed(u, w) /\ Same(u, w, Posts(Without(W, x)))
  BY <1>13, <1>20, <1>21, FreeRemoveRead
<1>23. SameUsed(s, w)
  BY <1>14, <1>22 DEF SameUsed
<1>24. Counted(w, Without(W, x), V) /\ w.hdr.last_off = last
  BY <1>1, <1>2, <1>22, <1>23, CountedIn
<1>25. t = CountUsed(w, 1, W[x])
  BY <1>3, <1>8, <1>10, <1>12, <1>20 DEF ReuseBlock
<1>26. Counted(t, Without(W, x), With(V, x, W[x])) /\ t.file = w.file /\ t.hdr.last_off = last
  BY <1>7, <1>24, <1>25, RecordMore
<1>27. InRow(u, B, last, Without(W, x), With(V, x, W[x]))
  BY <1>18, <1>19 DEF InRow
<1>28. Same(u, t, Posts(Without(W, x)))
  BY <1>22, <1>26 DEF Same
<1>29. Stands(t, B, last, Without(W, x), With(V, x, W[x]))
  BY <1>26, <1>27, <1>28, Standing
<1>30. Held(s, t, V)
  <2>1. OffRecords(V, {x}) /\ OffPosts(V, W)
    BY <1>2, <1>6, RowOff
  <2>2. Held(s, u, V)
    BY <1>14, <2>1, HeldUnder
  <2>3. OffPosts(V, Without(W, x))
    BY <1>21, <2>1, ApartWithout, OffWithout
  <2>4. QED  BY <1>28, <2>2, <2>3, HeldLists
<1>31. QED  BY <1>29, <1>30

-----------------------------------------------------------------------------
(* Headers that are written one after the other.                           *)

\* t is s but for the headers at A.
Wrote(s, t, A) == t \in State /\ t.hdr = s.hdr /\ t.bands = s.bands /\ Headers(s, t, A)

\* One header.
LEMMA OneHdr ==
  ASSUME NEW s \in State, NEW a \in Off, NEW b \in BlockHdr
  PROVE  Wrote(s, WriteBhdr(s, a, b), {a}) /\ WriteBhdr(s, a, b).file[a] = b
<1>1. PICK t : t = WriteBhdr(s, a, b)
  OBVIOUS
<1>2. t \in State /\ t.hdr = s.hdr /\ t.bands = s.bands /\ t.file[a] = b /\ Same(s, t, HdrAt(a))
  BY <1>1, BhdrIs
<1>3. Headers(s, t, {a})
  BY <1>2 DEF Headers, Same
<1>4. QED  BY <1>1, <1>2, <1>3 DEF Wrote

\* Two headers.
LEMMA TwoHdrs ==
  ASSUME NEW s \in State, NEW a \in Off, NEW z \in Off, a \notin HdrAt(z),
         NEW b \in BlockHdr, NEW d \in BlockHdr, NEW t, t = WriteBhdr(WriteBhdr(s, a, b), z, d)
  PROVE  Wrote(s, t, {a, z}) /\ t.file[a] = b /\ t.file[z] = d
<1>1. PICK u : u = WriteBhdr(s, a, b)
  OBVIOUS
<1>2. Wrote(s, u, {a}) /\ u.file[a] = b
  BY <1>1, OneHdr
<1>3. u \in State
  BY <1>2 DEF Wrote
<1>4. t = WriteBhdr(u, z, d)
  BY <1>1
<1>5. Wrote(u, t, {z}) /\ t.file[z] = d
  BY <1>3, <1>4, OneHdr
<1>6. t.file[a] = b
  BY <1>2, <1>5 DEF Wrote, Headers
<1>7. Headers(s, t, {a, z})
  BY <1>2, <1>5 DEF Wrote, Headers
<1>8. QED  BY <1>2, <1>5, <1>6, <1>7 DEF Wrote

\* Three headers.
LEMMA ThreeHdrs ==
  ASSUME NEW s \in State, NEW a \in Off, NEW m \in Off, NEW z \in Off,
         a \notin HdrAt(m), a \notin HdrAt(z), m \notin HdrAt(z),
         NEW b \in BlockHdr, NEW c \in BlockHdr, NEW d \in BlockHdr,
         NEW t, t = WriteBhdr(WriteBhdr(WriteBhdr(s, a, b), m, c), z, d)
  PROVE  Wrote(s, t, {a, m, z}) /\ t.file[a] = b /\ t.file[m] = c /\ t.file[z] = d
<1>1. PICK u : u = WriteBhdr(WriteBhdr(s, a, b), m, c)
  OBVIOUS
<1>2. Wrote(s, u, {a, m}) /\ u.file[a] = b /\ u.file[m] = c
  BY <1>1, TwoHdrs
<1>3. u \in State
  BY <1>2 DEF Wrote
<1>4. t = WriteBhdr(u, z, d)
  BY <1>1
<1>5. Wrote(u, t, {z}) /\ t.file[z] = d
  BY <1>3, <1>4, OneHdr
<1>6. t.file[a] = b /\ t.file[m] = c
  BY <1>2, <1>5 DEF Wrote, Headers
<1>7. Headers(s, t, {a, m, z})
  BY <1>2, <1>5 DEF Wrote, Headers
<1>8. QED  BY <1>2, <1>5, <1>6, <1>7 DEF Wrote

\* The headers of two blocks that are joined.
LEMMA JoinIs ==
  ASSUME NEW s \in State, NEW a \in Off, NEW z \in Off, a + BH <= z,
         NEW b \in BlockHdr, NEW d \in BlockHdr, NEW t, t = JoinBhdrs(s, a, b, z, d)
  PROVE  /\ Wrote(s, t, {a, z})
         /\ IsHdr(t.file[a], b.free, b.prev, z) /\ IsHdr(t.file[z], d.free, a, d.next)
<1>1. a \notin HdrAt(z)
  BY SizesAssumption DEF HdrAt, Off
<1>2. PICK x \in BlockHdr : x = [b EXCEPT !.next = z]
  BY DEF BlockHdr, Locator
<1>3. PICK y \in BlockHdr : y = [d EXCEPT !.prev = a]
  BY DEF BlockHdr, Locator
<1>4. t = WriteBhdr(WriteBhdr(s, a, x), z, y)
  BY <1>2, <1>3 DEF JoinBhdrs
<1>5. Wrote(s, t, {a, z}) /\ t.file[a] = x /\ t.file[z] = y
  BY <1>1, <1>4, TwoHdrs
<1>6. IsHdr(x, b.free, b.prev, z) /\ IsHdr(y, d.free, a, d.next)
  BY <1>2, <1>3 DEF IsHdr, BlockHdr
<1>7. QED  BY <1>5, <1>6

\* t is s but for its end, which is at e.
Ended(s, t, e) ==
  /\ t \in State /\ t.file = s.file /\ SameFree(s, t) /\ t.hdr.last_off = e
  /\ t.hdr.used_count = s.hdr.used_count /\ t.hdr.used_space = s.hdr.used_space

\* The end of the storage is elsewhere.
LEMMA LastOffIs ==
  ASSUME NEW s \in State, NEW e \in Int, NEW t, t = [s EXCEPT !.hdr.last_off = e]
  PROVE  Ended(s, t, e)
<1>1. s.hdr \in FileHdr
  BY DEF State
<1>2. PICK new : new = [s.hdr EXCEPT !.last_off = e]
  OBVIOUS
<1>3. t = [s EXCEPT !.hdr = new]
  BY <1>2 DEF State
<1>4. /\ new \in FileHdr /\ new.last_off = e
      /\ new.used_count = s.hdr.used_count /\ new.used_space = s.hdr.used_space
      /\ new.free_count = s.hdr.free_count /\ new.free_space = s.hdr.free_space
  BY <1>1, <1>2 DEF FileHdr
<1>5. t \in State /\ t.file = s.file /\ t.bands = s.bands /\ t.hdr = new
  BY <1>3, <1>4 DEF State
<1>6. QED  BY <1>4, <1>5 DEF SameFree, Ended

\* A record of length k is appended to the row.
LEMMA AllocAtEndIs ==
  ASSUME NEW s, NEW B, NEW last, NEW W, NEW V, Stands(s, B, last, W, V), NEW k \in Nat,
         last + BH + k \in Off, NEW t, t = AllocAtEnd(s, k)
  PROVE  /\ Stands(t, B \cup {last}, last + BH + k, W, With(V, last, k)) /\ Held(s, t, V)
<1>1. InRow(s, B, last, W, V) /\ Counted(s, W, V)
  BY DEF Stands
<1>2. PICK f : f = s.file
  OBVIOUS
<1>3. Row(f, B, last) /\ Sized(f, B, W, V)
  BY <1>1, <1>2 DEF InRow
<1>4. s \in State /\ Pooled(s, W) /\ Weighs(s.hdr.used_count, s.hdr.used_space, V)
  BY <1>1 DEF Counted
<1>5. last \in Off /\ last \in Nat /\ f[last] \in BlockHdr /\ \A y \in B : y \in Nat /\ y < last
  BY <1>3, RowNat
<1>6. BH \in Nat \ {0} /\ MaxOff \in Nat
  BY SizesAssumption
<1>7. PICK e \in Off : e = last + BH + k
  OBVIOUS
<1>8. e \in Nat /\ last < e /\ last + BH <= e
  BY <1>5, <1>6, <1>7
<1>9. PICK r : r = [s EXCEPT !.hdr.last_off = e]
  OBVIOUS
<1>10. /\ r \in State /\ r.file = f /\ SameFree(s, r) /\ r.hdr.last_off = e
       /\ r.hdr.used_count = s.hdr.used_count /\ r.hdr.used_space = s.hdr.used_space
  <2>1. Ended(s, r, e)
    BY <1>4, <1>8, <1>9, LastOffIs
  <2>2. QED  BY <1>2, <2>1 DEF Ended
<1>11. PICK b \in BlockHdr : b = [f[last] EXCEPT !.free = FALSE, !.next = e]
  BY <1>5 DEF BlockHdr, Locator
<1>12. IsHdr(b, FALSE, f[last].prev, e)
  BY <1>5, <1>11 DEF IsHdr, BlockHdr
<1>13. PICK d \in BlockHdr : d = [free |-> TRUE, prev |-> last, next |-> RECLOCATOR_MAX]
  BY <1>5 DEF BlockHdr, Locator
<1>14. IsHdr(d, TRUE, last, RECLOCATOR_MAX)
  BY <1>13 DEF IsHdr
<1>15. PICK u : u = WriteBhdr(WriteBhdr(r, last, b), e, d)
  OBVIOUS
<1>16. last \notin HdrAt(e)
  BY <1>5, <1>8 DEF HdrAt
<1>17. /\ u \in State /\ u.hdr = r.hdr /\ u.bands = r.bands
       /\ u.file[last] = b /\ u.file[e] = d /\ Headers(r, u, {last, e})
  <2>1. r \in State /\ last \in Off
    BY <1>5, <1>10
  <2>2. Wrote(r, u, {last, e}) /\ u.file[last] = b /\ u.file[e] = d
    BY <1>15, <1>16, <2>1, TwoHdrs
  <2>3. QED  BY <2>2 DEF Wrote
<1>18. Headers(s, u, {last, e}) /\ SameFree(s, u)
  BY <1>2, <1>10, <1>17 DEF Headers, SameFree
<1>19. t = CountUsed(u, 1, k)
  <2>1. s.hdr.last_off = last
    BY DEF Stands
  <2>2. QED
    BY <2>1, <1>2, <1>7, <1>9, <1>11, <1>13, <1>15 DEF AllocAtEnd
<1>20. ASSUME NEW y \in B PROVE u.file[y] = f[y]
  <2>1. y \in Off /\ y \notin HdrAt(last)
    BY <1>3, <1>5, HdrApart, RowNat
  <2>2. y \notin HdrAt(e)
    BY <1>5, <1>8 DEF HdrAt
  <2>3. QED  BY <1>2, <1>18, <2>1, <2>2 DEF Headers
<1>21. Row(u.file, B \cup {last}, e)
  <2>1. Tailed(B, B \cup {last}, last)
    BY <1>5 DEF Tailed
  <2>2. IsHdr(u.file[last], FALSE, f[last].prev, e) /\ IsHdr(u.file[e], TRUE, last, RECLOCATOR_MAX)
    BY <1>12, <1>14, <1>17
  <2>3. SameBefore(f, u.file, B, last)
    BY <1>20 DEF SameBefore
  <2>4. PICK C : C = B \cup {last}
    OBVIOUS
  <2>5. Row(u.file, C, e)
    <3>1. last \in B \cup {last} /\ last + BH <= e /\ Tailed(B, C, last)
      BY <1>8, <2>1, <2>4
    <3>2. QED  BY <1>3, <2>2, <2>3, <3>1, RowTail
  <2>6. QED  BY <2>4, <2>5
<1>22. last \notin DOMAIN V /\ last \notin DOMAIN W
  BY <1>3, <1>5, SizedIs
<1>23. Sized(u.file, B \cup {last}, W, With(V, last, k))
  <2>1. Lengths(W) /\ Lengths(V)
    BY <1>3 DEF Sized
  <2>2. /\ Lengths(With(V, last, k))
        /\ \A y : y \in DOMAIN With(V, last, k) <=> y \in DOMAIN V \/ y = last
        /\ With(V, last, k)[last] = k /\ \A y \in DOMAIN V : With(V, last, k)[y] = V[y]
    BY <1>22, <2>1, WithIs
  <2>3. u.file[last].next = e /\ ~u.file[last].free
    BY <1>12, <1>17 DEF IsHdr
  <2>4. k = e - last - BH
    BY <1>5, <1>6, <1>7
  <2>5. last \notin B
    BY <1>5
  <2>6. QED  BY <1>3, <1>20, <1>22, <2>1, <2>2, <2>3, <2>4, <2>5 DEF Sized
<1>24. OffLists(W, {last, e}) /\ OffRecords(V, {last, e}) /\ OffPosts(V, W)
  <2>1. OffLists(W, {last}) /\ OffRecords(V, {last}) /\ OffPosts(V, W)
    BY <1>1, RowOff
  <2>2. ASSUME NEW c \in Posts(W) PROVE c \notin HdrAt(e)
    <3>1. PICK x \in B : c \in Int /\ c < f[x].next
      BY <1>3, PostsIn
    <3>2. f[x].next \in Nat /\ f[x].next <= last
      BY <1>3, RowNext
    <3>3. QED  BY <1>5, <1>8, <3>1, <3>2 DEF HdrAt
  <2>3. ASSUME NEW x \in DOMAIN V, NEW c \in DataAt(x, V[x]) PROVE c \notin HdrAt(e)
    <3>1. c \in Int /\ x \in B /\ c < f[x].next
      BY <1>3, RecordOff
    <3>2. f[x].next \in Nat /\ f[x].next <= last
      BY <1>3, <3>1, RowNext
    <3>3. QED  BY <1>5, <1>8, <3>1, <3>2 DEF HdrAt
  <2>4. QED  BY <2>1, <2>2, <2>3 DEF OffLists, OffRecords
<1>25. Counted(u, W, V)
  <2>1. Pooled(u, W)
    BY <1>3, <1>4, <1>18, <1>24, RowApart, PooledUnder
  <2>2. u.hdr.used_count = s.hdr.used_count /\ u.hdr.used_space = s.hdr.used_space
    BY <1>10, <1>17
  <2>3. QED  BY <1>4, <1>17, <2>1, <2>2 DEF Counted
<1>26. Counted(t, W, With(V, last, k)) /\ t.file = u.file /\ t.hdr.last_off = e
  <2>1. u.hdr.last_off = e
    BY <1>10, <1>17
  <2>2. QED  BY <1>19, <1>22, <1>25, <2>1, RecordMore
<1>27. Stands(t, B \cup {last}, e, W, With(V, last, k))
  <2>1. Row(t.file, B \cup {last}, e) /\ Sized(t.file, B \cup {last}, W, With(V, last, k))
    BY <1>21, <1>23, <1>26
  <2>2. QED  BY <1>26, <2>1 DEF Stands, InRow
<1>28. Held(s, t, V)
  <2>1. Held(s, u, V)
    BY <1>18, <1>24, HeldUnder
  <2>2. QED  BY <1>26, <2>1 DEF Held
<1>29. QED  BY <1>7, <1>27, <1>28

-----------------------------------------------------------------------------
(* A block that is split.                                                  *)

\* Records of U are records of V, or the first part of one.
Sub(U, V) ==
  \A y \in DOMAIN U : y \in Nat /\ U[y] \in Nat /\ y \in DOMAIN V /\ V[y] \in Nat /\ U[y] <= V[y]

\* What is apart from a record is apart from a part of it.
LEMMA SubOff ==
  ASSUME NEW U, NEW V, Sub(U, V)
  PROVE  /\ \A A : OffRecords(V, A) => OffRecords(U, A)
         /\ \A W : OffPosts(V, W) => OffPosts(U, W)
<1>1. ASSUME NEW y \in DOMAIN U, NEW c \in DataAt(y, U[y]) PROVE y \in DOMAIN V /\ c \in DataAt(y, V[y])
  <2>1. y \in Nat /\ U[y] \in Nat /\ y \in DOMAIN V /\ V[y] \in Nat /\ U[y] <= V[y]
    BY DEF Sub
  <2>2. QED  BY <2>1, SizesAssumption DEF DataAt
<1>2. QED  BY <1>1 DEF OffRecords, OffPosts

\* Block a, which ends at block z, makes room for a free block m.
Gap(f, B, a, m, z) ==
  /\ a \in B /\ z \in B /\ f[a].next = z /\ ~f[z].free
  /\ m \in Off /\ a + BH <= m /\ m + BH <= z

\* The blocks of B but a are as long as before, and free or not as before.
Kept(f, g, B, a) == \A y \in B : y # a => g[y].free = f[y].free /\ g[y].next = f[y].next

\* A free block is put between two blocks.
LEMMA InsertIs ==
  ASSUME NEW s \in State, NEW B, NEW last, Row(s.file, B, last), NEW a, NEW m, NEW z,
         Gap(s.file, B, a, m, z), NEW t, t = InsertFree(s, a, m)
  PROVE  /\ Wrote(s, t, {a, m, z}) /\ Row(t.file, B \cup {m}, last) /\ Kept(s.file, t.file, B, a)
         /\ IsHdr(t.file[a], FALSE, s.file[a].prev, m) /\ IsHdr(t.file[m], TRUE, a, z)
         /\ m \notin B
<1>1. PICK f : f = s.file
  OBVIOUS
<1>2. Row(f, B, last)
  BY <1>1
<1>3. a \in B /\ z \in B /\ f[a].next = z /\ ~f[z].free /\ m \in Off /\ a + BH <= m /\ m + BH <= z
  BY <1>1 DEF Gap
<1>4. BH \in Nat \ {0} /\ MaxOff \in Nat
  BY SizesAssumption
<1>5. /\ a \in Nat /\ a \in Off /\ z \in Nat /\ z \in Off /\ f[a] \in BlockHdr /\ f[z] \in BlockHdr
      /\ m \in Nat /\ z < last
  BY <1>2, <1>3, <1>4, RowNat DEF Off
<1>6. \A y \in B \cup {last} : y \in Nat /\ y \in Off /\ (a < y => z <= y)
  BY <1>2, <1>3, RowNat, RowNext
<1>7. a \notin HdrAt(m) /\ a \notin HdrAt(z) /\ m \notin HdrAt(z) /\ a < m /\ m < z
  BY <1>3, <1>4, <1>5 DEF HdrAt
<1>8. PICK b \in BlockHdr : b = [f[a] EXCEPT !.free = FALSE, !.next = m]
  BY <1>3, <1>5 DEF BlockHdr, Locator
<1>9. IsHdr(b, FALSE, f[a].prev, m)
  BY <1>5, <1>8 DEF IsHdr, BlockHdr
<1>10. PICK c \in BlockHdr : c = [free |-> TRUE, prev |-> a, next |-> z]
  BY <1>5 DEF BlockHdr, Locator
<1>11. IsHdr(c, TRUE, a, z)
  BY <1>10 DEF IsHdr
<1>12. PICK d \in BlockHdr : d = [f[z] EXCEPT !.prev = m]
  BY <1>3, <1>5 DEF BlockHdr, Locator
<1>13. IsHdr(d, FALSE, m, f[z].next)
  BY <1>3, <1>5, <1>12 DEF IsHdr, BlockHdr
<1>14. t = WriteBhdr(WriteBhdr(WriteBhdr(s, a, b), m, c), z, d)
  BY <1>1, <1>3, <1>8, <1>10, <1>12 DEF InsertFree
<1>15. m \in Off
  BY <1>3
<1>16. Wrote(s, t, {a, m, z}) /\ t.file[a] = b /\ t.file[m] = c /\ t.file[z] = d
  BY <1>5, <1>7, <1>14, <1>15, ThreeHdrs
<1>17. ASSUME NEW y \in B \cup {last}, y # a, y # z PROVE t.file[y] = f[y]
  <2>1. y \in Off /\ y \notin HdrAt(a) /\ y \notin HdrAt(z)
    BY <1>2, <1>3, <1>6, <1>17, HdrApart
  <2>2. y \in Nat /\ (y < a \/ z < y)
    BY <1>5, <1>6, <1>17
  <2>3. y \notin HdrAt(m)
    BY <1>3, <1>4, <1>5, <1>7, <2>2 DEF HdrAt
  <2>4. QED  BY <1>1, <1>16, <2>1, <2>3 DEF Wrote, Headers
<1>18. m \notin B
  BY <1>5, <1>6, <1>7
<1>19. Row(t.file, B \cup {m}, last)
  <2>1. Parted(B, B \cup {m}, a, m, z)
    BY <1>5, <1>6 DEF Parted
  <2>2. Outside(f, t.file, B, last, a, z)
    BY <1>5, <1>6, <1>7, <1>17 DEF Outside
  <2>3. /\ IsHdr(t.file[a], FALSE, f[a].prev, m) /\ IsHdr(t.file[m], TRUE, a, z)
        /\ IsHdr(t.file[z], FALSE, m, f[z].next)
    BY <1>9, <1>11, <1>13, <1>16
  <2>4. a \in B /\ z \in B /\ m \in Off /\ a + BH <= m /\ m + BH <= z /\ ~f[z].free
    BY <1>3
  <2>5. QED  BY <1>2, <2>1, <2>2, <2>3, <2>4, RowPart
<1>20. Kept(f, t.file, B, a)
  <2>1. t.file[z].free = f[z].free /\ t.file[z].next = f[z].next
    BY <1>3, <1>5, <1>13, <1>16 DEF IsHdr, BlockHdr
  <2>2. QED  BY <1>17, <2>1 DEF Kept
<1>21. QED  BY <1>1, <1>9, <1>11, <1>16, <1>18, <1>19, <1>20

\* A free block becomes a record of length k, and the rest of it stays free.
LEMMA SplitFreeIs ==
  ASSUME NEW s, NEW B, NEW last, NEW W, NEW V, Stands(s, B, last, W, V), NEW x \in DOMAIN W,
         NEW k \in Nat, Splits(k, W[x]), NEW t, t = SplitFree(s, x, k)
  PROVE  \E m \in Off : \E r \in Nat :
           /\ Stands(t, B \cup {m}, last, With(Without(W, x), m, r), With(V, x, k))
           /\ Held(s, t, V)
<1>1. s.hdr.last_off = last
  BY DEF Stands
<1>2. InRow(s, B, last, W, V) /\ Counted(s, W, V)
  BY DEF Stands
<1>3. PICK f : f = s.file
  OBVIOUS
<1>4. Row(f, B, last) /\ Sized(f, B, W, V)
  BY <1>2, <1>3 DEF InRow
<1>5. s \in State /\ Pooled(s, W)
  BY <1>2 DEF Counted
<1>6. x \in B /\ f[x].free
  BY <1>4, SizedIs
<1>7. W[x] \in Nat /\ x \notin DOMAIN V /\ W[x] = f[x].next - x - BH /\ f[x].next = x + BH + W[x]
  BY <1>4, <1>6, FreeSize
<1>8. BlockLen(s, x) = W[x]
  BY <1>2, <1>3, <1>6, LenIs
<1>9. BH \in Nat \ {0} /\ FP \in Nat \ {0} /\ MaxOff \in Nat
  BY SizesAssumption
<1>10. PICK z : z = f[x].next
  OBVIOUS
<1>11. /\ z \in B /\ z \in Nat /\ ~f[z].free /\ x \in Nat /\ x \in Off /\ z \in Off
       /\ \A y \in B \cup {last} : y \in Nat /\ (x < y => z <= y)
  BY <1>4, <1>6, <1>10, RowNext, RowNat
<1>12. k + BH + FP <= W[x]
  BY DEF Splits
<1>13. PICK m \in Nat : m = x + BH + k
  BY <1>9, <1>11
<1>14. PICK r \in Nat : r = W[x] - k - BH
  BY <1>7, <1>9, <1>12
<1>15. /\ m \in Off /\ x + BH <= m /\ m + BH <= z /\ r = z - m - BH /\ k = m - x - BH
       /\ z = m + BH + r /\ x < m /\ m < z
  <2>1. PICK n \in Nat : n = W[x]
    BY <1>7
  <2>2. z = x + BH + n /\ r = n - k - BH
    BY <1>7, <1>10, <1>14, <2>1
  <2>3. x + BH <= m /\ m + BH <= z /\ z = m + BH + r /\ x < m /\ m < z
    BY <1>9, <1>11, <1>13, <1>14, <2>2
  <2>4. r = z - m - BH /\ k = m - x - BH
    BY <1>9, <1>11, <1>13, <1>14, <2>3
  <2>5. m \in Off
    BY <1>9, <1>11, <2>3 DEF Off
  <2>6. QED  BY <2>3, <2>4, <2>5
<1>16. Gap(f, B, x, m, z)
  BY <1>6, <1>10, <1>11, <1>15 DEF Gap
<1>17. PICK u : u = InsertFree(s, x, m)
  OBVIOUS
<1>18. /\ Wrote(s, u, {x, m, z}) /\ Row(u.file, B \cup {m}, last) /\ Kept(f, u.file, B, x)
       /\ IsHdr(u.file[x], FALSE, f[x].prev, m) /\ IsHdr(u.file[m], TRUE, x, z) /\ m \notin B
  BY <1>3, <1>4, <1>5, <1>16, <1>17, InsertIs
<1>19. PICK R : R = Without(W, x)
  OBVIOUS
<1>20. PICK G : G = With(R, m, r)
  OBVIOUS
<1>21. PICK U : U = With(V, x, k)
  OBVIOUS
<1>22. Lengths(W) /\ Lengths(V)
  BY <1>4 DEF Sized
<1>23. /\ Lengths(R) /\ \A y : y \in DOMAIN R <=> y \in DOMAIN W /\ y # x
       /\ \A y \in DOMAIN W : y # x => R[y] = W[y]
  BY <1>19, <1>22, WithoutIs
<1>24. m \notin DOMAIN R /\ m \notin DOMAIN W
  BY <1>4, <1>18, <1>23, SizedIs
<1>25. /\ Lengths(G) /\ \A y : y \in DOMAIN G <=> y \in DOMAIN R \/ y = m
       /\ G[m] = r /\ \A y \in DOMAIN R : G[y] = R[y]
  BY <1>20, <1>23, <1>24, WithIs
<1>26. /\ Lengths(U) /\ \A y : y \in DOMAIN U <=> y \in DOMAIN V \/ y = x
       /\ U[x] = k /\ \A y \in DOMAIN V : U[y] = V[y]
  BY <1>7, <1>21, <1>22, WithIs
<1>27. Sized(u.file, B \cup {m}, G, U)
  <2>1. u.file[x].next = m /\ ~u.file[x].free /\ u.file[m].next = z /\ u.file[m].free
    BY <1>18 DEF IsHdr
  <2>2. \A y \in B : y # x => u.file[y].free = f[y].free /\ u.file[y].next = f[y].next
    BY <1>18 DEF Kept
  <2>3. ASSUME NEW y \in DOMAIN G
        PROVE  y \in B \cup {m} /\ u.file[y].free /\ G[y] = u.file[y].next - y - BH
    <3>1. CASE y = m
      BY <1>15, <1>25, <2>1, <3>1
    <3>2. CASE y # m
      <4>1. y \in DOMAIN W /\ y # x /\ G[y] = W[y]
        BY <1>23, <1>25, <3>2
      <4>2. y \in B /\ f[y].free /\ W[y] = f[y].next - y - BH
        BY <1>4, <4>1 DEF Sized
      <4>3. QED  BY <2>2, <4>1, <4>2
    <3>3. QED  BY <3>1, <3>2
  <2>4. ASSUME NEW y \in DOMAIN U
        PROVE  y \in B \cup {m} /\ ~u.file[y].free /\ U[y] = u.file[y].next - y - BH
    <3>1. CASE y = x
      BY <1>6, <1>15, <1>26, <2>1, <3>1
    <3>2. CASE y # x
      <4>1. y \in DOMAIN V /\ U[y] = V[y]
        BY <1>26, <3>2
      <4>2. y \in B /\ ~f[y].free /\ V[y] = f[y].next - y - BH
        BY <1>4, <4>1 DEF Sized
      <4>3. QED  BY <2>2, <3>2, <4>1, <4>2
    <3>3. QED  BY <3>1, <3>2
  <2>5. ASSUME NEW y \in B \cup {m} PROVE IF u.file[y].free THEN y \in DOMAIN G ELSE y \in DOMAIN U
    <3>1. CASE y = m
      BY <1>25, <2>1, <3>1
    <3>2. CASE y = x
      BY <1>26, <2>1, <3>2
    <3>3. CASE y \in B /\ y # x
      <4>1. IF f[y].free THEN y \in DOMAIN W ELSE y \in DOMAIN V
        BY <1>4, <3>3 DEF Sized
      <4>2. u.file[y].free = f[y].free
        BY <2>2, <3>3
      <4>3. QED  BY <1>23, <1>25, <1>26, <3>3, <4>1, <4>2
    <3>4. QED  BY <3>1, <3>2, <3>3
  <2>6. QED  BY <1>25, <1>26, <2>3, <2>4, <2>5 DEF Sized
<1>28. InRow(u, B \cup {m}, last, G, U)
  BY <1>18, <1>27 DEF InRow
<1>29. /\ u \in State /\ u.hdr = s.hdr /\ u.bands = s.bands /\ Headers(s, u, {x, m, z})
  BY <1>18 DEF Wrote
<1>30. PICK pos : pos = FilePos(s, W)
  OBVIOUS
<1>31. PooledAs(u, W, pos)
  BY <1>5, <1>29, <1>30 DEF Pooled, PooledAs
<1>32. Apart(W) /\ Apart(G)
  BY <1>4, <1>18, <1>27, RowApart
<1>33. ASSUME NEW y \in Listed(W) \ {x} PROVE u.file[y + BH] = pos[y]
  <2>1. y \in Listed(G) /\ y \in DOMAIN W
    BY <1>23, <1>25 DEF Listed
  <2>2. y + BH \in Off /\ y + BH \in Posts(G)
    BY <1>32, <2>1, ApartIs
  <2>3. OffLists(G, {x, m, z})
    BY <1>6, <1>11, <1>28, RowOff
  <2>4. u.file[y + BH] = s.file[y + BH]
    BY <1>29, <2>2, <2>3 DEF OffLists, Headers
  <2>5. QED  BY <1>30, <2>1, <2>4 DEF FilePos
<1>34. PICK w : w = MoveFree(u, pos[x], m, W[x], r)
  OBVIOUS
<1>35. w \in State /\ Pooled(w, G) /\ SameUsed(u, w) /\ Same(u, w, Posts(G))
  <2>1. m \in Off
    BY <1>15
  <2>2. Apart(With(Without(W, x), m, r)) /\ m \notin DOMAIN Without(W, x)
    BY <1>19, <1>20, <1>24, <1>32
  <2>3. /\ w \in State /\ Pooled(w, With(Without(W, x), m, r)) /\ SameUsed(u, w)
        /\ Same(u, w, Posts(With(Without(W, x), m, r)))
    BY <1>29, <1>31, <1>32, <1>33, <1>34, <2>1, <2>2, MoveFreeIs
  <2>4. QED  BY <1>19, <1>20, <2>3
<1>36. SameUsed(s, w)
  BY <1>29, <1>35 DEF SameUsed
<1>37. Counted(w, G, V) /\ w.hdr.last_off = last
  BY <1>1, <1>2, <1>35, <1>36, CountedIn
<1>38. t = CountUsed(w, 1, k)
  <2>1. pos[x] = ReadFreepos(s, x)
    BY <1>30 DEF FilePos, ReadFreepos
  <2>2. QED  BY <1>8, <1>13, <1>14, <1>17, <1>34, <2>1 DEF SplitFree
<1>39. Counted(t, G, U) /\ t.file = w.file /\ t.hdr.last_off = last
  BY <1>7, <1>21, <1>37, <1>38, RecordMore
<1>40. Same(u, t, Posts(G))
  BY <1>35, <1>39 DEF Same
<1>41. Stands(t, B \cup {m}, last, G, U)
  BY <1>28, <1>39, <1>40, Standing
<1>42. Held(s, t, V)
  <2>1. Sub(V, U)
    <3>1. \A y \in DOMAIN V : y \in Nat
      BY <1>4, <1>11, SizedIs
    <3>2. QED  BY <1>22, <1>26, <3>1 DEF Sub, Lengths
  <2>2. OffRecords(U, {x, m, z}) /\ OffPosts(U, G)
    BY <1>6, <1>11, <1>28, RowOff
  <2>3. OffRecords(V, {x, m, z}) /\ OffPosts(V, G)
    BY <2>1, <2>2, SubOff
  <2>4. Held(s, u, V)
    BY <1>29, <2>3, HeldUnder
  <2>5. QED  BY <1>40, <2>3, <2>4, HeldLists
<1>43. QED  BY <1>15, <1>19, <1>20, <1>21, <1>41, <1>42

\* The arithmetic of a split: block x of length n ends at z, k of it stay and a
\* free block of length r is put at m.
LEMMA SplitAt ==
  ASSUME NEW x \in Nat, NEW n \in Nat, NEW k \in Nat, Splits(k, n), NEW z \in Off, z = x + BH + n
  PROVE  \E m \in Off : \E r \in Nat :
           /\ m = x + BH + k /\ r = n - k - BH
           /\ x + BH <= m /\ m + BH <= z /\ x < m /\ m < z /\ r = z - m - BH /\ k = m - x - BH
<1>1. BH \in Nat \ {0} /\ FP \in Nat \ {0} /\ MaxOff \in Nat /\ z \in 0 .. MaxOff
  BY SizesAssumption DEF Off
<1>2. k + BH + FP <= n
  BY DEF Splits
<1>3. PICK m \in Nat : m = x + BH + k
  BY <1>1
<1>4. PICK r \in Nat : r = n - k - BH
  BY <1>1, <1>2
<1>5. x + BH <= m /\ m + BH <= z /\ x < m /\ m < z
  BY <1>1, <1>2, <1>3, <1>4
<1>6. r = z - m - BH /\ k = m - x - BH
  BY <1>1, <1>3, <1>4
<1>7. m \in Off
  BY <1>1, <1>5 DEF Off
<1>8. QED  BY <1>3, <1>4, <1>5, <1>6, <1>7

\* A block between others is followed by a record.
UsedAfter(f, B, x) == f[x].next \in B /\ ~f[f[x].next].free

\* The end of a record becomes a free block.
LEMMA SplitUsedIs ==
  ASSUME NEW s, NEW B, NEW last, NEW W, NEW V, Stands(s, B, last, W, V), NEW x \in DOMAIN V,
         UsedAfter(s.file, B, x), NEW k \in Nat, Splits(k, V[x]), NEW t, t = SplitUsed(s, x, k)
  PROVE  \E m \in Off : \E r \in Nat :
           /\ Stands(t, B \cup {m}, last, With(W, m, r), With(Without(V, x), x, k))
           /\ Held(s, t, With(Without(V, x), x, k))
<1>1. s.hdr.last_off = last /\ InRow(s, B, last, W, V) /\ Counted(s, W, V)
  BY DEF Stands
<1>2. PICK f : f = s.file
  OBVIOUS
<1>3. Row(f, B, last) /\ Sized(f, B, W, V)
  BY <1>1, <1>2 DEF InRow
<1>4. s \in State /\ Pooled(s, W)
  BY <1>1 DEF Counted
<1>5. x \in B /\ ~f[x].free
  BY <1>3, SizedIs
<1>6. V[x] \in Nat /\ x \notin DOMAIN W /\ V[x] = f[x].next - x - BH /\ f[x].next = x + BH + V[x]
  BY <1>3, <1>5, UsedSize
<1>7. BlockLen(s, x) = V[x]
  BY <1>1, <1>2, <1>5, LenIs
<1>8. PICK z : z = f[x].next
  OBVIOUS
<1>9. /\ z \in B /\ z \in Nat /\ ~f[z].free /\ x \in Nat /\ x \in Off /\ z \in Off
      /\ \A y \in B \cup {last} : y \in Nat /\ (x < y => z <= y)
  <2>1. z \in B /\ ~f[z].free
    BY <1>2, <1>8 DEF UsedAfter
  <2>2. QED  BY <1>3, <1>5, <1>8, <2>1, RowNext, RowNat
<1>10. PICK n \in Nat : n = V[x]
  BY <1>6
<1>11. z = x + BH + n /\ Splits(k, n)
  BY <1>6, <1>8, <1>10
<1>12. PICK m \in Off, r \in Nat :
         /\ m = x + BH + k /\ r = n - k - BH
         /\ x + BH <= m /\ m + BH <= z /\ x < m /\ m < z /\ r = z - m - BH /\ k = m - x - BH
  BY <1>9, <1>11, SplitAt
<1>13. Gap(f, B, x, m, z)
  BY <1>5, <1>8, <1>9, <1>12 DEF Gap
<1>14. PICK u : u = InsertFree(s, x, m)
  OBVIOUS
<1>15. /\ Wrote(s, u, {x, m, z}) /\ Row(u.file, B \cup {m}, last) /\ Kept(f, u.file, B, x)
       /\ IsHdr(u.file[x], FALSE, f[x].prev, m) /\ IsHdr(u.file[m], TRUE, x, z) /\ m \notin B
  BY <1>2, <1>3, <1>4, <1>13, <1>14, InsertIs
<1>16. PICK R : R = Without(V, x)
  OBVIOUS
<1>17. PICK G : G = With(W, m, r)
  OBVIOUS
<1>18. PICK U : U = With(R, x, k)
  OBVIOUS
<1>19. Lengths(W) /\ Lengths(V)
  BY <1>3 DEF Sized
<1>20. /\ Lengths(R) /\ \A y : y \in DOMAIN R <=> y \in DOMAIN V /\ y # x
       /\ \A y \in DOMAIN V : y # x => R[y] = V[y]
  BY <1>16, <1>19, WithoutIs
<1>21. m \notin DOMAIN W /\ x \notin DOMAIN R
  BY <1>3, <1>15, <1>20, SizedIs
<1>22. /\ Lengths(G) /\ \A y : y \in DOMAIN G <=> y \in DOMAIN W \/ y = m
       /\ G[m] = r /\ (\A y \in DOMAIN W : G[y] = W[y]) /\ Posts(W) \subseteq Posts(G)
       /\ \A y : y \in Listed(W) => y \in Listed(G)
  BY <1>17, <1>19, <1>21, WithIs
<1>23. /\ Lengths(U) /\ \A y : y \in DOMAIN U <=> y \in DOMAIN R \/ y = x
       /\ U[x] = k /\ \A y \in DOMAIN R : U[y] = R[y]
  BY <1>18, <1>20, <1>21, WithIs
<1>24. Sized(u.file, B \cup {m}, G, U)
  <2>1. u.file[x].next = m /\ ~u.file[x].free /\ u.file[m].next = z /\ u.file[m].free
    BY <1>15 DEF IsHdr
  <2>2. \A y \in B : y # x => u.file[y].free = f[y].free /\ u.file[y].next = f[y].next
    BY <1>15 DEF Kept
  <2>3. ASSUME NEW y \in DOMAIN G
        PROVE  y \in B \cup {m} /\ u.file[y].free /\ G[y] = u.file[y].next - y - BH
    <3>1. CASE y = m
      BY <1>12, <1>22, <2>1, <3>1
    <3>2. CASE y # m
      <4>1. y \in DOMAIN W /\ y # x /\ G[y] = W[y]
        BY <1>6, <1>22, <3>2
      <4>2. y \in B /\ f[y].free /\ W[y] = f[y].next - y - BH
        BY <1>3, <4>1 DEF Sized
      <4>3. QED  BY <2>2, <4>1, <4>2
    <3>3. QED  BY <3>1, <3>2
  <2>4. ASSUME NEW y \in DOMAIN U
        PROVE  y \in B \cup {m} /\ ~u.file[y].free /\ U[y] = u.file[y].next - y - BH
    <3>1. CASE y = x
      BY <1>5, <1>12, <1>23, <2>1, <3>1
    <3>2. CASE y # x
      <4>1. y \in DOMAIN V /\ U[y] = V[y]
        BY <1>20, <1>23, <3>2
      <4>2. y \in B /\ ~f[y].free /\ V[y] = f[y].next - y - BH
        BY <1>3, <4>1 DEF Sized
      <4>3. QED  BY <2>2, <3>2, <4>1, <4>2
    <3>3. QED  BY <3>1, <3>2
  <2>5. ASSUME NEW y \in B \cup {m} PROVE IF u.file[y].free THEN y \in DOMAIN G ELSE y \in DOMAIN U
    <3>1. CASE y = m
      BY <1>22, <2>1, <3>1
    <3>2. CASE y = x
      BY <1>23, <2>1, <3>2
    <3>3. CASE y \in B /\ y # x
      <4>1. IF f[y].free THEN y \in DOMAIN W ELSE y \in DOMAIN V
        BY <1>3, <3>3 DEF Sized
      <4>2. u.file[y].free = f[y].free
        BY <2>2, <3>3
      <4>3. QED  BY <1>20, <1>22, <1>23, <3>3, <4>1, <4>2
    <3>4. QED  BY <3>1, <3>2, <3>3
  <2>6. QED  BY <1>22, <1>23, <2>3, <2>4, <2>5 DEF Sized
<1>25. InRow(u, B \cup {m}, last, G, U)
  BY <1>15, <1>24 DEF InRow
<1>26. u \in State /\ u.hdr = s.hdr /\ u.bands = s.bands /\ Headers(s, u, {x, m, z})
  BY <1>15 DEF Wrote
<1>27. Apart(W) /\ Apart(G)
  BY <1>3, <1>15, <1>24, RowApart
<1>28. OffLists(G, {x, m, z}) /\ OffRecords(U, {x, m, z}) /\ OffPosts(U, G)
  BY <1>5, <1>9, <1>25, RowOff
<1>29. Pooled(u, W)
  <2>1. SameFree(s, u)
    BY <1>26 DEF SameFree
  <2>2. OffLists(W, {x, m, z})
    BY <1>22, <1>28 DEF OffLists
  <2>3. QED  BY <1>4, <1>26, <1>27, <2>1, <2>2, PooledUnder
<1>30. PICK w : w = FreeAdd(u, m, r)
  OBVIOUS
<1>31. w \in State /\ Pooled(w, G) /\ SameUsed(u, w) /\ Same(u, w, Posts(G))
  <2>1. Apart(With(W, m, r))
    BY <1>17, <1>27
  <2>2. /\ w \in State /\ Pooled(w, With(W, m, r)) /\ SameUsed(u, w)
        /\ Same(u, w, Posts(With(W, m, r)))
    BY <1>21, <1>26, <1>29, <1>30, <2>1, FreeAddIs
  <2>3. QED  BY <1>17, <2>2
<1>32. SameUsed(s, w)
  BY <1>26, <1>31 DEF SameUsed
<1>33. Counted(w, G, V) /\ w.hdr.last_off = last
  BY <1>1, <1>31, <1>32, CountedIn
<1>34. PICK d \in Int : d = k - V[x]
  BY <1>6
<1>35. t = CountUsed(w, 0, d)
  BY <1>7, <1>10, <1>12, <1>14, <1>30, <1>34 DEF SplitUsed
<1>36. Counted(t, G, U) /\ t.file = w.file /\ t.hdr.last_off = last
  BY <1>16, <1>18, <1>33, <1>34, <1>35, RecordChange
<1>37. Same(u, t, Posts(G))
  BY <1>31, <1>36 DEF Same
<1>38. Stands(t, B \cup {m}, last, G, U)
  BY <1>25, <1>36, <1>37, Standing
<1>39. Held(s, u, U)
  BY <1>26, <1>28, HeldUnder
<1>40. Held(s, t, U)
  BY <1>28, <1>37, <1>39, HeldLists
<1>41. QED  BY <1>16, <1>17, <1>18, <1>38, <1>40

-----------------------------------------------------------------------------
(* Blocks that are joined.                                                 *)

\* R has the lengths of W but those of the blocks from a to z.
Cleared(R, W, a, z) ==
  /\ Lengths(R)
  /\ \A y \in DOMAIN R : y \in DOMAIN W /\ (y < a \/ z <= y) /\ R[y] = W[y]
  /\ \A y \in DOMAIN W : y < a \/ z <= y => y \in DOMAIN R

\* The headers of a and of z say that a ends at z.
LEMMA HdrsJoin ==
  ASSUME NEW s \in State, NEW B, NEW last, Row(s.file, B, last), NEW a \in B, NEW z \in B, a < z,
         ~s.file[z].free, NEW C, Joined(B, C, a, z),
         NEW free, free => a = 0 \/ ~s.file[s.file[a].prev].free,
         NEW u, Wrote(s, u, {a, z}), IsHdr(u.file[a], free, s.file[a].prev, z),
         IsHdr(u.file[z], FALSE, a, s.file[z].next)
  PROVE  Row(u.file, C, last) /\ Kept(s.file, u.file, C, a)
<1>1. PICK f : f = s.file
  OBVIOUS
<1>2. Row(f, B, last)
  BY <1>1
<1>3. \A y \in B \cup {last} : y \in Nat /\ y \in Off
  BY <1>2, RowNat
<1>4. ASSUME NEW y \in B \cup {last}, y # a, y # z PROVE u.file[y] = f[y]
  <2>1. y \notin HdrAt(a) /\ y \notin HdrAt(z)
    BY <1>2, <1>4, HdrApart
  <2>2. QED  BY <1>1, <1>3, <2>1 DEF Wrote, Headers
<1>5. Outside(f, u.file, B, last, a, z)
  BY <1>3, <1>4 DEF Outside
<1>6. Row(u.file, C, last)
  BY <1>1, <1>2, <1>5, RowJoin
<1>7. u.file[z].free = f[z].free /\ u.file[z].next = f[z].next
  BY <1>1, <1>2, RowNat DEF IsHdr, BlockHdr
<1>8. \A y \in C : y \in B
  BY DEF Joined
<1>9. Kept(f, u.file, C, a)
  BY <1>4, <1>7, <1>8 DEF Kept
<1>10. QED  BY <1>1, <1>6, <1>9

\* The joined block is a free one.
LEMMA JoinedFree ==
  ASSUME NEW f, NEW B, NEW last, Row(f, B, last), NEW W, NEW V, Sized(f, B, W, V),
         NEW a \in B, NEW z \in B, a < z, NEW C, Joined(B, C, a, z), NEW g, Kept(f, g, C, a),
         g[a].free, g[a].next = z, NEW R, Cleared(R, W, a, z), NEW U, Cleared(U, V, a, z),
         NEW k \in Nat, k = z - a - BH
  PROVE  a \notin DOMAIN R /\ Sized(g, C, With(R, a, k), U)
<1>1. \A y \in B : y \in Nat
  BY RowNat
<1>2. a \in C /\ \A y \in C : y \in B /\ (y = a \/ y < a \/ z <= y)
  BY <1>1 DEF Joined
<1>3. a \notin DOMAIN R /\ a \notin DOMAIN U
  BY <1>1 DEF Cleared
<1>4. Lengths(R) /\ Lengths(U)
  BY DEF Cleared
<1>5. PICK G : G = With(R, a, k)
  OBVIOUS
<1>6. /\ Lengths(G) /\ \A y : y \in DOMAIN G <=> y \in DOMAIN R \/ y = a
      /\ G[a] = k /\ \A y \in DOMAIN R : G[y] = R[y]
  BY <1>3, <1>4, <1>5, WithIs
<1>7. ASSUME NEW y \in DOMAIN R PROVE y \in C /\ g[y].free /\ R[y] = g[y].next - y - BH
  <2>1. y \in DOMAIN W /\ (y < a \/ z <= y) /\ R[y] = W[y]
    BY DEF Cleared
  <2>2. y \in B /\ f[y].free /\ W[y] = f[y].next - y - BH
    BY <2>1 DEF Sized
  <2>3. y \in C /\ y # a
    BY <1>1, <1>3, <2>1, <2>2 DEF Joined
  <2>4. QED  BY <2>1, <2>2, <2>3 DEF Kept
<1>8. ASSUME NEW y \in DOMAIN U PROVE y \in C /\ ~g[y].free /\ U[y] = g[y].next - y - BH
  <2>1. y \in DOMAIN V /\ (y < a \/ z <= y) /\ U[y] = V[y]
    BY DEF Cleared
  <2>2. y \in B /\ ~f[y].free /\ V[y] = f[y].next - y - BH
    BY <2>1 DEF Sized
  <2>3. y \in C /\ y # a
    BY <1>1, <1>3, <2>1, <2>2 DEF Joined
  <2>4. QED  BY <2>1, <2>2, <2>3 DEF Kept
<1>9. ASSUME NEW y \in C PROVE IF g[y].free THEN y \in DOMAIN G ELSE y \in DOMAIN U
  <2>1. CASE y = a
    BY <1>6, <2>1
  <2>2. CASE y # a
    <3>1. y \in B /\ (y < a \/ z <= y) /\ g[y].free = f[y].free
      BY <1>2, <2>2 DEF Kept
    <3>2. IF f[y].free THEN y \in DOMAIN W ELSE y \in DOMAIN V
      BY <3>1 DEF Sized
    <3>3. IF f[y].free THEN y \in DOMAIN R ELSE y \in DOMAIN U
      BY <3>1, <3>2 DEF Cleared
    <3>4. QED  BY <1>6, <3>1, <3>3
  <2>3. QED  BY <2>1, <2>2
<1>10. \A y \in DOMAIN G : y \in C /\ g[y].free /\ G[y] = g[y].next - y - BH
  <2>1. a \in C /\ g[a].free /\ G[a] = g[a].next - a - BH
    BY <1>2, <1>6
  <2>2. QED  BY <1>6, <1>7, <2>1
<1>11. Sized(g, C, G, U)
  BY <1>4, <1>6, <1>8, <1>9, <1>10 DEF Sized
<1>12. QED  BY <1>3, <1>5, <1>11

\* What t and s hold at the headers of B and in the records of U is the same.
Kin(s, t, B, U) == (\A y \in B : t.file[y] = s.file[y]) /\ Held(s, t, U)

\* So it is when the lists change.
LEMMA KinLists ==
  ASSUME NEW s, NEW B, NEW last, NEW W, NEW V, InRow(s, B, last, W, V), NEW u, NEW w,
         NEW G, Posts(G) \subseteq Posts(W), Same(u, w, Posts(G)),
         NEW C, C \subseteq B \cup {last}, NEW U, OffPosts(U, W)
  PROVE  Kin(u, w, C, U)
<1>1. Row(s.file, B, last) /\ Sized(s.file, B, W, V)
  BY DEF InRow
<1>2. ASSUME NEW y \in C PROVE w.file[y] = u.file[y]
  <2>1. y \in Off /\ y \notin Posts(W)
    BY <1>1, PostsOff, RowNat
  <2>2. QED  BY <2>1 DEF Same
<1>3. Held(u, w, U)
  BY DEF OffPosts, Held, Same
<1>4. QED  BY <1>2, <1>3 DEF Kin

\* And after one change more.
LEMMA KinMore ==
  ASSUME NEW s, NEW t, NEW u, NEW B, NEW U, Kin(s, t, B, U), Kin(t, u, B, U)
  PROVE  Kin(s, u, B, U)
  BY DEF Kin, Held

\* A storage with the same headers is in order as well.
LEMMA KinStands ==
  ASSUME NEW s, NEW B, NEW last, NEW W, NEW V, InRow(s, B, last, W, V),
         NEW t, Kin(s, t, B \cup {last}, V), Counted(t, W, V), t.hdr.last_off = last
  PROVE  Stands(t, B, last, W, V)
<1>1. Row(s.file, B, last) /\ Sized(s.file, B, W, V)
  BY DEF InRow
<1>2. \A y \in B \cup {last} : t.file[y] = s.file[y]
  BY DEF Kin
<1>3. Row(t.file, B, last)
  BY <1>1, <1>2, RowSame
<1>4. Sized(t.file, B, W, V)
  BY <1>1, <1>2 DEF Sized
<1>5. QED  BY <1>3, <1>4 DEF Stands, InRow

\* The blocks of W from a to z are those of S.
Only(W, a, z, S) == \A y \in DOMAIN W : (y < a \/ z <= y) <=> y \notin S

\* What is left without them.
LEMMA ClearedIs ==
  ASSUME NEW W, Lengths(W), NEW a, NEW z
  PROVE  /\ Only(W, a, z, {}) => Cleared(W, W, a, z)
         /\ \A x : Only(W, a, z, {x}) => Cleared(Without(W, x), W, a, z)
         /\ \A x, y : Only(W, a, z, {x, y}) => Cleared(Without(Without(W, x), y), W, a, z)
<1>1. Only(W, a, z, {}) => Cleared(W, W, a, z)
  BY DEF Only, Cleared
<1>2. ASSUME NEW x, Only(W, a, z, {x}) PROVE Cleared(Without(W, x), W, a, z)
  <2>1. PICK R : R = Without(W, x)
    OBVIOUS
  <2>2. /\ Lengths(R) /\ \A v : v \in DOMAIN R <=> v \in DOMAIN W /\ v # x
        /\ \A v \in DOMAIN W : v # x => R[v] = W[v]
    BY <2>1, WithoutIs
  <2>3. QED  BY <1>2, <2>1, <2>2 DEF Only, Cleared
<1>3. ASSUME NEW x, NEW y, Only(W, a, z, {x, y})
      PROVE  Cleared(Without(Without(W, x), y), W, a, z)
  <2>1. PICK R : R = Without(W, x)
    OBVIOUS
  <2>2. /\ Lengths(R) /\ \A v : v \in DOMAIN R <=> v \in DOMAIN W /\ v # x
        /\ \A v \in DOMAIN W : v # x => R[v] = W[v]
    BY <2>1, WithoutIs
  <2>3. PICK Q : Q = Without(R, y)
    OBVIOUS
  <2>4. /\ Lengths(Q) /\ \A v : v \in DOMAIN Q <=> v \in DOMAIN R /\ v # y
        /\ \A v \in DOMAIN R : v # y => Q[v] = R[v]
    BY <2>2, <2>3, WithoutIs
  <2>5. Cleared(Q, W, a, z)
    BY <1>3, <2>2, <2>4 DEF Only, Cleared
  <2>6. QED  BY <2>1, <2>3, <2>5
<1>4. QED  BY <1>1, <1>2, <1>3

\* Record x becomes part of a free block from a to z: the headers.
FreedHdrs(s, B, last, W, V, x, a, z, u, C, R, k) ==
  /\ Stands(s, B, last, W, V) /\ x \in DOMAIN V
  /\ a \in B /\ z \in B /\ a < z /\ ~s.file[z].free /\ (a = 0 \/ ~s.file[s.file[a].prev].free)
  /\ Joined(B, C, a, z) /\ Cleared(R, W, a, z) /\ Cleared(Without(V, x), V, a, z)
  /\ Wrote(s, u, {a, z}) /\ IsHdr(u.file[a], TRUE, s.file[a].prev, z)
  /\ IsHdr(u.file[z], FALSE, a, s.file[z].next)
  /\ k \in Nat /\ k = z - a - BH

\* What there is then to be put in the lists.
LEMMA FreedIs ==
  ASSUME NEW s, NEW B, NEW last, NEW W, NEW V, NEW x, NEW a, NEW z, NEW u, NEW C, NEW R, NEW k,
         FreedHdrs(s, B, last, W, V, x, a, z, u, C, R, k)
  PROVE  /\ InRow(u, C, last, With(R, a, k), Without(V, x)) /\ u \in State /\ Pooled(u, W)
         /\ a \in Off /\ k \in Nat /\ a \notin DOMAIN R /\ Apart(W) /\ Apart(With(R, a, k))
         /\ SameUsed(s, u) /\ u.hdr.last_off = last
         /\ OffPosts(Without(V, x), W) /\ Held(s, u, Without(V, x)) /\ C \subseteq B
<1>1. s.hdr.last_off = last /\ InRow(s, B, last, W, V) /\ Counted(s, W, V)
  BY DEF FreedHdrs, Stands
<1>2. PICK f : f = s.file
  OBVIOUS
<1>3. Row(f, B, last) /\ Sized(f, B, W, V) /\ s \in State /\ Pooled(s, W)
  BY <1>1, <1>2 DEF InRow, Counted
<1>4. PICK U : U = Without(V, x)
  OBVIOUS
<1>5. /\ a \in B /\ z \in B /\ a < z /\ ~f[z].free /\ (a = 0 \/ ~f[f[a].prev].free)
      /\ Joined(B, C, a, z) /\ Cleared(R, W, a, z) /\ Cleared(U, V, a, z) /\ k \in Nat /\ k = z - a - BH
  BY <1>2, <1>4 DEF FreedHdrs
<1>6. /\ Wrote(s, u, {a, z}) /\ IsHdr(u.file[a], TRUE, f[a].prev, z)
      /\ IsHdr(u.file[z], FALSE, a, f[z].next)
  BY <1>2 DEF FreedHdrs
<1>7. Row(u.file, C, last) /\ Kept(f, u.file, C, a)
  BY <1>2, <1>3, <1>5, <1>6, HdrsJoin
<1>8. u.file[a].free /\ u.file[a].next = z
  BY <1>6 DEF IsHdr
<1>9. a \notin DOMAIN R /\ Sized(u.file, C, With(R, a, k), U)
  BY <1>3, <1>5, <1>7, <1>8, JoinedFree
<1>10. InRow(u, C, last, With(R, a, k), U)
  BY <1>7, <1>9 DEF InRow
<1>11. Apart(W) /\ Apart(With(R, a, k))
  BY <1>3, <1>7, <1>9, RowApart
<1>12. OffLists(W, {a, z}) /\ OffRecords(V, {a, z}) /\ OffPosts(V, W)
  BY <1>1, <1>5, RowOff
<1>13. u \in State /\ SameUsed(s, u) /\ SameFree(s, u) /\ Headers(s, u, {a, z}) /\ u.hdr.last_off = last
  BY <1>1, <1>6 DEF Wrote, SameUsed, SameFree
<1>14. Pooled(u, W)
  BY <1>3, <1>11, <1>12, <1>13, PooledUnder
<1>15. OffRecords(U, {a, z}) /\ OffPosts(U, W)
  <2>1. Lengths(V)
    BY <1>3 DEF Sized
  <2>2. \A y \in DOMAIN U : y \in DOMAIN V /\ U[y] = V[y]
    BY <1>4, <2>1, WithoutIs
  <2>3. QED  BY <1>12, <2>2 DEF OffRecords, OffPosts
<1>16. Held(s, u, U)
  BY <1>13, <1>15, HeldUnder
<1>17. C \subseteq B /\ a \in Off
  <2>1. C \subseteq B
    BY <1>5 DEF Joined
  <2>2. QED  BY <1>3, <1>5, <2>1, RowNat
<1>18. QED  BY <1>4, <1>5, <1>9, <1>10, <1>11, <1>13, <1>14, <1>15, <1>16, <1>17

\* And when it is.
LEMMA FreedEnds ==
  ASSUME NEW s, NEW B, NEW last, NEW W, NEW V, Stands(s, B, last, W, V), NEW x \in DOMAIN V,
         NEW u, NEW C, NEW G, InRow(u, C, last, G, Without(V, x)), SameUsed(s, u),
         Held(s, u, Without(V, x)),
         NEW w \in State, Pooled(w, G), SameUsed(u, w), Kin(u, w, C \cup {last}, Without(V, x)),
         NEW t, t = CountUsed(w, -1, -V[x])
  PROVE  Stands(t, C, last, G, Without(V, x)) /\ Held(s, t, Without(V, x))
<1>1. s.hdr.last_off = last /\ Counted(s, W, V)
  BY DEF Stands
<1>2. SameUsed(s, w)
  BY DEF SameUsed
<1>3. Counted(w, G, V) /\ w.hdr.last_off = last
  BY <1>1, <1>2, CountedIn
<1>4. Counted(t, G, Without(V, x)) /\ t.file = w.file /\ t.hdr.last_off = last
  BY <1>3, RecordLess
<1>5. Kin(u, t, C \cup {last}, Without(V, x))
  BY <1>4 DEF Kin, Held
<1>6. Stands(t, C, last, G, Without(V, x))
  BY <1>4, <1>5, KinStands
<1>7. Held(s, t, Without(V, x))
  BY <1>5 DEF Kin, Held
<1>8. QED  BY <1>6, <1>7

\* The new free block is the first in the lists: nothing else was free.
LEMMA FreedAdded ==
  ASSUME NEW s, NEW B, NEW last, NEW W, NEW V, NEW x, NEW a, NEW z, NEW u, NEW C, NEW k,
         FreedHdrs(s, B, last, W, V, x, a, z, u, C, W, k),
         NEW t, t = CountUsed(FreeAdd(u, a, k), -1, -V[x])
  PROVE  Stands(t, C, last, With(W, a, k), Without(V, x)) /\ Held(s, t, Without(V, x))
<1>1. PICK G : G = With(W, a, k)
  OBVIOUS
<1>2. /\ InRow(u, C, last, G, Without(V, x)) /\ u \in State /\ Pooled(u, W)
      /\ a \in Off /\ k \in Nat /\ a \notin DOMAIN W /\ Apart(G) /\ SameUsed(s, u)
      /\ Held(s, u, Without(V, x)) /\ C \subseteq B
  BY <1>1, FreedIs
<1>3. PICK w : w = FreeAdd(u, a, k)
  OBVIOUS
<1>4. w \in State /\ Pooled(w, G) /\ SameUsed(u, w) /\ Same(u, w, Posts(G))
  <2>1. Apart(With(W, a, k))
    BY <1>1, <1>2
  <2>2. /\ w \in State /\ Pooled(w, With(W, a, k)) /\ SameUsed(u, w)
        /\ Same(u, w, Posts(With(W, a, k)))
    BY <1>2, <1>3, <2>1, FreeAddIs
  <2>3. QED  BY <1>1, <2>2
<1>5. Kin(u, w, C \cup {last}, Without(V, x))
  <2>1. OffPosts(Without(V, x), G)
    BY <1>2, RowOff
  <2>2. C \cup {last} \subseteq C \cup {last} /\ Posts(G) \subseteq Posts(G)
    OBVIOUS
  <2>3. QED  BY <1>2, <1>4, <2>1, <2>2, KinLists
<1>6. Stands(s, B, last, W, V) /\ x \in DOMAIN V
  BY DEF FreedHdrs
<1>7. t = CountUsed(w, -1, -V[x])
  BY <1>3
<1>8. Stands(t, C, last, G, Without(V, x)) /\ Held(s, t, Without(V, x))
  BY <1>2, <1>4, <1>5, <1>6, <1>7, FreedEnds
<1>9. QED  BY <1>1, <1>8

\* A free block before it grows.
LEMMA FreedGrown ==
  ASSUME NEW s, NEW B, NEW last, NEW W, NEW V, NEW x, NEW a \in DOMAIN W, NEW z, NEW u, NEW C, NEW k,
         FreedHdrs(s, B, last, W, V, x, a, z, u, C, Without(W, a), k),
         NEW t, t = CountUsed(GrowFree(u, a, W[a], k), -1, -V[x])
  PROVE  /\ Stands(t, C, last, With(Without(W, a), a, k), Without(V, x))
         /\ Held(s, t, Without(V, x))
<1>1. PICK R : R = Without(W, a)
  OBVIOUS
<1>2. PICK G : G = With(R, a, k)
  OBVIOUS
<1>3. /\ InRow(u, C, last, G, Without(V, x)) /\ u \in State /\ Pooled(u, W)
      /\ a \in Off /\ k \in Nat /\ Apart(W) /\ Apart(G) /\ SameUsed(s, u)
      /\ Held(s, u, Without(V, x)) /\ C \subseteq B
  BY <1>1, <1>2, FreedIs
<1>4. PICK w : w = GrowFree(u, a, W[a], k)
  OBVIOUS
<1>5. w \in State /\ Pooled(w, G) /\ SameUsed(u, w) /\ Same(u, w, Posts(G))
  <2>1. Apart(With(Without(W, a), a, k))
    BY <1>1, <1>2, <1>3
  <2>2. /\ w \in State /\ Pooled(w, With(Without(W, a), a, k)) /\ SameUsed(u, w)
        /\ Same(u, w, Posts(With(Without(W, a), a, k)))
    BY <1>3, <1>4, <2>1, GrowFreeIs
  <2>3. QED  BY <1>1, <1>2, <2>2
<1>6. Kin(u, w, C \cup {last}, Without(V, x))
  <2>1. OffPosts(Without(V, x), G)
    BY <1>3, RowOff
  <2>2. C \cup {last} \subseteq C \cup {last} /\ Posts(G) \subseteq Posts(G)
    OBVIOUS
  <2>3. QED  BY <1>3, <1>5, <2>1, <2>2, KinLists
<1>7. Stands(s, B, last, W, V) /\ x \in DOMAIN V
  BY DEF FreedHdrs
<1>8. t = CountUsed(w, -1, -V[x])
  BY <1>4
<1>9. Stands(t, C, last, G, Without(V, x)) /\ Held(s, t, Without(V, x))
  BY <1>3, <1>5, <1>6, <1>7, <1>8, FreedEnds
<1>10. QED  BY <1>1, <1>2, <1>9

\* A free block after it leaves its list.
LEMMA FreedLess ==
  ASSUME NEW s, NEW B, NEW last, NEW W, NEW V, InRow(s, B, last, W, V), NEW n \in DOMAIN W,
         NEW u \in State, Pooled(u, W), Apart(W), NEW C, C \subseteq B, NEW U, OffPosts(U, W),
         NEW w, w = FreeRemove(u, n, W[n])
  PROVE  /\ w \in State /\ Pooled(w, Without(W, n)) /\ SameUsed(u, w)
         /\ Kin(u, w, C \cup {last}, U)
<1>1. /\ w \in State /\ Pooled(w, Without(W, n)) /\ SameUsed(u, w)
      /\ Same(u, w, Posts(Without(W, n)))
  BY FreeRemoveRead
<1>2. Posts(Without(W, n)) \subseteq Posts(W) /\ C \cup {last} \subseteq B \cup {last}
  BY ApartWithout
<1>3. Kin(u, w, C \cup {last}, U)
  BY <1>1, <1>2, KinLists
<1>4. QED  BY <1>1, <1>3

\* The record and the free block after it become one.
LEMMA FreedUnited ==
  ASSUME NEW s, NEW B, NEW last, NEW W, NEW V, NEW x, NEW n \in DOMAIN W,
         NEW a, NEW z, NEW u, NEW C, NEW k,
         FreedHdrs(s, B, last, W, V, x, a, z, u, C, Without(W, n), k),
         NEW t, t = CountUsed(FreeAdd(FreeRemove(u, n, W[n]), a, k), -1, -V[x])
  PROVE  /\ Stands(t, C, last, With(Without(W, n), a, k), Without(V, x))
         /\ Held(s, t, Without(V, x))
<1>1. PICK R : R = Without(W, n)
  OBVIOUS
<1>2. PICK G : G = With(R, a, k)
  OBVIOUS
<1>3. /\ InRow(u, C, last, G, Without(V, x)) /\ u \in State /\ Pooled(u, W)
      /\ a \in Off /\ k \in Nat /\ a \notin DOMAIN R /\ Apart(W) /\ Apart(G) /\ SameUsed(s, u)
      /\ OffPosts(Without(V, x), W) /\ Held(s, u, Without(V, x)) /\ C \subseteq B
  BY <1>1, <1>2, FreedIs
<1>4. Stands(s, B, last, W, V) /\ x \in DOMAIN V /\ InRow(s, B, last, W, V)
  BY DEF FreedHdrs, Stands
<1>5. PICK v : v = FreeRemove(u, n, W[n])
  OBVIOUS
<1>6. v \in State /\ Pooled(v, R) /\ SameUsed(u, v) /\ Kin(u, v, C \cup {last}, Without(V, x))
  BY <1>1, <1>3, <1>4, <1>5, FreedLess
<1>7. PICK w : w = FreeAdd(v, a, k)
  OBVIOUS
<1>8. w \in State /\ Pooled(w, G) /\ SameUsed(v, w) /\ Same(v, w, Posts(G))
  <2>1. Apart(With(R, a, k))
    BY <1>2, <1>3
  <2>2. /\ w \in State /\ Pooled(w, With(R, a, k)) /\ SameUsed(v, w)
        /\ Same(v, w, Posts(With(R, a, k)))
    BY <1>3, <1>6, <1>7, <2>1, FreeAddIs
  <2>3. QED  BY <1>2, <2>2
<1>9. Kin(v, w, C \cup {last}, Without(V, x))
  <2>1. OffPosts(Without(V, x), G)
    BY <1>3, RowOff
  <2>2. C \cup {last} \subseteq C \cup {last} /\ Posts(G) \subseteq Posts(G)
    OBVIOUS
  <2>3. QED  BY <1>3, <1>8, <2>1, <2>2, KinLists
<1>10. Kin(u, w, C \cup {last}, Without(V, x)) /\ SameUsed(u, w)
  BY <1>6, <1>8, <1>9, KinMore DEF SameUsed
<1>11. t = CountUsed(w, -1, -V[x])
  BY <1>5, <1>7
<1>12. Stands(t, C, last, G, Without(V, x)) /\ Held(s, t, Without(V, x))
  BY <1>3, <1>4, <1>8, <1>10, <1>11, FreedEnds
<1>13. QED  BY <1>1, <1>2, <1>12

\* The record and the free blocks on both sides become one.
LEMMA FreedAll ==
  ASSUME NEW s, NEW B, NEW last, NEW W, NEW V, NEW x, NEW n \in DOMAIN W,
         NEW a \in DOMAIN W, a # n, NEW z, NEW u, NEW C, NEW k,
         FreedHdrs(s, B, last, W, V, x, a, z, u, C, Without(Without(W, n), a), k),
         NEW t, t = CountUsed(GrowFree(FreeRemove(u, n, W[n]), a, W[a], k), -1, -V[x])
  PROVE  /\ Stands(t, C, last, With(Without(Without(W, n), a), a, k), Without(V, x))
         /\ Held(s, t, Without(V, x))
<1>1. PICK R : R = Without(W, n)
  OBVIOUS
<1>2. PICK G : G = With(Without(R, a), a, k)
  OBVIOUS
<1>3. /\ InRow(u, C, last, G, Without(V, x)) /\ u \in State /\ Pooled(u, W)
      /\ a \in Off /\ k \in Nat /\ Apart(W) /\ Apart(G) /\ SameUsed(s, u)
      /\ OffPosts(Without(V, x), W) /\ Held(s, u, Without(V, x)) /\ C \subseteq B
  BY <1>1, <1>2, FreedIs
<1>4. Stands(s, B, last, W, V) /\ x \in DOMAIN V /\ InRow(s, B, last, W, V)
  BY DEF FreedHdrs, Stands
<1>5. PICK v : v = FreeRemove(u, n, W[n])
  OBVIOUS
<1>6. v \in State /\ Pooled(v, R) /\ SameUsed(u, v) /\ Kin(u, v, C \cup {last}, Without(V, x))
  BY <1>1, <1>3, <1>4, <1>5, FreedLess
<1>7. a \in DOMAIN R /\ R[a] = W[a]
  BY <1>1 DEF Without
<1>8. PICK w : w = GrowFree(v, a, W[a], k)
  OBVIOUS
<1>9. w \in State /\ Pooled(w, G) /\ SameUsed(v, w) /\ Same(v, w, Posts(G))
  <2>1. Apart(With(Without(R, a), a, k)) /\ Apart(R)
    BY <1>1, <1>2, <1>3, ApartWithout
  <2>2. w = GrowFree(v, a, R[a], k)
    BY <1>7, <1>8
  <2>3. /\ w \in State /\ Pooled(w, With(Without(R, a), a, k)) /\ SameUsed(v, w)
        /\ Same(v, w, Posts(With(Without(R, a), a, k)))
    BY <1>3, <1>6, <1>7, <2>1, <2>2, GrowFreeIs
  <2>4. QED  BY <1>2, <2>3
<1>10. Kin(v, w, C \cup {last}, Without(V, x))
  <2>1. OffPosts(Without(V, x), G)
    BY <1>3, RowOff
  <2>2. C \cup {last} \subseteq C \cup {last} /\ Posts(G) \subseteq Posts(G)
    OBVIOUS
  <2>3. QED  BY <1>3, <1>9, <2>1, <2>2, KinLists
<1>11. Kin(u, w, C \cup {last}, Without(V, x)) /\ SameUsed(u, w)
  BY <1>6, <1>9, <1>10, KinMore DEF SameUsed
<1>12. t = CountUsed(w, -1, -V[x])
  BY <1>5, <1>8
<1>13. Stands(t, C, last, G, Without(V, x)) /\ Held(s, t, Without(V, x))
  BY <1>3, <1>4, <1>9, <1>11, <1>12, FreedEnds
<1>14. QED  BY <1>1, <1>2, <1>13

\* A free block before x.
LEMMA SideBefore ==
  ASSUME NEW f, NEW B, NEW last, Row(f, B, last), NEW x \in B, x # 0, f[f[x].prev].free,
         NEW p, p = f[x].prev
  PROVE  /\ p \in B /\ p \in Nat /\ p \in Off /\ p < x /\ p + BH <= x /\ f[p].free /\ f[p].next = x
         /\ p # RECLOCATOR_MAX /\ f[p] \in BlockHdr
         /\ \A y \in B \cup {last} : y \in Nat /\ (y <= p \/ x <= y)
         /\ (p = 0 \/ ~f[f[p].prev].free)
<1>1. p \in B /\ p \in Nat /\ p < x /\ f[p].next = x /\ p # RECLOCATOR_MAX /\ f[p].free
  BY RowPrev
<1>2. p \in Off /\ f[p] \in BlockHdr /\ x \in Nat
  BY <1>1, RowNat
<1>3. p + BH <= x /\ \A y \in B \cup {last} : p < y => x <= y
  BY <1>1, RowNext
<1>4. \A y \in B \cup {last} : y \in Nat /\ (y <= p \/ x <= y)
  BY <1>1, <1>2, <1>3, RowNat
<1>5. p = 0 \/ ~f[f[p].prev].free
  <2>1. SUFFICES ASSUME p # 0, f[f[p].prev].free PROVE FALSE
    OBVIOUS
  <2>2. PICK q \in B : q = f[p].prev /\ f[q].next = p
    BY <1>1, <2>1, RowPrev
  <2>3. ~f[f[q].next].free
    BY <2>1, <2>2, RowNext
  <2>4. QED  BY <1>1, <2>2, <2>3
<1>6. QED  BY <1>1, <1>2, <1>3, <1>4, <1>5

\* What comes after x.
LEMMA SideAfter ==
  ASSUME NEW f, NEW B, NEW last, Row(f, B, last), NEW x \in B, NEW n, n = f[x].next
  PROVE  /\ n \in B \cup {last} /\ n \in Nat /\ n \in Off /\ x \in Nat /\ x < n /\ x + BH <= n
         /\ f[n] \in BlockHdr /\ f[n].prev = x
         /\ \A y \in B \cup {last} : y \in Nat /\ (y <= x \/ n <= y)
         /\ ~f[n].free => n \in B
         /\ f[n].next = RECLOCATOR_MAX => n = last
         /\ f[n].free /\ f[n].next # RECLOCATOR_MAX =>
              n \in B /\ f[n].next \in B /\ ~f[f[n].next].free
<1>1. /\ n \in B \cup {last} /\ n \in Nat /\ n \in Off /\ x < n /\ x + BH <= n
      /\ f[n] \in BlockHdr /\ f[n].prev = x /\ \A y \in B \cup {last} : x < y => n <= y
  BY RowNext
<1>2. x \in Nat /\ \A y \in B \cup {last} : y \in Nat
  BY RowNat
<1>3. ~f[n].free => n \in B
  BY <1>1, RowNat
<1>4. f[n].next = RECLOCATOR_MAX => n = last
  BY <1>1, RowNext, ValuesAssumption DEF Off
<1>5. f[n].free /\ f[n].next # RECLOCATOR_MAX => n \in B /\ f[n].next \in B /\ ~f[f[n].next].free
  <2>1. f[n].next # RECLOCATOR_MAX => n \in B
    BY <1>1, RowNat
  <2>2. QED  BY <2>1, RowNext
<1>6. QED  BY <1>1, <1>2, <1>3, <1>4, <1>5

\* t is s without record x.
Freed(s, t, V, x) ==
  \E C, l, G : Stands(t, C, l, G, Without(V, x)) /\ Held(s, t, Without(V, x))

\* A free block before, a record after.
LEMMA FreeRecBefore ==
  ASSUME NEW s, NEW B, NEW last, NEW W, NEW V, Stands(s, B, last, W, V), NEW x \in DOMAIN V,
         x # 0, s.file[s.file[x].prev].free, ~s.file[s.file[x].next].free, NEW t, t = FreeRec(s, x)
  PROVE  Freed(s, t, V, x)
<1>1. InRow(s, B, last, W, V) /\ Counted(s, W, V)
  BY DEF Stands
<1>2. PICK f : f = s.file
  OBVIOUS
<1>3. Row(f, B, last) /\ Sized(f, B, W, V) /\ s \in State /\ Lengths(W) /\ Lengths(V)
  BY <1>1, <1>2 DEF InRow, Counted, Sized
<1>4. x \in B /\ ~f[x].free
  BY <1>3, SizedIs
<1>5. PICK p : p = f[x].prev
  OBVIOUS
<1>6. PICK z : z = f[x].next
  OBVIOUS
<1>7. f[p].free /\ ~f[z].free /\ f[f[x].prev].free
  BY <1>2, <1>5, <1>6
<1>8. /\ p \in B /\ p \in Nat /\ p \in Off /\ p < x /\ p + BH <= x /\ p # RECLOCATOR_MAX
      /\ f[p] \in BlockHdr /\ (\A y \in B \cup {last} : y \in Nat /\ (y <= p \/ x <= y))
      /\ (p = 0 \/ ~f[f[p].prev].free)
  BY <1>3, <1>4, <1>5, <1>7, SideBefore
<1>9. /\ z \in B /\ z \in Nat /\ z \in Off /\ x \in Nat /\ x < z /\ f[z] \in BlockHdr
      /\ \A y \in B \cup {last} : y \in Nat /\ (y <= x \/ z <= y)
  BY <1>3, <1>4, <1>6, <1>7, SideAfter
<1>10. BH \in Nat \ {0}
  BY SizesAssumption
<1>11. PICK k \in Nat : k = z - p - BH
  BY <1>8, <1>9, <1>10
<1>12. p < z /\ p + BH <= z
  BY <1>8, <1>9, <1>10
<1>13. PICK C : C = {y \in B : y <= p \/ z <= y}
  OBVIOUS
<1>14. Joined(B, C, p, z)
  BY <1>13 DEF Joined
<1>15. p \in DOMAIN W /\ BlockLen(s, p) = W[p]
  BY <1>1, <1>2, <1>3, <1>7, <1>8, FreeSize, LenIs
<1>16. Cleared(Without(W, p), W, p, z)
  <2>1. ASSUME NEW y \in DOMAIN W PROVE (y < p \/ z <= y) <=> y \notin {p}
    <3>1. y \in B /\ y # x /\ y \in Nat
      BY <1>3, <1>4, <1>9, SizedIs
    <3>2. QED  BY <1>8, <1>9, <1>12, <3>1
  <2>2. Only(W, p, z, {p})
    BY <2>1 DEF Only
  <2>3. QED  BY <1>3, <2>2, ClearedIs
<1>17. Cleared(Without(V, x), V, p, z)
  <2>1. ASSUME NEW y \in DOMAIN V PROVE (y < p \/ z <= y) <=> y \notin {x}
    <3>1. y \in B /\ y # p /\ y \in Nat
      BY <1>3, <1>7, <1>9, SizedIs
    <3>2. QED  BY <1>8, <1>9, <3>1
  <2>2. Only(V, p, z, {x})
    BY <2>1 DEF Only
  <2>3. QED  BY <1>3, <2>2, ClearedIs
<1>18. PICK b \in BlockHdr : b = [f[p] EXCEPT !.free = TRUE]
  BY <1>8 DEF BlockHdr
<1>19. b.free = TRUE /\ b.prev = f[p].prev
  BY <1>8, <1>18 DEF BlockHdr
<1>20. PICK u : u = JoinBhdrs(s, p, b, z, f[z])
  OBVIOUS
<1>21. /\ Wrote(s, u, {p, z}) /\ IsHdr(u.file[p], b.free, b.prev, z)
       /\ IsHdr(u.file[z], f[z].free, p, f[z].next)
  BY <1>3, <1>8, <1>9, <1>12, <1>20, JoinIs
<1>22. IsHdr(u.file[p], TRUE, f[p].prev, z) /\ IsHdr(u.file[z], FALSE, p, f[z].next)
  <2>1. f[z].free = FALSE
    BY <1>7, <1>9 DEF BlockHdr
  <2>2. QED  BY <1>19, <1>21, <2>1
<1>23. FreedHdrs(s, B, last, W, V, x, p, z, u, C, Without(W, p), k)
  BY <1>2, <1>7, <1>8, <1>9, <1>11, <1>12, <1>14, <1>16, <1>17, <1>21, <1>22 DEF FreedHdrs
<1>24. DataLen(f[x], x) = V[x]
  BY <1>1, <1>2, <1>4, LenIs
<1>25. t = CountUsed(GrowFree(u, p, W[p], k), -1, -V[x])
  <2>1. FreeRec(s, x) = CountUsed(GrowFree(JoinBhdrs(s, p, b, z, s.file[z]), p, W[p], z - p - BH),
                                  -1, -DataLen(s.file[x], x))
    <3>1. s.file[x].prev = p /\ s.file[p].free /\ z = s.file[x].next /\ ~s.file[z].free
      BY <1>2, <1>5, <1>6, <1>7
    <3>2. b = [s.file[p] EXCEPT !.free = TRUE]
      BY <1>2, <1>18
    <3>3. PICK d : d = BlockLen(s, p)
      OBVIOUS
    <3>4. FreeRec(s, x) = CountUsed(GrowFree(JoinBhdrs(s, p, b, z, s.file[z]), p, d, z - p - BH),
                                    -1, -DataLen(s.file[x], x))
      BY <1>8, <3>1, <3>2, <3>3 DEF FreeRec
    <3>5. QED  BY <1>15, <3>3, <3>4
  <2>2. QED  BY <1>2, <1>11, <1>20, <1>24, <2>1
<1>26. /\ Stands(t, C, last, With(Without(W, p), p, k), Without(V, x))
       /\ Held(s, t, Without(V, x))
  BY <1>15, <1>23, <1>25, FreedGrown
<1>27. QED  BY <1>26 DEF Freed

\* Free blocks on both sides.
LEMMA FreeRecBoth ==
  ASSUME NEW s, NEW B, NEW last, NEW W, NEW V, Stands(s, B, last, W, V), NEW x \in DOMAIN V,
         x # 0, s.file[s.file[x].prev].free, s.file[s.file[x].next].free,
         s.file[s.file[x].next].next # RECLOCATOR_MAX, NEW t, t = FreeRec(s, x)
  PROVE  Freed(s, t, V, x)
<1>1. InRow(s, B, last, W, V) /\ Counted(s, W, V)
  BY DEF Stands
<1>2. PICK f : f = s.file
  OBVIOUS
<1>3. Row(f, B, last) /\ Sized(f, B, W, V) /\ s \in State /\ Lengths(W) /\ Lengths(V)
  BY <1>1, <1>2 DEF InRow, Counted, Sized
<1>4. x \in B /\ ~f[x].free
  BY <1>3, SizedIs
<1>5. PICK p : p = f[x].prev
  OBVIOUS
<1>6. PICK n : n = f[x].next
  OBVIOUS
<1>7. f[p].free /\ f[n].free /\ f[f[x].prev].free /\ f[n].next # RECLOCATOR_MAX
  BY <1>2, <1>5, <1>6
<1>8. /\ p \in B /\ p \in Nat /\ p \in Off /\ p < x /\ p + BH <= x /\ p # RECLOCATOR_MAX
      /\ f[p] \in BlockHdr /\ (\A y \in B \cup {last} : y \in Nat /\ (y <= p \/ x <= y))
      /\ (p = 0 \/ ~f[f[p].prev].free)
  BY <1>3, <1>4, <1>5, <1>7, SideBefore
<1>9. PICK z : z = f[n].next
  OBVIOUS
<1>10. /\ n \in B /\ n \in Nat /\ x \in Nat /\ x < n /\ z \in B /\ ~f[z].free
       /\ \A y \in B \cup {last} : y \in Nat /\ (y <= x \/ n <= y)
  BY <1>3, <1>4, <1>6, <1>7, <1>9, SideAfter
<1>11. /\ z \in Nat /\ z \in Off /\ n < z /\ f[z] \in BlockHdr
       /\ \A y \in B \cup {last} : y \in Nat /\ (y <= n \/ z <= y)
  BY <1>3, <1>9, <1>10, SideAfter
<1>12. p < z /\ p + BH <= z /\ p # n
  BY <1>8, <1>10, <1>11, SizesAssumption
<1>13. PICK k \in Nat : k = z - p - BH
  BY <1>8, <1>11, <1>12, SizesAssumption
<1>14. PICK C : C = {y \in B : y <= p \/ z <= y}
  OBVIOUS
<1>15. Joined(B, C, p, z)
  BY <1>14 DEF Joined
<1>16. p \in DOMAIN W /\ BlockLen(s, p) = W[p] /\ n \in DOMAIN W /\ BlockLen(s, n) = W[n]
  BY <1>1, <1>2, <1>3, <1>7, <1>8, <1>10, FreeSize, LenIs
<1>17. Cleared(Without(Without(W, n), p), W, p, z)
  <2>1. ASSUME NEW y \in DOMAIN W PROVE (y < p \/ z <= y) <=> y \notin {n, p}
    <3>1. y \in B /\ y # x /\ y \in Nat
      BY <1>3, <1>4, <1>10, SizedIs
    <3>2. QED  BY <1>8, <1>10, <1>11, <1>12, <3>1
  <2>2. Only(W, p, z, {n, p})
    BY <2>1 DEF Only
  <2>3. QED  BY <1>3, <2>2, ClearedIs
<1>18. Cleared(Without(V, x), V, p, z)
  <2>1. ASSUME NEW y \in DOMAIN V PROVE (y < p \/ z <= y) <=> y \notin {x}
    <3>1. y \in B /\ y # p /\ y # n /\ y \in Nat
      BY <1>3, <1>7, <1>10, SizedIs
    <3>2. QED  BY <1>8, <1>10, <1>11, <3>1
  <2>2. Only(V, p, z, {x})
    BY <2>1 DEF Only
  <2>3. QED  BY <1>3, <2>2, ClearedIs
<1>19. PICK b \in BlockHdr : b = [f[p] EXCEPT !.free = TRUE]
  BY <1>8 DEF BlockHdr
<1>20. b.free = TRUE /\ b.prev = f[p].prev
  BY <1>8, <1>19 DEF BlockHdr
<1>21. PICK u : u = JoinBhdrs(s, p, b, z, f[z])
  OBVIOUS
<1>22. /\ Wrote(s, u, {p, z}) /\ IsHdr(u.file[p], b.free, b.prev, z)
       /\ IsHdr(u.file[z], f[z].free, p, f[z].next)
  BY <1>3, <1>8, <1>11, <1>12, <1>21, JoinIs
<1>23. IsHdr(u.file[p], TRUE, f[p].prev, z) /\ IsHdr(u.file[z], FALSE, p, f[z].next)
  <2>1. f[z].free = FALSE
    BY <1>10, <1>11 DEF BlockHdr
  <2>2. QED  BY <1>20, <1>22, <2>1
<1>24. FreedHdrs(s, B, last, W, V, x, p, z, u, C, Without(Without(W, n), p), k)
  BY <1>2, <1>8, <1>10, <1>12, <1>13, <1>15, <1>17, <1>18, <1>22, <1>23 DEF FreedHdrs
<1>25. DataLen(f[x], x) = V[x]
  BY <1>1, <1>2, <1>4, LenIs
<1>26. t = CountUsed(GrowFree(FreeRemove(u, n, W[n]), p, W[p], k), -1, -V[x])
  <2>1. FreeRec(s, x) = CountUsed(GrowFree(FreeRemove(JoinBhdrs(s, p, b, z, s.file[z]), n, W[n]),
                                           p, W[p], z - p - BH),
                                  -1, -DataLen(s.file[x], x))
    <3>1. /\ s.file[x].prev = p /\ s.file[p].free /\ n = s.file[x].next /\ s.file[n].free
          /\ z = s.file[n].next /\ z # RECLOCATOR_MAX
      BY <1>2, <1>5, <1>6, <1>7, <1>9
    <3>2. b = [s.file[p] EXCEPT !.free = TRUE]
      BY <1>2, <1>19
    <3>3. PICK d : d = BlockLen(s, p)
      OBVIOUS
    <3>4. PICK m : m = BlockLen(s, n)
      OBVIOUS
    <3>5. FreeRec(s, x) = CountUsed(GrowFree(FreeRemove(JoinBhdrs(s, p, b, z, s.file[z]),
                                                        n, BlockLen(s, n)),
                                             p, d, z - p - BH),
                                    -1, -DataLen(s.file[x], x))
      BY <1>8, <3>1, <3>2, <3>3 DEF FreeRec
    <3>6. d = W[p] /\ m = W[n]
      BY <1>16, <3>3, <3>4
    <3>7. QED  BY <3>4, <3>5, <3>6
  <2>2. QED  BY <1>2, <1>13, <1>21, <1>25, <2>1
<1>27. /\ Stands(t, C, last, With(Without(Without(W, n), p), p, k), Without(V, x))
       /\ Held(s, t, Without(V, x))
  BY <1>12, <1>16, <1>24, <1>26, FreedAll
<1>28. QED  BY <1>27 DEF Freed

\* A free block after.
LEMMA FreeRecAfter ==
  ASSUME NEW s, NEW B, NEW last, NEW W, NEW V, Stands(s, B, last, W, V), NEW x \in DOMAIN V,
         x = 0 \/ ~s.file[s.file[x].prev].free, s.file[s.file[x].next].free,
         s.file[s.file[x].next].next # RECLOCATOR_MAX, NEW t, t = FreeRec(s, x)
  PROVE  Freed(s, t, V, x)
<1>1. InRow(s, B, last, W, V) /\ Counted(s, W, V)
  BY DEF Stands
<1>2. PICK f : f = s.file
  OBVIOUS
<1>3. Row(f, B, last) /\ Sized(f, B, W, V) /\ s \in State /\ Lengths(W) /\ Lengths(V)
  BY <1>1, <1>2 DEF InRow, Counted, Sized
<1>4. x \in B /\ ~f[x].free
  BY <1>3, SizedIs
<1>5. x \in Off /\ f[x] \in BlockHdr /\ (x = 0 => f[x].prev = RECLOCATOR_MAX)
  BY <1>3, <1>4, RowNat, RowPrev
<1>6. PICK n : n = f[x].next
  OBVIOUS
<1>7. (x = 0 \/ ~f[f[x].prev].free) /\ f[n].free /\ f[n].next # RECLOCATOR_MAX
  BY <1>2, <1>6
<1>8. PICK z : z = f[n].next
  OBVIOUS
<1>9. /\ n \in B /\ n \in Nat /\ x \in Nat /\ x < n /\ x + BH <= n /\ z \in B /\ ~f[z].free
      /\ \A y \in B \cup {last} : y \in Nat /\ (y <= x \/ n <= y)
  BY <1>3, <1>4, <1>6, <1>7, <1>8, SideAfter
<1>10. /\ z \in Nat /\ z \in Off /\ n < z /\ f[z] \in BlockHdr
       /\ \A y \in B \cup {last} : y \in Nat /\ (y <= n \/ z <= y)
  BY <1>3, <1>8, <1>9, SideAfter
<1>11. x < z /\ x + BH <= z
  BY <1>9, <1>10, SizesAssumption
<1>12. PICK k \in Nat : k = z - x - BH
  BY <1>9, <1>10, <1>11, SizesAssumption
<1>13. PICK C : C = {y \in B : y <= x \/ z <= y}
  OBVIOUS
<1>14. Joined(B, C, x, z)
  BY <1>13 DEF Joined
<1>15. n \in DOMAIN W /\ BlockLen(s, n) = W[n]
  BY <1>1, <1>2, <1>3, <1>7, <1>9, FreeSize, LenIs
<1>16. Cleared(Without(W, n), W, x, z)
  <2>1. ASSUME NEW y \in DOMAIN W PROVE (y < x \/ z <= y) <=> y \notin {n}
    <3>1. y \in B /\ y # x /\ y \in Nat
      BY <1>3, <1>4, <1>9, SizedIs
    <3>2. QED  BY <1>9, <1>10, <3>1
  <2>2. Only(W, x, z, {n})
    BY <2>1 DEF Only
  <2>3. QED  BY <1>3, <2>2, ClearedIs
<1>17. Cleared(Without(V, x), V, x, z)
  <2>1. ASSUME NEW y \in DOMAIN V PROVE (y < x \/ z <= y) <=> y \notin {x}
    <3>1. y \in B /\ y # n /\ y \in Nat
      BY <1>3, <1>7, <1>9, SizedIs
    <3>2. QED  BY <1>9, <1>10, <3>1
  <2>2. Only(V, x, z, {x})
    BY <2>1 DEF Only
  <2>3. QED  BY <1>3, <2>2, ClearedIs
<1>18. PICK b \in BlockHdr : b = [f[x] EXCEPT !.free = TRUE]
  BY <1>5 DEF BlockHdr
<1>19. b.free = TRUE /\ b.prev = f[x].prev
  BY <1>5, <1>18 DEF BlockHdr
<1>20. PICK u : u = JoinBhdrs(s, x, b, z, f[z])
  OBVIOUS
<1>21. /\ Wrote(s, u, {x, z}) /\ IsHdr(u.file[x], b.free, b.prev, z)
       /\ IsHdr(u.file[z], f[z].free, x, f[z].next)
  BY <1>3, <1>5, <1>10, <1>11, <1>20, JoinIs
<1>22. IsHdr(u.file[x], TRUE, f[x].prev, z) /\ IsHdr(u.file[z], FALSE, x, f[z].next)
  <2>1. f[z].free = FALSE
    BY <1>9, <1>10 DEF BlockHdr
  <2>2. QED  BY <1>19, <1>21, <2>1
<1>23. FreedHdrs(s, B, last, W, V, x, x, z, u, C, Without(W, n), k)
  BY <1>2, <1>4, <1>7, <1>9, <1>11, <1>12, <1>14, <1>16, <1>17, <1>21, <1>22 DEF FreedHdrs
<1>24. DataLen(f[x], x) = V[x]
  BY <1>1, <1>2, <1>4, LenIs
<1>25. t = CountUsed(FreeAdd(FreeRemove(u, n, W[n]), x, k), -1, -V[x])
  <2>1. FreeRec(s, x) = CountUsed(FreeAdd(FreeRemove(JoinBhdrs(s, x, b, z, s.file[z]), n, W[n]),
                                          x, z - x - BH),
                                  -1, -DataLen(s.file[x], x))
    <3>1. /\ s.file[x].prev = RECLOCATOR_MAX \/ ~s.file[s.file[x].prev].free
          /\ n = s.file[x].next /\ s.file[n].free /\ z = s.file[n].next /\ z # RECLOCATOR_MAX
      BY <1>2, <1>5, <1>6, <1>7, <1>8
    <3>2. b = [s.file[x] EXCEPT !.free = TRUE]
      BY <1>2, <1>18
    <3>3. FreeRec(s, x) = CountUsed(FreeAdd(FreeRemove(JoinBhdrs(s, x, b, z, s.file[z]),
                                                       n, BlockLen(s, n)),
                                            x, z - x - BH),
                                    -1, -DataLen(s.file[x], x))
      BY <3>1, <3>2, Zenon DEF FreeRec
    <3>4. QED  BY <1>15, <3>3
  <2>2. QED  BY <1>2, <1>12, <1>20, <1>24, <2>1
<1>26. /\ Stands(t, C, last, With(Without(W, n), x, k), Without(V, x))
       /\ Held(s, t, Without(V, x))
  BY <1>15, <1>23, <1>25, FreedUnited
<1>27. QED  BY <1>26 DEF Freed

\* Records on both sides.
LEMMA FreeRecPlain ==
  ASSUME NEW s, NEW B, NEW last, NEW W, NEW V, Stands(s, B, last, W, V), NEW x \in DOMAIN V,
         x = 0 \/ ~s.file[s.file[x].prev].free, ~s.file[s.file[x].next].free,
         NEW t, t = FreeRec(s, x)
  PROVE  Freed(s, t, V, x)
<1>1. InRow(s, B, last, W, V) /\ Counted(s, W, V)
  BY DEF Stands
<1>2. PICK f : f = s.file
  OBVIOUS
<1>3. Row(f, B, last) /\ Sized(f, B, W, V) /\ s \in State /\ Lengths(W) /\ Lengths(V)
  BY <1>1, <1>2 DEF InRow, Counted, Sized
<1>4. x \in B /\ ~f[x].free
  BY <1>3, SizedIs
<1>5. x \in Off /\ f[x] \in BlockHdr /\ (x = 0 => f[x].prev = RECLOCATOR_MAX)
  BY <1>3, <1>4, RowNat, RowPrev
<1>6. PICK z : z = f[x].next
  OBVIOUS
<1>7. (x = 0 \/ ~f[f[x].prev].free) /\ ~f[z].free
  BY <1>2, <1>6
<1>8. /\ z \in B /\ z \in Nat /\ z \in Off /\ x \in Nat /\ x < z /\ x + BH <= z /\ f[z] \in BlockHdr
      /\ f[z].prev = x /\ \A y \in B \cup {last} : y \in Nat /\ (y <= x \/ z <= y)
  BY <1>3, <1>4, <1>6, <1>7, SideAfter
<1>9. PICK k \in Nat : k = z - x - BH
  BY <1>8, SizesAssumption
<1>10. PICK C : C = {y \in B : y <= x \/ z <= y}
  OBVIOUS
<1>11. Joined(B, C, x, z)
  BY <1>10 DEF Joined
<1>12. Cleared(W, W, x, z)
  <2>1. ASSUME NEW y \in DOMAIN W PROVE (y < x \/ z <= y) <=> y \notin {}
    <3>1. y \in B /\ y # x /\ y \in Nat
      BY <1>3, <1>4, <1>8, SizedIs
    <3>2. QED  BY <1>8, <3>1
  <2>2. Only(W, x, z, {})
    BY <2>1 DEF Only
  <2>3. QED  BY <1>3, <2>2, ClearedIs
<1>13. Cleared(Without(V, x), V, x, z)
  <2>1. ASSUME NEW y \in DOMAIN V PROVE (y < x \/ z <= y) <=> y \notin {x}
    <3>1. y \in B /\ y \in Nat
      BY <1>3, <1>8, SizedIs
    <3>2. QED  BY <1>8, <3>1
  <2>2. Only(V, x, z, {x})
    BY <2>1 DEF Only
  <2>3. QED  BY <1>3, <2>2, ClearedIs
<1>14. PICK b \in BlockHdr : b = [f[x] EXCEPT !.free = TRUE]
  BY <1>5 DEF BlockHdr
<1>15. IsHdr(b, TRUE, f[x].prev, z)
  BY <1>5, <1>6, <1>14 DEF BlockHdr, IsHdr
<1>16. PICK u : u = WriteBhdr(s, x, b)
  OBVIOUS
<1>17. Wrote(s, u, {x}) /\ u.file[x] = b
  BY <1>3, <1>5, <1>16, OneHdr
<1>18. Wrote(s, u, {x, z})
  BY <1>17 DEF Wrote, Headers
<1>19. IsHdr(u.file[x], TRUE, f[x].prev, z) /\ IsHdr(u.file[z], FALSE, x, f[z].next)
  <2>1. z \notin HdrAt(x)
    BY <1>3, <1>4, <1>8, HdrApart
  <2>2. u.file[z] = f[z]
    BY <1>2, <1>8, <1>17, <2>1 DEF Wrote, Headers
  <2>3. f[z].free = FALSE
    BY <1>7, <1>8 DEF BlockHdr
  <2>4. QED  BY <1>8, <1>15, <1>17, <2>2, <2>3 DEF IsHdr
<1>20. FreedHdrs(s, B, last, W, V, x, x, z, u, C, W, k)
  BY <1>2, <1>4, <1>7, <1>8, <1>9, <1>11, <1>12, <1>13, <1>18, <1>19 DEF FreedHdrs
<1>21. DataLen(f[x], x) = V[x]
  BY <1>1, <1>2, <1>4, LenIs
<1>22. t = CountUsed(FreeAdd(u, x, k), -1, -V[x])
  <2>1. FreeRec(s, x) = CountUsed(FreeAdd(WriteBhdr(s, x, b), x, z - x - BH),
                                  -1, -DataLen(s.file[x], x))
    <3>1. /\ s.file[x].prev = RECLOCATOR_MAX \/ ~s.file[s.file[x].prev].free
          /\ z = s.file[x].next /\ ~s.file[z].free
      BY <1>2, <1>5, <1>6, <1>7
    <3>2. b = [s.file[x] EXCEPT !.free = TRUE]
      BY <1>2, <1>14
    <3>3. QED  BY <3>1, <3>2, Zenon DEF FreeRec
  <2>2. QED  BY <1>2, <1>9, <1>16, <1>21, <2>1
<1>23. Stands(t, C, last, With(W, x, k), Without(V, x)) /\ Held(s, t, Without(V, x))
  BY <1>20, <1>22, FreedAdded
<1>24. QED  BY <1>23 DEF Freed

\* Record x and what follows it become the end of the file, at a.
LEMMA FreedCut ==
  ASSUME NEW s, NEW B, NEW last, NEW W, NEW V, Stands(s, B, last, W, V), NEW x \in DOMAIN V,
         NEW a \in B, a = 0 \/ ~s.file[s.file[a].prev].free, NEW C, Cut(B, C, a),
         NEW R, Cleared(R, W, a, last), Cleared(Without(V, x), V, a, last),
         NEW v \in State, Pooled(v, R), SameUsed(s, v), Kin(s, v, B \cup {last}, Without(V, x)),
         NEW b \in BlockHdr, IsHdr(b, TRUE, s.file[a].prev, RECLOCATOR_MAX),
         NEW t, t = CountUsed(WriteBhdr([v EXCEPT !.hdr.last_off = a], a, b), -1, -V[x])
  PROVE  Freed(s, t, V, x)
<1>1. InRow(s, B, last, W, V) /\ Counted(s, W, V)
  BY DEF Stands
<1>2. PICK f : f = s.file
  OBVIOUS
<1>3. Row(f, B, last) /\ Sized(f, B, W, V) /\ s \in State
  BY <1>1, <1>2 DEF InRow, Counted
<1>4. a \in Off /\ a \in Nat /\ a < last /\ \A y \in B \cup {last} : y \in Nat /\ y \in Off
  BY <1>3, RowNat
<1>5. PICK U : U = Without(V, x)
  OBVIOUS
<1>6. PICK r : r = [v EXCEPT !.hdr.last_off = a]
  OBVIOUS
<1>7. /\ r \in State /\ r.file = v.file /\ SameFree(v, r) /\ r.hdr.last_off = a
      /\ r.hdr.used_count = v.hdr.used_count /\ r.hdr.used_space = v.hdr.used_space
  <2>1. a \in Int
    BY <1>4
  <2>2. Ended(v, r, a)
    BY <1>6, <2>1, LastOffIs
  <2>3. QED  BY <2>2 DEF Ended
<1>8. PICK u : u = WriteBhdr(r, a, b)
  OBVIOUS
<1>9. Wrote(r, u, {a}) /\ u.file[a] = b
  BY <1>4, <1>7, <1>8, OneHdr
<1>10. u \in State /\ u.hdr = r.hdr /\ u.bands = r.bands /\ Headers(r, u, {a})
  BY <1>9 DEF Wrote
<1>11. Headers(v, u, {a}) /\ SameFree(v, u)
  BY <1>7, <1>10 DEF Headers, SameFree
<1>12. ASSUME NEW y \in B, y < a PROVE u.file[y] = f[y]
  <2>1. y \in Off /\ y \notin HdrAt(a)
    BY <1>3, <1>4, <1>12, HdrApart
  <2>2. u.file[y] = v.file[y]
    BY <1>11, <2>1 DEF Headers
  <2>3. v.file[y] = s.file[y]
    BY DEF Kin
  <2>4. QED  BY <1>2, <2>2, <2>3
<1>13. Row(u.file, C, a)
  <2>1. SameBefore(f, u.file, B, a)
    BY <1>12 DEF SameBefore
  <2>2. IsHdr(u.file[a], TRUE, f[a].prev, RECLOCATOR_MAX) /\ (a = 0 \/ ~f[f[a].prev].free)
    BY <1>2, <1>9
  <2>3. QED  BY <1>3, <2>1, <2>2, RowCut
<1>14. \A y \in B : y < last /\ ~(last <= y)
  BY <1>3, <1>4, RowNat
<1>15. Sized(u.file, C, R, U)
  <2>1. Lengths(R) /\ Lengths(U)
    BY <1>5 DEF Cleared
  <2>2. ASSUME NEW y \in DOMAIN R PROVE y \in C /\ u.file[y].free /\ R[y] = u.file[y].next - y - BH
    <3>1. y \in DOMAIN W /\ (y < a \/ last <= y) /\ R[y] = W[y]
      BY DEF Cleared
    <3>2. y \in B /\ f[y].free /\ W[y] = f[y].next - y - BH
      BY <1>3, <3>1 DEF Sized
    <3>3. y < a /\ y \in C
      BY <1>14, <3>1, <3>2 DEF Cut
    <3>4. QED  BY <1>12, <3>1, <3>2, <3>3
  <2>3. ASSUME NEW y \in DOMAIN U PROVE y \in C /\ ~u.file[y].free /\ U[y] = u.file[y].next - y - BH
    <3>1. y \in DOMAIN V /\ (y < a \/ last <= y) /\ U[y] = V[y]
      BY <1>5 DEF Cleared
    <3>2. y \in B /\ ~f[y].free /\ V[y] = f[y].next - y - BH
      BY <1>3, <3>1 DEF Sized
    <3>3. y < a /\ y \in C
      BY <1>14, <3>1, <3>2 DEF Cut
    <3>4. QED  BY <1>12, <3>1, <3>2, <3>3
  <2>4. ASSUME NEW y \in C PROVE IF u.file[y].free THEN y \in DOMAIN R ELSE y \in DOMAIN U
    <3>1. y \in B /\ y < a
      BY DEF Cut
    <3>2. IF f[y].free THEN y \in DOMAIN W ELSE y \in DOMAIN V
      BY <1>3, <3>1 DEF Sized
    <3>3. IF f[y].free THEN y \in DOMAIN R ELSE y \in DOMAIN U
      BY <1>5, <3>1, <3>2 DEF Cleared
    <3>4. QED  BY <1>12, <3>1, <3>3
  <2>5. QED  BY <2>1, <2>2, <2>3, <2>4 DEF Sized
<1>16. InRow(u, C, a, R, U)
  BY <1>13, <1>15 DEF InRow
<1>17. OffLists(R, {a}) /\ OffRecords(U, {a})
  BY <1>16, RowOff
<1>18. Pooled(u, R)
  <2>1. Apart(R)
    BY <1>13, <1>15, RowApart
  <2>2. QED  BY <1>11, <1>17, <2>1, PooledUnder
<1>19. Counted(u, R, V)
  <2>1. u.hdr.used_count = s.hdr.used_count /\ u.hdr.used_space = s.hdr.used_space
    BY <1>7, <1>10 DEF SameUsed
  <2>2. Weighs(s.hdr.used_count, s.hdr.used_space, V)
    BY <1>1 DEF Counted
  <2>3. QED  BY <1>10, <1>18, <2>1, <2>2 DEF Counted
<1>20. Counted(t, R, U) /\ t.file = u.file /\ t.hdr.last_off = a
  <2>1. t = CountUsed(u, -1, -V[x])
    BY <1>6, <1>8
  <2>2. u.hdr.last_off = a
    BY <1>7, <1>10
  <2>3. QED  BY <1>5, <1>19, <2>1, <2>2, RecordLess
<1>21. Stands(t, C, a, R, U)
  BY <1>13, <1>15, <1>20 DEF Stands, InRow
<1>22. Held(s, t, U)
  <2>1. Held(v, u, U)
    BY <1>11, <1>17, HeldUnder
  <2>2. Held(s, v, U)
    BY <1>5 DEF Kin
  <2>3. QED  BY <1>20, <2>1, <2>2 DEF Held
<1>23. QED  BY <1>5, <1>21, <1>22 DEF Freed

\* The last block.
LEMMA FreeRecLast ==
  ASSUME NEW s, NEW B, NEW last, NEW W, NEW V, Stands(s, B, last, W, V), NEW x \in DOMAIN V,
         x = 0 \/ ~s.file[s.file[x].prev].free, s.file[s.file[x].next].free,
         s.file[s.file[x].next].next = RECLOCATOR_MAX, NEW t, t = FreeRec(s, x)
  PROVE  Freed(s, t, V, x)
<1>1. InRow(s, B, last, W, V) /\ Counted(s, W, V)
  BY DEF Stands
<1>2. PICK f : f = s.file
  OBVIOUS
<1>3. Row(f, B, last) /\ Sized(f, B, W, V) /\ s \in State /\ Pooled(s, W) /\ Lengths(W) /\ Lengths(V)
  BY <1>1, <1>2 DEF InRow, Counted, Sized
<1>4. x \in B /\ ~f[x].free
  BY <1>3, SizedIs
<1>5. x \in Off /\ x \in Nat /\ f[x] \in BlockHdr /\ (x = 0 => f[x].prev = RECLOCATOR_MAX)
  BY <1>3, <1>4, RowNat, RowPrev
<1>6. PICK n : n = f[x].next
  OBVIOUS
<1>7. f[n].free /\ f[n].next = RECLOCATOR_MAX
  BY <1>2, <1>6
<1>8. n = last /\ last \in Nat /\ x < last /\ \A y \in B \cup {last} : y \in Nat /\ (y <= x \/ last <= y)
  BY <1>3, <1>4, <1>6, <1>7, SideAfter
<1>9. PICK C : C = {y \in B : y < x}
  OBVIOUS
<1>10. Cut(B, C, x)
  BY <1>9 DEF Cut
<1>11. Cleared(W, W, x, last)
  <2>1. ASSUME NEW y \in DOMAIN W PROVE (y < x \/ last <= y) <=> y \notin {}
    <3>1. y \in B /\ y # x /\ y \in Nat
      BY <1>3, <1>4, <1>8, SizedIs
    <3>2. QED  BY <1>5, <1>8, <3>1
  <2>2. Only(W, x, last, {})
    BY <2>1 DEF Only
  <2>3. QED  BY <1>3, <2>2, ClearedIs
<1>12. Cleared(Without(V, x), V, x, last)
  <2>1. ASSUME NEW y \in DOMAIN V PROVE (y < x \/ last <= y) <=> y \notin {x}
    <3>1. y \in B /\ y \in Nat
      BY <1>3, <1>8, SizedIs
    <3>2. QED  BY <1>5, <1>8, <3>1
  <2>2. Only(V, x, last, {x})
    BY <2>1 DEF Only
  <2>3. QED  BY <1>3, <2>2, ClearedIs
<1>13. PICK c \in BlockHdr : c = [f[x] EXCEPT !.free = TRUE]
  BY <1>5 DEF BlockHdr
<1>14. PICK b \in BlockHdr : b = [c EXCEPT !.next = RECLOCATOR_MAX]
  BY DEF BlockHdr, Locator
<1>15. IsHdr(b, TRUE, f[x].prev, RECLOCATOR_MAX)
  BY <1>5, <1>13, <1>14 DEF IsHdr, BlockHdr
<1>16. DataLen(f[x], x) = V[x]
  BY <1>1, <1>2, <1>4, LenIs
<1>17. t = CountUsed(WriteBhdr([s EXCEPT !.hdr.last_off = x], x, b), -1, -V[x])
  <2>1. /\ s.file[x].prev = RECLOCATOR_MAX \/ ~s.file[s.file[x].prev].free
        /\ s.file[s.file[x].next].free /\ s.file[s.file[x].next].next = RECLOCATOR_MAX
    BY <1>2, <1>5
  <2>2. c = [s.file[x] EXCEPT !.free = TRUE]
    BY <1>2, <1>13
  <2>3. FreeRec(s, x) = CountUsed(WriteBhdr([s EXCEPT !.hdr.last_off = x], x,
                                            [c EXCEPT !.next = RECLOCATOR_MAX]),
                                  -1, -DataLen(s.file[x], x))
    BY <2>1, <2>2, Zenon DEF FreeRec
  <2>4. QED  BY <1>2, <1>14, <1>16, <2>3
<1>18. SameUsed(s, s) /\ Kin(s, s, B \cup {last}, Without(V, x))
  BY DEF SameUsed, Kin, Held
<1>19. QED  BY <1>2, <1>3, <1>4, <1>10, <1>11, <1>12, <1>15, <1>17, <1>18, FreedCut

\* The last block, after a free one.
LEMMA FreeRecLastTwo ==
  ASSUME NEW s, NEW B, NEW last, NEW W, NEW V, Stands(s, B, last, W, V), NEW x \in DOMAIN V,
         x # 0, s.file[s.file[x].prev].free, s.file[s.file[x].next].free,
         s.file[s.file[x].next].next = RECLOCATOR_MAX, NEW t, t = FreeRec(s, x)
  PROVE  Freed(s, t, V, x)
<1>1. InRow(s, B, last, W, V) /\ Counted(s, W, V)
  BY DEF Stands
<1>2. PICK f : f = s.file
  OBVIOUS
<1>3. Row(f, B, last) /\ Sized(f, B, W, V) /\ s \in State /\ Pooled(s, W) /\ Lengths(W) /\ Lengths(V)
  BY <1>1, <1>2 DEF InRow, Counted, Sized
<1>4. x \in B /\ ~f[x].free
  BY <1>3, SizedIs
<1>5. PICK p : p = f[x].prev
  OBVIOUS
<1>6. PICK n : n = f[x].next
  OBVIOUS
<1>7. f[p].free /\ f[f[x].prev].free /\ f[n].free /\ f[n].next = RECLOCATOR_MAX
  BY <1>2, <1>5, <1>6
<1>8. /\ p \in B /\ p \in Nat /\ p < x /\ p # RECLOCATOR_MAX
      /\ f[p] \in BlockHdr /\ (\A y \in B \cup {last} : y \in Nat /\ (y <= p \/ x <= y))
      /\ (p = 0 \/ ~f[f[p].prev].free)
  BY <1>3, <1>4, <1>5, <1>7, SideBefore
<1>9. /\ n = last /\ last \in Nat /\ x \in Nat /\ x < last
      /\ \A y \in B \cup {last} : y \in Nat /\ (y <= x \/ last <= y)
  BY <1>3, <1>4, <1>6, <1>7, SideAfter
<1>10. PICK C : C = {y \in B : y < p}
  OBVIOUS
<1>11. Cut(B, C, p)
  BY <1>10 DEF Cut
<1>12. p \in DOMAIN W /\ BlockLen(s, p) = W[p]
  BY <1>1, <1>2, <1>3, <1>7, <1>8, FreeSize, LenIs
<1>13. Cleared(Without(W, p), W, p, last)
  <2>1. ASSUME NEW y \in DOMAIN W PROVE (y < p \/ last <= y) <=> y \notin {p}
    <3>1. y \in B /\ y # x /\ y \in Nat
      BY <1>3, <1>4, <1>9, SizedIs
    <3>2. QED  BY <1>8, <1>9, <3>1
  <2>2. Only(W, p, last, {p})
    BY <2>1 DEF Only
  <2>3. QED  BY <1>3, <2>2, ClearedIs
<1>14. Cleared(Without(V, x), V, p, last)
  <2>1. ASSUME NEW y \in DOMAIN V PROVE (y < p \/ last <= y) <=> y \notin {x}
    <3>1. y \in B /\ y # p /\ y \in Nat
      BY <1>3, <1>7, <1>9, SizedIs
    <3>2. QED  BY <1>8, <1>9, <3>1
  <2>2. Only(V, p, last, {x})
    BY <2>1 DEF Only
  <2>3. QED  BY <1>3, <2>2, ClearedIs
<1>15. PICK c \in BlockHdr : c = [f[p] EXCEPT !.free = TRUE]
  BY <1>8 DEF BlockHdr
<1>16. PICK b \in BlockHdr : b = [c EXCEPT !.next = RECLOCATOR_MAX]
  BY DEF BlockHdr, Locator
<1>17. IsHdr(b, TRUE, f[p].prev, RECLOCATOR_MAX)
  BY <1>8, <1>15, <1>16 DEF IsHdr, BlockHdr
<1>18. DataLen(f[x], x) = V[x]
  BY <1>1, <1>2, <1>4, LenIs
<1>19. PICK v : v = FreeRemove(s, p, W[p])
  OBVIOUS
<1>20. t = CountUsed(WriteBhdr([v EXCEPT !.hdr.last_off = p], p, b), -1, -V[x])
  <2>1. /\ s.file[x].prev = p /\ p # RECLOCATOR_MAX /\ s.file[p].free
        /\ s.file[s.file[x].next].free /\ s.file[s.file[x].next].next = RECLOCATOR_MAX
    BY <1>2, <1>5, <1>8
  <2>2. c = [s.file[p] EXCEPT !.free = TRUE]
    BY <1>2, <1>15
  <2>3. PICK d : d = BlockLen(s, p)
    OBVIOUS
  <2>4. FreeRec(s, x) = CountUsed(WriteBhdr([FreeRemove(s, p, d) EXCEPT !.hdr.last_off = p], p,
                                            [c EXCEPT !.next = RECLOCATOR_MAX]),
                                  -1, -DataLen(s.file[x], x))
    BY <2>1, <2>2, <2>3 DEF FreeRec
  <2>5. QED  BY <1>2, <1>12, <1>16, <1>18, <1>19, <2>3, <2>4
<1>21. v \in State /\ Pooled(v, Without(W, p)) /\ SameUsed(s, v) /\ Kin(s, v, B \cup {last}, Without(V, x))
  <2>1. Apart(W) /\ OffPosts(V, W)
    <3>1. {} \subseteq B \cup {last}
      OBVIOUS
    <3>2. QED  BY <1>1, <1>3, <3>1, RowApart, RowOff
  <2>2. OffPosts(Without(V, x), W)
    <3>1. \A y \in DOMAIN Without(V, x) : y \in DOMAIN V /\ Without(V, x)[y] = V[y]
      BY <1>3, WithoutIs
    <3>2. QED  BY <2>1, <3>1 DEF OffPosts
  <2>3. B \subseteq B
    OBVIOUS
  <2>4. QED  BY <1>1, <1>3, <1>12, <1>19, <2>1, <2>2, <2>3, FreedLess
<1>22. QED  BY <1>2, <1>8, <1>11, <1>13, <1>14, <1>17, <1>20, <1>21, FreedCut

\* A record is freed.
LEMMA FreeRecIs ==
  ASSUME NEW s, NEW B, NEW last, NEW W, NEW V, Stands(s, B, last, W, V), NEW x \in DOMAIN V,
         NEW t, t = FreeRec(s, x)
  PROVE  Freed(s, t, V, x)
<1>1. CASE x # 0 /\ s.file[s.file[x].prev].free
  <2>1. CASE ~s.file[s.file[x].next].free
    BY <1>1, <2>1, FreeRecBefore
  <2>2. CASE s.file[s.file[x].next].free /\ s.file[s.file[x].next].next # RECLOCATOR_MAX
    BY <1>1, <2>2, FreeRecBoth
  <2>3. CASE s.file[s.file[x].next].free /\ s.file[s.file[x].next].next = RECLOCATOR_MAX
    BY <1>1, <2>3, FreeRecLastTwo
  <2>4. QED  BY <2>1, <2>2, <2>3
<1>2. CASE x = 0 \/ ~s.file[s.file[x].prev].free
  <2>1. CASE ~s.file[s.file[x].next].free
    BY <1>2, <2>1, FreeRecPlain
  <2>2. CASE s.file[s.file[x].next].free /\ s.file[s.file[x].next].next # RECLOCATOR_MAX
    BY <1>2, <2>2, FreeRecAfter
  <2>3. CASE s.file[s.file[x].next].free /\ s.file[s.file[x].next].next = RECLOCATOR_MAX
    BY <1>2, <2>3, FreeRecLast
  <2>4. QED  BY <2>1, <2>2, <2>3
<1>3. QED  BY <1>1, <1>2

-----------------------------------------------------------------------------
(* Resizing a record where it is.                                          *)

\* V with another length for x.
Resized(V, x, k) == With(Without(V, x), x, k)

\* What that is.
LEMMA ResizedIs ==
  ASSUME NEW V, Lengths(V), NEW x \in DOMAIN V, NEW k \in Nat, NEW U, U = Resized(V, x, k)
  PROVE  /\ Lengths(U) /\ (\A y : y \in DOMAIN U <=> y \in DOMAIN V) /\ U[x] = k
         /\ \A y \in DOMAIN V : y # x => U[y] = V[y]
<1>1. PICK R : R = Without(V, x)
  OBVIOUS
<1>2. /\ Lengths(R) /\ \A y : y \in DOMAIN R <=> y \in DOMAIN V /\ y # x
      /\ \A y \in DOMAIN V : y # x => R[y] = V[y]
  BY <1>1, WithoutIs
<1>3. U = With(R, x, k) /\ x \notin DOMAIN R
  BY <1>1, <1>2 DEF Resized
<1>4. /\ Lengths(U) /\ \A y : y \in DOMAIN U <=> y \in DOMAIN R \/ y = x
      /\ U[x] = k /\ \A y \in DOMAIN R : U[y] = R[y]
  BY <1>2, <1>3, WithIs
<1>5. QED  BY <1>2, <1>4

\* A record of another length is counted.
LEMMA ResizedCount ==
  ASSUME NEW s, NEW w, NEW W, NEW V, Counted(s, W, V), NEW x \in DOMAIN V, NEW k \in Nat,
         w \in State, SameUsed(s, w), NEW G, Pooled(w, G),
         NEW d \in Int, d = k - V[x], NEW t, t = CountUsed(w, 0, d)
  PROVE  Counted(t, G, Resized(V, x, k)) /\ t.file = w.file /\ t.hdr.last_off = s.hdr.last_off
<1>1. Counted(w, G, V) /\ w.hdr.last_off = s.hdr.last_off
  BY CountedIn
<1>2. /\ Counted(t, G, With(Without(V, x), x, k)) /\ t.file = w.file
      /\ t.hdr.last_off = w.hdr.last_off
  BY <1>1, RecordChange
<1>3. QED  BY <1>1, <1>2 DEF Resized

\* Block x ends where block z starts.
EndsAt(f, x, z) == f[x].next = z

\* The last record gets another length.
LEMMA ResizeLastIs ==
  ASSUME NEW s, NEW B, NEW last, NEW W, NEW V, Stands(s, B, last, W, V), NEW x \in DOMAIN V,
         EndsAt(s.file, x, last), NEW k \in Nat, x + BH + k \in Off, NEW t, t = ResizeLast(s, x, k)
  PROVE  Stands(t, B, x + BH + k, W, Resized(V, x, k)) /\ Held(s, t, Resized(V, x, k))
<1>1. InRow(s, B, last, W, V) /\ Counted(s, W, V)
  BY DEF Stands
<1>2. PICK f : f = s.file
  OBVIOUS
<1>3. Row(f, B, last) /\ Sized(f, B, W, V) /\ s \in State /\ Pooled(s, W) /\ Lengths(W) /\ Lengths(V)
  BY <1>1, <1>2 DEF InRow, Counted, Sized
<1>4. x \in B /\ ~f[x].free /\ f[x].next = last
  BY <1>2, <1>3, SizedIs DEF EndsAt
<1>5. /\ x \in Off /\ x \in Nat /\ f[x] \in BlockHdr /\ f[last] \in BlockHdr
      /\ f[last].free /\ f[last].next = RECLOCATOR_MAX
      /\ \A y \in B \cup {last} : y \in Nat /\ y \in Off
  BY <1>3, <1>4, RowNat
<1>6. f[last].prev = x /\ \A y \in B : y <= x
  BY <1>3, <1>4, RowNext, RowNat
<1>7. BH \in Nat \ {0}
  BY SizesAssumption
<1>8. PICK e \in Off : e = x + BH + k
  OBVIOUS
<1>9. e \in Nat /\ x < e /\ x + BH <= e /\ k = e - x - BH
  BY <1>5, <1>7, <1>8
<1>10. PICK U : U = Resized(V, x, k)
  OBVIOUS
<1>11. /\ Lengths(U) /\ (\A y : y \in DOMAIN U <=> y \in DOMAIN V) /\ U[x] = k
       /\ \A y \in DOMAIN V : y # x => U[y] = V[y]
  BY <1>3, <1>10, ResizedIs
<1>12. PICK r : r = [s EXCEPT !.hdr.last_off = e]
  OBVIOUS
<1>13. /\ r \in State /\ r.file = f /\ SameFree(s, r) /\ r.hdr.last_off = e
       /\ r.hdr.used_count = s.hdr.used_count /\ r.hdr.used_space = s.hdr.used_space
  <2>1. e \in Int /\ s \in State
    BY <1>3, <1>9
  <2>2. Ended(s, r, e)
    BY <1>12, <2>1, LastOffIs
  <2>3. QED  BY <1>2, <2>2 DEF Ended
<1>14. PICK b \in BlockHdr : b = [f[x] EXCEPT !.next = e]
  BY <1>5 DEF BlockHdr, Locator
<1>15. IsHdr(b, FALSE, f[x].prev, e)
  <2>1. f[x].free = FALSE
    BY <1>4, <1>5 DEF BlockHdr
  <2>2. QED  BY <1>5, <1>14, <2>1 DEF IsHdr, BlockHdr
<1>16. PICK d \in BlockHdr : d = f[last]
  BY <1>5
<1>17. IsHdr(d, TRUE, x, RECLOCATOR_MAX)
  <2>1. f[last].free = TRUE
    BY <1>5 DEF BlockHdr
  <2>2. QED  BY <1>5, <1>6, <1>16, <2>1 DEF IsHdr
<1>18. e \notin HdrAt(x)
  BY <1>5, <1>7, <1>9 DEF HdrAt
<1>19. PICK u : u = WriteBhdr(WriteBhdr(r, e, d), x, b)
  OBVIOUS
<1>20. /\ u \in State /\ u.hdr = r.hdr /\ u.bands = r.bands
       /\ u.file[x] = b /\ u.file[e] = d /\ Headers(r, u, {e, x})
  <2>1. r \in State /\ x \in Off
    BY <1>5, <1>13
  <2>2. Wrote(r, u, {e, x}) /\ u.file[e] = d /\ u.file[x] = b
    BY <1>18, <1>19, <2>1, TwoHdrs
  <2>3. QED  BY <2>2 DEF Wrote
<1>21. Headers(s, u, {e, x}) /\ SameFree(s, u)
  BY <1>2, <1>13, <1>20 DEF Headers, SameFree
<1>22. ASSUME NEW y \in B, y # x PROVE u.file[y] = f[y]
  <2>1. y \notin HdrAt(x) /\ y \in Nat /\ y < x /\ y \in Off
    BY <1>3, <1>4, <1>5, <1>6, <1>22, HdrApart
  <2>2. y \notin HdrAt(e)
    BY <1>5, <1>7, <1>9, <2>1 DEF HdrAt
  <2>3. QED  BY <1>2, <1>21, <2>1, <2>2 DEF Headers
<1>23. Row(u.file, B, e)
  <2>1. Tailed(B, B, x)
    BY <1>4, <1>5, <1>6 DEF Tailed
  <2>2. IsHdr(u.file[x], FALSE, f[x].prev, e) /\ IsHdr(u.file[e], TRUE, x, RECLOCATOR_MAX)
    BY <1>15, <1>17, <1>20
  <2>3. SameBefore(f, u.file, B, x)
    BY <1>5, <1>22 DEF SameBefore
  <2>4. x \in B \cup {last}
    BY <1>4
  <2>5. QED  BY <1>3, <1>9, <2>1, <2>2, <2>3, <2>4, RowTail
<1>24. Sized(u.file, B, W, U)
  <2>1. u.file[x].next = e /\ ~u.file[x].free
    BY <1>15, <1>20 DEF IsHdr
  <2>2. ASSUME NEW y \in DOMAIN W PROVE y \in B /\ u.file[y].free /\ W[y] = u.file[y].next - y - BH
    <3>1. y \in B /\ f[y].free /\ W[y] = f[y].next - y - BH
      BY <1>3 DEF Sized
    <3>2. QED  BY <1>4, <1>22, <3>1
  <2>3. ASSUME NEW y \in DOMAIN U PROVE y \in B /\ ~u.file[y].free /\ U[y] = u.file[y].next - y - BH
    <3>1. y \in DOMAIN V
      BY <1>11
    <3>2. y \in B /\ ~f[y].free /\ V[y] = f[y].next - y - BH
      BY <1>3, <3>1 DEF Sized
    <3>3. CASE y = x
      BY <1>4, <1>9, <1>11, <2>1, <3>3
    <3>4. CASE y # x
      BY <1>11, <1>22, <3>1, <3>2, <3>4
    <3>5. QED  BY <3>3, <3>4
  <2>4. ASSUME NEW y \in B PROVE IF u.file[y].free THEN y \in DOMAIN W ELSE y \in DOMAIN U
    <3>1. IF f[y].free THEN y \in DOMAIN W ELSE y \in DOMAIN V
      BY <1>3 DEF Sized
    <3>2. QED  BY <1>11, <1>22, <2>1, <3>1
  <2>5. QED  BY <1>3, <1>11, <2>2, <2>3, <2>4 DEF Sized
<1>25. InRow(u, B, e, W, U)
  BY <1>23, <1>24 DEF InRow
<1>26. OffLists(W, {e, x}) /\ OffRecords(U, {e, x})
  BY <1>4, <1>25, RowOff
<1>27. Pooled(u, W)
  BY <1>3, <1>21, <1>26, RowApart, PooledUnder
<1>28. Counted(u, W, V)
  <2>1. u.hdr.used_count = s.hdr.used_count /\ u.hdr.used_space = s.hdr.used_space
    BY <1>13, <1>20
  <2>2. Weighs(s.hdr.used_count, s.hdr.used_space, V)
    BY <1>1 DEF Counted
  <2>3. QED  BY <1>20, <1>27, <2>1, <2>2 DEF Counted
<1>29. PICK c \in Int : c = k - V[x]
  BY <1>3 DEF Lengths
<1>30. t = CountUsed(u, 0, c)
  <2>1. DataLen(f[x], x) = V[x]
    BY <1>1, <1>2, <1>4, LenIs
  <2>2. b = [s.file[x] EXCEPT !.next = e] /\ d = s.file[s.file[x].next] /\ e = x + BH + k
    BY <1>2, <1>4, <1>8, <1>14, <1>16
  <2>3. ResizeLast(s, x, k) = CountUsed(WriteBhdr(WriteBhdr([s EXCEPT !.hdr.last_off = e], e, d), x, b),
                                        0, k - DataLen(s.file[x], x))
    BY <2>2 DEF ResizeLast
  <2>4. QED  BY <1>2, <1>12, <1>19, <1>29, <2>1, <2>3
<1>31. Counted(t, W, U) /\ t.file = u.file /\ t.hdr.last_off = e
  <2>1. SameUsed(u, u)
    BY DEF SameUsed
  <2>2. u.hdr.last_off = e
    BY <1>13, <1>20
  <2>3. QED  BY <1>10, <1>20, <1>27, <1>28, <1>29, <1>30, <2>1, <2>2, ResizedCount
<1>32. Stands(t, B, e, W, U)
  BY <1>23, <1>24, <1>31 DEF Stands, InRow
<1>33. Held(s, t, U)
  <2>1. Held(s, u, U)
    BY <1>21, <1>26, HeldUnder
  <2>2. QED  BY <1>31, <2>1 DEF Held
<1>34. QED  BY <1>8, <1>10, <1>32, <1>33

\* The joined block is a record.
LEMMA JoinedUsed ==
  ASSUME NEW f, NEW B, NEW last, Row(f, B, last), NEW W, NEW V, Sized(f, B, W, V),
         NEW a \in DOMAIN V, a \in B, NEW z \in B, a < z, NEW C, Joined(B, C, a, z),
         NEW g, Kept(f, g, C, a),
         ~g[a].free, g[a].next = z, NEW R, Cleared(R, W, a, z), Cleared(Without(V, a), V, a, z),
         NEW k \in Nat, k = z - a - BH
  PROVE  Sized(g, C, R, Resized(V, a, k))
<1>1. \A y \in B : y \in Nat
  BY RowNat
<1>2. a \in C /\ \A y \in C : y \in B /\ (y = a \/ y < a \/ z <= y)
  BY <1>1 DEF Joined
<1>3. Lengths(R) /\ Lengths(V) /\ a \notin DOMAIN R
  BY <1>1 DEF Cleared, Sized
<1>4. PICK U : U = Resized(V, a, k)
  OBVIOUS
<1>5. /\ Lengths(U) /\ (\A y : y \in DOMAIN U <=> y \in DOMAIN V) /\ U[a] = k
      /\ \A y \in DOMAIN V : y # a => U[y] = V[y]
  BY <1>3, <1>4, ResizedIs
<1>6. \A y : y \in DOMAIN Without(V, a) <=> y \in DOMAIN V /\ y # a
  BY <1>3, WithoutIs
<1>7. ASSUME NEW y \in DOMAIN R PROVE y \in C /\ g[y].free /\ R[y] = g[y].next - y - BH
  <2>1. y \in DOMAIN W /\ (y < a \/ z <= y) /\ R[y] = W[y]
    BY DEF Cleared
  <2>2. y \in B /\ f[y].free /\ W[y] = f[y].next - y - BH
    BY <2>1 DEF Sized
  <2>3. y \in C /\ y # a
    BY <1>1, <1>3, <2>1, <2>2 DEF Joined
  <2>4. QED  BY <2>1, <2>2, <2>3 DEF Kept
<1>8. ASSUME NEW y \in DOMAIN U PROVE y \in C /\ ~g[y].free /\ U[y] = g[y].next - y - BH
  <2>1. CASE y = a
    BY <1>2, <1>5, <2>1
  <2>2. CASE y # a
    <3>1. y \in DOMAIN V /\ U[y] = V[y] /\ y \in DOMAIN Without(V, a)
      BY <1>5, <1>6, <2>2
    <3>2. y < a \/ z <= y
      BY <3>1 DEF Cleared
    <3>3. y \in B /\ ~f[y].free /\ V[y] = f[y].next - y - BH
      BY <3>1 DEF Sized
    <3>4. y \in C
      BY <1>1, <3>2, <3>3 DEF Joined
    <3>5. QED  BY <2>2, <3>1, <3>3, <3>4 DEF Kept
  <2>3. QED  BY <2>1, <2>2
<1>9. ASSUME NEW y \in C PROVE IF g[y].free THEN y \in DOMAIN R ELSE y \in DOMAIN U
  <2>1. CASE y = a
    BY <1>5, <2>1
  <2>2. CASE y # a
    <3>1. y \in B /\ (y < a \/ z <= y) /\ g[y].free = f[y].free
      BY <1>2, <2>2 DEF Kept
    <3>2. IF f[y].free THEN y \in DOMAIN W ELSE y \in DOMAIN V
      BY <3>1 DEF Sized
    <3>3. QED  BY <1>5, <3>1, <3>2 DEF Cleared
  <2>3. QED  BY <2>1, <2>2
<1>10. QED  BY <1>3, <1>4, <1>5, <1>7, <1>8, <1>9 DEF Sized

\* Block x is followed by a free block n, that by a block z.
FreeAfter(f, B, x, n, z) ==
  /\ f[x].next = n /\ n \in B /\ f[n].free /\ f[n].next = z

\* A record takes the whole of the free block that follows it.
LEMMA JoinBlocksIs ==
  ASSUME NEW s, NEW B, NEW last, NEW W, NEW V, Stands(s, B, last, W, V), NEW x \in DOMAIN V,
         NEW n, NEW z, FreeAfter(s.file, B, x, n, z), NEW t, t = JoinBlocks(s, x)
  PROVE  \E C, k : /\ k \in Nat /\ k = V[x] + W[n] + BH
                   /\ Stands(t, C, last, Without(W, n), Resized(V, x, k))
                   /\ Held(s, t, Resized(V, x, k))
<1>1. InRow(s, B, last, W, V) /\ Counted(s, W, V) /\ s.hdr.last_off = last
  BY DEF Stands
<1>2. PICK f : f = s.file
  OBVIOUS
<1>3. Row(f, B, last) /\ Sized(f, B, W, V) /\ s \in State /\ Pooled(s, W) /\ Lengths(W) /\ Lengths(V)
  BY <1>1, <1>2 DEF InRow, Counted, Sized
<1>4. x \in B /\ ~f[x].free /\ f[x].next = n /\ n \in B /\ f[n].free /\ f[n].next = z
  BY <1>2, <1>3, SizedIs DEF FreeAfter
<1>5. x \in Off /\ x \in Nat /\ f[x] \in BlockHdr
  BY <1>3, <1>4, RowNat
<1>6. /\ n \in Nat /\ n \in Off /\ x < n /\ x + BH <= n
      /\ \A y \in B \cup {last} : y \in Nat /\ (y <= x \/ n <= y)
  BY <1>3, <1>4, SideAfter
<1>7. /\ z \in B /\ z \in Nat /\ z \in Off /\ n < z /\ n + BH <= z /\ ~f[z].free /\ f[z] \in BlockHdr
      /\ \A y \in B \cup {last} : y \in Nat /\ (y <= n \/ z <= y)
  <2>1. z \in B /\ ~f[z].free
    BY <1>3, <1>4, RowNext
  <2>2. f[z] \in BlockHdr
    BY <1>3, <2>1, RowNat
  <2>3. QED  BY <1>3, <1>4, <2>1, <2>2, SideAfter
<1>8. BH \in Nat \ {0}
  BY SizesAssumption
<1>9. x < z /\ x + BH <= z
  BY <1>5, <1>6, <1>7, <1>8
<1>10. n \in DOMAIN W /\ BlockLen(s, n) = W[n] /\ W[n] \in Nat /\ z = n + BH + W[n]
  BY <1>1, <1>2, <1>3, <1>4, FreeSize, LenIs
<1>11. V[x] \in Nat /\ n = x + BH + V[x]
  BY <1>3, <1>4, UsedSize
<1>12. PICK k \in Nat : k = z - x - BH
  BY <1>5, <1>7, <1>8, <1>9
<1>13. k = V[x] + W[n] + BH
  <2>1. PICK i \in Nat : i = V[x]
    BY <1>11
  <2>2. PICK j \in Nat : j = W[n]
    BY <1>10
  <2>3. n = x + BH + i /\ z = n + BH + j
    BY <1>10, <1>11, <2>1, <2>2
  <2>4. k = i + j + BH
    BY <1>5, <1>8, <1>12, <2>3
  <2>5. QED  BY <2>1, <2>2, <2>4
<1>14. PICK R : R = Without(W, n)
  OBVIOUS
<1>15. PICK U : U = Resized(V, x, k)
  OBVIOUS
<1>16. Cleared(R, W, x, z)
  <2>1. ASSUME NEW y \in DOMAIN W PROVE (y < x \/ z <= y) <=> y \notin {n}
    <3>1. y \in B /\ y # x /\ y \in Nat
      BY <1>3, <1>4, <1>6, SizedIs
    <3>2. QED  BY <1>5, <1>6, <1>7, <3>1
  <2>2. Only(W, x, z, {n})
    BY <2>1 DEF Only
  <2>3. QED  BY <1>3, <1>14, <2>2, ClearedIs
<1>17. Cleared(Without(V, x), V, x, z)
  <2>1. ASSUME NEW y \in DOMAIN V PROVE (y < x \/ z <= y) <=> y \notin {x}
    <3>1. y \in B /\ y # n /\ y \in Nat
      BY <1>3, <1>4, <1>6, SizedIs
    <3>2. QED  BY <1>5, <1>6, <1>7, <1>9, <3>1
  <2>2. Only(V, x, z, {x})
    BY <2>1 DEF Only
  <2>3. QED  BY <1>3, <2>2, ClearedIs
<1>18. PICK C : C = {y \in B : y <= x \/ z <= y}
  OBVIOUS
<1>19. Joined(B, C, x, z)
  BY <1>18 DEF Joined
<1>20. PICK v : v = FreeRemove(s, n, W[n])
  OBVIOUS
<1>21. Apart(W) /\ Apart(R) /\ Posts(R) \subseteq Posts(W)
  BY <1>3, <1>14, RowApart, ApartWithout
<1>22. v \in State /\ Pooled(v, R) /\ SameUsed(s, v) /\ Same(s, v, Posts(R))
  BY <1>3, <1>10, <1>14, <1>20, <1>21, FreeRemoveRead
<1>23. PICK g : g = v.file
  OBVIOUS
<1>24. \A y \in B \cup {last} : g[y] = f[y]
  <2>1. \A y \in B \cup {last} : y \in Off /\ y \notin Posts(W)
    BY <1>3, PostsOff, RowNat
  <2>2. QED  BY <1>2, <1>21, <1>22, <1>23, <2>1 DEF Same
<1>25. Row(g, B, last) /\ Sized(g, B, W, V)
  <2>1. Row(g, B, last)
    BY <1>3, <1>24, RowSame
  <2>2. QED  BY <1>3, <1>24, <2>1 DEF Sized
<1>26. PICK u : u = JoinBhdrs(v, x, f[x], z, g[z])
  OBVIOUS
<1>27. g[z] \in BlockHdr /\ g[z] = f[z] /\ g[x] = f[x]
  BY <1>4, <1>7, <1>24
<1>28. Wrote(v, u, {x, z}) /\ IsHdr(u.file[x], FALSE, g[x].prev, z) /\ IsHdr(u.file[z], FALSE, x, g[z].next)
  <2>1. /\ Wrote(v, u, {x, z}) /\ IsHdr(u.file[x], f[x].free, f[x].prev, z)
        /\ IsHdr(u.file[z], g[z].free, x, g[z].next)
    BY <1>5, <1>7, <1>9, <1>22, <1>26, <1>27, JoinIs
  <2>2. f[x].free = FALSE /\ g[z].free = FALSE
    BY <1>4, <1>5, <1>7, <1>27 DEF BlockHdr
  <2>3. QED  BY <1>27, <2>1, <2>2
<1>29. Row(u.file, C, last) /\ Kept(g, u.file, C, x)
  <2>1. Row(v.file, B, last) /\ ~v.file[z].free /\ v \in State
    BY <1>7, <1>22, <1>23, <1>25, <1>27
  <2>2. IsHdr(u.file[x], FALSE, v.file[x].prev, z) /\ IsHdr(u.file[z], FALSE, x, v.file[z].next)
    BY <1>23, <1>28
  <2>3. Row(u.file, C, last) /\ Kept(v.file, u.file, C, x)
    BY <1>4, <1>7, <1>9, <1>19, <1>28, <2>1, <2>2, HdrsJoin
  <2>4. QED  BY <1>23, <2>3
<1>30. Sized(u.file, C, R, U)
  <2>1. ~u.file[x].free /\ u.file[x].next = z
    BY <1>28 DEF IsHdr
  <2>2. Sized(u.file, C, R, Resized(V, x, k))
    BY <1>4, <1>7, <1>9, <1>12, <1>16, <1>17, <1>19, <1>25, <1>29, <2>1, JoinedUsed
  <2>3. QED  BY <1>15, <2>2
<1>31. InRow(u, C, last, R, U)
  BY <1>29, <1>30 DEF InRow
<1>32. u \in State /\ u.hdr = v.hdr /\ u.bands = v.bands /\ Headers(v, u, {x, z})
  BY <1>28 DEF Wrote
<1>33. Pooled(u, R)
  <2>1. OffLists(W, {x, z})
    BY <1>1, <1>4, <1>7, RowOff
  <2>2. OffLists(R, {x, z})
    BY <1>21, <2>1 DEF OffLists
  <2>3. SameFree(v, u)
    BY <1>32 DEF SameFree
  <2>4. QED  BY <1>21, <1>22, <1>32, <2>2, <2>3, PooledUnder
<1>34. SameUsed(s, u)
  BY <1>22, <1>32 DEF SameUsed
<1>35. PICK d \in Int : d = k - V[x]
  BY <1>11
<1>36. t = CountUsed(u, 0, d)
  <2>1. PICK j : j = BlockLen(s, n)
    OBVIOUS
  <2>2. JoinBlocks(s, x) = CountUsed(JoinBhdrs(FreeRemove(s, n, j), x, f[x], z,
                                               FreeRemove(s, n, j).file[z]), 0, j + BH)
    BY <1>2, <1>4, <2>1 DEF JoinBlocks, BlockLen
  <2>3. d = j + BH /\ j = W[n]
    BY <1>8, <1>10, <1>11, <1>13, <1>35, <2>1
  <2>4. QED  BY <1>20, <1>23, <1>26, <2>2, <2>3
<1>37. Counted(t, R, U) /\ t.file = u.file /\ t.hdr.last_off = last
  BY <1>1, <1>15, <1>32, <1>33, <1>34, <1>35, <1>36, ResizedCount
<1>38. Stands(t, C, last, R, U)
  BY <1>29, <1>30, <1>37 DEF Stands, InRow
<1>39. Held(s, t, U)
  <2>1. OffRecords(U, {x, z}) /\ OffPosts(U, R)
    <3>1. {x, z} \subseteq C \cup {last}
      BY <1>4, <1>5, <1>7, <1>18
    <3>2. QED  BY <1>31, <3>1, RowOff
  <2>2. Held(s, s, U)
    BY DEF Held
  <2>3. Held(s, v, U)
    BY <1>22, <2>1, <2>2, HeldLists
  <2>4. Held(v, u, U)
    BY <1>32, <2>1, HeldUnder
  <2>5. QED  BY <1>37, <2>3, <2>4 DEF Held
<1>40. QED  BY <1>13, <1>14, <1>15, <1>38, <1>39

\* The boundary between a record and the free block that follows it moves.
LEMMA ResizeMidIs ==
  ASSUME NEW s, NEW B, NEW last, NEW W, NEW V, Stands(s, B, last, W, V), NEW x \in DOMAIN V,
         NEW n, NEW z, FreeAfter(s.file, B, x, n, z), NEW k \in Nat,
         Splits(k, V[x] + BH + W[n]), NEW t, t = ResizeMid(s, x, k)
  PROVE  \E C, G : Stands(t, C, last, G, Resized(V, x, k)) /\ Held(s, t, Resized(V, x, k))
<1>1. InRow(s, B, last, W, V) /\ Counted(s, W, V) /\ s.hdr.last_off = last
  BY DEF Stands
<1>2. PICK f : f = s.file
  OBVIOUS
<1>3. Row(f, B, last) /\ Sized(f, B, W, V) /\ s \in State /\ Pooled(s, W) /\ Lengths(W) /\ Lengths(V)
  BY <1>1, <1>2 DEF InRow, Counted, Sized
<1>4. x \in B /\ ~f[x].free /\ f[x].next = n /\ n \in B /\ f[n].free /\ f[n].next = z
  BY <1>2, <1>3, SizedIs DEF FreeAfter
<1>5. x \in Off /\ x \in Nat /\ f[x] \in BlockHdr
  BY <1>3, <1>4, RowNat
<1>6. /\ n \in Nat /\ n \in Off /\ x < n /\ x + BH <= n /\ f[n] \in BlockHdr /\ f[n].prev = x
      /\ \A y \in B \cup {last} : y \in Nat /\ (y <= x \/ n <= y)
  BY <1>3, <1>4, SideAfter
<1>7. /\ z \in B /\ z \in Nat /\ z \in Off /\ n < z /\ n + BH <= z /\ ~f[z].free /\ f[z] \in BlockHdr
      /\ \A y \in B \cup {last} : y \in Nat /\ (y <= n \/ z <= y)
  <2>1. z \in B /\ ~f[z].free
    BY <1>3, <1>4, RowNext
  <2>2. f[z] \in BlockHdr
    BY <1>3, <2>1, RowNat
  <2>3. QED  BY <1>3, <1>4, <2>1, <2>2, SideAfter
<1>8. BH \in Nat \ {0}
  BY SizesAssumption
<1>9. x < z /\ x + BH <= z
  BY <1>5, <1>6, <1>7, <1>8
<1>10. n \in DOMAIN W /\ W[n] \in Nat /\ z = n + BH + W[n]
  BY <1>3, <1>4, FreeSize
<1>11. V[x] \in Nat /\ n = x + BH + V[x]
  BY <1>3, <1>4, UsedSize
<1>12. PICK m \in Nat : m = V[x] + BH + W[n]
  BY <1>8, <1>10, <1>11
<1>13. z = x + BH + m /\ Splits(k, m)
  <2>1. PICK i \in Nat : i = V[x]
    BY <1>11
  <2>2. PICK j \in Nat : j = W[n]
    BY <1>10
  <2>3. n = x + BH + i /\ z = n + BH + j /\ m = i + BH + j
    BY <1>10, <1>11, <1>12, <2>1, <2>2
  <2>4. z = x + BH + m
    BY <1>5, <1>8, <2>3
  <2>5. QED  BY <1>12, <2>4
<1>14. PICK e \in Off, r \in Nat :
         /\ e = x + BH + k /\ r = m - k - BH
         /\ x + BH <= e /\ e + BH <= z /\ x < e /\ e < z /\ r = z - e - BH /\ k = e - x - BH
  BY <1>5, <1>7, <1>13, SplitAt
<1>15. e \in Nat
  BY SizesAssumption DEF Off
<1>16. e \notin HdrAt(x) /\ e \notin HdrAt(z) /\ x \notin HdrAt(z)
  BY <1>5, <1>7, <1>8, <1>9, <1>14, <1>15 DEF HdrAt
<1>17. PICK a \in BlockHdr : a = f[n]
  BY <1>6
<1>18. IsHdr(a, TRUE, x, z)
  BY <1>4, <1>6, <1>17 DEF IsHdr, BlockHdr
<1>19. PICK b \in BlockHdr : b = [f[x] EXCEPT !.next = e]
  BY <1>5 DEF BlockHdr, Locator
<1>20. IsHdr(b, FALSE, f[x].prev, e)
  BY <1>4, <1>5, <1>19 DEF IsHdr, BlockHdr
<1>21. PICK d \in BlockHdr : d = [f[z] EXCEPT !.prev = e]
  BY <1>7 DEF BlockHdr, Locator
<1>22. IsHdr(d, FALSE, e, f[z].next)
  BY <1>7, <1>21 DEF IsHdr, BlockHdr
<1>23. PICK u : u = WriteBhdr(WriteBhdr(WriteBhdr(s, e, a), x, b), z, d)
  OBVIOUS
<1>24. Wrote(s, u, {e, x, z}) /\ u.file[e] = a /\ u.file[x] = b /\ u.file[z] = d
  BY <1>3, <1>5, <1>7, <1>16, <1>23, ThreeHdrs
<1>25. u \in State /\ u.hdr = s.hdr /\ u.bands = s.bands /\ Headers(s, u, {e, x, z})
  BY <1>24 DEF Wrote
<1>26. PICK C : C = {y \in B : y <= x \/ z <= y} \cup {e}
  OBVIOUS
<1>27. Parted(B, C, x, e, z)
  BY <1>26 DEF Parted
<1>28. ASSUME NEW y \in B \cup {last}, y < x \/ z < y PROVE u.file[y] = f[y]
  <2>1. y \in Off /\ y \in Nat /\ y \notin HdrAt(x) /\ y \notin HdrAt(z)
    BY <1>3, <1>4, <1>5, <1>6, <1>7, <1>9, <1>28, HdrApart, RowNat
  <2>2. y \notin HdrAt(e)
    BY <1>5, <1>7, <1>8, <1>14, <1>15, <1>28, <2>1 DEF HdrAt
  <2>3. QED  BY <1>2, <1>25, <2>1, <2>2 DEF Headers
<1>29. Row(u.file, C, last)
  <2>1. Outside(f, u.file, B, last, x, z)
    BY <1>28 DEF Outside
  <2>2. /\ IsHdr(u.file[x], FALSE, f[x].prev, e) /\ IsHdr(u.file[e], TRUE, x, z)
        /\ IsHdr(u.file[z], FALSE, e, f[z].next)
    BY <1>18, <1>20, <1>22, <1>24
  <2>3. QED  BY <1>3, <1>4, <1>7, <1>14, <1>27, <2>1, <2>2, RowPart
<1>30. /\ u.file[x].next = e /\ ~u.file[x].free /\ u.file[e].next = z /\ u.file[e].free
       /\ u.file[z].next = f[z].next /\ u.file[z].free = f[z].free
  BY <1>7, <1>18, <1>20, <1>22, <1>24 DEF IsHdr, BlockHdr
<1>31. ASSUME NEW y \in B, y < x \/ z <= y
       PROVE  y \in C /\ y # e /\ u.file[y].free = f[y].free /\ u.file[y].next = f[y].next
  <2>1. y \in Nat /\ y \in C /\ y # e
    BY <1>5, <1>6, <1>7, <1>14, <1>15, <1>26, <1>31
  <2>2. CASE y = z
    BY <1>30, <2>1, <2>2
  <2>3. CASE y # z
    <3>1. u.file[y] = f[y]
      BY <1>7, <1>28, <1>31, <2>1, <2>3
    <3>2. QED  BY <2>1, <3>1
  <2>4. QED  BY <2>2, <2>3
<1>32. \A y \in C : y = e \/ y = x \/ (y \in B /\ (y < x \/ z <= y))
  BY <1>5, <1>6, <1>26
<1>33. PICK R : R = Without(W, n)
  OBVIOUS
<1>34. PICK G : G = With(R, e, r)
  OBVIOUS
<1>35. PICK U : U = Resized(V, x, k)
  OBVIOUS
<1>36. /\ Lengths(R) /\ \A y : y \in DOMAIN R <=> y \in DOMAIN W /\ y # n
       /\ \A y \in DOMAIN W : y # n => R[y] = W[y]
  BY <1>3, <1>33, WithoutIs
<1>37. ASSUME NEW y \in B, y # n, y # x PROVE y < x \/ z <= y
  BY <1>5, <1>6, <1>7, <1>37
<1>38. \A y \in DOMAIN R : y \in B /\ y # n /\ y # x /\ f[y].free /\ R[y] = f[y].next - y - BH
  BY <1>3, <1>4, <1>36 DEF Sized
<1>39. e \notin DOMAIN R
  BY <1>31, <1>37, <1>38
<1>40. /\ Lengths(G) /\ \A y : y \in DOMAIN G <=> y \in DOMAIN R \/ y = e
       /\ G[e] = r /\ \A y \in DOMAIN R : G[y] = R[y]
  BY <1>34, <1>36, <1>39, WithIs
<1>41. /\ Lengths(U) /\ (\A y : y \in DOMAIN U <=> y \in DOMAIN V) /\ U[x] = k
       /\ \A y \in DOMAIN V : y # x => U[y] = V[y]
  BY <1>3, <1>35, ResizedIs
<1>42. Sized(u.file, C, G, U)
  <2>1. ASSUME NEW y \in DOMAIN G
        PROVE  y \in C /\ u.file[y].free /\ G[y] = u.file[y].next - y - BH
    <3>1. CASE y = e
      BY <1>14, <1>26, <1>30, <1>40, <3>1
    <3>2. CASE y # e
      BY <1>31, <1>37, <1>38, <1>40, <3>2
    <3>3. QED  BY <3>1, <3>2
  <2>2. ASSUME NEW y \in DOMAIN U
        PROVE  y \in C /\ ~u.file[y].free /\ U[y] = u.file[y].next - y - BH
    <3>1. CASE y = x
      BY <1>4, <1>5, <1>14, <1>26, <1>30, <1>41, <3>1
    <3>2. CASE y # x
      <4>1. y \in DOMAIN V /\ U[y] = V[y] /\ y \in B /\ ~f[y].free /\ V[y] = f[y].next - y - BH
        BY <1>3, <1>41, <3>2 DEF Sized
      <4>2. y < x \/ z <= y
        BY <1>4, <1>37, <3>2, <4>1
      <4>3. QED  BY <1>31, <4>1, <4>2
    <3>3. QED  BY <3>1, <3>2
  <2>3. ASSUME NEW y \in C PROVE IF u.file[y].free THEN y \in DOMAIN G ELSE y \in DOMAIN U
    <3>1. CASE y = e
      BY <1>30, <1>40, <3>1
    <3>2. CASE y = x
      BY <1>30, <1>41, <3>2
    <3>3. CASE y \in B /\ (y < x \/ z <= y)
      <4>1. y # n /\ y # x
        BY <1>5, <1>6, <1>7, <1>9, <3>3
      <4>2. IF f[y].free THEN y \in DOMAIN W ELSE y \in DOMAIN V
        BY <1>3, <3>3 DEF Sized
      <4>3. u.file[y].free = f[y].free
        BY <1>31, <3>3
      <4>4. QED  BY <1>36, <1>40, <1>41, <4>1, <4>2, <4>3
    <3>4. QED  BY <1>32, <3>1, <3>2, <3>3
  <2>4. QED  BY <1>40, <1>41, <2>1, <2>2, <2>3 DEF Sized
<1>43. InRow(u, C, last, G, U)
  BY <1>29, <1>42 DEF InRow
<1>44. OffLists(G, {e, x, z}) /\ OffRecords(U, {e, x, z}) /\ OffPosts(U, G)
  <2>1. {e, x, z} \subseteq C \cup {last}
    BY <1>4, <1>5, <1>7, <1>26
  <2>2. QED  BY <1>43, <2>1, RowOff
<1>45. PICK pos : pos = FilePos(s, W)
  OBVIOUS
<1>46. PooledAs(u, W, pos)
  BY <1>3, <1>25, <1>45 DEF Pooled, PooledAs
<1>47. Apart(W) /\ Apart(G)
  BY <1>3, <1>29, <1>42, RowApart
<1>48. ASSUME NEW y \in Listed(W) \ {n} PROVE u.file[y + BH] = pos[y]
  <2>1. y \in Listed(G) /\ y \in DOMAIN W
    BY <1>36, <1>40 DEF Listed
  <2>2. y + BH \in Off /\ y + BH \in Posts(G)
    BY <1>47, <2>1, ApartIs
  <2>3. u.file[y + BH] = s.file[y + BH]
    BY <1>25, <1>44, <2>2 DEF OffLists, Headers
  <2>4. QED  BY <1>45, <2>1, <2>3 DEF FilePos
<1>49. PICK w : w = MoveFree(u, pos[n], e, W[n], r)
  OBVIOUS
<1>50. w \in State /\ Pooled(w, G) /\ SameUsed(u, w) /\ Same(u, w, Posts(G))
  <2>1. Apart(With(Without(W, n), e, r)) /\ e \notin DOMAIN Without(W, n)
    BY <1>33, <1>34, <1>39, <1>47
  <2>2. /\ w \in State /\ Pooled(w, With(Without(W, n), e, r)) /\ SameUsed(u, w)
        /\ Same(u, w, Posts(With(Without(W, n), e, r)))
    BY <1>10, <1>25, <1>46, <1>47, <1>48, <1>49, <2>1, MoveFreeIs
  <2>3. QED  BY <1>33, <1>34, <2>2
<1>51. SameUsed(s, w)
  BY <1>25, <1>50 DEF SameUsed
<1>52. PICK c \in Int : c = k - V[x]
  BY <1>11
<1>53. t = CountUsed(w, 0, c)
  <2>1. pos[n] = ReadFreepos(s, n)
    BY <1>10, <1>45 DEF FilePos, ReadFreepos
  <2>2. DataLen(f[n], n) = W[n] /\ DataLen(f[x], x) = V[x]
    BY <1>1, <1>2, <1>4, LenIs
  <2>3. /\ b = [s.file[x] EXCEPT !.next = e] /\ d = [s.file[z] EXCEPT !.prev = e] /\ a = s.file[n]
        /\ n = s.file[x].next /\ z = s.file[n].next
    BY <1>2, <1>4, <1>17, <1>19, <1>21
  <2>4. ResizeMid(s, x, k) =
          CountUsed(MoveFree(WriteBhdr(WriteBhdr(WriteBhdr(s, e, a), x, b), z, d),
                             ReadFreepos(s, n), e, DataLen(s.file[n], n), z - e - BH),
                    0, k - DataLen(s.file[x], x))
    BY <1>14, <2>3, Zenon DEF ResizeMid
  <2>5. QED  BY <1>2, <1>14, <1>23, <1>49, <1>52, <2>1, <2>2, <2>4
<1>54. Counted(t, G, U) /\ t.file = w.file /\ t.hdr.last_off = last
  BY <1>1, <1>35, <1>50, <1>51, <1>52, <1>53, ResizedCount
<1>55. Same(u, t, Posts(G))
  BY <1>50, <1>54 DEF Same
<1>56. Stands(t, C, last, G, U)
  BY <1>43, <1>54, <1>55, Standing
<1>57. Held(s, t, U)
  <2>1. Held(s, u, U)
    BY <1>25, <1>44, HeldUnder
  <2>2. QED  BY <1>44, <1>55, <2>1, HeldLists
<1>58. QED  BY <1>35, <1>56, <1>57

-----------------------------------------------------------------------------
(* Allocating.                                                             *)

\* The first block of a band that has any is a free block.
LEMMA FirstIs ==
  ASSUME NEW s, NEW W, Pooled(s, W), DOMAIN W \subseteq Off, NEW b \in Band, s.bands[b].count > 0
  PROVE  s.bands[b].first \in DOMAIN W
<1>1. PICK S : S = DOMAIN InBand(W, b)
  OBVIOUS
<1>2. /\ Linked(s.bands[b].first, s.bands[b].last, FilePos(s, W), S)
      /\ Weighs(s.bands[b].count, s.bands[b].space, InBand(W, b))
  BY <1>1 DEF Pooled, PooledAs
<1>3. S \subseteq DOMAIN W /\ S \subseteq Off
  BY <1>1 DEF InBand
<1>4. S # {}
  <2>1. s.bands[b].count # 0
    OBVIOUS
  <2>2. QED  BY <1>1, <1>2, <2>1, WeighsNat
<1>5. s.bands[b].first \in S \cup {RECLOCATOR_MAX} /\ s.bands[b].first # RECLOCATOR_MAX
  <2>1. PICK first : first = s.bands[b].first
    OBVIOUS
  <2>2. \E z, pos : Linked(first, z, pos, S)
    BY <1>2, <2>1
  <2>3. PICK z, pos : Linked(first, z, pos, S)
    BY <2>2
  <2>4. S \subseteq Off
    BY <1>3
  <2>5. first \in S \cup {RECLOCATOR_MAX} /\ (S = {} <=> first = RECLOCATOR_MAX)
    BY <2>3, <2>4, LinkedIs
  <2>6. QED  BY <1>4, <2>1, <2>5
<1>6. QED  BY <1>3, <1>5

\* A new record is made at the end or of a free block that is long enough.
LEMMA AllocWhere ==
  ASSUME NEW s, NEW B, NEW last, NEW W, NEW V, Stands(s, B, last, W, V), NEW len \in Nat
  PROVE  \/ /\ AllocRec(s, len).loc = last
            /\ AllocRec(s, len).s = AllocAtEnd(s, len)
         \/ \E x \in DOMAIN W :
              /\ AllocRec(s, len).loc = x /\ len <= W[x]
              /\ AllocRec(s, len).s = IF Splits(len, W[x]) THEN SplitFree(s, x, len)
                                                           ELSE ReuseBlock(s, x)
<1>1. PICK b : b = Min({i \in Band : s.bands[i].count > 0} \cup {NoBand})
  OBVIOUS
<1>2. PICK x : x = s.bands[b].first
  OBVIOUS
<1>3. PICK room : room = BlockLen(s, x)
  OBVIOUS
<1>4. PICK far \in BOOLEAN : far <=> (b = NoBand \/ (b > 1 /\ len >= MinSize[b - 1]) \/ len > room)
  OBVIOUS
<1>5. AllocRec(s, len) =
        IF far THEN [loc |-> s.hdr.last_off, s |-> AllocAtEnd(s, len)]
        ELSE [loc |-> x, s |-> IF Splits(len, room) THEN SplitFree(s, x, len)
                                                    ELSE ReuseBlock(s, x)]
  BY <1>1, <1>2, <1>3, <1>4 DEF AllocRec
<1>6. InRow(s, B, last, W, V) /\ Counted(s, W, V) /\ s.hdr.last_off = last
  BY DEF Stands
<1>7. CASE far
  BY <1>5, <1>6, <1>7
<1>8. CASE ~far
  <2>1. PICK C : C = {i \in Band : s.bands[i].count > 0}
    OBVIOUS
  <2>2. b \in C \cup {NoBand}
    <3>1. C \cup {NoBand} \subseteq Nat /\ C \cup {NoBand} # {}
      BY <2>1, Bands
    <3>2. b = Min(C \cup {NoBand})
      BY <1>1, <2>1
    <3>3. QED  BY <3>1, <3>2, MinIs
  <2>3. b \in Band /\ s.bands[b].count > 0
    BY <1>4, <1>8, <2>1, <2>2
  <2>4. Row(s.file, B, last) /\ Sized(s.file, B, W, V) /\ Pooled(s, W)
    BY <1>6 DEF InRow, Counted
  <2>5. Apart(W)
    BY <2>4, RowApart
  <2>6. x \in DOMAIN W
    <3>1. DOMAIN W \subseteq Off
      BY <2>5 DEF Apart
    <3>2. QED  BY <1>2, <2>3, <2>4, <3>1, FirstIs
  <2>7. x \in B /\ s.file[x].free
    BY <2>4, <2>6, SizedIs
  <2>8. room = W[x] /\ W[x] \in Nat
    <3>1. BlockLen(s, x) = W[x]
      BY <1>6, <2>7, LenIs
    <3>2. QED  BY <1>3, <2>5, <2>6, <3>1 DEF Apart
  <2>9. len <= W[x]
    BY <1>4, <1>8, <2>8
  <2>10. QED  BY <1>5, <1>8, <2>6, <2>8, <2>9
<1>9. QED  BY <1>7, <1>8

\* A storage that ends at e, whatever is in its file and its counts.
Shaped(s, e) ==
  /\ "file" \in DOMAIN s /\ "bands" \in DOMAIN s /\ "hdr" \in DOMAIN s
  /\ "last_off" \in DOMAIN s.hdr /\ s.hdr.last_off = e

\* Where such a storage ends.
LEMMA ShapedEnd ==
  ASSUME NEW s, NEW e, Shaped(s, e)
  PROVE  s.hdr.last_off = e
  BY DEF Shaped

\* A storage is one.
LEMMA StateShaped ==
  ASSUME NEW s \in State, NEW e, s.hdr.last_off = e
  PROVE  Shaped(s, e)
  BY DEF State, FileHdr, Shaped

\* So is what has another file, other bands or other counts.
LEMMA ShapedWith ==
  ASSUME NEW s, NEW e, Shaped(s, e), NEW f, NEW b, NEW u, NEW v, NEW p, NEW q
  PROVE  /\ Shaped([s EXCEPT !.file = f], e) /\ Shaped([s EXCEPT !.bands = b], e)
         /\ Shaped([s EXCEPT !.hdr.used_count = u, !.hdr.used_space = p], e)
         /\ Shaped([s EXCEPT !.hdr.free_count = v, !.hdr.free_space = q], e)
  BY DEF Shaped

\* Writing does not move the end.
LEMMA WriteShaped ==
  ASSUME NEW s, NEW e, Shaped(s, e), NEW at, NEW cells
  PROVE  Shaped(Write(s, at, cells), e)
<1>1. PICK g : Write(s, at, cells) = [s EXCEPT !.file = g]
  BY DEF Write
<1>2. QED  BY <1>1, ShapedWith

\* Nor does counting.
LEMMA CountShaped ==
  ASSUME NEW s, NEW e, Shaped(s, e), NEW n, NEW k
  PROVE  /\ Shaped(CountUsed(s, n, k), e)
         /\ \A band : Shaped(CountFree(s, band, n, k), e)
<1>1. Shaped(CountUsed(s, n, k), e)
  BY DEF CountUsed, Shaped
<1>2. ASSUME NEW band PROVE Shaped(CountFree(s, band, n, k), e)
  <2>1. PICK t : t = [s EXCEPT !.hdr.free_count = @ + n, !.hdr.free_space = @ + k]
    OBVIOUS
  <2>2. PICK v, q : t = [s EXCEPT !.hdr.free_count = v, !.hdr.free_space = q]
    BY <2>1
  <2>3. Shaped(t, e)
    BY <2>2, ShapedWith
  <2>4. CASE band = NoBand
    BY <2>1, <2>3, <2>4 DEF CountFree
  <2>5. CASE band # NoBand
    <3>1. CountFree(s, band, n, k) = [t EXCEPT !.bands[band].count = @ + n,
                                               !.bands[band].space = @ + k]
      BY <2>1, <2>5 DEF CountFree
    <3>2. Shaped([t EXCEPT !.bands[band].count = @ + n, !.bands[band].space = @ + k], e)
      BY <2>3 DEF Shaped
    <3>3. QED  BY <3>1, <3>2
  <2>6. QED  BY <2>4, <2>5
<1>3. QED  BY <1>1, <1>2

\* Nor do the lists.
LEMMA ListShaped ==
  ASSUME NEW s, NEW e, Shaped(s, e), NEW loc
  PROVE  \A len : /\ Shaped(FreeRemove(s, loc, len), e) /\ Shaped(FreeAdd(s, loc, len), e)
                  /\ \A old : Shaped(GrowFree(s, loc, old, len), e)
<1>1. ASSUME NEW t, Shaped(t, e), NEW band, NEW a, NEW to
      PROVE  Shaped(SetNextFree(t, band, a, to), e) /\ Shaped(SetPrevFree(t, band, a, to), e)
  <2>1. CASE a = RECLOCATOR_MAX
    BY <1>1, <2>1 DEF Shaped, SetNextFree, SetPrevFree
  <2>2. CASE a # RECLOCATOR_MAX
    BY <1>1, <2>2, WriteShaped DEF SetNextFree, SetPrevFree, WriteFreepos
  <2>3. QED  BY <2>1, <2>2
<1>2. ASSUME NEW t, Shaped(t, e), NEW len PROVE Shaped(FreeAdd(t, loc, len), e)
  <2>1. PICK band : band = CalcBand(len)
    OBVIOUS
  <2>2. PICK last, new : FreeAdd(t, loc, len) =
          CountFree(IF band = NoBand THEN t
                    ELSE [WriteFreepos(SetNextFree(t, band, last, loc), loc, new)
                            EXCEPT !.bands[band].last = loc], band, 1, len)
    BY <2>1 DEF FreeAdd
  <2>3. PICK u : u = WriteFreepos(SetNextFree(t, band, last, loc), loc, new)
    OBVIOUS
  <2>4. Shaped(u, e)
    BY <1>1, <1>2, <2>3, WriteShaped DEF WriteFreepos
  <2>5. Shaped([u EXCEPT !.bands[band].last = loc], e)
    BY <2>4 DEF Shaped
  <2>6. PICK w : w = IF band = NoBand THEN t ELSE [u EXCEPT !.bands[band].last = loc]
    OBVIOUS
  <2>7. Shaped(w, e) /\ FreeAdd(t, loc, len) = CountFree(w, band, 1, len)
    BY <1>2, <2>2, <2>3, <2>5, <2>6
  <2>8. QED  BY <2>7, CountShaped
<1>3. ASSUME NEW len PROVE Shaped(FreeRemove(s, loc, len), e)
  <2>1. PICK band : band = CalcBand(len)
    OBVIOUS
  <2>2. PICK p, n : FreeRemove(s, loc, len) =
          CountFree(IF band = NoBand THEN s
                    ELSE SetPrevFree(SetNextFree(s, band, p, n), band, n, p), band, -1, -len)
    BY <2>1 DEF FreeRemove, FreeRemoveRec
  <2>3. Shaped(SetPrevFree(SetNextFree(s, band, p, n), band, n, p), e)
    BY <1>1
  <2>4. QED  BY <2>2, <2>3, CountShaped
<1>4. ASSUME NEW len, NEW old PROVE Shaped(GrowFree(s, loc, old, len), e)
  BY <1>2, <1>3, CountShaped DEF GrowFree
<1>5. QED  BY <1>2, <1>3, <1>4

\* Where the end is after a record was appended.
LEMMA EndMoved ==
  ASSUME NEW s \in State, NEW k \in Int, NEW e, e = s.hdr.last_off + BH + k
  PROVE  Shaped(AllocAtEnd(s, k), e)
<1>1. PICK z : z = s.hdr.last_off
  OBVIOUS
<1>2. PICK g : g = z + BH + k
  OBVIOUS
<1>3. PICK r : r = [s EXCEPT !.hdr.last_off = g]
  OBVIOUS
<1>4. Shaped(r, g)
  <2>1. Shaped(s, z)
    BY <1>1, StateShaped
  <2>2. QED  BY <1>3, <2>1 DEF Shaped
<1>5. PICK a, b, d : AllocAtEnd(s, k) = CountUsed(WriteBhdr(WriteBhdr(r, a, b), g, d), 1, k)
  BY <1>1, <1>2, <1>3 DEF AllocAtEnd
<1>6. Shaped(WriteBhdr(WriteBhdr(r, a, b), g, d), g)
  BY <1>4, WriteShaped DEF WriteBhdr
<1>7. Shaped(AllocAtEnd(s, k), g)
  BY <1>5, <1>6, CountShaped
<1>8. QED  BY <1>1, <1>2, <1>7

\* Locator x is of a new record, of length k, of those of V.
Alloced(s, t, x, V, len) ==
  \E C, l, G : \E k \in Nat :
    /\ len <= k /\ x \notin DOMAIN V
    /\ Stands(t, C, l, G, With(V, x, k)) /\ Held(s, t, V)

\* There is room for it, at the end of the file if that is where it goes.
Room(s, last, len) == AllocRec(s, len).loc = last => last + BH + len \in Off

\* What allocRec does.
LEMMA AllocRecIs ==
  ASSUME NEW s, NEW B, NEW last, NEW W, NEW V, Stands(s, B, last, W, V), NEW len \in Nat,
         Room(s, last, len)
  PROVE  Alloced(s, AllocRec(s, len).s, AllocRec(s, len).loc, V, len)
<1>1. InRow(s, B, last, W, V) /\ Counted(s, W, V) /\ s.hdr.last_off = last
  BY DEF Stands
<1>2. Row(s.file, B, last) /\ Sized(s.file, B, W, V)
  BY <1>1 DEF InRow
<1>3. s \in State
  BY <1>1 DEF Counted
<1>4. CASE AllocRec(s, len).loc = last /\ AllocRec(s, len).s = AllocAtEnd(s, len)
  <2>1. PICK t : t = AllocAtEnd(s, len)
    OBVIOUS
  <2>2. last \in Nat
    BY <1>2, RowNat
  <2>3. last + BH + len \in Off
    BY <1>4 DEF Room
  <2>4. Stands(t, B \cup {last}, last + BH + len, W, With(V, last, len)) /\ Held(s, t, V)
    BY <2>1, <2>3, AllocAtEndIs
  <2>5. last \notin DOMAIN V
    <3>1. \A x \in DOMAIN V : x \in B
      BY <1>2, SizedIs
    <3>2. last \notin B
      BY <1>2, <2>2, RowNat
    <3>3. QED  BY <3>1, <3>2
  <2>6. len <= len
    OBVIOUS
  <2>7. Alloced(s, t, last, V, len)
    BY <2>4, <2>5, <2>6 DEF Alloced
  <2>8. QED  BY <1>4, <2>1, <2>7
<1>5. ASSUME NEW x \in DOMAIN W, len <= W[x],
             AllocRec(s, len).loc = x,
             AllocRec(s, len).s = IF Splits(len, W[x]) THEN SplitFree(s, x, len)
                                                       ELSE ReuseBlock(s, x)
      PROVE  Alloced(s, AllocRec(s, len).s, AllocRec(s, len).loc, V, len)
  <2>1. x \in B /\ s.file[x].free
    BY <1>2, SizedIs
  <2>2. x \notin DOMAIN V /\ W[x] \in Nat
    BY <1>2, <2>1, FreeSize
  <2>3. CASE Splits(len, W[x])
    <3>1. PICK t : t = SplitFree(s, x, len)
      OBVIOUS
    <3>2. PICK m \in Off, r \in Nat :
            Stands(t, B \cup {m}, last, With(Without(W, x), m, r), With(V, x, len)) /\ Held(s, t, V)
      BY <2>3, <3>1, SplitFreeIs
    <3>3. len <= len
      OBVIOUS
    <3>4. Alloced(s, t, x, V, len)
      BY <2>2, <3>2, <3>3 DEF Alloced
    <3>5. QED  BY <1>5, <2>3, <3>1, <3>4
  <2>4. CASE ~Splits(len, W[x])
    <3>1. PICK t : t = ReuseBlock(s, x)
      OBVIOUS
    <3>2. Stands(t, B, last, Without(W, x), With(V, x, W[x])) /\ Held(s, t, V)
      BY <3>1, ReuseBlockIs
    <3>3. PICK k \in Nat : k = W[x]
      BY <2>2
    <3>4. len <= k
      BY <1>5, <3>3
    <3>5. Stands(t, B, last, Without(W, x), With(V, x, k))
      BY <3>2, <3>3
    <3>6. Alloced(s, t, x, V, len)
      BY <2>2, <3>2, <3>4, <3>5 DEF Alloced
    <3>7. QED  BY <1>5, <2>4, <3>1, <3>6
  <2>5. QED  BY <2>3, <2>4
<1>6. QED  BY <1>4, <1>5, AllocWhere

-----------------------------------------------------------------------------
(* Moving data.                                                            *)

\* t is s but for data of the block at x, of length k.
Filled(s, t, x, k) ==
  /\ t \in State /\ t.hdr = s.hdr /\ t.bands = s.bands
  /\ \A c \in Off : c \notin DataAt(x, k) => t.file[c] = s.file[c]

\* n cells are those from `from` on.
Copied(cells, n, s, from) ==
  /\ cells \in [1 .. n -> Cell]
  /\ \A i \in 1 .. n : from + i - 1 \in Off => cells[i] = s.file[from + i - 1]

\* n cells lie from `from` to `to`.
Spans(n, from, to) == (from <= to => n = to - from) /\ (to <= from => n = 0)

\* They have their place in the data of the block at x, of length k.
Inside(at, n, x, k) == n = 0 \/ (x + BH <= at /\ at + n <= x + BH + k)

\* What is read.
LEMMA ReadIs ==
  ASSUME NEW s \in State, NEW from \in Int, NEW to \in Int
  PROVE  \E n \in Nat : Copied(Read(s, from, to), n, s, from) /\ Spans(n, from, to)
<1>1. PICK n \in Nat : n = Max({0, to - from}) /\ (from <= to => n = to - from)
                                            /\ (to <= from => n = 0)
  <2>1. PICK d \in Int : d = to - from
    OBVIOUS
  <2>2. \E x \in {0, d} : \A y \in {0, d} : x >= y
    OBVIOUS
  <2>3. Max({0, d}) \in {0, d} /\ \A y \in {0, d} : Max({0, d}) >= y
    BY <2>2 DEF Max
  <2>4. PICK m \in {0, d} : m = Max({0, d}) /\ m >= 0 /\ m >= d
    BY <2>3
  <2>5. m \in Nat /\ (from <= to => m = to - from) /\ (to <= from => m = 0)
    BY <2>1, <2>4
  <2>6. QED  BY <2>1, <2>4, <2>5
<1>2. PICK cells : cells = Read(s, from, to)
  OBVIOUS
<1>3. cells = [i \in 1 .. n |-> IF from + i - 1 \in Off THEN s.file[from + i - 1] ELSE Junk]
  BY <1>1, <1>2 DEF Read
<1>4. s.file \in [Off -> Cell] /\ Junk \in Cell
  BY DEF State, Cell
<1>5. Copied(cells, n, s, from)
  BY <1>3, <1>4 DEF Copied
<1>6. Spans(n, from, to)
  BY <1>1 DEF Spans
<1>7. QED  BY <1>2, <1>5, <1>6

\* Cells that are written in the data of a block.
LEMMA FilledIs ==
  ASSUME NEW s \in State, NEW at \in Int, NEW n \in Nat, NEW cells \in [1 .. n -> Cell],
         NEW x \in Nat, NEW k \in Nat, Inside(at, n, x, k)
  PROVE  Filled(s, Write(s, at, cells), x, k)
<1>1. /\ Write(s, at, cells) \in State
      /\ Write(s, at, cells).hdr = s.hdr /\ Write(s, at, cells).bands = s.bands
  BY WriteIs
<1>2. \A c \in Off : c \notin at .. at + n - 1 => Write(s, at, cells).file[c] = s.file[c]
  BY WriteIs
<1>3. ASSUME NEW c \in Off, c \notin DataAt(x, k) PROVE c \notin at .. at + n - 1
  <2>1. c \in Nat /\ BH \in Nat
    BY SizesAssumption DEF Off
  <2>2. n = 0 \/ (x + BH <= at /\ at + n <= x + BH + k)
    BY DEF Inside
  <2>3. QED  BY <1>3, <2>1, <2>2 DEF DataAt
<1>4. QED  BY <1>1, <1>3, <1>2 DEF Filled

\* More cells of them.
LEMMA FilledMore ==
  ASSUME NEW s, NEW t, NEW u, NEW x, NEW k, Filled(s, t, x, k), Filled(t, u, x, k)
  PROVE  Filled(s, u, x, k)
  BY DEF Filled

\* Data that is moved into a block.
LEMMA MovedIn ==
  ASSUME NEW s \in State, NEW src \in Int, NEW end \in Int, NEW dst \in Int,
         NEW x \in Nat, NEW k \in Nat,
         \A n \in Nat : Spans(n, src, end) => Inside(dst, n, x, k)
  PROVE  Filled(s, MoveData(s, src, end, dst), x, k)
<1>1. PICK n \in Nat : Copied(Read(s, src, end), n, s, src) /\ Spans(n, src, end)
  BY ReadIs
<1>2. Read(s, src, end) \in [1 .. n -> Cell]
  BY <1>1 DEF Copied
<1>3. Inside(dst, n, x, k)
  BY <1>1
<1>4. Filled(s, Write(s, dst, Read(s, src, end)), x, k)
  BY <1>2, <1>3, FilledIs
<1>5. QED  BY <1>4 DEF MoveData

\* The lesser of two numbers.
LEMMA MinOf ==
  ASSUME NEW a \in Int, NEW b \in Int
  PROVE  Min({a, b}) \in {a, b} /\ Min({a, b}) <= a /\ Min({a, b}) <= b /\ Min({a, b}) \in Int
<1>1. \E x \in {a, b} : \A y \in {a, b} : x <= y
  OBVIOUS
<1>2. Min({a, b}) \in {a, b} /\ \A y \in {a, b} : Min({a, b}) <= y
  BY <1>1 DEF Min
<1>3. QED  BY <1>2

\* A record that is moved into a block.
LEMMA MoveRecIs ==
  ASSUME NEW s \in State, NEW src \in Nat, NEW len \in Nat, NEW dst \in Nat, NEW k \in Nat,
         BlockLen(s, dst) = k
  PROVE  Filled(s, MoveRec(s, src, len, dst), dst, k)
<1>1. PICK m : m = Min({len, k})
  OBVIOUS
<1>2. m \in Nat /\ m <= k
  BY <1>1, MinOf
<1>3. BH \in Nat
  BY SizesAssumption
<1>4. PICK a \in Int, e \in Int, d \in Int : a = src + BH /\ e = src + BH + m /\ d = dst + BH
  BY <1>2, <1>3
<1>5. MoveRec(s, src, len, dst) = MoveData(s, a, e, d)
  BY <1>1, <1>4 DEF MoveRec
<1>6. ASSUME NEW n \in Nat, Spans(n, a, e) PROVE Inside(d, n, dst, k)
  <2>1. n = m
    BY <1>2, <1>3, <1>4, <1>6 DEF Spans
  <2>2. QED  BY <1>2, <1>3, <1>4, <2>1 DEF Inside
<1>7. Filled(s, MoveData(s, a, e, d), dst, k)
  BY <1>6, MovedIn
<1>8. QED  BY <1>5, <1>7

\* What may be asked of sliceRec; the data are m cells.
Asked(x, m) ==
  /\ m \in Nat /\ x.data \in [1 .. m -> Values]
  /\ x.off \in Nat /\ x.cut \in Nat /\ x.full \in Nat
  /\ x.cut > 0 => x.off + x.cut <= x.full

\* Cells that are all the same.
LEMMA FillIs ==
  ASSUME NEW s \in State, NEW at \in Int, NEW n \in Int, NEW v \in Cell, NEW x \in Nat, NEW k \in Nat,
         Inside(at, n, x, k)
  PROVE  Filled(s, Write(s, at, Fill(n, v)), x, k)
<1>1. PICK m \in Nat : m = (IF n > 0 THEN n ELSE 0) /\ 1 .. m = 1 .. n
  OBVIOUS
<1>2. Fill(n, v) = [i \in 1 .. m |-> v]
  BY <1>1 DEF Fill
<1>3. Fill(n, v) \in [1 .. m -> Cell]
  BY <1>2
<1>4. Inside(at, m, x, k)
  BY <1>1 DEF Inside
<1>5. QED  BY <1>3, <1>4, FilledIs

\* The splice of a record into a block that is long enough.
LEMMA MoveAndFillIs ==
  ASSUME NEW s \in State, NEW src \in Nat, NEW dst \in Nat, NEW x, NEW m, Asked(x, m),
         NEW k \in Nat, SliceLen(x) <= k
  PROVE  Filled(s, MoveAndFill(s, src, dst, x), dst, k)
<1>1. PICK off \in Nat, cut \in Nat, full \in Nat : off = x.off /\ cut = x.cut /\ full = x.full
  BY DEF Asked
<1>2. PICK cells \in [1 .. m -> Values] : cells = x.data
  BY DEF Asked
<1>3. m \in Nat /\ Len(cells) = m /\ (cut > 0 => off + cut <= full)
  <2>1. m \in Nat /\ (cut > 0 => off + cut <= full)
    BY <1>1 DEF Asked
  <2>2. QED  BY <2>1
<1>4. PICK len \in Int : len = (IF off > full THEN off + m ELSE full + m - cut)
  <2>1. off + m \in Int /\ full + m - cut \in Int
    BY <1>3
  <2>2. (IF off > full THEN off + m ELSE full + m - cut) \in Int
    BY <2>1
  <2>3. QED  BY <2>2
<1>5. len <= k
  BY <1>1, <1>2, <1>3, <1>4 DEF SliceLen
<1>6. BH \in Nat
  BY SizesAssumption
<1>7. PICK kept \in Nat : /\ kept = Min({off, full}) /\ kept <= off /\ kept <= full
                         /\ (kept = off \/ kept = full)
  <2>1. off \in Int /\ full \in Int
    OBVIOUS
  <2>2. Min({off, full}) \in {off, full} /\ Min({off, full}) <= off /\ Min({off, full}) <= full
    BY <2>1, MinOf
  <2>3. QED  BY <2>2
<1>8. PICK head : head = MoveData(s, src + BH, src + BH + kept, dst + BH)
  OBVIOUS
<1>9. PICK gap : gap = Write(head, dst + BH + kept, Fill(off - kept, Junk))
  OBVIOUS
<1>10. PICK tail : tail = MoveData(gap, src + BH + off + cut, src + BH + full, dst + BH + off + m)
  OBVIOUS
<1>11. PICK u : u = Write(tail, dst + BH + off, cells)
  OBVIOUS
<1>12. MoveAndFill(s, src, dst, x) = u
  BY <1>1, <1>2, <1>3, <1>7, <1>8, <1>9, <1>10, <1>11 DEF MoveAndFill
<1>13. Filled(s, head, dst, k)
  <2>1. PICK a \in Int, e \in Int, d \in Int : a = src + BH /\ e = src + BH + kept /\ d = dst + BH
    BY <1>6
  <2>2. ASSUME NEW n \in Nat, Spans(n, a, e) PROVE Inside(d, n, dst, k)
    <3>1. n = kept
      BY <1>6, <2>1, <2>2 DEF Spans
    <3>2. kept <= len
      BY <1>3, <1>4, <1>7
    <3>3. QED  BY <1>5, <1>6, <2>1, <3>1, <3>2 DEF Inside
  <2>3. Filled(s, MoveData(s, a, e, d), dst, k)
    BY <2>2, MovedIn
  <2>4. QED  BY <1>8, <2>1, <2>3
<1>14. Filled(s, gap, dst, k)
  <2>1. head \in State
    BY <1>13 DEF Filled
  <2>2. PICK d \in Int, n \in Int : d = dst + BH + kept /\ n = off - kept
    BY <1>6
  <2>3. Inside(d, n, dst, k)
    <3>1. CASE off > full
      <4>1. d + n = dst + BH + off /\ off <= len
        BY <1>3, <1>4, <1>6, <1>7, <2>2, <3>1
      <4>2. d + n <= dst + BH + k /\ dst + BH <= d
        BY <1>5, <1>6, <2>2, <4>1
      <4>3. QED  BY <4>2 DEF Inside
    <3>2. CASE off <= full
      <4>1. n = 0
        BY <1>7, <2>2, <3>2
      <4>2. QED  BY <4>1 DEF Inside
    <3>3. QED  BY <3>1, <3>2
  <2>4. Junk \in Cell
    BY DEF Cell
  <2>5. Filled(head, Write(head, d, Fill(n, Junk)), dst, k)
    BY <2>1, <2>3, <2>4, FillIs
  <2>6. Filled(head, gap, dst, k)
    BY <1>9, <2>2, <2>5
  <2>7. QED  BY <1>13, <2>6, FilledMore
<1>15. Filled(s, tail, dst, k)
  <2>1. gap \in State
    BY <1>14 DEF Filled
  <2>2. PICK a \in Int, e \in Int, d \in Int : a = src + BH + off + cut /\ e = src + BH + full
                                             /\ d = dst + BH + off + m
    BY <1>3, <1>6
  <2>3. ASSUME NEW n \in Nat, Spans(n, a, e) PROVE Inside(d, n, dst, k)
    <3>1. n = 0 \/ (n = full - off - cut /\ n > 0)
      BY <1>6, <2>2, <2>3 DEF Spans
    <3>2. QED  BY <1>3, <1>4, <1>5, <1>6, <2>2, <3>1 DEF Inside
  <2>4. Filled(gap, MoveData(gap, a, e, d), dst, k)
    BY <2>1, <2>3, MovedIn
  <2>5. Filled(gap, tail, dst, k)
    BY <1>10, <2>2, <2>4
  <2>6. QED  BY <1>14, <2>5, FilledMore
<1>16. Filled(s, u, dst, k)
  <2>1. tail \in State
    BY <1>15 DEF Filled
  <2>2. PICK d \in Int : d = dst + BH + off
    BY <1>6
  <2>3. Inside(d, m, dst, k)
    BY <1>3, <1>4, <1>5, <1>6, <2>2 DEF Inside
  <2>4. cells \in [1 .. m -> Cell]
    BY <1>3 DEF Cell
  <2>5. Filled(tail, Write(tail, d, cells), dst, k)
    BY <1>3, <2>1, <2>3, <2>4, FilledIs
  <2>6. Filled(tail, u, dst, k)
    BY <1>11, <2>2, <2>5
  <2>7. QED  BY <1>15, <2>6, FilledMore
<1>17. QED  BY <1>12, <1>16

\* Headers and lists do not change with the data of records.
LEMMA DataStands ==
  ASSUME NEW s, NEW B, NEW last, NEW W, NEW V, Stands(s, B, last, W, V), NEW x \in DOMAIN V,
         NEW t, Filled(s, t, x, V[x])
  PROVE  /\ Stands(t, B, last, W, V) /\ Held(s, t, Without(V, x))
         /\ \A y \in B \cup {last} : t.file[y] = s.file[y]
<1>1. InRow(s, B, last, W, V) /\ Counted(s, W, V) /\ s.hdr.last_off = last
  BY DEF Stands
<1>2. Row(s.file, B, last) /\ Sized(s.file, B, W, V)
  BY <1>1 DEF InRow
<1>3. PICK D : D = DataAt(x, V[x])
  OBVIOUS
<1>4. /\ t \in State /\ t.hdr = s.hdr /\ t.bands = s.bands
      /\ \A c \in Off : c \notin D => t.file[c] = s.file[c]
  BY <1>3 DEF Filled
<1>5. \A c \in D : c \notin Posts(W) /\ \A z \in B \cup {last} : c \notin HdrAt(z)
  BY <1>2, <1>3, RecordOff
<1>6. ASSUME NEW y \in B \cup {last} PROVE t.file[y] = s.file[y]
  <2>1. y \in Off /\ y \in HdrAt(y)
    <3>1. y \in Off /\ y \in Nat
      BY <1>2, RowNat
    <3>2. QED  BY <3>1, SizesAssumption DEF HdrAt
  <2>2. y \notin D
    BY <1>5, <2>1
  <2>3. QED  BY <1>4, <2>1, <2>2
<1>7. Pooled(t, W)
  <2>1. Apart(W)
    BY <1>2, RowApart
  <2>2. ASSUME NEW y \in Listed(W) PROVE t.file[y + BH] = s.file[y + BH]
    <3>1. y + BH \in Off /\ y + BH \in Posts(W)
      BY <2>1, ApartIs
    <3>2. QED  BY <1>4, <1>5, <3>1
  <2>3. SameFree(s, t)
    BY <1>4 DEF SameFree
  <2>4. Pooled(s, W)
    BY <1>1 DEF Counted
  <2>5. QED  BY <2>2, <2>3, <2>4, PooledSame
<1>8. Counted(t, W, V)
  BY <1>1, <1>4, <1>7 DEF Counted
<1>9. Held(s, t, Without(V, x))
  <2>1. ASSUME NEW y \in DOMAIN V, y # x, NEW c \in DataAt(y, V[y]) PROVE t.file[c] = s.file[c]
    <3>1. c \in Off /\ c \in Int /\ y \in B /\ y + BH <= c /\ c < s.file[y].next
      BY <1>2, RecordOff
    <3>2. c \notin D
      <4>1. SUFFICES ASSUME c \in D PROVE FALSE
        OBVIOUS
      <4>2. x \in B /\ x + BH <= c /\ c < s.file[x].next
        BY <1>2, <1>3, <4>1, RecordOff
      <4>3. x = y
        BY <1>2, <3>1, <4>2, DataOnce
      <4>4. QED  BY <2>1, <4>3
    <3>3. QED  BY <1>4, <3>1, <3>2
  <2>2. QED  BY <2>1 DEF Held, Without
<1>10. Row(t.file, B, last)
  BY <1>2, <1>6, RowSame
<1>11. Sized(t.file, B, W, V)
  BY <1>2, <1>6 DEF Sized
<1>12. t.hdr.last_off = last
  BY <1>1, <1>4
<1>13. QED  BY <1>6, <1>8, <1>9, <1>10, <1>11, <1>12 DEF Stands, InRow

-----------------------------------------------------------------------------
(* Resizing, by the case that applies.                                     *)

\* What has to be so for a record to be resized in this way.
FitsAs(s, B, last, W, V, x, len, fit) ==
  \/ fit = "last" /\ EndsAt(s.file, x, last)
  \/ fit = "mid"  /\ \E n \in DOMAIN W : \E z : /\ FreeAfter(s.file, B, x, n, z)
                                               /\ Splits(len, V[x] + BH + W[n])
  \/ fit = "join" /\ \E n \in DOMAIN W : \E z : /\ FreeAfter(s.file, B, x, n, z)
                                               /\ len <= V[x] + BH + W[n]
  \/ fit = "split" /\ UsedAfter(s.file, B, x) /\ Splits(len, V[x])
  \/ fit = "keep" /\ len <= V[x]

\* The way that is taken is right for the record.
LEMMA FitIs ==
  ASSUME NEW s, NEW B, NEW last, NEW W, NEW V, Stands(s, B, last, W, V), NEW x \in DOMAIN V,
         NEW len \in Nat, NEW fit, fit = Fit(s, x, len)
  PROVE  \/ fit = "move" /\ s.file[x].next \in B
         \/ FitsAs(s, B, last, W, V, x, len, fit)
<1>1. InRow(s, B, last, W, V) /\ Counted(s, W, V)
  BY DEF Stands
<1>2. PICK f : f = s.file
  OBVIOUS
<1>3. Row(f, B, last) /\ Sized(f, B, W, V)
  BY <1>1, <1>2 DEF InRow
<1>4. x \in B /\ ~f[x].free
  BY <1>3, SizedIs
<1>5. PICK n : n = f[x].next
  OBVIOUS
<1>6. n \in B \cup {last} /\ n \in Off
  BY <1>3, <1>4, <1>5, RowNext
<1>7. PICK old \in Nat : old = V[x]
  BY <1>3, <1>4, UsedSize
<1>8. DataLen(f[x], x) = old
  BY <1>1, <1>2, <1>4, <1>7, LenIs
<1>9. CASE f[n].next = RECLOCATOR_MAX
  <2>1. n = last
    <3>1. n \notin B
      <4>1. SUFFICES ASSUME n \in B PROVE FALSE
        OBVIOUS
      <4>2. f[n].next \in Off
        BY <1>3, <4>1, RowNext
      <4>3. QED  BY <1>9, <4>2, ValuesAssumption DEF Off
    <3>2. QED  BY <1>6, <3>1
  <2>2. EndsAt(f, x, last)
    BY <1>5, <2>1 DEF EndsAt
  <2>3. fit = "last"
    <3>1. f[n].free
      BY <1>3, <2>1, RowNat
    <3>2. QED  BY <1>2, <1>5, <1>9, <3>1 DEF Fit
  <2>4. QED  BY <1>2, <2>2, <2>3 DEF FitsAs
<1>10. CASE f[n].next # RECLOCATOR_MAX
  <2>1. n \in B
    <3>1. n # last
      BY <1>3, <1>10, RowNat
    <3>2. QED  BY <1>6, <3>1
  <2>2. CASE f[n].free
    <3>1. n \in DOMAIN W
      BY <1>3, <2>1, <2>2, FreeSize
    <3>2. PICK room \in Nat : room = W[n]
      BY <1>3, <2>1, <2>2, FreeSize
    <3>3. DataLen(f[n], n) = room
      BY <1>1, <1>2, <2>1, <2>2, <3>2, LenIs
    <3>4. PICK all \in Nat : all = old + BH + room
      BY SizesAssumption
    <3>5. fit = (IF len > all THEN "move" ELSE IF Splits(len, all) THEN "mid" ELSE "join")
      BY <1>2, <1>5, <1>8, <1>10, <2>2, <3>3, <3>4 DEF Fit
    <3>6. PICK z : FreeAfter(f, B, x, n, z)
      BY <1>5, <2>1, <2>2 DEF FreeAfter
    <3>7. CASE len > all
      BY <1>2, <1>5, <2>1, <3>5, <3>7
    <3>8. CASE len <= all /\ Splits(len, all)
      <4>1. fit = "mid"
        BY <3>4, <3>5, <3>8
      <4>2. Splits(len, V[x] + BH + W[n])
        BY <1>7, <3>2, <3>4, <3>8
      <4>3. QED  BY <1>2, <3>1, <3>6, <4>1, <4>2 DEF FitsAs
    <3>9. CASE len <= all /\ ~Splits(len, all)
      <4>1. fit = "join"
        BY <3>4, <3>5, <3>9
      <4>2. len <= V[x] + BH + W[n]
        BY <1>7, <3>2, <3>4, <3>9
      <4>3. QED  BY <1>2, <3>1, <3>6, <4>1, <4>2 DEF FitsAs
    <3>10. QED  BY <3>4, <3>7, <3>8, <3>9
  <2>3. CASE ~f[n].free
    <3>1. fit = (IF len > old THEN "move" ELSE IF Splits(len, old) THEN "split" ELSE "keep")
      BY <1>2, <1>5, <1>8, <1>10, <2>3 DEF Fit
    <3>2. UsedAfter(f, B, x)
      BY <1>5, <2>1, <2>3 DEF UsedAfter
    <3>3. CASE len > old
      BY <1>2, <1>5, <2>1, <3>1, <3>3
    <3>4. CASE len <= old /\ Splits(len, old)
      <4>1. fit = "split"
        BY <3>1, <3>4
      <4>2. QED  BY <1>2, <1>7, <3>2, <3>4, <4>1 DEF FitsAs
    <3>5. CASE len <= old /\ ~Splits(len, old)
      <4>1. fit = "keep"
        BY <3>1, <3>5
      <4>2. QED  BY <1>7, <3>5, <4>1 DEF FitsAs
    <3>6. QED  BY <3>3, <3>4, <3>5
  <2>4. QED  BY <2>2, <2>3
<1>11. QED  BY <1>9, <1>10

\* Record x of s has become one of at least this length.
Reshaped(s, t, V, x, len) ==
  \E C, l, G : \E k \in Nat :
    len <= k /\ Stands(t, C, l, G, Resized(V, x, k)) /\ Held(s, t, Resized(V, x, k))

\* A record is resized where it is.
LEMMA ResizeAsIs ==
  ASSUME NEW s, NEW B, NEW last, NEW W, NEW V, Stands(s, B, last, W, V), NEW x \in DOMAIN V,
         NEW len \in Nat, NEW fit, FitsAs(s, B, last, W, V, x, len, fit),
         fit = "last" => x + BH + len \in Off, NEW t, t = ResizeAs(fit, s, x, len)
  PROVE  Reshaped(s, t, V, x, len)
<1>1. InRow(s, B, last, W, V) /\ Counted(s, W, V)
  BY DEF Stands
<1>2. Row(s.file, B, last) /\ Sized(s.file, B, W, V) /\ Lengths(V) /\ Lengths(W)
  BY <1>1 DEF InRow, Sized
<1>3. V[x] \in Nat /\ \A n \in DOMAIN W : W[n] \in Nat
  BY <1>2 DEF Lengths
<1>4. CASE fit = "last" /\ EndsAt(s.file, x, last)
  <2>1. t = ResizeLast(s, x, len)
    BY <1>4 DEF ResizeAs
  <2>2. x + BH + len \in Off
    BY <1>4
  <2>3. Stands(t, B, x + BH + len, W, Resized(V, x, len)) /\ Held(s, t, Resized(V, x, len))
    BY <1>4, <2>1, <2>2, ResizeLastIs
  <2>4. len <= len
    OBVIOUS
  <2>5. QED  BY <2>3, <2>4 DEF Reshaped
<1>5. ASSUME fit = "mid", NEW n \in DOMAIN W, NEW z, FreeAfter(s.file, B, x, n, z),
             Splits(len, V[x] + BH + W[n])
      PROVE  Reshaped(s, t, V, x, len)
  <2>1. t = ResizeMid(s, x, len)
    BY <1>5 DEF ResizeAs
  <2>2. PICK C, G : Stands(t, C, last, G, Resized(V, x, len)) /\ Held(s, t, Resized(V, x, len))
    BY <1>5, <2>1, ResizeMidIs
  <2>3. len <= len
    OBVIOUS
  <2>4. QED  BY <2>2, <2>3 DEF Reshaped
<1>6. ASSUME fit = "join", NEW n \in DOMAIN W, NEW z, FreeAfter(s.file, B, x, n, z),
             len <= V[x] + BH + W[n]
      PROVE  Reshaped(s, t, V, x, len)
  <2>1. t = JoinBlocks(s, x)
    BY <1>6 DEF ResizeAs
  <2>2. PICK C, k : /\ k \in Nat /\ k = V[x] + W[n] + BH
                    /\ Stands(t, C, last, Without(W, n), Resized(V, x, k))
                    /\ Held(s, t, Resized(V, x, k))
    BY <1>6, <2>1, JoinBlocksIs
  <2>3. len <= k
    <3>1. PICK a \in Nat, b \in Nat : a = V[x] /\ b = W[n]
      BY <1>3
    <3>2. len <= a + BH + b /\ k = a + b + BH
      BY <1>6, <2>2, <3>1
    <3>3. QED  BY <3>1, <3>2, <2>2, SizesAssumption
  <2>4. Stands(t, C, last, Without(W, n), Resized(V, x, k)) /\ Held(s, t, Resized(V, x, k))
    BY <2>2
  <2>5. k \in Nat
    BY <2>2
  <2>6. QED  BY <2>3, <2>4, <2>5 DEF Reshaped
<1>7. CASE fit = "split" /\ UsedAfter(s.file, B, x) /\ Splits(len, V[x])
  <2>1. t = SplitUsed(s, x, len)
    BY <1>7 DEF ResizeAs
  <2>2. PICK m \in Off, r \in Nat :
          /\ Stands(t, B \cup {m}, last, With(W, m, r), With(Without(V, x), x, len))
          /\ Held(s, t, With(Without(V, x), x, len))
    BY <1>7, <2>1, SplitUsedIs
  <2>3. Stands(t, B \cup {m}, last, With(W, m, r), Resized(V, x, len))
        /\ Held(s, t, Resized(V, x, len))
    BY <2>2 DEF Resized
  <2>4. len <= len
    OBVIOUS
  <2>5. QED  BY <2>3, <2>4 DEF Reshaped
<1>8. CASE fit = "keep" /\ len <= V[x]
  <2>1. t = s
    BY <1>8 DEF ResizeAs
  <2>2. Resized(V, x, V[x]) = V
    BY <1>2 DEF Resized, With, Without, Lengths
  <2>3. PICK k \in Nat : k = V[x]
    BY <1>3
  <2>4. len <= k /\ Resized(V, x, k) = V
    BY <1>8, <2>2, <2>3
  <2>5. Stands(t, B, last, W, Resized(V, x, k)) /\ Held(s, t, Resized(V, x, k))
    <3>1. Held(s, s, V)
      BY DEF Held
    <3>2. QED  BY <2>1, <2>4, <3>1
  <2>6. QED  BY <2>4, <2>5 DEF Reshaped
<1>9. QED  BY <1>4, <1>5, <1>6, <1>7, <1>8 DEF FitsAs

-----------------------------------------------------------------------------
(* Moving a record to where there may be no room for it.                   *)

\* t ends at e and has the cells of s up to z.
Past(s, t, z, e) == Shaped(t, e) /\ \A c \in Off : c < z => t.file[c] = s.file[c]

\* Writing from z on.
LEMMA PastWrite ==
  ASSUME NEW s, NEW t, NEW z \in Int, NEW e, Past(s, t, z, e), NEW at \in Int, z <= at, NEW cells
  PROVE  Past(s, Write(t, at, cells), z, e)
<1>1. Shaped(t, e)
  BY DEF Past
<1>2. Shaped(Write(t, at, cells), e)
  BY <1>1, WriteShaped
<1>3. ASSUME NEW c \in Off, c < z PROVE Write(t, at, cells).file[c] = s.file[c]
  <2>1. c \in Int /\ ~(at <= c)
    BY <1>3, SizesAssumption DEF Off
  <2>2. c \notin at .. at + Len(cells) - 1
    BY <2>1
  <2>3. Write(t, at, cells).file = [d \in Off |-> IF d \in at .. at + Len(cells) - 1
                                                THEN cells[d - at + 1] ELSE t.file[d]]
    BY <1>1 DEF Shaped, Write
  <2>4. Write(t, at, cells).file[c] = t.file[c]
    BY <2>2, <2>3
  <2>5. QED  BY <1>3, <2>4 DEF Past
<1>4. QED  BY <1>2, <1>3 DEF Past

\* Appending a record.
LEMMA PastEnd ==
  ASSUME NEW s \in State, NEW last \in Nat, s.hdr.last_off = last, NEW len \in Nat,
         NEW e \in Int, e = last + BH + len
  PROVE  Past(s, AllocAtEnd(s, len), last, e)
<1>1. PICK r : r = [s EXCEPT !.hdr.last_off = e]
  OBVIOUS
<1>2. Past(s, r, last, e)
  <2>1. Shaped(s, last)
    BY StateShaped
  <2>2. Shaped(r, e) /\ r.file = s.file
    BY <1>1, <2>1 DEF Shaped
  <2>3. QED  BY <2>2 DEF Past
<1>3. PICK b, d : AllocAtEnd(s, len) = CountUsed(WriteBhdr(WriteBhdr(r, last, b), e, d), 1, len)
  BY <1>1 DEF AllocAtEnd
<1>4. PICK u : u = WriteBhdr(WriteBhdr(r, last, b), e, d)
  OBVIOUS
<1>5. Past(s, u, last, e)
  <2>1. Past(s, WriteBhdr(r, last, b), last, e)
    BY <1>2, PastWrite DEF WriteBhdr
  <2>2. last <= e
    BY SizesAssumption
  <2>3. QED  BY <1>4, <2>1, <2>2, PastWrite DEF WriteBhdr
<1>6. Shaped(CountUsed(u, 1, len), e) /\ CountUsed(u, 1, len).file = u.file
  <2>1. Shaped(u, e)
    BY <1>5 DEF Past
  <2>2. Shaped(CountUsed(u, 1, len), e)
    BY <2>1, CountShaped
  <2>3. CountUsed(u, 1, len).file = u.file
    BY <2>1 DEF Shaped, CountUsed
  <2>4. QED  BY <2>2, <2>3
<1>7. Past(s, CountUsed(u, 1, len), last, e)
  BY <1>5, <1>6 DEF Past
<1>8. QED  BY <1>3, <1>4, <1>7

\* Moving data into it.
LEMMA PastMoved ==
  ASSUME NEW s, NEW t, NEW z \in Nat, NEW e, Past(s, t, z, e), NEW src, NEW len
  PROVE  Past(s, MoveRec(t, src, len, z), z, e)
<1>1. z + BH \in Int /\ z <= z + BH
  BY SizesAssumption
<1>2. QED  BY <1>1, PastWrite DEF MoveRec, MoveData

\* So does moving and filling a record.
LEMMA PastSpliced ==
  ASSUME NEW s, NEW t, NEW z \in Nat, NEW e, Past(s, t, z, e), NEW src, NEW x, NEW m, Asked(x, m)
  PROVE  Past(s, MoveAndFill(t, src, z, x), z, e)
<1>1. x.off \in Nat /\ x.full \in Nat /\ Len(x.data) \in Nat
  <2>1. m \in Nat /\ x.data \in [1 .. m -> Values]
    BY DEF Asked
  <2>2. QED  BY <2>1 DEF Asked
<1>2. PICK kept \in Nat : kept = Min({x.off, x.full})
  <2>1. x.off \in Int /\ x.full \in Int
    BY <1>1
  <2>2. Min({x.off, x.full}) \in {x.off, x.full}
    BY <2>1, MinOf
  <2>3. Min({x.off, x.full}) \in Nat
    BY <1>1, <2>2
  <2>4. QED  BY <2>3
<1>3. BH \in Nat
  BY SizesAssumption
<1>4. PICK a, b, c, d :
        MoveAndFill(t, src, z, x) =
          Write(Write(Write(Write(t, z + BH, a), z + BH + kept, b),
                      z + BH + x.off + Len(x.data), c), z + BH + x.off, d)
  BY <1>2 DEF MoveAndFill, MoveData
<1>5. PICK t1 : t1 = Write(t, z + BH, a)
  OBVIOUS
<1>6. PICK t2 : t2 = Write(t1, z + BH + kept, b)
  OBVIOUS
<1>7. PICK t3 : t3 = Write(t2, z + BH + x.off + Len(x.data), c)
  OBVIOUS
<1>8. Past(s, t1, z, e)
  BY <1>3, <1>5, PastWrite
<1>9. Past(s, t2, z, e)
  BY <1>2, <1>3, <1>6, <1>8, PastWrite
<1>10. Past(s, t3, z, e)
  BY <1>1, <1>3, <1>7, <1>9, PastWrite
<1>11. Past(s, Write(t3, z + BH + x.off, d), z, e)
  BY <1>1, <1>3, <1>10, PastWrite
<1>12. QED  BY <1>4, <1>5, <1>6, <1>7, <1>11

\* Freeing a block that is not the last one does not move the end.
LEMMA FreeShaped ==
  ASSUME NEW u, NEW e, Shaped(u, e), NEW x, NEW n, EndsAt(u.file, x, n),
         u.file[n] \in BlockHdr, u.file[n].next # RECLOCATOR_MAX
  PROVE  Shaped(FreeRec(u, x), e)
<1>1. \A loc, b : Shaped(WriteBhdr(u, loc, b), e)
  BY WriteShaped DEF WriteBhdr
<1>2. \A loc, b, nl, nb : Shaped(JoinBhdrs(u, loc, b, nl, nb), e)
  <2>1. ASSUME NEW loc, NEW b, NEW nl, NEW nb PROVE Shaped(JoinBhdrs(u, loc, b, nl, nb), e)
    <3>1. Shaped(WriteBhdr(u, loc, [b EXCEPT !.next = nl]), e)
      BY <1>1
    <3>2. QED  BY <3>1, WriteShaped DEF JoinBhdrs, WriteBhdr
  <2>2. QED  BY <2>1
<1>3. PICK start, prevFree, block, startLen :
        /\ start = (IF prevFree THEN u.file[x].prev ELSE x)
        /\ prevFree = (u.file[x].prev # RECLOCATOR_MAX /\ u.file[u.file[x].prev].free)
        /\ block = [u.file[start] EXCEPT !.free = TRUE] /\ startLen = BlockLen(u, start)
  OBVIOUS
<1> DEFINE FreeTo(t, to) == IF prevFree THEN GrowFree(t, start, startLen, to - start - BH)
                                        ELSE FreeAdd(t, start, to - start - BH)
           both == FreeRemove(JoinBhdrs(u, start, block, u.file[n].next, u.file[u.file[n].next]),
                              n, BlockLen(u, n))
<1>4. PICK t, to : /\ FreeRec(u, x) = CountUsed(FreeTo(t, to), -1, -DataLen(u.file[x], x))
                   /\ Shaped(t, e)
  <2>1. u.file[x].next = n /\ u.file[n].free \in BOOLEAN
    BY DEF EndsAt, BlockHdr
  <2>2. CASE u.file[n].free
    <3>1. FreeRec(u, x) = CountUsed(FreeTo(both, u.file[n].next), -1, -DataLen(u.file[x], x))
      BY <1>3, <2>1, <2>2, Zenon DEF FreeRec
    <3>2. Shaped(both, e)
      BY <1>2, ListShaped
    <3>3. QED  BY <3>1, <3>2
  <2>3. CASE ~u.file[n].free /\ prevFree
    <3>1. FreeRec(u, x) = CountUsed(FreeTo(JoinBhdrs(u, start, block, n, u.file[n]), n), -1,
                                    -DataLen(u.file[x], x))
      BY <1>3, <2>1, <2>3, Zenon DEF FreeRec
    <3>2. QED  BY <1>2, <3>1
  <2>4. CASE ~u.file[n].free /\ ~prevFree
    <3>1. FreeRec(u, x) = CountUsed(FreeTo(WriteBhdr(u, x, block), n), -1, -DataLen(u.file[x], x))
      BY <1>3, <2>1, <2>4, Zenon DEF FreeRec
    <3>2. QED  BY <1>1, <3>1
  <2>5. QED  BY <2>1, <2>2, <2>3, <2>4
<1>5. Shaped(FreeTo(t, to), e)
  BY <1>4, ListShaped
<1>6. QED  BY <1>4, <1>5, CountShaped

\* A record that moves has room where it goes when the end is within the file
\* that is modelled.
LEMMA MovedRoom ==
  ASSUME NEW s, NEW B, NEW last, NEW W, NEW V, Stands(s, B, last, W, V), NEW x \in DOMAIN V,
         s.file[x].next \in B, NEW len \in Nat, NEW w,
         AllocRec(s, len).loc = last => Past(s, w, last, last + BH + len),
         Bounded(FreeRec(w, x))
  PROVE  Room(s, last, len)
<1>1. SUFFICES ASSUME AllocRec(s, len).loc = last PROVE last + BH + len \in Off
  BY DEF Room
<1>2. Row(s.file, B, last) /\ Sized(s.file, B, W, V)
  BY DEF Stands, InRow
<1>3. PICK n : n = s.file[x].next
  OBVIOUS
<1>4. x \in B /\ n \in B
  BY <1>2, <1>3, SizedIs
<1>5. /\ x \in Off /\ n \in Off /\ x < last /\ n < last /\ last \in Nat
      /\ s.file[n] \in BlockHdr
  BY <1>2, <1>4, RowNat
<1>6. s.file[n].next # RECLOCATOR_MAX
  <2>1. s.file[n].next \in Off
    BY <1>2, <1>4, RowNext
  <2>2. QED  BY <2>1, ValuesAssumption DEF Off
<1>7. PICK e \in Int : e = last + BH + len
  BY <1>5, SizesAssumption
<1>8. Shaped(w, e) /\ w.file[x] = s.file[x] /\ w.file[n] = s.file[n]
  <2>1. Past(s, w, last, e)
    BY <1>1, <1>7
  <2>2. QED  BY <1>5, <2>1 DEF Past
<1>9. EndsAt(w.file, x, n)
  BY <1>3, <1>8 DEF EndsAt
<1>10. w.file[n] \in BlockHdr /\ w.file[n].next # RECLOCATOR_MAX
  BY <1>5, <1>6, <1>8
<1>11. Shaped(FreeRec(w, x), e)
  BY <1>8, <1>9, <1>10, FreeShaped
<1>12. FreeRec(w, x).hdr.last_off = e
  BY <1>11, ShapedEnd
<1>13. e + BH - 1 <= MaxOff
  BY <1>12 DEF Bounded
<1>14. QED  BY <1>5, <1>7, <1>13, SizesAssumption DEF Off

\* Record x of s was moved to loc: u has room for it, w has its data there
\* and t is without the old one.
MovedTo(s, u, w, t, V, x, loc, len) ==
  \E C, l, G, D, z, H : \E k \in Nat :
    /\ len <= k /\ loc \notin DOMAIN V
    /\ Stands(u, C, l, G, With(V, loc, k)) /\ Held(s, u, V)
    /\ Filled(u, w, loc, k)
    /\ Stands(t, D, z, H, Without(With(V, loc, k), x))
    /\ Held(w, t, Without(With(V, loc, k), x))

\* So it is when the data are moved into a new record.
LEMMA MovedToIs ==
  ASSUME NEW s, NEW V, NEW x \in DOMAIN V, NEW u, NEW loc, NEW len \in Nat,
         Alloced(s, u, loc, V, len), NEW w,
         \A k \in Nat : len <= k /\ BlockLen(u, loc) = k /\ u \in State /\ loc \in Nat
                        => Filled(u, w, loc, k),
         NEW t, t = FreeRec(w, x)
  PROVE  MovedTo(s, u, w, t, V, x, loc, len)
<1>1. PICK C, l, G : \E k \in Nat :
        /\ len <= k /\ loc \notin DOMAIN V
        /\ Stands(u, C, l, G, With(V, loc, k)) /\ Held(s, u, V)
  BY DEF Alloced
<1>2. PICK k \in Nat :
        /\ len <= k /\ loc \notin DOMAIN V
        /\ Stands(u, C, l, G, With(V, loc, k)) /\ Held(s, u, V)
  BY <1>1
<1>3. PICK U : U = With(V, loc, k)
  OBVIOUS
<1>4. loc \in DOMAIN U /\ x \in DOMAIN U /\ U[loc] = k
  BY <1>3 DEF With
<1>5. Stands(u, C, l, G, U)
  BY <1>2, <1>3
<1>6. InRow(u, C, l, G, U) /\ Counted(u, G, U)
  BY <1>5 DEF Stands
<1>7. Row(u.file, C, l) /\ Sized(u.file, C, G, U) /\ u \in State
  BY <1>6 DEF InRow, Counted
<1>8. loc \in C /\ ~u.file[loc].free
  BY <1>4, <1>7, SizedIs
<1>9. BlockLen(u, loc) = k /\ loc \in Nat
  <2>1. BlockLen(u, loc) = U[loc]
    BY <1>6, <1>8, LenIs
  <2>2. QED  BY <1>4, <1>7, <1>8, <2>1, RowNat
<1>10. Filled(u, w, loc, U[loc]) /\ Filled(u, w, loc, k)
  BY <1>2, <1>4, <1>7, <1>9
<1>11. Stands(w, C, l, G, U)
  BY <1>4, <1>5, <1>10, DataStands
<1>12. Freed(w, t, U, x)
  BY <1>4, <1>11, FreeRecIs
<1>13. PICK D, z, H : Stands(t, D, z, H, Without(U, x)) /\ Held(w, t, Without(U, x))
  BY <1>12 DEF Freed
<1>14. QED  BY <1>2, <1>3, <1>10, <1>13 DEF MovedTo

\* Where the end is after the last record was resized.
LEMMA EndResized ==
  ASSUME NEW s \in State, NEW x, NEW k, NEW e, e = x + BH + k
  PROVE  Shaped(ResizeLast(s, x, k), e)
<1>1. PICK z : z = s.hdr.last_off
  OBVIOUS
<1>2. PICK r : r = [s EXCEPT !.hdr.last_off = e]
  OBVIOUS
<1>3. Shaped(r, e)
  <2>1. Shaped(s, z)
    BY <1>1, StateShaped
  <2>2. QED  BY <1>2, <2>1 DEF Shaped
<1>4. PICK b, d, n : ResizeLast(s, x, k) = CountUsed(WriteBhdr(WriteBhdr(r, e, b), x, d), 0, n)
  BY <1>2 DEF ResizeLast
<1>5. Shaped(WriteBhdr(WriteBhdr(r, e, b), x, d), e)
  BY <1>3, WriteShaped DEF WriteBhdr
<1>6. QED  BY <1>4, <1>5, CountShaped

\* Splicing does not move it.
LEMMA SpliceShaped ==
  ASSUME NEW s, NEW e, Shaped(s, e), NEW src, NEW dst, NEW q
  PROVE  Shaped(MoveAndFill(s, src, dst, q), e)
<1>1. PICK a1, a2, a3, a4, b1, b2, b3, b4 :
        MoveAndFill(s, src, dst, q) = Write(Write(Write(Write(s, a1, b1), a2, b2), a3, b3), a4, b4)
  BY DEF MoveAndFill, MoveData
<1>2. Shaped(Write(Write(s, a1, b1), a2, b2), e)
  BY WriteShaped
<1>3. QED  BY <1>1, <1>2, WriteShaped

\* The last record has room for its new length.
LEMMA LastRoom ==
  ASSUME NEW s, NEW B, NEW last, NEW W, NEW V, Stands(s, B, last, W, V), NEW x \in DOMAIN V,
         NEW len \in Nat, NEW t, Shaped(t, x + BH + len), Bounded(t)
  PROVE  x + BH + len \in Off
<1>1. t.hdr.last_off = x + BH + len
  BY ShapedEnd
<1>2. x + BH + len + BH - 1 <= MaxOff
  BY <1>1 DEF Bounded
<1>3. x \in Nat
  <2>1. Row(s.file, B, last) /\ Sized(s.file, B, W, V)
    BY DEF Stands, InRow
  <2>2. QED  BY <2>1, SizedIs, RowNat
<1>4. QED  BY <1>2, <1>3, SizesAssumption DEF Off

-----------------------------------------------------------------------------
(* reallocRec and sliceRec.                                                *)

\* A storage that is in order.
InOrder(t) == \E B, last, W, V : Stands(t, B, last, W, V)

\* What reallocRec does to record x.
Reallocated(s, t, V, x, loc, len) ==
  \/ \E u, w : w = MoveRec(u, x, V[x], loc) /\ MovedTo(s, u, w, t, V, x, loc, len)
  \/ loc = x /\ Reshaped(s, t, V, x, len)

\* What reallocRec does.
LEMMA ReallocRecIs ==
  ASSUME NEW s, NEW B, NEW last, NEW W, NEW V, Stands(s, B, last, W, V), NEW x \in DOMAIN V,
         NEW len \in Nat, Bounded(ReallocRec(s, x, len).s)
  PROVE  Reallocated(s, ReallocRec(s, x, len).s, V, x, ReallocRec(s, x, len).loc, len)
<1>1. PICK fit : fit = Fit(s, x, len)
  OBVIOUS
<1>2. PICK u : u = AllocRec(s, len).s
  OBVIOUS
<1>3. PICK loc : loc = AllocRec(s, len).loc
  OBVIOUS
<1>4. InRow(s, B, last, W, V) /\ s \in State /\ s.hdr.last_off = last
  BY DEF Stands, Counted
<1>5. Row(s.file, B, last) /\ Sized(s.file, B, W, V)
  BY <1>4 DEF InRow
<1>6. x \in B /\ ~s.file[x].free
  BY <1>5, SizedIs
<1>7. BlockLen(s, x) = V[x] /\ V[x] \in Nat /\ x \in Nat
  BY <1>4, <1>5, <1>6, LenIs, UsedSize, RowNat
<1>8. last \in Nat /\ last + BH + len \in Int
  BY <1>5, RowNat, SizesAssumption
<1>9. CASE fit = "move" /\ s.file[x].next \in B
  <2>1. PICK w : w = MoveRec(u, x, V[x], loc)
    OBVIOUS
  <2>2. PICK t : t = FreeRec(w, x)
    OBVIOUS
  <2>3. ReallocRec(s, x, len).s = t /\ ReallocRec(s, x, len).loc = loc
    <3>1. ReallocRec(s, x, len) = [loc |-> loc, s |-> t]
      BY <1>1, <1>2, <1>3, <1>7, <1>9, <2>1, <2>2 DEF ReallocRec
    <3>2. QED  BY <3>1
  <2>4. ASSUME AllocRec(s, len).loc = last PROVE Past(s, w, last, last + BH + len)
    <3>1. u = AllocAtEnd(s, len)
      <4>1. last \notin DOMAIN W
        <5>1. last \notin B
          BY <1>5, <1>8, RowNat
        <5>2. QED  BY <1>5, <5>1, SizedIs
      <4>2. QED  BY <1>2, <2>4, <4>1, AllocWhere
    <3>2. PICK e \in Int : e = last + BH + len
      BY <1>8
    <3>3. Past(s, u, last, e)
      BY <1>4, <1>8, <3>1, <3>2, PastEnd
    <3>4. Past(s, w, last, e)
      BY <1>3, <1>8, <2>1, <2>4, <3>3, PastMoved
    <3>5. QED  BY <3>2, <3>4
  <2>5. Room(s, last, len)
    <3>1. Bounded(FreeRec(w, x))
      BY <2>2, <2>3
    <3>2. s.file[x].next \in B
      BY <1>9
    <3>3. QED  BY <2>4, <3>1, <3>2, MovedRoom
  <2>6. Alloced(s, u, loc, V, len)
    <3>1. Alloced(s, AllocRec(s, len).s, AllocRec(s, len).loc, V, len)
      BY <2>5, AllocRecIs
    <3>2. QED  BY <1>2, <1>3, <3>1
  <2>7. ASSUME NEW k \in Nat, len <= k, BlockLen(u, loc) = k, u \in State, loc \in Nat
        PROVE  Filled(u, w, loc, k)
    BY <1>7, <2>1, <2>7, MoveRecIs
  <2>8. MovedTo(s, u, w, t, V, x, loc, len)
    BY <2>2, <2>6, <2>7, MovedToIs
  <2>9. QED  BY <2>1, <2>3, <2>8 DEF Reallocated
<1>10. CASE FitsAs(s, B, last, W, V, x, len, fit)
  <2>1. PICK t : t = ResizeAs(fit, s, x, len)
    OBVIOUS
  <2>2. fit # "move"
    BY <1>10 DEF FitsAs
  <2>3. ReallocRec(s, x, len).s = t /\ ReallocRec(s, x, len).loc = x
    <3>1. ReallocRec(s, x, len) = [loc |-> x, s |-> t]
      BY <1>1, <2>1, <2>2 DEF ReallocRec
    <3>2. QED  BY <3>1
  <2>4. ASSUME fit = "last" PROVE x + BH + len \in Off
    <3>1. t = ResizeLast(s, x, len)
      BY <2>1, <2>4 DEF ResizeAs
    <3>2. PICK e : e = x + BH + len
      OBVIOUS
    <3>3. Shaped(t, e)
      BY <1>4, <3>1, <3>2, EndResized
    <3>4. Shaped(t, x + BH + len) /\ Bounded(t)
      BY <2>3, <3>2, <3>3
    <3>5. QED  BY <3>4, LastRoom
  <2>5. Reshaped(s, t, V, x, len)
    BY <1>10, <2>1, <2>4, ResizeAsIs
  <2>6. QED  BY <2>3, <2>5 DEF Reallocated
<1>11. QED  BY <1>1, <1>9, <1>10, FitIs

\* The length that is asked for is a number.
LEMMA SliceLenInt ==
  ASSUME NEW x, NEW m, Asked(x, m)
  PROVE  SliceLen(x) \in Int
<1>1. PICK off \in Nat, cut \in Nat, full \in Nat : off = x.off /\ cut = x.cut /\ full = x.full
  BY DEF Asked
<1>2. PICK cells \in [1 .. m -> Values] : cells = x.data
  BY DEF Asked
<1>3. m \in Nat /\ Len(cells) = m
  <2>1. m \in Nat
    BY DEF Asked
  <2>2. QED  BY <2>1
<1>4. off + m \in Int /\ full + m - cut \in Int
  BY <1>3
<1>5. SliceLen(x) = IF off > full THEN off + m ELSE full + m - cut
  BY <1>1, <1>2, <1>3 DEF SliceLen
<1>6. QED  BY <1>4, <1>5

\* What sliceRec does to record x.
Sliced(s, t, V, x, loc, q) ==
  \/ \E u, w : w = MoveAndFill(u, x, loc, q) /\ MovedTo(s, u, w, t, V, x, loc, SliceLen(q))
  \/ /\ loc = x
     /\ \E u : \E n \in Nat : /\ SliceLen(q) <= n /\ q.full <= n
                              /\ Reshaped(s, u, V, x, n) /\ t = MoveAndFill(u, x, x, q)
  \/ /\ loc = x /\ SliceLen(q) <= V[x]
     /\ \E u : u = MoveAndFill(s, x, x, q) /\ Filled(s, u, x, V[x]) /\ Reshaped(u, t, V, x, SliceLen(q))

\* The way that is taken depends on headers only.
LEMMA FitsSame ==
  ASSUME NEW s, NEW B, NEW last, NEW W, NEW V, Stands(s, B, last, W, V), NEW x \in DOMAIN V,
         NEW len, NEW fit, FitsAs(s, B, last, W, V, x, len, fit), NEW t,
         \A y \in B \cup {last} : t.file[y] = s.file[y]
  PROVE  FitsAs(t, B, last, W, V, x, len, fit)
<1>1. Row(s.file, B, last) /\ Sized(s.file, B, W, V)
  BY DEF Stands, InRow
<1>2. x \in B
  BY <1>1, SizedIs
<1>3. t.file[x] = s.file[x]
  BY <1>2
<1>4. \A n, z : FreeAfter(s.file, B, x, n, z) => FreeAfter(t.file, B, x, n, z)
  BY <1>3 DEF FreeAfter
<1>5. UsedAfter(s.file, B, x) => UsedAfter(t.file, B, x)
  BY <1>3 DEF UsedAfter
<1>6. EndsAt(s.file, x, last) => EndsAt(t.file, x, last)
  BY <1>3 DEF EndsAt
<1>7. QED  BY <1>4, <1>5, <1>6 DEF FitsAs

\* What sliceRec does.
LEMMA SliceRecIs ==
  ASSUME NEW s, NEW B, NEW last, NEW W, NEW V, Stands(s, B, last, W, V), NEW x \in DOMAIN V,
         NEW q, NEW m, Asked(q, m), q.full <= V[x], SliceLen(q) \in Nat,
         Bounded(SliceRec(s, x, q).s)
  PROVE  Sliced(s, SliceRec(s, x, q).s, V, x, SliceRec(s, x, q).loc, q)
<1>1. PICK len \in Nat : len = SliceLen(q)
  OBVIOUS
<1>2. PICK fit : fit = Fit(s, x, len)
  OBVIOUS
<1>3. PICK u : u = AllocRec(s, len).s
  OBVIOUS
<1>4. PICK loc : loc = AllocRec(s, len).loc
  OBVIOUS
<1>5. InRow(s, B, last, W, V) /\ s \in State /\ s.hdr.last_off = last
  BY DEF Stands, Counted
<1>6. Row(s.file, B, last) /\ Sized(s.file, B, W, V)
  BY <1>5 DEF InRow
<1>7. x \in B /\ ~s.file[x].free
  BY <1>6, SizedIs
<1>8. V[x] \in Nat /\ x \in Nat /\ s.file[x].next = x + BH + V[x]
  BY <1>6, <1>7, UsedSize, RowNat
<1>9. last \in Nat /\ last + BH + len \in Int /\ last \in Off
  BY <1>6, RowNat, SizesAssumption
<1>10. CASE fit = "move" /\ s.file[x].next \in B
  <2>1. PICK w : w = MoveAndFill(u, x, loc, q)
    OBVIOUS
  <2>2. PICK t : t = FreeRec(w, x)
    OBVIOUS
  <2>3. SliceRec(s, x, q).s = t /\ SliceRec(s, x, q).loc = loc
    <3>1. SliceRec(s, x, q) = [loc |-> loc, s |-> t]
      BY <1>1, <1>2, <1>3, <1>4, <1>10, <2>1, <2>2 DEF SliceRec
    <3>2. QED  BY <3>1
  <2>4. ASSUME AllocRec(s, len).loc = last PROVE Past(s, w, last, last + BH + len)
    <3>1. u = AllocAtEnd(s, len)
      <4>1. last \notin DOMAIN W
        <5>1. last \notin B
          BY <1>6, <1>9, RowNat
        <5>2. QED  BY <1>6, <5>1, SizedIs
      <4>2. QED  BY <1>3, <2>4, <4>1, AllocWhere
    <3>2. PICK e \in Int : e = last + BH + len
      BY <1>9
    <3>3. Past(s, u, last, e)
      BY <1>5, <1>9, <3>1, <3>2, PastEnd
    <3>4. Past(s, w, last, e)
      BY <1>4, <1>9, <2>1, <2>4, <3>3, PastSpliced
    <3>5. QED  BY <3>2, <3>4
  <2>5. Room(s, last, len)
    <3>1. Bounded(FreeRec(w, x))
      BY <2>2, <2>3
    <3>2. s.file[x].next \in B
      BY <1>10
    <3>3. QED  BY <2>4, <3>1, <3>2, MovedRoom
  <2>6. Alloced(s, u, loc, V, len)
    <3>1. Alloced(s, AllocRec(s, len).s, AllocRec(s, len).loc, V, len)
      BY <2>5, AllocRecIs
    <3>2. QED  BY <1>3, <1>4, <3>1
  <2>7. ASSUME NEW k \in Nat, len <= k, BlockLen(u, loc) = k, u \in State, loc \in Nat
        PROVE  Filled(u, w, loc, k)
    <3>1. SliceLen(q) <= k
      BY <1>1, <2>7
    <3>2. QED  BY <1>8, <2>1, <2>7, <3>1, MoveAndFillIs
  <2>8. MovedTo(s, u, w, t, V, x, loc, len)
    BY <2>2, <2>6, <2>7, MovedToIs
  <2>9. QED  BY <1>1, <2>1, <2>3, <2>8 DEF Sliced
<1>11. CASE FitsAs(s, B, last, W, V, x, len, fit)
  <2>1. fit # "move"
    BY <1>11 DEF FitsAs
  <2>2. PICK first \in BOOLEAN : first <=> (fit = "join" \/ (fit \in {"last", "mid"} /\ len > q.full))
    OBVIOUS
  <2>3. CASE first
    <3>1. PICK v : v = ResizeAs(fit, s, x, len)
      OBVIOUS
    <3>2. PICK t : t = MoveAndFill(v, x, x, q)
      OBVIOUS
    <3>3. SliceRec(s, x, q).s = t /\ SliceRec(s, x, q).loc = x
      <4>1. SliceRec(s, x, q) = [loc |-> x, s |-> t]
        BY <1>1, <1>2, <2>1, <2>2, <2>3, <3>1, <3>2 DEF SliceRec
      <4>2. QED  BY <4>1
    <3>4. ASSUME fit = "last" PROVE x + BH + len \in Off
      <4>1. v = ResizeLast(s, x, len)
        BY <3>1, <3>4 DEF ResizeAs
      <4>2. PICK e : e = x + BH + len
        OBVIOUS
      <4>3. Shaped(v, e)
        BY <1>5, <4>1, <4>2, EndResized
      <4>4. Shaped(t, e)
        BY <3>2, <4>3, SpliceShaped
      <4>5. Shaped(t, x + BH + len) /\ Bounded(t)
        BY <3>3, <4>2, <4>4
      <4>6. QED  BY <4>5, LastRoom
    <3>5. \E n \in Nat : len <= n /\ q.full <= n /\ Reshaped(s, v, V, x, n)
      <4>1. PICK k \in Nat, full \in Nat : k = V[x] /\ full = q.full /\ full <= k
        BY <1>8 DEF Asked
      <4>2. CASE fit \in {"last", "mid"}
        <5>1. full <= len
          BY <2>2, <2>3, <4>1, <4>2
        <5>2. Reshaped(s, v, V, x, len)
          BY <1>11, <3>1, <3>4, ResizeAsIs
        <5>3. len <= len
          OBVIOUS
        <5>4. QED  BY <4>1, <5>1, <5>2, <5>3
      <4>3. ASSUME fit = "join", NEW y \in DOMAIN W, NEW z, FreeAfter(s.file, B, x, y, z),
                   len <= V[x] + BH + W[y]
            PROVE  \E n \in Nat : len <= n /\ q.full <= n /\ Reshaped(s, v, V, x, n)
        <5>1. W[y] \in Nat
          BY <1>6 DEF Sized, Lengths
        <5>2. PICK n \in Nat : n = V[x] + BH + W[y]
          BY <1>8, <5>1, SizesAssumption
        <5>3. n <= V[x] + BH + W[y] /\ len <= n /\ full <= n
          BY <4>1, <4>3, <5>1, <5>2, SizesAssumption
        <5>4. FitsAs(s, B, last, W, V, x, n, fit)
          BY <4>3, <5>3 DEF FitsAs
        <5>5. v = ResizeAs(fit, s, x, n)
          BY <3>1, <4>3 DEF ResizeAs
        <5>6. fit = "last" => x + BH + n \in Off
          BY <4>3
        <5>7. Reshaped(s, v, V, x, n)
          BY <5>4, <5>5, <5>6, ResizeAsIs
        <5>8. QED  BY <4>1, <5>3, <5>7
      <4>4. CASE fit = "join"
        BY <1>11, <4>3, <4>4 DEF FitsAs
      <4>5. QED  BY <2>2, <2>3, <4>2, <4>4
    <3>6. QED  BY <1>1, <3>2, <3>3, <3>5 DEF Sliced
  <2>4. CASE ~first
    <3>1. PICK v : v = MoveAndFill(s, x, x, q)
      OBVIOUS
    <3>2. PICK t : t = ResizeAs(fit, v, x, len)
      OBVIOUS
    <3>3. SliceRec(s, x, q).s = t /\ SliceRec(s, x, q).loc = x
      <4>1. SliceRec(s, x, q) = [loc |-> x, s |-> t]
        BY <1>1, <1>2, <2>1, <2>2, <2>4, <3>1, <3>2 DEF SliceRec
      <4>2. QED  BY <4>1
    <3>4. len <= V[x]
      <4>1. PICK k \in Nat, full \in Nat : k = V[x] /\ full = q.full /\ full <= k
        BY <1>8 DEF Asked
      <4>2. CASE fit \in {"last", "mid"}
        BY <2>2, <2>4, <4>1, <4>2
      <4>3. CASE fit = "split" /\ Splits(len, V[x])
        <5>1. len + BH + FP <= k
          BY <4>1, <4>3 DEF Splits
        <5>2. QED  BY <4>1, <5>1, SizesAssumption
      <4>4. CASE fit = "keep" /\ len <= V[x]
        BY <4>4
      <4>5. fit # "join"
        BY <2>2, <2>4
      <4>6. QED  BY <1>11, <4>2, <4>3, <4>4, <4>5 DEF FitsAs
    <3>5. Filled(s, v, x, V[x])
      <4>1. SliceLen(q) <= V[x]
        BY <1>1, <3>4
      <4>2. QED  BY <1>5, <1>8, <3>1, <4>1, MoveAndFillIs
    <3>6. Stands(v, B, last, W, V) /\ \A y \in B \cup {last} : v.file[y] = s.file[y]
      BY <3>5, DataStands
    <3>7. FitsAs(v, B, last, W, V, x, len, fit)
      BY <1>11, <3>6, FitsSame
    <3>8. ASSUME fit = "last" PROVE x + BH + len \in Off
      <4>1. EndsAt(s.file, x, last)
        BY <1>11, <3>8 DEF FitsAs
      <4>2. last = x + BH + V[x]
        BY <1>8, <4>1 DEF EndsAt
      <4>3. PICK k \in Nat : k = V[x]
        BY <1>8
      <4>4. last \in 0 .. MaxOff /\ MaxOff \in Nat
        BY <1>9, SizesAssumption DEF Off
      <4>5. QED  BY <1>8, <3>4, <4>2, <4>3, <4>4, SizesAssumption DEF Off
    <3>9. Reshaped(v, t, V, x, len)
      BY <3>2, <3>6, <3>7, <3>8, ResizeAsIs
    <3>10. QED  BY <1>1, <3>1, <3>3, <3>4, <3>5, <3>9 DEF Sliced
  <2>5. QED  BY <2>3, <2>4
<1>12. QED  BY <1>2, <1>10, <1>11, FitIs

-----------------------------------------------------------------------------
(* The blocks that the storage finds when it walks over them.              *)

\* The blocks from loc on, as they are computed.
WalkStep(f, g, loc) ==
  IF f[loc] \in BlockHdr /\ f[loc].next \in loc + BH .. MaxOff
  THEN {loc} \cup g[f[loc].next] ELSE {}

\* The function that computes them for every place of T.
Walks(f, T, g) == g = [loc \in T |-> WalkStep(f, g, loc)]

\* The last n places of the file.
Ends(n) == {loc \in Off : MaxOff < loc + n}

\* Only later places are looked at.
LEMMA WalkLater ==
  ASSUME NEW f, NEW n \in Nat, NEW g, NEW h, \A z \in Ends(n) : h[z] = g[z],
         NEW loc \in Ends(n + 1)
  PROVE  WalkStep(f, g, loc) = WalkStep(f, h, loc)
<1>1. CASE f[loc] \in BlockHdr /\ f[loc].next \in loc + BH .. MaxOff
  <2>1. loc \in Nat /\ MaxOff \in Nat /\ BH \in Nat \ {0} /\ MaxOff < loc + (n + 1)
    BY SizesAssumption DEF Ends, Off
  <2>2. PICK z \in Int : z = f[loc].next /\ loc + BH <= z /\ z <= MaxOff
    BY <1>1, <2>1
  <2>3. z \in Ends(n)
    BY <2>1, <2>2 DEF Ends, Off
  <2>4. g[f[loc].next] = h[f[loc].next]
    BY <2>2, <2>3
  <2>5. QED  BY <2>4 DEF WalkStep
<1>2. CASE ~(f[loc] \in BlockHdr /\ f[loc].next \in loc + BH .. MaxOff)
  BY <1>2 DEF WalkStep
<1>3. QED  BY <1>1, <1>2

\* The walk is defined for every file. By the least number of places for which
\* it were not.
LEMMA WalkExists ==
  ASSUME NEW f
  PROVE  \E g : Walks(f, Off, g)
<1> DEFINE bad == {n \in Nat : ~ \E g : Walks(f, Ends(n), g)}
<1>1. bad = {}
  <2> SUFFICES ASSUME bad # {} PROVE FALSE
    OBVIOUS
  <2>1. PICK n \in bad : \A k \in bad : n <= k
    <3>1. bad \subseteq Nat
      OBVIOUS
    <3> HIDE DEF bad
    <3>2. QED  BY <3>1, Least
  <2>2. n \in Nat /\ ~ \E g : Walks(f, Ends(n), g)
    BY <2>1
  <2>3. CASE n = 0
    <3> DEFINE g == [loc \in Ends(0) |-> {}]
    <3>1. Ends(0) = {}
      BY SizesAssumption DEF Ends, Off
    <3>2. g = [loc \in Ends(0) |-> WalkStep(f, g, loc)]
      BY <3>1
    <3>3. QED  BY <2>2, <2>3, <3>2 DEF Walks
  <2>4. CASE n # 0
    <3>1. PICK m \in Nat : m = n - 1
      BY <2>2, <2>4
    <3>2. m \notin bad /\ n = m + 1
      BY <2>1, <2>2, <3>1
    <3>3. PICK g : Walks(f, Ends(m), g)
      BY <3>2
    <3> DEFINE h == [loc \in Ends(n) |-> WalkStep(f, g, loc)]
    <3>4. ASSUME NEW z \in Ends(m) PROVE h[z] = g[z]
      <4>1. z \in Ends(n)
        BY <3>2, SizesAssumption DEF Ends, Off
      <4>2. QED  BY <3>3, <4>1 DEF Walks
    <3>5. ASSUME NEW loc \in Ends(n) PROVE WalkStep(f, g, loc) = WalkStep(f, h, loc)
      <4>1. loc \in Ends(m + 1)
        BY <3>2
      <4> HIDE DEF h
      <4>2. QED  BY <3>4, <4>1, WalkLater
    <3>6. h = [loc \in Ends(n) |-> WalkStep(f, h, loc)]
      <4>1. h = [loc \in Ends(n) |-> WalkStep(f, g, loc)]
        OBVIOUS
      <4> HIDE DEF h
      <4>2. QED  BY <3>5, <4>1
    <3>7. Walks(f, Ends(n), h)
      BY <3>6 DEF Walks
    <3>8. QED  BY <2>2, <3>7
  <2>5. QED  BY <2>3, <2>4
<1>2. \E g : Walks(f, Ends(MaxOff + 1), g)
  <2>1. MaxOff + 1 \in Nat
    BY SizesAssumption
  <2>2. QED  BY <1>1, <2>1
<1>3. Ends(MaxOff + 1) = Off
  BY SizesAssumption DEF Ends, Off
<1>4. QED  BY <1>2, <1>3

\* The blocks of a file are found by it.
LEMMA BlocksInIs ==
  ASSUME NEW f
  PROVE  \E g : Walks(f, Off, g) /\ BlocksIn(f) = g[0]
<1> DEFINE g == CHOOSE g : g = [loc \in Off |->
                  IF f[loc] \in BlockHdr /\ f[loc].next \in loc + BH .. MaxOff
                  THEN {loc} \cup g[f[loc].next] ELSE {}]
<1>1. BlocksIn(f) = g[0]
  BY Zenon DEF BlocksIn
<1>2. \E k : k = [loc \in Off |->
                  IF f[loc] \in BlockHdr /\ f[loc].next \in loc + BH .. MaxOff
                  THEN {loc} \cup k[f[loc].next] ELSE {}]
  BY Zenon, WalkExists DEF Walks, WalkStep
<1>3. g = [loc \in Off |->
                  IF f[loc] \in BlockHdr /\ f[loc].next \in loc + BH .. MaxOff
                  THEN {loc} \cup g[f[loc].next] ELSE {}]
  BY Zenon, <1>2
<1>4. Walks(f, Off, g)
  BY Zenon, <1>3 DEF Walks, WalkStep
<1>5. QED  BY <1>1, <1>4

\* In a row they are all the blocks. By the last place from which the walk
\* missed any.
LEMMA BlocksAre ==
  ASSUME NEW f, NEW B, NEW last, Row(f, B, last)
  PROVE  BlocksIn(f) = B
<1>1. PICK g : Walks(f, Off, g) /\ BlocksIn(f) = g[0]
  BY BlocksInIs
<1> DEFINE From(p) == {y \in B : p <= y}
           bad == {p \in B \cup {last} : g[p] # From(p)}
<1>2. /\ last \in Nat /\ 0 \in B \cup {last}
      /\ \A x \in B : x \in Nat /\ x < last
      /\ \A x \in B \cup {last} : x \in Nat /\ x <= last
  BY RowNat
<1>3. bad = {}
  <2> SUFFICES ASSUME bad # {} PROVE FALSE
    OBVIOUS
  <2>1. PICK p \in bad : \A y \in bad : y <= p
    <3>1. bad \subseteq Nat /\ \A x \in bad : x <= last
      BY <1>2
    <3> HIDE DEF bad
    <3>2. QED  BY <1>2, <3>1, Greatest
  <2>2. p \in B \cup {last} /\ g[p] # From(p)
    BY <2>1
  <2>3. p \in Off /\ p \in Nat /\ f[p] \in BlockHdr
    BY <2>2, RowNat
  <2>4. g[p] = WalkStep(f, g, p)
    BY <1>1, <2>3 DEF Walks
  <2>5. CASE p = last
    <3>1. f[p].next \notin p + BH .. MaxOff
      <4>1. f[p].next = RECLOCATOR_MAX
        BY <2>5, RowNat
      <4>2. p + BH .. MaxOff \subseteq 0 .. MaxOff
        BY <2>3, SizesAssumption
      <4>3. QED  BY <4>1, <4>2, ValuesAssumption
    <3>2. g[p] = {}
      BY <2>4, <3>1 DEF WalkStep
    <3>3. From(p) = {}
      <4>1. \A y \in B : ~(p <= y)
        BY <1>2, <2>5
      <4>2. QED  BY <4>1
    <3>4. QED  BY <2>2, <3>2, <3>3
  <2>6. CASE p \in B
    <3>1. PICK n \in Nat : n = f[p].next
      BY <2>6, RowNext
    <3>2. /\ n \in B \cup {last} /\ n \in Off /\ p + BH <= n /\ p < n
          /\ \A y \in B \cup {last} : p < y => n <= y
      BY <2>6, <3>1, RowNext
    <3>3. n \in p + BH .. MaxOff
      BY <2>3, <3>2, SizesAssumption DEF Off
    <3>4. g[p] = {p} \cup g[n]
      BY <2>3, <2>4, <3>1, <3>3 DEF WalkStep
    <3>5. g[n] = From(n)
      <4>1. n \notin bad
        BY <2>1, <2>3, <3>2
      <4>2. QED  BY <3>2, <4>1
    <3>6. From(p) = {p} \cup From(n)
      <4>1. ASSUME NEW y \in B PROVE p <= y <=> y = p \/ n <= y
        <5>1. y \in Nat /\ (p < y => n <= y)
          BY <1>2, <3>2
        <5>2. QED  BY <2>3, <3>1, <3>2, <5>1
      <4>2. QED  BY <2>6, <4>1
    <3>7. QED  BY <2>2, <3>4, <3>5, <3>6
  <2>7. QED  BY <2>2, <2>5, <2>6
<1>4. g[0] = From(0)
  BY <1>2, <1>3
<1>5. From(0) = B
  BY <1>2
<1>6. QED  BY <1>1, <1>4, <1>5

-----------------------------------------------------------------------------
(* No cell is unaccounted for.                                             *)

\* The blocks from p on.
Since(W, p) == [y \in {x \in DOMAIN W : p <= x} |-> W[y]]

\* The cells from p to the sentinel are those of these blocks and their
\* headers.
Fills(last, p, W, V) ==
  \E n, a, m, b : /\ Weighs(n, a, Since(W, p)) /\ Weighs(m, b, Since(V, p))
                  /\ last = p + a + b + BH * (n + m)

\* One free block more.
LEMMA FillsFree ==
  ASSUME NEW last \in Nat, NEW W, NEW V, NEW p \in Nat, NEW q \in Nat, Fills(last, q, W, V),
         p \in DOMAIN W, W[p] \in Nat, q = p + BH + W[p],
         \A y \in DOMAIN W : p <= y <=> y = p \/ q <= y,
         \A y \in DOMAIN V : p <= y <=> q <= y
  PROVE  Fills(last, p, W, V)
<1>1. PICK n, a, m, b : /\ Weighs(n, a, Since(W, q)) /\ Weighs(m, b, Since(V, q))
                        /\ last = q + a + b + BH * (n + m)
  BY DEF Fills
<1>2. Since(V, p) = Since(V, q)
  BY DEF Since
<1>3. PICK k \in Nat : k = W[p]
  OBVIOUS
<1>4. p \notin DOMAIN Since(W, q)
  BY <1>3, SizesAssumption DEF Since
<1>5. Since(W, p) = With(Since(W, q), p, k)
  <2>1. DOMAIN Since(W, p) = DOMAIN Since(W, q) \cup {p}
    BY DEF Since
  <2>2. \A y \in DOMAIN Since(W, p) : Since(W, p)[y] = IF y = p THEN k ELSE Since(W, q)[y]
    BY <1>3 DEF Since
  <2>3. QED  BY <2>1, <2>2 DEF With, Since
<1>6. Weighs(n + 1, a + k, Since(W, p))
  BY <1>1, <1>4, <1>5, WeighsMore
<1>7. Weighs(m, b, Since(V, p))
  BY <1>1, <1>2
<1>8. last = p + (a + k) + b + BH * ((n + 1) + m)
  <2>1. n \in Nat /\ a \in Nat /\ m \in Nat /\ b \in Nat
    BY <1>1, WeighsNat
  <2>2. BH * ((n + 1) + m) = BH * (n + m) + BH
    BY <2>1, SizesAssumption
  <2>3. PICK w \in Int : w = BH * (n + m)
    BY <2>1, SizesAssumption
  <2>4. last = p + BH + k + a + b + w
    BY <1>1, <1>3, <2>3
  <2>5. QED  BY <2>1, <2>2, <2>3, <2>4, SizesAssumption
<1>9. QED  BY <1>6, <1>7, <1>8 DEF Fills

\* The same with the records and the free blocks in each other's place.
LEMMA FillsOther ==
  ASSUME NEW last \in Nat, NEW W, NEW V, NEW p, p \in Nat, Fills(last, p, W, V)
  PROVE  Fills(last, p, V, W)
<1>1. PICK n, a, m, b : /\ Weighs(n, a, Since(W, p)) /\ Weighs(m, b, Since(V, p))
                        /\ last = p + a + b + BH * (n + m)
  BY DEF Fills
<1>2. n \in Nat /\ a \in Nat /\ m \in Nat /\ b \in Nat
  BY <1>1, WeighsNat
<1>3. n + m = m + n
  BY <1>2
<1>4. PICK w \in Int : w = BH * (m + n)
  BY <1>2, SizesAssumption
<1>5. last = p + b + a + w
  BY <1>1, <1>2, <1>3, <1>4
<1>6. QED  BY <1>1, <1>4, <1>5 DEF Fills

\* The blocks of a row fill it. By the last place from which they did not.
LEMMA RowFilled ==
  ASSUME NEW f, NEW B, NEW last, Row(f, B, last), NEW W, NEW V, Sized(f, B, W, V)
  PROVE  Fills(last, 0, W, V)
<1> DEFINE bad == {p \in B \cup {last} : ~Fills(last, p, W, V)}
<1>1. /\ last \in Nat /\ 0 \in B \cup {last}
      /\ \A x \in B : x \in Nat /\ x < last
      /\ \A x \in B \cup {last} : x \in Nat /\ x <= last
  BY RowNat
<1>2. bad = {}
  <2> SUFFICES ASSUME bad # {} PROVE FALSE
    OBVIOUS
  <2>1. PICK p \in bad : \A y \in bad : y <= p
    <3>1. bad \subseteq Nat /\ \A x \in bad : x <= last
      BY <1>1
    <3> HIDE DEF bad
    <3>2. QED  BY <1>1, <3>1, Greatest
  <2>2. p \in B \cup {last} /\ ~Fills(last, p, W, V) /\ p \in Nat
    BY <1>1, <2>1
  <2>3. CASE p = last
    <3>1. (\A y \in DOMAIN W : ~(p <= y)) /\ \A y \in DOMAIN V : ~(p <= y)
      <4>1. \A y \in B : ~(p <= y)
        BY <1>1, <2>3
      <4>2. QED  BY <4>1, SizedIs
    <3>2. PICK U : U = Since(W, p)
      OBVIOUS
    <3>3. PICK R : R = Since(V, p)
      OBVIOUS
    <3>4. DOMAIN U = {} /\ DOMAIN R = {} /\ U \in [DOMAIN U -> Nat] /\ R \in [DOMAIN R -> Nat]
      BY <3>1, <3>2, <3>3 DEF Since
    <3>5. Weighs(0, 0, U) /\ Weighs(0, 0, R)
      BY <3>4, WeighsNone
    <3>6. last = p + 0 + 0 + BH * (0 + 0)
      BY <2>2, <2>3, SizesAssumption
    <3>7. Fills(last, p, W, V)
      BY <3>2, <3>3, <3>5, <3>6 DEF Fills
    <3>8. QED  BY <2>2, <3>7
  <2>4. CASE p \in B
    <3>1. PICK q \in Nat : q = f[p].next
      BY <2>4, RowNext
    <3>2. /\ q \in B \cup {last} /\ p + BH <= q /\ p < q
          /\ \A y \in B \cup {last} : p < y => q <= y
      BY <2>4, <3>1, RowNext
    <3>3. Fills(last, q, W, V)
      <4>1. q \notin bad
        BY <2>1, <2>2, <3>2
      <4>2. QED  BY <3>2, <4>1
    <3>4. \A y \in B : p <= y <=> y = p \/ q <= y
      <4>1. ASSUME NEW y \in B PROVE p <= y <=> y = p \/ q <= y
        <5>1. y \in Nat /\ (p < y => q <= y)
          BY <1>1, <3>2
        <5>2. QED  BY <2>2, <3>1, <3>2, <5>1
      <4>2. QED  BY <4>1
    <3>5. (\A y \in DOMAIN W : y \in B) /\ (\A y \in DOMAIN V : y \in B)
      BY SizedIs
    <3>6. CASE f[p].free
      <4>1. p \in DOMAIN W /\ p \notin DOMAIN V /\ W[p] \in Nat /\ q = p + BH + W[p]
        BY <2>4, <3>1, <3>6, FreeSize
      <4>2. (\A y \in DOMAIN W : p <= y <=> y = p \/ q <= y) /\ \A y \in DOMAIN V : p <= y <=> q <= y
        BY <3>4, <3>5, <4>1
      <4>3. Fills(last, p, W, V)
        BY <1>1, <2>2, <3>3, <4>1, <4>2, FillsFree
      <4>4. QED  BY <2>2, <4>3
    <3>7. CASE ~f[p].free
      <4>1. p \in DOMAIN V /\ p \notin DOMAIN W /\ V[p] \in Nat /\ q = p + BH + V[p]
        BY <2>4, <3>1, <3>7, UsedSize
      <4>2. (\A y \in DOMAIN V : p <= y <=> y = p \/ q <= y) /\ \A y \in DOMAIN W : p <= y <=> q <= y
        BY <3>4, <3>5, <4>1
      <4>3. Fills(last, q, V, W)
        BY <1>1, <3>3, FillsOther
      <4>4. Fills(last, p, V, W)
        BY <1>1, <2>2, <4>1, <4>2, <4>3, FillsFree
      <4>5. Fills(last, p, W, V)
        BY <1>1, <2>2, <4>4, FillsOther
      <4>6. QED  BY <2>2, <4>5
    <3>8. QED  BY <3>6, <3>7
  <2>5. QED  BY <2>2, <2>3, <2>4
<1>3. QED  BY <1>1, <1>2

\* The end of a storage is the sum of its totals.
LEMMA EndIs ==
  ASSUME NEW s, NEW B, NEW last, NEW W, NEW V, Stands(s, B, last, W, V)
  PROVE  s.hdr.last_off = s.hdr.used_space + s.hdr.free_space
                          + BH * (s.hdr.used_count + s.hdr.free_count)
<1>1. InRow(s, B, last, W, V) /\ Counted(s, W, V) /\ s.hdr.last_off = last
  BY DEF Stands
<1>2. Row(s.file, B, last) /\ Sized(s.file, B, W, V) /\ Lengths(W) /\ Lengths(V)
  BY <1>1 DEF InRow, Sized
<1>3. PICK n, a, m, b : /\ Weighs(n, a, Since(W, 0)) /\ Weighs(m, b, Since(V, 0))
                        /\ last = 0 + a + b + BH * (n + m)
  BY <1>2, RowFilled DEF Fills
<1>4. Since(W, 0) = W /\ Since(V, 0) = V
  <2>1. (\A y \in DOMAIN W : y \in B) /\ (\A y \in DOMAIN V : y \in B)
    BY <1>2, SizedIs
  <2>2. \A y \in B : 0 <= y
    BY <1>2, RowNat
  <2>3. QED  BY <1>2, <2>1, <2>2 DEF Since, Lengths
<1>5. Weighs(s.hdr.free_count, s.hdr.free_space, W) /\ Weighs(s.hdr.used_count, s.hdr.used_space, V)
  BY <1>1 DEF Counted, Pooled, PooledAs
<1>6. /\ s.hdr.free_count = n /\ s.hdr.free_space = a
      /\ s.hdr.used_count = m /\ s.hdr.used_space = b
  BY <1>3, <1>4, <1>5 DEF Weighs
<1>7. n \in Nat /\ a \in Nat /\ m \in Nat /\ b \in Nat
  BY <1>3, WeighsNat
<1>8. PICK w \in Int : w = BH * (n + m)
  BY <1>7, SizesAssumption
<1>9. w = BH * (m + n)
  <2>1. n + m = m + n
    BY <1>7
  <2>2. QED  BY <1>8, <2>1
<1>10. last = b + a + w
  BY <1>3, <1>7, <1>8
<1>11. QED  BY <1>1, <1>6, <1>9, <1>10

-----------------------------------------------------------------------------
(* What a storage that is in order looks like.                             *)

\* The sum of the lengths of some blocks, as it is computed.
LEMMA TotalLenIs ==
  ASSUME NEW W, IsFiniteSet(DOMAIN W), \A l \in DOMAIN W : BlockLen(Storage, l) = W[l]
  PROVE  TotalLen(DOMAIN W) = Total(W)
<1> DEFINE S == DOMAIN W
           h == CHOOSE h : h = [s \in SUBSET S |-> IF s = {} THEN 0
                  ELSE BlockLen(Storage, CHOOSE x \in s : TRUE) + h[s \ {CHOOSE x \in s : TRUE}]]
<1>1. TotalLen(S) = h[S]
  BY Zenon DEF TotalLen, MapThenSumSet, MapThenFoldSet
<1>2. PICK g : Adds(W, S, g)
  BY SumsExist
<1>3. \A s \in SUBSET S : s # {} => BlockLen(Storage, CHOOSE x \in s : TRUE) = W[CHOOSE x \in s : TRUE]
  <2>1. ASSUME NEW s \in SUBSET S, s # {}
        PROVE  BlockLen(Storage, CHOOSE x \in s : TRUE) = W[CHOOSE x \in s : TRUE]
    <3>1. (CHOOSE x \in s : TRUE) \in s
      BY <2>1
    <3>2. QED  BY <3>1
  <2>2. QED  BY <2>1
<1>4. \E k : k = [s \in SUBSET S |-> IF s = {} THEN 0
                  ELSE BlockLen(Storage, CHOOSE x \in s : TRUE) + k[s \ {CHOOSE x \in s : TRUE}]]
  <2>1. g = [s \in SUBSET S |-> IF s = {} THEN 0
                  ELSE W[CHOOSE x \in s : TRUE] + g[s \ {CHOOSE x \in s : TRUE}]]
    BY <1>2 DEF Adds, Sums, SumStep
  <2>2. g = [s \in SUBSET S |-> IF s = {} THEN 0
                  ELSE BlockLen(Storage, CHOOSE x \in s : TRUE) + g[s \ {CHOOSE x \in s : TRUE}]]
    BY <1>3, <2>1
  <2>3. QED  BY <2>2
<1>5. h = [s \in SUBSET S |-> IF s = {} THEN 0
                  ELSE BlockLen(Storage, CHOOSE x \in s : TRUE) + h[s \ {CHOOSE x \in s : TRUE}]]
  BY Zenon, <1>4
<1> HIDE DEF h
<1>6. h = [s \in SUBSET S |-> IF s = {} THEN 0
                  ELSE W[CHOOSE x \in s : TRUE] + h[s \ {CHOOSE x \in s : TRUE}]]
  BY <1>3, <1>5
<1>7. Adds(W, S, h)
  BY <1>6 DEF Adds, Sums, SumStep
<1>8. PICK k : Adds(W, S, k) /\ Total(W) = k[S]
  BY <1>2, TotalIs
<1>9. h[S] = k[S]
  <2>1. \A x \in S : W[x] = W[x]
    OBVIOUS
  <2>2. S \subseteq S
    OBVIOUS
  <2>3. QED  BY <1>7, <1>8, <2>1, <2>2, SumsSame
<1>10. QED  BY <1>1, <1>8, <1>9

\* Which blocks there are, and of which lengths.
LEMMA BlocksOf ==
  ASSUME NEW B, NEW last, NEW W, NEW V, Stands(Storage, B, last, W, V)
  PROVE  /\ Row(file, B, last) /\ Sized(file, B, W, V) /\ hdr.last_off = last
         /\ Blocks = B /\ Records = DOMAIN V /\ Frees = DOMAIN W
         /\ \A x \in DOMAIN W : BlockLen(Storage, x) = W[x] /\ file[x].free
         /\ \A x \in DOMAIN V : BlockLen(Storage, x) = V[x] /\ ~file[x].free
         /\ \A b : FreeIn(b) = DOMAIN InBand(W, b)
<1>1. Storage.file = file /\ Storage.hdr = hdr
  BY DEF Storage
<1>2. InRow(Storage, B, last, W, V) /\ hdr.last_off = last
  BY <1>1 DEF Stands
<1>3. Row(file, B, last) /\ Sized(file, B, W, V)
  BY <1>1, <1>2 DEF InRow
<1>4. Blocks = B
  BY <1>3, BlocksAre DEF Blocks
<1>5. Records = DOMAIN V /\ Frees = DOMAIN W
  BY <1>3, <1>4 DEF Records, Frees, Sized
<1>6. ASSUME NEW x \in DOMAIN W PROVE BlockLen(Storage, x) = W[x] /\ file[x].free
  <2>1. x \in B /\ file[x].free
    BY <1>3, SizedIs
  <2>2. QED  BY <1>1, <1>2, <2>1, LenIs
<1>7. ASSUME NEW x \in DOMAIN V PROVE BlockLen(Storage, x) = V[x] /\ ~file[x].free
  <2>1. x \in B /\ ~file[x].free
    BY <1>3, SizedIs
  <2>2. QED  BY <1>1, <1>2, <2>1, LenIs
<1>8. \A b : FreeIn(b) = DOMAIN InBand(W, b)
  BY <1>5, <1>6 DEF FreeIn, InBand
<1>9. QED  BY <1>2, <1>3, <1>4, <1>5, <1>6, <1>7, <1>8

\* Its blocks tile the file.
LEMMA Tiles ==
  ASSUME NEW B, NEW last, NEW W, NEW V, Stands(Storage, B, last, W, V)
  PROVE  BlocksTile
<1>1. Row(file, B, last) /\ hdr.last_off = last /\ Blocks = B
  BY BlocksOf
<1>2. 0 \in B \cup {last} /\ file[last] \in BlockHdr /\ file[last].free
      /\ file[last].next = RECLOCATOR_MAX
  BY <1>1, RowNat
<1>3. file[0].prev = RECLOCATOR_MAX
  BY <1>1, <1>2, RowPrev
<1>4. last \notin B
  <2>1. last \in Nat /\ \A x \in B : x < last
    BY <1>1, RowNat
  <2>2. QED  BY <2>1
<1>5. \A l \in B : file[l].next \in B \cup {last} /\ file[file[l].next].prev = l
  BY <1>1, RowNext
<1>6. QED  BY <1>1, <1>2, <1>3, <1>4, <1>5 DEF BlocksTile

\* No two free blocks touch.
LEMMA Merged ==
  ASSUME NEW B, NEW last, NEW W, NEW V, Stands(Storage, B, last, W, V)
  PROVE  Coalesced
<1>1. /\ Row(file, B, last) /\ Blocks = B
      /\ Records = {l \in B : ~file[l].free} /\ Frees = {l \in B : file[l].free}
  BY BlocksOf DEF Records, Frees
<1>2. \A l \in B : file[l].free => file[l].next \in B /\ ~file[file[l].next].free
  BY <1>1, RowNext
<1>3. QED  BY <1>1, <1>2 DEF Coalesced

\* Its totals are those of its blocks.
LEMMA Totals ==
  ASSUME NEW B, NEW last, NEW W, NEW V, Stands(Storage, B, last, W, V)
  PROVE  Accounted
<1>1. /\ Records = DOMAIN V /\ Frees = DOMAIN W
      /\ \A x \in DOMAIN W : BlockLen(Storage, x) = W[x]
      /\ \A x \in DOMAIN V : BlockLen(Storage, x) = V[x]
      /\ \A b : FreeIn(b) = DOMAIN InBand(W, b)
  BY BlocksOf
<1>2. Storage.hdr = hdr /\ Storage.bands = bands
  BY DEF Storage
<1>3. /\ Weighs(hdr.used_count, hdr.used_space, V) /\ Weighs(hdr.free_count, hdr.free_space, W)
      /\ \A b \in Band : Weighs(bands[b].count, bands[b].space, InBand(W, b))
  BY <1>2 DEF Stands, Counted, Pooled, PooledAs
<1>4. hdr.used_count = Cardinality(Records) /\ hdr.used_space = TotalLen(Records)
  BY <1>1, <1>3, TotalLenIs DEF Weighs
<1>5. hdr.free_count = Cardinality(Frees) /\ hdr.free_space = TotalLen(Frees)
  BY <1>1, <1>3, TotalLenIs DEF Weighs
<1>6. ASSUME NEW b \in Band
      PROVE  bands[b].count = Cardinality(FreeIn(b)) /\ bands[b].space = TotalLen(FreeIn(b))
  <2>1. PICK U : U = InBand(W, b)
    OBVIOUS
  <2>2. \A x \in DOMAIN U : BlockLen(Storage, x) = U[x]
    BY <1>1, <2>1 DEF InBand
  <2>3. Weighs(bands[b].count, bands[b].space, U) /\ FreeIn(b) = DOMAIN U
    BY <1>1, <1>3, <2>1
  <2>4. QED  BY <2>2, <2>3, TotalLenIs DEF Weighs
<1>7. hdr.last_off = hdr.used_space + hdr.free_space + BH * (hdr.used_count + hdr.free_count)
  BY <1>2, EndIs
<1>8. QED  BY <1>4, <1>5, <1>6, <1>7 DEF Accounted

\* It is of its type.
LEMMA Typed ==
  ASSUME NEW B, NEW last, NEW W, NEW V, Stands(Storage, B, last, W, V), isopen \in BOOLEAN
  PROVE  TypeOK
<1>1. Storage.file = file /\ Storage.hdr = hdr /\ Storage.bands = bands
  BY DEF Storage
<1>2. file \in [Off -> Cell] /\ hdr \in FileHdr /\ bands \in [Band -> FreeBand]
  BY <1>1 DEF Stands, Counted, State
<1>3. /\ Weighs(hdr.used_count, hdr.used_space, V) /\ Weighs(hdr.free_count, hdr.free_space, W)
      /\ \A b \in Band : Weighs(bands[b].count, bands[b].space, InBand(W, b))
  BY <1>1 DEF Stands, Counted, Pooled, PooledAs
<1>4. /\ hdr.used_count \in Nat /\ hdr.used_space \in Nat
      /\ hdr.free_count \in Nat /\ hdr.free_space \in Nat
  BY <1>3, WeighsNat
<1>5. hdr.last_off \in Off
  <2>1. hdr.last_off = last /\ Row(file, B, last)
    BY BlocksOf
  <2>2. QED  BY <2>1, RowNat
<1>6. hdr \in [last_off : Off, used_count : Nat, free_count : Nat,
               used_space : Nat, free_space : Nat]
  BY <1>2, <1>4, <1>5 DEF FileHdr
<1>7. \A b \in Band : bands[b].count \in Nat /\ bands[b].space \in Nat
  BY <1>3, WeighsNat
<1>8. bands \in [Band -> [count : Nat, space : Nat, first : Locator, last : Locator]]
  <2>1. ASSUME NEW b \in Band
        PROVE  bands[b] \in [count : Nat, space : Nat, first : Locator, last : Locator]
    <3>1. bands[b] \in FreeBand
      BY <1>2
    <3>2. QED  BY <1>7, <3>1 DEF FreeBand
  <2>2. QED  BY <1>2, <2>1
<1>9. QED  BY <1>2, <1>6, <1>8 DEF TypeOK

-----------------------------------------------------------------------------
(* Steps.                                                                  *)

\* A storage stays in order as long as its headers, its lists and its totals
\* are as they were.
LEMMA Unaltered ==
  ASSUME NEW s, NEW B, NEW last, NEW W, NEW V, Stands(s, B, last, W, V),
         NEW t \in State, t.hdr = s.hdr, t.bands = s.bands,
         \A y \in B \cup {last} : t.file[y] = s.file[y],
         \A y \in Listed(W) : t.file[y + BH] = s.file[y + BH]
  PROVE  Stands(t, B, last, W, V)
<1>1. InRow(s, B, last, W, V) /\ Counted(s, W, V) /\ s.hdr.last_off = last
  BY DEF Stands
<1>2. Row(s.file, B, last) /\ Sized(s.file, B, W, V)
  BY <1>1 DEF InRow
<1>3. Row(t.file, B, last)
  BY <1>2, RowSame
<1>4. Sized(t.file, B, W, V)
  BY <1>2 DEF Sized
<1>5. Pooled(t, W)
  <2>1. Pooled(s, W) /\ SameFree(s, t)
    BY <1>1 DEF Counted, SameFree
  <2>2. QED  BY <2>1, PooledSame
<1>6. Counted(t, W, V)
  BY <1>1, <1>5 DEF Counted
<1>7. t.hdr.last_off = last
  BY <1>1
<1>8. QED  BY <1>3, <1>4, <1>6, <1>7 DEF Stands, InRow

\* What something still reads is not forgotten.
LEMMA ForgetIs ==
  ASSUME NEW s, NEW B, NEW last, NEW W, NEW V, Stands(s, B, last, W, V)
  PROVE  /\ Forget(s) \in [Off -> Cell]
         /\ \A y \in B \cup {last} : Forget(s)[y] = s.file[y]
         /\ \A y \in Listed(W) : Forget(s)[y + BH] = s.file[y + BH]
<1>1. InRow(s, B, last, W, V) /\ s \in State /\ s.hdr.last_off = last
  BY DEF Stands, Counted
<1>2. Row(s.file, B, last) /\ Sized(s.file, B, W, V)
  BY <1>1 DEF InRow
<1>3. BlocksIn(s.file) = B
  BY <1>2, BlocksAre
<1>4. ASSUME NEW c \in Off
      PROVE  /\ Forget(s)[c] \in {s.file[c], Junk}
             /\ c \in LiveCells(s) => Forget(s)[c] = s.file[c]
  BY DEF Forget
<1>5. s.file \in [Off -> Cell] /\ Junk \in Cell
  BY <1>1 DEF State, Cell
<1>6. Forget(s) \in [Off -> Cell]
  <2>1. \E p : Forget(s) = [c \in Off |-> IF p[c] THEN s.file[c] ELSE Junk]
    <3>1. PICK p : p = [c \in Off |-> \/ c \in LiveCells(s)
                                      \/ c \in UNION {l + BH .. s.file[l].next - 1 :
                                            l \in {b \in BlocksIn(s.file) : ~s.file[b].free}}
                                         /\ s.file[c] \in Values]
      OBVIOUS
    <3>2. QED  BY <3>1 DEF Forget
  <2>2. QED  BY <1>5, <2>1
<1>7. ASSUME NEW y \in B \cup {last} PROVE Forget(s)[y] = s.file[y]
  <2>1. y \in LiveCells(s)
    BY <1>1, <1>3 DEF LiveCells
  <2>2. y \in Off
    BY <1>2, RowNat
  <2>3. QED  BY <1>4, <2>1, <2>2
<1>8. ASSUME NEW y \in Listed(W) PROVE Forget(s)[y + BH] = s.file[y + BH]
  <2>1. y \in DOMAIN W /\ CalcBand(W[y]) \in Band
    BY DEF Listed
  <2>2. y \in B /\ s.file[y].free
    BY <1>2, <2>1, SizedIs
  <2>3. BlockLen(s, y) = W[y]
    BY <1>1, <2>2, LenIs
  <2>4. CalcBand(BlockLen(s, y)) # NoBand
    BY <2>1, <2>3, Bands
  <2>5. y + BH \in LiveCells(s)
    BY <1>3, <2>2, <2>4 DEF LiveCells
  <2>6. y + BH \in Off
    <3>1. Apart(W)
      BY <1>2, RowApart
    <3>2. QED  BY <3>1, ApartIs
  <2>7. QED  BY <1>4, <2>5, <2>6
<1>9. QED  BY <1>6, <1>7, <1>8

\* What the storage becomes stands as t does.
LEMMA BecomeStands ==
  ASSUME NEW t, NEW B, NEW last, NEW W, NEW V, Stands(t, B, last, W, V), Become(t)
  PROVE  Stands(Storage', B, last, W, V)
<1>1. t \in State
  BY DEF Stands, Counted
<1>2. Storage'.file = file' /\ Storage'.hdr = t.hdr /\ Storage'.bands = t.bands
  BY DEF Storage, Become
<1>3. \/ file' = t.file
      \/ file' = Forget(t)
  BY DEF Become
<1>4. /\ file' \in [Off -> Cell]
      /\ \A y \in B \cup {last} : file'[y] = t.file[y]
      /\ \A y \in Listed(W) : file'[y + BH] = t.file[y + BH]
  <2>1. CASE file' = t.file
    BY <1>1, <2>1 DEF State
  <2>2. CASE file' = Forget(t)
    BY <2>2, ForgetIs
  <2>3. QED  BY <1>3, <2>1, <2>2
<1>5. Storage' \in State
  BY <1>1, <1>2, <1>4 DEF State, Storage
<1>6. QED  BY <1>2, <1>4, <1>5, Unaltered

\* What the storage becomes is in order.
LEMMA BecomeIs ==
  ASSUME NEW t, InOrder(t), Become(t)
  PROVE  InOrder(Storage')
<1>1. PICK B, last, W, V : Stands(t, B, last, W, V)
  BY DEF InOrder
<1>2. Stands(Storage', B, last, W, V)
  BY <1>1, BecomeStands
<1>3. QED  BY <1>2 DEF InOrder

\* Data that are written in a record.
LEMMA FilledOrder ==
  ASSUME NEW s, NEW B, NEW last, NEW W, NEW V, Stands(s, B, last, W, V), NEW x \in DOMAIN V,
         NEW at \in Int, NEW n \in Int, NEW v \in Values, Inside(at, n, x, V[x])
  PROVE  InOrder(Write(s, at, Fill(n, v)))
<1>1. s \in State /\ Row(s.file, B, last) /\ Sized(s.file, B, W, V)
  BY DEF Stands, Counted, InRow
<1>2. x \in B /\ ~s.file[x].free
  BY <1>1, SizedIs
<1>3. PICK k \in Nat : k = V[x]
  BY <1>1, <1>2, UsedSize
<1>4. x \in Nat /\ v \in Cell
  BY <1>1, <1>2, RowNat DEF Cell
<1>5. PICK t : t = Write(s, at, Fill(n, v))
  OBVIOUS
<1>6. Inside(at, n, x, k)
  BY <1>3
<1>7. Filled(s, t, x, k)
  BY <1>1, <1>4, <1>5, <1>6, FillIs
<1>8. Filled(s, t, x, V[x])
  BY <1>3, <1>7
<1>9. Stands(t, B, last, W, V)
  BY <1>8, DataStands
<1>10. InOrder(t)
  BY <1>9 DEF InOrder
<1>11. QED  BY <1>5, <1>10

\* The storage that allocRec leaves is in order, within the file.
LEMMA AllocOrder ==
  ASSUME NEW s, NEW B, NEW last, NEW W, NEW V, Stands(s, B, last, W, V), NEW len \in Nat,
         Bounded(AllocRec(s, len).s)
  PROVE  Alloced(s, AllocRec(s, len).s, AllocRec(s, len).loc, V, len)
<1>1. InRow(s, B, last, W, V) /\ s \in State /\ s.hdr.last_off = last
  BY DEF Stands, Counted
<1>2. Row(s.file, B, last) /\ Sized(s.file, B, W, V)
  BY <1>1 DEF InRow
<1>3. last \in Nat /\ last \notin DOMAIN W
  <2>1. last \in Nat /\ last \notin B
    BY <1>2, RowNat
  <2>2. QED  BY <1>2, <2>1, SizedIs
<1>4. Room(s, last, len)
  <2>1. ASSUME AllocRec(s, len).loc = last PROVE last + BH + len \in Off
    <3>1. PICK t : t = AllocRec(s, len).s
      OBVIOUS
    <3>2. t = AllocAtEnd(s, len)
      BY <1>3, <2>1, <3>1, AllocWhere
    <3>3. PICK e : e = last + BH + len
      OBVIOUS
    <3>4. len \in Int /\ e = s.hdr.last_off + BH + len
      BY <1>1, <3>3
    <3>5. Shaped(AllocAtEnd(s, len), e)
      BY <1>1, <3>4, EndMoved
    <3>6. t.hdr.last_off = e
      BY <3>2, <3>5, ShapedEnd
    <3>7. e + BH - 1 <= MaxOff
      BY <3>1, <3>6 DEF Bounded
    <3>8. QED  BY <1>3, <3>3, <3>7, SizesAssumption DEF Off
  <2>2. QED  BY <2>1 DEF Room
<1>5. QED  BY <1>4, AllocRecIs

-----------------------------------------------------------------------------
(* The operations.                                                         *)

\* A record that is moved leaves a storage that is in order.
LEMMA MovedOrder ==
  ASSUME NEW s, NEW u, NEW w, NEW t, NEW V, NEW x, NEW loc, NEW len,
         MovedTo(s, u, w, t, V, x, loc, len)
  PROVE  InOrder(t)
  BY DEF MovedTo, InOrder

\* So does one that is resized.
LEMMA ReshapedOrder ==
  ASSUME NEW s, NEW t, NEW V, NEW x, NEW len, Reshaped(s, t, V, x, len)
  PROVE  InOrder(t)
  BY DEF Reshaped, InOrder

\* And one that is spliced.
LEMMA SlicedOrder ==
  ASSUME NEW s, NEW t, NEW V, Lengths(V), NEW x \in DOMAIN V, NEW loc, NEW q, NEW m, Asked(q, m),
         Sliced(s, t, V, x, loc, q)
  PROVE  InOrder(t)
<1>1. ASSUME NEW u, NEW w, MovedTo(s, u, w, t, V, x, loc, SliceLen(q)) PROVE InOrder(t)
  BY <1>1, MovedOrder
<1>2. ASSUME NEW u, Reshaped(u, t, V, x, SliceLen(q)) PROVE InOrder(t)
  BY <1>2, ReshapedOrder
<1>3. ASSUME NEW u, NEW n \in Nat, SliceLen(q) <= n, Reshaped(s, u, V, x, n),
             t = MoveAndFill(u, x, x, q)
      PROVE  InOrder(t)
  <2>1. PICK C, l, G : \E k \in Nat :
          n <= k /\ Stands(u, C, l, G, Resized(V, x, k)) /\ Held(s, u, Resized(V, x, k))
    BY <1>3 DEF Reshaped
  <2>2. PICK k \in Nat : SliceLen(q) <= k /\ Stands(u, C, l, G, Resized(V, x, k))
    <3>1. PICK k \in Nat : n <= k /\ Stands(u, C, l, G, Resized(V, x, k))
      BY <2>1
    <3>2. SliceLen(q) \in Int
      BY SliceLenInt
    <3>3. QED  BY <1>3, <3>1, <3>2
  <2>3. PICK U : U = Resized(V, x, k)
    OBVIOUS
  <2>4. x \in DOMAIN U /\ U[x] = k
    BY <2>3 DEF Resized, With
  <2>5. Stands(u, C, l, G, U)
    BY <2>2, <2>3
  <2>6. u \in State /\ Row(u.file, C, l) /\ Sized(u.file, C, G, U)
    BY <2>5 DEF Stands, Counted, InRow
  <2>7. x \in Nat
    BY <2>4, <2>6, SizedIs, RowNat
  <2>8. PICK w : w = MoveAndFill(u, x, x, q)
    OBVIOUS
  <2>9. Filled(u, w, x, k)
    BY <2>2, <2>6, <2>7, <2>8, MoveAndFillIs
  <2>10. Filled(u, w, x, U[x])
    BY <2>4, <2>9
  <2>11. Stands(w, C, l, G, U)
    BY <2>4, <2>5, <2>10, DataStands
  <2>12. InOrder(w)
    BY <2>11 DEF InOrder
  <2>13. QED  BY <1>3, <2>8, <2>12
<1>4. QED  BY <1>1, <1>2, <1>3 DEF Sliced

\* The records of a storage that is in order.
LEMMA RecordsAre ==
  ASSUME NEW B, NEW last, NEW W, NEW V, Stands(Storage, B, last, W, V)
  PROVE  /\ Records = DOMAIN V /\ Lengths(V) /\ Row(Storage.file, B, last)
         /\ \A x \in Records : x \in Nat /\ V[x] \in Nat /\ BlockLen(Storage, x) = V[x]
<1>1. Row(Storage.file, B, last) /\ Sized(Storage.file, B, W, V)
  BY DEF Stands, InRow
<1>2. Records = DOMAIN V /\ \A x \in DOMAIN V : BlockLen(Storage, x) = V[x]
  BY BlocksOf
<1>3. Lengths(V) /\ \A x \in DOMAIN V : x \in B /\ V[x] \in Nat
  BY <1>1 DEF Sized, Lengths
<1>4. QED  BY <1>1, <1>2, <1>3, RowNat

\* alloc.
LEMMA AllocKeeps ==
  ASSUME InOrder(Storage), NEW len \in Lens, Alloc(len)
  PROVE  InOrder(Storage')
<1>1. PICK B, last, W, V : Stands(Storage, B, last, W, V)
  BY DEF InOrder
<1>2. PICK t : t = AllocRec(Storage, len).s
  OBVIOUS
<1>3. Bounded(t) /\ Become(t) /\ len \in Nat
  BY <1>2, SizesAssumption DEF Alloc
<1>4. Alloced(Storage, AllocRec(Storage, len).s, AllocRec(Storage, len).loc, V, len)
  BY <1>1, <1>2, <1>3, AllocOrder
<1>5. InOrder(t)
  BY <1>2, <1>4 DEF Alloced, InOrder
<1>6. QED  BY <1>3, <1>5, BecomeIs

\* add: the new record is written.
LEMMA AddKeeps ==
  ASSUME InOrder(Storage), NEW len \in Lens, NEW v \in Values, Add(len, v)
  PROVE  InOrder(Storage')
<1>1. PICK B, last, W, V : Stands(Storage, B, last, W, V)
  BY DEF InOrder
<1>2. PICK t : t = AllocRec(Storage, len).s
  OBVIOUS
<1>3. PICK loc : loc = AllocRec(Storage, len).loc
  OBVIOUS
<1>4. Bounded(t) /\ Become(Write(t, loc + BH, Fill(len, v))) /\ len \in Nat
  BY <1>2, <1>3, SizesAssumption DEF Add
<1>5. Alloced(Storage, AllocRec(Storage, len).s, AllocRec(Storage, len).loc, V, len)
  BY <1>1, <1>2, <1>4, AllocOrder
<1>6. Alloced(Storage, t, loc, V, len)
  BY <1>2, <1>3, <1>5
<1>7. PICK C, l, G : \E k \in Nat : len <= k /\ Stands(t, C, l, G, With(V, loc, k))
  BY <1>6 DEF Alloced
<1>8. PICK k \in Nat : len <= k /\ Stands(t, C, l, G, With(V, loc, k))
  BY <1>7
<1>9. PICK U : U = With(V, loc, k)
  OBVIOUS
<1>10. loc \in DOMAIN U /\ U[loc] = k
  BY <1>9 DEF With
<1>11. Stands(t, C, l, G, U)
  BY <1>8, <1>9
<1>12. loc \in Nat
  <2>1. Row(t.file, C, l) /\ Sized(t.file, C, G, U)
    BY <1>11 DEF Stands, InRow
  <2>2. QED  BY <1>10, <2>1, SizedIs, RowNat
<1>13. PICK at \in Int : at = loc + BH
  BY <1>12, SizesAssumption
<1>14. Inside(at, len, loc, U[loc])
  BY <1>4, <1>8, <1>10, <1>12, <1>13, SizesAssumption DEF Inside
<1>15. len \in Int
  BY <1>4
<1>16. InOrder(Write(t, at, Fill(len, v)))
  BY <1>10, <1>11, <1>14, <1>15, FilledOrder
<1>17. Become(Write(t, at, Fill(len, v)))
  BY <1>4, <1>13
<1>18. QED  BY <1>16, <1>17, BecomeIs

\* writeRec.
LEMMA WriteKeeps ==
  ASSUME InOrder(Storage), NEW loc \in Records, NEW off \in Lens, NEW len \in Lens,
         NEW v \in Values, WriteRec(loc, off, len, v)
  PROVE  InOrder(Storage')
<1>1. PICK B, last, W, V : Stands(Storage, B, last, W, V)
  BY DEF InOrder
<1>2. loc \in DOMAIN V /\ loc \in Nat /\ V[loc] \in Nat /\ BlockLen(Storage, loc) = V[loc]
  BY <1>1, RecordsAre
<1>3. off \in Nat /\ len \in Nat /\ BH \in Nat
  BY SizesAssumption
<1>4. off + len <= V[loc] /\ Become(Write(Storage, loc + BH + off, Fill(len, v)))
  BY <1>2 DEF WriteRec
<1>5. PICK at \in Int : at = loc + BH + off
  BY <1>2, <1>3
<1>6. Inside(at, len, loc, V[loc])
  <2>1. PICK k \in Nat : k = V[loc]
    BY <1>2
  <2>2. at + len <= loc + BH + k /\ loc + BH <= at
    BY <1>2, <1>3, <1>4, <1>5, <2>1
  <2>3. QED  BY <2>1, <2>2 DEF Inside
<1>7. len \in Int
  BY <1>3
<1>8. InOrder(Write(Storage, at, Fill(len, v)))
  BY <1>1, <1>2, <1>6, <1>7, FilledOrder
<1>9. Become(Write(Storage, at, Fill(len, v)))
  BY <1>4, <1>5
<1>10. QED  BY <1>8, <1>9, BecomeIs

\* freeRec.
LEMMA FreeKeeps ==
  ASSUME InOrder(Storage), NEW loc \in Records, Free(loc)
  PROVE  InOrder(Storage')
<1>1. PICK B, last, W, V : Stands(Storage, B, last, W, V)
  BY DEF InOrder
<1>2. loc \in DOMAIN V
  BY <1>1, RecordsAre
<1>3. PICK t : t = FreeRec(Storage, loc)
  OBVIOUS
<1>4. Freed(Storage, t, V, loc)
  BY <1>1, <1>2, <1>3, FreeRecIs
<1>5. InOrder(t)
  BY <1>4 DEF Freed, InOrder
<1>6. Become(t)
  BY <1>3 DEF Free
<1>7. QED  BY <1>5, <1>6, BecomeIs

\* reallocRec.
LEMMA ReallocKeeps ==
  ASSUME InOrder(Storage), NEW loc \in Records, NEW len \in Lens, Realloc(loc, len)
  PROVE  InOrder(Storage')
<1>1. PICK B, last, W, V : Stands(Storage, B, last, W, V)
  BY DEF InOrder
<1>2. loc \in DOMAIN V /\ len \in Nat
  BY <1>1, RecordsAre, SizesAssumption
<1>3. Bounded(ReallocRec(Storage, loc, len).s)
  BY DEF Realloc
<1>4. Reallocated(Storage, ReallocRec(Storage, loc, len).s, V, loc,
                  ReallocRec(Storage, loc, len).loc, len)
  BY <1>1, <1>2, <1>3, ReallocRecIs
<1>5. PICK t : t = ReallocRec(Storage, loc, len).s
  OBVIOUS
<1>6. InOrder(t)
  BY <1>4, <1>5, MovedOrder, ReshapedOrder DEF Reallocated
<1>7. Become(t)
  BY <1>5 DEF Realloc
<1>8. QED  BY <1>6, <1>7, BecomeIs

\* What a caller may ask of sliceRec.
LEMMA SlicesAsked ==
  ASSUME NEW loc \in Records, NEW x \in Slices(loc)
  PROVE  /\ SliceLen(x) \in Nat /\ SliceLen(x) \in Lens /\ x.full <= BlockLen(Storage, loc)
         /\ \E m : Asked(x, m)
<1>1. /\ x \in [off : Lens, cut : Lens, full : Lens, data : Patches]
      /\ x.full <= BlockLen(Storage, loc) /\ (x.cut > 0 => x.off + x.cut <= x.full)
      /\ SliceLen(x) \in Lens
  BY DEF Slices
<1>2. x.off \in Nat /\ x.cut \in Nat /\ x.full \in Nat /\ SliceLen(x) \in Nat
  BY <1>1, SizesAssumption
<1>3. \E m \in Nat : x.data \in [1 .. m -> Values]
  <2>1. CASE x.data = << >>
    <3>1. << >> \in Seq(Values) /\ Len(<< >>) = 0
      OBVIOUS
    <3>2. << >> \in [1 .. 0 -> Values]
      BY <3>1
    <3>3. QED  BY <2>1, <3>2
  <2>2. ASSUME NEW n \in Lens, NEW v \in Values, x.data = Fill(n, v)
        PROVE  \E m \in Nat : x.data \in [1 .. m -> Values]
    <3>1. n \in Nat
      BY SizesAssumption
    <3>2. x.data \in [1 .. n -> Values]
      BY <2>2 DEF Fill
    <3>3. QED  BY <3>1, <3>2
  <2>3. QED  BY <1>1, <2>1, <2>2 DEF Patches
<1>4. PICK m \in Nat : x.data \in [1 .. m -> Values]
  BY <1>3
<1>5. Asked(x, m)
  BY <1>1, <1>2, <1>4 DEF Asked
<1>6. QED  BY <1>1, <1>2, <1>5

\* sliceRec.
LEMMA SliceKeeps ==
  ASSUME InOrder(Storage), NEW loc \in Records, NEW x \in Slices(loc), Slice(loc, x)
  PROVE  InOrder(Storage')
<1>1. PICK B, last, W, V : Stands(Storage, B, last, W, V)
  BY DEF InOrder
<1>2. loc \in DOMAIN V /\ BlockLen(Storage, loc) = V[loc] /\ Lengths(V)
  BY <1>1, RecordsAre
<1>3. SliceLen(x) \in Nat /\ x.full <= V[loc]
  BY <1>2, SlicesAsked
<1>4. PICK m : Asked(x, m)
  BY SlicesAsked
<1>5. Bounded(SliceRec(Storage, loc, x).s)
  BY DEF Slice
<1>6. Sliced(Storage, SliceRec(Storage, loc, x).s, V, loc, SliceRec(Storage, loc, x).loc, x)
  BY <1>1, <1>2, <1>3, <1>4, <1>5, SliceRecIs
<1>7. PICK t : t = SliceRec(Storage, loc, x).s
  OBVIOUS
<1>8. PICK at : at = SliceRec(Storage, loc, x).loc
  OBVIOUS
<1>9. Sliced(Storage, t, V, loc, at, x)
  BY <1>6, <1>7, <1>8
<1>10. InOrder(t)
  BY <1>2, <1>4, <1>9, SlicedOrder
<1>11. Become(t)
  BY <1>7 DEF Slice
<1>12. QED  BY <1>10, <1>11, BecomeIs

\* sliceRec that throws after it allocated.
LEMMA SliceFailsKeeps ==
  ASSUME InOrder(Storage), NEW loc \in Records, NEW x \in Slices(loc), SliceFails(loc, x)
  PROVE  InOrder(Storage')
<1>1. PICK B, last, W, V : Stands(Storage, B, last, W, V)
  BY DEF InOrder
<1>2. PICK len \in Nat : len = SliceLen(x)
  BY SlicesAsked
<1>3. PICK t : t = AllocRec(Storage, len).s
  OBVIOUS
<1>4. Bounded(AllocRec(Storage, len).s) /\ Become(t)
  BY <1>2, <1>3 DEF SliceFails
<1>5. Alloced(Storage, AllocRec(Storage, len).s, AllocRec(Storage, len).loc, V, len)
  BY <1>1, <1>4, AllocOrder
<1>6. InOrder(t)
  BY <1>3, <1>5 DEF Alloced, InOrder
<1>7. QED  BY <1>4, <1>6, BecomeIs

\* close leaves the headers and the lists as they are.
LEMMA CloseStands ==
  ASSUME NEW B, NEW last, NEW W, NEW V, Stands(Storage, B, last, W, V), Close
  PROVE  Stands(Storage', B, last, W, V)
<1>1. Storage.file = file /\ Storage.hdr = hdr /\ Storage.bands = bands
  BY DEF Storage
<1>2. Storage'.file = file' /\ Storage'.hdr = hdr /\ Storage'.bands = bands
  BY DEF Storage, Close
<1>3. file' = [c \in Off |-> IF c < hdr.last_off + BH THEN file[c] ELSE Junk]
  BY DEF Close
<1>4. Storage \in State /\ file \in [Off -> Cell] /\ hdr.last_off = last
      /\ Row(file, B, last) /\ Sized(file, B, W, V)
  BY <1>1 DEF Stands, Counted, State, InRow
<1>5. Storage' \in State
  <2>1. file' \in [Off -> Cell]
    BY <1>3, <1>4 DEF Cell
  <2>2. hdr \in FileHdr /\ bands \in [Band -> FreeBand]
    BY <1>1, <1>4 DEF State
  <2>3. Storage' = [file |-> file', hdr |-> hdr, bands |-> bands]
    BY DEF Storage, Close
  <2>4. QED  BY <2>1, <2>2, <2>3 DEF State
<1>6. ASSUME NEW y \in B \cup {last} PROVE file'[y] = file[y]
  <2>1. y \in Off /\ y \in Nat /\ y <= last /\ last \in Nat
    BY <1>4, RowNat
  <2>2. y < last + BH
    BY <2>1, SizesAssumption
  <2>3. QED  BY <1>3, <1>4, <2>1, <2>2
<1>7. ASSUME NEW y \in Listed(W) PROVE file'[y + BH] = file[y + BH]
  <2>1. y \in DOMAIN W
    BY DEF Listed
  <2>2. y \in B /\ file[y].free
    BY <1>4, <2>1, SizedIs
  <2>3. y + BH \in Off
    <3>1. Apart(W)
      BY <1>4, RowApart
    <3>2. QED  BY <3>1, ApartIs
  <2>4. y \in Nat /\ y < last /\ last \in Nat
    BY <1>4, <2>2, RowNat
  <2>5. y + BH < last + BH
    BY <2>4, SizesAssumption
  <2>6. QED  BY <1>3, <1>4, <2>3, <2>5
<1>8. QED  BY <1>1, <1>2, <1>5, <1>6, <1>7, Unaltered

\* close and wrap.
LEMMA CloseKeeps ==
  ASSUME InOrder(Storage), Close \/ Wrap
  PROVE  InOrder(Storage')
<1>1. CASE Wrap
  BY <1>1 DEF Wrap, Storage
<1>2. CASE Close
  BY <1>2, CloseStands DEF InOrder
<1>3. QED  BY <1>1, <1>2

-----------------------------------------------------------------------------
(* The first state.                                                        *)

\* An empty storage is in order.
LEMMA InitInOrder ==
  ASSUME Init
  PROVE  InOrder(Storage)
<1>1. PICK W : W = [y \in {} |-> 0]
  OBVIOUS
<1>2. DOMAIN W = {} /\ Lengths(W)
  BY <1>1 DEF Lengths
<1>3. Storage.file = file /\ Storage.hdr = hdr /\ Storage.bands = bands
  BY DEF Storage
<1>4. 0 \in Off /\ MaxOff \in Nat
  BY SizesAssumption DEF Off
<1>5. /\ file[0] \in BlockHdr /\ file[0].free /\ file[0].prev = RECLOCATOR_MAX
      /\ file[0].next = RECLOCATOR_MAX
  BY <1>4 DEF Init, BlockHdr, Locator
<1>6. Row(file, {}, 0)
  <2>1. Headed(file, {}, 0)
    BY <1>4, <1>5 DEF Headed
  <2>2. Follows(file, {}, 0)
    BY <1>5 DEF Follows
  <2>3. QED  BY <2>1, <2>2 DEF Row
<1>7. Sized(file, {}, W, W)
  BY <1>2 DEF Sized
<1>8. Weighs(0, 0, W)
  BY <1>2, WeighsNone DEF Lengths
<1>9. Storage \in State
  <2>1. file \in [Off -> Cell]
    <3>1. ASSUME NEW c \in Off PROVE file[c] \in Cell
      BY <1>5 DEF Init, Cell
    <3>2. file = [c \in Off |-> file[c]]
      BY DEF Init
    <3>3. QED  BY <3>1, <3>2
  <2>2. hdr \in FileHdr
    BY DEF Init, FileHdr
  <2>3. bands \in [Band -> FreeBand]
    BY DEF Init, FreeBand, Locator
  <2>4. QED  BY <2>1, <2>2, <2>3 DEF Storage, State
<1>10. ASSUME NEW b \in Band
       PROVE  /\ Linked(bands[b].first, bands[b].last, FilePos(Storage, W), DOMAIN InBand(W, b))
              /\ Weighs(bands[b].count, bands[b].space, InBand(W, b))
  <2>1. DOMAIN InBand(W, b) = {} /\ Lengths(InBand(W, b))
    BY <1>2 DEF InBand, Lengths
  <2>2. /\ bands[b].count = 0 /\ bands[b].space = 0
        /\ bands[b].first = RECLOCATOR_MAX /\ bands[b].last = RECLOCATOR_MAX
    BY DEF Init
  <2>3. Weighs(0, 0, InBand(W, b))
    BY <2>1, WeighsNone DEF Lengths
  <2>4. Linked(RECLOCATOR_MAX, RECLOCATOR_MAX, FilePos(Storage, W), DOMAIN InBand(W, b))
    <3>1. PICK q : q = [i \in 1 .. 0 |-> 0]
      OBVIOUS
    <3>2. q \in [1 .. 0 -> {}] /\ Lists(q, 0, {})
      BY <3>1 DEF Lists
    <3>3. Chain(RECLOCATOR_MAX, RECLOCATOR_MAX, FilePos(Storage, W), q, 0)
      BY DEF Chain
    <3>4. 0 \in Nat
      OBVIOUS
    <3>5. Linked(RECLOCATOR_MAX, RECLOCATOR_MAX, FilePos(Storage, W), {})
      BY <3>2, <3>3, <3>4 DEF Linked
    <3>6. QED  BY <2>1, <3>5
  <2>5. QED  BY <2>2, <2>3, <2>4
<1>11. /\ hdr.free_count = 0 /\ hdr.free_space = 0 /\ hdr.used_count = 0 /\ hdr.used_space = 0
       /\ hdr.last_off = 0
  BY DEF Init
<1>12. Counted(Storage, W, W)
  BY <1>3, <1>8, <1>9, <1>10, <1>11 DEF Counted, Pooled, PooledAs
<1>13. Stands(Storage, {}, 0, W, W)
  BY <1>3, <1>6, <1>7, <1>11, <1>12 DEF Stands, InRow
<1>14. QED  BY <1>13 DEF InOrder

-----------------------------------------------------------------------------
(* The inductive invariant.                                                *)

\* The storage is in order in every state.
IInv == isopen \in BOOLEAN /\ InOrder(Storage)

\* The operations keep it so.
LEMMA InvSteps == IInv /\ [Next]_vars => IInv'
<1> SUFFICES ASSUME IInv, [Next]_vars PROVE isopen' \in BOOLEAN /\ InOrder(Storage')
  BY DEF IInv
<1>1. InOrder(Storage) /\ isopen \in BOOLEAN
  BY DEF IInv
<1>2. ASSUME NEW len \in Lens, Alloc(len) PROVE isopen' = isopen /\ InOrder(Storage')
  BY <1>1, <1>2, AllocKeeps DEF Alloc
<1>3. ASSUME NEW len \in Lens, NEW v \in Values, Add(len, v)
      PROVE  isopen' = isopen /\ InOrder(Storage')
  BY <1>1, <1>3, AddKeeps DEF Add
<1>4. ASSUME NEW loc \in Records, NEW off \in Lens, NEW len \in Lens, NEW v \in Values,
             WriteRec(loc, off, len, v)
      PROVE  isopen' = isopen /\ InOrder(Storage')
  BY <1>1, <1>4, WriteKeeps DEF WriteRec
<1>5. ASSUME NEW loc \in Records, Free(loc) PROVE isopen' = isopen /\ InOrder(Storage')
  BY <1>1, <1>5, FreeKeeps DEF Free
<1>6. ASSUME NEW loc \in Records, NEW len \in Lens, Realloc(loc, len)
      PROVE  isopen' = isopen /\ InOrder(Storage')
  BY <1>1, <1>6, ReallocKeeps DEF Realloc
<1>7. ASSUME NEW loc \in Records, NEW x \in Slices(loc), Slice(loc, x)
      PROVE  isopen' = isopen /\ InOrder(Storage')
  BY <1>1, <1>7, SliceKeeps DEF Slice
<1>8. ASSUME NEW loc \in Records, NEW x \in Slices(loc), SliceFails(loc, x)
      PROVE  isopen' = isopen /\ InOrder(Storage')
  BY <1>1, <1>8, SliceFailsKeeps DEF SliceFails
<1>9. ASSUME Close \/ Wrap PROVE isopen' \in BOOLEAN /\ InOrder(Storage')
  BY <1>1, <1>9, CloseKeeps DEF Close, Wrap
<1>10. ASSUME UNCHANGED vars PROVE isopen' = isopen /\ InOrder(Storage')
  BY <1>1, <1>10 DEF vars, Storage
<1>11. QED
  BY <1>1, <1>2, <1>3, <1>4, <1>5, <1>6, <1>7, <1>8, <1>9, <1>10 DEF Next

\* It is so at first, and stays so.
LEMMA Invariant == Spec => []IInv
<1>1. Init => IInv
  BY InitInOrder DEF IInv, Init
<1>2. QED  BY <1>1, InvSteps, PTL DEF Spec

\* The cells of the file, the totals and the bands are of their types: no total
\* that the code of alloc, free, realloc and slice subtracts from drops below
\* zero.
THEOREM StorageTyped == Spec => []TypeOK
<1>1. IInv => TypeOK
  BY Typed DEF IInv, InOrder
<1>2. QED  BY <1>1, Invariant, PTL

\* The blocks tile the file from its first cell to the sentinel, whatever
\* sequence of operations split, merged, resized and moved them.
THEOREM StorageTiled == Spec => []BlocksTile
<1>1. IInv => BlocksTile
  BY Tiles DEF IInv, InOrder
<1>2. QED  BY <1>1, Invariant, PTL

\* No two free blocks touch and none touches the sentinel: freeRec joins all
\* that can be joined, and no other operation leaves anything to be joined.
THEOREM StorageCoalesced == Spec => []Coalesced
<1>1. IInv => Coalesced
  BY Merged DEF IInv, InOrder
<1>2. QED  BY <1>1, Invariant, PTL

\* The totals of the header and of the bands are those of the blocks, and with
\* the headers they make up the whole file.
THEOREM StorageAccounted == Spec => []Accounted
<1>1. IInv => Accounted
  BY Totals DEF IInv, InOrder
<1>2. QED  BY <1>1, Invariant, PTL

-----------------------------------------------------------------------------
(* The walk along a list.                                                  *)

\* The first n + 1 of the m blocks of q.
Firsts(q, m, n) == {q[i] : i \in {j \in 1 .. m : j <= n + 1}}

\* What n steps from `first` reach, as it is computed.
ReachStep(s, first, g, n) ==
  IF n = 0 THEN {first} \ {RECLOCATOR_MAX}
  ELSE g[n - 1] \cup ({ReadFreepos(s, l).nextfree : l \in g[n - 1]} \ {RECLOCATOR_MAX})

\* The blocks of q are linked as the FreePos of s say.
Threaded(s, first, S, q, m) ==
  /\ m \in Nat /\ S \subseteq Off /\ Lists(q, m, S)
  /\ first = IF m = 0 THEN RECLOCATOR_MAX ELSE q[1]
  /\ \A i \in 1 .. m : ReadFreepos(s, q[i]).nextfree = IF i = m THEN RECLOCATOR_MAX ELSE q[i + 1]

\* One step reaches one block more.
LEMMA FirstsMore ==
  ASSUME NEW s, NEW first, NEW S, NEW q, NEW m, Threaded(s, first, S, q, m), NEW g,
         NEW n \in Nat, n # 0 => g[n - 1] = Firsts(q, m, n - 1)
  PROVE  ReachStep(s, first, g, n) = Firsts(q, m, n)
<1>1. /\ m \in Nat /\ S \subseteq Off /\ q \in [1 .. m -> S]
      /\ first = IF m = 0 THEN RECLOCATOR_MAX ELSE q[1]
      /\ \A i \in 1 .. m : ReadFreepos(s, q[i]).nextfree = IF i = m THEN RECLOCATOR_MAX ELSE q[i + 1]
  BY DEF Threaded, Lists
<1>2. \A i \in 1 .. m : q[i] # RECLOCATOR_MAX
  BY <1>1, ValuesAssumption DEF Off
<1>3. CASE n = 0
  <2>1. CASE m = 0
    <3>1. Firsts(q, m, n) = {}
      BY <2>1 DEF Firsts
    <3>2. QED  BY <1>1, <1>3, <2>1, <3>1 DEF ReachStep
  <2>2. CASE m # 0
    <3>1. {j \in 1 .. m : j <= n + 1} = {1}
      BY <1>1, <1>3, <2>2
    <3>2. Firsts(q, m, n) = {q[1]}
      BY <3>1 DEF Firsts
    <3>3. 1 \in 1 .. m
      BY <1>1, <2>2
    <3>4. QED  BY <1>1, <1>2, <1>3, <2>2, <3>2, <3>3 DEF ReachStep
  <2>3. QED  BY <2>1, <2>2
<1>4. CASE n # 0
  <2>1. PICK G : G = Firsts(q, m, n - 1)
    OBVIOUS
  <2>2. ReachStep(s, first, g, n) =
          G \cup ({ReadFreepos(s, l).nextfree : l \in G} \ {RECLOCATOR_MAX})
    BY <1>4, <2>1 DEF ReachStep
  <2>3. \A y : y \in G <=> \E i \in 1 .. m : i <= n /\ y = q[i]
    <3>1. (n - 1) + 1 = n
      OBVIOUS
    <3>2. G = {q[i] : i \in {j \in 1 .. m : j <= n}}
      BY <2>1, <3>1 DEF Firsts
    <3>3. QED  BY <3>2
  <2>4. \A y : y \in Firsts(q, m, n) <=> \E i \in 1 .. m : i <= n + 1 /\ y = q[i]
    BY DEF Firsts
  <2>5. ASSUME NEW y, \E l \in G : y = ReadFreepos(s, l).nextfree /\ y # RECLOCATOR_MAX
        PROVE  y \in Firsts(q, m, n)
    <3>1. PICK l \in G : y = ReadFreepos(s, l).nextfree /\ y # RECLOCATOR_MAX
      BY <2>5
    <3>2. PICK i \in 1 .. m : i <= n /\ l = q[i]
      BY <2>3, <3>1
    <3>3. i # m /\ y = q[i + 1]
      BY <1>1, <3>1, <3>2
    <3>4. i + 1 \in 1 .. m /\ i + 1 <= n + 1
      BY <1>1, <3>2, <3>3
    <3>5. QED  BY <2>4, <3>3, <3>4
  <2>6. ASSUME NEW y \in G PROVE y \in Firsts(q, m, n)
    <3>1. PICK i \in 1 .. m : i <= n /\ y = q[i]
      BY <2>3
    <3>2. i <= n + 1
      BY <1>1, <3>1
    <3>3. QED  BY <2>4, <3>1, <3>2
  <2>7. ASSUME NEW y \in Firsts(q, m, n), y \notin G
        PROVE  \E l \in G : y = ReadFreepos(s, l).nextfree /\ y # RECLOCATOR_MAX
    <3>1. PICK i \in 1 .. m : i <= n + 1 /\ y = q[i]
      BY <2>4
    <3>2. i = n + 1 /\ i # 1
      BY <1>1, <1>4, <2>3, <2>7, <3>1
    <3>3. i - 1 \in 1 .. m /\ i - 1 <= n /\ i - 1 # m /\ (i - 1) + 1 = i
      BY <1>1, <3>1, <3>2
    <3>4. q[i - 1] \in G
      BY <2>3, <3>3
    <3>5. ReadFreepos(s, q[i - 1]).nextfree = y
      BY <1>1, <3>1, <3>3
    <3>6. QED  BY <1>2, <3>1, <3>4, <3>5
  <2>8. QED  BY <2>2, <2>5, <2>6, <2>7
<1>5. QED  BY <1>3, <1>4

\* As many steps as there are blocks reach them all.
LEMMA FirstsAll ==
  ASSUME NEW s, NEW first, NEW S, NEW q, NEW m, Threaded(s, first, S, q, m)
  PROVE  Firsts(q, m, Cardinality(S)) = S
<1>1. m \in Nat /\ Lists(q, m, S)
  BY DEF Threaded
<1>2. Cardinality(S) = m
  <2>1. q \in Bijection(1 .. m, S)
    <3>1. /\ q \in [1 .. m -> S] /\ (\A x \in S : \E i \in 1 .. m : q[i] = x)
          /\ \A i, j \in 1 .. m : q[i] = q[j] => i = j
      BY <1>1 DEF Lists
    <3>2. QED  BY <3>1 DEF Bijection, Injection, Surjection, IsInjective
  <2>2. ExistsBijection(1 .. m, S)
    BY <2>1 DEF ExistsBijection
  <2>3. QED  BY <1>1, <2>2, FS_CountingElements
<1>3. {j \in 1 .. m : j <= m + 1} = 1 .. m
  BY <1>1
<1>4. Firsts(q, m, m) = {q[i] : i \in 1 .. m}
  BY <1>3 DEF Firsts
<1>5. QED  BY <1>1, <1>2, <1>4 DEF Lists

\* Such a walk is one along the list.
LEMMA ReachedIs ==
  ASSUME NEW s, NEW first, NEW S, NEW q, NEW m, Threaded(s, first, S, q, m), NEW g,
         \A n \in Nat : g[n] = ReachStep(s, first, g, n)
  PROVE  \A n \in Nat : g[n] = Firsts(q, m, n)
<1> DEFINE T == {n \in Nat : g[n] # Firsts(q, m, n)}
<1>1. SUFFICES ASSUME T # {} PROVE FALSE
  OBVIOUS
<1>2. PICK n \in T : \A k \in T : n <= k
  <2>1. T \subseteq Nat
    OBVIOUS
  <2> HIDE DEF T
  <2>2. QED  BY <1>1, <2>1, Least
<1>3. n \in Nat /\ g[n] # Firsts(q, m, n)
  OBVIOUS
<1>4. n # 0 => g[n - 1] = Firsts(q, m, n - 1)
  <2>1. ASSUME n # 0 PROVE g[n - 1] = Firsts(q, m, n - 1)
    <3>1. n - 1 \in Nat /\ ~(n <= n - 1)
      BY <1>3, <2>1
    <3>2. n - 1 \notin T
      BY <1>2, <3>1
    <3>3. QED  BY <3>1, <3>2
  <2>2. QED  BY <2>1
<1>5. ReachStep(s, first, g, n) = Firsts(q, m, n)
  BY <1>3, <1>4, FirstsMore
<1>6. QED  BY <1>3, <1>5

\* There is one.
LEMMA ReachedExists ==
  ASSUME NEW s, NEW first, NEW S, NEW q, NEW m, Threaded(s, first, S, q, m)
  PROVE  \E g : g = [n \in Nat |-> ReachStep(s, first, g, n)]
<1>1. PICK g : g = [n \in Nat |-> Firsts(q, m, n)]
  OBVIOUS
<1>2. ASSUME NEW n \in Nat PROVE ReachStep(s, first, g, n) = g[n]
  <2>1. n # 0 => g[n - 1] = Firsts(q, m, n - 1)
    BY <1>1
  <2>2. ReachStep(s, first, g, n) = Firsts(q, m, n)
    BY <2>1, FirstsMore
  <2>3. QED  BY <1>1, <2>2
<1>3. g = [n \in Nat |-> g[n]]
  BY <1>1
<1>4. g = [n \in Nat |-> ReachStep(s, first, g, n)]
  BY <1>2, <1>3
<1>5. QED  BY <1>4

\* The walk along the list that starts at `first`.
Reach(s, first) ==
  CHOOSE g : g = [n \in Nat |-> IF n = 0 THEN {first} \ {RECLOCATOR_MAX}
                   ELSE g[n - 1] \cup ({ReadFreepos(s, l).nextfree : l \in g[n - 1]}
                                       \ {RECLOCATOR_MAX})]

\* The walk along a list reaches all of its blocks.
LEMMA ReachesAll ==
  ASSUME NEW s, NEW first, NEW S, NEW q, NEW m, Threaded(s, first, S, q, m)
  PROVE  Reach(s, first)[Cardinality(S)] = S
<1> DEFINE h == Reach(s, first)
<1>1. \E g : g = [n \in Nat |-> IF n = 0 THEN {first} \ {RECLOCATOR_MAX}
               ELSE g[n - 1] \cup ({ReadFreepos(s, l).nextfree : l \in g[n - 1]}
                                   \ {RECLOCATOR_MAX})]
  <2>1. PICK g : g = [n \in Nat |-> ReachStep(s, first, g, n)]
    BY ReachedExists
  <2>2. g = [n \in Nat |-> IF n = 0 THEN {first} \ {RECLOCATOR_MAX}
               ELSE g[n - 1] \cup ({ReadFreepos(s, l).nextfree : l \in g[n - 1]}
                                   \ {RECLOCATOR_MAX})]
    BY <2>1 DEF ReachStep
  <2>3. QED  BY <2>2
<1>2. h = [n \in Nat |-> IF n = 0 THEN {first} \ {RECLOCATOR_MAX}
               ELSE h[n - 1] \cup ({ReadFreepos(s, l).nextfree : l \in h[n - 1]}
                                   \ {RECLOCATOR_MAX})]
  BY Zenon, <1>1 DEF Reach
<1> HIDE DEF h
<1>3. \A n \in Nat : h[n] = ReachStep(s, first, h, n)
  BY <1>2 DEF ReachStep
<1>4. \A n \in Nat : h[n] = Firsts(q, m, n)
  BY <1>3, ReachedIs
<1>5. Cardinality(S) \in Nat
  <2>1. m \in Nat /\ q \in [1 .. m -> S] /\ \A x \in S : \E i \in 1 .. m : q[i] = x
    BY DEF Threaded, Lists
  <2>2. IsFiniteSet(1 .. m) /\ q \in Surjection(1 .. m, S)
    BY <2>1, FS_Interval DEF Surjection
  <2>3. IsFiniteSet(S)
    BY <2>2, FS_Surjection
  <2>4. QED  BY <2>3, FS_CardinalityType
<1>6. QED  BY <1>4, <1>5, FirstsAll DEF h

\* The lists of the bands are as the invariant says.
LEMMA BandsListed ==
  ASSUME NEW B, NEW last, NEW W, NEW V, Stands(Storage, B, last, W, V)
  PROVE  BandsLinked
<1>1. Storage.bands = bands /\ Pooled(Storage, W) /\ Row(file, B, last) /\ Sized(file, B, W, V)
  BY BlocksOf DEF Storage, Stands, Counted
<1>2. Apart(W)
  BY <1>1, RowApart
<1>3. \A b : FreeIn(b) = DOMAIN InBand(W, b)
  BY BlocksOf
<1>4. ASSUME NEW b \in Band
      PROVE  /\ bands[b].first \in FreeIn(b) \cup {RECLOCATOR_MAX}
             /\ bands[b].last \in FreeIn(b) \cup {RECLOCATOR_MAX}
             /\ \A l \in FreeIn(b) :
                  /\ ReadFreepos(Storage, l) \in FreePos
                  /\ ReadFreepos(Storage, l).nextfree \in FreeIn(b) \cup {RECLOCATOR_MAX}
                  /\ ReadFreepos(Storage, l).prevfree \in FreeIn(b) \cup {RECLOCATOR_MAX}
                  /\ (ReadFreepos(Storage, l).prevfree = RECLOCATOR_MAX) <=> (l = bands[b].first)
                  /\ (ReadFreepos(Storage, l).nextfree = RECLOCATOR_MAX) <=> (l = bands[b].last)
                  /\ ReadFreepos(Storage, l).nextfree # RECLOCATOR_MAX =>
                       ReadFreepos(Storage, ReadFreepos(Storage, l).nextfree).prevfree = l
             /\ Reach(Storage, bands[b].first)[Cardinality(FreeIn(b))] = FreeIn(b)
  <2>1. PICK S : S = FreeIn(b)
    OBVIOUS
  <2>2. PICK pos : pos = FilePos(Storage, W)
    OBVIOUS
  <2>3. PICK first, end : first = bands[b].first /\ end = bands[b].last
    OBVIOUS
  <2>4. Linked(first, end, pos, S)
    BY <1>1, <1>3, <2>1, <2>2, <2>3 DEF Pooled, PooledAs
  <2>5. \A l \in S : l \in DOMAIN W /\ ReadFreepos(Storage, l) = pos[l]
    BY <1>3, <2>1, <2>2 DEF InBand, FilePos, ReadFreepos
  <2>6. S \subseteq Off
    BY <1>2, <2>5 DEF Apart
  <2>7. /\ first \in S \cup {RECLOCATOR_MAX} /\ end \in S \cup {RECLOCATOR_MAX}
        /\ \A x \in S :
             /\ pos[x] \in FreePos
             /\ pos[x].prevfree \in S \cup {RECLOCATOR_MAX}
             /\ pos[x].nextfree \in S \cup {RECLOCATOR_MAX}
             /\ (pos[x].prevfree = RECLOCATOR_MAX) <=> (x = first)
             /\ (pos[x].nextfree = RECLOCATOR_MAX) <=> (x = end)
             /\ pos[x].nextfree # RECLOCATOR_MAX => pos[pos[x].nextfree].prevfree = x
    <3>1. first \in S \cup {RECLOCATOR_MAX} /\ end \in S \cup {RECLOCATOR_MAX}
      BY <2>4, <2>6, LinkedIs
    <3>2. ASSUME NEW x \in S
          PROVE  /\ pos[x] \in FreePos
                 /\ pos[x].prevfree \in (S \ {x}) \cup {RECLOCATOR_MAX}
                 /\ pos[x].nextfree \in (S \ {x}) \cup {RECLOCATOR_MAX}
                 /\ (pos[x].prevfree = RECLOCATOR_MAX) <=> (x = first)
                 /\ (pos[x].nextfree = RECLOCATOR_MAX) <=> (x = end)
                 /\ pos[x].nextfree # RECLOCATOR_MAX => pos[pos[x].nextfree].prevfree = x
      <4>1. Neighbours(S, first, end, pos, x)
        BY <2>4, <2>6, LinkedAt
      <4>2. QED  BY <4>1 DEF Neighbours
    <3>3. QED  BY <3>1, <3>2
  <2>8. ASSUME NEW l \in S
        PROVE  /\ ReadFreepos(Storage, l) \in FreePos
               /\ ReadFreepos(Storage, l).nextfree \in S \cup {RECLOCATOR_MAX}
               /\ ReadFreepos(Storage, l).prevfree \in S \cup {RECLOCATOR_MAX}
               /\ (ReadFreepos(Storage, l).prevfree = RECLOCATOR_MAX) <=> (l = first)
               /\ (ReadFreepos(Storage, l).nextfree = RECLOCATOR_MAX) <=> (l = end)
               /\ ReadFreepos(Storage, l).nextfree # RECLOCATOR_MAX =>
                    ReadFreepos(Storage, ReadFreepos(Storage, l).nextfree).prevfree = l
    <3>1. ReadFreepos(Storage, l) = pos[l]
      BY <2>5
    <3>2. PICK z : z = pos[l].nextfree
      OBVIOUS
    <3>3. z # RECLOCATOR_MAX => z \in S /\ ReadFreepos(Storage, z) = pos[z]
      BY <2>5, <2>7, <3>2
    <3>4. ReadFreepos(Storage, l).nextfree = z /\ (z # RECLOCATOR_MAX => pos[z].prevfree = l)
      BY <2>7, <3>1, <3>2
    <3>5. z # RECLOCATOR_MAX => ReadFreepos(Storage, z).prevfree = l
      BY <3>3, <3>4
    <3>6. QED  BY <2>7, <3>1, <3>4, <3>5
  <2>9. Reach(Storage, bands[b].first)[Cardinality(S)] = S
    <3>1. PICK n \in Nat : \E q \in [1 .. n -> S] : Lists(q, n, S) /\ Chain(first, end, pos, q, n)
      BY <2>4 DEF Linked
    <3>2. PICK q \in [1 .. n -> S] : Lists(q, n, S) /\ Chain(first, end, pos, q, n)
      BY <3>1
    <3>3. ASSUME NEW i \in 1 .. n
          PROVE  ReadFreepos(Storage, q[i]).nextfree = IF i = n THEN RECLOCATOR_MAX ELSE q[i + 1]
      <4>1. ReadFreepos(Storage, q[i]) = pos[q[i]]
        BY <2>5
      <4>2. pos[q[i]] = Link(q, n, i)
        BY <3>2 DEF Chain
      <4>3. QED  BY <4>1, <4>2 DEF Link
    <3>4. first = IF n = 0 THEN RECLOCATOR_MAX ELSE q[1]
      BY <3>2 DEF Chain
    <3>5. Threaded(Storage, first, S, q, n)
      BY <2>6, <3>2, <3>3, <3>4 DEF Threaded
    <3>6. Threaded(Storage, bands[b].first, S, q, n)
      BY <2>3, <3>5
    <3>7. QED  BY <3>6, ReachesAll
  <2>10. QED  BY <2>1, <2>3, <2>7, <2>8, <2>9
<1>5. QED  BY Zenon, <1>4 DEF BandsLinked, Reach

\* The list of each band links exactly the free blocks of its lengths, in both
\* directions and from its first to its last.
THEOREM StorageLinked == Spec => []BandsLinked
<1>1. IInv => BandsLinked
  BY BandsListed DEF IInv, InOrder
<1>2. QED  BY <1>1, Invariant, PTL

=============================================================================
