---------------------------- MODULE Totals_proofs ----------------------------
(***************************************************************************)
(* Facts about Total.  It is a fold, that is a function defined by         *)
(* recursion over the subsets of a set.                                    *)
(***************************************************************************)
EXTENDS Totals, FiniteSetTheorems, TLAPS

\* Induction on the natural numbers, for a set of them.
LEMMA NatSetInduction ==
    ASSUME NEW G, 0 \in G, \A n \in Nat : n \in G => n + 1 \in G
    PROVE  Nat \subseteq G
<1> SUFFICES ASSUME Nat \ G # {}
             PROVE  FALSE
  OBVIOUS
<1> DEFINE less == {p \in Nat \X Nat : p[1] < p[2]}
           rest == Nat \ G
<1>0. IsWellFoundedOn(less, Nat)
  BY NatLessThanWellFounded DEF OpToRel
<1>1. PICK m \in rest : \A n \in rest : ~(<<n, m>> \in less)
  <2>1. rest \subseteq Nat /\ rest # {}
    OBVIOUS
  <2> HIDE DEF less, rest
  <2> QED BY <1>0, <2>1, WFMin
<1>2. m # 0 /\ m - 1 \in Nat /\ (m - 1) + 1 = m
  BY <1>1
<1>3. m - 1 \notin G
  BY <1>1, <1>2
<1>4. <<m - 1, m>> \in less
  BY <1>2
<1> QED BY <1>1, <1>2, <1>3, <1>4

\* Induction on the subsets of a finite set, for a set of them.
LEMMA SubsetInduction ==
    ASSUME NEW S, IsFiniteSet(S), NEW G,
           \A T \in SUBSET S : (\A x \in T : T \ {x} \in G) => T \in G
    PROVE  SUBSET S \subseteq G
<1> SUFFICES ASSUME (SUBSET S) \ G # {}
             PROVE  FALSE
  OBVIOUS
<1>1. IsWellFoundedOn(StrictSubsetOrdering(S), SUBSET S)
  <2>1. FiniteSubsetsOf(S) = SUBSET S
    BY FS_FiniteSubsetsOfFinite
  <2>2. IsWellFoundedOn(StrictSubsetOrdering(S), FiniteSubsetsOf(S))
    BY FS_StrictSubsetOrderingWellFounded
  <2> QED BY <2>1, <2>2, Zenon
<1> DEFINE rest == (SUBSET S) \ G
<1>2. PICK T \in rest : \A U \in rest : ~(<<U, T>> \in StrictSubsetOrdering(S))
  <2>1. rest \subseteq SUBSET S /\ rest # {}
    OBVIOUS
  <2> HIDE DEF rest
  <2> QED BY <1>1, <2>1, WFMin
<1>3. PICK x \in T : T \ {x} \notin G
  BY <1>2
<1>4. <<T \ {x}, T>> \in StrictSubsetOrdering(S)
  BY <1>3 DEF StrictSubsetOrdering
<1> QED BY <1>2, <1>3, <1>4

\* The element that a fold takes next.
Picked(T) == CHOOSE x \in T : TRUE

\* One unfolding of the sum of f over the subsets of S.
Unfold(S, f, g) ==
    [T \in SUBSET S |-> IF T = {} THEN 0 ELSE f[Picked(T)] + g[T \ {Picked(T)}]]

\* The recursion has a solution.
LEMMA TotalExists ==
    ASSUME NEW S, IsFiniteSet(S), NEW f
    PROVE  \E g : g = Unfold(S, f, g)
<1> DEFINE G == {n \in Nat : \E g : \A T \in SUBSET S : Cardinality(T) <= n => g[T] = Unfold(S, f, g)[T]}
<1>0. \A T \in SUBSET S : IsFiniteSet(T) /\ Cardinality(T) \in Nat
  BY FS_Subset, FS_CardinalityType
<1>1. 0 \in G
  <2>1. \A T \in SUBSET S : Cardinality(T) <= 0 => T = {}
    BY <1>0, FS_EmptySet
  <2> DEFINE g == [T \in SUBSET S |-> 0]
  <2>2. \A T \in SUBSET S : Cardinality(T) <= 0 => g[T] = Unfold(S, f, g)[T]
    BY <2>1 DEF Unfold
  <2> HIDE DEF g
  <2> QED BY <2>2
<1>2. ASSUME NEW n \in Nat, n \in G
      PROVE  n + 1 \in G
  <2>1. PICK g : \A T \in SUBSET S : Cardinality(T) <= n => g[T] = Unfold(S, f, g)[T]
    BY <1>2
  <2> DEFINE h == Unfold(S, f, g)
  <2>2. ASSUME NEW T \in SUBSET S, Cardinality(T) <= n + 1
        PROVE  h[T] = Unfold(S, f, h)[T]
    <3>1. CASE T = {}
      BY <3>1 DEF Unfold
    <3>2. CASE T # {}
      <4> DEFINE x == Picked(T)
      <4>1. x \in T
        BY <3>2 DEF Picked
      <4>2. T \ {x} \in SUBSET S /\ Cardinality(T \ {x}) = Cardinality(T) - 1
        BY <4>1, <1>0, FS_RemoveElement
      <4>3. g[T \ {x}] = h[T \ {x}]
        <5> HIDE DEF x, h
        <5>1. Cardinality(T \ {x}) <= n
          BY <4>2, <1>0, <2>2
        <5> QED BY <4>2, <2>1, <5>1 DEF h
      <4> QED BY <3>2, <4>3 DEF Unfold
    <3> QED BY <3>1, <3>2
  <2> HIDE DEF h
  <2> QED BY <2>2
<1>3. Cardinality(S) \in G
  <2> HIDE DEF G
  <2> QED BY <1>0, <1>1, <1>2, NatSetInduction
<1>4. PICK g : \A T \in SUBSET S : Cardinality(T) <= Cardinality(S) => g[T] = Unfold(S, f, g)[T]
  BY <1>3
<1>5. \A T \in SUBSET S : Cardinality(T) <= Cardinality(S)
  BY FS_Subset
<1> DEFINE h == Unfold(S, f, g)
<1>6. \A T \in SUBSET S : g[T] = h[T]
  BY <1>4, <1>5
<1>7. \A T \in SUBSET S : T # {} => T \ {Picked(T)} \in SUBSET S
  OBVIOUS
<1>8. h = Unfold(S, f, h)
  BY <1>6, <1>7 DEF Unfold
<1> QED BY <1>8

\* So the sum over S is that of a function that unfolds.
LEMMA TotalUnfolds ==
    ASSUME NEW S, IsFiniteSet(S), NEW f
    PROVE  \E g : g = Unfold(S, f, g) /\ Total(f, S) = g[S]
<1> DEFINE g == CHOOSE g : g = Unfold(S, f, g)
<1>1. g = Unfold(S, f, g)
  BY TotalExists
<1>2. Total(f, S) = g[S]
  BY DEF Total, MapThenSumSet, MapThenFoldSet, Unfold, Picked
<1> QED BY <1>1, <1>2

\* A sum of natural numbers is one.
LEMMA TotalOfNats ==
    ASSUME NEW S, IsFiniteSet(S), NEW f, \A x \in S : f[x] \in Nat
    PROVE  Total(f, S) \in Nat
<1>1. PICK g : g = Unfold(S, f, g) /\ Total(f, S) = g[S]
  BY TotalUnfolds
<1> DEFINE G == {T \in SUBSET S : g[T] \in Nat}
<1>2. ASSUME NEW T \in SUBSET S, \A x \in T : T \ {x} \in G
      PROVE  T \in G
  <2>1. CASE T = {}
    BY <1>1, <2>1 DEF Unfold
  <2>2. CASE T # {}
    <3>1. Picked(T) \in T
      BY <2>2 DEF Picked
    <3>2. g[T] = f[Picked(T)] + g[T \ {Picked(T)}]
      BY <1>1, <2>2 DEF Unfold
    <3> QED BY <1>2, <3>1, <3>2
  <2> QED BY <2>1, <2>2
<1>3. S \in G
  <2> HIDE DEF G
  <2> QED BY <1>2, SubsetInduction
<1> QED BY <1>1, <1>3

\* A sum of natural numbers that are not above K.
LEMMA TotalBounded ==
    ASSUME NEW S, IsFiniteSet(S), NEW K \in Nat, NEW f, \A x \in S : f[x] \in 0 .. K
    PROVE  Total(f, S) \in Nat /\ Total(f, S) <= Cardinality(S) * K
<1>1. PICK g : g = Unfold(S, f, g) /\ Total(f, S) = g[S]
  BY TotalUnfolds
<1> DEFINE G == {T \in SUBSET S : g[T] \in Nat /\ g[T] <= Cardinality(T) * K}
<1>2. ASSUME NEW T \in SUBSET S, \A x \in T : T \ {x} \in G
      PROVE  T \in G
  <2>1. CASE T = {}
    BY <1>1, <2>1, FS_EmptySet DEF Unfold
  <2>2. CASE T # {}
    <3> DEFINE x == Picked(T)
               U == T \ {x}
    <3>1. x \in T
      BY <2>2 DEF Picked
    <3>2. g[T] = f[x] + g[U]
      BY <1>1, <2>2 DEF Unfold
    <3>3. g[U] \in Nat /\ g[U] <= Cardinality(U) * K
      BY <1>2, <3>1
    <3>4. Cardinality(U) = Cardinality(T) - 1 /\ Cardinality(T) \in Nat
      BY <3>1, FS_Subset, FS_CardinalityType, FS_RemoveElement
    <3>5. f[x] \in Nat /\ f[x] <= K
      BY <3>1
    <3> HIDE DEF x, U
    <3>6. (Cardinality(T) - 1) * K = Cardinality(T) * K - K
      BY <3>4
    <3>7. g[U] <= Cardinality(T) * K - K
      BY <3>3, <3>4, <3>6
    <3>8. Cardinality(T) * K \in Int
      BY <3>4
    <3> HIDE DEF G
    <3>9. g[T] \in Nat /\ g[T] <= Cardinality(T) * K
      BY <3>2, <3>3, <3>5, <3>7, <3>8
    <3> QED BY <3>9 DEF G
  <2> QED BY <2>1, <2>2
<1>3. S \in G
  <2> HIDE DEF G
  <2> QED BY <1>2, SubsetInduction
<1> QED BY <1>1, <1>3

\* The sum of the sizes of disjoint sets is the size of their union.
LEMMA TotalOfParts ==
    ASSUME NEW S, IsFiniteSet(S), NEW R, IsFiniteSet(R), NEW A \in [S -> SUBSET R],
           \A x, y \in S : x # y => A[x] \cap A[y] = {},
           NEW f, \A x \in S : f[x] = Cardinality(A[x])
    PROVE  Total(f, S) = Cardinality({j \in R : \E x \in S : j \in A[x]})
<1>1. PICK g : g = Unfold(S, f, g) /\ Total(f, S) = g[S]
  BY TotalUnfolds
<1> DEFINE Part(T) == {j \in R : \E x \in T : j \in A[x]}
           G == {T \in SUBSET S : g[T] = Cardinality(Part(T))}
<1>2. ASSUME NEW T \in SUBSET S, \A x \in T : T \ {x} \in G
      PROVE  T \in G
  <2>1. CASE T = {}
    <3>1. Part({}) = {}
      OBVIOUS
    <3> QED BY <1>1, <2>1, <3>1, FS_EmptySet DEF Unfold
  <2>2. CASE T # {}
    <3> DEFINE x == Picked(T)
               U == T \ {x}
    <3>1. x \in T
      BY <2>2 DEF Picked
    <3>2. g[T] = f[x] + g[U]
      BY <1>1, <2>2 DEF Unfold
    <3>3. g[U] = Cardinality(Part(U))
      BY <1>2, <3>1
    <3>4. Part(T) = A[x] \cup Part(U) /\ A[x] \cap Part(U) = {}
      BY <3>1
    <3>5. IsFiniteSet(A[x]) /\ IsFiniteSet(Part(U))
      BY <3>1, FS_Subset
    <3> DEFINE B == Part(U)
    <3> HIDE DEF x, U, Part
    <3>6. Cardinality(Part(T)) = Cardinality(A[x]) + Cardinality(B)
      <4> HIDE DEF B
      <4>1. Cardinality(A[x] \cup B) = Cardinality(A[x]) + Cardinality(B) - Cardinality(A[x] \cap B)
        BY <3>5, FS_Union DEF B
      <4>2. Cardinality(A[x] \cap B) = 0
        BY <3>4, FS_EmptySet DEF B
      <4>3. Cardinality(A[x]) \in Nat /\ Cardinality(B) \in Nat
        BY <3>5, FS_CardinalityType DEF B
      <4>4. Part(T) = A[x] \cup B
        BY <3>4 DEF B
      <4> QED BY <4>1, <4>2, <4>3, <4>4
    <3> QED BY <3>1, <3>2, <3>3, <3>6
  <2> QED BY <2>1, <2>2
<1>3. S \in G
  <2> HIDE DEF G
  <2> QED BY <1>2, SubsetInduction
<1> QED BY <1>1, <1>3

\* Two sums whose terms are the same but for one.
LEMMA TotalDiffers ==
    ASSUME NEW S, IsFiniteSet(S), NEW f, NEW h, NEW y \in S, NEW d \in Int,
           \A x \in S : f[x] \in Int /\ h[x] = IF x = y THEN f[x] + d ELSE f[x]
    PROVE  Total(f, S) \in Int /\ Total(h, S) = Total(f, S) + d
<1>1. PICK g : g = Unfold(S, f, g) /\ Total(f, S) = g[S]
  BY TotalUnfolds
<1>2. PICK k : k = Unfold(S, h, k) /\ Total(h, S) = k[S]
  BY TotalUnfolds
<1> DEFINE G == {T \in SUBSET S : g[T] \in Int /\ k[T] = g[T] + (IF y \in T THEN d ELSE 0)}
<1>3. ASSUME NEW T \in SUBSET S, \A x \in T : T \ {x} \in G
      PROVE  T \in G
  <2>1. CASE T = {}
    BY <1>1, <1>2, <2>1 DEF Unfold
  <2>2. CASE T # {}
    <3> DEFINE x == Picked(T)
               U == T \ {x}
    <3>1. x \in T
      BY <2>2 DEF Picked
    <3>2. g[T] = f[x] + g[U] /\ k[T] = h[x] + k[U]
      BY <1>1, <1>2, <2>2 DEF Unfold
    <3>3. g[U] \in Int /\ k[U] = g[U] + (IF y \in U THEN d ELSE 0)
      BY <1>3, <3>1
    <3>4. f[x] \in Int /\ h[x] = IF x = y THEN f[x] + d ELSE f[x]
      BY <3>1
    <3>5. y \in U <=> y \in T /\ x # y
      OBVIOUS
    <3> HIDE DEF x, U
    <3>6. CASE x = y
      <4>1. k[T] = g[T] + d /\ g[T] \in Int
        BY <3>2, <3>3, <3>4, <3>5, <3>6
      <4> QED BY <3>1, <3>6, <4>1
    <3>7. CASE x # y
      <4>1. k[T] = g[T] + (IF y \in T THEN d ELSE 0) /\ g[T] \in Int
        BY <3>2, <3>3, <3>4, <3>5, <3>7
      <4> QED BY <4>1
    <3> QED BY <3>6, <3>7
  <2> QED BY <2>1, <2>2
<1>4. S \in G
  <2> HIDE DEF G
  <2> QED BY <1>3, SubsetInduction
<1> QED BY <1>1, <1>2, <1>4
==============================================================================
