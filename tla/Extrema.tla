------------------------------ MODULE Extrema ------------------------------
(***************************************************************************)
(* Finite sets of numbers have a least and a greatest element: what the    *)
(* CHOOSEs of Lexer and Parser rest on.  The least place where a statement *)
(* fails also takes the place of an induction: recursive functions exist.  *)
(***************************************************************************)
EXTENDS Integers, FiniteSets, FiniteSetTheorems, TLAPS

Upto(S, x) == {y \in S : y <= x}
From(S, x) == {y \in S : x <= y}

(* A finite set of numbers, not empty, has a least one: strict inclusion is
   well-founded on finite sets, so that one of the sets {y : y <= x} has no
   other inside it. *)
LEMMA Minimum ==
  ASSUME NEW S \in SUBSET Int, IsFiniteSet(S), S # {}
  PROVE  \E m \in S : \A s \in S : m <= s
  <1> DEFINE T == {Upto(S, x) : x \in S}
  <1>1. T \subseteq FiniteSubsetsOf(S) /\ T # {}
    <2>1. \A x \in S : Upto(S, x) \in SUBSET S
      BY DEF Upto
    <2>2. FiniteSubsetsOf(S) = SUBSET S
      BY FS_FiniteSubsetsOfFinite
    <2>3. T \subseteq SUBSET S
      BY <2>1
    <2>4. T # {}
      OBVIOUS
    <2> QED
      BY <2>2, <2>3, <2>4
  <1>2. IsWellFoundedOn(StrictSubsetOrdering(S), FiniteSubsetsOf(S))
    BY FS_StrictSubsetOrderingWellFounded
  <1>3. \E D \in T : \A E \in T : <<E, D>> \notin StrictSubsetOrdering(S)
    <2> HIDE DEF T
    <2> QED
      BY <1>1, <1>2, WFMin
  <1>4. PICK m \in S : \A s \in S : <<Upto(S, s), Upto(S, m)>> \notin StrictSubsetOrdering(S)
    BY <1>3
  <1>5. ASSUME NEW s \in S, s < m PROVE FALSE
    <2>1. s \in Int /\ m \in Int /\ S \subseteq Int
      OBVIOUS
    <2>2. Upto(S, s) \subseteq Upto(S, m)
      <3>1. ASSUME NEW y \in S, y \in Upto(S, s) PROVE y \in Upto(S, m)
        <4>1. y \in Int
          BY <2>1
        <4> QED
          BY <1>5, <2>1, <3>1, <4>1 DEF Upto
      <3> QED
        BY <3>1 DEF Upto
    <2>3. m \in Upto(S, m) /\ m \notin Upto(S, s)
      BY <1>5, <2>1 DEF Upto
    <2>4. Upto(S, s) \in SUBSET S /\ Upto(S, m) \in SUBSET S
      BY DEF Upto
    <2>5. <<Upto(S, s), Upto(S, m)>> \in StrictSubsetOrdering(S)
      BY <2>2, <2>3, <2>4 DEF StrictSubsetOrdering
    <2> QED
      BY <1>4, <2>5
  <1>6. \A s \in S : s \in Int /\ m \in Int
    OBVIOUS
  <1> QED
    BY <1>5, <1>6

(* Likewise the greatest. *)
LEMMA Maximum ==
  ASSUME NEW S \in SUBSET Int, IsFiniteSet(S), S # {}
  PROVE  \E m \in S : \A s \in S : s <= m
  <1> DEFINE T == {From(S, x) : x \in S}
  <1>1. T \subseteq FiniteSubsetsOf(S) /\ T # {}
    <2>1. \A x \in S : From(S, x) \in SUBSET S
      BY DEF From
    <2>2. FiniteSubsetsOf(S) = SUBSET S
      BY FS_FiniteSubsetsOfFinite
    <2>3. T \subseteq SUBSET S
      BY <2>1
    <2>4. T # {}
      OBVIOUS
    <2> QED
      BY <2>2, <2>3, <2>4
  <1>2. IsWellFoundedOn(StrictSubsetOrdering(S), FiniteSubsetsOf(S))
    BY FS_StrictSubsetOrderingWellFounded
  <1>3. \E D \in T : \A E \in T : <<E, D>> \notin StrictSubsetOrdering(S)
    <2> HIDE DEF T
    <2> QED
      BY <1>1, <1>2, WFMin
  <1>4. PICK m \in S : \A s \in S : <<From(S, s), From(S, m)>> \notin StrictSubsetOrdering(S)
    BY <1>3
  <1>5. ASSUME NEW s \in S, m < s PROVE FALSE
    <2>1. s \in Int /\ m \in Int /\ S \subseteq Int
      OBVIOUS
    <2>2. From(S, s) \subseteq From(S, m)
      <3>1. ASSUME NEW y \in S, y \in From(S, s) PROVE y \in From(S, m)
        <4>1. y \in Int
          BY <2>1
        <4> QED
          BY <1>5, <2>1, <3>1, <4>1 DEF From
      <3> QED
        BY <3>1 DEF From
    <2>3. m \in From(S, m) /\ m \notin From(S, s)
      BY <1>5, <2>1 DEF From
    <2>4. From(S, s) \in SUBSET S /\ From(S, m) \in SUBSET S
      BY DEF From
    <2>5. <<From(S, s), From(S, m)>> \in StrictSubsetOrdering(S)
      BY <2>2, <2>3, <2>4 DEF StrictSubsetOrdering
    <2> QED
      BY <1>4, <2>5
  <1>6. \A s \in S : s \in Int /\ m \in Int
    OBVIOUS
  <1> QED
    BY <1>5, <1>6

-----------------------------------------------------------------------------
(* A recursive function exists and has its values in V if each of its values
   is made of those at places of a smaller measure: S is one round of the
   recursion, m the measure, and B is above it. *)
IsRecursion(S, D, V, m, B) ==
  /\ V # {} /\ m \in [D -> Nat] /\ B \in Nat /\ \A x \in D : m[x] < B
  /\ S \in [[D -> V] -> [D -> V]]
  /\ \A f, g \in [D -> V], x \in D : (\A y \in D : m[y] < m[x] => f[y] = g[y]) => S[f][x] = S[g][x]

Settled(S, D, m, f, k) == \A x \in D : m[x] < k => S[f][x] = f[x]

(* Rounds of the recursion settle one place after the other. *)
LEMMA RoundsSettle ==
  ASSUME NEW S, NEW D, NEW V, NEW m, NEW B, IsRecursion(S, D, V, m, B)
  PROVE  \E f \in [D -> V] : Settled(S, D, m, f, B)
  <1> USE DEF IsRecursion
  <1> DEFINE Bad == {k \in 0..B : ~ \E f \in [D -> V] : Settled(S, D, m, f, k)}
  <1> SUFFICES ASSUME Bad # {} PROVE FALSE
    <2>1. B \in 0..B
      OBVIOUS
    <2> QED
      BY <2>1
  <1>1. Bad \in SUBSET Int /\ IsFiniteSet(Bad)
    <2>1. Bad \subseteq 0..B /\ IsFiniteSet(0..B)
      BY FS_Interval
    <2> QED
      BY <2>1, FS_Subset
  <1>2. PICK k \in Bad : \A l \in Bad : k <= l
    <2> HIDE DEF Bad
    <2> QED
      BY <1>1, Minimum
  <1>3. k \in 0..B /\ k \in Nat
    OBVIOUS
  <1>4. CASE k = 0
    <2> PICK v \in V : TRUE
      OBVIOUS
    <2>1. [x \in D |-> v] \in [D -> V]
      OBVIOUS
    <2>2. Settled(S, D, m, [x \in D |-> v], 0)
      BY DEF Settled
    <2> QED
      BY <1>4, <2>1, <2>2
  <1>5. CASE k # 0
    <2>1. k - 1 \in 0..B /\ k - 1 \notin Bad
      <3>1. k - 1 \in 0..B /\ ~(k <= k - 1)
        BY <1>3, <1>5
      <3> HIDE DEF Bad
      <3> QED
        BY <1>2, <3>1
    <2>2. PICK f \in [D -> V] : Settled(S, D, m, f, k - 1)
      BY <2>1
    <2> DEFINE g == S[f]
    <2>3. g \in [D -> V]
      OBVIOUS
    <2>4. ASSUME NEW x \in D, m[x] < k PROVE S[g][x] = g[x]
      <3>1. ASSUME NEW y \in D, m[y] < m[x] PROVE g[y] = f[y]
        <4>1. m[x] \in Nat /\ m[y] \in Nat
          OBVIOUS
        <4>2. m[y] < k - 1
          BY <1>3, <2>4, <3>1, <4>1
        <4> QED
          BY <2>2, <4>2 DEF Settled
      <3> QED
        BY <2>3, <3>1
    <2> HIDE DEF g
    <2>5. Settled(S, D, m, g, k)
      BY <2>4 DEF Settled
    <2> QED
      BY <2>3, <2>5
  <1> QED
    BY <1>4, <1>5

(* The function exists. *)
LEMMA RecursiveFunction ==
  ASSUME NEW S, NEW D, NEW V, NEW m, NEW B, IsRecursion(S, D, V, m, B)
  PROVE  \E f \in [D -> V] : S[f] = f
  <1>1. PICK f \in [D -> V] : Settled(S, D, m, f, B)
    BY RoundsSettle
  <1>2. S[f] \in [D -> V] /\ \A x \in D : S[f][x] = f[x]
    BY <1>1 DEF Settled, IsRecursion
  <1> QED
    BY <1>2

(* The values are in V. *)
LEMMA ValuesIn ==
  ASSUME NEW D, NEW V, NEW m \in [D -> Nat], NEW B \in Nat, \A x \in D : m[x] < B, NEW f,
         \A x \in D : (\A y \in D : m[y] < m[x] => f[y] \in V) => f[x] \in V
  PROVE  \A x \in D : f[x] \in V
  <1> DEFINE Bad == {k \in 0..B : \E x \in D : m[x] = k /\ f[x] \notin V}
  <1> SUFFICES ASSUME Bad # {} PROVE FALSE
    <2>1. ASSUME NEW x \in D, f[x] \notin V PROVE m[x] \in Bad
      <3>1. m[x] \in Nat /\ m[x] < B
        OBVIOUS
      <3>2. m[x] \in 0..B
        BY <3>1
      <3> QED
        BY <2>1, <3>2
    <2> QED
      BY <2>1
  <1>1. Bad \in SUBSET Int /\ IsFiniteSet(Bad)
    <2>1. Bad \subseteq 0..B /\ IsFiniteSet(0..B)
      BY FS_Interval
    <2> QED
      BY <2>1, FS_Subset
  <1>2. PICK k \in Bad : \A l \in Bad : k <= l
    <2> HIDE DEF Bad
    <2> QED
      BY <1>1, Minimum
  <1>3. PICK x \in D : m[x] = k /\ f[x] \notin V
    BY <1>2
  <1>4. ASSUME NEW y \in D, m[y] < m[x] PROVE f[y] \in V
    <2>1. m[y] \in Nat /\ m[x] \in Nat /\ m[y] < B
      OBVIOUS
    <2>2. m[y] \in 0..B /\ ~(k <= m[y])
      BY <1>3, <1>4, <2>1
    <2>3. m[y] \notin Bad
      <3> HIDE DEF Bad
      <3> QED
        BY <1>2, <2>2
    <2> QED
      BY <2>2, <2>3
  <1> QED
    BY <1>3, <1>4
=============================================================================
