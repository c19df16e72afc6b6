----------------------------- MODULE SumProofs -----------------------------
(***************************************************************************)
(* Lemmas about the folds of the models.  The aggregates of the machine    *)
(* are sums over finite sets, its queues and its registration order are    *)
(* built one element at a time: what such a definition computes is proved  *)
(* here by induction.  The induction principles are stated over sets       *)
(* instead of predicates, and follow from WFMin.                           *)
(***************************************************************************)
EXTENDS SequencesExt, FiniteSetTheorems, WellFoundedInduction, TLAPS

----------------------------------------------------------------------------
(* Induction                                                               *)

\* A set of numbers that contains 0 and every successor contains them all.
LEMMA NatInductionOnSets ==
    ASSUME NEW T \in SUBSET Nat, 0 \in T, \A n \in Nat : n \in T => n + 1 \in T
    PROVE  T = Nat
<1> SUFFICES ASSUME Nat \ T # {} PROVE FALSE
  OBVIOUS
<1> DEFINE R == OpToRel(<, Nat)
<1>1. IsWellFoundedOn(R, Nat)
  BY NatLessThanWellFounded
<1>2. \E x \in Nat \ T : \A y \in Nat \ T : <<y, x>> \notin R
  <2> HIDE DEF R
  <2> QED BY <1>1, WFMin
<1>3. PICK x \in Nat \ T : \A y \in Nat \ T : <<y, x>> \notin R
  BY <1>2
<1>4. x # 0 /\ x - 1 \in Nat /\ x - 1 < x /\ (x - 1) + 1 = x
  OBVIOUS
<1>5. <<x - 1, x>> \in R
  BY <1>4 DEF OpToRel
<1>6. x - 1 \notin T
  BY <1>4
<1> QED BY <1>3, <1>4, <1>5, <1>6

\* A family that contains every set whose members can be removed one by one
\* within it contains all subsets of a finite set.
LEMMA SubsetInduction ==
    ASSUME NEW S, IsFiniteSet(S), NEW T,
           \A U \in SUBSET S : (\A x \in U : U \ {x} \in T) => U \in T
    PROVE  \A U \in SUBSET S : U \in T
<1> SUFFICES ASSUME NEW A \in SUBSET S, A \notin T PROVE FALSE
  OBVIOUS
<1> DEFINE R == StrictSubsetOrdering(S)
           Bad == {U \in FiniteSubsetsOf(S) : U \notin T}
<1>1. IsWellFoundedOn(R, FiniteSubsetsOf(S))
  BY FS_StrictSubsetOrderingWellFounded
<1>2. A \in Bad /\ Bad \subseteq FiniteSubsetsOf(S)
  BY FS_Subset DEF FiniteSubsetsOf
<1>3. PICK U \in Bad : \A V \in Bad : <<V, U>> \notin R
  <2> HIDE DEF R, Bad
  <2> QED BY <1>1, <1>2, WFMin
<1>4. PICK x \in U : U \ {x} \notin T
  BY <1>3 DEF FiniteSubsetsOf
<1>5. U \ {x} \in Bad
  BY <1>3, <1>4, FS_RemoveElement DEF FiniteSubsetsOf
<1>6. <<U \ {x}, U>> \in R
  BY <1>3, <1>4 DEF StrictSubsetOrdering, FiniteSubsetsOf
<1> QED BY <1>3, <1>5, <1>6

\* h applies the n functions of step in turn, from v0 on.
Iterates(h, V, v0, n, step) ==
    /\ h \in [0..n -> V] /\ h[0] = v0
    /\ \A i \in 1..n : h[i] = step[i][h[i - 1]]

\* Such an h exists: recursion over 0..n.
LEMMA Iterate ==
    ASSUME NEW V, NEW v0 \in V, NEW n \in Nat, NEW step \in [1..n -> [V -> V]]
    PROVE  \E h : Iterates(h, V, v0, n, step)
<1> DEFINE Defined(m, h) == h[0] = v0 /\ \A i \in 1..m : h[i] = step[i][h[i - 1]]
           T == {m \in Nat : m <= n => \E h \in [0..m -> V] : Defined(m, h)}
<1>1. 0 \in T
  <2>1. [i \in 0..0 |-> v0] \in [0..0 -> V] /\ Defined(0, [i \in 0..0 |-> v0])
    OBVIOUS
  <2> QED BY <2>1
<1>2. ASSUME NEW m \in Nat, m \in T PROVE m + 1 \in T
  <2> SUFFICES ASSUME m + 1 <= n PROVE \E h \in [0..(m + 1) -> V] : Defined(m + 1, h)
    OBVIOUS
  <2>1. PICK h \in [0..m -> V] : Defined(m, h)
    BY <1>2
  <2>2. h[m] \in V /\ m + 1 \in 1..n
    OBVIOUS
  <2>3. step[m + 1] \in [V -> V]
    BY <2>2
  <2>4. step[m + 1][h[m]] \in V
    BY <2>2, <2>3
  <2> DEFINE v == step[m + 1][h[m]]
             k == [i \in 0..(m + 1) |-> IF i = m + 1 THEN v ELSE h[i]]
  <2>5. v \in V
    BY <2>4
  <2>6. k \in [0..(m + 1) -> V]
    <3> HIDE DEF v
    <3> QED BY <2>5
  <2>7. k[0] = v0
    BY <2>1
  <2>8. ASSUME NEW i \in 1..(m + 1) PROVE k[i] = step[i][k[i - 1]]
    <3>1. CASE i = m + 1
      <4>1. k[i] = v /\ k[i - 1] = h[m]
        <5> HIDE DEF v
        <5> QED BY <3>1
      <4> QED BY <3>1, <4>1
    <3>2. CASE i # m + 1
      <4>1. k[i] = h[i] /\ k[i - 1] = h[i - 1] /\ i \in 1..m
        <5> HIDE DEF v
        <5> QED BY <3>2
      <4> QED BY <2>1, <4>1
    <3> QED BY <3>1, <3>2
  <2> HIDE DEF k
  <2> QED BY <2>6, <2>7, <2>8
<1>3. T = Nat
  <2> HIDE DEF T
  <2>1. T \in SUBSET Nat
    BY DEF T
  <2> QED BY <1>1, <1>2, <2>1, NatInductionOnSets
<1>4. n \in T
  BY <1>3
<1> QED BY <1>4 DEF Iterates

----------------------------------------------------------------------------
(* Sums over finite sets                                                   *)

Pick(s) == CHOOSE x \in s : TRUE

\* The recursion that SumFunctionOnSet unfolds to.
SumBody(f, D, g) ==
    [s \in SUBSET D |-> IF s = {} THEN 0 ELSE f[Pick(s)] + g[s \ {Pick(s)}]]

\* SumFunctionOnSet is the value at D of a solution of the recursion.
LEMMA SumUnfolds ==
    ASSUME NEW f, NEW D
    PROVE  SumFunctionOnSet(f, D) = (CHOOSE g : g = SumBody(f, D, g))[D]
  BY Zenon DEF SumFunctionOnSet, FoldFunctionOnSet, MapThenFoldSet, Pick, SumBody

\* The recursion has a solution, and its values are integers.
LEMMA SumExists ==
    ASSUME NEW D, IsFiniteSet(D), NEW f, \A x \in D : f[x] \in Int
    PROVE  \E g : g \in [SUBSET D -> Int] /\ g = SumBody(f, D, g)
<1> DEFINE Upto(g, n) == \A U \in SUBSET D : Cardinality(U) <= n => g[U] = SumBody(f, D, g)[U]
           T == {n \in Nat : \E g \in [SUBSET D -> Int] : Upto(g, n)}
<1>0. \A U \in SUBSET D : IsFiniteSet(U) /\ Cardinality(U) \in Nat
  BY FS_Subset, FS_CardinalityType
<1>1. \A U \in SUBSET D : U # {} =>
        /\ Pick(U) \in U /\ f[Pick(U)] \in Int
        /\ U \ {Pick(U)} \in SUBSET D
        /\ Cardinality(U \ {Pick(U)}) = Cardinality(U) - 1
  <2> SUFFICES ASSUME NEW U \in SUBSET D, U # {}
               PROVE  /\ Pick(U) \in U /\ f[Pick(U)] \in Int
                      /\ U \ {Pick(U)} \in SUBSET D
                      /\ Cardinality(U \ {Pick(U)}) = Cardinality(U) - 1
    OBVIOUS
  <2>1. Pick(U) \in U
    BY DEF Pick
  <2> QED BY <1>0, <2>1, FS_RemoveElement
<1>2. 0 \in T
  <2> DEFINE g == [U \in SUBSET D |-> 0]
  <2>1. ASSUME NEW U \in SUBSET D, Cardinality(U) <= 0 PROVE g[U] = SumBody(f, D, g)[U]
    <3>1. U = {}
      BY <1>0, <2>1, FS_EmptySet
    <3> QED BY <3>1 DEF SumBody
  <2>2. g \in [SUBSET D -> Int]
    OBVIOUS
  <2> HIDE DEF g
  <2> QED BY <2>1, <2>2
<1>3. ASSUME NEW n \in Nat, n \in T PROVE n + 1 \in T
  <2>1. PICK g \in [SUBSET D -> Int] : Upto(g, n)
    BY <1>3
  <2> DEFINE h == SumBody(f, D, g)
  <2>2. h \in [SUBSET D -> Int]
    <3>1. ASSUME NEW U \in SUBSET D
          PROVE  (IF U = {} THEN 0 ELSE f[Pick(U)] + g[U \ {Pick(U)}]) \in Int
      <4>1. CASE U # {}
        <5>1. f[Pick(U)] \in Int /\ g[U \ {Pick(U)}] \in Int
          BY <1>1, <4>1
        <5> QED BY <4>1, <5>1
      <4> QED BY <4>1
    <3> QED BY <3>1 DEF SumBody
  <2>3. ASSUME NEW U \in SUBSET D, Cardinality(U) <= n + 1
        PROVE  h[U] = SumBody(f, D, h)[U]
    <3>1. CASE U = {}
      BY <3>1 DEF SumBody
    <3>2. CASE U # {}
      <4> DEFINE W == U \ {Pick(U)}
      <4>1. W \in SUBSET D /\ Cardinality(W) <= n
        BY <1>0, <1>1, <2>3, <3>2
      <4>2. g[W] = h[W]
        <5> HIDE DEF W
        <5> QED BY <2>1, <4>1
      <4>3. h[U] = f[Pick(U)] + g[W] /\ SumBody(f, D, h)[U] = f[Pick(U)] + h[W]
        BY <3>2 DEF SumBody
      <4> QED BY <4>2, <4>3
    <3> QED BY <3>1, <3>2
  <2> HIDE DEF h
  <2> QED BY <2>2, <2>3
<1>4. T = Nat
  <2> HIDE DEF T
  <2>1. T \in SUBSET Nat
    BY DEF T
  <2> QED BY <1>2, <1>3, <2>1, NatInductionOnSets
<1>5. Cardinality(D) \in Nat /\ \A U \in SUBSET D : Cardinality(U) <= Cardinality(D)
  BY FS_Subset, FS_CardinalityType
<1>6. PICK g \in [SUBSET D -> Int] : Upto(g, Cardinality(D))
  BY <1>4, <1>5
<1>7. \A U \in SUBSET D : g[U] = SumBody(f, D, g)[U]
  BY <1>5, <1>6
<1>8. g = SumBody(f, D, g)
  BY <1>7 DEF SumBody
<1> QED BY <1>8

\* Two solutions agree where both are defined.
LEMMA SumUnique ==
    ASSUME NEW D, IsFiniteSet(D), NEW E \in SUBSET D, NEW f,
           NEW g, g = SumBody(f, D, g), NEW h, h = SumBody(f, E, h)
    PROVE  \A U \in SUBSET E : g[U] = h[U]
<1> DEFINE T == {U \in SUBSET E : g[U] = h[U]}
<1>1. IsFiniteSet(E)
  BY FS_Subset
<1>2. ASSUME NEW U \in SUBSET E, \A x \in U : U \ {x} \in T PROVE U \in T
  <2>1. g[U] = SumBody(f, D, g)[U] /\ h[U] = SumBody(f, E, h)[U]
    OBVIOUS
  <2>2. CASE U = {}
    BY <2>1, <2>2 DEF SumBody
  <2>3. CASE U # {}
    <3>1. Pick(U) \in U
      BY <2>3 DEF Pick
    <3>2. g[U \ {Pick(U)}] = h[U \ {Pick(U)}]
      BY <1>2, <3>1
    <3>3. /\ g[U] = f[Pick(U)] + g[U \ {Pick(U)}]
          /\ h[U] = f[Pick(U)] + h[U \ {Pick(U)}]
      BY <2>1, <2>3 DEF SumBody
    <3> QED BY <3>2, <3>3
  <2> QED BY <2>2, <2>3
<1>3. \A U \in SUBSET E : U \in T
  <2> HIDE DEF T
  <2> QED BY <1>1, <1>2, SubsetInduction
<1> QED BY <1>3

\* The sum of nothing, and of a set by way of the member that is picked.
LEMMA SumPick ==
    ASSUME NEW S, IsFiniteSet(S), NEW f, \A x \in S : f[x] \in Int
    PROVE  /\ SumFunctionOnSet(f, S) \in Int
           /\ SumFunctionOnSet(f, {}) = 0
           /\ S # {} => /\ Pick(S) \in S
                        /\ SumFunctionOnSet(f, S) =
                              f[Pick(S)] + SumFunctionOnSet(f, S \ {Pick(S)})
<1> DEFINE G(D) == CHOOSE g : g = SumBody(f, D, g)
<1>1. ASSUME NEW D \in SUBSET S
      PROVE  /\ G(D) \in [SUBSET D -> Int] /\ G(D) = SumBody(f, D, G(D))
             /\ G(D)[D] = SumFunctionOnSet(f, D)
  <2>1. IsFiniteSet(D) /\ \A x \in D : f[x] \in Int
    BY FS_Subset
  <2>2. PICK g : g \in [SUBSET D -> Int] /\ g = SumBody(f, D, g)
    BY <2>1, SumExists
  <2>3. G(D) = SumBody(f, D, G(D))
    BY <2>2
  <2> HIDE DEF G
  <2>4. D \in SUBSET D
    OBVIOUS
  <2>5. \A U \in SUBSET D : g[U] = G(D)[U]
    BY <2>1, <2>2, <2>3, <2>4, SumUnique
  <2>6. G(D) = [U \in SUBSET D |-> G(D)[U]]
    BY <2>3 DEF SumBody
  <2>7. G(D) \in [SUBSET D -> Int]
    BY <2>2, <2>5, <2>6
  <2> QED BY <2>3, <2>7, SumUnfolds DEF G
<1> HIDE DEF G
<1>2. SumFunctionOnSet(f, S) \in Int
  <2>1. S \in SUBSET S /\ G(S) \in [SUBSET S -> Int] /\ G(S)[S] = SumFunctionOnSet(f, S)
    BY <1>1
  <2>2. G(S)[S] \in Int
    BY <2>1
  <2> QED BY <2>1, <2>2
<1>3. SumFunctionOnSet(f, {}) = 0
  <2>1. G({})[{}] = SumBody(f, {}, G({}))[{}]
    BY <1>1
  <2> QED BY <1>1, <2>1 DEF SumBody
<1>4. ASSUME S # {}
      PROVE  /\ Pick(S) \in S
             /\ SumFunctionOnSet(f, S) = f[Pick(S)] + SumFunctionOnSet(f, S \ {Pick(S)})
  <2>1. Pick(S) \in S
    BY <1>4 DEF Pick
  <2> DEFINE E == S \ {Pick(S)}
  <2>2. E \in SUBSET S /\ E \in SUBSET E
    OBVIOUS
  <2>3. G(S)[E] = G(E)[E]
    <3>1. G(S) = SumBody(f, S, G(S)) /\ G(E) = SumBody(f, E, G(E))
      BY <1>1
    <3> HIDE DEF E
    <3>2. \A U \in SUBSET E : G(S)[U] = G(E)[U]
      BY <2>2, <3>1, SumUnique
    <3> QED BY <2>2, <3>2
  <2>4. G(S)[S] = SumBody(f, S, G(S))[S]
    BY <1>1
  <2>5. G(S)[S] = f[Pick(S)] + G(S)[E]
    BY <1>4, <2>4 DEF SumBody
  <2> QED BY <1>1, <2>1, <2>2, <2>3, <2>5
<1> QED BY <1>2, <1>3, <1>4

\* Any member can be taken out first: the order of the fold does not matter.
LEMMA SumRemove ==
    ASSUME NEW S, IsFiniteSet(S), NEW f, \A x \in S : f[x] \in Int, NEW x \in S
    PROVE  SumFunctionOnSet(f, S) = f[x] + SumFunctionOnSet(f, S \ {x})
<1> DEFINE Sum(U) == SumFunctionOnSet(f, U)
           T == {U \in SUBSET S : \A y \in U : Sum(U) = f[y] + Sum(U \ {y})}
<1>1. ASSUME NEW U \in SUBSET S
      PROVE  /\ Sum(U) \in Int
             /\ U # {} => Pick(U) \in U /\ Sum(U) = f[Pick(U)] + Sum(U \ {Pick(U)})
  <2>1. IsFiniteSet(U) /\ \A y \in U : f[y] \in Int
    BY FS_Subset
  <2> QED BY <2>1, SumPick
<1> HIDE DEF Sum
<1>2. ASSUME NEW U \in SUBSET S, \A y \in U : U \ {y} \in T PROVE U \in T
  <2> SUFFICES ASSUME NEW y \in U PROVE Sum(U) = f[y] + Sum(U \ {y})
    OBVIOUS
  <2> DEFINE p == Pick(U)
  <2>1. p \in U /\ Sum(U) = f[p] + Sum(U \ {p})
    BY <1>1
  <2> HIDE DEF p
  <2>2. CASE y # p
    <3>1. Sum(U \ {p}) = f[y] + Sum((U \ {p}) \ {y})
      BY <1>2, <2>1, <2>2
    <3>2. Sum(U \ {y}) = f[p] + Sum((U \ {y}) \ {p})
      BY <1>2, <2>1, <2>2
    <3>3. (U \ {p}) \ {y} = (U \ {y}) \ {p} /\ (U \ {p}) \ {y} \in SUBSET S
      OBVIOUS
    <3>4. f[p] \in Int /\ f[y] \in Int /\ Sum((U \ {p}) \ {y}) \in Int
      BY <1>1, <2>1, <3>3
    <3>5. \A i, j, k \in Int : i + (j + k) = j + (i + k)
      OBVIOUS
    <3> DEFINE w == Sum((U \ {p}) \ {y})
    <3>6. Sum(U) = f[p] + (f[y] + w) /\ Sum(U \ {y}) = f[p] + w
      BY <2>1, <3>1, <3>2, <3>3
    <3>7. w \in Int
      BY <3>4
    <3> HIDE DEF w
    <3> QED BY <3>4, <3>5, <3>6, <3>7
  <2> QED BY <2>1, <2>2
<1>3. \A U \in SUBSET S : U \in T
  <2> HIDE DEF T
  <2> QED BY <1>2, SubsetInduction
<1>4. S \in T
  BY <1>3
<1> QED BY <1>4 DEF Sum

\* Adding a new member adds its value.
LEMMA SumAdd ==
    ASSUME NEW S, IsFiniteSet(S), NEW x, x \notin S, NEW f,
           \A y \in S \cup {x} : f[y] \in Int
    PROVE  SumFunctionOnSet(f, S \cup {x}) = f[x] + SumFunctionOnSet(f, S)
<1>1. IsFiniteSet(S \cup {x}) /\ (S \cup {x}) \ {x} = S
  BY FS_AddElement
<1>2. SumFunctionOnSet(f, S \cup {x}) = f[x] + SumFunctionOnSet(f, (S \cup {x}) \ {x})
  BY <1>1, SumRemove
<1> QED BY <1>1, <1>2

\* The sum depends on the values in the set only.
LEMMA SumEqual ==
    ASSUME NEW S, IsFiniteSet(S), NEW f, NEW g,
           \A x \in S : f[x] \in Int /\ f[x] = g[x]
    PROVE  SumFunctionOnSet(f, S) = SumFunctionOnSet(g, S)
<1> DEFINE T == {U \in SUBSET S : SumFunctionOnSet(f, U) = SumFunctionOnSet(g, U)}
<1>1. ASSUME NEW U \in SUBSET S, \A x \in U : U \ {x} \in T PROVE U \in T
  <2>1. IsFiniteSet(U) /\ \A x \in U : f[x] \in Int /\ g[x] \in Int
    BY FS_Subset
  <2>2. /\ SumFunctionOnSet(f, {}) = 0 /\ SumFunctionOnSet(g, {}) = 0
        /\ \A x \in U : SumFunctionOnSet(f, U) = f[x] + SumFunctionOnSet(f, U \ {x})
        /\ \A x \in U : SumFunctionOnSet(g, U) = g[x] + SumFunctionOnSet(g, U \ {x})
    BY <2>1, SumPick, SumRemove
  <2>3. CASE U = {}
    BY <2>2, <2>3
  <2>4. ASSUME NEW x \in U PROVE U \in T
    <3>1. SumFunctionOnSet(f, U \ {x}) = SumFunctionOnSet(g, U \ {x})
      BY <1>1
    <3> QED BY <2>2, <3>1
  <2> QED BY <2>3, <2>4
<1>2. \A U \in SUBSET S : U \in T
  <2> HIDE DEF T
  <2> QED BY <1>1, SubsetInduction
<1>3. S \in T
  BY <1>2
<1> QED BY <1>3

\* Changing the value of one member changes the sum by the difference.
LEMMA SumChange ==
    ASSUME NEW S, IsFiniteSet(S), NEW x \in S, NEW f, NEW g,
           \A y \in S : f[y] \in Int /\ g[y] \in Int,
           \A y \in S \ {x} : g[y] = f[y]
    PROVE  SumFunctionOnSet(g, S) = SumFunctionOnSet(f, S) - f[x] + g[x]
<1>1. IsFiniteSet(S \ {x})
  BY FS_RemoveElement
<1>2. /\ SumFunctionOnSet(f, S) = f[x] + SumFunctionOnSet(f, S \ {x})
      /\ SumFunctionOnSet(g, S) = g[x] + SumFunctionOnSet(g, S \ {x})
  BY SumRemove
<1>3. SumFunctionOnSet(f, S \ {x}) = SumFunctionOnSet(g, S \ {x})
  BY <1>1, SumEqual
<1>4. SumFunctionOnSet(f, S \ {x}) \in Int /\ f[x] \in Int /\ g[x] \in Int
  BY <1>1, SumPick
<1> QED BY <1>2, <1>3, <1>4

\* Setting the values of some members to zero subtracts their sum.
LEMMA SumClear ==
    ASSUME NEW S, IsFiniteSet(S), NEW A \in SUBSET S, NEW f, NEW g,
           \A y \in S : f[y] \in Int,
           \A y \in A : g[y] = 0, \A y \in S \ A : g[y] = f[y]
    PROVE  SumFunctionOnSet(g, S) = SumFunctionOnSet(f, S) - SumFunctionOnSet(f, A)
<1> DEFINE T == {U \in SUBSET S :
                   SumFunctionOnSet(f, U) = SumFunctionOnSet(g, U) + SumFunctionOnSet(f, U \cap A)}
<1>0. \A U \in SUBSET S : /\ IsFiniteSet(U) /\ SumFunctionOnSet(f, U) \in Int
                           /\ SumFunctionOnSet(g, U) \in Int
  <2> SUFFICES ASSUME NEW U \in SUBSET S
               PROVE  /\ IsFiniteSet(U) /\ SumFunctionOnSet(f, U) \in Int
                      /\ SumFunctionOnSet(g, U) \in Int
    OBVIOUS
  <2>1. IsFiniteSet(U)
    BY FS_Subset
  <2>2. \A y \in U : f[y] \in Int /\ g[y] \in Int
    OBVIOUS
  <2> QED BY <2>1, <2>2, SumPick
<1>1. ASSUME NEW U \in SUBSET S, \A x \in U : U \ {x} \in T PROVE U \in T
  <2>1. CASE U = {}
    <3>1. SumFunctionOnSet(f, {}) = 0 /\ SumFunctionOnSet(g, {}) = 0
      <4>1. \A y \in {} : f[y] \in Int /\ g[y] \in Int
        OBVIOUS
      <4> QED BY <4>1, FS_EmptySet, SumPick
    <3> QED BY <2>1, <3>1
  <2>2. ASSUME NEW x \in U PROVE U \in T
    <3>1. \A y \in U : f[y] \in Int /\ g[y] \in Int
      OBVIOUS
    <3>2. /\ SumFunctionOnSet(f, U) = f[x] + SumFunctionOnSet(f, U \ {x})
          /\ SumFunctionOnSet(g, U) = g[x] + SumFunctionOnSet(g, U \ {x})
      BY <1>0, <3>1, SumRemove
    <3>3. SumFunctionOnSet(f, U \ {x}) =
             SumFunctionOnSet(g, U \ {x}) + SumFunctionOnSet(f, (U \ {x}) \cap A)
      BY <1>1
    <3> DEFINE W == U \ {x}
               F(V) == SumFunctionOnSet(f, V)
               G(V) == SumFunctionOnSet(g, V)
    <3>4. F(W) \in Int /\ G(W) \in Int /\ F(W \cap A) \in Int /\ f[x] \in Int
      BY <1>0
    <3>5. F(U \cap A) = IF x \in A THEN f[x] + F(W \cap A) ELSE F(W \cap A)
      <4>1. CASE x \in A
        <5>1. x \in U \cap A /\ (U \cap A) \ {x} = W \cap A
          BY <4>1
        <5>2. F(U \cap A) = f[x] + F((U \cap A) \ {x})
          BY <1>0, <5>1, SumRemove
        <5> QED BY <4>1, <5>1, <5>2
      <4>2. CASE x \notin A
        <5>1. W \cap A = U \cap A
          BY <4>2
        <5> QED BY <4>2, <5>1
      <4> QED BY <4>1, <4>2
    <3>6. g[x] = IF x \in A THEN 0 ELSE f[x]
      OBVIOUS
    <3>7. F(U) = f[x] + F(W) /\ G(U) = g[x] + G(W) /\ F(W) = G(W) + F(W \cap A)
      BY <3>2, <3>3
    <3>8. F(U) = G(U) + F(U \cap A)
      <4> HIDE DEF F, G, W
      <4> DEFINE wa == F(W \cap A)
                 gw == G(W)
      <4>1. wa \in Int /\ gw \in Int /\ F(U) = f[x] + (gw + wa) /\ G(U) = g[x] + gw
            /\ F(U \cap A) = IF x \in A THEN f[x] + wa ELSE wa
        BY <3>4, <3>5, <3>7
      <4> HIDE DEF wa, gw
      <4> QED BY <3>4, <3>6, <4>1
    <3> QED BY <3>8
  <2> QED BY <2>1, <2>2
<1>2. \A U \in SUBSET S : U \in T
  <2> HIDE DEF T
  <2> QED BY <1>1, SubsetInduction
<1>3. S \in T /\ S \cap A = A
  BY <1>2
<1>4. /\ SumFunctionOnSet(f, S) \in Int /\ SumFunctionOnSet(g, S) \in Int
      /\ SumFunctionOnSet(f, A) \in Int
  BY <1>0
<1> QED BY <1>3, <1>4

\* A sum of natural numbers is one, and at least each of its parts.
LEMMA SumNat ==
    ASSUME NEW S, IsFiniteSet(S), NEW f, \A x \in S : f[x] \in Nat
    PROVE  SumFunctionOnSet(f, S) \in Nat
<1> DEFINE T == {U \in SUBSET S : SumFunctionOnSet(f, U) \in Nat}
<1>1. ASSUME NEW U \in SUBSET S, \A x \in U : U \ {x} \in T PROVE U \in T
  <2>1. IsFiniteSet(U) /\ \A y \in U : f[y] \in Int
    BY FS_Subset
  <2>2. CASE U = {}
    BY <2>1, <2>2, SumPick
  <2>3. ASSUME NEW x \in U PROVE U \in T
    <3>1. SumFunctionOnSet(f, U) = f[x] + SumFunctionOnSet(f, U \ {x})
      BY <2>1, SumRemove
    <3>2. f[x] \in Nat /\ SumFunctionOnSet(f, U \ {x}) \in Nat
      BY <1>1
    <3> QED BY <3>1, <3>2
  <2> QED BY <2>2, <2>3
<1>2. \A U \in SUBSET S : U \in T
  <2> HIDE DEF T
  <2> QED BY <1>1, SubsetInduction
<1>3. S \in T
  BY <1>2
<1> QED BY <1>3
=============================================================================
