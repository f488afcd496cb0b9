----------------------------- MODULE SumLemmas ------------------------------
(***************************************************************************)
(* Induction over the natural numbers and over the subsets of a finite     *)
(* set, as statements about sets of them, and what follows for             *)
(* SumFunctionOnSet: the sums that say how much of the upload budget is    *)
(* held (RemoteStore), how many requests an address was allowed            *)
(* (ClientLimiter), how many copies of a job the processing lists hold     *)
(* (ScanService) and how many groups of the combined regex come before     *)
(* those of a rule (Detection).                                            *)
(***************************************************************************)
EXTENDS Integers, Functions, FiniteSetTheorems, WellFoundedInduction,
        NaturalsInduction, TLAPS

(* Induction on the natural numbers, for a set of them.                    *)
LEMMA NatSetInduction ==
  ASSUME NEW G, 0 \in G, \A n \in Nat : n \in G => n + 1 \in G
  PROVE  Nat \subseteq G
<1> DEFINE bad == Nat \ G
<1> SUFFICES ASSUME bad # {} PROVE FALSE
  BY Zenon
<1>1. PICK n \in bad : \A m \in bad : ~(<<m, n>> \in OpToRel(<, Nat))
  BY NatLessThanWellFounded, WFMin, Zenon
<1>2. n # 0 /\ n - 1 \in Nat /\ n - 1 < n
  OBVIOUS
<1>3. n - 1 \in G
  BY <1>1, <1>2, Zenon DEF OpToRel
<1> QED  BY <1>2, <1>3

(* Induction on the subsets of a finite set, for a set of them.            *)
LEMMA SubsetInduction ==
  ASSUME NEW S, IsFiniteSet(S), NEW G,
         \A t \in SUBSET S : (\A x \in t : t \ {x} \in G) => t \in G
  PROVE  \A t \in SUBSET S : t \in G
<1> DEFINE bad == (SUBSET S) \ G
<1> SUFFICES ASSUME bad # {} PROVE FALSE
  BY Zenon
<1>1. IsWellFoundedOn(StrictSubsetOrdering(S), SUBSET S)
  <2>1. FiniteSubsetsOf(S) = SUBSET S
    BY FS_FiniteSubsetsOfFinite, Zenon
  <2>2. IsWellFoundedOn(StrictSubsetOrdering(S), FiniteSubsetsOf(S))
    BY FS_StrictSubsetOrderingWellFounded, Zenon
  <2> QED  BY <2>1, <2>2, Zenon
<1>2. PICK t \in bad : \A u \in bad : ~(<<u, t>> \in StrictSubsetOrdering(S))
  BY <1>1, WFMin, bad \subseteq SUBSET S, Zenon
<1>3. ASSUME NEW x \in t PROVE t \ {x} \in G
  <2>1. <<t \ {x}, t>> \in StrictSubsetOrdering(S)
    BY Zenon DEF StrictSubsetOrdering
  <2> QED  BY <1>2, <2>1, Zenon
<1> QED  BY <1>3, Zenon

(* The equation of SumFunctionOnSet, on the subsets in D.                  *)
Pick(s) == CHOOSE x \in s : TRUE
SumEq(g, f, D) == g = [s \in D |-> IF s = {} THEN 0 ELSE f[Pick(s)] + g[s \ {Pick(s)}]]

(* It has a solution: the sums of n elements give those of n + 1.          *)
LEMMA SumEqSolvable ==
  ASSUME NEW S, IsFiniteSet(S), NEW f
  PROVE  \E g : SumEq(g, f, SUBSET S)
<1> DEFINE Upto(n) == {s \in SUBSET S : Cardinality(s) <= n}
           G == {n \in Nat : \E g : SumEq(g, f, Upto(n))}
<1>1. 0 \in G
  <2>1. \A s \in Upto(0) : s = {}
    BY FS_Subset, FS_EmptySet, FS_CardinalityType
  <2>2. SumEq([s \in Upto(0) |-> 0], f, Upto(0))
    BY <2>1, Zenon DEF SumEq
  <2> QED  BY <2>2, Zenon
<1>2. ASSUME NEW n \in Nat, n \in G PROVE n + 1 \in G
  <2>1. PICK g : SumEq(g, f, Upto(n))
    BY <1>2, Zenon
  <2> DEFINE e(s) == IF s = {} THEN 0 ELSE f[Pick(s)] + g[s \ {Pick(s)}]
             h == [s \in Upto(n + 1) |-> e(s)]
  <2>2. \A s \in Upto(n) : g[s] = e(s)
    BY <2>1, Zenon DEF SumEq
  <2>3. Upto(n) \subseteq Upto(n + 1)
    BY FS_Subset, FS_CardinalityType
  <2>4. \A s \in Upto(n) : h[s] = g[s]
    BY <2>2, <2>3, Zenon
  <2>5. ASSUME NEW s \in Upto(n + 1), s # {} PROVE s \ {Pick(s)} \in Upto(n)
    <3>1. Pick(s) \in s
      BY <2>5, Zenon DEF Pick
    <3>2. IsFiniteSet(s) /\ Cardinality(s) \in Nat
      BY FS_Subset, FS_CardinalityType, Zenon
    <3>3. Cardinality(s \ {Pick(s)}) = Cardinality(s) - 1
      BY <3>1, <3>2, FS_RemoveElement, Zenon
    <3> QED  BY <3>2, <3>3
  <2>6. \A s \in Upto(n + 1) : h[s] = IF s = {} THEN 0 ELSE f[Pick(s)] + h[s \ {Pick(s)}]
    BY <2>4, <2>5, Zenon
  <2> HIDE DEF e
  <2>7. SumEq(h, f, Upto(n + 1))
    BY <2>6, Zenon DEF SumEq
  <2> HIDE DEF h, Upto
  <2> QED  BY <2>7
<1>3. Nat \subseteq G
  <2> HIDE DEF G
  <2> QED  BY <1>1, <1>2, NatSetInduction, Zenon
<1>4. Cardinality(S) \in Nat /\ Upto(Cardinality(S)) = SUBSET S
  BY FS_CardinalityType, FS_Subset, Zenon
<1> QED  BY <1>3, <1>4, Zenon

(* A sum is the solution's value.                                          *)
LEMMA SumIsSolution ==
  ASSUME NEW S, IsFiniteSet(S), NEW f
  PROVE  \E g : SumEq(g, f, SUBSET S) /\ SumFunctionOnSet(f, S) = g[S]
<1> DEFINE g == CHOOSE h : SumEq(h, f, SUBSET S)
<1>1. SumEq(g, f, SUBSET S)
  BY SumEqSolvable, Zenon
<1>2. SumFunctionOnSet(f, S) = g[S]
  BY Zenon DEF SumFunctionOnSet, FoldFunctionOnSet, MapThenFoldSet, SumEq, Pick
<1> QED  BY <1>1, <1>2, Zenon

(* A sum of nothing, and the sum of a set with an element taken out.       *)
LEMMA SumEmpty == ASSUME NEW f PROVE SumFunctionOnSet(f, {}) = 0
BY SumIsSolution, FS_EmptySet, Zenon DEF SumEq

(* Two functions agree on the subsets of a set.                            *)
Agree(g, h, T) == \A t \in SUBSET T : g[t] = h[t]

(* Two solutions agree where both are defined.                             *)
LEMMA SumUnique ==
  ASSUME NEW S, IsFiniteSet(S), NEW T, IsFiniteSet(T), T \subseteq S, NEW f, NEW g, NEW h,
         SumEq(g, f, SUBSET S), SumEq(h, f, SUBSET T)
  PROVE  Agree(g, h, T)
<1> DEFINE G == {t \in SUBSET T : g[t] = h[t]}
<1>1. ASSUME NEW t \in SUBSET T, \A x \in t : t \ {x} \in G
      PROVE  t \in G
  <2>1. CASE t = {}
    BY <2>1, Zenon DEF SumEq
  <2>2. CASE t # {}
    <3>1. Pick(t) \in t
      BY <2>2, Zenon DEF Pick
    <3>2. g[t] = f[Pick(t)] + g[t \ {Pick(t)}] /\ h[t] = f[Pick(t)] + h[t \ {Pick(t)}]
      BY <2>2, Zenon DEF SumEq
    <3>3. g[t \ {Pick(t)}] = h[t \ {Pick(t)}]
      BY <1>1, <3>1, Zenon
    <3> QED  BY <3>2, <3>3, Zenon
  <2> QED  BY <2>1, <2>2, Zenon
<1>2. \A t \in SUBSET T : t \in G
  <2> HIDE DEF G
  <2> QED  BY <1>1, SubsetInduction, Zenon
<1> QED  BY <1>2, Zenon DEF Agree

(* The solution for a set gives the sum of each part of it.                *)
LEMMA SumOfPart ==
  ASSUME NEW S, IsFiniteSet(S), NEW T, IsFiniteSet(T), T \subseteq S, NEW f, NEW g,
         SumEq(g, f, SUBSET S)
  PROVE  SumFunctionOnSet(f, T) = g[T]
<1>1. PICK h : SumEq(h, f, SUBSET T) /\ SumFunctionOnSet(f, T) = h[T]
  BY SumIsSolution, Zenon
<1>2. SumEq(h, f, SUBSET T)
  BY <1>1, Zenon
<1>3. Agree(g, h, T)
  BY <1>2, SumUnique, Zenon
<1> QED  BY <1>1, <1>3, Zenon DEF Agree

(* The sum takes the chosen element first.                                 *)
LEMMA SumPick ==
  ASSUME NEW S, IsFiniteSet(S), S # {}, NEW f
  PROVE  /\ Pick(S) \in S
         /\ SumFunctionOnSet(f, S) = f[Pick(S)] + SumFunctionOnSet(f, S \ {Pick(S)})
<1> DEFINE T == S \ {Pick(S)}
<1>1. IsFiniteSet(T) /\ T \subseteq S
  BY FS_RemoveElement, Zenon
<1>2. PICK g : SumEq(g, f, SUBSET S) /\ SumFunctionOnSet(f, S) = g[S]
  BY SumIsSolution, Zenon
<1>3. SumFunctionOnSet(f, T) = g[T]
  <2> HIDE DEF T
  <2> QED  BY <1>1, <1>2, SumOfPart, Zenon
<1>4. g[S] = f[Pick(S)] + g[T]
  BY <1>2, Zenon DEF SumEq
<1>5. Pick(S) \in S
  BY Zenon DEF Pick
<1> QED  BY <1>2, <1>3, <1>4, <1>5, Zenon

(* A sum of integers is an integer, one of natural numbers is a natural    *)
(* number.                                                                 *)
LEMMA SumClosed ==
  ASSUME NEW S, IsFiniteSet(S), NEW N, N \in {Nat, Int}, NEW f, \A x \in S : f[x] \in N
  PROVE  \A t \in SUBSET S : SumFunctionOnSet(f, t) \in N
<1> DEFINE G == {t \in SUBSET S : SumFunctionOnSet(f, t) \in N}
<1>1. ASSUME NEW t \in SUBSET S, \A x \in t : t \ {x} \in G
      PROVE  t \in G
  <2>0. 0 \in N /\ \A a, b \in N : a + b \in N
    OBVIOUS
  <2>1. CASE t = {}
    BY <2>0, <2>1, SumEmpty, Zenon
  <2>2. CASE t # {}
    <3>1. IsFiniteSet(t)
      BY FS_Subset, Zenon
    <3>2. /\ Pick(t) \in t
          /\ SumFunctionOnSet(f, t) = f[Pick(t)] + SumFunctionOnSet(f, t \ {Pick(t)})
      BY <2>2, <3>1, SumPick, Zenon
    <3> QED  BY <1>1, <2>0, <3>2, Zenon
  <2> QED  BY <2>1, <2>2, Zenon
<1>2. \A t \in SUBSET S : t \in G
  <2> HIDE DEF G
  <2> QED  BY <1>1, SubsetInduction, Zenon
<1> QED  BY <1>2, Zenon

(* A sum of zeros is zero.                                                 *)
LEMMA SumZero ==
  ASSUME NEW S, IsFiniteSet(S), NEW f, \A x \in S : f[x] = 0
  PROVE  \A t \in SUBSET S : SumFunctionOnSet(f, t) = 0
<1> DEFINE G == {t \in SUBSET S : SumFunctionOnSet(f, t) = 0}
<1>1. ASSUME NEW t \in SUBSET S, \A x \in t : t \ {x} \in G
      PROVE  t \in G
  <2>1. CASE t = {}
    BY <2>1, SumEmpty, Zenon
  <2>2. CASE t # {}
    <3>1. IsFiniteSet(t)
      BY FS_Subset, Zenon
    <3>2. /\ Pick(t) \in t
          /\ SumFunctionOnSet(f, t) = f[Pick(t)] + SumFunctionOnSet(f, t \ {Pick(t)})
      BY <2>2, <3>1, SumPick, Zenon
    <3> QED  BY <1>1, <3>2
  <2> QED  BY <2>1, <2>2, Zenon
<1>2. \A t \in SUBSET S : t \in G
  <2> HIDE DEF G
  <2> QED  BY <1>1, SubsetInduction, Zenon
<1> QED  BY <1>2, Zenon

(* Any element may be taken first.                                         *)
LEMMA SumRemove ==
  ASSUME NEW S, IsFiniteSet(S), NEW f, \A x \in S : f[x] \in Int
  PROVE  \A y \in S : SumFunctionOnSet(f, S) = f[y] + SumFunctionOnSet(f, S \ {y})
<1> DEFINE Sum(t) == SumFunctionOnSet(f, t)
           G == {t \in SUBSET S : \A y \in t : Sum(t) = f[y] + Sum(t \ {y})}
<1>1. ASSUME NEW t \in SUBSET S, \A x \in t : t \ {x} \in G
      PROVE  t \in G
  <2>1. CASE t = {}
    BY <2>1, Zenon
  <2>2. CASE t # {}
    <3> DEFINE x == Pick(t)
    <3>1. IsFiniteSet(t)
      BY FS_Subset, Zenon
    <3>2. x \in t /\ Sum(t) = f[x] + Sum(t \ {x})
      BY <2>2, <3>1, SumPick, Zenon
    <3>3. \A u \in SUBSET S : Sum(u) \in Int
      BY SumClosed, Zenon
    <3> HIDE DEF x, Sum
    <3>4. ASSUME NEW y \in t, y # x PROVE Sum(t) = f[y] + Sum(t \ {y})
      <4>1. Sum(t \ {x}) = f[y] + Sum((t \ {x}) \ {y})
        BY <1>1, <3>2, <3>4, Zenon
      <4>2. Sum(t \ {y}) = f[x] + Sum((t \ {y}) \ {x})
        BY <1>1, <3>2, <3>4, Zenon
      <4>3. (t \ {x}) \ {y} = (t \ {y}) \ {x}
        BY Zenon
      <4>4. /\ Sum((t \ {x}) \ {y}) \in Int /\ Sum(t \ {y}) \in Int
            /\ f[x] \in Int /\ f[y] \in Int
        BY <3>2, <3>3, Zenon
      <4>5. Sum(t \ {y}) = f[x] + Sum((t \ {x}) \ {y})
        BY <4>2, <4>3, Zenon
      <4>6. Sum(t) = f[x] + (f[y] + Sum((t \ {x}) \ {y}))
        BY <3>2, <4>1, Zenon
      <4> QED  BY <4>4, <4>5, <4>6
    <3> QED  BY <3>2, <3>4, Zenon
  <2> QED  BY <2>1, <2>2, Zenon
<1>2. \A t \in SUBSET S : t \in G
  <2> HIDE DEF G
  <2> QED  BY <1>1, SubsetInduction, Zenon
<1> QED  BY <1>2, Zenon

(* Functions that agree on a set have the same sum over it.                *)
LEMMA SumAgree ==
  ASSUME NEW S, IsFiniteSet(S), NEW f, NEW g, \A x \in S : f[x] = g[x]
  PROVE  SumFunctionOnSet(f, S) = SumFunctionOnSet(g, S)
<1> DEFINE G == {t \in SUBSET S : SumFunctionOnSet(f, t) = SumFunctionOnSet(g, t)}
<1>1. ASSUME NEW t \in SUBSET S, \A x \in t : t \ {x} \in G
      PROVE  t \in G
  <2>1. CASE t = {}
    BY <2>1, SumEmpty, Zenon
  <2>2. CASE t # {}
    <3>1. IsFiniteSet(t)
      BY FS_Subset, Zenon
    <3>2. /\ Pick(t) \in t
          /\ SumFunctionOnSet(f, t) = f[Pick(t)] + SumFunctionOnSet(f, t \ {Pick(t)})
          /\ SumFunctionOnSet(g, t) = g[Pick(t)] + SumFunctionOnSet(g, t \ {Pick(t)})
      BY <2>2, <3>1, SumPick, Zenon
    <3> QED  BY <1>1, <3>2, Zenon
  <2> QED  BY <2>1, <2>2, Zenon
<1>2. \A t \in SUBSET S : t \in G
  <2> HIDE DEF G
  <2> QED  BY <1>1, SubsetInduction, Zenon
<1> QED  BY <1>2, Zenon

(* Changing one value changes the sum by the difference.                   *)
LEMMA SumUpdate ==
  ASSUME NEW S, IsFiniteSet(S), NEW f, NEW g, NEW y \in S,
         \A x \in S : f[x] \in Int /\ g[x] \in Int,
         \A x \in S : x # y => f[x] = g[x]
  PROVE  SumFunctionOnSet(g, S) = SumFunctionOnSet(f, S) - f[y] + g[y]
<1> DEFINE T == S \ {y}
<1>1. IsFiniteSet(T)
  BY FS_RemoveElement, Zenon
<1>2. SumFunctionOnSet(f, T) = SumFunctionOnSet(g, T)
  BY <1>1, SumAgree, Zenon
<1>3. SumFunctionOnSet(f, S) = f[y] + SumFunctionOnSet(f, T)
  BY SumRemove, Zenon
<1>4. SumFunctionOnSet(g, S) = g[y] + SumFunctionOnSet(g, T)
  BY SumRemove, Zenon
<1>5. SumFunctionOnSet(f, T) \in Int
  BY SumClosed, Zenon
<1> QED  BY <1>2, <1>3, <1>4, <1>5
=============================================================================
