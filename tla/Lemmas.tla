------------------------------- MODULE Lemmas -------------------------------
(***************************************************************************)
(* What several of the proofs rest on: the loops over a list without       *)
(* duplicates, where taking the head off removes exactly one element from  *)
(* the set of those left, the extremes of sets of natural numbers, sums    *)
(* over finite sets, and functions made by recursion over an interval.     *)
(***************************************************************************)
EXTENDS Sequences, Integers, Functions, FiniteSets, FiniteSetsExt,
        SequenceTheorems, FiniteSetTheorems, WellFoundedInduction, TLAPS

\* Nothing is left exactly when the list is empty.
LEMMA RangeEmpty ==
    ASSUME NEW S, NEW s \in Seq(S)
    PROVE  /\ Range(s) \subseteq S
           /\ Range(s) = {} <=> s = <<>>
<1>1. Range(s) = {s[i] : i \in 1..Len(s)}
  BY RangeEquality
<1>2. Len(s) \in Nat /\ \A i \in 1..Len(s) : s[i] \in S
  BY LenProperties, ElementOfSeq
<1>3. s # <<>> => 1 \in 1..Len(s)
  BY <1>2, EmptySeq
<1>4. s = <<>> => 1..Len(s) = {}
  BY EmptySeq
<1> QED
  BY <1>1, <1>2, <1>3, <1>4

\* A list has finitely many elements.
LEMMA RangeFinite ==
    ASSUME NEW S, NEW s \in Seq(S)
    PROVE  IsFiniteSet(Range(s))
<1>1. Len(s) \in Nat /\ s \in [1..Len(s) -> S]
  BY LenProperties
<1>2. Range(s) = {s[i] : i \in 1..Len(s)}
  BY RangeEquality
<1>3. s \in Surjection(1..Len(s), Range(s))
  BY <1>1, <1>2 DEF Surjection
<1> QED
  BY <1>1, <1>3, FS_Interval, FS_Surjection

\* The two short lists a run can start with.
LEMMA EmptyList ==
    ASSUME NEW S
    PROVE  <<>> \in Seq(S) /\ IsInjective(<<>>) /\ Range(<<>>) = {}
<1>1. <<>> \in Seq(S) /\ DOMAIN <<>> = {}
  OBVIOUS
<1>2. IsInjective(<<>>)
  BY <1>1 DEF IsInjective
<1>3. Range(<<>>) = {}
  BY <1>1, RangeEmpty
<1> QED
  BY <1>1, <1>2, <1>3

\* A list of one element has no duplicates.
LEMMA SingletonList ==
    ASSUME NEW S, NEW e \in S
    PROVE  <<e>> \in Seq(S) /\ IsInjective(<<e>>)
<1>1. <<e>> \in Seq(S) /\ DOMAIN <<e>> = {1}
  OBVIOUS
<1> QED
  BY <1>1 DEF IsInjective

\* One step of such a loop.
LEMMA TailOfInjective ==
    ASSUME NEW S, NEW s \in Seq(S), s # <<>>, IsInjective(s)
    PROVE  /\ Head(s) \in Range(s)
           /\ Tail(s) \in Seq(S)
           /\ IsInjective(Tail(s))
           /\ Range(Tail(s)) = Range(s) \ {Head(s)}
           /\ Tail(s) = <<>> <=> Len(s) = 1
<1>1. /\ Tail(s) \in Seq(S) /\ Len(Tail(s)) = Len(s) - 1
      /\ \A i \in 1..Len(Tail(s)) : Tail(s)[i] = s[i + 1]
  BY HeadTailProperties
<1>2. /\ Len(s) \in Nat \ {0} /\ Len(Tail(s)) \in Nat
      /\ DOMAIN s = 1..Len(s) /\ DOMAIN Tail(s) = 1..Len(Tail(s))
  BY <1>1, LenProperties, EmptySeq
<1>3. Range(s) = {s[i] : i \in 1..Len(s)} /\ Range(Tail(s)) = {Tail(s)[i] : i \in 1..Len(Tail(s))}
  BY <1>1, RangeEquality
<1>4. Head(s) = s[1]
  OBVIOUS
<1>5. \A i, j \in 1..Len(s) : s[i] = s[j] => i = j
  BY <1>2 DEF IsInjective
<1>6. IsInjective(Tail(s))
  BY <1>1, <1>2, <1>5 DEF IsInjective
<1>7. Range(Tail(s)) = Range(s) \ {Head(s)}
  <2>1. ASSUME NEW x \in Range(Tail(s))
        PROVE  x \in Range(s) /\ x # Head(s)
    <3>1. PICK i \in 1..Len(Tail(s)) : x = Tail(s)[i]
      BY <1>3, <2>1
    <3>2. x = s[i + 1] /\ i + 1 \in 1..Len(s) /\ 1 \in 1..Len(s) /\ i + 1 # 1
      BY <1>1, <1>2, <3>1
    <3> QED
      BY <1>3, <1>4, <1>5, <3>2
  <2>2. ASSUME NEW x \in Range(s), x # Head(s)
        PROVE  x \in Range(Tail(s))
    <3>1. PICK i \in 1..Len(s) : x = s[i]
      BY <1>3, <2>2
    <3>2. i # 1 /\ i - 1 \in 1..Len(Tail(s)) /\ (i - 1) + 1 = i
      BY <1>1, <1>2, <1>4, <2>2, <3>1
    <3>3. Tail(s)[i - 1] = s[i]
      BY <1>1, <3>2
    <3> QED
      BY <1>3, <3>1, <3>2, <3>3
  <2> QED
    BY <2>1, <2>2
<1>8. Head(s) \in Range(s)
  BY <1>2, <1>3, <1>4
<1>9. Tail(s) = <<>> <=> Len(s) = 1
  <2>1. Tail(s) = <<>> <=> Len(Tail(s)) = 0
    BY <1>1, EmptySeq
  <2> QED
    BY <1>1, <1>2, <2>1
<1> QED
  BY <1>1, <1>6, <1>7, <1>8, <1>9

-----------------------------------------------------------------------------
(* Extremes                                                                *)

\* A set of natural numbers has a least element, since < is well founded.
LEMMA LeastNatural ==
    ASSUME NEW T, T \subseteq Nat, T # {}
    PROVE  \E x \in T : \A y \in T : x <= y
<1>1. PICK x \in T : \A y \in T : ~(<<y, x>> \in OpToRel(<, Nat))
  BY NatLessThanWellFounded, WFMin
<1>2. \A y \in T : ~(y < x)
  BY <1>1 DEF OpToRel
<1> QED
  BY <1>2

\* A bounded one has a greatest.
LEMMA GreatestOfBounded ==
    ASSUME NEW n \in Nat, NEW T, T \subseteq 0 .. n, T # {}
    PROVE  \E x \in T : \A y \in T : x >= y
<1> DEFINE below == {n - x : x \in T}
<1>1. below \subseteq Nat /\ below # {}
  <2>1. \A x \in T : n - x \in Nat
    OBVIOUS
  <2> QED
    BY <2>1
<1>2. PICK b \in below : \A c \in below : b <= c
  <2> HIDE DEF below
  <2> QED
    BY <1>1, LeastNatural
<1>3. PICK x \in T : b = n - x
  OBVIOUS
<1>4. \A y \in T : n - x <= n - y
  BY <1>2, <1>3
<1>5. \A y \in T : x >= y
  BY <1>4
<1> QED
  BY <1>5

\* The greatest element of a bounded set is one of it.
LEMMA GreatestExists ==
    ASSUME NEW n \in Nat, NEW T, T \subseteq 0 .. n, T # {}
    PROVE  Max(T) \in T /\ \A y \in T : y <= Max(T)
<1>1. \E x \in T : \A y \in T : x >= y
  BY GreatestOfBounded
<1>2. Max(T) \in T /\ \A y \in T : Max(T) >= y
  BY <1>1 DEF Max
<1> QED
  BY <1>2

\* A set of integers between two bounds has a greatest and a least element.
LEMMA ExtremesExist ==
    ASSUME NEW a \in Int, NEW b \in Int, NEW T, T \subseteq a .. b, T # {}
    PROVE  /\ Max(T) \in T /\ \A y \in T : y <= Max(T)
           /\ Min(T) \in T /\ \A y \in T : Min(T) <= y
<1> DEFINE above == {x - a : x \in T}
           below == {b - x : x \in T}
<1>1. above \subseteq Nat /\ above # {} /\ below \subseteq Nat /\ below # {}
  <2>1. \A x \in T : x - a \in Nat /\ b - x \in Nat
    OBVIOUS
  <2> QED
    BY <2>1
<1>2. PICK i \in above : \A c \in above : i <= c
  <2> HIDE DEF above
  <2> QED
    BY <1>1, LeastNatural
<1>3. PICK j \in below : \A c \in below : j <= c
  <2> HIDE DEF below
  <2> QED
    BY <1>1, LeastNatural
<1>4. PICK x \in T : i = x - a
  OBVIOUS
<1>5. PICK y \in T : j = b - y
  OBVIOUS
<1>6. \A z \in T : x <= z
  <2>1. \A z \in T : x - a <= z - a
    BY <1>2, <1>4
  <2> QED
    BY <2>1
<1>7. \A z \in T : y >= z
  <2>1. \A z \in T : b - y <= b - z
    BY <1>3, <1>5
  <2> QED
    BY <2>1
<1>8. Min(T) \in T /\ \A z \in T : Min(T) <= z
  BY <1>6 DEF Min
<1>9. Max(T) \in T /\ \A z \in T : Max(T) >= z
  BY <1>7 DEF Max
<1>10. \A z \in T : z <= Max(T)
  BY <1>9
<1> QED
  BY <1>8, <1>9, <1>10

-----------------------------------------------------------------------------
(* Sums over finite sets: SumFunctionOnSet folds a function in an order    *)
(* that CHOOSE picks.  Induction over the size of the set, with the        *)
(* predicate as a set of numbers, shows that the order does not matter.    *)

\* Induction over the natural numbers, with the predicate as a set.
LEMMA NatInductionSet ==
    ASSUME NEW T, 0 \in T, \A n \in Nat : n \in T => n + 1 \in T
    PROVE  \A n \in Nat : n \in T
<1> SUFFICES ASSUME ~(\A n \in Nat : n \in T) PROVE FALSE
  OBVIOUS
<1>1. PICK x \in Nat \ T : \A y \in Nat \ T : x <= y
  BY LeastNatural
<1>2. x - 1 \in Nat /\ x - 1 \in T /\ (x - 1) + 1 = x
  BY <1>1
<1> QED
  BY <1>1, <1>2

\* g unwinds a sum of f over the subsets of S, taking pick[s] off s first.
Unwinds(g, f, pick, S) ==
    g = [s \in SUBSET S |-> IF s = {} THEN 0 ELSE f[pick[s]] + g[s \ {pick[s]}]]

Picks(pick, S) == \A s \in SUBSET S : s # {} => pick[s] \in s

Additive(g, f, S) ==
    /\ g \in [SUBSET S -> Int] /\ g[{}] = 0
    /\ \A s \in SUBSET S : \A x \in s : g[s] = f[x] + g[s \ {x}]

\* Taking an element away leaves a smaller subset.
LEMMA Smaller ==
    ASSUME NEW S, IsFiniteSet(S), NEW s \in SUBSET S, NEW x \in s
    PROVE  /\ IsFiniteSet(s) /\ Cardinality(s) \in Nat \ {0}
           /\ s \ {x} \in SUBSET S /\ Cardinality(s \ {x}) = Cardinality(s) - 1
<1>1. IsFiniteSet(s) /\ Cardinality(s) \in Nat
  BY FS_Subset, FS_CardinalityType
<1>2. Cardinality(s \ {x}) = Cardinality(s) - 1
  BY <1>1, FS_RemoveElement
<1>3. IsFiniteSet(s \ {x}) /\ Cardinality(s \ {x}) \in Nat
  BY <1>1, FS_RemoveElement, FS_CardinalityType
<1> QED
  BY <1>1, <1>2, <1>3

\* The recursion over the subsets of a finite set has a solution.
LEMMA UnwindingExists ==
    ASSUME NEW S, IsFiniteSet(S), NEW f, NEW pick, Picks(pick, S)
    PROVE  \E g : Unwinds(g, f, pick, S)
<1> DEFINE body(g, s) == IF s = {} THEN 0 ELSE f[pick[s]] + g[s \ {pick[s]}]
           upTo(g, n) == \A s \in SUBSET S : Cardinality(s) <= n => g[s] = body(g, s)
           T == {n \in Nat : \E g : upTo(g, n)}
<1>0. \A s \in SUBSET S : Cardinality(s) \in Nat /\ (Cardinality(s) = 0 <=> s = {})
  BY FS_Subset, FS_CardinalityType, FS_EmptySet
<1>1. 0 \in T
  <2>1. upTo([s \in SUBSET S |-> 0], 0)
    BY <1>0
  <2> QED
    BY <2>1
<1>2. ASSUME NEW n \in Nat, n \in T
      PROVE  n + 1 \in T
  <2>1. PICK g : upTo(g, n)
    BY <1>2
  <2> DEFINE h == [s \in SUBSET S |-> body(g, s)]
  <2>2. ASSUME NEW s \in SUBSET S, Cardinality(s) <= n + 1
        PROVE  h[s] = body(h, s)
    <3>1. CASE s = {}
      BY <3>1
    <3>2. CASE s # {}
      <4> DEFINE x == pick[s]
      <4>1. x \in s
        BY <3>2 DEF Picks
      <4>2. s \ {x} \in SUBSET S /\ Cardinality(s \ {x}) <= n
        BY <1>0, <2>2, <4>1, Smaller
      <4>3. g[s \ {x}] = body(g, s \ {x})
        BY <2>1, <4>2
      <4>4. h[s \ {x}] = g[s \ {x}]
        BY <4>2, <4>3
      <4>5. h[s] = f[x] + g[s \ {x}]
        BY <3>2
      <4> QED
        BY <3>2, <4>4, <4>5
    <3> QED
      BY <3>1, <3>2
  <2>3. upTo(h, n + 1)
    BY <2>2
  <2> HIDE DEF h, upTo
  <2> QED
    BY <2>3
<1>3. Cardinality(S) \in Nat
  BY <1>0
<1>4. Cardinality(S) \in T
  <2> HIDE DEF T
  <2> QED
    BY <1>1, <1>2, <1>3, NatInductionSet
<1>5. PICK g : upTo(g, Cardinality(S))
  BY <1>4
<1> DEFINE h == [s \in SUBSET S |-> body(g, s)]
<1>6. \A s \in SUBSET S : g[s] = body(g, s)
  BY <1>5, FS_Subset, <1>0
<1>7. ASSUME NEW s \in SUBSET S
      PROVE  h[s] = body(h, s)
  <2>1. s # {} => s \ {pick[s]} \in SUBSET S
    OBVIOUS
  <2>2. s # {} => h[s \ {pick[s]}] = g[s \ {pick[s]}]
    BY <1>6, <2>1
  <2> QED
    BY <2>2
<1>8. Unwinds(h, f, pick, S)
  BY <1>7 DEF Unwinds
<1> QED
  BY <1>8

\* Whatever is taken off first, every element can be.
LEMMA UnwindingAdds ==
    ASSUME NEW S, IsFiniteSet(S), NEW f, \A x \in S : f[x] \in Int,
           NEW pick, Picks(pick, S), NEW g, Unwinds(g, f, pick, S)
    PROVE  Additive(g, f, S)
<1> DEFINE right(s) == g[s] \in Int /\ \A x \in s : g[s] = f[x] + g[s \ {x}]
           T == {n \in Nat : \A s \in SUBSET S : Cardinality(s) <= n => right(s)}
<1>0. \A s \in SUBSET S : Cardinality(s) \in Nat /\ (Cardinality(s) = 0 <=> s = {})
  BY FS_Subset, FS_CardinalityType, FS_EmptySet
<1>1. \A s \in SUBSET S : g[s] = IF s = {} THEN 0 ELSE f[pick[s]] + g[s \ {pick[s]}]
  BY DEF Unwinds
<1>2. 0 \in T
  <2>1. g[{}] = 0
    BY <1>1
  <2> QED
    BY <1>0, <2>1
<1>3. ASSUME NEW n \in Nat, n \in T
      PROVE  n + 1 \in T
  <2>1. ASSUME NEW s \in SUBSET S, Cardinality(s) <= n + 1
        PROVE  right(s)
    <3>1. CASE s = {}
      <4>1. g[s] = 0
        BY <1>1, <3>1
      <4> QED
        BY <3>1, <4>1
    <3>2. CASE s # {}
      <4>1. PICK x \in s : g[s] = f[x] + g[s \ {x}]
        BY <1>1, <3>2 DEF Picks
      <4>2. \A y \in s : s \ {y} \in SUBSET S /\ Cardinality(s \ {y}) <= n
        BY <1>0, <2>1, Smaller
      <4>3. \A y \in s : right(s \ {y})
        BY <1>3, <4>2
      <4>4. g[s] \in Int
        <5>1. g[s \ {x}] \in Int /\ f[x] \in Int
          BY <4>3
        <5> QED
          BY <4>1, <5>1
      <4>5. ASSUME NEW y \in s, y # x
            PROVE  g[s] = f[y] + g[s \ {y}]
        <5>1. (s \ {x}) \ {y} = (s \ {y}) \ {x} /\ y \in s \ {x} /\ x \in s \ {y}
          BY <4>1, <4>5
        <5>2. g[s \ {x}] = f[y] + g[(s \ {x}) \ {y}] /\ g[s \ {y}] = f[x] + g[(s \ {y}) \ {x}]
          BY <4>1, <4>3, <5>1
        <5>3. g[(s \ {x}) \ {y}] \in Int
          <6>1. (s \ {x}) \ {y} \in SUBSET S /\ Cardinality((s \ {x}) \ {y}) <= n
            BY <1>0, <4>1, <4>2, <5>1, Smaller
          <6> QED
            BY <1>3, <6>1
        <5>4. f[x] \in Int /\ f[y] \in Int
          BY <4>1
        <5>5. PICK rest \in Int : g[s \ {x}] = f[y] + rest /\ g[s \ {y}] = f[x] + rest
          BY <5>1, <5>2, <5>3
        <5> QED
          BY <4>1, <5>4, <5>5
      <4> QED
        BY <4>1, <4>4, <4>5
    <3> QED
      BY <3>1, <3>2
  <2> QED
    BY <2>1
<1>4. \A n \in Nat : n \in T
  <2> HIDE DEF T
  <2> QED
    BY <1>2, <1>3, NatInductionSet
<1>5. \A s \in SUBSET S : right(s)
  BY <1>0, <1>4
<1>6. g[{}] = 0 /\ g \in [SUBSET S -> Int]
  BY <1>1, <1>5 DEF Unwinds
<1> QED
  BY <1>5, <1>6 DEF Additive

\* Two additive functions agree wherever both are defined.
LEMMA AdditiveUnique ==
    ASSUME NEW S, IsFiniteSet(S), NEW A \in SUBSET S, NEW f, NEW e, \A x \in A : f[x] = e[x],
           NEW g, Additive(g, f, S), NEW h, Additive(h, e, A)
    PROVE  \A s \in SUBSET A : g[s] = h[s]
<1> DEFINE T == {n \in Nat : \A s \in SUBSET A : Cardinality(s) <= n => g[s] = h[s]}
<1>0. \A s \in SUBSET A : Cardinality(s) \in Nat /\ (Cardinality(s) = 0 <=> s = {})
  BY FS_Subset, FS_CardinalityType, FS_EmptySet
<1>1. 0 \in T
  <2>1. g[{}] = h[{}]
    BY DEF Additive
  <2> QED
    BY <1>0, <2>1
<1>2. ASSUME NEW n \in Nat, n \in T
      PROVE  n + 1 \in T
  <2>1. ASSUME NEW s \in SUBSET A, Cardinality(s) <= n + 1, s # {}
        PROVE  g[s] = h[s]
    <3>1. PICK x \in s : TRUE
      BY <2>1
    <3>2. s \ {x} \in SUBSET A /\ Cardinality(s \ {x}) <= n /\ s \in SUBSET S
      BY <1>0, <2>1, Smaller
    <3>3. g[s \ {x}] = h[s \ {x}]
      BY <1>2, <3>2
    <3> QED
      BY <3>1, <3>2, <3>3 DEF Additive
  <2> QED
    BY <1>1, <2>1, <1>0 DEF Additive
<1>3. \A n \in Nat : n \in T
  <2> HIDE DEF T
  <2> QED
    BY <1>1, <1>2, NatInductionSet
<1> QED
  BY <1>0, <1>3

\* SumFunctionOnSet of the community modules is such a sum.
LEMMA SumUnwinds ==
    ASSUME NEW S, IsFiniteSet(S), NEW f, \A x \in S : f[x] \in Int
    PROVE  \E g : Additive(g, f, S) /\ SumFunctionOnSet(f, S) = g[S]
<1> DEFINE pick == [s \in SUBSET S |-> CHOOSE x \in s : TRUE]
           body(g) == [s \in SUBSET S |-> IF s = {} THEN 0
                                          ELSE f[CHOOSE x \in s : TRUE] + g[s \ {CHOOSE x \in s : TRUE}]]
           sum == CHOOSE g : g = body(g)
<1>1. Picks(pick, S)
  BY DEF Picks
<1>2. ASSUME NEW g
      PROVE  body(g) = [s \in SUBSET S |-> IF s = {} THEN 0 ELSE f[pick[s]] + g[s \ {pick[s]}]]
  <2>1. \A s \in SUBSET S : pick[s] = CHOOSE x \in s : TRUE
    OBVIOUS
  <2> HIDE DEF pick
  <2> QED
    BY <2>1
<1>3. PICK h : Unwinds(h, f, pick, S)
  BY <1>1, UnwindingExists
<1>4. \E g : g = body(g)
  <2> HIDE DEF pick, body
  <2>1. h = body(h)
    BY <1>2, <1>3 DEF Unwinds
  <2> QED
    BY <2>1
<1>5. sum = body(sum)
  <2> HIDE DEF body
  <2> QED
    BY <1>4
<1>6. Unwinds(sum, f, pick, S)
  <2> HIDE DEF sum
  <2> QED
    BY <1>2, <1>5 DEF Unwinds
<1>7. SumFunctionOnSet(f, S) = sum[S]
  BY DEF SumFunctionOnSet, FoldFunctionOnSet, MapThenFoldSet
<1> HIDE DEF sum
<1>8. Additive(sum, f, S)
  BY <1>1, <1>6, UnwindingAdds
<1> QED
  BY <1>7, <1>8

\* A sum depends only on the values on its set.
LEMMA SumSame ==
    ASSUME NEW S, IsFiniteSet(S), NEW f, NEW g, \A x \in S : f[x] \in Int /\ g[x] = f[x]
    PROVE  SumFunctionOnSet(g, S) = SumFunctionOnSet(f, S)
<1>1. PICK F : Additive(F, f, S) /\ SumFunctionOnSet(f, S) = F[S]
  BY SumUnwinds
<1>2. PICK G : Additive(G, g, S) /\ SumFunctionOnSet(g, S) = G[S]
  BY SumUnwinds
<1> QED
  BY <1>1, <1>2, AdditiveUnique

\* What a sum is: nothing over the empty set, one element more over any other.
LEMMA SumSplits ==
    ASSUME NEW S, IsFiniteSet(S), NEW f, \A x \in S : f[x] \in Int
    PROVE  /\ SumFunctionOnSet(f, S) \in Int
           /\ S = {} => SumFunctionOnSet(f, S) = 0
           /\ \A x \in S : SumFunctionOnSet(f, S) = f[x] + SumFunctionOnSet(f, S \ {x})
<1>1. PICK F : Additive(F, f, S) /\ SumFunctionOnSet(f, S) = F[S]
  BY SumUnwinds
<1>2. ASSUME NEW x \in S
      PROVE  F[S \ {x}] = SumFunctionOnSet(f, S \ {x})
  <2>1. S \ {x} \in SUBSET S /\ IsFiniteSet(S \ {x})
    BY FS_RemoveElement
  <2>2. PICK G : Additive(G, f, S \ {x}) /\ SumFunctionOnSet(f, S \ {x}) = G[S \ {x}]
    BY <2>1, SumUnwinds
  <2> QED
    BY <1>1, <2>1, <2>2, AdditiveUnique
<1> QED
  BY <1>1, <1>2 DEF Additive

\* A sum is not negative when none of its terms is.
LEMMA SumNonNegative ==
    ASSUME NEW S, IsFiniteSet(S), NEW f, \A x \in S : f[x] \in Nat
    PROVE  SumFunctionOnSet(f, S) \in Nat
<1>1. PICK F : Additive(F, f, S) /\ SumFunctionOnSet(f, S) = F[S]
  <2>1. \A x \in S : f[x] \in Int
    OBVIOUS
  <2> QED
    BY <2>1, SumUnwinds
<1> DEFINE T == {n \in Nat : \A s \in SUBSET S : Cardinality(s) <= n => F[s] \in Nat}
<1>0. \A s \in SUBSET S : Cardinality(s) \in Nat /\ (Cardinality(s) = 0 <=> s = {})
  BY FS_Subset, FS_CardinalityType, FS_EmptySet
<1>2. 0 \in T
  <2>1. F[{}] \in Nat
    BY <1>1 DEF Additive
  <2> QED
    BY <1>0, <2>1
<1>3. ASSUME NEW n \in Nat, n \in T
      PROVE  n + 1 \in T
  <2>1. ASSUME NEW s \in SUBSET S, Cardinality(s) <= n + 1, s # {}
        PROVE  F[s] \in Nat
    <3>1. PICK x \in s : TRUE
      BY <2>1
    <3>2. s \ {x} \in SUBSET S /\ Cardinality(s \ {x}) <= n
      BY <1>0, <2>1, Smaller
    <3>3. F[s \ {x}] \in Nat
      BY <1>3, <3>2
    <3>4. F[s] = f[x] + F[s \ {x}]
      BY <1>1, <3>1 DEF Additive
    <3> QED
      BY <3>1, <3>3, <3>4
  <2>2. F[{}] \in Nat
    BY <1>1 DEF Additive
  <2>3. \A s \in SUBSET S : Cardinality(s) <= n + 1 => F[s] \in Nat
    BY <2>1, <2>2
  <2> QED
    BY <2>3
<1>4. \A n \in Nat : n \in T
  <2> HIDE DEF T
  <2> QED
    BY <1>2, <1>3, NatInductionSet
<1> QED
  BY <1>0, <1>1, <1>4

\* Sums add up, term by term.
LEMMA SumPlus ==
    ASSUME NEW S, IsFiniteSet(S), NEW f, NEW g, NEW h,
           \A x \in S : f[x] \in Int /\ g[x] \in Int /\ h[x] = f[x] + g[x]
    PROVE  SumFunctionOnSet(h, S) = SumFunctionOnSet(f, S) + SumFunctionOnSet(g, S)
<1>1. PICK F : Additive(F, f, S) /\ SumFunctionOnSet(f, S) = F[S]
  BY SumUnwinds
<1>2. PICK G : Additive(G, g, S) /\ SumFunctionOnSet(g, S) = G[S]
  BY SumUnwinds
<1>3. PICK H : Additive(H, h, S) /\ SumFunctionOnSet(h, S) = H[S]
  BY SumUnwinds
<1> DEFINE FG == [s \in SUBSET S |-> F[s] + G[s]]
<1>4. Additive(FG, h, S)
  <2>1. FG \in [SUBSET S -> Int] /\ FG[{}] = 0
    BY <1>1, <1>2 DEF Additive
  <2>2. ASSUME NEW s \in SUBSET S, NEW x \in s
        PROVE  FG[s] = h[x] + FG[s \ {x}]
    <3>1. F[s] = f[x] + F[s \ {x}] /\ G[s] = g[x] + G[s \ {x}]
      BY <1>1, <1>2 DEF Additive
    <3>2. F[s \ {x}] \in Int /\ G[s \ {x}] \in Int /\ s \ {x} \in SUBSET S
      BY <1>1, <1>2 DEF Additive
    <3>3. f[x] \in Int /\ g[x] \in Int /\ h[x] = f[x] + g[x]
      OBVIOUS
    <3>4. FG[s] = F[s] + G[s] /\ FG[s \ {x}] = F[s \ {x}] + G[s \ {x}]
      BY <3>2
    <3> HIDE DEF FG
    <3> QED
      BY <3>1, <3>2, <3>3, <3>4
  <2> QED
    BY <2>1, <2>2 DEF Additive
<1>5. H[S] = FG[S]
  <2> HIDE DEF FG
  <2> QED
    BY <1>3, <1>4, AdditiveUnique
<1> QED
  BY <1>1, <1>2, <1>3, <1>5

\* A common factor can be taken out.
LEMMA SumTimes ==
    ASSUME NEW S, IsFiniteSet(S), NEW f, NEW g, NEW c \in Int,
           \A x \in S : f[x] \in Int /\ g[x] = c * f[x]
    PROVE  SumFunctionOnSet(g, S) = c * SumFunctionOnSet(f, S)
<1>1. PICK F : Additive(F, f, S) /\ SumFunctionOnSet(f, S) = F[S]
  BY SumUnwinds
<1>2. PICK G : Additive(G, g, S) /\ SumFunctionOnSet(g, S) = G[S]
  <2>1. \A x \in S : g[x] \in Int
    OBVIOUS
  <2> QED
    BY <2>1, SumUnwinds
<1> DEFINE cF == [s \in SUBSET S |-> c * F[s]]
<1>4. Additive(cF, g, S)
  <2>1. cF \in [SUBSET S -> Int] /\ cF[{}] = 0
    BY <1>1 DEF Additive
  <2>2. ASSUME NEW s \in SUBSET S, NEW x \in s
        PROVE  cF[s] = g[x] + cF[s \ {x}]
    <3>1. F[s] = f[x] + F[s \ {x}]
      BY <1>1 DEF Additive
    <3>2. F[s \ {x}] \in Int /\ s \ {x} \in SUBSET S
      BY <1>1 DEF Additive
    <3>3. f[x] \in Int /\ g[x] = c * f[x]
      OBVIOUS
    <3>4. cF[s] = c * F[s] /\ cF[s \ {x}] = c * F[s \ {x}]
      BY <3>2
    <3>5. \A i, j \in Int : c * (i + j) = c * i + c * j
      OBVIOUS
    <3> HIDE DEF cF
    <3> QED
      BY <3>1, <3>2, <3>3, <3>4, <3>5
  <2> QED
    BY <2>1, <2>2 DEF Additive
<1>5. G[S] = cF[S]
  <2> HIDE DEF cF
  <2> QED
    BY <1>2, <1>4, AdditiveUnique
<1> QED
  BY <1>1, <1>2, <1>5

\* Larger terms make a larger sum.
LEMMA SumMonotone ==
    ASSUME NEW S, IsFiniteSet(S), NEW f, NEW g,
           \A x \in S : f[x] \in Int /\ g[x] \in Int /\ f[x] <= g[x]
    PROVE  SumFunctionOnSet(f, S) <= SumFunctionOnSet(g, S)
<1> DEFINE d == [x \in S |-> g[x] - f[x]]
<1>1. \A x \in S : d[x] \in Nat /\ g[x] = f[x] + d[x]
  OBVIOUS
<1> HIDE DEF d
<1>2. \A x \in S : d[x] \in Int
  BY <1>1
<1>3. SumFunctionOnSet(d, S) \in Nat
  BY <1>1, SumNonNegative
<1>4. SumFunctionOnSet(g, S) = SumFunctionOnSet(f, S) + SumFunctionOnSet(d, S)
  BY <1>1, <1>2, SumPlus
<1>5. SumFunctionOnSet(f, S) \in Int
  BY SumSplits
<1> QED
  BY <1>3, <1>4, <1>5

\* Terms that are zero do not count.
LEMMA SumWithin ==
    ASSUME NEW S, IsFiniteSet(S), NEW A \in SUBSET S, NEW f,
           \A x \in S : f[x] \in Int, \A x \in S \ A : f[x] = 0
    PROVE  SumFunctionOnSet(f, S) = SumFunctionOnSet(f, A)
<1>0. IsFiniteSet(A) /\ \A x \in A : f[x] \in Int
  BY FS_Subset
<1>1. PICK F : Additive(F, f, S) /\ SumFunctionOnSet(f, S) = F[S]
  BY SumUnwinds
<1>2. PICK G : Additive(G, f, A) /\ SumFunctionOnSet(f, A) = G[A]
  BY <1>0, SumUnwinds
<1> DEFINE H == [s \in SUBSET S |-> G[s \cap A]]
<1>3. Additive(H, f, S)
  <2>1. H \in [SUBSET S -> Int]
    BY <1>2 DEF Additive
  <2>2. H[{}] = 0
    <3>1. H[{}] = G[{} \cap A] /\ {} \cap A = {}
      OBVIOUS
    <3> QED
      BY <1>2, <3>1 DEF Additive
  <2>3. ASSUME NEW s \in SUBSET S, NEW x \in s
        PROVE  H[s] = f[x] + H[s \ {x}]
    <3>1. H[s] = G[s \cap A] /\ H[s \ {x}] = G[(s \ {x}) \cap A]
      OBVIOUS
    <3> HIDE DEF H
    <3>2. CASE x \in A
      <4>1. s \cap A \in SUBSET A /\ x \in s \cap A /\ (s \cap A) \ {x} = (s \ {x}) \cap A
        BY <3>2
      <4>2. G[s \cap A] = f[x] + G[(s \cap A) \ {x}]
        BY <1>2, <4>1 DEF Additive
      <4> QED
        BY <3>1, <4>1, <4>2
    <3>3. CASE x \notin A
      <4>1. (s \ {x}) \cap A = s \cap A /\ f[x] = 0
        BY <3>3
      <4>2. H[s] \in Int
        BY <2>1
      <4>3. H[s \ {x}] = H[s] /\ f[x] = 0
        BY <3>1, <4>1
      <4> QED
        BY <4>2, <4>3
    <3> QED
      BY <3>2, <3>3
  <2> HIDE DEF H
  <2> QED
    BY <2>1, <2>2, <2>3 DEF Additive
<1>4. F[S] = H[S]
  <2> HIDE DEF H
  <2> QED
    BY <1>1, <1>3, AdditiveUnique
<1>5. H[S] = G[A]
  <2>1. S \cap A = A /\ S \in SUBSET S
    OBVIOUS
  <2> QED
    BY <2>1
<1> QED
  BY <1>1, <1>2, <1>4, <1>5

\* A sum of equal terms.
LEMMA SumConstant ==
    ASSUME NEW S, IsFiniteSet(S), NEW c \in Int, NEW f, \A x \in S : f[x] = c
    PROVE  SumFunctionOnSet(f, S) = c * Cardinality(S)
<1>1. PICK F : Additive(F, f, S) /\ SumFunctionOnSet(f, S) = F[S]
  BY SumUnwinds
<1>2. \A s \in SUBSET S : IsFiniteSet(s) /\ Cardinality(s) \in Nat
  BY FS_Subset, FS_CardinalityType
<1> DEFINE H == [s \in SUBSET S |-> c * Cardinality(s)]
<1>3. Additive(H, f, S)
  <2>1. H \in [SUBSET S -> Int]
    BY <1>2
  <2>2. H[{}] = 0
    <3>1. H[{}] = c * Cardinality({}) /\ Cardinality({}) = 0
      BY FS_EmptySet
    <3> QED
      BY <3>1
  <2>3. ASSUME NEW s \in SUBSET S, NEW x \in s
        PROVE  H[s] = f[x] + H[s \ {x}]
    <3>1. Cardinality(s \ {x}) = Cardinality(s) - 1
      BY <1>2, FS_RemoveElement
    <3>2. \A n \in Nat : c * n = c + c * (n - 1)
      OBVIOUS
    <3>3. H[s] = c * Cardinality(s) /\ H[s \ {x}] = c * Cardinality(s \ {x}) /\ f[x] = c
      OBVIOUS
    <3> HIDE DEF H
    <3> QED
      BY <1>2, <3>1, <3>2, <3>3
  <2> HIDE DEF H
  <2> QED
    BY <2>1, <2>2, <2>3 DEF Additive
<1>4. F[S] = H[S]
  <2> HIDE DEF H
  <2> QED
    BY <1>1, <1>3, AdditiveUnique
<1> QED
  BY <1>1, <1>4

\* A sum over a set is the sum over a part and over the rest.
LEMMA SumParts ==
    ASSUME NEW S, IsFiniteSet(S), NEW A \in SUBSET S, NEW f, \A x \in S : f[x] \in Int
    PROVE  SumFunctionOnSet(f, S) = SumFunctionOnSet(f, A) + SumFunctionOnSet(f, S \ A)
<1> DEFINE in == [x \in S |-> IF x \in A THEN f[x] ELSE 0]
           out == [x \in S |-> IF x \in A THEN 0 ELSE f[x]]
<1>1. \A x \in S : in[x] \in Int /\ out[x] \in Int /\ f[x] = in[x] + out[x]
  OBVIOUS
<1>2. \A x \in S \ A : in[x] = 0
  OBVIOUS
<1>3. \A x \in A : in[x] = f[x] /\ f[x] \in Int
  OBVIOUS
<1>4. \A x \in A : out[x] = 0
  OBVIOUS
<1>5. \A x \in S \ A : out[x] = f[x] /\ f[x] \in Int
  OBVIOUS
<1>6. S \ A \in SUBSET S /\ S \ (S \ A) = A /\ IsFiniteSet(A) /\ IsFiniteSet(S \ A)
  BY FS_Subset
<1> HIDE DEF in, out
<1>7. SumFunctionOnSet(f, S) = SumFunctionOnSet(in, S) + SumFunctionOnSet(out, S)
  BY <1>1, SumPlus
<1>8. SumFunctionOnSet(in, S) = SumFunctionOnSet(in, A)
  BY <1>1, <1>2, SumWithin
<1>9. SumFunctionOnSet(in, A) = SumFunctionOnSet(f, A)
  BY <1>3, <1>6, SumSame
<1>10. SumFunctionOnSet(out, S) = SumFunctionOnSet(out, S \ A)
  BY <1>1, <1>4, <1>6, SumWithin
<1>11. SumFunctionOnSet(out, S \ A) = SumFunctionOnSet(f, S \ A)
  BY <1>5, <1>6, SumSame
<1> QED
  BY <1>7, <1>8, <1>9, <1>10, <1>11

\* A finite set of natural numbers that is not empty has a greatest element.
LEMMA FiniteHasGreatest ==
    ASSUME NEW T, IsFiniteSet(T), T \subseteq Nat, T # {}
    PROVE  \E x \in T : \A y \in T : y <= x
<1> DEFINE Bounded(n) == \A s \in SUBSET T :
                             Cardinality(s) = n /\ s # {} => \E x \in s : \A y \in s : y <= x
           B == {n \in Nat : Bounded(n)}
<1>0. \A s \in SUBSET T : /\ IsFiniteSet(s) /\ Cardinality(s) \in Nat
                          /\ Cardinality(s) = 0 <=> s = {}
  BY FS_Subset, FS_CardinalityType, FS_EmptySet
<1>1. 0 \in B
  BY <1>0
<1>2. ASSUME NEW n \in Nat, n \in B
      PROVE  n + 1 \in B
  <2> SUFFICES ASSUME NEW s \in SUBSET T, Cardinality(s) = n + 1, s # {}
               PROVE  \E x \in s : \A y \in s : y <= x
    OBVIOUS
  <2>1. PICK z \in s : TRUE
    OBVIOUS
  <2>2. s \ {z} \in SUBSET T /\ Cardinality(s \ {z}) = n
    <3>1. Cardinality(s \ {z}) = Cardinality(s) - 1
      BY <1>0, FS_RemoveElement
    <3> QED
      BY <3>1
  <2>3. CASE s \ {z} = {}
    BY <2>1, <2>3
  <2>4. CASE s \ {z} # {}
    <3>1. PICK x \in s \ {z} : \A y \in s \ {z} : y <= x
      BY <1>2, <2>2, <2>4
    <3>2. x \in Nat /\ z \in Nat /\ \A y \in s : y \in Nat
      OBVIOUS
    <3>3. CASE z <= x
      BY <3>1, <3>3
    <3>4. CASE ~(z <= x)
      BY <3>1, <3>2, <3>4
    <3> QED
      BY <3>3, <3>4
  <2> QED
    BY <2>3, <2>4
<1>3. \A n \in Nat : n \in B
  <2> HIDE DEF B
  <2> QED
    BY <1>1, <1>2, NatInductionSet
<1>4. Cardinality(T) \in B
  BY <1>0, <1>3
<1> QED
  BY <1>4

\* A sum of natural numbers is zero exactly when each of them is.
LEMMA SumZero ==
    ASSUME NEW S, IsFiniteSet(S), NEW f, \A x \in S : f[x] \in Nat
    PROVE  SumFunctionOnSet(f, S) = 0 <=> \A x \in S : f[x] = 0
<1>1. ASSUME NEW x \in S, SumFunctionOnSet(f, S) = 0
      PROVE  f[x] = 0
  <2>1. SumFunctionOnSet(f, S) = f[x] + SumFunctionOnSet(f, S \ {x})
    BY SumSplits
  <2>2. SumFunctionOnSet(f, S \ {x}) \in Nat
    <3>1. IsFiniteSet(S \ {x}) /\ \A y \in S \ {x} : f[y] \in Nat
      BY FS_RemoveElement
    <3> QED
      BY <3>1, SumNonNegative
  <2> QED
    BY <1>1, <2>1, <2>2
<1>2. ASSUME \A x \in S : f[x] = 0
      PROVE  SumFunctionOnSet(f, S) = 0
  <2>1. 0 \in Int /\ Cardinality(S) \in Nat
    BY FS_CardinalityType
  <2>2. SumFunctionOnSet(f, S) = 0 * Cardinality(S)
    BY <1>2, <2>1, SumConstant
  <2> QED
    BY <2>1, <2>2
<1> QED
  BY <1>1, <1>2

\* f makes each value from the one before it, by the step of its place.
Recurs(f, p, n, seed, step) ==
    /\ f \in [p .. n -> Int] /\ f[p] = seed
    /\ \A i \in p .. n : i > p => f[i] = step[i][f[i - 1]]

\* The step of each place makes integers of integers.
StepsOf(step, p, n) == \A i \in p .. n, x \in Int : step[i][x] \in Int

\* A recursion over an interval has a solution.
LEMMA RecursionExists ==
    ASSUME NEW p \in Int, NEW n \in Int, p <= n, NEW seed \in Int, NEW step,
           StepsOf(step, p, n)
    PROVE  \E f : Recurs(f, p, n, seed, step)
<1> DEFINE Solves(f, m) == /\ f \in [p .. m -> Int] /\ f[p] = seed
                           /\ \A i \in (p + 1) .. m : f[i] = step[i][f[i - 1]]
           T == {d \in Nat : p + d <= n => \E f : Solves(f, p + d)}
<1>1. 0 \in T
  <2>1. Solves([i \in p .. p |-> seed], p + 0)
    OBVIOUS
  <2> QED
    BY <2>1
<1>2. ASSUME NEW d \in Nat, d \in T
      PROVE  d + 1 \in T
  <2> HIDE DEF Solves
  <2> SUFFICES ASSUME p + (d + 1) <= n
               PROVE  \E f : Solves(f, p + (d + 1))
    OBVIOUS
  <2>1. PICK m \in (p + 1) .. n : m = p + (d + 1) /\ m - 1 = p + d
    OBVIOUS
  <2>2. PICK f : Solves(f, m - 1)
    BY <1>2, <2>1
  <2>3. f[m - 1] \in Int
    BY <2>1, <2>2 DEF Solves
  <2>4. PICK y \in Int : y = step[m][f[m - 1]]
    <3>1. m \in p .. n
      BY <2>1
    <3> QED
      BY <2>3, <3>1 DEF StepsOf
  <2> DEFINE g == [i \in p .. m |-> IF i = m THEN y ELSE f[i]]
  <2>5. g \in [p .. m -> Int] /\ g[p] = seed /\ g[m] = y
    BY <2>1, <2>2 DEF Solves
  <2>6. \A i \in p .. (m - 1) : g[i] = f[i]
    BY <2>1
  <2> HIDE DEF g
  <2>7. ASSUME NEW i \in (p + 1) .. m
        PROVE  g[i] = step[i][g[i - 1]]
    <3>1. CASE i = m
      <4>1. m - 1 \in p .. (m - 1)
        BY <2>1
      <4> QED
        BY <2>4, <2>5, <2>6, <3>1, <4>1
    <3>2. CASE i # m
      <4>1. i \in (p + 1) .. (m - 1) /\ i \in p .. (m - 1) /\ i - 1 \in p .. (m - 1)
        BY <3>2
      <4> QED
        BY <2>2, <2>6, <4>1 DEF Solves
    <3> QED
      BY <3>1, <3>2
  <2>8. Solves(g, m)
    BY <2>5, <2>7 DEF Solves
  <2> QED
    BY <2>1, <2>8
<1>3. \A d \in Nat : d \in T
  <2> HIDE DEF T
  <2> QED
    BY <1>1, <1>2, NatInductionSet
<1>4. PICK d \in Nat : d = n - p /\ p + d = n
  OBVIOUS
<1>5. \E f : Solves(f, n)
  <2> HIDE DEF Solves
  <2>1. d \in T
    BY <1>3
  <2>2. \E f : Solves(f, p + d)
    BY <1>4, <2>1
  <2> QED
    BY <1>4, <2>2
<1>6. PICK f : Solves(f, n)
  BY <1>5
<1>7. \A i \in p .. n : i > p => i \in (p + 1) .. n
  OBVIOUS
<1> QED
  BY <1>6, <1>7 DEF Recurs
=============================================================================
