-------------------------- MODULE AnalyticsProofs --------------------------
(***************************************************************************)
(* Theorems of Scoring, the two lenses and the dashboard page for every    *)
(* value of their constants, and of the composition of the components of   *)
(* MCAnalytics.                                                            *)
(***************************************************************************)
EXTENDS MCAnalytics, BacktestProofs

-----------------------------------------------------------------------------
(* Rounding                                                                *)

\* A positive factor can be cancelled.
LEMMA CancelFactor ==
    ASSUME NEW d \in Nat \ {0}, NEW a \in Int, NEW b \in Int
    PROVE  /\ d * a < d * b => a < b
           /\ a <= b => d * a <= d * b
           /\ d * (a + 1) = d * a + d
<1>1. d * (a + 1) = d * a + d
  OBVIOUS
<1>2. \A x, y \in Int : x <= y => d * x <= d * y
  <2> SUFFICES ASSUME NEW x \in Int, NEW y \in Int, x <= y
               PROVE  d * x <= d * y
    OBVIOUS
  <2>1. PICK k \in Nat : y = x + k
    <3>1. y - x \in Nat /\ y = x + (y - x)
      OBVIOUS
    <3> QED
      BY <3>1
  <2>2. d * y = d * x + d * k /\ d * k \in Nat /\ d * x \in Int
    BY <2>1
  <2> QED
    BY <2>2
<1>3. d * a \in Int /\ d * b \in Int
  OBVIOUS
<1>4. ASSUME d * a < d * b
      PROVE  a < b
  <2> SUFFICES ASSUME b <= a
               PROVE  FALSE
    OBVIOUS
  <2>1. d * b <= d * a
    BY <1>2
  <2> QED
    BY <1>3, <1>4, <2>1
<1> QED
  BY <1>1, <1>2, <1>4

\* A positive factor keeps a strict order.
LEMMA TimesStrict ==
    ASSUME NEW d \in Nat \ {0}, NEW a \in Int, NEW b \in Int, a < b
    PROVE  d * a < d * b
<1>1. PICK k \in Nat \ {0} : b = a + k
  <2>1. b - a \in Nat \ {0} /\ b = a + (b - a)
    OBVIOUS
  <2> QED
    BY <2>1
<1>2. d * b = d * a + d * k /\ d * k \in Nat \ {0} /\ d * a \in Int
  BY <1>1
<1> QED
  BY <1>2

\* Rounding moves by at most one half, and by less where it could not round
\* halves away from zero.
LEMMA HalfAway ==
    ASSUME NEW n \in Int, NEW d \in Nat \ {0}
    PROVE  \E r, p \in Int :
               /\ r = RoundHalfUp(n, d) /\ p = d * r
               /\ 2 * n - d <= 2 * p /\ 2 * p <= 2 * n + d
               /\ n >= 0 => 2 * n - d < 2 * p
               /\ n < 0 => 2 * p < 2 * n + d
<1>1. ASSUME NEW x \in Int
      PROVE  \E q, p \in Int : /\ q = x \div (2 * d) /\ p = d * q
                               /\ 2 * p <= x /\ x < 2 * p + 2 * d
  <2>1. PICK D \in Nat \ {0} : D = 2 * d
    OBVIOUS
  <2>2. PICK q \in Int : q = x \div D
    BY <2>1
  <2>3. D * q <= x /\ x < D * q + D
    BY <2>1, <2>2
  <2>4. PICK p \in Int : p = d * q
    BY <2>2
  <2>5. D * q = 2 * p
    BY <2>1, <2>4
  <2>6. 2 * p <= x /\ x < 2 * p + 2 * d
    BY <2>1, <2>3, <2>5
  <2> QED
    BY <2>1, <2>2, <2>4, <2>6
<1>2. CASE n >= 0
  <2>1. PICK x \in Int : x = 2 * n + d
    OBVIOUS
  <2>2. PICK q, p \in Int : /\ q = x \div (2 * d) /\ p = d * q
                            /\ 2 * p <= x /\ x < 2 * p + 2 * d
    BY <1>1
  <2>3. RoundHalfUp(n, d) = q
    BY <1>2, <2>1, <2>2 DEF RoundHalfUp
  <2> QED
    BY <1>2, <2>1, <2>2, <2>3
<1>3. CASE n < 0
  <2>1. PICK x \in Int : x = d - 2 * n
    OBVIOUS
  <2>2. PICK q, p \in Int : /\ q = x \div (2 * d) /\ p = d * q
                            /\ 2 * p <= x /\ x < 2 * p + 2 * d
    BY <1>1
  <2>3. RoundHalfUp(n, d) = -q
    BY <1>3, <2>1, <2>2 DEF RoundHalfUp
  <2>4. -p = d * (-q) /\ -p \in Int /\ -q \in Int
    BY <2>2
  <2>5. /\ 2 * n - d <= 2 * (-p) /\ 2 * (-p) < 2 * n + d
    BY <2>1, <2>2
  <2> QED
    BY <1>3, <2>3, <2>4, <2>5
<1> QED
  BY <1>2, <1>3

\* A rounded quotient stays within whole bounds of the quotient.
LEMMA RoundWithin ==
    ASSUME NEW n \in Int, NEW d \in Nat \ {0}, NEW low \in Int, NEW high \in Int
    PROVE  /\ RoundHalfUp(n, d) \in Int
           /\ d * low <= n => low <= RoundHalfUp(n, d)
           /\ n <= d * high => RoundHalfUp(n, d) <= high
<1>1. PICK r, p \in Int : /\ r = RoundHalfUp(n, d) /\ p = d * r
                          /\ 2 * n - d <= 2 * p /\ 2 * p <= 2 * n + d
  BY HalfAway
<1>2. ASSUME d * low <= n
      PROVE  low <= r
  <2>1. PICK b \in Int : b = d * low
    OBVIOUS
  <2>2. d * (r + 1) = p + d
    BY <1>1, CancelFactor
  <2>3. b < p + d
    BY <1>1, <1>2, <2>1
  <2>4. low < r + 1
    BY <2>1, <2>2, <2>3, CancelFactor
  <2> QED
    BY <2>4
<1>3. ASSUME n <= d * high
      PROVE  r <= high
  <2>1. PICK b \in Int : b = d * high
    OBVIOUS
  <2>2. d * (high + 1) = b + d
    BY <2>1, CancelFactor
  <2>3. p < b + d
    BY <1>1, <1>3, <2>1
  <2>4. r < high + 1
    BY <1>1, <2>2, <2>3, CancelFactor
  <2> QED
    BY <2>4
<1> QED
  BY <1>1, <1>2, <1>3

\* Rounding keeps the order.
LEMMA RoundMonotone ==
    ASSUME NEW n \in Int, NEW m \in Int, n <= m, NEW d \in Nat \ {0}
    PROVE  RoundHalfUp(n, d) <= RoundHalfUp(m, d)
<1>1. PICK r, p \in Int : /\ r = RoundHalfUp(n, d) /\ p = d * r
                          /\ 2 * p <= 2 * n + d
                          /\ n < 0 => 2 * p < 2 * n + d
  BY HalfAway
<1>2. PICK s, q \in Int : /\ s = RoundHalfUp(m, d) /\ q = d * s
                          /\ 2 * m - d <= 2 * q
                          /\ m >= 0 => 2 * m - d < 2 * q
  BY HalfAway
<1>3. p < q + d
  BY <1>1, <1>2
<1>4. d * (s + 1) = q + d
  BY <1>2, CancelFactor
<1>5. r < s + 1
  BY <1>1, <1>3, <1>4, CancelFactor
<1> QED
  BY <1>1, <1>2, <1>5
-----------------------------------------------------------------------------
(* Scoring: sums over lenses                                               *)

\* There are finitely many lenses.
LEMMA LensesFinite ==
    /\ IsFiniteSet(Modules) /\ Cardinality(Modules) = 4
    /\ \A A \in SUBSET Modules : IsFiniteSet(A) /\ Cardinality(A) \in Nat
<1>1. /\ IsFiniteSet({"technical"}) /\ Cardinality({"technical"}) = 1
  BY FS_Singleton
<1>2. /\ IsFiniteSet({"technical", "fundamental"})
      /\ Cardinality({"technical", "fundamental"}) = 2
  <2>1. {"technical", "fundamental"} = {"technical"} \union {"fundamental"}
    OBVIOUS
  <2> QED
    BY <1>1, <2>1, FS_AddElement
<1>3. /\ IsFiniteSet({"technical", "fundamental", "chip"})
      /\ Cardinality({"technical", "fundamental", "chip"}) = 3
  <2>1. {"technical", "fundamental", "chip"} = {"technical", "fundamental"} \union {"chip"}
    OBVIOUS
  <2> QED
    BY <1>2, <2>1, FS_AddElement
<1>4. /\ IsFiniteSet(Modules) /\ Cardinality(Modules) = 4
  <2>1. Modules = {"technical", "fundamental", "chip"} \union {"news"}
    BY DEF Modules
  <2> QED
    BY <1>3, <2>1, FS_AddElement
<1> QED
  BY <1>4, FS_Subset, FS_CardinalityType

\* A sum over all lenses, term by term.
LEMMA SumOfLenses ==
    ASSUME NEW f, \A m \in Modules : f[m] \in Int
    PROVE  SumFunctionOnSet(f, Modules) =
               f["technical"] + f["fundamental"] + f["chip"] + f["news"]
<1>1. \A A \in SUBSET Modules : \A m \in A :
          /\ SumFunctionOnSet(f, A) = f[m] + SumFunctionOnSet(f, A \ {m})
          /\ SumFunctionOnSet(f, A) \in Int
  BY LensesFinite, SumSplits
<1>2. SumFunctionOnSet(f, {}) = 0
  BY FS_EmptySet, SumSplits
<1>3. SumFunctionOnSet(f, Modules) =
          f["technical"] + SumFunctionOnSet(f, {"fundamental", "chip", "news"})
  <2>1. Modules \ {"technical"} = {"fundamental", "chip", "news"} /\ "technical" \in Modules
    BY DEF Modules
  <2> QED
    BY <1>1, <2>1
<1>4. SumFunctionOnSet(f, {"fundamental", "chip", "news"}) =
          f["fundamental"] + SumFunctionOnSet(f, {"chip", "news"})
  <2>1. /\ {"fundamental", "chip", "news"} \ {"fundamental"} = {"chip", "news"}
        /\ {"fundamental", "chip", "news"} \in SUBSET Modules
    BY DEF Modules
  <2> QED
    BY <1>1, <2>1
<1>5. SumFunctionOnSet(f, {"chip", "news"}) = f["chip"] + SumFunctionOnSet(f, {"news"})
  <2>1. {"chip", "news"} \ {"chip"} = {"news"} /\ {"chip", "news"} \in SUBSET Modules
    BY DEF Modules
  <2> QED
    BY <1>1, <2>1
<1>6. SumFunctionOnSet(f, {"news"}) = f["news"] + 0
  <2>1. {"news"} \ {"news"} = {} /\ {"news"} \in SUBSET Modules
    BY DEF Modules
  <2> QED
    BY <1>1, <1>2, <2>1
<1>7. \A m \in {"technical", "fundamental", "chip", "news"} : f[m] \in Int
  BY DEF Modules
<1> QED
  BY <1>3, <1>4, <1>5, <1>6, <1>7

\* With three lenses or four, at most one is down.
LEMMA OneLensDown ==
    ASSUME NEW A \in SUBSET Modules, Cardinality(A) >= 3
    PROVE  /\ A # {}
           /\ \A m, n \in Modules \ A : m = n
           /\ Cardinality(A) # 3 => A = Modules
<1>1. A # {}
  BY FS_EmptySet
<1>2. ASSUME NEW m \in Modules \ A, NEW n \in Modules \ A, m # n
      PROVE  FALSE
  <2>1. Cardinality(Modules \ {m}) = 3 /\ IsFiniteSet(Modules \ {m})
    BY LensesFinite, FS_RemoveElement
  <2>2. Cardinality((Modules \ {m}) \ {n}) = 2 /\ IsFiniteSet((Modules \ {m}) \ {n})
    BY <1>2, <2>1, FS_RemoveElement
  <2>3. A \subseteq (Modules \ {m}) \ {n}
    OBVIOUS
  <2>4. Cardinality(A) <= 2
    BY <2>2, <2>3, FS_Subset
  <2> QED
    BY <2>4, LensesFinite
<1>3. ASSUME NEW m \in Modules \ A
      PROVE  Cardinality(A) = 3
  <2>1. A \subseteq Modules \ {m}
    OBVIOUS
  <2>2. Cardinality(Modules \ {m}) = 3 /\ IsFiniteSet(Modules \ {m})
    BY LensesFinite, FS_RemoveElement
  <2>3. Cardinality(A) <= 3
    BY <2>1, <2>2, FS_Subset
  <2> QED
    BY <2>3, LensesFinite
<1> QED
  BY <1>1, <1>2, <1>3

\* The weight of the lenses that are there: none of them has any, or the sum
\* is positive.
LEMMA DenominatorParts ==
    ASSUME NEW w \in Weights, NEW A \in SUBSET Modules
    PROVE  /\ Denominator(w, A) \in Nat
           /\ Denominator(w, A) = 0 => \A m \in A : w[m] = 0
<1>1. IsFiniteSet(A) /\ \A m \in A : w[m] \in Nat
  BY LensesFinite DEF Weights
<1>2. SumFunctionOnSet(w, A) \in Nat
  BY <1>1, SumNonNegative
<1>3. ASSUME NEW m \in A, SumFunctionOnSet(w, A) = 0
      PROVE  w[m] = 0
  <2>1. IsFiniteSet(A \ {m}) /\ \A n \in A \ {m} : w[n] \in Nat
    BY <1>1, FS_RemoveElement
  <2>2. SumFunctionOnSet(w, A \ {m}) \in Nat
    BY <2>1, SumNonNegative
  <2>3. \A n \in A : w[n] \in Int
    BY <1>1
  <2>4. SumFunctionOnSet(w, A) = w[m] + SumFunctionOnSet(w, A \ {m})
    BY <1>1, <2>3, SumSplits
  <2> QED
    BY <1>1, <1>3, <2>2, <2>4
<1> QED
  BY <1>2, <1>3 DEF Denominator

\* A weighted sum lies between the weights times the lowest and the highest.
LEMMA WeightedBounds ==
    ASSUME NEW w \in Weights, NEW A \in SUBSET Modules, NEW s,
           NEW low \in Int, NEW high \in Int,
           \A m \in A : s[m] \in Int /\ low <= s[m] /\ s[m] <= high
    PROVE  LET total == SumFunctionOnSet([m \in A |-> w[m] * s[m]], A)
           IN /\ total \in Int
              /\ Denominator(w, A) * low <= total
              /\ total <= Denominator(w, A) * high
<1> DEFINE term == [m \in A |-> w[m] * s[m]]
           least == [m \in A |-> low * w[m]]
           most == [m \in A |-> high * w[m]]
<1>1. IsFiniteSet(A) /\ \A m \in A : w[m] \in Nat
  BY LensesFinite DEF Weights
<1>2. \A m \in A : /\ term[m] \in Int /\ least[m] \in Int /\ most[m] \in Int
                   /\ w[m] \in Int /\ least[m] = low * w[m] /\ most[m] = high * w[m]
                   /\ least[m] <= term[m] /\ term[m] <= most[m]
  <2> SUFFICES ASSUME NEW m \in A
               PROVE  /\ w[m] * s[m] \in Int /\ low * w[m] \in Int /\ high * w[m] \in Int
                      /\ w[m] \in Int
                      /\ low * w[m] <= w[m] * s[m] /\ w[m] * s[m] <= high * w[m]
    OBVIOUS
  <2>1. PICK v \in Nat : v = w[m]
    BY <1>1
  <2>2. PICK x \in Int : x = s[m]
    OBVIOUS
  <2>3. PICK i, j \in Nat : x = low + i /\ high = x + j
    <3>1. x - low \in Nat /\ high - x \in Nat
      BY <2>2
    <3>2. x = low + (x - low) /\ high = x + (high - x)
      BY <2>2
    <3> QED
      BY <3>1, <3>2
  <2>4. v * x = low * v + v * i /\ high * v = v * x + v * j
    BY <2>3
  <2>5. v * i \in Nat /\ v * j \in Nat /\ v * x \in Int /\ low * v \in Int /\ high * v \in Int
    BY <2>3
  <2> QED
    BY <2>1, <2>2, <2>4, <2>5
<1> HIDE DEF term, least, most
<1>3. SumFunctionOnSet(term, A) \in Int
  BY <1>1, <1>2, SumSplits
<1>4. SumFunctionOnSet(least, A) <= SumFunctionOnSet(term, A)
  BY <1>1, <1>2, SumMonotone
<1>5. SumFunctionOnSet(term, A) <= SumFunctionOnSet(most, A)
  BY <1>1, <1>2, SumMonotone
<1>6. SumFunctionOnSet(least, A) = low * SumFunctionOnSet(w, A)
  BY <1>1, <1>2, SumTimes
<1>7. SumFunctionOnSet(most, A) = high * SumFunctionOnSet(w, A)
  BY <1>1, <1>2, SumTimes
<1>8. PICK D \in Nat : D = SumFunctionOnSet(w, A)
  BY DenominatorParts DEF Denominator
<1>9. low * D = D * low /\ high * D = D * high
  OBVIOUS
<1> QED
  BY <1>3, <1>4, <1>5, <1>6, <1>7, <1>8, <1>9 DEF Denominator, term
-----------------------------------------------------------------------------
(* Scoring: the invariant                                                  *)

\* A run that has loaded its weights has weights that add up; a scored row is
\* what the run's inputs give, and none of them changes any more.
ScoringInv ==
    /\ available \subseteq Modules
    /\ signal \in [Modules -> -200 .. 200]
    /\ \A m \in available : signal[m] \in SignalValues
    /\ \A m \in Modules : signal[m] \in SignalValues \union {0}
    /\ facts \in PriceFacts
    /\ stored \in Weights
    /\ weights \in Weights
    /\ outcome \in {"idle", "loaded", "written", "skipped", "raised"}
    /\ outcome # "idle" => WeightSumOK(weights)
    /\ outcome = "raised" =>
          Cardinality(available) >= 3 /\ Denominator(weights, available) = 0
    /\ \/ row = NoRow
       \/ outcome = "written" /\ row = SuppressedRow(available)
       \/ /\ outcome = "written"
          /\ Cardinality(available) >= 3 /\ Denominator(weights, available) > 0
          /\ row = ScoredRow(signal, weights, available, facts)

\* The default weights add up.
LEMMA DefaultsAddUp == DefaultWeights \in Weights /\ WeightSumOK(DefaultWeights)
<1>1. /\ DefaultWeights["technical"] = 300 /\ DefaultWeights["fundamental"] = 300
      /\ DefaultWeights["chip"] = 250 /\ DefaultWeights["news"] = 150
  BY DEF DefaultWeights, Modules
<1>2. \A m \in Modules : DefaultWeights[m] \in 0 .. 1000
  BY <1>1 DEF Modules
<1>3. DefaultWeights \in Weights
  BY <1>2 DEF Weights, DefaultWeights
<1>4. SumFunctionOnSet(DefaultWeights, Modules) = 1000
  <2>1. \A m \in Modules : DefaultWeights[m] \in Int
    BY <1>2
  <2> QED
    BY <1>1, <2>1, SumOfLenses
<1> QED
  BY <1>3, <1>4 DEF WeightSumOK

\* The engine's invariant holds initially.
LEMMA ScoringInvInit == ASSUME ScoringConstantsOK PROVE ScoringInit => ScoringInv
<1> SUFFICES ASSUME ScoringInit
             PROVE  ScoringInv
  OBVIOUS
<1>1. signal \in [Modules -> SignalValues \union {0}] /\ \A m \in available : signal[m] \in SignalValues
  BY DEF ScoringInit
<1>2. SignalValues \union {0} \subseteq -200 .. 200
  BY DEF ScoringConstantsOK
<1>3. signal \in [Modules -> -200 .. 200]
  BY <1>1, <1>2
<1>4. stored \in Weights
  BY DEF ScoringInit, ScoringConstantsOK
<1> QED
  BY <1>1, <1>3, <1>4, DefaultsAddUp DEF ScoringInit, ScoringInv

\* Every step of the engine preserves it.
LEMMA ScoringStep ==
    ASSUME ScoringConstantsOK, ScoringInv, [ScoringNext]_scoringVars
    PROVE  ScoringInv'
<1>1. ASSUME NEW w \in WeightChoices, PutWeights(w)
      PROVE  ScoringInv'
  <2>1. stored' \in Weights
    BY <1>1 DEF PutWeights, ScoringConstantsOK
  <2> QED
    BY <1>1, <2>1 DEF PutWeights, ScoringInv, WeightSumOK, Denominator
<1>2. CASE LoadWeights
  <2>1. weights' \in Weights /\ WeightSumOK(weights') /\ outcome' = "loaded"
    BY <1>2, DefaultsAddUp DEF LoadWeights, ScoringInv
  <2>2. row' = NoRow /\ UNCHANGED <<available, signal, facts, stored>>
    BY <1>2 DEF LoadWeights, ScoringInv
  <2> QED
    BY <2>1, <2>2 DEF ScoringInv, WeightSumOK, NoRow
<1>3. CASE Skip
  BY <1>3 DEF Skip, ScoringInv, WeightSumOK
<1>4. CASE Suppress
  BY <1>4 DEF Suppress, ScoringInv, WeightSumOK
<1>5. CASE Raise
  BY <1>5 DEF Raise, ScoringInv, WeightSumOK, Denominator
<1>6. CASE Score
  BY <1>6 DEF Score, ScoringInv, WeightSumOK, Denominator
<1>7. CASE UNCHANGED scoringVars
  BY <1>7 DEF scoringVars, ScoringInv, WeightSumOK, Denominator
<1> QED
  BY <1>1, <1>2, <1>3, <1>4, <1>5, <1>6, <1>7 DEF ScoringNext

\* So it holds in every behaviour of the engine.
LEMMA ScoringInvariant ==
    ASSUME ScoringConstantsOK
    PROVE  ScoringSpec => []ScoringInv
<1>1. ScoringInit => ScoringInv
  BY ScoringInvInit
<1>2. ScoringInv /\ [ScoringNext]_scoringVars => ScoringInv'
  BY ScoringStep
<1> QED
  BY <1>1, <1>2, PTL DEF ScoringSpec

\* What a scored row is made of.
LEMMA ScoredParts ==
    ASSUME ScoringInv, Scored
    PROVE  /\ Cardinality(available) >= 3 /\ available # {}
           /\ Denominator(weights, available) \in Nat \ {0}
           /\ row = ScoredRow(signal, weights, available, facts)
<1>1. row # NoRow /\ row # SuppressedRow(available)
  BY DEF Scored, Rank, NoRow, SuppressedRow
<1>2. /\ Cardinality(available) >= 3 /\ Denominator(weights, available) > 0
      /\ row = ScoredRow(signal, weights, available, facts)
  BY <1>1 DEF ScoringInv
<1>3. available # {}
  BY <1>2, FS_EmptySet
<1>4. Denominator(weights, available) \in Nat
  BY DenominatorParts DEF ScoringInv
<1> QED
  BY <1>2, <1>3, <1>4
\* The composite of lenses between two bounds is between them.
LEMMA CompositeBetween ==
    ASSUME NEW w \in Weights, NEW A \in SUBSET Modules, Denominator(w, A) \in Nat \ {0},
           NEW s, NEW low \in Int, NEW high \in Int,
           \A m \in A : s[m] \in Int /\ low <= s[m] /\ s[m] <= high
    PROVE  /\ Composite(s, w, A) \in Int
           /\ low <= Composite(s, w, A) /\ Composite(s, w, A) <= high
<1>1. PICK total \in Int :
          /\ total = SumFunctionOnSet([m \in A |-> w[m] * s[m]], A)
          /\ Denominator(w, A) * low <= total
          /\ total <= Denominator(w, A) * high
  BY WeightedBounds
<1>2. Composite(s, w, A) = RoundHalfUp(total, Denominator(w, A))
  BY <1>1 DEF Composite
<1> QED
  BY <1>1, <1>2, RoundWithin

\* Every composite has a call, and a higher one no lower call.
LEMMA CallMonotone ==
    ASSUME NEW c \in Int, NEW d \in Int, c <= d
    PROVE  Call(c) \in DOMAIN Rank /\ Rank[Call(c)] <= Rank[Call(d)]
<1>1. /\ Rank["STRONG_SELL"] = 1 /\ Rank["SELL"] = 2 /\ Rank["HOLD"] = 3
      /\ Rank["BUY"] = 4 /\ Rank["STRONG_BUY"] = 5
      /\ DOMAIN Rank = {"STRONG_SELL", "SELL", "HOLD", "BUY", "STRONG_BUY"}
  BY DEF Rank
<1>2. ASSUME NEW x \in Int
      PROVE  /\ x < -150 => Call(x) = "STRONG_SELL"
             /\ x >= -150 /\ x < -75 => Call(x) = "SELL"
             /\ x >= -75 /\ x <= 75 => Call(x) = "HOLD"
             /\ x > 75 /\ x <= 150 => Call(x) = "BUY"
             /\ x > 150 => Call(x) = "STRONG_BUY"
  BY DEF Call
<1> QED
  BY <1>1, <1>2

\* Every variable keeps its type: a scored row has one of the five calls.
THEOREM ScoringTypeCorrect ==
    ASSUME ScoringConstantsOK
    PROVE  ScoringSpec => []ScoringTypeOK
<1>1. ASSUME ScoringInv
      PROVE  ScoringTypeOK
  <2>1. signal \in [Modules -> SignalValues \union {0}]
    BY <1>1 DEF ScoringInv
  <2>2. row.call \in DOMAIN Rank \union {"none", "SUPPRESSED"}
    <3>1. CASE row = NoRow
      BY <3>1 DEF NoRow
    <3>2. CASE row = SuppressedRow(available)
      BY <3>2 DEF SuppressedRow
    <3>3. CASE /\ Denominator(weights, available) > 0
               /\ row = ScoredRow(signal, weights, available, facts)
      <4>1. Denominator(weights, available) \in Nat \ {0}
        BY <1>1, <3>3, DenominatorParts DEF ScoringInv
      <4>2. \A m \in available : signal[m] \in Int /\ -200 <= signal[m] /\ signal[m] <= 200
        BY <1>1 DEF ScoringInv
      <4>3. PICK c \in Int : c = Composite(signal, weights, available)
        BY <1>1, <4>1, <4>2, CompositeBetween DEF ScoringInv
      <4>4. row.call = Call(c)
        BY <3>3, <4>3 DEF ScoredRow
      <4>5. Call(c) \in DOMAIN Rank
        BY CallMonotone
      <4> QED
        BY <4>4, <4>5
    <3> QED
      BY <1>1, <3>1, <3>2, <3>3 DEF ScoringInv
  <2> QED
    BY <1>1, <2>1, <2>2 DEF ScoringInv, ScoringTypeOK
<1> QED
  BY <1>1, ScoringInvariant, PTL

\* Four effective weights, each rounded, are off by at most two in all.
LEMMA EffectiveSum ==
    ASSUME NEW w \in Weights, NEW A \in SUBSET Modules, Denominator(w, A) \in Nat \ {0}
    PROVE  Abs(SumFunctionOnSet(EffectiveWeights(w, A), Modules) - 10000) <= 2
<1>1. PICK d \in Nat \ {0} : d = Denominator(w, A)
  OBVIOUS
<1> DEFINE kept == [m \in Modules |-> IF m \in A THEN w[m] ELSE 0]
           eff == EffectiveWeights(w, A)
<1>2. ASSUME NEW m \in Modules
      PROVE  \E k \in Nat, e, p \in Int :
                 /\ k = kept[m] /\ e = eff[m] /\ p = d * e
                 /\ 20000 * k - d <= 2 * p /\ 2 * p <= 20000 * k + d
  <2>1. PICK k \in Nat : k = kept[m]
    BY DEF Weights
  <2>2. CASE m \in A
    <3>1. PICK n \in Nat : n = 10000 * k
      OBVIOUS
    <3>2. eff[m] = RoundHalfUp(n, d)
      BY <1>1, <2>1, <2>2, <3>1 DEF EffectiveWeights
    <3>3. PICK e, p \in Int : /\ e = RoundHalfUp(n, d) /\ p = d * e
                              /\ 2 * n - d <= 2 * p /\ 2 * p <= 2 * n + d
      BY HalfAway
    <3> HIDE DEF eff, kept
    <3> QED
      BY <2>1, <3>1, <3>2, <3>3
  <2>3. CASE m \notin A
    <3>1. k = 0 /\ eff[m] = 0
      BY <2>1, <2>3 DEF EffectiveWeights
    <3> HIDE DEF eff, kept
    <3>2. 0 = d * 0
      OBVIOUS
    <3> QED
      BY <2>1, <3>1, <3>2
  <2> QED
    BY <2>2, <2>3
<1>3. d = SumFunctionOnSet(kept, Modules)
  <2>1. \A m \in Modules : kept[m] \in Int
    BY DEF Weights
  <2>2. \A m \in Modules \ A : kept[m] = 0
    OBVIOUS
  <2>3. \A m \in A : w[m] \in Int /\ kept[m] = w[m]
    BY DEF Weights
  <2> HIDE DEF kept
  <2>4. SumFunctionOnSet(kept, Modules) = SumFunctionOnSet(kept, A)
    BY <2>1, <2>2, LensesFinite, SumWithin
  <2>5. SumFunctionOnSet(kept, A) = SumFunctionOnSet(w, A)
    BY <2>3, LensesFinite, SumSame
  <2> QED
    BY <1>1, <2>4, <2>5 DEF Denominator
<1> HIDE DEF kept, eff
<1>4. PICK k1 \in Nat, e1, p1 \in Int :
          /\ k1 = kept["technical"] /\ e1 = eff["technical"] /\ p1 = d * e1
          /\ 20000 * k1 - d <= 2 * p1 /\ 2 * p1 <= 20000 * k1 + d
  BY <1>2 DEF Modules
<1>5. PICK k2 \in Nat, e2, p2 \in Int :
          /\ k2 = kept["fundamental"] /\ e2 = eff["fundamental"] /\ p2 = d * e2
          /\ 20000 * k2 - d <= 2 * p2 /\ 2 * p2 <= 20000 * k2 + d
  BY <1>2 DEF Modules
<1>6. PICK k3 \in Nat, e3, p3 \in Int :
          /\ k3 = kept["chip"] /\ e3 = eff["chip"] /\ p3 = d * e3
          /\ 20000 * k3 - d <= 2 * p3 /\ 2 * p3 <= 20000 * k3 + d
  BY <1>2 DEF Modules
<1>7. PICK k4 \in Nat, e4, p4 \in Int :
          /\ k4 = kept["news"] /\ e4 = eff["news"] /\ p4 = d * e4
          /\ 20000 * k4 - d <= 2 * p4 /\ 2 * p4 <= 20000 * k4 + d
  BY <1>2 DEF Modules
<1>8. d = k1 + k2 + k3 + k4
  <2>1. \A m \in Modules : kept[m] \in Int
    BY <1>4, <1>5, <1>6, <1>7 DEF Modules
  <2> QED
    BY <1>3, <1>4, <1>5, <1>6, <1>7, <2>1, SumOfLenses
<1>9. PICK E \in Int : E = e1 + e2 + e3 + e4
  OBVIOUS
<1>10. SumFunctionOnSet(eff, Modules) = E
  <2>1. \A m \in Modules : eff[m] \in Int
    BY <1>4, <1>5, <1>6, <1>7 DEF Modules
  <2> QED
    BY <1>4, <1>5, <1>6, <1>7, <1>9, <2>1, SumOfLenses
<1>11. d * E = p1 + p2 + p3 + p4
  <2>1. d * (e1 + e2 + e3 + e4) = d * e1 + d * e2 + d * e3 + d * e4
    OBVIOUS
  <2>2. p1 = d * e1 /\ p2 = d * e2 /\ p3 = d * e3 /\ p4 = d * e4
    BY <1>4, <1>5, <1>6, <1>7
  <2> QED
    BY <1>9, <2>1, <2>2
<1>12. PICK P \in Int : P = d * E
  OBVIOUS
<1>13. 20000 * d - 4 * d <= 2 * P /\ 2 * P <= 20000 * d + 4 * d
  BY <1>4, <1>5, <1>6, <1>7, <1>8, <1>11, <1>12
<1>14. E < 10003 /\ 9997 < E
  <2>1. d * E < d * 10003 /\ d * 9997 < d * E
    BY <1>12, <1>13
  <2> QED
    BY <2>1, CancelFactor
<1> QED
  BY <1>10, <1>14 DEF Abs, eff

\* The composite lies between the lowest and the highest lens, and the stored
\* effective weights add up to one but for rounding.
THEOREM CompositesWithinLenses ==
    ASSUME ScoringConstantsOK
    PROVE  ScoringSpec => []CompositeWithinLenses
<1>1. ASSUME ScoringInv
      PROVE  CompositeWithinLenses
  <2> SUFFICES ASSUME Scored
               PROVE  /\ row.composite >= Min({signal[m] : m \in available})
                      /\ row.composite <= Max({signal[m] : m \in available})
                      /\ Abs(SumFunctionOnSet(row.effective, Modules) - 10000) <= 2
    BY DEF CompositeWithinLenses
  <2>1. /\ available \in SUBSET Modules /\ weights \in Weights
        /\ signal \in [Modules -> -200 .. 200]
    BY <1>1 DEF ScoringInv
  <2>2. /\ available # {} /\ Denominator(weights, available) \in Nat \ {0}
        /\ row = ScoredRow(signal, weights, available, facts)
    BY <1>1, ScoredParts
  <2> DEFINE T == {signal[m] : m \in available}
  <2>3. T \subseteq -200 .. 200 /\ T # {}
    BY <2>1, <2>2
  <2>4. \A m \in available : signal[m] \in T
    OBVIOUS
  <2> HIDE DEF T
  <2>5. PICK low, high \in Int :
            /\ low = Min(T) /\ high = Max(T)
            /\ \A y \in T : y \in Int /\ low <= y /\ y <= high
    <3>1. -200 \in Int /\ 200 \in Int
      OBVIOUS
    <3>2. /\ Max(T) \in T /\ \A y \in T : y <= Max(T)
          /\ Min(T) \in T /\ \A y \in T : Min(T) <= y
      BY <2>3, <3>1, ExtremesExist
    <3>3. T \subseteq Int
      BY <2>3
    <3> QED
      BY <3>2, <3>3
  <2>6. \A m \in available : signal[m] \in Int /\ low <= signal[m] /\ signal[m] <= high
    BY <2>3, <2>4, <2>5
  <2>7. PICK c \in Int : /\ c = Composite(signal, weights, available)
                         /\ low <= c /\ c <= high
    BY <2>1, <2>2, <2>6, CompositeBetween
  <2>8. row.composite = c /\ row.effective = EffectiveWeights(weights, available)
    BY <2>2, <2>7 DEF ScoredRow
  <2>9. Abs(SumFunctionOnSet(row.effective, Modules) - 10000) <= 2
    BY <2>1, <2>2, <2>8, EffectiveSum
  <2> QED
    BY <2>5, <2>7, <2>8, <2>9 DEF T
<1> QED
  BY <1>1, ScoringInvariant, PTL

\* With the weights of the run, a higher signal of one lens never makes a
\* lower call: the weighted sum, the rounding and the bands are all monotone.
THEOREM BetterNewsNeverCosts ==
    ASSUME ScoringConstantsOK
    PROVE  ScoringSpec => []RaisingALensNeverLowersTheCall
<1>1. ASSUME ScoringInv, Scored, NEW m \in available, NEW better \in SignalValues,
             better > signal[m]
      PROVE  Rank[Call(Composite([signal EXCEPT ![m] = better], weights, available))]
                 >= Rank[row.call]
  <2>1. /\ available \in SUBSET Modules /\ weights \in Weights
        /\ signal \in [Modules -> -200 .. 200]
    BY <1>1 DEF ScoringInv
  <2>2. PICK d \in Nat \ {0} : d = Denominator(weights, available)
    BY <1>1, ScoredParts
  <2>3. better \in -200 .. 200
    BY DEF ScoringConstantsOK
  <2> DEFINE raised == [signal EXCEPT ![m] = better]
             old == [n \in available |-> weights[n] * signal[n]]
             new == [n \in available |-> weights[n] * raised[n]]
  <2>4. \A n \in available : raised[n] \in -200 .. 200 /\ signal[n] \in -200 .. 200
                             /\ signal[n] <= raised[n]
    BY <1>1, <2>1, <2>3
  <2> HIDE DEF raised
  <2>5. \A n \in available : old[n] \in Int /\ new[n] \in Int /\ old[n] <= new[n]
    <3> SUFFICES ASSUME NEW n \in available
                 PROVE  /\ weights[n] * signal[n] \in Int /\ weights[n] * raised[n] \in Int
                        /\ weights[n] * signal[n] <= weights[n] * raised[n]
      OBVIOUS
    <3>1. PICK v \in Nat : v = weights[n]
      BY SMTT(30), <2>1 DEF Weights
    <3>2. PICK x \in Int, k \in Nat : x = signal[n] /\ x + k = raised[n]
      <4>0. signal[n] \in Int /\ raised[n] \in Int /\ signal[n] <= raised[n]
        BY <2>4
      <4>1. PICK x \in Int, y \in Int : x = signal[n] /\ y = raised[n] /\ x <= y
        BY <4>0
      <4>2. y - x \in Nat /\ x + (y - x) = y
        BY <4>1
      <4> QED
        BY <4>1, <4>2
    <3>3. v * (x + k) = v * x + v * k /\ v * k \in Nat /\ v * x \in Int
      OBVIOUS
    <3> QED
      BY <3>1, <3>2, <3>3
  <2>6. IsFiniteSet(available)
    BY <2>1, LensesFinite
  <2> HIDE DEF old, new
  <2>7. /\ SumFunctionOnSet(old, available) \in Int /\ SumFunctionOnSet(new, available) \in Int
        /\ SumFunctionOnSet(old, available) <= SumFunctionOnSet(new, available)
    BY <2>5, <2>6, SumSplits, SumMonotone
  <2>8. PICK p, q \in Int :
            /\ p = SumFunctionOnSet(old, available) /\ q = SumFunctionOnSet(new, available)
            /\ p <= q
    BY <2>7
  <2>9. RoundHalfUp(p, d) <= RoundHalfUp(q, d)
    BY <2>8, RoundMonotone
  <2>10. RoundHalfUp(p, d) \in Int /\ RoundHalfUp(q, d) \in Int
    BY RoundWithin
  <2>11. /\ Composite(signal, weights, available) = RoundHalfUp(p, d)
         /\ Composite(raised, weights, available) = RoundHalfUp(q, d)
    BY <2>2, <2>8 DEF Composite, old, new
  <2>12. row.call = Call(Composite(signal, weights, available))
    <3>1. row = ScoredRow(signal, weights, available, facts)
      BY <1>1, ScoredParts
    <3> QED
      BY <3>1 DEF ScoredRow
  <2>13. /\ Rank[Call(RoundHalfUp(p, d))] <= Rank[Call(RoundHalfUp(q, d))]
         /\ Call(RoundHalfUp(p, d)) \in DOMAIN Rank /\ Call(RoundHalfUp(q, d)) \in DOMAIN Rank
    BY <2>9, <2>10, CallMonotone
  <2>14. \A call \in DOMAIN Rank : Rank[call] \in Int
    BY DEF Rank
  <2>15. Rank[Call(RoundHalfUp(q, d))] >= Rank[Call(RoundHalfUp(p, d))]
    BY <2>13, <2>14
  <2> QED
    BY <2>11, <2>12, <2>15 DEF raised
<1>2. ScoringInv => RaisingALensNeverLowersTheCall
  BY <1>1 DEF RaisingALensNeverLowersTheCall
<1> QED
  BY <1>2, ScoringInvariant, PTL
\* A ticker that raised, so left no row, has all but the tolerance of the
\* weight on the one lens that is down.
THEOREM MissingRowsExplained ==
    ASSUME ScoringConstantsOK
    PROVE  ScoringSpec => []MissingRowMeansWeightOnMissingLens
<1>1. ASSUME ScoringInv, outcome = "raised"
      PROVE  \E m \in Modules \ available : weights[m] >= 999
  <2>1. /\ available \in SUBSET Modules /\ weights \in Weights
        /\ Cardinality(available) >= 3 /\ Denominator(weights, available) = 0
        /\ SumFunctionOnSet(weights, Modules) \in 999 .. 1001
    BY <1>1 DEF ScoringInv, WeightSumOK
  <2>2. \A m \in available : weights[m] = 0
    BY <2>1, DenominatorParts
  <2>3. \A m, n \in Modules \ available : m = n
    BY <2>1, OneLensDown
  <2>4. \A m \in Modules : weights[m] \in Nat
    BY <2>1 DEF Weights
  <2>5. weights["technical"] + weights["fundamental"] + weights["chip"] + weights["news"] >= 999
    <3>1. \A m \in Modules : weights[m] \in Int
      BY <2>4
    <3> QED
      BY <2>1, <3>1, SumOfLenses
  <2>6. \A m, n \in {"technical", "fundamental", "chip", "news"} :
            m # n => weights[m] = 0 \/ weights[n] = 0
    BY <2>2, <2>3 DEF Modules
  <2>7. \E m \in {"technical", "fundamental", "chip", "news"} : weights[m] >= 999
    <3>1. PICK t, f, c, n \in Nat :
              /\ t = weights["technical"] /\ f = weights["fundamental"]
              /\ c = weights["chip"] /\ n = weights["news"]
      BY <2>4 DEF Modules
    <3>2. t >= 999 \/ f >= 999 \/ c >= 999 \/ n >= 999
      BY <2>5, <2>6, <3>1
    <3> QED
      BY <3>1, <3>2
  <2> QED
    BY <2>2, <2>7 DEF Modules
<1>2. ScoringInv => MissingRowMeansWeightOnMissingLens
  BY <1>1 DEF MissingRowMeansWeightOnMissingLens
<1> QED
  BY <1>2, ScoringInvariant, PTL

\* The targets are in order, use the fundamental leg only from a lens that is
\* there, and a row without that leg or without one lens is marked reduced.
THEOREM HonestTargets ==
    ASSUME ScoringConstantsOK
    PROVE  ScoringSpec => []TargetsAreHonest
<1>1. ASSUME ScoringInv, Scored, row.targets # <<>>
      PROVE  /\ row.targets[1] <= row.targets[2] /\ row.targets[2] <= row.targets[3]
             /\ row.targets[2] # facts.close => "fundamental" \in available /\ facts.eps > 0
             /\ ~row.reduced => available = Modules /\ facts.pe * facts.eps > 0
  <2>1. /\ row = ScoredRow(signal, weights, available, facts)
        /\ Cardinality(available) >= 3 /\ available \in SUBSET Modules
    BY <1>1, ScoredParts DEF ScoringInv
  <2>2. facts.close \in Nat /\ facts.pe \in Nat /\ facts.eps \in Int
    BY <1>1 DEF ScoringInv, ScoringConstantsOK
  <2>3. /\ row.targets = Targets(available, facts)
        /\ row.reduced = (Cardinality(available) = 3 \/ ~Usable(available, facts))
    BY <2>1 DEF ScoredRow
  <2>4. Usable(available, facts) => facts.pe * facts.eps \in Nat \ {0}
    <3>1. \A p \in Nat \ {0}, e \in Nat \ {0} : p * e \in Nat \ {0}
      OBVIOUS
    <3> QED
      BY <2>2, <3>1 DEF Usable
  <2>5. TargetBase(available, facts) \in Nat
    <3>1. CASE Usable(available, facts)
      <4>1. PICK n \in Nat : n = facts.pe * facts.eps + facts.close
        BY <2>2, <2>4, <3>1
      <4>2. RoundHalfUp(n, 2) \in Int /\ 0 <= RoundHalfUp(n, 2)
        <5>1. 2 * 0 <= n
          OBVIOUS
        <5> QED
          BY <5>1, RoundWithin
      <4> QED
        BY <3>1, <4>1, <4>2 DEF TargetBase
    <3>2. CASE ~Usable(available, facts)
      BY <2>2, <3>2 DEF TargetBase
    <3> QED
      BY <3>1, <3>2
  <2>6. PICK base \in Nat : base = TargetBase(available, facts)
    BY <2>5
  <2>7. row.targets = <<RoundHalfUp(base * 85, 100), base, RoundHalfUp(base * 115, 100)>>
    BY <1>1, <2>3, <2>6 DEF Targets
  <2>8. RoundHalfUp(base * 85, 100) <= base
    <3>1. base * 85 \in Int /\ base * 85 <= 100 * base
      OBVIOUS
    <3> QED
      BY <3>1, RoundWithin
  <2>9. base <= RoundHalfUp(base * 115, 100)
    <3>1. base * 115 \in Int /\ 100 * base <= base * 115
      OBVIOUS
    <3> QED
      BY <3>1, RoundWithin
  <2>10. row.targets[2] # facts.close => "fundamental" \in available /\ facts.eps > 0
    BY <2>6, <2>7 DEF TargetBase, Usable
  <2>11. ~row.reduced => available = Modules /\ facts.pe * facts.eps > 0
    <3>1. facts.pe * facts.eps \in Nat \ {0} => facts.pe * facts.eps > 0
      OBVIOUS
    <3> QED
      BY <2>1, <2>3, <2>4, <3>1, OneLensDown
  <2> QED
    BY <2>7, <2>8, <2>9, <2>10, <2>11
<1>2. ScoringInv => TargetsAreHonest
  BY <1>1 DEF TargetsAreHonest
<1> QED
  BY <1>2, ScoringInvariant, PTL
-----------------------------------------------------------------------------
(* The median of the peers                                                 *)

\* Finitely many integers lie between two bounds: none is further from zero
\* than the sum of all their distances.
LEMMA ValuesBounded ==
    ASSUME NEW S, IsFiniteSet(S), NEW f, \A p \in S : f[p] \in Int
    PROVE  \E b \in Nat : \A p \in S : f[p] \in (-b) .. b
<1> DEFINE size == [p \in S |-> IF f[p] < 0 THEN -f[p] ELSE f[p]]
<1>1. \A p \in S : size[p] \in Nat /\ -size[p] <= f[p] /\ f[p] <= size[p]
  OBVIOUS
<1> HIDE DEF size
<1>2. \A p \in S : size[p] \in Int
  BY <1>1
<1>3. PICK b \in Nat : b = SumFunctionOnSet(size, S)
  BY <1>1, SumNonNegative
<1>4. ASSUME NEW p \in S
      PROVE  size[p] <= b
  <2>1. IsFiniteSet(S \ {p}) /\ \A q \in S \ {p} : size[q] \in Nat
    BY <1>1, FS_RemoveElement
  <2>2. SumFunctionOnSet(size, S \ {p}) \in Nat
    BY <2>1, SumNonNegative
  <2>3. b = size[p] + SumFunctionOnSet(size, S \ {p})
    BY <1>2, <1>3, SumSplits
  <2> QED
    BY <1>1, <2>2, <2>3
<1>5. \A p \in S : f[p] \in (-b) .. b
  BY <1>1, <1>4
<1> QED
  BY <1>5

\* Every place of the ordered values is taken by one of them.
LEMMA OrderedIsAValue ==
    ASSUME NEW S, IsFiniteSet(S), NEW f, \A p \in S : f[p] \in Int,
           NEW k \in 1 .. Cardinality(S)
    PROVE  \E p \in S : Ordered(f, S)[k] = f[p]
<1> DEFINE V == {f[p] : p \in S}
           Below(v) == {p \in S : f[p] < v}
           Upto(v) == {p \in S : f[p] <= v}
           Enough == {v \in V : Cardinality(Upto(v)) >= k}
<1>0. \A T \in SUBSET S : IsFiniteSet(T) /\ Cardinality(T) \in Nat
  BY FS_Subset, FS_CardinalityType
<1>1. PICK b \in Nat : \A p \in S : f[p] \in (-b) .. b
  BY ValuesBounded
<1>2. PICK lo \in Int : lo = -b
  OBVIOUS
<1>3. V \subseteq lo .. b /\ V \subseteq Int /\ lo \in Int /\ b \in Int
  BY <1>1, <1>2
<1>4. S # {}
  BY FS_EmptySet
<1>5. Enough # {}
  <2>1. V # {}
    BY <1>4
  <2> HIDE DEF V
  <2>2. Max(V) \in V /\ \A v \in V : v <= Max(V)
    BY <1>3, <2>1, ExtremesExist
  <2>3. Upto(Max(V)) = S
    BY <2>2 DEF V
  <2>4. Cardinality(Upto(Max(V))) >= k
    BY <1>0, <2>3
  <2> QED
    BY <2>2, <2>4
<1>6. PICK v \in Enough : \A u \in Enough : v <= u
  <2>1. Enough \subseteq lo .. b
    BY <1>3
  <2> HIDE DEF Enough
  <2>2. Min(Enough) \in Enough /\ \A u \in Enough : Min(Enough) <= u
    BY <1>3, <1>5, <2>1, ExtremesExist
  <2> QED
    BY <2>2
<1>7. Cardinality(Below(v)) < k
  <2>1. CASE Below(v) = {}
    BY <2>1, FS_EmptySet
  <2>2. CASE Below(v) # {}
    <3> DEFINE W == {f[p] : p \in Below(v)}
    <3>1. W # {} /\ W \subseteq lo .. b
      BY <1>3, <2>2
    <3> HIDE DEF W
    <3>2. Max(W) \in W /\ \A w \in W : w <= Max(W)
      BY <1>3, <3>1, ExtremesExist
    <3>3. PICK u \in Int : u = Max(W) /\ u \in V /\ u < v
      BY <1>3, <3>2 DEF W
    <3>4. Below(v) = Upto(u)
      <4>1. \A p \in Below(v) : f[p] <= u
        BY <3>2, <3>3 DEF W
      <4>2. v \in Int /\ \A p \in S : f[p] \in Int
        BY <1>3
      <4>3. \A p \in S : f[p] <= u => f[p] < v
        BY <3>3, <4>2
      <4> QED
        BY <4>1, <4>3
    <3>5. u \notin Enough
      <4>1. v \in Int
        BY <1>3
      <4> HIDE DEF Enough
      <4> QED
        BY <1>6, <3>3, <4>1
    <3>6. ~(Cardinality(Upto(u)) >= k)
      BY <3>3, <3>5
    <3>7. Cardinality(Upto(u)) \in Nat
      BY <1>0
    <3> QED
      BY <3>4, <3>6, <3>7
  <2> QED
    BY <2>1, <2>2
<1>8. \E w \in V : Cardinality(Below(w)) < k /\ Cardinality(Upto(w)) >= k
  BY <1>6, <1>7
<1>9. Ordered(f, S)[k] = CHOOSE w \in V : Cardinality(Below(w)) < k /\ Cardinality(Upto(w)) >= k
  BY DEF Ordered
<1>10. Ordered(f, S)[k] \in V
  <2> HIDE DEF V, Below, Upto
  <2> QED
    BY <1>8, <1>9
<1> QED
  BY <1>10

\* The median lies between two of the values.
LEMMA MedianBetween ==
    ASSUME NEW S, IsFiniteSet(S), S # {}, NEW f, \A p \in S : f[p] \in Int
    PROVE  /\ MedianTwice(f, S) \in Int
           /\ \E p, q \in S : 2 * f[p] <= MedianTwice(f, S) /\ MedianTwice(f, S) <= 2 * f[q]
<1>1. PICK n \in Nat \ {0} : n = Cardinality(S)
  BY FS_CardinalityType, FS_EmptySet
<1>2. PICK mid \in Nat : mid = n \div 2 /\ mid + 1 <= n /\ (n % 2 # 1 => mid >= 1)
  BY <1>1
<1>3. CASE n % 2 = 1
  <2>1. MedianTwice(f, S) = 2 * Ordered(f, S)[mid + 1]
    BY <1>1, <1>2, <1>3 DEF MedianTwice
  <2>2. PICK p \in S : Ordered(f, S)[mid + 1] = f[p]
    <3>1. mid + 1 \in 1 .. Cardinality(S)
      BY <1>1, <1>2
    <3> QED
      BY <3>1, OrderedIsAValue
  <2>3. 2 * f[p] \in Int
    OBVIOUS
  <2> QED
    BY <2>1, <2>2, <2>3
<1>4. CASE n % 2 # 1
  <2>1. MedianTwice(f, S) = Ordered(f, S)[mid] + Ordered(f, S)[mid + 1]
    BY <1>1, <1>2, <1>4 DEF MedianTwice
  <2>2. PICK p \in S : Ordered(f, S)[mid] = f[p]
    <3>1. mid \in 1 .. Cardinality(S)
      BY <1>1, <1>2, <1>4
    <3> QED
      BY <3>1, OrderedIsAValue
  <2>3. PICK q \in S : Ordered(f, S)[mid + 1] = f[q]
    <3>1. mid + 1 \in 1 .. Cardinality(S)
      BY <1>1, <1>2
    <3> QED
      BY <3>1, OrderedIsAValue
  <2>4. PICK x, y \in Int : x = f[p] /\ y = f[q] /\ MedianTwice(f, S) = x + y
    BY <2>1, <2>2, <2>3
  <2>5. CASE x <= y
    <3>1. 2 * x <= x + y /\ x + y <= 2 * y
      BY <2>5
    <3> QED
      BY <2>4, <3>1
  <2>6. CASE y <= x
    <3>1. 2 * y <= x + y /\ x + y <= 2 * x
      BY <2>6
    <3> QED
      BY <2>4, <3>1
  <2> QED
    BY <2>5, <2>6
<1> QED
  BY <1>3, <1>4

-----------------------------------------------------------------------------
(* The fundamental lens                                                    *)

\* Every variable keeps its type.
THEOREM FundamentalTypeCorrect ==
    ASSUME FundamentalConstantsOK
    PROVE  FundamentalSpec => []FundamentalTypeOK
<1>1. NoSnapshot \in Snapshot
  BY DEF NoSnapshot, Snapshot
<1>2. FundamentalInit => FundamentalTypeOK
  BY <1>1 DEF FundamentalInit, FundamentalTypeOK
<1>3. FundamentalTypeOK /\ [FundamentalNext]_fundamentalVars => FundamentalTypeOK'
  BY DEF FundamentalTypeOK, FundamentalNext, OwnLands, PeerLands, fundamentalVars
<1> QED
  BY <1>2, <1>3, PTL DEF FundamentalSpec

\* What the medians are taken of.
LEMMA ColumnTypes ==
    ASSUME FundamentalConstantsOK, FundamentalTypeOK
    PROVE  /\ \A name \in {"pe", "pb", "margin"} :
                  /\ IsFiniteSet(Reported(name)) /\ IsFiniteSet(Positive(name))
                  /\ Reported(name) \subseteq Peers
                  /\ \A p \in Reported(name) : Column(name)[p] = peer[p][name]
                                               /\ Column(name)[p] \in Int
<1> SUFFICES ASSUME NEW name \in {"pe", "pb", "margin"}
             PROVE  /\ IsFiniteSet(Reported(name)) /\ IsFiniteSet(Positive(name))
                    /\ Reported(name) \subseteq Peers
                    /\ \A p \in Reported(name) : Column(name)[p] = peer[p][name]
                                                 /\ Column(name)[p] \in Int
  OBVIOUS
<1>1. Reported(name) \subseteq Peers /\ Positive(name) \subseteq Peers
  BY DEF Reported, Positive
<1>2. IsFiniteSet(Reported(name)) /\ IsFiniteSet(Positive(name))
  BY <1>1, FS_Subset DEF FundamentalConstantsOK
<1>3. \A p \in Peers : peer[p][name] \in Int \union {Null}
  <2> SUFFICES ASSUME NEW p \in Peers
               PROVE  peer[p][name] \in Int \union {Null}
    OBVIOUS
  <2>1. peer[p] \in Snapshot
    BY DEF FundamentalTypeOK
  <2>2. /\ peer[p].pe \in Int \union {Null} /\ peer[p].pb \in Int \union {Null}
        /\ peer[p].margin \in Int \union {Null}
    BY <2>1 DEF Snapshot, FundamentalConstantsOK
  <2> QED
    BY <2>2
<1>4. \A p \in Reported(name) : Column(name)[p] = peer[p][name] /\ Column(name)[p] \in Int
  BY <1>1, <1>3 DEF Reported, Column
<1> QED
  BY <1>1, <1>2, <1>4

\* Each median is Null or an integer.
LEMMA MediansTyped ==
    ASSUME FundamentalConstantsOK, FundamentalTypeOK
    PROVE  /\ PeerPe \in Int \union {Null} /\ PeerPb \in Int \union {Null}
           /\ PeerMargin \in Int \union {Null}
<1>1. \A name \in {"pe", "pb", "margin"} :
          \A S \in {Reported(name), Positive(name)} :
              MedianTwice(Column(name), S) \in Int \union {Null}
  <2> SUFFICES ASSUME NEW name \in {"pe", "pb", "margin"},
                      NEW S \in {Reported(name), Positive(name)}
               PROVE  MedianTwice(Column(name), S) \in Int \union {Null}
    OBVIOUS
  <2>1. IsFiniteSet(S) /\ S \subseteq Reported(name)
    BY ColumnTypes DEF Positive
  <2>2. \A p \in S : Column(name)[p] \in Int
    BY <2>1, ColumnTypes
  <2>3. S # {} => MedianTwice(Column(name), S) \in Int
    BY <2>1, <2>2, MedianBetween
  <2>4. S = {} => MedianTwice(Column(name), S) = Null
    BY DEF MedianTwice
  <2> QED
    BY <2>3, <2>4
<1> QED
  BY <1>1 DEF PeerPe, PeerPb, PeerMargin

\* peer_median_pe is a positive number between two of the peers' own.
THEOREM PeerMedianSound ==
    ASSUME FundamentalConstantsOK
    PROVE  FundamentalSpec => []PeerMedianIsAPeersValuation
<1>1. ASSUME FundamentalTypeOK, PeerPe # Null
      PROVE  \E p, q \in Reported("pe") :
                 0 < peer[p].pe /\ 2 * peer[p].pe <= PeerPe /\ PeerPe <= 2 * peer[q].pe
  <2> DEFINE S == Positive("pe")
             f == Column("pe")
  <2>1. S # {} /\ PeerPe = MedianTwice(f, S)
    BY <1>1 DEF PeerPe, MedianTwice
  <2>2. /\ IsFiniteSet(S) /\ S \subseteq Reported("pe")
        /\ \A p \in S : peer[p]["pe"] > 0
    BY <1>1, ColumnTypes DEF Positive
  <2>3. \A p \in S : f[p] \in Int /\ f[p] = peer[p]["pe"]
    BY <1>1, <2>2, ColumnTypes
  <2> HIDE DEF S, f
  <2>4. PICK p, q \in S : 2 * f[p] <= PeerPe /\ PeerPe <= 2 * f[q]
    BY <2>1, <2>2, <2>3, MedianBetween
  <2>5. p \in Reported("pe") /\ q \in Reported("pe") /\ f[p] = peer[p].pe /\ f[q] = peer[q].pe
    BY <2>2, <2>3
  <2>6. 0 < f[p]
    BY <2>2, <2>3
  <2> QED
    BY <2>4, <2>5, <2>6
<1>2. FundamentalTypeOK => PeerMedianIsAPeersValuation
  BY <1>1 DEF PeerMedianIsAPeersValuation
<1> QED
  BY <1>2, FundamentalTypeCorrect, PTL

\* The votes that compare a value with a median.
LEMMA CheaperVote ==
    ASSUME FundamentalConstantsOK,
           NEW old \in Int \union {Null}, NEW new \in Int \union {Null},
           Cheaper(new, old), NEW median \in Int \union {Null}, NEW vote \in Nat
    PROVE  /\ ValuationVote(new, median, vote) \in Int
           /\ ValuationVote(old, median, vote) \in Int
           /\ ValuationVote(old, median, vote) <= ValuationVote(new, median, vote)
<1>1. \A v \in Int \union {Null} : ValuationVote(v, median, vote) \in {-vote, 0, vote}
  BY DEF ValuationVote
<1>2. CASE new = old
  BY <1>1, <1>2
<1>3. CASE new # old
  <2>1. new \in Int /\ old \in Int /\ 0 < new /\ new < old /\ new # Null /\ old # Null
    BY <1>3 DEF Cheaper
  <2>2. CASE median = Null \/ median <= 0
    BY <1>1, <2>1, <2>2 DEF ValuationVote
  <2>3. CASE ~(median = Null \/ median <= 0)
    <3>1. ASSUME NEW v \in Int, v > 0, v # Null
          PROVE  ValuationVote(v, median, vote) =
                     IF 20 * v <= 8 * median THEN vote
                     ELSE IF 20 * v >= 12 * median THEN -vote ELSE 0
      BY <2>3, <3>1 DEF ValuationVote
    <3>2. median \in Int /\ median > 0
      BY <2>3
    <3> QED
      BY <2>1, <3>1, <3>2
  <2> QED
    BY <2>2, <2>3
<1> QED
  BY <1>2, <1>3

\* A better margin never gets the lower vote.
LEMMA BetterVote ==
    ASSUME FundamentalConstantsOK,
           NEW old \in Int \union {Null}, NEW new \in Int \union {Null},
           Better(new, old), NEW median \in Int \union {Null}
    PROVE  /\ MarginVote(new, median) \in Int /\ MarginVote(old, median) \in Int
           /\ MarginVote(old, median) <= MarginVote(new, median)
<1>1. \A v \in Int \union {Null} : MarginVote(v, median) \in {-5, 0, 5}
  BY DEF MarginVote
<1>2. CASE new = old
  BY <1>1, <1>2
<1>3. CASE new # old
  <2>1. new \in Int /\ old \in Int /\ old < new /\ new # Null /\ old # Null
    BY <1>3 DEF Better
  <2>2. CASE median = Null
    BY <1>1, <2>1, <2>2 DEF MarginVote
  <2>3. CASE median # Null
    BY <2>1, <2>3 DEF MarginVote
  <2> QED
    BY <2>2, <2>3
<1> QED
  BY <1>2, <1>3

\* A cheaper or more profitable snapshot never scores lower.
THEOREM CheaperScoresNoLower ==
    ASSUME FundamentalConstantsOK
    PROVE  FundamentalSpec => []CheaperNeverScoresLower
<1>1. ASSUME FundamentalTypeOK, FundamentalOk, NEW t \in Snapshot,
             Cheaper(t.pe, own[1].pe), Cheaper(t.pb, own[1].pb), Better(t.margin, own[1].margin)
      PROVE  FundamentalScore(t) >= FundamentalScore(own[1])
  <2>1. PICK s \in Snapshot : s = own[1]
    BY <1>1 DEF FundamentalTypeOK, FundamentalOk
  <2>2. \A x \in Snapshot : /\ x.pe \in Int \union {Null} /\ x.pb \in Int \union {Null}
                            /\ x.margin \in Int \union {Null}
    BY DEF Snapshot, FundamentalConstantsOK
  <2>3. PICK a, b \in Int : /\ a = ValuationVote(s.pe, PeerPe, 10)
                            /\ b = ValuationVote(t.pe, PeerPe, 10) /\ a <= b
    <3>1. /\ s.pe \in Int \union {Null} /\ t.pe \in Int \union {Null}
          /\ PeerPe \in Int \union {Null} /\ Cheaper(t.pe, s.pe) /\ 10 \in Nat
      BY <1>1, <2>1, <2>2, MediansTyped
    <3>2. /\ ValuationVote(t.pe, PeerPe, 10) \in Int /\ ValuationVote(s.pe, PeerPe, 10) \in Int
          /\ ValuationVote(s.pe, PeerPe, 10) <= ValuationVote(t.pe, PeerPe, 10)
      BY <3>1, CheaperVote
    <3> QED
      BY <3>2
  <2>4. PICK c, d \in Int : /\ c = ValuationVote(s.pb, PeerPb, 5)
                            /\ d = ValuationVote(t.pb, PeerPb, 5) /\ c <= d
    <3>1. /\ s.pb \in Int \union {Null} /\ t.pb \in Int \union {Null}
          /\ PeerPb \in Int \union {Null} /\ Cheaper(t.pb, s.pb) /\ 5 \in Nat
      BY <1>1, <2>1, <2>2, MediansTyped
    <3>2. /\ ValuationVote(t.pb, PeerPb, 5) \in Int /\ ValuationVote(s.pb, PeerPb, 5) \in Int
          /\ ValuationVote(s.pb, PeerPb, 5) <= ValuationVote(t.pb, PeerPb, 5)
      BY <3>1, CheaperVote
    <3> QED
      BY <3>2
  <2>5. PICK e, f \in Int : /\ e = MarginVote(s.margin, PeerMargin)
                            /\ f = MarginVote(t.margin, PeerMargin) /\ e <= f
    <3>1. /\ s.margin \in Int \union {Null} /\ t.margin \in Int \union {Null}
          /\ PeerMargin \in Int \union {Null} /\ Better(t.margin, s.margin)
      BY <1>1, <2>1, <2>2, MediansTyped
    <3>2. /\ MarginVote(t.margin, PeerMargin) \in Int /\ MarginVote(s.margin, PeerMargin) \in Int
          /\ MarginVote(s.margin, PeerMargin) <= MarginVote(t.margin, PeerMargin)
      BY <3>1, BetterVote
    <3> QED
      BY <3>2
  <2>6. b + d + f >= a + c + e
    BY <2>3, <2>4, <2>5
  <2> QED
    BY <2>1, <2>3, <2>4, <2>5, <2>6 DEF FundamentalScore
<1>2. FundamentalTypeOK => CheaperNeverScoresLower
  BY <1>1 DEF CheaperNeverScoresLower
<1> QED
  BY <1>2, FundamentalTypeCorrect, PTL
-----------------------------------------------------------------------------
(* The dashboard page                                                      *)

\* A page that shows a pending card has no POST in flight: its buttons, the
\* only way to send one, belong to the other cards.
PageInv ==
    /\ PageTypeOK
    /\ flow.kind = "pending" => posting = None

\* Each flow is one of four kinds, and a pending one is about a run.
LEMMA FlowKinds ==
    /\ Idle.kind = "idle"
    /\ \A t : Miss(t).kind = "miss" /\ Failed(t).kind = "failed"
    /\ \A r : Pending(r).kind = "pending" /\ Pending(r).run = r
    /\ \A f \in Flow : f.kind = "pending" => f.run \in Runs /\ f = Pending(f.run)
BY DEF Idle, Miss, Failed, Pending, Flow

\* The server's part of the type.
LEMMA ServerStep ==
    ASSUME stage \in [Runs -> Server!Stage], line \in Seq(Runs), Server!Next
    PROVE  stage' \in [Runs -> Server!Stage] /\ line' \in Seq(Runs)
<1>1. CASE Server!Start
  <2>1. line # <<>> /\ line' = Tail(line) /\ Head(line) \in Runs /\ Tail(line) \in Seq(Runs)
    BY <1>1, HeadTailProperties DEF Server!Start
  <2>2. PICK s \in Server!Stage : stage' = [stage EXCEPT ![Head(line)] = s]
    BY <1>1 DEF Server!Start, Server!Stage, Server!Terminal
  <2> QED
    BY <2>1, <2>2
<1>2. ASSUME NEW r \in Runs, Server!Enroll(r)
      PROVE  stage' \in [Runs -> Server!Stage] /\ line' \in Seq(Runs)
  BY <1>2 DEF Server!Enroll, Server!Stage
<1>3. ASSUME NEW r \in Runs, Server!Join(r)
      PROVE  stage' \in [Runs -> Server!Stage] /\ line' \in Seq(Runs)
  BY <1>3, AppendProperties DEF Server!Join
<1>4. ASSUME NEW r \in Runs, Server!Advance(r)
      PROVE  stage' \in [Runs -> Server!Stage] /\ line' \in Seq(Runs)
  BY <1>4 DEF Server!Advance, Server!Stage
<1>5. ASSUME NEW r \in Runs, Server!Complete(r)
      PROVE  stage' \in [Runs -> Server!Stage] /\ line' \in Seq(Runs)
  BY <1>5 DEF Server!Complete, Server!Stage, Server!Terminal
<1> QED
  BY <1>1, <1>2, <1>3, <1>4, <1>5 DEF Server!Next

\* What showing another flow does to the polling effect.
LEMMA ShowTypes ==
    ASSUME PageTypeOK, NEW f \in Flow, Display(f),
           cancelled' = cancelled \/ Show(f)
    PROVE  /\ flow' = f /\ flow' \in Flow
           /\ poll' \in {"none", "timer", "asked"}
           /\ flow'.kind = "pending" <=> poll' # "none"
           /\ cancelled' \subseteq Runs
<1>1. flow' = f /\ poll' = IF f.kind = "pending" THEN "timer" ELSE "none"
  BY DEF Display
<1>2. poll = "asked" => flow.run \in Runs
  BY FlowKinds DEF PageTypeOK
<1>3. cancelled \subseteq Runs
  BY DEF PageTypeOK
<1> QED
  BY <1>1, <1>2, <1>3 DEF Show

\* The page's invariant holds initially.
LEMMA PageInvInit == ASSUME PageConstantsOK PROVE PageInit => PageInv
<1> SUFFICES ASSUME PageInit
             PROVE  PageInv
  OBVIOUS
<1>1. stage \in [Runs -> Server!Stage] /\ line \in Seq(Runs)
  BY DEF PageInit, Server!Init, Server!Stage
<1>2. flow \in Flow /\ flow.kind # "pending"
  BY FlowKinds DEF PageInit, Flow
<1>3. loads \subseteq Load
  BY DEF PageInit, Load, PageConstantsOK
<1> QED
  BY <1>1, <1>2, <1>3 DEF PageInit, PageInv, PageTypeOK, None

\* A request more is still a set of requests.
LEMMA SendTypes ==
    ASSUME loads \subseteq Load, NEW t \in Tickers, NEW by \in {"query", "poll", "post"},
           SendLoad(t, by)
    PROVE  loads' \subseteq Load /\ busy' \in BOOLEAN
BY DEF SendLoad, Load

\* Every step of the page and of the server preserves it.
LEMMA PageStep ==
    ASSUME PageConstantsOK, PageInv, [PageNext]_pageVars
    PROVE  PageInv'
<1>0. /\ PageTypeOK /\ loads \subseteq Load /\ flow \in Flow
      /\ \A t \in Tickers : Miss(t) \in Flow /\ Failed(t) \in Flow
      /\ Idle \in Flow /\ \A r \in Runs : Pending(r) \in Flow
  BY DEF PageInv, PageTypeOK, Flow
<1>1. ASSUME NEW t \in Tickers, Search(t)
      PROVE  PageInv'
  <2>1. Show(Idle) /\ Display(Idle)
    BY <1>1 DEF Search, Show
  <2>2. /\ flow' = Idle /\ flow' \in Flow /\ poll' \in {"none", "timer", "asked"}
        /\ flow'.kind = "pending" <=> poll' # "none"
        /\ cancelled' \subseteq Runs
    BY <1>0, <2>1, ShowTypes
  <2>3. loads' \subseteq Load /\ busy' \in BOOLEAN
    BY <1>0, <1>1, SendTypes DEF Search, PageTypeOK
  <2> QED
    BY <1>0, <1>1, <2>2, <2>3, FlowKinds DEF Search, PageInv, PageTypeOK, server
<1>2. ASSUME NEW t \in Tickers, Analyze(t)
      PROVE  PageInv'
  <2>1. flow.kind # "pending"
    BY <1>2, FlowKinds DEF Analyze
  <2> QED
    BY <1>0, <1>2, <2>1 DEF Analyze, PageInv, PageTypeOK, server
<1>3. ASSUME NEW l \in loads, LoadReturns(l)
      PROVE  PageInv'
  <2>1. l.ticker \in Tickers /\ loads' \subseteq Load /\ busy' = FALSE
    BY <1>0, <1>3 DEF LoadReturns, Load
  <2>2. posting' \in Tickers \union {None} /\ (posting = None => posting' = None)
    BY <1>0, <1>3 DEF LoadReturns, PageTypeOK
  <2>3. data' \in Tickers \union {None} /\ UNCHANGED <<stage, line, query>>
    BY <1>0, <1>3, <2>1 DEF LoadReturns, PageTypeOK, server
  <2>4. CASE Stay
    BY <1>0, <2>1, <2>2, <2>3, <2>4 DEF Stay, PageInv, PageTypeOK
  <2>5. ASSUME NEW f \in {Idle, Miss(l.ticker)}, Show(f)
        PROVE  PageInv'
    <3>1. f \in Flow /\ f.kind # "pending" /\ Display(f)
      BY <1>0, <2>1, <2>5, FlowKinds DEF Show
    <3>2. /\ flow' = f /\ flow' \in Flow /\ poll' \in {"none", "timer", "asked"}
          /\ flow'.kind = "pending" <=> poll' # "none"
          /\ cancelled' \subseteq Runs
      BY <1>0, <2>5, <3>1, ShowTypes
    <3> QED
      BY <1>0, <2>1, <2>2, <2>3, <3>1, <3>2 DEF PageInv, PageTypeOK
  <2> QED
    BY <1>3, <2>4, <2>5 DEF LoadReturns
<1>4. ASSUME NEW r \in Runs, PostAccepted(r)
      PROVE  PageInv'
  <2>1. Show(Pending(r)) /\ Display(Pending(r))
    BY <1>4 DEF PostAccepted, Show
  <2>2. /\ flow' \in Flow /\ poll' \in {"none", "timer", "asked"}
        /\ flow'.kind = "pending" <=> poll' # "none"
        /\ cancelled' \subseteq Runs
    BY <1>0, <2>1, ShowTypes
  <2> QED
    BY <1>0, <1>4, <2>2 DEF PostAccepted, PageInv, PageTypeOK, server
<1>5. ASSUME NEW r \in Runs, CancelledPollReturns(r)
      PROVE  PageInv'
  BY <1>0, <1>5 DEF CancelledPollReturns, PageInv, PageTypeOK, server
<1>6. CASE PostReady
  <2>1. Show(Idle) /\ Display(Idle) /\ posting \in Tickers
    BY <1>0, <1>6 DEF PostReady, Show, AwaitsPost, PageTypeOK
  <2>2. /\ flow' = Idle /\ flow' \in Flow /\ poll' \in {"none", "timer", "asked"}
        /\ flow'.kind = "pending" <=> poll' # "none"
        /\ cancelled' \subseteq Runs
    BY <1>0, <2>1, ShowTypes
  <2>3. loads' \subseteq Load /\ busy' \in BOOLEAN
    BY <1>0, <1>6, <2>1, SendTypes DEF PostReady
  <2> QED
    BY <1>0, <1>6, <2>2, <2>3, FlowKinds DEF PostReady, PageInv, PageTypeOK, server
<1>7. CASE PostRefused
  <2>1. posting \in Tickers /\ posting' = None
        /\ UNCHANGED <<stage, line, query, data, loads, busy>>
    BY <1>0, <1>7 DEF PostRefused, AwaitsPost, PageTypeOK, server
  <2>2. CASE Stay
    BY <1>0, <2>1, <2>2 DEF Stay, PageInv, PageTypeOK
  <2>3. ASSUME NEW f \in {Miss(posting), Failed(posting)}, Show(f)
        PROVE  PageInv'
    <3>1. f \in Flow /\ Display(f)
      BY <1>0, <2>1, <2>3 DEF Show
    <3>2. /\ flow' \in Flow /\ poll' \in {"none", "timer", "asked"}
          /\ flow'.kind = "pending" <=> poll' # "none"
          /\ cancelled' \subseteq Runs
      BY <1>0, <2>3, <3>1, ShowTypes
    <3> QED
      BY <1>0, <2>1, <3>2 DEF PageInv, PageTypeOK
  <2> QED
    BY <1>7, <2>2, <2>3 DEF PostRefused
<1>8. CASE PollAsks
  BY <1>0, <1>8 DEF PollAsks, PageInv, PageTypeOK, server
<1>9. CASE PollReturns
  <2>1. flow.kind = "pending" /\ flow.run \in Runs
    BY <1>0, <1>9, FlowKinds DEF PollReturns, PageTypeOK
  <2>2. RunTicker[flow.run] \in Tickers
    BY <2>1 DEF PageConstantsOK
  <2>3. UNCHANGED <<stage, line, query, data, posting, cancelled>>
    BY <1>9 DEF PollReturns, server
  <2>4. CASE Display(Idle) /\ SendLoad(RunTicker[flow.run], "poll")
    <3>1. /\ flow' \in Flow /\ poll' \in {"none", "timer", "asked"}
          /\ flow' = Idle /\ (flow'.kind = "pending" <=> poll' # "none")
      BY <1>0, <2>3, <2>4, ShowTypes
    <3>2. loads' \subseteq Load /\ busy' \in BOOLEAN
      BY <1>0, <2>2, <2>4, SendTypes
    <3> QED
      BY <1>0, <2>3, <3>1, <3>2, FlowKinds DEF PageInv, PageTypeOK
  <2>5. CASE Display(Failed(RunTicker[flow.run])) /\ UNCHANGED <<loads, busy>>
    <3>1. Failed(RunTicker[flow.run]) \in Flow
      BY <1>0, <2>2
    <3>2. /\ flow' \in Flow /\ poll' \in {"none", "timer", "asked"}
          /\ flow' = Failed(RunTicker[flow.run]) /\ (flow'.kind = "pending" <=> poll' # "none")
      BY <1>0, <2>3, <2>5, <3>1, ShowTypes
    <3> QED
      BY <1>0, <2>3, <2>5, <3>2, FlowKinds DEF PageInv, PageTypeOK
  <2>6. CASE poll' = "timer" /\ UNCHANGED <<flow, loads, busy>>
    BY <1>0, <2>1, <2>3, <2>6 DEF PageInv, PageTypeOK
  <2> QED
    BY <1>9, <2>4, <2>5, <2>6 DEF PollReturns
<1>10. CASE ServerMoves
  <2>1. stage' \in [Runs -> Server!Stage] /\ line' \in Seq(Runs)
    BY <1>0, <1>10, ServerStep DEF ServerMoves, PageTypeOK
  <2>2. UNCHANGED <<query, data, flow, loads, busy, posting, poll, cancelled>>
    BY <1>10 DEF ServerMoves, page
  <2> QED
    BY <1>0, <2>1, <2>2 DEF PageInv, PageTypeOK
<1>11. CASE UNCHANGED pageVars
  BY <1>0, <1>11 DEF pageVars, page, server, PageInv, PageTypeOK
<1> QED
  BY <1>1, <1>2, <1>3, <1>4, <1>5, <1>6, <1>7, <1>8, <1>9, <1>10, <1>11 DEF PageNext

\* So it holds in every behaviour of the page.
LEMMA PageInvariant ==
    ASSUME PageConstantsOK
    PROVE  PageSpec => []PageInv
<1>1. PageInit => PageInv
  BY PageInvInit
<1>2. PageInv /\ [PageNext]_pageVars => PageInv'
  BY PageStep
<1> QED
  BY <1>1, <1>2, PTL DEF PageSpec

\* Every variable keeps its type, and polling goes on exactly while a pending
\* card is shown.
THEOREM PageTypeCorrect ==
    ASSUME PageConstantsOK
    PROVE  PageSpec => []PageTypeOK
<1>1. PageInv => PageTypeOK
  BY DEF PageInv
<1> QED
  BY <1>1, PageInvariant, PTL

\* A pending card comes down for its own run, a search, or a load, and never
\* for the answer about the run of an earlier card.
THEOREM PendingEndsRightly ==
    ASSUME PageConstantsOK
    PROVE  PageSpec => PendingEndsForItsOwnReasons
<1> DEFINE EndsRightly ==
        (flow.kind = "pending" /\ flow' # flow) =>
            \/ stage[flow.run] \in {"ready", "partial"} /\ poll = "asked"
            \/ flow' = Failed(RunTicker[flow.run]) /\ poll = "asked"
            \/ flow' = Idle /\ ~busy /\ (query' # query \/ loads' = loads)
            \/ \E l \in loads : loads' = loads \ {l}
<1>1. ASSUME PageInv, [PageNext]_pageVars, flow.kind = "pending", flow' # flow
      PROVE  \/ stage[flow.run] \in {"ready", "partial"} /\ poll = "asked"
             \/ flow' = Failed(RunTicker[flow.run]) /\ poll = "asked"
             \/ flow' = Idle /\ ~busy /\ (query' # query \/ loads' = loads)
             \/ \E l \in loads : loads' = loads \ {l}
  <2>1. posting = None
    BY <1>1 DEF PageInv
  <2>2. ASSUME NEW t \in Tickers, Search(t)
        PROVE  flow' = Idle /\ ~busy /\ (query' # query \/ loads' = loads)
    BY <2>2 DEF Search, Show, Display
  <2>3. ASSUME NEW l \in loads, LoadReturns(l)
        PROVE  loads' = loads \ {l}
    BY <2>3 DEF LoadReturns
  <2>4. CASE PollReturns
    BY <1>1, <2>4 DEF PollReturns, Display
  <2>5. ~AwaitsPost
    BY <2>1 DEF AwaitsPost
  <2> QED
    BY <1>1, <2>2, <2>3, <2>4, <2>5
    DEF PageNext, PostAccepted, PostReady, PostRefused, Analyze, CancelledPollReturns,
        PollAsks, ServerMoves, page, pageVars
<1>2. PageInv /\ [PageNext]_pageVars => [EndsRightly]_pageVars
  BY <1>1
<1> QED
  BY <1>2, PageInvariant, PTL DEF PageSpec, PendingEndsForItsOwnReasons
-----------------------------------------------------------------------------
(* The technical lens                                                      *)

\* Every variable keeps its type.
THEOREM TechnicalTypeCorrect == TechnicalSpec => []TechnicalTypeOK
<1>1. TechnicalInit => TechnicalTypeOK
  BY DEF TechnicalInit, TechnicalTypeOK
<1>2. TechnicalTypeOK /\ [TechnicalNext]_closes => TechnicalTypeOK'
  BY AppendProperties DEF TechnicalTypeOK, TechnicalNext, CloseLands
<1> QED
  BY <1>1, <1>2, PTL DEF TechnicalSpec

\* The sum of terms that all lie on one side of a bound.
LEMMA SumBounds ==
    ASSUME NEW S, IsFiniteSet(S), NEW f, \A x \in S : f[x] \in Int, NEW c \in Int
    PROVE  /\ (\A x \in S : f[x] <= c) => SumFunctionOnSet(f, S) <= c * Cardinality(S)
           /\ (\A x \in S : c <= f[x]) => c * Cardinality(S) <= SumFunctionOnSet(f, S)
<1> DEFINE same == [x \in S |-> c]
<1>1. \A x \in S : same[x] = c /\ same[x] \in Int
  OBVIOUS
<1> HIDE DEF same
<1>2. SumFunctionOnSet(same, S) = c * Cardinality(S)
  BY <1>1, SumConstant
<1>3. (\A x \in S : f[x] <= c) => SumFunctionOnSet(f, S) <= SumFunctionOnSet(same, S)
  BY <1>1, SumMonotone
<1>4. (\A x \in S : c <= f[x]) => SumFunctionOnSet(same, S) <= SumFunctionOnSet(f, S)
  BY <1>1, SumMonotone
<1> QED
  BY <1>2, <1>3, <1>4

\* Closes that rise every day rise between any two days.
LEMMA RisingFar ==
    ASSUME NEW N \in Nat, NEW c, \A i \in 1 .. N : c[i] \in Int,
           \A i \in 2 .. N : c[i] > c[i - 1]
    PROVE  \A i, j \in 1 .. N : i < j => c[i] < c[j]
<1> DEFINE T == {d \in Nat : \A i \in 1 .. N : i + d <= N => c[i] + d <= c[i + d]}
<1>1. 0 \in T
  OBVIOUS
<1>2. ASSUME NEW d \in Nat, d \in T
      PROVE  d + 1 \in T
  <2> SUFFICES ASSUME NEW i \in 1 .. N, i + (d + 1) <= N
               PROVE  c[i] + (d + 1) <= c[i + (d + 1)]
    OBVIOUS
  <2>1. c[i] + d <= c[i + d] /\ i + d \in 1 .. N
    BY <1>2
  <2>2. PICK j \in 2 .. N : j = i + (d + 1) /\ j - 1 = i + d
    OBVIOUS
  <2>3. c[j] > c[j - 1] /\ c[j] \in Int /\ c[j - 1] \in Int /\ c[i] \in Int
    BY <2>1, <2>2
  <2> QED
    BY <2>1, <2>2, <2>3
<1>3. \A d \in Nat : d \in T
  <2> HIDE DEF T
  <2> QED
    BY <1>1, <1>2, NatInductionSet
<1>4. ASSUME NEW i \in 1 .. N, NEW j \in 1 .. N, i < j
      PROVE  c[i] < c[j]
  <2>1. PICK d \in Nat : d = j - i /\ d > 0 /\ i + d = j
    BY <1>4
  <2>2. c[i] + d <= c[j]
    BY <1>3, <2>1
  <2> QED
    BY <2>1, <2>2
<1> QED
  BY <1>4

\* With the factor Scale in every close a mean of a divisor of Scale's many
\* closes comes out even.
LEMMA MeanIsEven ==
    ASSUME NEW c, NEW v, NEW k \in Nat, NEW a \in Int, NEW b \in Int, a <= b,
           \A i \in a .. b : c[i] \in Int /\ v[i] = ((b - a + 1) * k) * c[i]
    PROVE  /\ SumFunctionOnSet(c, a .. b) \in Int
           /\ Mean(v, a, b) = k * SumFunctionOnSet(c, a .. b)
<1>1. IsFiniteSet(a .. b)
  BY FS_Interval
<1>2. PICK total \in Int : total = SumFunctionOnSet(c, a .. b)
  BY <1>1, SumSplits
<1>3. PICK n \in Nat \ {0} : n = b - a + 1
  OBVIOUS
<1>4. PICK scale \in Nat : scale = n * k
  OBVIOUS
<1>5. \A i \in a .. b : c[i] \in Int /\ v[i] = scale * c[i]
  BY <1>3, <1>4
<1>6. SumFunctionOnSet(v, a .. b) = scale * total
  BY SMTT(30), <1>1, <1>2, <1>5, SumTimes
<1>7. PICK m \in Int : m = k * total
  OBVIOUS
<1>8. scale * total = n * m
  BY <1>4, <1>7
<1>9. (n * m) \div n = m
  OBVIOUS
<1>10. Mean(v, a, b) = m
  BY <1>3, <1>6, <1>8, <1>9 DEF Mean
<1> QED
  BY <1>2, <1>7, <1>10

\* The means of closes that rise: the last S are above the last L of them, and
\* below the last one.
LEMMA RisingSums ==
    ASSUME NEW N \in Nat, NEW c, \A i \in 1 .. N : c[i] \in Int,
           \A i \in 2 .. N : c[i] > c[i - 1],
           NEW S \in Nat, NEW L \in Nat, 2 <= S, S < L, L <= N
    PROVE  \E short, long \in Int :
               /\ short = SumFunctionOnSet(c, (N - S + 1) .. N)
               /\ long = SumFunctionOnSet(c, (N - L + 1) .. N)
               /\ short < S * c[N] /\ S * long < L * short
<1>1. PICK a, b \in 1 .. N : a = N - S + 1 /\ b = N - L + 1 /\ b < a /\ a < N
  OBVIOUS
<1>0. \A i, j \in 1 .. N : i < j => c[i] < c[j]
  BY RisingFar
<1>2. PICK x, top \in Int : x = c[a] /\ top = c[N] /\ x < top
  <2>1. N \in 1 .. N /\ c[a] \in Int /\ c[N] \in Int /\ c[a] < c[N]
    BY <1>0, <1>1
  <2> QED
    BY <2>1
<1>3. \A i \in 1 .. N : /\ c[i] \in Int /\ c[i] <= top
                        /\ i >= a => x <= c[i]
                        /\ i < a => c[i] <= x - 1
  <2> SUFFICES ASSUME NEW i \in 1 .. N
               PROVE  /\ c[i] \in Int /\ c[i] <= top
                      /\ i >= a => x <= c[i]
                      /\ i < a => c[i] <= x - 1
    OBVIOUS
  <2>1. c[i] \in Int /\ (i < a => c[i] < x) /\ (a < i => x < c[i]) /\ (i < N => c[i] < top)
    <3>1. N \in 1 .. N /\ a \in 1 .. N /\ c[i] \in Int /\ c[a] = x /\ c[N] = top
      BY <1>1, <1>2
    <3>2. (i < a => c[i] < c[a]) /\ (a < i => c[a] < c[i]) /\ (i < N => c[i] < c[N])
      BY <1>0, <3>1
    <3> QED
      BY <3>1, <3>2
  <2>2. i = a => c[i] = x
    BY <1>2
  <2>3. i = N => c[i] = top
    BY <1>2
  <2> QED
    BY <1>1, <2>1, <2>2, <2>3
<1>4. /\ IsFiniteSet(a .. N) /\ IsFiniteSet(b .. N) /\ IsFiniteSet(b .. (a - 1))
      /\ IsFiniteSet((a + 1) .. N) /\ Cardinality(a .. N) = S
      /\ Cardinality((a + 1) .. N) = S - 1 /\ Cardinality(b .. (a - 1)) = L - S
  <2>1. /\ IsFiniteSet(a .. N) /\ Cardinality(a .. N) = N - a + 1
    BY <1>1, FS_Interval
  <2>2. /\ IsFiniteSet((a + 1) .. N) /\ Cardinality((a + 1) .. N) = N - (a + 1) + 1
    BY <1>1, FS_Interval
  <2>3. /\ IsFiniteSet(b .. (a - 1)) /\ Cardinality(b .. (a - 1)) = (a - 1) - b + 1
    BY <1>1, FS_Interval
  <2>4. IsFiniteSet(b .. N)
    BY <1>1, FS_Interval
  <2> QED
    BY <1>1, <2>1, <2>2, <2>3, <2>4
<1>5. \A i \in b .. N : c[i] \in Int
  BY <1>1, <1>3
<1>6. PICK short, rest, old, long \in Int :
          /\ short = SumFunctionOnSet(c, a .. N)
          /\ rest = SumFunctionOnSet(c, (a + 1) .. N)
          /\ old = SumFunctionOnSet(c, b .. (a - 1))
          /\ long = SumFunctionOnSet(c, b .. N)
  <2>1. /\ \A i \in a .. N : c[i] \in Int
        /\ \A i \in (a + 1) .. N : c[i] \in Int
        /\ \A i \in b .. (a - 1) : c[i] \in Int
    BY <1>1, <1>3
  <2>2. /\ SumFunctionOnSet(c, a .. N) \in Int /\ SumFunctionOnSet(c, (a + 1) .. N) \in Int
        /\ SumFunctionOnSet(c, b .. (a - 1)) \in Int /\ SumFunctionOnSet(c, b .. N) \in Int
    BY <1>4, <1>5, <2>1, SumSplits
  <2> QED
    BY <2>2
<1>7. long = short + old
  <2>1. a .. N \in SUBSET (b .. N) /\ (b .. N) \ (a .. N) = b .. (a - 1)
    BY <1>1
  <2>2. SumFunctionOnSet(c, b .. N)
          = SumFunctionOnSet(c, a .. N) + SumFunctionOnSet(c, (b .. N) \ (a .. N))
    BY <1>4, <1>5, <2>1, SumParts
  <2> QED
    BY <1>6, <2>1, <2>2
<1>8. short = x + rest
  <2>1. a \in a .. N /\ (a .. N) \ {a} = (a + 1) .. N
    BY <1>1
  <2>2. \A i \in a .. N : c[i] \in Int
    BY <1>1, <1>3
  <2>3. SumFunctionOnSet(c, a .. N) = c[a] + SumFunctionOnSet(c, (a .. N) \ {a})
    BY <1>4, <2>1, <2>2, SumSplits
  <2> QED
    BY <1>2, <1>6, <2>1, <2>3
<1>9. x * S <= short
  <2>1. \A i \in a .. N : c[i] \in Int /\ x <= c[i]
    BY <1>1, <1>3
  <2> QED
    BY <1>4, <1>6, <2>1, SumBounds
<1>10. rest <= top * (S - 1)
  <2>1. \A i \in (a + 1) .. N : c[i] \in Int /\ c[i] <= top
    BY <1>1, <1>3
  <2> QED
    BY <1>4, <1>6, <2>1, SumBounds
<1>11. old <= (x - 1) * (L - S)
  <2>1. \A i \in b .. (a - 1) : c[i] \in Int /\ c[i] <= x - 1
    BY <1>1, <1>3
  <2>2. x - 1 \in Int
    OBVIOUS
  <2> QED
    BY <1>4, <1>6, <2>1, <2>2, SumBounds
<1>12. short < S * top
  <2>1. top * (S - 1) = S * top - top
    OBVIOUS
  <2> QED
    BY <1>2, <1>8, <1>10, <2>1
<1>13. S * long < L * short
  <2>1. PICK d \in Nat \ {0} : d = L - S /\ L = S + d
    OBVIOUS
  <2>2. S * long = S * short + S * old
    BY <1>7
  <2>3. L * short = S * short + d * short
    BY <2>1
  <2>4. S * old <= S * ((x - 1) * d)
    BY <1>11, <2>1, CancelFactor
  <2>5. d * (x * S) <= d * short
    BY <1>9, CancelFactor
  <2>6. S * ((x - 1) * d) = d * (x * S) - d * S
    OBVIOUS
  <2>7. d * S > 0 /\ d * S \in Nat
    OBVIOUS
  <2>8. /\ S * long \in Int /\ L * short \in Int /\ S * short \in Int /\ S * old \in Int
        /\ d * short \in Int /\ d * (x * S) \in Int
    OBVIOUS
  <2> QED
    BY <2>2, <2>3, <2>4, <2>5, <2>6, <2>7, <2>8
<1> QED
  BY <1>1, <1>2, <1>6, <1>12, <1>13

\* What the lens reads is a sequence of closes.
LEMMA ReadIsCloses ==
    ASSUME TechnicalConstantsOK, TechnicalTypeOK
    PROVE  Read(closes) \in Seq(Closes)
<1>1. closes \in Seq(Closes) /\ Len(closes) \in Nat
  BY DEF TechnicalTypeOK
<1>2. PICK from \in Nat :
          /\ Read(closes) = SubSeq(closes, from, Len(closes)) /\ from >= 1
  <2>1. HistoryBars \in Nat
    BY DEF TechnicalConstantsOK
  <2>2. CASE Len(closes) > HistoryBars
    <3>1. PICK from \in Nat : from = Len(closes) - HistoryBars + 1 /\ from >= 1
      BY <1>1, <2>1, <2>2
    <3>2. Read(closes) = SubSeq(closes, Len(closes) - HistoryBars + 1, Len(closes))
      BY <2>2 DEF Read
    <3> QED
      BY <3>1, <3>2
  <2>3. CASE ~(Len(closes) > HistoryBars)
    <3>1. Read(closes) = SubSeq(closes, 1, Len(closes))
      BY <2>3 DEF Read
    <3> QED
      BY <3>1
  <2> QED
    BY <2>2, <2>3
<1>3. \A i \in from .. Len(closes) : closes[i] \in Closes
  BY <1>1, <1>2
<1> QED
  BY <1>1, <1>2, <1>3, SubSeqProperties

\* While the closes only rise the trend has its full vote, and the two
\* counter-trend votes together at most take it back.
THEOREM RisingLensNeverNegative ==
    ASSUME TechnicalConstantsOK
    PROVE  TechnicalSpec => []RisingNeverNegative
<1>1. ASSUME TechnicalTypeOK, TechnicalOk(closes),
             \A i \in 2 .. Len(Read(closes)) : Read(closes)[i] > Read(closes)[i - 1]
      PROVE  TechnicalScore(closes) >= 0
  <2> DEFINE c == Read(closes)
             v == [i \in DOMAIN c |-> Scale * c[i]]
  <2>1. PICK N \in Nat : N = Len(c) /\ N >= MinBars /\ DOMAIN c = 1 .. N
    BY <1>1, ReadIsCloses DEF TechnicalOk
  <2>2. \A i \in 1 .. N : c[i] \in Int
    <3>1. c \in Seq(Closes)
      BY <1>1, ReadIsCloses
    <3>2. Closes \subseteq Int
      BY DEF TechnicalConstantsOK
    <3>3. \A i \in 1 .. N : c[i] \in Closes
      <4> HIDE DEF c
      <4> QED
        BY <2>1, <3>1
    <3> QED
      BY <3>2, <3>3
  <2>3. \A i \in 1 .. N : v[i] = Scale * c[i]
    BY <2>1
  <2>4. v \in Seq(Int) /\ Len(v) = N
    <3>1. \A i \in 1 .. N : Scale * c[i] \in Int
      BY <2>2 DEF TechnicalConstantsOK
    <3> QED
      BY <2>1, <3>1
  <2>5. PICK S, L, K \in Nat \ {0} :
            /\ S = MaShort /\ L = MaLong /\ K = Scale
            /\ 2 <= S /\ S < L /\ L <= N
            /\ \E k \in Nat : K = S * k
            /\ \E k \in Nat : K = L * k
    <3>1. PICK k \in Nat, l \in Nat : Scale = MaShort * k /\ Scale = MaLong * l
      BY DEF TechnicalConstantsOK, ScaleIsEven, Divides
    <3>2. /\ MaShort \in Nat \ {0} /\ MaLong \in Nat \ {0} /\ Scale \in Nat \ {0}
          /\ 2 <= MaShort /\ MaShort < MaLong /\ MaLong <= N
      BY <2>1 DEF TechnicalConstantsOK
    <3> QED
      BY <3>1, <3>2
  <2>6. \A i \in 2 .. N : c[i] > c[i - 1]
    BY <1>1, <2>1
  <2> HIDE DEF c, v
  <2>7. PICK short, long \in Int :
            /\ short = SumFunctionOnSet(c, (N - S + 1) .. N)
            /\ long = SumFunctionOnSet(c, (N - L + 1) .. N)
            /\ short < S * c[N] /\ S * long < L * short
    BY <2>2, <2>5, <2>6, RisingSums
  <2>8. PICK ma20 \in Int : ma20 = Sma(v, MaShort) /\ S * ma20 = K * short
    <3>1. PICK k \in Nat : K = S * k
      BY <2>5
    <3>2. PICK a \in Int : a = N - S + 1 /\ S = N - a + 1 /\ 1 <= a /\ a <= N
      BY <2>5
    <3>3. \A i \in a .. N : c[i] \in Int /\ v[i] = ((N - a + 1) * k) * c[i]
      BY <2>2, <2>3, <2>5, <3>1, <3>2
    <3>4. Mean(v, a, N) = k * short
      <4>1. N \in Int /\ a <= N
        BY <3>2
      <4>2. Mean(v, a, N) = k * SumFunctionOnSet(c, a .. N)
        BY <3>3, <4>1, MeanIsEven
      <4> QED
        BY <2>7, <3>2, <4>2
    <3>5. Sma(v, MaShort) = Mean(v, a, N)
      BY <2>4, <2>5, <3>2 DEF Sma
    <3>6. PICK m \in Int : m = k * short
      OBVIOUS
    <3>7. S * m = K * short
      BY <3>1, <3>6
    <3> QED
      BY <3>4, <3>5, <3>6, <3>7
  <2>9. PICK ma60 \in Int : ma60 = Sma(v, MaLong) /\ L * ma60 = K * long
    <3>1. PICK k \in Nat : K = L * k
      BY <2>5
    <3>2. PICK a \in Int : a = N - L + 1 /\ L = N - a + 1 /\ 1 <= a /\ a <= N
      BY <2>5
    <3>3. \A i \in a .. N : c[i] \in Int /\ v[i] = ((N - a + 1) * k) * c[i]
      BY <2>2, <2>3, <2>5, <3>1, <3>2
    <3>4. Mean(v, a, N) = k * long
      <4>1. N \in Int /\ a <= N
        BY <3>2
      <4>2. Mean(v, a, N) = k * SumFunctionOnSet(c, a .. N)
        BY <3>3, <4>1, MeanIsEven
      <4> QED
        BY <2>7, <3>2, <4>2
    <3>5. Sma(v, MaLong) = Mean(v, a, N)
      BY <2>4, <2>5, <3>2 DEF Sma
    <3>6. PICK m \in Int : m = k * long
      OBVIOUS
    <3>7. L * m = K * long
      BY <3>1, <3>6
    <3> QED
      BY <3>4, <3>5, <3>6, <3>7
  <2>10. PICK top \in Int : top = c[N]
    BY <2>2, <2>5
  <2>11. Last(v) = K * top /\ K * top \in Int
    <3>1. Last(v) = v[N]
      BY <2>4 DEF Last
    <3>2. N \in 1 .. N
      BY <2>5
    <3> QED
      BY <2>3, <2>5, <2>10, <3>1, <3>2
  <2>12. ma20 < K * top
    <3>0. PICK p \in Int : p = S * top
      OBVIOUS
    <3>00. short < p
      BY <2>7, <2>10, <3>0
    <3>1. K * short < K * (S * top)
      BY <3>0, <3>00, TimesStrict
    <3>2. K * (S * top) = S * (K * top)
      OBVIOUS
    <3>3. S * ma20 < S * (K * top)
      BY <2>8, <3>1, <3>2
    <3> QED
      BY <3>3, CancelFactor, <2>11
  <2>13. ma60 < ma20
    <3>0. PICK p, q \in Int : p = S * long /\ q = L * short
      OBVIOUS
    <3>00. p < q
      BY <2>7, <3>0
    <3>1. K * (S * long) < K * (L * short)
      BY <3>0, <3>00, TimesStrict
    <3>2. K * (S * long) = S * (L * ma60)
      BY <2>9
    <3>3. K * (L * short) = L * (S * ma20)
      BY <2>8
    <3>4. S * (L * ma60) = (S * L) * ma60 /\ L * (S * ma20) = (S * L) * ma20
      OBVIOUS
    <3>5. (S * L) * ma60 < (S * L) * ma20 /\ S * L \in Nat \ {0}
      BY <3>1, <3>2, <3>3, <3>4
    <3> QED
      BY <3>5, CancelFactor
  <2>14. TrendVote(Last(v), Sma(v, MaShort), Sma(v, MaLong)) = 10
    BY <2>8, <2>9, <2>11, <2>12, <2>13 DEF TrendVote
  <2>15. RsiVote(v) \in {5, -5, 0}
    BY DEF RsiVote
  <2>16. MacdVote(MacdHist(v)) \in {5, -5, 0}
    BY DEF MacdVote
  <2>17. TechnicalScore(closes) =
             TrendVote(Last(v), Sma(v, MaShort), Sma(v, MaLong)) + RsiVote(v)
             + MacdVote(MacdHist(v))
    BY DEF TechnicalScore, v, c
  <2> QED
    BY <2>14, <2>15, <2>16, <2>17
<1>2. TechnicalTypeOK => RisingNeverNegative
  BY <1>1 DEF RisingNeverNegative
<1> QED
  BY <1>2, TechnicalTypeCorrect, PTL
-----------------------------------------------------------------------------
(* The technical lens and the mirror: the averages of prices that carry    *)
(* Scale come out even, so those of the mirror image mirror them.          *)

\* The powers that an average divides by.
LEMMA PowersUnwind ==
    ASSUME HistoryBars \in Nat, NEW b \in Nat \ {0}
    PROVE  /\ \A i \in 0 .. HistoryBars : Powers(b)[i] \in Nat \ {0}
           /\ Powers(b)[0] = 1
           /\ \A i \in 1 .. HistoryBars : Powers(b)[i] = b * Powers(b)[i - 1]
<1> DEFINE Body(g) == [i \in 0 .. HistoryBars |-> IF i = 0 THEN 1 ELSE b * g[i - 1]]
           times == [x \in Int |-> b * x]
           step == [i \in 0 .. HistoryBars |-> times]
           power == Powers(b)
<1>1. times \in [Int -> Int] /\ \A x \in Int : times[x] = b * x
  OBVIOUS
<1> HIDE DEF times
<1>2. \A i \in 0 .. HistoryBars, x \in Int : step[i][x] \in Int
  BY <1>1
<1>3. \A i \in 0 .. HistoryBars, x \in Int : step[i][x] = b * x
  BY <1>1
<1> HIDE DEF step
<1>4. PICK f : Recurs(f, 0, HistoryBars, 1, step)
  <2>1. 0 \in Int /\ 1 \in Int /\ HistoryBars \in Int /\ 0 <= HistoryBars
    OBVIOUS
  <2>2. StepsOf(step, 0, HistoryBars)
    BY <1>2 DEF StepsOf
  <2> QED
    BY <2>1, <2>2, RecursionExists
<1>5. f = Body(f)
  <2>0. f \in [0 .. HistoryBars -> Int]
    BY <1>4 DEF Recurs
  <2>1. ASSUME NEW i \in 0 .. HistoryBars
        PROVE  f[i] = IF i = 0 THEN 1 ELSE b * f[i - 1]
    <3>1. CASE i = 0
      BY <1>4, <3>1 DEF Recurs
    <3>2. CASE i # 0
      <4>1. i > 0 /\ i - 1 \in 0 .. HistoryBars
        BY <3>2
      <4> QED
        BY <1>3, <1>4, <3>2, <4>1 DEF Recurs
    <3> QED
      BY <3>1, <3>2
  <2> QED
    BY <2>0, <2>1
<1>6. power = CHOOSE g : g = Body(g)
  BY DEF Powers
<1>7. power = Body(power)
  <2> HIDE DEF Body, power
  <2> QED
    BY <1>5, <1>6
<1> HIDE DEF power
<1>8. power[0] = 1 /\ \A i \in 1 .. HistoryBars : power[i] = b * power[i - 1]
  <2>1. \A i \in 0 .. HistoryBars : power[i] = IF i = 0 THEN 1 ELSE b * power[i - 1]
    BY <1>7
  <2> QED
    BY <2>1
<1> DEFINE T == {i \in Nat : i <= HistoryBars => power[i] \in Nat \ {0}}
<1>9. 0 \in T
  BY <1>8
<1>10. ASSUME NEW i \in Nat, i \in T
      PROVE  i + 1 \in T
  <2> SUFFICES ASSUME i + 1 <= HistoryBars
               PROVE  power[i + 1] \in Nat \ {0}
    OBVIOUS
  <2>1. power[i] \in Nat \ {0} /\ i + 1 \in 1 .. HistoryBars /\ (i + 1) - 1 = i
    BY <1>10
  <2>2. power[i + 1] = b * power[i]
    BY <1>8, <2>1
  <2> QED
    BY <2>1, <2>2
<1>11. \A i \in Nat : i \in T
  <2> HIDE DEF T
  <2> QED
    BY <1>9, <1>10, NatInductionSet
<1> QED
  BY <1>8, <1>11 DEF power

\* A greater power is a multiple of a lesser one.
LEMMA PowersDivide ==
    ASSUME HistoryBars \in Nat, NEW b \in Nat \ {0}, NEW i \in 0 .. HistoryBars,
           NEW m \in i .. HistoryBars
    PROVE  \E k \in Nat \ {0} : Powers(b)[m] = Powers(b)[i] * k
<1> DEFINE P == Powers(b)
           T == {d \in Nat : i + d <= HistoryBars => \E k \in Nat \ {0} : P[i + d] = P[i] * k}
<1>1. /\ \A n \in 0 .. HistoryBars : P[n] \in Nat \ {0}
      /\ \A n \in 1 .. HistoryBars : P[n] = b * P[n - 1]
  BY PowersUnwind
<1> HIDE DEF P
<1>2. 0 \in T
  <2>1. P[i + 0] = P[i] * 1
    BY <1>1
  <2> QED
    BY <2>1
<1>3. ASSUME NEW d \in Nat, d \in T
      PROVE  d + 1 \in T
  <2> SUFFICES ASSUME i + (d + 1) <= HistoryBars
               PROVE  \E k \in Nat \ {0} : P[i + (d + 1)] = P[i] * k
    OBVIOUS
  <2>1. PICK k \in Nat \ {0} : P[i + d] = P[i] * k
    BY <1>3
  <2>2. PICK n \in 1 .. HistoryBars : n = i + (d + 1) /\ n - 1 = i + d
    OBVIOUS
  <2>3. PICK x \in Nat \ {0} : x = P[i]
    BY <1>1
  <2>4. P[n] = b * (x * k)
    BY <1>1, <2>1, <2>2, <2>3
  <2>5. b * (x * k) = x * (b * k) /\ b * k \in Nat \ {0}
    OBVIOUS
  <2> QED
    BY <2>2, <2>3, <2>4, <2>5
<1>4. \A d \in Nat : d \in T
  <2> HIDE DEF T
  <2> QED
    BY <1>2, <1>3, NatInductionSet
<1>5. PICK d \in Nat : d = m - i /\ i + d = m
  OBVIOUS
<1> QED
  BY <1>4, <1>5 DEF P

\* A mean of integers is an integer.
LEMMA MeanIsInteger ==
    ASSUME NEW v, NEW p \in Nat \ {0}, \A i \in 1 .. p : v[i] \in Int
    PROVE  Mean(v, 1, p) \in Int
<1>1. 1 \in Int /\ p \in Int
  OBVIOUS
<1>2. IsFiniteSet(1 .. p)
  BY <1>1, FS_Interval
<1>3. PICK total \in Int : total = SumFunctionOnSet(v, 1 .. p)
  BY <1>2, SumSplits
<1>4. total \div (p - 1 + 1) \in Int
  OBVIOUS
<1> QED
  BY <1>3, <1>4 DEF Mean

\* The recursion of the exponential average does what it says.
LEMMA EmaUnwinds ==
    ASSUME NEW v, NEW p \in Nat \ {0}, NEW N \in Nat, N = Len(v), p <= N,
           \A i \in 1 .. N : v[i] \in Int
    PROVE  /\ \A i \in p .. N : Ema(v, p)[i] \in Int
           /\ Ema(v, p)[p] = Mean(v, 1, p)
           /\ \A i \in (p + 1) .. N :
                 Ema(v, p)[i] =
                     Ema(v, p)[i - 1] + (2 * (v[i] - Ema(v, p)[i - 1])) \div (p + 1)
<1> DEFINE Body(g) == [i \in p .. N |->
                          IF i = p THEN Mean(v, 1, p)
                          ELSE g[i - 1] + (2 * (v[i] - g[i - 1])) \div (p + 1)]
           toward(y) == [x \in Int |-> x + (2 * (y - x)) \div (p + 1)]
           step == [i \in p .. N |-> toward(v[i])]
           ema == Ema(v, p)
<1>1. PICK seed \in Int : seed = Mean(v, 1, p)
  BY MeanIsInteger
<1>2. ASSUME NEW i \in p .. N, NEW x \in Int
      PROVE  step[i][x] = x + (2 * (v[i] - x)) \div (p + 1)
  BY DEF toward
<1>3. \A i \in p .. N : v[i] \in Int
  OBVIOUS
<1>4. \A i \in p .. N, x \in Int : step[i][x] \in Int
  <2> TAKE i \in p .. N, x \in Int
  <2>1. PICK y \in Int : y = v[i]
    BY <1>3
  <2>2. x + (2 * (y - x)) \div (p + 1) \in Int
    OBVIOUS
  <2> QED
    BY <1>2, <2>1, <2>2
<1>5. \A i \in p .. N, x \in Int : step[i][x] = x + (2 * (v[i] - x)) \div (p + 1)
  BY <1>2
<1> HIDE DEF step
<1>6. PICK f : Recurs(f, p, N, seed, step)
  <2>1. p \in Int /\ N \in Int /\ p <= N
    OBVIOUS
  <2>2. StepsOf(step, p, N)
    BY <1>4 DEF StepsOf
  <2> QED
    BY <2>1, <2>2, RecursionExists
<1>7. f = Body(f)
  <2>0. f \in [p .. N -> Int]
    BY <1>6 DEF Recurs
  <2>1. ASSUME NEW i \in p .. N
        PROVE  f[i] = IF i = p THEN Mean(v, 1, p)
                      ELSE f[i - 1] + (2 * (v[i] - f[i - 1])) \div (p + 1)
    <3>1. CASE i = p
      BY <1>1, <1>6, <3>1 DEF Recurs
    <3>2. CASE i # p
      <4>1. i > p /\ i - 1 \in p .. N
        BY <3>2
      <4>2. f[i] = step[i][f[i - 1]] /\ f[i - 1] \in Int
        BY <1>6, <4>1 DEF Recurs
      <4>3. step[i][f[i - 1]] = f[i - 1] + (2 * (v[i] - f[i - 1])) \div (p + 1)
        BY <1>5, <4>1, <4>2
      <4> QED
        BY <3>2, <4>2, <4>3
    <3> QED
      BY <3>1, <3>2
  <2> QED
    BY <2>0, <2>1
<1>8. ema = CHOOSE g : g = Body(g)
  BY DEF Ema
<1>9. ema = Body(ema)
  <2> HIDE DEF Body, ema
  <2> QED
    BY <1>7, <1>8
<1> HIDE DEF ema
<1>10. \A i \in p .. N :
         ema[i] = IF i = p THEN Mean(v, 1, p)
                  ELSE ema[i - 1] + (2 * (v[i] - ema[i - 1])) \div (p + 1)
  BY <1>9
<1> HIDE DEF Body
<1>11. ema[p] = seed
  BY <1>1, <1>10
<1>12. \A i \in (p + 1) .. N : ema[i] = ema[i - 1] + (2 * (v[i] - ema[i - 1])) \div (p + 1)
  <2> TAKE i \in (p + 1) .. N
  <2>1. i \in p .. N /\ i # p
    OBVIOUS
  <2> QED
    BY <1>10, <2>1
<1> DEFINE T == {d \in Nat : p + d <= N => ema[p + d] \in Int}
<1>13. 0 \in T
  BY <1>11
<1>14. ASSUME NEW d \in Nat, d \in T
       PROVE  d + 1 \in T
  <2> SUFFICES ASSUME p + (d + 1) <= N
               PROVE  ema[p + (d + 1)] \in Int
    OBVIOUS
  <2>1. PICK i \in (p + 1) .. N : i = p + (d + 1) /\ i - 1 = p + d
    OBVIOUS
  <2>2. ema[i - 1] \in Int /\ v[i] \in Int
    BY <1>3, <1>14, <2>1
  <2>3. PICK x, y \in Int : x = ema[i - 1] /\ y = v[i]
    BY <2>2
  <2>4. x + (2 * (y - x)) \div (p + 1) \in Int
    OBVIOUS
  <2> QED
    BY <1>12, <2>1, <2>3, <2>4
<1>15. \A d \in Nat : d \in T
  <2> HIDE DEF T
  <2> QED
    BY <1>13, <1>14, NatInductionSet
<1>16. ASSUME NEW i \in p .. N
       PROVE  ema[i] \in Int
  <2>1. PICK d \in Nat : d = i - p /\ p + d = i
    OBVIOUS
  <2>2. d \in T
    BY <1>15
  <2> QED
    BY <2>1, <2>2
<1> QED
  BY <1>1, <1>11, <1>12, <1>16 DEF ema

\* The recursion of Wilder's average does what it says.
LEMMA WilderUnwinds ==
    ASSUME NEW change, RsiPeriod \in Nat \ {0}, NEW N \in Nat, N = Len(change),
           RsiPeriod <= N, \A i \in 1 .. N : change[i] \in Int
    PROVE  /\ \A i \in RsiPeriod .. N : WilderAverage(change)[i] \in Int
           /\ WilderAverage(change)[RsiPeriod] = Mean(change, 1, RsiPeriod)
           /\ \A i \in (RsiPeriod + 1) .. N :
                 WilderAverage(change)[i] =
                     (WilderAverage(change)[i - 1] * (RsiPeriod - 1) + change[i]) \div RsiPeriod
<1> DEFINE Body(g) == [i \in RsiPeriod .. N |->
                          IF i = RsiPeriod THEN Mean(change, 1, RsiPeriod)
                          ELSE (g[i - 1] * (RsiPeriod - 1) + change[i]) \div RsiPeriod]
           with(y) == [x \in Int |-> (x * (RsiPeriod - 1) + y) \div RsiPeriod]
           step == [i \in RsiPeriod .. N |-> with(change[i])]
           avg == WilderAverage(change)
<1>1. PICK seed \in Int : seed = Mean(change, 1, RsiPeriod)
  <2>1. \A i \in 1 .. RsiPeriod : change[i] \in Int
    OBVIOUS
  <2> QED
    BY <2>1, MeanIsInteger
<1>2. ASSUME NEW i \in RsiPeriod .. N, NEW x \in Int
      PROVE  step[i][x] = (x * (RsiPeriod - 1) + change[i]) \div RsiPeriod
  BY DEF with
<1>3. \A i \in RsiPeriod .. N : change[i] \in Int
  OBVIOUS
<1>4. \A i \in RsiPeriod .. N, x \in Int : step[i][x] \in Int
  <2> TAKE i \in RsiPeriod .. N, x \in Int
  <2>1. PICK y \in Int : y = change[i]
    BY <1>3
  <2>2. PICK t \in Int : t = x * (RsiPeriod - 1) + y
    OBVIOUS
  <2>3. t \div RsiPeriod \in Int
    OBVIOUS
  <2> QED
    BY <1>2, <2>1, <2>2, <2>3
<1>5. \A i \in RsiPeriod .. N, x \in Int :
          step[i][x] = (x * (RsiPeriod - 1) + change[i]) \div RsiPeriod
  BY <1>2
<1> HIDE DEF step
<1>6. PICK f : Recurs(f, RsiPeriod, N, seed, step)
  <2>1. RsiPeriod \in Int /\ N \in Int /\ RsiPeriod <= N
    OBVIOUS
  <2>2. StepsOf(step, RsiPeriod, N)
    BY <1>4 DEF StepsOf
  <2> QED
    BY <2>1, <2>2, RecursionExists
<1>7. f = Body(f)
  <2>1. f \in [RsiPeriod .. N -> Int]
    BY <1>6 DEF Recurs
  <2>2. ASSUME NEW i \in RsiPeriod .. N
        PROVE  f[i] = IF i = RsiPeriod THEN Mean(change, 1, RsiPeriod)
                      ELSE (f[i - 1] * (RsiPeriod - 1) + change[i]) \div RsiPeriod
    <3>1. CASE i = RsiPeriod
      BY <1>1, <1>6, <3>1 DEF Recurs
    <3>2. CASE i # RsiPeriod
      <4>1. i > RsiPeriod /\ i - 1 \in RsiPeriod .. N
        BY <3>2
      <4>2. f[i] = step[i][f[i - 1]] /\ f[i - 1] \in Int
        BY <1>6, <4>1 DEF Recurs
      <4>3. step[i][f[i - 1]] = (f[i - 1] * (RsiPeriod - 1) + change[i]) \div RsiPeriod
        BY <1>5, <4>1, <4>2
      <4> QED
        BY <3>2, <4>2, <4>3
    <3> QED
      BY <3>1, <3>2
  <2> QED
    BY <2>1, <2>2
<1>8. avg = CHOOSE g : g = Body(g)
  BY DEF WilderAverage
<1>9. avg = Body(avg)
  <2> HIDE DEF Body, avg
  <2> QED
    BY <1>7, <1>8
<1> HIDE DEF avg
<1>10. \A i \in RsiPeriod .. N :
         avg[i] = IF i = RsiPeriod THEN Mean(change, 1, RsiPeriod)
                  ELSE (avg[i - 1] * (RsiPeriod - 1) + change[i]) \div RsiPeriod
  BY <1>9
<1> HIDE DEF Body
<1>11. avg[RsiPeriod] = seed
  BY <1>1, <1>10
<1>12. \A i \in (RsiPeriod + 1) .. N :
           avg[i] = (avg[i - 1] * (RsiPeriod - 1) + change[i]) \div RsiPeriod
  <2> TAKE i \in (RsiPeriod + 1) .. N
  <2>1. i \in RsiPeriod .. N /\ i # RsiPeriod
    OBVIOUS
  <2> QED
    BY <1>10, <2>1
<1> DEFINE T == {d \in Nat : RsiPeriod + d <= N => avg[RsiPeriod + d] \in Int}
<1>13. 0 \in T
  BY <1>11
<1>14. ASSUME NEW d \in Nat, d \in T
       PROVE  d + 1 \in T
  <2> SUFFICES ASSUME RsiPeriod + (d + 1) <= N
               PROVE  avg[RsiPeriod + (d + 1)] \in Int
    OBVIOUS
  <2>1. PICK i \in (RsiPeriod + 1) .. N : i = RsiPeriod + (d + 1) /\ i - 1 = RsiPeriod + d
    OBVIOUS
  <2>2. avg[i - 1] \in Int /\ change[i] \in Int
    BY <1>3, <1>14, <2>1
  <2>3. PICK x, y \in Int : x = avg[i - 1] /\ y = change[i]
    BY <2>2
  <2>4. PICK t \in Int : t = x * (RsiPeriod - 1) + y
    OBVIOUS
  <2>5. t \div RsiPeriod \in Int
    OBVIOUS
  <2> QED
    BY <1>12, <2>1, <2>3, <2>4, <2>5
<1>15. \A d \in Nat : d \in T
  <2> HIDE DEF T
  <2> QED
    BY <1>13, <1>14, NatInductionSet
<1>16. ASSUME NEW i \in RsiPeriod .. N
       PROVE  avg[i] \in Int
  <2>1. PICK d \in Nat : d = i - RsiPeriod /\ RsiPeriod + d = i
    OBVIOUS
  <2>2. d \in T
    BY <1>15
  <2> QED
    BY <2>1, <2>2
<1> QED
  BY <1>1, <1>11, <1>12, <1>16 DEF avg

\* The terms of v in an interval are multiples of d; those of w mirror them.
Multiples(v, from, to, d) == \A i \in from .. to : \E x \in Int : v[i] = d * x

Mirrors(w, v, from, to, c) == \A i \in from .. to : v[i] \in Int /\ w[i] = c - v[i]

\* The mean of v's terms is a multiple of k, and the mean of w's mirrors it.
MeansMirror(w, v, from, to, k, c) ==
    \E t \in Int : Mean(v, from, to) = k * t /\ Mean(w, from, to) = c - k * t

\* Where it comes out even, the mean of the mirrored terms mirrors the mean.
LEMMA MeanMirrors ==
    ASSUME NEW from \in Int, NEW to \in Int, from <= to,
           NEW k \in Nat, NEW c \in Int, NEW v, NEW w,
           Multiples(v, from, to, (to - from + 1) * k), Mirrors(w, v, from, to, c)
    PROVE  MeansMirror(w, v, from, to, k, c)
<1>0. PICK n \in Nat \ {0} : n = to - from + 1
  OBVIOUS
<1> DEFINE x == [i \in from .. to |-> CHOOSE y \in Int : v[i] = (n * k) * y]
           same == [i \in from .. to |-> c]
           minus == [i \in from .. to |-> -v[i]]
<1>1. IsFiniteSet(from .. to) /\ Cardinality(from .. to) = n
  BY <1>0, FS_Interval
<1>2. PICK scale \in Nat : scale = n * k
  OBVIOUS
<1>3. \A i \in from .. to : x[i] \in Int /\ v[i] = scale * x[i]
  <2> TAKE i \in from .. to
  <2>1. \E y \in Int : v[i] = (n * k) * y
    BY <1>0 DEF Multiples
  <2>2. x[i] = CHOOSE y \in Int : v[i] = (n * k) * y
    OBVIOUS
  <2>3. x[i] \in Int /\ v[i] = (n * k) * x[i]
    <3> HIDE DEF x
    <3> QED
      BY <2>1, <2>2
  <2> QED
    BY <1>2, <2>3
<1>4. \A i \in from .. to :
          /\ v[i] \in Int /\ same[i] = c /\ minus[i] \in Int /\ minus[i] = (-1) * v[i]
          /\ w[i] = same[i] + minus[i]
  BY DEF Mirrors
<1> HIDE DEF x, same, minus
<1>5. PICK t \in Int : t = SumFunctionOnSet(x, from .. to)
  BY <1>1, <1>3, SumSplits
<1>6. SumFunctionOnSet(v, from .. to) = scale * t
  BY <1>1, <1>3, <1>5, SumTimes
<1>7. SumFunctionOnSet(same, from .. to) = c * n
  <2>1. \A i \in from .. to : same[i] = c
    BY <1>4
  <2>2. SumFunctionOnSet(same, from .. to) = c * Cardinality(from .. to)
    BY <1>1, <2>1, SumConstant
  <2> QED
    BY <1>1, <2>2
<1>8. SumFunctionOnSet(minus, from .. to) = (-1) * SumFunctionOnSet(v, from .. to)
  <2>1. -1 \in Int
    OBVIOUS
  <2> QED
    BY <1>1, <1>4, <2>1, SumTimes
<1>9. SumFunctionOnSet(w, from .. to)
        = SumFunctionOnSet(same, from .. to) + SumFunctionOnSet(minus, from .. to)
  BY <1>1, <1>4, SumPlus
<1>10. PICK m \in Int : m = k * t
  OBVIOUS
<1>11. scale * t = n * m
  BY <1>2, <1>10
<1>12. SumFunctionOnSet(w, from .. to) = n * (c - m)
  <2>1. SumFunctionOnSet(w, from .. to) = c * n - n * m
    BY <1>6, <1>7, <1>8, <1>9, <1>11
  <2>2. n * (c - m) = c * n - n * m
    OBVIOUS
  <2> QED
    BY <2>1, <2>2
<1>13. (n * m) \div n = m
  OBVIOUS
<1>14. (n * (c - m)) \div n = c - m
  <2>1. PICK d \in Int : d = c - m
    OBVIOUS
  <2>2. (n * d) \div n = d
    OBVIOUS
  <2> QED
    BY <2>1, <2>2
<1>15. Mean(v, from, to) = m /\ Mean(w, from, to) = c - m
  BY <1>0, <1>6, <1>11, <1>12, <1>13, <1>14 DEF Mean
<1> QED
  BY <1>10, <1>15 DEF MeansMirror

\* One step towards a value that the divisor divides as often as the average.
LEMMA EvenStep ==
    ASSUME NEW q \in Nat \ {0}, NEW z \in Int, NEW e \in Int, NEW x \in Int
    PROVE  (2 * ((q * z) * x - (q * z) * e)) \div q = z * (2 * (x - e))
<1>1. PICK y \in Int : y = z * (2 * (x - e))
  OBVIOUS
<1>2. 2 * ((q * z) * x - (q * z) * e) = q * (z * (2 * (x - e)))
  <2>1. (q * z) * x - (q * z) * e = q * (z * (x - e))
    OBVIOUS
  <2>2. PICK d \in Int : d = x - e
    OBVIOUS
  <2>3. 2 * (q * (z * d)) = q * (z * (2 * d))
    OBVIOUS
  <2> QED
    BY <2>1, <2>2, <2>3
<1>3. (q * y) \div q = y
  OBVIOUS
<1> QED
  BY <1>1, <1>2, <1>3

\* The exponential average of values that carry its divisor comes out even,
\* and that of mirrored values mirrors it.
LEMMA EmaMirrors ==
    ASSUME HistoryBars \in Nat, NEW p \in Nat \ {0}, NEW r \in Nat, NEW c \in Int,
           NEW N \in Nat, p <= N, N <= HistoryBars,
           NEW v, N = Len(v), NEW w, N = Len(w),
           Multiples(v, 1, N, EmaDivisor(p) * r), Mirrors(w, v, 1, N, c)
    PROVE  Multiples(Ema(v, p), p, N, r) /\ Mirrors(Ema(w, p), Ema(v, p), p, N, c)
<1> DEFINE P == Powers(p + 1)
           E == Ema(v, p)
           F == Ema(w, p)
<1>1. PICK q \in Nat \ {0} : q = p + 1
  OBVIOUS
<1>2. PICK h \in Nat : h = HistoryBars - p /\ h <= HistoryBars
  OBVIOUS
<1>3. /\ \A i \in 0 .. HistoryBars : P[i] \in Nat \ {0}
      /\ \A i \in 1 .. HistoryBars : P[i] = q * P[i - 1]
  BY <1>1, PowersUnwind
<1>4. \A i \in 0 .. h : \E k \in Nat \ {0} : P[h] = P[i] * k
  <2> TAKE i \in 0 .. h
  <2>1. i \in 0 .. HistoryBars /\ h \in i .. HistoryBars
    BY <1>2
  <2>2. \E k \in Nat \ {0} : Powers(q)[h] = Powers(q)[i] * k
    BY <2>1, PowersDivide
  <2> QED
    BY <1>1, <2>2
<1>5. PICK g \in Nat \ {0} : g = P[h]
  <2>1. h \in 0 .. HistoryBars
    BY <1>2
  <2> HIDE DEF P
  <2> QED
    BY <1>3, <2>1
<1>6. PICK base \in Nat : base = p * (g * r)
  OBVIOUS
<1>7. EmaDivisor(p) * r = base
  <2>1. EmaDivisor(p) = p * g
    BY <1>2, <1>5 DEF EmaDivisor
  <2>2. (p * g) * r = p * (g * r)
    OBVIOUS
  <2> QED
    BY <1>6, <2>1, <2>2
<1> HIDE DEF P
<1>8. \A i \in 1 .. N : v[i] \in Int /\ w[i] \in Int /\ w[i] = c - v[i]
                        /\ \E x \in Int : v[i] = base * x
  <2>1. Multiples(v, 1, N, base)
    BY <1>7
  <2> TAKE i \in 1 .. N
  <2>2. PICK y \in Int : y = v[i] /\ w[i] = c - y
    BY DEF Mirrors
  <2>3. \E x \in Int : v[i] = base * x
    BY <2>1 DEF Multiples
  <2> QED
    BY <2>2, <2>3
<1>9. /\ \A i \in p .. N : E[i] \in Int
      /\ E[p] = Mean(v, 1, p)
      /\ \A i \in (p + 1) .. N : E[i] = E[i - 1] + (2 * (v[i] - E[i - 1])) \div (p + 1)
  <2>1. \A i \in 1 .. N : v[i] \in Int
    BY <1>8
  <2> QED
    BY <2>1, EmaUnwinds
<1>10. /\ F[p] = Mean(w, 1, p)
       /\ \A i \in (p + 1) .. N : F[i] = F[i - 1] + (2 * (w[i] - F[i - 1])) \div (p + 1)
  <2>1. \A i \in 1 .. N : w[i] \in Int
    BY <1>8
  <2> QED
    BY <2>1, EmaUnwinds
<1> HIDE DEF E, F
<1> DEFINE T == {d \in Nat : p + d <= N =>
                     \E e \in Int : /\ E[p + d] = (P[h - d] * r) * e
                                    /\ F[p + d] = c - E[p + d]}
<1>11. 0 \in T
  <2>1. PICK k \in Nat : k = g * r
    OBVIOUS
  <2>2. Multiples(v, 1, p, (p - 1 + 1) * k) /\ Mirrors(w, v, 1, p, c)
    <3>1. \A i \in 1 .. p : i \in 1 .. N
      OBVIOUS
    <3>2. base = (p - 1 + 1) * k
      BY <1>6, <2>1
    <3> QED
      BY <1>8, <3>1, <3>2 DEF Multiples, Mirrors
  <2>3. 1 \in Int /\ p \in Int /\ 1 <= p
    OBVIOUS
  <2>4. PICK t \in Int : Mean(v, 1, p) = k * t /\ Mean(w, 1, p) = c - k * t
    <3>1. MeansMirror(w, v, 1, p, k, c)
      BY <2>2, <2>3, MeanMirrors
    <3> QED
      BY <3>1 DEF MeansMirror
  <2>5. E[p] = (g * r) * t /\ F[p] = c - E[p]
    BY <1>9, <1>10, <2>1, <2>4
  <2>6. p + 0 = p /\ h - 0 = h
    OBVIOUS
  <2>7. E[p + 0] = (P[h - 0] * r) * t /\ F[p + 0] = c - E[p + 0]
    BY <1>5, <2>5, <2>6
  <2> QED
    BY <2>7
<1>12. ASSUME NEW d \in Nat, d \in T
       PROVE  d + 1 \in T
  <2> SUFFICES ASSUME p + (d + 1) <= N
               PROVE  \E e \in Int : /\ E[p + (d + 1)] = (P[h - (d + 1)] * r) * e
                                     /\ F[p + (d + 1)] = c - E[p + (d + 1)]
    OBVIOUS
  <2>1. PICK i \in (p + 1) .. N : i = p + (d + 1) /\ i - 1 = p + d /\ i \in 1 .. N
    OBVIOUS
  <2>2. PICK n \in 0 .. h : n = h - (d + 1) /\ n + 1 = h - d
    BY <1>2
  <2>3. n \in 0 .. HistoryBars /\ n + 1 \in 1 .. HistoryBars /\ (n + 1) - 1 = n
    BY <1>2, <2>2
  <2>4. PICK u \in Nat \ {0} : u = P[n]
    BY <1>3, <2>3
  <2>5. P[n + 1] = q * u
    BY <1>3, <2>3, <2>4
  <2>6. P[h - d] = q * u
    BY <2>2, <2>5
  <2>7. PICK e \in Int : E[i - 1] = ((q * u) * r) * e /\ F[i - 1] = c - E[i - 1]
    <3>1. \E f \in Int : E[p + d] = (P[h - d] * r) * f /\ F[p + d] = c - E[p + d]
      BY <1>12
    <3> QED
      BY <2>1, <2>6, <3>1
  <2>8. \E k2 \in Int : g = (q * u) * k2
    <3>1. n + 1 \in 0 .. h
      BY <2>2
    <3>2. \E k2 \in Nat \ {0} : P[h] = P[n + 1] * k2
      BY <1>4, <3>1
    <3> QED
      BY <1>5, <2>5, <3>2
  <2>9. PICK k2 \in Int : g = (q * u) * k2
    BY <2>8
  <2>10. PICK x \in Int : v[i] = base * x /\ w[i] = c - v[i]
    BY <1>8, <2>1
  <2>11. PICK z \in Int : z = u * r
    OBVIOUS
  <2>12. E[i - 1] = (q * z) * e
    <3>1. ((q * u) * r) * e = (q * (u * r)) * e
      OBVIOUS
    <3> QED
      BY <2>7, <2>11, <3>1
  <2>13. PICK y \in Int : v[i] = (q * z) * y
    <3>1. PICK y \in Int : y = (p * k2) * x
      OBVIOUS
    <3>2. (p * (((q * u) * k2) * r)) * x = (q * (u * r)) * ((p * k2) * x)
      OBVIOUS
    <3> QED
      BY <1>6, <2>9, <2>10, <2>11, <3>1, <3>2
  <2>14. PICK s \in Int : s = z * (2 * (y - e))
    OBVIOUS
  <2>15. (2 * (v[i] - E[i - 1])) \div q = s
    <3>1. (2 * ((q * z) * y - (q * z) * e)) \div q = z * (2 * (y - e))
      BY EvenStep
    <3> QED
      BY <2>12, <2>13, <2>14, <3>1
  <2>16. (2 * (w[i] - F[i - 1])) \div q = -s
    <3>1. PICK y2, e2 \in Int : y2 = -y /\ e2 = -e
      OBVIOUS
    <3>2. (2 * ((q * z) * y2 - (q * z) * e2)) \div q = z * (2 * (y2 - e2))
      BY EvenStep
    <3>3. z * (2 * (y2 - e2)) = -(z * (2 * (y - e)))
      BY <3>1
    <3>4. (q * z) * y2 = -((q * z) * y) /\ (q * z) * e2 = -((q * z) * e)
      BY <3>1
    <3>5. PICK a, b \in Int : a = (q * z) * y /\ b = (q * z) * e
      OBVIOUS
    <3>6. w[i] = c - a /\ F[i - 1] = c - b
      BY <2>7, <2>10, <2>12, <2>13, <3>5
    <3>7. w[i] - F[i - 1] = (q * z) * y2 - (q * z) * e2
      BY <3>4, <3>5, <3>6
    <3> QED
      BY <2>14, <3>2, <3>3, <3>7
  <2>17. E[i] = E[i - 1] + s /\ F[i] = F[i - 1] - s
    <3>1. /\ E[i] = E[i - 1] + (2 * (v[i] - E[i - 1])) \div q
          /\ F[i] = F[i - 1] + (2 * (w[i] - F[i - 1])) \div q
      BY <1>1, <1>9, <1>10, <2>1
    <3>2. E[i - 1] \in Int /\ F[i - 1] \in Int
      BY <2>7, <2>12
    <3> QED
      BY <2>15, <2>16, <3>1, <3>2
  <2>18. PICK f \in Int : f = q * e + 2 * (y - e)
    OBVIOUS
  <2>19. E[i] = (u * r) * f
    <3>1. (q * z) * e + z * (2 * (y - e)) = z * (q * e + 2 * (y - e))
      OBVIOUS
    <3> QED
      BY <2>11, <2>12, <2>14, <2>17, <2>18, <3>1
  <2>20. F[i] = c - E[i]
    <3>1. PICK b \in Int : b = E[i - 1]
      BY <2>12
    <3> QED
      BY <2>7, <2>17, <3>1
  <2> QED
    BY <2>1, <2>2, <2>4, <2>19, <2>20
<1>13. \A d \in Nat : d \in T
  <2> HIDE DEF T
  <2> QED
    BY <1>11, <1>12, NatInductionSet
<1>14. ASSUME NEW i \in p .. N
       PROVE  (\E e \in Int : E[i] = r * e) /\ E[i] \in Int /\ F[i] = c - E[i]
  <2>1. PICK d \in Nat : d = i - p /\ p + d = i
    OBVIOUS
  <2>2. d \in T
    BY <1>13
  <2>3. PICK e \in Int : E[i] = (P[h - d] * r) * e /\ F[i] = c - E[i]
    BY <2>1, <2>2
  <2>4. PICK u \in Nat : u = P[h - d]
    <3>1. h - d \in 0 .. HistoryBars
      BY <1>2, <2>1
    <3> QED
      BY <1>3, <3>1
  <2>5. (u * r) * e = r * (u * e) /\ u * e \in Int
    OBVIOUS
  <2> QED
    BY <1>9, <2>3, <2>4, <2>5
<1> QED
  BY <1>14 DEF Multiples, Mirrors, E, F

\* m is a multiple of k and is zero exactly when the first n changes are.
Counts(m, change, n, k) ==
    \E t \in Nat : m = k * t /\ (t = 0 <=> \A i \in 1 .. n : change[i] = 0)

\* The mean of changes that carry its divisor counts each of them.
LEMMA MeanCounts ==
    ASSUME NEW p \in Nat \ {0}, NEW k \in Nat \ {0}, NEW change,
           \A i \in 1 .. p : change[i] \in Nat, Multiples(change, 1, p, p * k)
    PROVE  Counts(Mean(change, 1, p), change, p, k)
<1> DEFINE x == [i \in 1 .. p |-> CHOOSE y \in Nat : change[i] = (p * k) * y]
<1>1. PICK base \in Nat \ {0} : base = p * k
  OBVIOUS
<1>2. ASSUME NEW i \in 1 .. p
      PROVE  x[i] \in Nat /\ change[i] = base * x[i]
  <2>1. PICK y \in Int : change[i] = base * y
    BY <1>1 DEF Multiples
  <2>2. PICK m \in Nat : m = change[i] /\ m = base * y
    BY <2>1
  <2>3. y \in Nat
    BY <2>2
  <2>4. x[i] = CHOOSE z \in Nat : change[i] = (p * k) * z
    OBVIOUS
  <2> HIDE DEF x
  <2>5. x[i] \in Nat /\ change[i] = (p * k) * x[i]
    BY <1>1, <2>1, <2>3, <2>4
  <2> QED
    BY <1>1, <2>5
<1> HIDE DEF x
<1>3. IsFiniteSet(1 .. p)
  BY FS_Interval
<1>4. PICK t \in Nat : t = SumFunctionOnSet(x, 1 .. p) /\ (t = 0 <=> \A i \in 1 .. p : x[i] = 0)
  BY <1>2, <1>3, SumNonNegative, SumZero
<1>5. Mean(change, 1, p) = k * t
  <2>1. PICK a \in Int : a = 1 /\ a <= p /\ p \in Int
    OBVIOUS
  <2>2. base = (p - a + 1) * k
    BY <1>1, <2>1
  <2>3. \A i \in a .. p : x[i] \in Int /\ change[i] = ((p - a + 1) * k) * x[i]
    BY <1>2, <2>1, <2>2
  <2>4. a <= p /\ p \in Int
    BY <2>1
  <2>5. Mean(change, a, p) = k * SumFunctionOnSet(x, a .. p)
    BY <2>3, <2>4, MeanIsEven
  <2> QED
    BY <1>4, <2>1, <2>5
<1>6. \A i \in 1 .. p : change[i] = 0 <=> x[i] = 0
  <2> TAKE i \in 1 .. p
  <2>1. PICK y \in Nat : y = x[i]
    BY <1>2
  <2>2. base * y = 0 <=> y = 0
    OBVIOUS
  <2> QED
    BY <1>2, <2>1, <2>2
<1> QED
  BY <1>4, <1>5, <1>6 DEF Counts

\* Wilder's average of changes that carry its divisor comes out even, so that
\* it forgets none of them: it is zero exactly when every change is.
LEMMA WilderForgetsNothing ==
    ASSUME HistoryBars \in Nat, RsiPeriod \in Nat \ {0, 1}, NEW r \in Nat \ {0},
           NEW N \in Nat, RsiPeriod <= N, N <= HistoryBars,
           NEW change, N = Len(change), \A i \in 1 .. N : change[i] \in Nat,
           Multiples(change, 1, N, WilderDivisor(RsiPeriod) * r)
    PROVE  /\ WilderAverage(change)[N] \in Nat
           /\ WilderAverage(change)[N] = 0 <=> \A i \in 1 .. N : change[i] = 0
<1> DEFINE P == Powers(RsiPeriod)
           A == WilderAverage(change)
<1>1. PICK p \in Nat \ {0, 1} : p = RsiPeriod
  OBVIOUS
<1>2. PICK h \in Nat : h = HistoryBars - p /\ h <= HistoryBars
  BY <1>1
<1>3. /\ \A i \in 0 .. HistoryBars : P[i] \in Nat \ {0}
      /\ \A i \in 1 .. HistoryBars : P[i] = p * P[i - 1]
  BY <1>1, PowersUnwind
<1>4. \A i \in 0 .. h : \E k \in Nat \ {0} : P[h] = P[i] * k
  <2> TAKE i \in 0 .. h
  <2>1. i \in 0 .. HistoryBars /\ h \in i .. HistoryBars
    BY <1>2
  <2>2. \E k \in Nat \ {0} : Powers(p)[h] = Powers(p)[i] * k
    BY <2>1, PowersDivide
  <2> QED
    BY <1>1, <2>2
<1>5. PICK g \in Nat \ {0} : g = P[h]
  <2>1. h \in 0 .. HistoryBars
    BY <1>2
  <2> HIDE DEF P
  <2> QED
    BY <1>3, <2>1
<1>6. PICK base \in Nat \ {0} : base = p * (g * r)
  <2>1. PICK k \in Nat \ {0} : k = g * r
    OBVIOUS
  <2>2. p * k \in Nat \ {0}
    OBVIOUS
  <2> QED
    BY <2>1, <2>2
<1>7. WilderDivisor(RsiPeriod) * r = base
  <2>1. WilderDivisor(RsiPeriod) = p * g
    BY <1>1, <1>2, <1>5 DEF WilderDivisor
  <2>2. (p * g) * r = p * (g * r)
    OBVIOUS
  <2> QED
    BY <1>6, <2>1, <2>2
<1> HIDE DEF P
<1>8. \A i \in 1 .. N : \E x \in Nat : change[i] = base * x
  <2>1. Multiples(change, 1, N, base)
    BY <1>7
  <2> TAKE i \in 1 .. N
  <2>2. PICK x \in Int : change[i] = base * x
    BY <2>1 DEF Multiples
  <2>3. base * x >= 0
    BY <2>2
  <2>4. x >= 0
    BY <2>3
  <2> QED
    BY <2>2, <2>4
<1>9. /\ \A i \in p .. N : A[i] \in Int
      /\ A[p] = Mean(change, 1, p)
      /\ \A i \in (p + 1) .. N : A[i] = (A[i - 1] * (p - 1) + change[i]) \div p
  <2>1. \A i \in 1 .. N : change[i] \in Int
    OBVIOUS
  <2> QED
    BY <1>1, <2>1, WilderUnwinds
<1> HIDE DEF A
<1> DEFINE Calm(n) == \A i \in 1 .. n : change[i] = 0
           T == {d \in Nat : p + d <= N =>
                     \E e \in Nat : A[p + d] = (P[h - d] * r) * e /\ (e = 0 <=> Calm(p + d))}
<1>10. 0 \in T
  <2>1. PICK k \in Nat \ {0} : k = g * r
    OBVIOUS
  <2>2. \A i \in 1 .. p : change[i] \in Nat
    BY <1>1
  <2>3. Multiples(change, 1, p, p * k)
    <3>1. p * k = base /\ \A i \in 1 .. p : i \in 1 .. N
      BY <1>1, <1>6, <2>1
    <3>2. ASSUME NEW i \in 1 .. p
          PROVE  \E x \in Int : change[i] = base * x
      <4>1. PICK x \in Nat : change[i] = base * x
        BY <1>8, <3>1
      <4> QED
        BY <4>1
    <3>3. Multiples(change, 1, p, base)
      BY <3>2 DEF Multiples
    <3> QED
      BY <3>1, <3>3
  <2>4. Counts(Mean(change, 1, p), change, p, k)
    BY <2>2, <2>3, MeanCounts
  <2>5. PICK t \in Nat : A[p] = (g * r) * t /\ (t = 0 <=> Calm(p))
    BY <1>9, <2>1, <2>4 DEF Counts
  <2>6. p + 0 = p /\ h - 0 = h
    OBVIOUS
  <2> HIDE DEF Calm
  <2>7. A[p + 0] = (P[h - 0] * r) * t /\ (t = 0 <=> Calm(p + 0))
    BY <1>5, <2>5, <2>6
  <2> QED
    BY <2>7
<1>11. ASSUME NEW d \in Nat, d \in T
       PROVE  d + 1 \in T
  <2> HIDE DEF Calm
  <2> SUFFICES ASSUME p + (d + 1) <= N
               PROVE  \E e \in Nat : /\ A[p + (d + 1)] = (P[h - (d + 1)] * r) * e
                                     /\ e = 0 <=> Calm(p + (d + 1))
    OBVIOUS
  <2>1. PICK i \in (p + 1) .. N : i = p + (d + 1) /\ i - 1 = p + d /\ i \in 1 .. N
    OBVIOUS
  <2>2. PICK n \in 0 .. h : n = h - (d + 1) /\ n + 1 = h - d
    BY <1>1, <1>2
  <2>3. n \in 0 .. HistoryBars /\ n + 1 \in 1 .. HistoryBars /\ (n + 1) - 1 = n
    BY <1>2, <2>2
  <2>4. PICK u \in Nat \ {0} : u = P[n]
    BY <1>3, <2>3
  <2>5. P[h - d] = p * u
    BY <1>3, <2>2, <2>3, <2>4
  <2>6. PICK e \in Nat : A[i - 1] = ((p * u) * r) * e /\ (e = 0 <=> Calm(i - 1))
    <3>1. \E f \in Nat : A[p + d] = (P[h - d] * r) * f /\ (f = 0 <=> Calm(p + d))
      BY <1>11
    <3> QED
      BY <2>1, <2>5, <3>1
  <2>7. PICK k \in Nat \ {0} : g = u * k
    BY <1>4, <1>5, <2>2, <2>4
  <2>8. PICK x \in Nat : change[i] = base * x
    BY <1>8, <2>1
  <2>9. PICK z \in Nat : z = u * r
    OBVIOUS
  <2>10. PICK f \in Nat : f = e * (p - 1) + k * x
    OBVIOUS
  <2>11. A[i] = z * f
    <3>1. (((p * u) * r) * e) * (p - 1) + (p * ((u * k) * r)) * x
            = p * ((u * r) * (e * (p - 1) + k * x))
      <4>1. PICK s \in Int : s = p - 1
        OBVIOUS
      <4>2. (((p * u) * r) * e) * s + (p * ((u * k) * r)) * x = p * ((u * r) * (e * s + k * x))
        OBVIOUS
      <4> QED
        BY <4>1, <4>2
    <3>2. A[i - 1] * (p - 1) + change[i] = p * (z * f)
      BY <1>6, <2>6, <2>7, <2>8, <2>9, <2>10, <3>1
    <3>3. PICK y \in Int : y = z * f
      OBVIOUS
    <3>4. (p * y) \div p = y
      OBVIOUS
    <3>5. A[i] = (A[i - 1] * (p - 1) + change[i]) \div p
      BY <1>9, <2>1
    <3> QED
      BY <3>2, <3>3, <3>4, <3>5
  <2>12. f = 0 <=> e = 0 /\ x = 0
    <3>1. PICK a, b \in Nat : a = e * (p - 1) /\ b = k * x
      OBVIOUS
    <3>2. a = 0 <=> e = 0
      BY <3>1
    <3>3. b = 0 <=> x = 0
      BY <3>1
    <3> QED
      BY <2>10, <3>1, <3>2, <3>3
  <2>13. x = 0 <=> change[i] = 0
    <3>1. base * x = 0 <=> x = 0
      OBVIOUS
    <3> QED
      BY <2>8, <3>1
  <2>14. Calm(i) <=> Calm(i - 1) /\ change[i] = 0
    <3>1. \A j \in 1 .. i : j \in 1 .. (i - 1) \/ j = i
      OBVIOUS
    <3>2. \A j \in 1 .. (i - 1) : j \in 1 .. i
      OBVIOUS
    <3> QED
      BY <2>1, <3>1, <3>2 DEF Calm
  <2>15. A[i] = (u * r) * f /\ (f = 0 <=> Calm(i))
    BY <2>6, <2>9, <2>11, <2>12, <2>13, <2>14
  <2> QED
    BY <2>1, <2>2, <2>4, <2>15
<1>12. \A d \in Nat : d \in T
  <2> HIDE DEF T
  <2> QED
    BY <1>10, <1>11, NatInductionSet
<1>13. PICK d \in Nat : d = N - p /\ p + d = N
  <2>1. p <= N
    BY <1>1
  <2> HIDE DEF T, Calm
  <2>2. N - p \in Nat /\ p + (N - p) = N
    BY <2>1
  <2> QED
    BY <2>2
<1>14. PICK e \in Nat : A[N] = (P[h - d] * r) * e /\ (e = 0 <=> Calm(N))
  <2> HIDE DEF Calm
  <2>1. d \in T
    BY <1>12
  <2> QED
    BY <1>13, <2>1
<1>15. PICK u \in Nat \ {0} : u = P[h - d]
  <2>1. h - d \in 0 .. HistoryBars
    BY <1>2, <1>13
  <2> QED
    BY <1>3, <2>1
<1>16. PICK z \in Nat \ {0} : z = u * r
  OBVIOUS
<1>17. z * e \in Nat /\ (z * e = 0 <=> e = 0)
  OBVIOUS
<1> QED
  BY <1>14, <1>15, <1>16, <1>17 DEF A

\* s lists the M values that f has from p on.
Lists(s, f, p, M) == Len(s) = M /\ \A i \in 1 .. M : s[i] = f[i + p - 1]

\* The series has one value for each value of v from the p-th on.
LEMMA EmaSeriesIs ==
    ASSUME NEW v, NEW p \in Nat \ {0}, NEW N \in Nat, N = Len(v), p <= N,
           \A i \in 1 .. N : v[i] \in Int,
           NEW M \in Nat \ {0}, M = N - p + 1
    PROVE  /\ Lists(EmaSeries(v, p), Ema(v, p), p, M)
           /\ Last(EmaSeries(v, p)) = Ema(v, p)[N]
<1> DEFINE series == EmaSeries(v, p)
<1>1. \A i \in p .. N : Ema(v, p)[i] \in Int
  BY EmaUnwinds
<1>2. \A i \in 1 .. M : Ema(v, p)[i + p - 1] \in Int
  <2>1. \A i \in 1 .. M : i + p - 1 \in p .. N
    OBVIOUS
  <2> QED
    BY <1>1, <2>1
<1>3. series = [i \in 1 .. M |-> Ema(v, p)[i + p - 1]]
  BY DEF EmaSeries
<1> HIDE DEF series
<1>4. Len(series) = M
  BY <1>2, <1>3
<1>5. Last(series) = Ema(v, p)[N]
  <2>1. M \in 1 .. M /\ M + p - 1 = N
    OBVIOUS
  <2> QED
    BY <1>3, <1>4, <2>1 DEF Last
<1> QED
  BY <1>3, <1>4, <1>5 DEF series, Lists

\* The MACD line, value by value.
LEMMA MacdLineIs ==
    ASSUME NEW v, NEW N \in Nat, N = Len(v), \A i \in 1 .. N : v[i] \in Int,
           Fast \in Nat \ {0}, Slow \in Nat \ {0}, Fast <= Slow,
           NEW M \in Nat \ {0}, M = N - Slow + 1
    PROVE  /\ Len(MacdLine(v)) = M
           /\ \A i \in 1 .. M :
                 MacdLine(v)[i] = Ema(v, Fast)[i + Slow - 1] - Ema(v, Slow)[i + Slow - 1]
<1> DEFINE fast == EmaSeries(v, Fast)
           slow == EmaSeries(v, Slow)
<1>1. /\ \A i \in Fast .. N : Ema(v, Fast)[i] \in Int
      /\ \A i \in Slow .. N : Ema(v, Slow)[i] \in Int
  <2>1. Fast <= N /\ Slow <= N
    OBVIOUS
  <2> QED
    BY <2>1, EmaUnwinds
<1>2. Len(slow) = M /\ \A i \in 1 .. M : slow[i] = Ema(v, Slow)[i + Slow - 1]
  <2>1. Slow <= N
    OBVIOUS
  <2>2. Lists(EmaSeries(v, Slow), Ema(v, Slow), Slow, M)
    BY <2>1, EmaSeriesIs
  <2> QED
    BY <2>2 DEF Lists
<1>3. \A i \in 1 .. M : fast[i + Slow - Fast] = Ema(v, Fast)[i + Slow - 1]
  <2> TAKE i \in 1 .. M
  <2>1. PICK j \in 1 .. (N - Fast + 1) : j = i + Slow - Fast /\ j + Fast - 1 = i + Slow - 1
    OBVIOUS
  <2>2. fast[j] = Ema(v, Fast)[j + Fast - 1]
    BY DEF EmaSeries
  <2> QED
    BY <2>1, <2>2
<1>4. MacdLine(v) = [i \in 1 .. Len(slow) |-> fast[i + Slow - Fast] - slow[i]]
  BY DEF MacdLine
<1> HIDE DEF fast, slow
<1>5. \A i \in 1 .. M :
          /\ MacdLine(v)[i] = fast[i + Slow - Fast] - slow[i]
          /\ MacdLine(v)[i] = Ema(v, Fast)[i + Slow - 1] - Ema(v, Slow)[i + Slow - 1]
  BY <1>2, <1>3, <1>4
<1>6. ASSUME NEW i \in 1 .. M
      PROVE  MacdLine(v)[i] \in Int
  <2>1. PICK j \in Slow .. N : j = i + Slow - 1 /\ j \in Fast .. N
    OBVIOUS
  <2>2. PICK x, y \in Int : x = Ema(v, Fast)[j] /\ y = Ema(v, Slow)[j]
    BY <1>1, <2>1
  <2> QED
    BY <1>5, <2>1, <2>2
<1>7. Len(MacdLine(v)) = M
  <2> DEFINE macd == MacdLine(v)
  <2>1. macd = [i \in 1 .. M |-> macd[i]] /\ \A i \in 1 .. M : macd[i] \in Int
    BY <1>2, <1>4, <1>6
  <2> HIDE DEF macd
  <2>2. Len(macd) = M
    BY <2>1
  <2> QED
    BY <2>2 DEF macd
<1> QED
  BY <1>5, <1>7

\* v and w are histories of N prices that carry the factor Scale, and w mirrors v.
MirrorImages(w, v, N, c) ==
    /\ N = Len(v) /\ N = Len(w)
    /\ Multiples(v, 1, N, Scale) /\ Mirrors(w, v, 1, N, c)

\* Mirrored prices have the opposite histogram.
LEMMA HistMirrors ==
    ASSUME TechnicalConstantsOK, NEW c \in Int,
           NEW N \in Nat, MinBars <= N, N <= HistoryBars,
           NEW v, NEW w, MirrorImages(w, v, N, c)
    PROVE  MacdHist(v) \in Int /\ MacdHist(w) = -MacdHist(v)
<1>0. N = Len(v) /\ N = Len(w) /\ Multiples(v, 1, N, Scale) /\ Mirrors(w, v, 1, N, c)
  BY DEF MirrorImages
<1> USE <1>0
<1>1. /\ HistoryBars \in Nat /\ MinBars \in Nat
      /\ Fast \in Nat \ {0} /\ Slow \in Nat \ {0} /\ SignalPeriod \in Nat \ {0}
      /\ Fast <= Slow /\ Slow + SignalPeriod - 1 <= MinBars /\ ScaleIsEven
  BY DEF TechnicalConstantsOK
<1>2. PICK M \in Nat \ {0} : M = N - Slow + 1 /\ SignalPeriod <= M /\ M <= HistoryBars
  <2>1. N - Slow + 1 >= SignalPeriod /\ N - Slow + 1 <= HistoryBars
    BY <1>1
  <2>2. N - Slow + 1 \in Nat \ {0}
    BY <1>1, <2>1
  <2> QED
    BY <2>1, <2>2
<1>3. PICK D \in Nat : D = EmaDivisor(SignalPeriod)
  <2>1. HistoryBars - SignalPeriod \in 0 .. HistoryBars
    BY <1>1, <1>2
  <2>2. SignalPeriod + 1 \in Nat \ {0}
    BY <1>1
  <2>3. Powers(SignalPeriod + 1)[HistoryBars - SignalPeriod] \in Nat
    BY <1>1, <2>1, <2>2, PowersUnwind
  <2> QED
    BY <1>1, <2>3 DEF EmaDivisor
<1>4. ASSUME NEW p \in {Fast, Slow}
      PROVE  Multiples(Ema(v, p), p, N, D) /\ Mirrors(Ema(w, p), Ema(v, p), p, N, c)
  <2>1. p \in Nat \ {0} /\ p <= N
    BY <1>1
  <2>2. PICK E \in Nat : E = EmaDivisor(p)
    <3>1. HistoryBars - p \in 0 .. HistoryBars
      BY <1>1, <2>1
    <3>2. p + 1 \in Nat \ {0}
      BY <2>1
    <3>3. Powers(p + 1)[HistoryBars - p] \in Nat
      BY <1>1, <3>1, <3>2, PowersUnwind
    <3> QED
      BY <2>1, <3>3 DEF EmaDivisor
  <2>3. PICK k \in Nat : Scale = (E * D) * k
    <3>1. Divides(EmaDivisor(p) * EmaDivisor(SignalPeriod), Scale)
      BY <1>1 DEF ScaleIsEven
    <3>2. Divides(E * D, Scale)
      BY <1>3, <2>2, <3>1
    <3> QED
      BY <3>2 DEF Divides
  <2>4. PICK r \in Nat : r = D * k
    OBVIOUS
  <2>5. Scale = EmaDivisor(p) * r
    <3>1. (E * D) * k = E * (D * k)
      OBVIOUS
    <3> QED
      BY <2>2, <2>3, <2>4, <3>1
  <2>6. Multiples(v, 1, N, EmaDivisor(p) * r)
    BY <2>5
  <2>7. Multiples(Ema(v, p), p, N, r) /\ Mirrors(Ema(w, p), Ema(v, p), p, N, c)
    BY <1>1, <2>1, <2>6, EmaMirrors
  <2>8. Multiples(Ema(v, p), p, N, D)
    <3> SUFFICES ASSUME NEW i \in p .. N
                 PROVE  \E x \in Int : Ema(v, p)[i] = D * x
      BY DEF Multiples
    <3>1. PICK x \in Int : Ema(v, p)[i] = r * x
      BY <2>7 DEF Multiples
    <3>2. (D * k) * x = D * (k * x) /\ k * x \in Int
      OBVIOUS
    <3> QED
      BY <2>4, <3>1, <3>2
  <2> QED
    BY <2>7, <2>8
<1>5. \A i \in 1 .. N : v[i] \in Int /\ w[i] \in Int
  <2> TAKE i \in 1 .. N
  <2>1. PICK y \in Int : y = v[i] /\ w[i] = c - y
    BY DEF Mirrors
  <2> QED
    BY <2>1
<1>6. /\ Len(MacdLine(v)) = M /\ Len(MacdLine(w)) = M
      /\ \A i \in 1 .. M :
            /\ MacdLine(v)[i] = Ema(v, Fast)[i + Slow - 1] - Ema(v, Slow)[i + Slow - 1]
            /\ MacdLine(w)[i] = Ema(w, Fast)[i + Slow - 1] - Ema(w, Slow)[i + Slow - 1]
  BY ZenonT(40), <1>1, <1>2, <1>5, MacdLineIs
<1> DEFINE macd == MacdLine(v)
           mirrored == MacdLine(w)
<1>7. ASSUME NEW i \in 1 .. M
      PROVE  /\ macd[i] \in Int /\ mirrored[i] = 0 - macd[i]
             /\ \E x \in Int : macd[i] = D * x
  <2>1. PICK j \in Slow .. N : j = i + Slow - 1 /\ j \in Fast .. N
    BY <1>1, <1>2
  <2>2. PICK x \in Int, y \in Int : Ema(v, Fast)[j] = D * x /\ Ema(v, Slow)[j] = D * y
    BY <1>4, <2>1 DEF Multiples
  <2>3. /\ Ema(w, Fast)[j] = c - Ema(v, Fast)[j]
        /\ Ema(w, Slow)[j] = c - Ema(v, Slow)[j]
    BY <1>4, <2>1 DEF Mirrors
  <2>4. PICK f, s \in Int : f = D * x /\ s = D * y /\ f - s = D * (x - y)
    <3>1. D * (x - y) = D * x - D * y
      OBVIOUS
    <3> QED
      BY <3>1
  <2>5. macd[i] = f - s /\ mirrored[i] = (c - f) - (c - s)
    BY <1>6, <2>1, <2>2, <2>3, <2>4
  <2>6. PICK t \in Int : t = x - y /\ macd[i] = D * t
    BY <2>4, <2>5
  <2>7. macd[i] \in Int /\ mirrored[i] = 0 - macd[i]
    BY <2>4, <2>5
  <2> QED
    BY <2>6, <2>7
<1> HIDE DEF macd, mirrored
<1>8. Multiples(macd, 1, M, EmaDivisor(SignalPeriod) * 1) /\ Mirrors(mirrored, macd, 1, M, 0)
  <2>1. D * 1 = D
    OBVIOUS
  <2>2. Multiples(macd, 1, M, D)
    BY <1>7 DEF Multiples
  <2> QED
    BY <1>3, <1>7, <2>1, <2>2 DEF Mirrors
<1>9. Mirrors(Ema(mirrored, SignalPeriod), Ema(macd, SignalPeriod), SignalPeriod, M, 0)
  <2>1. 1 \in Nat /\ 0 \in Int /\ M \in Nat
    OBVIOUS
  <2>2. M = Len(macd) /\ M = Len(mirrored)
    BY <1>6 DEF macd, mirrored
  <2> QED
    BY <1>1, <1>2, <1>8, <2>1, <2>2, EmaMirrors
<1>10. PICK a \in Int : a = macd[M] /\ mirrored[M] = 0 - a
  BY <1>7
<1>11. PICK b \in Int : /\ b = Ema(macd, SignalPeriod)[M]
                        /\ Ema(mirrored, SignalPeriod)[M] = 0 - b
  <2>1. M \in SignalPeriod .. M
    BY <1>1, <1>2
  <2> QED
    BY <1>9, <2>1 DEF Mirrors
<1>12. /\ Last(macd) = a /\ Last(mirrored) = 0 - a
       /\ Last(EmaSeries(macd, SignalPeriod)) = b
       /\ Last(EmaSeries(mirrored, SignalPeriod)) = 0 - b
  <2>1. Len(macd) = M /\ Len(mirrored) = M
    BY <1>6 DEF macd, mirrored
  <2>2. \A i \in 1 .. M : macd[i] \in Int /\ mirrored[i] \in Int
    BY <1>7
  <2>3. PICK m \in Nat \ {0} : m = M - SignalPeriod + 1
    <3>1. M - SignalPeriod + 1 \in Nat \ {0}
      BY <1>1, <1>2
    <3> QED
      BY <3>1
  <2>4. /\ Last(EmaSeries(macd, SignalPeriod)) = Ema(macd, SignalPeriod)[M]
        /\ Last(EmaSeries(mirrored, SignalPeriod)) = Ema(mirrored, SignalPeriod)[M]
    BY <1>1, <1>2, <2>1, <2>2, <2>3, EmaSeriesIs
  <2>5. Last(macd) = macd[M] /\ Last(mirrored) = mirrored[M]
    BY <2>1 DEF Last
  <2> QED
    BY <1>10, <1>11, <2>4, <2>5
<1>13. MacdHist(v) = a - b /\ MacdHist(w) = (0 - a) - (0 - b)
  BY <1>12 DEF MacdHist, macd, mirrored
<1> QED
  BY <1>13

\* The average gain and loss of prices are natural numbers, and are zero only
\* where the prices never rise, or never fall.
LEMMA AveragesOfChanges ==
    ASSUME TechnicalConstantsOK, NEW N \in Nat, MinBars <= N, N <= HistoryBars,
           NEW v, N = Len(v), \A i \in 1 .. N : v[i] \in Int, Multiples(v, 1, N, Scale)
    PROVE  /\ AvgGain(v) \in Nat /\ AvgLoss(v) \in Nat
           /\ AvgGain(v) = 0 <=> \A i \in 1 .. (N - 1) : v[i + 1] <= v[i]
           /\ AvgLoss(v) = 0 <=> \A i \in 1 .. (N - 1) : v[i + 1] >= v[i]
<1>1. /\ HistoryBars \in Nat /\ MinBars \in Nat /\ RsiPeriod \in Nat \ {0, 1}
      /\ RsiPeriod + 1 <= MinBars /\ Scale \in Nat \ {0} /\ ScaleIsEven
  BY DEF TechnicalConstantsOK
<1>2. PICK M \in Nat : M = N - 1 /\ RsiPeriod <= M /\ M <= HistoryBars
  <2>1. N - 1 \in Nat /\ RsiPeriod <= N - 1 /\ N - 1 <= HistoryBars
    BY <1>1
  <2> QED
    BY <2>1
<1>3. PICK W \in Nat : W = WilderDivisor(RsiPeriod)
  <2>1. HistoryBars - RsiPeriod \in 0 .. HistoryBars
    BY <1>1, <1>2
  <2>2. RsiPeriod \in Nat \ {0}
    BY <1>1
  <2>3. Powers(RsiPeriod)[HistoryBars - RsiPeriod] \in Nat
    BY <1>1, <2>1, <2>2, PowersUnwind
  <2> QED
    BY <1>1, <2>3 DEF WilderDivisor
<1>4. PICK r \in Nat \ {0} : Scale = WilderDivisor(RsiPeriod) * r
  <2>1. Divides(WilderDivisor(RsiPeriod), Scale)
    BY <1>1 DEF ScaleIsEven
  <2> QED
    BY <1>1, <2>1 DEF Divides
<1>5. ASSUME NEW i \in 1 .. M
      PROVE  \E x \in Int : v[i + 1] - v[i] = Scale * x /\ v[i] - v[i + 1] = Scale * (-x)
  <2>1. PICK j \in 1 .. N : j = i + 1 /\ i \in 1 .. N
    BY <1>2
  <2>2. PICK x, y \in Int : v[j] = Scale * x /\ v[i] = Scale * y
    <3>1. (\E x \in Int : v[j] = Scale * x) /\ \E y \in Int : v[i] = Scale * y
      BY <2>1 DEF Multiples
    <3> QED
      BY <3>1
  <2>3. PICK K \in Nat : K = Scale
    BY <1>1
  <2>4. PICK d \in Int : d = x - y
    OBVIOUS
  <2>5. K * x - K * y = K * d /\ K * y - K * x = K * (-d)
    BY <2>4
  <2> QED
    BY <2>1, <2>2, <2>3, <2>5
<1> DEFINE Even(change) == /\ M = Len(change) /\ \A i \in 1 .. M : change[i] \in Nat
                           /\ Multiples(change, 1, M, Scale)
<1>6. ASSUME NEW change, Even(change)
      PROVE  /\ WilderAverage(change)[M] \in Nat
             /\ WilderAverage(change)[M] = 0 <=> \A i \in 1 .. M : change[i] = 0
  <2>1. Multiples(change, 1, M, WilderDivisor(RsiPeriod) * r)
    BY <1>4, <1>6
  <2> QED
    BY ZenonT(40), <1>1, <1>2, <1>6, <2>1, WilderForgetsNothing
<1>7. /\ Even(Gains(v))
      /\ \A i \in 1 .. M : Gains(v)[i] = 0 <=> v[i + 1] <= v[i]
  <2> DEFINE gains == Gains(v)
  <2>1. gains = [i \in 1 .. M |-> IF v[i + 1] > v[i] THEN v[i + 1] - v[i] ELSE 0]
    BY <1>2 DEF Gains
  <2> HIDE DEF gains
  <2>2. ASSUME NEW i \in 1 .. M
        PROVE  /\ gains[i] \in Nat /\ \E x \in Int : gains[i] = Scale * x
               /\ gains[i] = 0 <=> v[i + 1] <= v[i]
    <3>1. PICK a, b \in Int : a = v[i + 1] /\ b = v[i]
      BY <1>2
    <3>2. CASE a > b
      <4>1. gains[i] = a - b
        BY <2>1, <3>1, <3>2
      <4> QED
        BY SMTT(30), <1>5, <3>1, <3>2, <4>1
    <3>3. CASE ~(a > b)
      <4>1. gains[i] = 0 /\ Scale * 0 = 0
        BY <1>1, <2>1, <3>1, <3>3
      <4> QED
        BY <3>1, <3>3, <4>1
    <3> QED
      BY <3>2, <3>3
  <2>3. Len(gains) = M
    BY <2>1, <2>2
  <2> QED
    BY <2>2, <2>3 DEF gains, Multiples
<1>8. /\ Even(Losses(v))
      /\ \A i \in 1 .. M : Losses(v)[i] = 0 <=> v[i + 1] >= v[i]
  <2> DEFINE losses == Losses(v)
  <2>1. losses = [i \in 1 .. M |-> IF v[i + 1] < v[i] THEN v[i] - v[i + 1] ELSE 0]
    BY <1>2 DEF Losses
  <2> HIDE DEF losses
  <2>2. ASSUME NEW i \in 1 .. M
        PROVE  /\ losses[i] \in Nat /\ \E x \in Int : losses[i] = Scale * x
               /\ losses[i] = 0 <=> v[i + 1] >= v[i]
    <3>1. PICK a, b \in Int : a = v[i + 1] /\ b = v[i]
      BY <1>2
    <3>2. CASE a < b
      <4>1. losses[i] = b - a
        BY <2>1, <3>1, <3>2
      <4>2. PICK x \in Int : b - a = Scale * (-x)
        BY <1>5, <3>1
      <4>3. -x \in Int
        OBVIOUS
      <4> QED
        BY <3>1, <3>2, <4>1, <4>2, <4>3
    <3>3. CASE ~(a < b)
      <4>1. losses[i] = 0 /\ Scale * 0 = 0
        BY <1>1, <2>1, <3>1, <3>3
      <4> QED
        BY <3>1, <3>3, <4>1
    <3> QED
      BY <3>2, <3>3
  <2>3. Len(losses) = M
    BY <2>1, <2>2
  <2> QED
    BY <2>2, <2>3 DEF losses, Multiples
<1> HIDE DEF Even
<1>9. AvgGain(v) = WilderAverage(Gains(v))[M] /\ AvgLoss(v) = WilderAverage(Losses(v))[M]
  BY <1>2 DEF AvgGain, AvgLoss
<1> QED
  BY <1>2, <1>6, <1>7, <1>8, <1>9

\* Some price differs from the one before.
Changes(v, N) == \E i \in 1 .. (N - 1) : v[i + 1] # v[i]

\* Prices that change have the opposite RSI vote when mirrored; prices that do
\* not are overbought.
LEMMA RsiMirrors ==
    ASSUME TechnicalConstantsOK, NEW c \in Int,
           NEW N \in Nat, MinBars <= N, N <= HistoryBars,
           NEW v, NEW w, MirrorImages(w, v, N, c)
    PROVE  /\ Changes(v, N) => RsiVote(w) = -RsiVote(v)
           /\ ~Changes(v, N) => RsiVote(v) = -5
<1>0. N = Len(v) /\ N = Len(w) /\ Multiples(v, 1, N, Scale) /\ Mirrors(w, v, 1, N, c)
  BY DEF MirrorImages
<1> USE <1>0
<1>1. \A i \in 1 .. N : v[i] \in Int /\ w[i] = c - v[i]
  BY DEF Mirrors
<1>2. AvgGain(w) = AvgLoss(v) /\ AvgLoss(w) = AvgGain(v)
  <2>1. ASSUME NEW i \in 1 .. (N - 1)
        PROVE  (w[i + 1] > w[i] <=> v[i + 1] < v[i]) /\ (w[i + 1] < w[i] <=> v[i + 1] > v[i])
               /\ w[i + 1] - w[i] = v[i] - v[i + 1] /\ w[i] - w[i + 1] = v[i + 1] - v[i]
    <3>1. PICK j \in 1 .. N : j = i + 1 /\ i \in 1 .. N
      OBVIOUS
    <3>2. PICK a, b \in Int : a = v[j] /\ b = v[i] /\ w[j] = c - a /\ w[i] = c - b
      BY <1>1, <3>1
    <3>3. v[i + 1] = a /\ v[i] = b /\ w[i + 1] = c - a /\ w[i] = c - b
      BY <3>1, <3>2
    <3>4. /\ c - a > c - b <=> a < b
          /\ c - a < c - b <=> a > b
          /\ (c - a) - (c - b) = b - a /\ (c - b) - (c - a) = a - b
      OBVIOUS
    <3> QED
      BY <3>3, <3>4
  <2>2. Gains(w) = Losses(v)
    BY <2>1 DEF Gains, Losses
  <2>3. Losses(w) = Gains(v)
    BY <2>1 DEF Gains, Losses
  <2> QED
    BY <2>2, <2>3 DEF AvgGain, AvgLoss
<1>3. /\ AvgGain(v) \in Nat /\ AvgLoss(v) \in Nat
      /\ AvgGain(v) = 0 <=> \A i \in 1 .. (N - 1) : v[i + 1] <= v[i]
      /\ AvgLoss(v) = 0 <=> \A i \in 1 .. (N - 1) : v[i + 1] >= v[i]
  <2>1. \A i \in 1 .. N : v[i] \in Int
    BY <1>1
  <2> QED
    BY <2>1, AveragesOfChanges
<1>4. PICK g \in Nat, l \in Nat : /\ g = AvgGain(v) /\ l = AvgLoss(v)
                                  /\ l = AvgGain(w) /\ g = AvgLoss(w)
  BY <1>2, <1>3
<1>5. ASSUME NEW i \in 1 .. (N - 1), v[i + 1] # v[i]
      PROVE  RsiVote(w) = -RsiVote(v)
  <2>1. ~(g = 0 /\ l = 0)
    <3>1. PICK a, b \in Int : a = v[i + 1] /\ b = v[i]
      BY <1>1
    <3>2. ~(a <= b) \/ ~(a >= b)
      BY <1>5, <3>1
    <3> QED
      BY <1>3, <1>4, <3>1, <3>2
  <2>2. /\ Oversold(v) <=> l > 0 /\ 70 * g < 30 * l
        /\ Overbought(v) <=> l = 0 \/ 30 * g > 70 * l
        /\ Oversold(w) <=> g > 0 /\ 70 * l < 30 * g
        /\ Overbought(w) <=> g = 0 \/ 30 * l > 70 * g
    BY <1>4 DEF Oversold, Overbought
  <2>3. /\ Oversold(v) <=> Overbought(w)
        /\ Oversold(w) <=> Overbought(v)
        /\ ~(Oversold(v) /\ Overbought(v))
    BY <2>1, <2>2
  <2> QED
    BY <2>3 DEF RsiVote
<1>6. ASSUME \A i \in 1 .. (N - 1) : v[i + 1] = v[i]
      PROVE  RsiVote(v) = -5
  <2>1. \A i \in 1 .. (N - 1) : v[i + 1] >= v[i]
    <3> TAKE i \in 1 .. (N - 1)
    <3>1. PICK a \in Int : a = v[i] /\ v[i + 1] = a
      BY <1>1, <1>6
    <3> QED
      BY <3>1
  <2>2. AvgLoss(v) = 0
    BY <1>3, <2>1
  <2> QED
    BY <2>2 DEF RsiVote, Oversold, Overbought
<1> QED
  BY <1>5, <1>6 DEF Changes

\* A moving average of mirrored prices mirrors the average.
LEMMA SmaMirrors ==
    ASSUME NEW c \in Int, NEW N \in Nat, NEW n \in Nat \ {0}, n <= N, Divides(n, Scale),
           NEW v, NEW w, MirrorImages(w, v, N, c)
    PROVE  Sma(v, n) \in Int /\ Sma(w, n) = c - Sma(v, n)
<1>0. N = Len(v) /\ N = Len(w) /\ Multiples(v, 1, N, Scale) /\ Mirrors(w, v, 1, N, c)
  BY DEF MirrorImages
<1>1. PICK k \in Nat : Scale = n * k
  BY DEF Divides
<1>2. PICK from \in Int : from = N - n + 1 /\ n = N - from + 1 /\ 1 <= from /\ from <= N
  OBVIOUS
<1>3. Multiples(v, from, N, (N - from + 1) * k) /\ Mirrors(w, v, from, N, c)
  <2>1. \A i \in from .. N : i \in 1 .. N
    BY <1>2
  <2>2. Multiples(v, from, N, Scale)
    BY <1>0, <2>1 DEF Multiples
  <2> QED
    BY <1>0, <1>1, <1>2, <2>1, <2>2 DEF Mirrors
<1>4. MeansMirror(w, v, from, N, k, c)
  <2>1. from <= N /\ N \in Int
    BY <1>2
  <2> QED
    BY <1>3, <2>1, MeanMirrors
<1>5. PICK t \in Int : Mean(v, from, N) = k * t /\ Mean(w, from, N) = c - k * t
  BY <1>4 DEF MeansMirror
<1>6. Sma(v, n) = Mean(v, from, N) /\ Sma(w, n) = Mean(w, from, N)
  BY <1>0, <1>2 DEF Sma
<1>7. k * t \in Int
  OBVIOUS
<1> QED
  BY <1>5, <1>6, <1>7

\* What technical_signal makes of the closes it read.
Votes(v) == TrendVote(Last(v), Sma(v, MaShort), Sma(v, MaLong)) + RsiVote(v) + MacdVote(MacdHist(v))

\* Unless nothing changes, the mirror image gets the opposite votes.
LEMMA VotesMirror ==
    ASSUME TechnicalConstantsOK, NEW c \in Int,
           NEW N \in Nat, MinBars <= N, N <= HistoryBars,
           NEW v, NEW w, MirrorImages(w, v, N, c),
           Changes(v, N)
    PROVE  Votes(w) = -Votes(v)
<1>0. N = Len(v) /\ N = Len(w) /\ Multiples(v, 1, N, Scale) /\ Mirrors(w, v, 1, N, c)
  BY DEF MirrorImages
<1> USE <1>0
<1>1. /\ MaShort \in Nat \ {0} /\ MaLong \in Nat \ {0} /\ MaShort <= N /\ MaLong <= N
      /\ 1 <= N /\ Divides(MaShort, Scale) /\ Divides(MaLong, Scale)
  BY DEF TechnicalConstantsOK, ScaleIsEven
<1>2. PICK price \in Int : price = Last(v) /\ Last(w) = c - price
  <2>1. Last(v) = v[N] /\ Last(w) = w[N] /\ N \in 1 .. N
    BY <1>1 DEF Last
  <2> QED
    BY <2>1 DEF Mirrors
<1>3. PICK short \in Int : short = Sma(v, MaShort) /\ Sma(w, MaShort) = c - short
  <2>1. Sma(v, MaShort) \in Int /\ Sma(w, MaShort) = c - Sma(v, MaShort)
    BY <1>1, SmaMirrors
  <2> QED
    BY <2>1
<1>4. PICK long \in Int : long = Sma(v, MaLong) /\ Sma(w, MaLong) = c - long
  <2>1. Sma(v, MaLong) \in Int /\ Sma(w, MaLong) = c - Sma(v, MaLong)
    BY <1>1, SmaMirrors
  <2> QED
    BY <2>1
<1>5. TrendVote(c - price, c - short, c - long) = -TrendVote(price, short, long)
      /\ TrendVote(price, short, long) \in Int
  BY DEF TrendVote
<1>6. RsiVote(w) = -RsiVote(v) /\ RsiVote(v) \in Int
  <2>1. /\ Changes(v, N) => RsiVote(w) = -RsiVote(v)
        /\ ~Changes(v, N) => RsiVote(v) = -5
    BY RsiMirrors
  <2> QED
    BY <2>1 DEF RsiVote
<1>7. PICK hist \in Int : hist = MacdHist(v) /\ MacdHist(w) = -hist
  BY HistMirrors
<1>8. MacdVote(-hist) = -MacdVote(hist) /\ MacdVote(hist) \in Int
  BY DEF MacdVote
<1>9. PICK t, r, m \in Int : /\ t = TrendVote(price, short, long)
                             /\ r = RsiVote(v) /\ m = MacdVote(hist)
  BY <1>5, <1>6, <1>8
<1>10. Votes(v) = t + r + m
  BY <1>2, <1>3, <1>4, <1>7, <1>9 DEF Votes
<1>11. Votes(w) = (-t) + (-r) + (-m)
  BY <1>2, <1>3, <1>4, <1>5, <1>6, <1>7, <1>8, <1>9 DEF Votes
<1> QED
  BY <1>10, <1>11

\* Prices that never change mirror themselves, so that trend and histogram are
\* level, and are overbought.
LEMMA FlatVotes ==
    ASSUME TechnicalConstantsOK,
           NEW N \in Nat, MinBars <= N, N <= HistoryBars,
           NEW v, N = Len(v), Multiples(v, 1, N, Scale),
           NEW x \in Int, \A i \in 1 .. N : v[i] = x
    PROVE  Votes(v) = -5
<1>1. /\ MaShort \in Nat \ {0} /\ MaLong \in Nat \ {0} /\ MaShort <= N /\ MaLong <= N
      /\ 1 <= N /\ Divides(MaShort, Scale) /\ Divides(MaLong, Scale)
  BY DEF TechnicalConstantsOK, ScaleIsEven
<1>2. PICK c \in Int : c = 2 * x
  OBVIOUS
<1>3. MirrorImages(v, v, N, c)
  BY <1>2 DEF MirrorImages, Mirrors
<1>4. Last(v) = x
  <2>1. Last(v) = v[N] /\ N \in 1 .. N
    BY <1>1 DEF Last
  <2> QED
    BY <2>1
<1>5. PICK short \in Int : short = Sma(v, MaShort) /\ short = c - short
  BY <1>1, <1>3, SmaMirrors
<1>6. PICK long \in Int : long = Sma(v, MaLong) /\ long = c - long
  BY <1>1, <1>3, SmaMirrors
<1>7. TrendVote(Last(v), Sma(v, MaShort), Sma(v, MaLong)) = 0
  <2>1. short = x /\ long = x
    BY <1>2, <1>5, <1>6
  <2>2. TrendVote(x, x, x) = 0
    BY DEF TrendVote
  <2> QED
    BY <1>4, <1>5, <1>6, <2>1, <2>2
<1>8. PICK hist \in Int : hist = MacdHist(v) /\ hist = -hist
  BY <1>3, HistMirrors
<1>9. MacdVote(MacdHist(v)) = 0
  <2>1. hist = 0
    BY <1>8
  <2> QED
    BY <1>8, <2>1 DEF MacdVote
<1>10. RsiVote(v) = -5
  <2>1. ~Changes(v, N)
    <3>1. \A i \in 1 .. (N - 1) : i \in 1 .. N /\ i + 1 \in 1 .. N
      OBVIOUS
    <3> QED
      BY <3>1 DEF Changes
  <2> QED
    BY <1>3, <2>1, RsiMirrors
<1> QED
  BY <1>7, <1>9, <1>10 DEF Votes

\* Prices without a change from one day to the next are all the same.
LEMMA NoChangeIsFlat ==
    ASSUME NEW N \in Nat, NEW c, ~Changes(c, N)
    PROVE  \A i \in 1 .. N : c[i] = c[1]
<1> DEFINE T == {d \in Nat : 1 + d <= N => c[1 + d] = c[1]}
<1>1. 0 \in T
  OBVIOUS
<1>2. ASSUME NEW d \in Nat, d \in T
      PROVE  d + 1 \in T
  <2> SUFFICES ASSUME 1 + (d + 1) <= N
               PROVE  c[1 + (d + 1)] = c[1]
    OBVIOUS
  <2>1. PICK i \in 1 .. (N - 1) : i = 1 + d /\ i + 1 = 1 + (d + 1)
    OBVIOUS
  <2>2. c[i] = c[1]
    BY <1>2, <2>1
  <2> QED
    BY <2>1, <2>2 DEF Changes
<1>3. \A d \in Nat : d \in T
  <2> HIDE DEF T
  <2> QED
    BY <1>1, <1>2, NatInductionSet
<1>4. ASSUME NEW i \in 1 .. N
      PROVE  c[i] = c[1]
  <2>1. PICK d \in Nat : d = i - 1 /\ 1 + d = i
    OBVIOUS
  <2>2. d \in T
    BY <1>3
  <2> QED
    BY <2>1, <2>2
<1> QED
  BY <1>4

\* What the lens reads, s, are the latest of the series: those from from on.
Reads(s, series, from) ==
    /\ from = IF Len(series) > HistoryBars THEN Len(series) - HistoryBars + 1 ELSE 1
    /\ Len(s) = Len(series) - from + 1 /\ Len(s) \in Nat /\ Len(s) <= HistoryBars
    /\ \A i \in 1 .. Len(s) : s[i] = series[from + i - 1] /\ from + i - 1 \in 1 .. Len(series)

\* The lens reads a series of the same prices, from some place on.
LEMMA ReadValues ==
    ASSUME HistoryBars \in Nat, NEW S, NEW series \in Seq(S)
    PROVE  Read(series) \in Seq(S) /\ \E from \in Nat \ {0} : Reads(Read(series), series, from)
<1>1. PICK n \in Nat : n = Len(series) /\ \A i \in 1 .. n : series[i] \in S
  OBVIOUS
<1>2. PICK from \in Nat \ {0} :
          from = IF n > HistoryBars THEN n - HistoryBars + 1 ELSE 1
  <2>1. (IF n > HistoryBars THEN n - HistoryBars + 1 ELSE 1) \in Nat \ {0}
    OBVIOUS
  <2> QED
    BY <2>1
<1>3. Read(series) = SubSeq(series, from, n)
  BY <1>1, <1>2 DEF Read
<1>4. n - from + 1 \in Nat /\ from <= n + 1 /\ n - from + 1 <= HistoryBars
  BY <1>2
<1>5. \A i \in from .. n : series[i] \in S
  BY <1>1, <1>2
<1>6. /\ SubSeq(series, from, n) \in Seq(S)
      /\ Len(SubSeq(series, from, n)) = IF from <= n THEN n - from + 1 ELSE 0
      /\ \A i \in 1 .. (n - from + 1) : SubSeq(series, from, n)[i] = series[from + i - 1]
  BY <1>1, <1>2, <1>5, SubSeqProperties
<1>7. Len(Read(series)) = n - from + 1
  BY <1>3, <1>4, <1>6
<1>8. \A i \in 1 .. (n - from + 1) : from + i - 1 \in 1 .. n
  OBVIOUS
<1> QED
  BY <1>1, <1>2, <1>3, <1>4, <1>6, <1>7, <1>8 DEF Reads

\* What the lens votes on: the closes it read, with the factor Scale.
Scaled(series) == [i \in DOMAIN Read(series) |-> Scale * Read(series)[i]]

\* They are as many as it read, and each carries the factor.
LEMMA ScaledValues ==
    ASSUME TechnicalConstantsOK, NEW series \in Seq(Int), NEW N \in Nat, N = Len(Read(series))
    PROVE  /\ N <= HistoryBars /\ Len(Scaled(series)) = N
           /\ \A i \in 1 .. N : /\ Read(series)[i] \in Int
                                /\ Scaled(series)[i] = Scale * Read(series)[i]
           /\ Multiples(Scaled(series), 1, N, Scale)
           /\ TechnicalScore(series) = Votes(Scaled(series))
<1>1. HistoryBars \in Nat /\ Scale \in Nat \ {0}
  BY DEF TechnicalConstantsOK
<1>2. Read(series) \in Seq(Int) /\ N <= HistoryBars
  BY <1>1, ReadValues DEF Reads
<1> DEFINE c == Read(series)
           v == Scaled(series)
<1>3. c \in Seq(Int) /\ Len(c) = N /\ DOMAIN c = 1 .. N /\ \A i \in 1 .. N : c[i] \in Int
  BY <1>2
<1>4. v = [i \in 1 .. N |-> Scale * c[i]]
  BY <1>3 DEF Scaled
<1> HIDE DEF c, v
<1>5. \A i \in 1 .. N : v[i] = Scale * c[i] /\ v[i] \in Int
  BY <1>1, <1>3, <1>4
<1>6. Len(v) = N
  BY <1>4, <1>5
<1>7. Multiples(v, 1, N, Scale)
  BY <1>3, <1>5 DEF Multiples
<1>8. TechnicalScore(series) = Votes(Scaled(series))
  BY DEF TechnicalScore, Votes, Scaled
<1> QED
  BY <1>2, <1>3, <1>5, <1>6, <1>7, <1>8 DEF c, v

\* A series without a change scores -0.5, and any other the opposite of its
\* mirror image.
THEOREM MirrorIsFair ==
    ASSUME TechnicalConstantsOK
    PROVE  TechnicalSpec => []MirrorScoresOpposite
<1>1. ASSUME TechnicalTypeOK, TechnicalOk(closes)
      PROVE  IF Flat(Read(closes)) THEN TechnicalScore(closes) = -5
             ELSE TechnicalScore(Mirror(closes)) = -TechnicalScore(closes)
  <2>1. /\ HistoryBars \in Nat /\ MinBars \in Nat /\ 2 <= MinBars /\ Scale \in Nat \ {0}
        /\ IsFiniteSet(Closes) /\ Closes \subseteq Nat
    BY DEF TechnicalConstantsOK
  <2>2. PICK n \in Nat : n = Len(closes) /\ \A i \in 1 .. n : closes[i] \in Closes
    BY <1>1 DEF TechnicalTypeOK
  <2>3. closes \in Seq(Closes) /\ closes \in Seq(Int)
    <3>1. closes \in Seq(Closes)
      BY <1>1 DEF TechnicalTypeOK
    <3>2. closes = [i \in 1 .. n |-> closes[i]] /\ \A i \in 1 .. n : closes[i] \in Int
      BY <2>1, <2>2, <3>1
    <3> QED
      BY <3>1, <3>2
  <2> DEFINE c == Read(closes)
             v == Scaled(closes)
  <2>4. PICK N \in Nat : N = Len(c) /\ MinBars <= N
    <3>1. Len(Read(closes)) \in Nat
      BY <2>1, <2>3, ReadValues DEF Reads
    <3> QED
      BY <1>1, <3>1 DEF TechnicalOk
  <2>5. /\ N <= HistoryBars /\ Len(v) = N
        /\ \A i \in 1 .. N : c[i] \in Int /\ v[i] = Scale * c[i]
        /\ Multiples(v, 1, N, Scale)
        /\ TechnicalScore(closes) = Votes(v)
    BY <2>3, <2>4, ScaledValues
  <2>6. DOMAIN c = 1 .. N
    BY <2>1, <2>3, <2>4, ReadValues
  <2>7. CASE Flat(c)
    <3>1. PICK x \in Int : x = Scale * c[1]
      <4>1. PICK y \in Int : y = c[1]
        BY <2>1, <2>4, <2>5
      <4>2. Scale * y \in Int
        BY <2>1
      <4> QED
        BY <4>1, <4>2
    <3>2. \A i \in 1 .. N : v[i] = x
      BY <2>5, <2>6, <2>7, <3>1 DEF Flat
    <3> HIDE DEF c, v
    <3>3. N = Len(v)
      BY <2>5
    <3>4. Votes(v) = -5
      BY <2>4, <2>5, <3>2, <3>3, FlatVotes
    <3> QED
      BY <2>5, <2>7, <3>4 DEF c
  <2>8. CASE ~Flat(c)
    <3> DEFINE top == CHOOSE x \in Closes : \A y \in Closes : y <= x
               d == Read(Mirror(closes))
               w == Scaled(Mirror(closes))
    <3>1. top \in Nat
      <4>1. Closes # {}
        <5>1. n > 0
          BY <2>1, <2>3, <2>2, <2>4, ReadValues DEF Reads
        <5> QED
          BY <2>2, <5>1
      <4>2. \E x \in Closes : \A y \in Closes : y <= x
        BY <2>1, <4>1, FiniteHasGreatest
      <4> HIDE DEF v, c
      <4> QED
        BY <2>1, <4>2
    <3>2. /\ Mirror(closes) = [i \in 1 .. n |-> top - closes[i]]
      BY <2>3, <2>2 DEF Mirror
    <3> HIDE DEF top
    <3>3. \A i \in 1 .. n : closes[i] \in Int /\ top - closes[i] \in Int
      <4> TAKE i \in 1 .. n
      <4>1. PICK x \in Nat : x = closes[i]
        BY <2>1, <2>2
      <4>2. PICK t \in Nat : t = top
        BY <3>1
      <4> QED
        BY <4>1, <4>2
    <3>4. Mirror(closes) \in Seq(Int) /\ Len(Mirror(closes)) = n
      BY <3>2, <3>3
    <3>5. Len(d) = N /\ \A i \in 1 .. N : d[i] = top - c[i]
      <4>1. PICK from \in Nat \ {0} : Reads(c, closes, from)
        BY <2>1, <2>3, ReadValues
      <4>2. PICK start \in Nat \ {0} : Reads(d, Mirror(closes), start)
        BY <2>1, <3>4, ReadValues
      <4>3. start = from
        BY <2>2, <3>4, <4>1, <4>2 DEF Reads
      <4>4. Len(d) = N
        BY <2>2, <2>4, <3>4, <4>1, <4>2, <4>3 DEF Reads
      <4>5. \A j \in 1 .. n : Mirror(closes)[j] = top - closes[j]
        BY <3>2
      <4>6. ASSUME NEW i \in 1 .. N
            PROVE  d[i] = top - c[i]
        <5>1. PICK j \in 1 .. n : j = from + i - 1 /\ c[i] = closes[j]
          BY <2>2, <2>4, <4>1 DEF Reads
        <5>2. d[i] = Mirror(closes)[j]
          BY <4>2, <4>3, <4>4, <5>1 DEF Reads
        <5> QED
          BY <4>5, <5>1, <5>2
      <4> QED
        BY <4>4, <4>6
    <3>6. /\ Len(w) = N
          /\ \A i \in 1 .. N : w[i] = Scale * d[i]
          /\ TechnicalScore(Mirror(closes)) = Votes(w)
      BY <3>4, <3>5, ScaledValues
    <3> HIDE DEF d, w
    <3>7. PICK shift \in Int : shift = Scale * top
      BY <2>1, <3>1
    <3>8. Mirrors(w, v, 1, N, shift)
      <4> SUFFICES ASSUME NEW i \in 1 .. N
                   PROVE  v[i] \in Int /\ w[i] = shift - v[i]
        BY DEF Mirrors
      <4>1. PICK K, x, t \in Int : K = Scale /\ x = c[i] /\ t = top
        BY <2>1, <2>5, <3>1
      <4>2. v[i] = K * x /\ w[i] = K * (t - x) /\ shift = K * t
        BY <2>5, <3>5, <3>6, <3>7, <4>1
      <4>3. K * (t - x) = K * t - K * x
        OBVIOUS
      <4> QED
        BY <4>2, <4>3
    <3>9. Changes(v, N)
      <4>1. Changes(c, N)
        BY <2>6, <2>8, NoChangeIsFlat DEF Flat
      <4>2. PICK i \in 1 .. (N - 1) : c[i + 1] # c[i]
        BY <4>1 DEF Changes
      <4>3. PICK x, y \in Int : x = c[i + 1] /\ y = c[i]
        BY <2>5
      <4>4. Scale * x # Scale * y
        BY <2>1, <4>2, <4>3
      <4>5. v[i + 1] = Scale * x /\ v[i] = Scale * y
        BY <2>5, <4>3
      <4> QED
        BY <4>4, <4>5 DEF Changes
    <3> HIDE DEF c, v
    <3>10. N = Len(v) /\ N = Len(w)
      BY <2>5, <3>6
    <3>11. Votes(w) = -Votes(v)
      <4>1. MirrorImages(w, v, N, shift)
        BY <2>5, <3>8, <3>10 DEF MirrorImages
      <4> QED
        BY <2>4, <2>5, <3>9, <4>1, VotesMirror
    <3> QED
      BY <2>5, <2>8, <3>6, <3>11 DEF c
  <2> QED
    BY <2>7, <2>8
<1>2. TechnicalTypeOK => MirrorScoresOpposite
  BY <1>1 DEF MirrorScoresOpposite
<1> QED
  BY <1>2, TechnicalTypeCorrect, PTL

-----------------------------------------------------------------------------
(* The five components side by side                                        *)

\* Each component behaves, next to the others, as it does alone.
LEMMA AnalyticsPartsBehave ==
    AnalyticsSpec =>
        TechnicalSpec /\ FundamentalSpec /\ ScoringSpec /\ BacktestSpec /\ PageSpec
<1>1. AnalyticsInit =>
          TechnicalInit /\ FundamentalInit /\ ScoringInit /\ BacktestInit /\ PageInit
  BY DEF AnalyticsInit
<1> USE DEF AnalyticsNext, TechnicalMoves, FundamentalMoves, ScoringMoves, BacktestMoves,
            PageMoves, analyticsVars
<1>2. [AnalyticsNext]_analyticsVars => [TechnicalNext]_closes
  OBVIOUS
<1>3. [AnalyticsNext]_analyticsVars => [FundamentalNext]_fundamentalVars
  OBVIOUS
<1>4. [AnalyticsNext]_analyticsVars => [ScoringNext]_scoringVars
  OBVIOUS
<1>5. [AnalyticsNext]_analyticsVars => [BacktestNext]_backtestVars
  OBVIOUS
<1>6. [AnalyticsNext]_analyticsVars => [PageNext]_pageVars
  OBVIOUS
<1> QED
  BY <1>1, <1>2, <1>3, <1>4, <1>5, <1>6, PTL
  DEF AnalyticsSpec, TechnicalSpec, FundamentalSpec, ScoringSpec, BacktestSpec, PageSpec

\* Every variable of the five components keeps its type.
THEOREM AnalyticsTypesCorrect == AnalyticsSpec => []AnalyticsTypeOK
<1>1. /\ TechnicalConstantsOK /\ FundamentalConstantsOK /\ ScoringConstantsOK
      /\ BacktestConstantsOK /\ PageConstantsOK
  BY AnalyticsConstantsOK
<1>2. TechnicalTypeOK /\ FundamentalTypeOK /\ ScoringTypeOK /\ BacktestTypeOK /\ PageTypeOK
      => AnalyticsTypeOK
  BY DEF AnalyticsTypeOK
<1>3. FundamentalSpec => []FundamentalTypeOK
  BY <1>1, FundamentalTypeCorrect
<1>4. ScoringSpec => []ScoringTypeOK
  BY <1>1, ScoringTypeCorrect
<1>5. BacktestSpec => []BacktestTypeOK
  BY <1>1, BacktestTypeCorrect
<1>6. PageSpec => []PageTypeOK
  BY <1>1, PageTypeCorrect
<1> QED
  BY <1>2, <1>3, <1>4, <1>5, <1>6, TechnicalTypeCorrect, AnalyticsPartsBehave, PTL

\* What the theorems say of each component alone holds of the five together,
\* the specification that the run checks.
THEOREM AnalyticsSafe ==
    AnalyticsSpec =>
        /\ [](CompositeWithinLenses /\ RaisingALensNeverLowersTheCall)
        /\ [](MissingRowMeansWeightOnMissingLens /\ TargetsAreHonest)
        /\ [](PeerMedianIsAPeersValuation /\ CheaperNeverScoresLower)
        /\ [](MirrorScoresOpposite /\ RisingNeverNegative)
        /\ [](NarrowWindowIsEmpty /\ ShownAccuracyHasHistory) /\ JudgementIsFinal
        /\ PendingEndsForItsOwnReasons
<1>1. /\ TechnicalConstantsOK /\ FundamentalConstantsOK /\ ScoringConstantsOK
      /\ BacktestConstantsOK /\ PageConstantsOK
  BY AnalyticsConstantsOK
<1>2. ScoringSpec => /\ []CompositeWithinLenses /\ []RaisingALensNeverLowersTheCall
                     /\ []MissingRowMeansWeightOnMissingLens /\ []TargetsAreHonest
  BY <1>1, CompositesWithinLenses, BetterNewsNeverCosts, MissingRowsExplained, HonestTargets
<1>3. FundamentalSpec => []PeerMedianIsAPeersValuation /\ []CheaperNeverScoresLower
  BY <1>1, PeerMedianSound, CheaperScoresNoLower
<1>4. TechnicalSpec => []MirrorScoresOpposite /\ []RisingNeverNegative
  BY <1>1, MirrorIsFair, RisingLensNeverNegative
<1>5. BacktestSpec => []NarrowWindowIsEmpty /\ []ShownAccuracyHasHistory /\ JudgementIsFinal
  BY <1>1, NarrowWindows, ShownAccuracies, JudgementsAreFinal
<1>6. PageSpec => PendingEndsForItsOwnReasons
  BY <1>1, PendingEndsRightly
<1> QED
  BY <1>2, <1>3, <1>4, <1>5, <1>6, AnalyticsPartsBehave, PTL
=============================================================================
