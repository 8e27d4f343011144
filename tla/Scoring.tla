------------------------------ MODULE Scoring ------------------------------
(***************************************************************************)
(* app/services/recommendation_engine.py: from the four lens signals, the  *)
(* user's weights and the day's price facts to the recommendation row.     *)
(*                                                                         *)
(* Decimals are integers here: signals and composites in hundredths,       *)
(* weights in thousandths, stored effective weights, prices and targets in *)
(* ten-thousandths.                                                        *)
(***************************************************************************)
EXTENDS Integers, FiniteSets, FiniteSetsExt, Functions

CONSTANTS
    SignalValues,    \* the values a lens can have, within -200 .. 200
    WeightChoices,   \* the module_weights the user tries to set
    PriceFacts       \* the [close, pe, eps] a ticker can have, 0 for NULL

Modules == {"technical", "fundamental", "chip", "news"}
Weights == [Modules -> 0 .. 1000]

DefaultWeights ==
    [m \in Modules |-> CASE m = "technical"   -> 300
                         [] m = "fundamental" -> 300
                         [] m = "chip"        -> 250
                         [] m = "news"        -> 150]

ScoringConstantsOK ==
    /\ SignalValues \subseteq -200 .. 200
    /\ WeightChoices \subseteq Weights
    /\ PriceFacts \subseteq [close : Nat, pe : Nat, eps : Int]

\* quantize(.., ROUND_HALF_UP): halves go away from zero.
RoundHalfUp(n, d) ==
    IF n >= 0 THEN (2 * n + d) \div (2 * d) ELSE -((d - 2 * n) \div (2 * d))

Abs(n) == IF n < 0 THEN -n ELSE n

VARIABLES
    available,   \* the lenses with a signal today
    signal,      \* their signals
    facts,       \* TargetInputs
    stored,      \* user_config.module_weights
    row,         \* today's recommendation, NoRow if there is none
    weights,     \* what the engine loaded from it at the start of its run
    outcome      \* "idle", "loaded", then "written", "skipped" or "raised"

scoringVars == <<available, signal, facts, stored, row, weights, outcome>>

-----------------------------------------------------------------------------
(* The pure core. *)

\* Mutant: the two sell bands swapped.
CallSellsSwapped(composite) ==
    CASE composite < -150 -> "SELL"
      [] composite >= -150 /\ composite < -75 -> "STRONG_SELL"
      [] composite >= -75 /\ composite <= 75 -> "HOLD"
      [] composite > 75 /\ composite <= 150 -> "BUY"
      [] composite > 150 -> "STRONG_BUY"

\* §5, on the rounded composite: a boundary belongs to the milder call.
Call(composite) ==
    CASE composite < -150 -> "STRONG_SELL"
      [] composite >= -150 /\ composite < -75 -> "SELL"
      [] composite >= -75 /\ composite <= 75 -> "HOLD"
      [] composite > 75 /\ composite <= 150 -> "BUY"
      [] composite > 150 -> "STRONG_BUY"

Rank == [STRONG_SELL |-> 1, SELL |-> 2, HOLD |-> 3, BUY |-> 4, STRONG_BUY |-> 5]

\* Mutant: a missing lens keeps its weight.
DenominatorOfAll(w, A) == SumFunctionOnSet(w, Modules)

\* §2: the weights renormalised over the lenses that are there.
Denominator(w, A) == SumFunctionOnSet(w, A)

EffectiveWeights(w, A) ==
    [m \in Modules |->
        IF m \in A THEN RoundHalfUp(10000 * w[m], Denominator(w, A)) ELSE 0]

\* §3: full precision, rounded once.
Composite(s, w, A) ==
    RoundHalfUp(SumFunctionOnSet([m \in A |-> w[m] * s[m]], A), Denominator(w, A))

\* §6: the share of lenses that agree with the call, in hundredths of a percent.
ConfidencePct(s, A, composite) ==
    LET agree == IF Call(composite) = "HOLD" THEN {m \in A : Abs(s[m]) <= 75}
                 ELSE {m \in A : s[m] * composite > 0}
    IN RoundHalfUp(10000 * Cardinality(agree), Cardinality(A))

ConfidenceLevel(pct) ==
    IF pct >= 7500 THEN "HIGH" ELSE IF pct >= 5000 THEN "MEDIUM" ELSE "LOW"

\* §7: strictly more than 2.0 between the most distant lenses.
Conflict(s, A) == Max({s[m] : m \in A}) - Min({s[m] : m \in A}) > 200

\* Mutant: the peer P/E is used although the lens is down.
UsableWithoutLens(A, f) == f.close > 0 /\ f.eps > 0 /\ f.pe > 0

\* §8: the fundamental half of the target needs the lens, a positive EPS and
\* a peer P/E; without it the close stands alone.
Usable(A, f) == "fundamental" \in A /\ f.close > 0 /\ f.eps > 0 /\ f.pe > 0

TargetBase(A, f) ==
    IF Usable(A, f) THEN RoundHalfUp(f.pe * f.eps + f.close, 2) ELSE f.close

\* No close, no targets.
Targets(A, f) ==
    IF f.close = 0 THEN <<>>
    ELSE LET base == TargetBase(A, f)
         IN <<RoundHalfUp(base * 85, 100), base, RoundHalfUp(base * 115, 100)>>

NoRow == [call |-> "none"]

SuppressedRow(A) ==
    [call |-> "SUPPRESSED", completeness |-> Cardinality(A), reduced |-> FALSE,
     effective |-> [m \in Modules |-> 0], targets |-> <<>>]

ScoredRow(s, w, A, f) ==
    LET composite == Composite(s, w, A)
    IN [call |-> Call(composite),
        composite |-> composite,
        completeness |-> Cardinality(A),
        reduced |-> Cardinality(A) = 3 \/ ~Usable(A, f),
        effective |-> EffectiveWeights(w, A),
        conflict |-> Conflict(s, A),
        confidence |-> ConfidenceLevel(ConfidencePct(s, A, composite)),
        targets |-> Targets(A, f)]

-----------------------------------------------------------------------------
WeightSumOK(w) == SumFunctionOnSet(w, Modules) \in 999 .. 1001

ScoringTypeOK ==
    /\ available \subseteq Modules
    /\ signal \in [Modules -> SignalValues \union {0}]
    /\ facts \in PriceFacts
    /\ stored \in Weights
    /\ weights \in Weights
    /\ outcome \in {"idle", "loaded", "written", "skipped", "raised"}
    /\ row.call \in DOMAIN Rank \union {"none", "SUPPRESSED"}

\* The row of user_config may also have been written by hand.
ScoringInit ==
    /\ available \in SUBSET Modules
    /\ signal \in {s \in [Modules -> SignalValues \union {0}] :
                     \A m \in Modules \ available : s[m] = 0}
    /\ \A m \in available : signal[m] \in SignalValues
    /\ facts \in PriceFacts
    /\ stored \in WeightChoices
    /\ row = NoRow
    /\ weights = DefaultWeights
    /\ outcome = "idle"

\* PUT /config/weights validates the sum; a run that has loaded its weights
\* goes on with them.
PutWeights(w) ==
    /\ WeightSumOK(w)
    /\ stored' = w
    /\ UNCHANGED <<available, signal, facts, row, weights, outcome>>

\* Mutants: the stored weights are trusted; they are read in another unit.
LoadWeightsUnchecked ==
    /\ outcome = "idle"
    /\ weights' = stored
    /\ outcome' = "loaded"
    /\ UNCHANGED <<available, signal, facts, stored, row>>

LoadWeightsRescaled ==
    /\ outcome = "idle"
    /\ weights' = [m \in Modules |-> 10 * stored[m]]
    /\ outcome' = "loaded"
    /\ UNCHANGED <<available, signal, facts, stored, row>>

\* _load_weights: weights that do not sum to one are replaced.
LoadWeights ==
    /\ outcome = "idle"
    /\ weights' = IF WeightSumOK(stored) THEN stored ELSE DefaultWeights
    /\ outcome' = "loaded"
    /\ UNCHANGED <<available, signal, facts, stored, row>>

\* Nothing known at all: no row is minted.
Skip ==
    /\ outcome = "loaded"
    /\ available = {} /\ facts.close = 0
    /\ outcome' = "skipped"
    /\ UNCHANGED <<available, signal, facts, stored, row, weights>>

\* Two or more lenses down.
Suppress ==
    /\ outcome = "loaded"
    /\ available # {} \/ facts.close > 0
    /\ Cardinality(available) <= 2
    /\ row' = SuppressedRow(available)
    /\ outcome' = "written"
    /\ UNCHANGED <<available, signal, facts, stored, weights>>

\* The lenses left have no weight: Decimal division by zero, which run_engine
\* counts as a failed ticker.
Raise ==
    /\ outcome = "loaded"
    /\ Cardinality(available) >= 3
    /\ Denominator(weights, available) = 0
    /\ outcome' = "raised"
    /\ UNCHANGED <<available, signal, facts, stored, row, weights>>

Score ==
    /\ outcome = "loaded"
    /\ Cardinality(available) >= 3
    /\ Denominator(weights, available) > 0
    /\ row' = ScoredRow(signal, weights, available, facts)
    /\ outcome' = "written"
    /\ UNCHANGED <<available, signal, facts, stored, weights>>

ScoringNext ==
    \/ \E w \in WeightChoices : PutWeights(w)
    \/ LoadWeights
    \/ Skip
    \/ Suppress
    \/ Raise
    \/ Score

ScoringSpec == ScoringInit /\ [][ScoringNext]_scoringVars

-----------------------------------------------------------------------------
Scored == row.call \in DOMAIN Rank

\* A scored row never claims more than its lenses: the composite lies between
\* the lowest and the highest of them (so ck_rec_signal_range holds), and the
\* effective weights stored for the breakdown add up to one but for rounding.
CompositeWithinLenses ==
    Scored =>
        /\ row.composite >= Min({signal[m] : m \in available})
        /\ row.composite <= Max({signal[m] : m \in available})
        /\ Abs(SumFunctionOnSet(row.effective, Modules) - 10000) <= 2

\* Better news never costs a call: with the day's weights, raising one lens
\* (one that is there) leaves the call where it is or moves it towards BUY.
RaisingALensNeverLowersTheCall ==
    Scored =>
        \A m \in available : \A better \in {v \in SignalValues : v > signal[m]} :
            LET composite == Composite([signal EXCEPT ![m] = better], weights, available)
            IN Rank[Call(composite)] >= Rank[row.call]

\* A ticker with three lenses can be left without a row, but only when the
\* user had put all but the tolerance of the weight on the one that is down.
MissingRowMeansWeightOnMissingLens ==
    outcome = "raised" => \E m \in Modules \ available : weights[m] >= 999

\* The target price uses the fundamental leg only from a lens that is there,
\* and every row without that leg, or without one lens, says so (reduced).
TargetsAreHonest ==
    (Scored /\ row.targets # <<>>) =>
        /\ row.targets[1] <= row.targets[2] /\ row.targets[2] <= row.targets[3]
        /\ row.targets[2] # facts.close => "fundamental" \in available /\ facts.eps > 0
        /\ ~row.reduced => available = Modules /\ facts.pe * facts.eps > 0
=============================================================================
