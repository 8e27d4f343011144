---------------------------- MODULE MCAnalytics ----------------------------
(***************************************************************************)
(* The components that turn stored data into numbers and show them, side   *)
(* by side, and the values their constants take for model checking: two    *)
(* lenses, the engine's scoring, the backtest and the dashboard page.  As  *)
(* in MCIngest a behaviour is one of one component, the others rest: a     *)
(* lens is to the engine a signal or none, so scoring takes every          *)
(* combination.                                                            *)
(***************************************************************************)
EXTENDS Backtest, TechnicalLens, FundamentalLens, Scoring, AnalyzePage

VARIABLE part

analyticsVars == <<part, closes, fundamentalVars, scoringVars, backtestVars, pageVars>>

\* A loss, and two ratios far enough apart for every vote.
PeTried == {-5, 8, 12}
MarginsTried == {-1, 1}

\* At the band edges and beside them.
SignalsTried == {-200, -76, 0, 75, 200}

\* All weight on one lens, on none but two, and a set that does not add up.
Weighted(t, f, c, n) == [technical |-> t, fundamental |-> f, chip |-> c, news |-> n]
WeightsTried == {Weighted(300, 300, 250, 150), Weighted(1000, 0, 0, 0), Weighted(0, 500, 501, 0),
                 Weighted(300, 300, 300, 300), Weighted(0, 0, 0, 0)}

Priced(price, pe, eps) == [close |-> price, pe |-> pe, eps |-> eps]
FactsTried == {Priced(0, 0, 0), Priced(100050, 0, 0), Priced(100050, 15, 7003),
               Priced(100050, 15, -7003)}

\* Months of one day and of two: adding a month clamps the second day.
CalendarMonths == <<1, 2>>
CallsIssued == {[call |-> "BUY",  horizon |-> 2, segment |-> "full"],
                [call |-> "SELL", horizon |-> 1, segment |-> "full"],
                [call |-> "HOLD", horizon |-> 1, segment |-> "partial"]}
BarBounds == [stock |-> 2, benchmark |-> 1]

\* A run of each ticker; Analytics.cfg lets two loads pass each other.
RunsOfTickers == [r1 |-> "a", r2 |-> "b"]

ASSUME AnalyticsConstantsOK ==
    /\ TechnicalConstantsOK
    /\ FundamentalConstantsOK
    /\ ScoringConstantsOK
    /\ BacktestConstantsOK
    /\ PageConstantsOK

\* The inputs that scoring and the page choose at the start are fixed, any
\* which way, while another component moves.
AnalyticsInit ==
    /\ part \in {"technical", "fundamental", "scoring", "backtest", "page"}
    /\ TechnicalInit /\ FundamentalInit /\ ScoringInit /\ BacktestInit /\ PageInit
    /\ part # "scoring" =>
          /\ available = {}
          /\ facts = CHOOSE f \in PriceFacts : TRUE
          /\ stored = CHOOSE w \in WeightChoices : TRUE
    /\ part # "page" => query = First

TechnicalMoves == part = "technical" /\ TechnicalNext
    /\ UNCHANGED <<part, fundamentalVars, scoringVars, backtestVars, pageVars>>

FundamentalMoves == part = "fundamental" /\ FundamentalNext
    /\ UNCHANGED <<part, closes, scoringVars, backtestVars, pageVars>>

ScoringMoves == part = "scoring" /\ ScoringNext
    /\ UNCHANGED <<part, closes, fundamentalVars, backtestVars, pageVars>>

BacktestMoves == part = "backtest" /\ BacktestNext
    /\ UNCHANGED <<part, closes, fundamentalVars, scoringVars, pageVars>>

PageMoves == part = "page" /\ PageNext
    /\ UNCHANGED <<part, closes, fundamentalVars, scoringVars, backtestVars>>

AnalyticsNext ==
    TechnicalMoves \/ FundamentalMoves \/ ScoringMoves \/ BacktestMoves \/ PageMoves

AnalyticsSpec == AnalyticsInit /\ [][AnalyticsNext]_analyticsVars

-----------------------------------------------------------------------------
\* Every component keeps the types of its variables.
AnalyticsTypeOK ==
    TechnicalTypeOK /\ FundamentalTypeOK /\ ScoringTypeOK /\ BacktestTypeOK /\ PageTypeOK
=============================================================================
