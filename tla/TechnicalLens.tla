--------------------------- MODULE TechnicalLens ---------------------------
(***************************************************************************)
(* app/batch/signals/technical.py: moving averages, Wilder's RSI and MACD  *)
(* over the closes of one ticker, and the score voted from them.           *)
(*                                                                         *)
(* The periods are constants, smaller than the code's 20, 60, 14 and 12,   *)
(* 26, 9.  The code divides Decimals; here every close carries the factor  *)
(* Scale, and ScaleIsEven says of it that all divisions come out even.     *)
(***************************************************************************)
EXTENDS Integers, Sequences, FiniteSets, SequencesExt, Functions

CONSTANTS
    MaShort, MaLong,            \* 20 and 60
    RsiPeriod,                  \* 14
    Fast, Slow, SignalPeriod,   \* 12, 26 and 9
    MinBars,                    \* MIN_BARS
    HistoryBars,                \* _HISTORY_BARS
    Closes,                     \* the closes a bar can have
    Scale,
    MaxCloses                   \* bound

Divides(d, n) == \E k \in 1 .. n : n = d * k

Powers(b) ==
    LET power[i \in 0 .. HistoryBars] == IF i = 0 THEN 1 ELSE b * power[i - 1]
    IN power

\* What an average of the longest history divides by, its seed's p included.
EmaDivisor(p) == p * Powers(p + 1)[HistoryBars - p]
WilderDivisor(p) == p * Powers(p)[HistoryBars - p]

ScaleIsEven ==
    /\ Divides(MaShort, Scale) /\ Divides(MaLong, Scale)
    /\ Divides(WilderDivisor(RsiPeriod), Scale)
    /\ \A p \in {Fast, Slow} : Divides(EmaDivisor(p) * EmaDivisor(SignalPeriod), Scale)

TechnicalConstantsOK ==
    /\ MaShort \in Nat /\ MaLong \in Nat /\ MinBars \in Nat /\ HistoryBars \in Nat
    /\ 2 <= MaShort /\ MaShort < MaLong /\ MaLong <= MinBars
    /\ RsiPeriod \in Nat \ {0, 1} /\ RsiPeriod + 1 <= MinBars
    /\ Fast \in Nat \ {0} /\ Slow \in Nat \ {0} /\ SignalPeriod \in Nat \ {0}
    /\ Fast <= Slow /\ Slow + SignalPeriod - 1 <= MinBars
    /\ MinBars <= HistoryBars
    /\ IsFiniteSet(Closes) /\ Closes \subseteq Nat
    /\ Scale \in Nat \ {0} /\ ScaleIsEven

VARIABLE closes    \* price_bar's closes in date order

TechnicalTypeOK == closes \in Seq(Closes)

TechnicalInit == closes = <<>>

\* The history grows bar by bar.  That a later fetch may replace a stored
\* close leads to no other histories than those that grow with it from the start.
CloseLands(c) ==
    /\ Len(closes) < MaxCloses
    /\ closes' = Append(closes, c)

TechnicalNext == \E c \in Closes : CloseLands(c)

TechnicalSpec == TechnicalInit /\ [][TechnicalNext]_closes

-----------------------------------------------------------------------------
\* Votes and scores are in tenths.
Mean(v, from, to) == SumFunctionOnSet(v, from .. to) \div (to - from + 1)

Sma(v, n) == Mean(v, Len(v) - n + 1, Len(v))

\* Seeded with the mean of the first p values, one point per value from there.
Ema(v, p) ==
    LET ema[i \in p .. Len(v)] ==
            IF i = p THEN Mean(v, 1, p)
            ELSE ema[i - 1] + (2 * (v[i] - ema[i - 1])) \div (p + 1)
    IN ema

EmaSeries(v, p) == [j \in 1 .. (Len(v) - p + 1) |-> Ema(v, p)[j + p - 1]]

\* macd_hist: the MACD line against its own average.
MacdLine(v) ==
    LET fast == EmaSeries(v, Fast)
        slow == EmaSeries(v, Slow)
    IN [i \in 1 .. Len(slow) |-> fast[i + Slow - Fast] - slow[i]]

MacdHist(v) == Last(MacdLine(v)) - Last(EmaSeries(MacdLine(v), SignalPeriod))

Gains(v) == [i \in 1 .. (Len(v) - 1) |-> IF v[i + 1] > v[i] THEN v[i + 1] - v[i] ELSE 0]
Losses(v) == [i \in 1 .. (Len(v) - 1) |-> IF v[i + 1] < v[i] THEN v[i] - v[i + 1] ELSE 0]

\* Wilder's average of the changes.
WilderAverage(change) ==
    LET avg[i \in RsiPeriod .. Len(change)] ==
            IF i = RsiPeriod THEN Mean(change, 1, RsiPeriod)
            ELSE (avg[i - 1] * (RsiPeriod - 1) + change[i]) \div RsiPeriod
    IN avg

AvgGain(v) == WilderAverage(Gains(v))[Len(v) - 1]
AvgLoss(v) == WilderAverage(Losses(v))[Len(v) - 1]

\* RSI < 30 and RSI > 70, with 100 where the average loss is zero.
Oversold(v) == AvgLoss(v) > 0 /\ 70 * AvgGain(v) < 30 * AvgLoss(v)
Overbought(v) == AvgLoss(v) = 0 \/ 30 * AvgGain(v) > 70 * AvgLoss(v)

TrendVote(close, ma20, ma60) ==
    CASE close > ma20 /\ ma20 > ma60 -> 10
      [] close < ma20 /\ ma20 < ma60 -> -10
      [] close > ma20 /\ ma20 <= ma60 -> 5
      [] close < ma20 /\ ma20 >= ma60 -> -5
      [] close = ma20 -> 0

\* Mutant: the counter-trend vote weighs more than the trend.
RsiVoteHeavy(v) == IF Oversold(v) THEN 20 ELSE IF Overbought(v) THEN -20 ELSE 0

RsiVote(v) == IF Oversold(v) THEN 5 ELSE IF Overbought(v) THEN -5 ELSE 0

\* Mutant: a histogram of zero is bullish.
MacdVoteAtZero(hist) == IF hist >= 0 THEN 5 ELSE -5

MacdVote(hist) == IF hist > 0 THEN 5 ELSE IF hist < 0 THEN -5 ELSE 0

\* technical_signal reads the latest HistoryBars closes; fewer than MinBars
\* of them are no lens.
Read(series) ==
    LET from == IF Len(series) > HistoryBars THEN Len(series) - HistoryBars + 1 ELSE 1
    IN SubSeq(series, from, Len(series))

TechnicalOk(series) == Len(Read(series)) >= MinBars

TechnicalScore(series) ==
    LET v == [i \in DOMAIN Read(series) |-> Scale * Read(series)[i]]
    IN TrendVote(Last(v), Sma(v, MaShort), Sma(v, MaLong))
       + RsiVote(v) + MacdVote(MacdHist(v))

-----------------------------------------------------------------------------
Flat(series) == \A i \in DOMAIN series : series[i] = series[1]

\* The series turned upside down.
Mirror(series) ==
    LET top == CHOOSE c \in Closes : \A d \in Closes : d <= c
    IN [i \in DOMAIN series |-> top - series[i]]

\* The lens has no side: the mirror image of a price history scores exactly
\* the opposite.  The one exception is a history without any change, which
\* RSI calls overbought and both images score -0.5.
MirrorScoresOpposite ==
    TechnicalOk(closes) =>
        IF Flat(Read(closes)) THEN TechnicalScore(closes) = -5
        ELSE TechnicalScore(Mirror(closes)) = -TechnicalScore(closes)

\* Counter-trend votes do not outweigh the trend: while the closes only rise,
\* the lens is never negative.
RisingNeverNegative ==
    (TechnicalOk(closes) /\ \A i \in 2 .. Len(Read(closes)) : Read(closes)[i] > Read(closes)[i - 1])
    => TechnicalScore(closes) >= 0
=============================================================================
