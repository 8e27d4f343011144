------------------------------ MODULE Backtest ------------------------------
(***************************************************************************)
(* app/services/backtest_engine.py: which past recommendations of a ticker *)
(* count, and how they did against the market's benchmark.                 *)
(*                                                                         *)
(* A date is <<month, day>>, months counted on from 1; their lengths       *)
(* repeat MonthLengths.  Returns are compared without dividing; the        *)
(* average return that a row carries next to its accuracy is left out, it  *)
(* is null exactly when the accuracy is.                                   *)
(***************************************************************************)
EXTENDS Integers, Sequences, FiniteSets, SequencesExt

CONSTANTS
    MonthLengths,   \* days of the months, over and over
    LastMonth,      \* bound: the calendar ends with this month
    Windows,        \* WINDOWS, in months
    Issued,         \* the [call, horizon, segment] a recommendation can have
    MinHistory,     \* MIN_HISTORY_MONTHS
    ThresholdPp,    \* THRESHOLD_PP
    StockPrices, BenchmarkPrices,   \* positive closes
    MaxRecs,        \* bound
    MaxBars         \* bound: symbol -> bars

Buys == {"BUY", "STRONG_BUY"}
Sells == {"SELL", "STRONG_SELL"}
Excluded == {"HOLD", "SUPPRESSED"}
Segments == {"full", "partial"}

BacktestConstantsOK ==
    /\ MonthLengths \in Seq(Nat \ {0}) /\ MonthLengths # <<>>
    /\ LastMonth \in Nat \ {0} /\ MinHistory \in Nat
    /\ Windows \subseteq Nat
    /\ \A k \in Issued : /\ k.call \in Buys \union Sells \union Excluded
                        /\ k.horizon \in Nat \ {0}
                        /\ k.segment \in Segments

MonthLength(month) == MonthLengths[((month - 1) % Len(MonthLengths)) + 1]

Dates == UNION {{m} \X (1 .. MonthLength(m)) : m \in 1 .. LastMonth}

NotAfter(d, e) == d[1] < e[1] \/ (d[1] = e[1] /\ d[2] <= e[2])

\* Month arithmetic; the day is clamped to the length of the target month.
AddMonths(d, months) ==
    LET month == d[1] + months
    IN <<month, IF d[2] <= MonthLength(month) THEN d[2] ELSE MonthLength(month)>>

Symbols == {"stock", "benchmark"}
NoBar == 0
Prices == [stock |-> StockPrices, benchmark |-> BenchmarkPrices]

Rec == {[date |-> d, call |-> k.call, horizon |-> k.horizon, segment |-> k.segment] :
            d \in Dates, k \in Issued}

VARIABLES
    today,
    close,       \* symbol -> date -> close, or NoBar
    recs,        \* the recommendation rows of the ticker
    published    \* the backtest_result rows of the last run, <<>> before it

backtestVars == <<today, close, recs, published>>

-----------------------------------------------------------------------------
(* The pure core. *)

\* _close_on_or_before: the latest bar up to d.
CloseAt(bars, d) ==
    LET known == {e \in Dates : NotAfter(e, d) /\ bars[e] # NoBar}
    IN IF known = {} THEN NoBar
       ELSE bars[CHOOSE e \in known : \A f \in known : NotAfter(f, e)]

\* _load_bars: what a run at asOf can see.
Loaded(asOf) ==
    [s \in Symbols |->
        [d \in Dates |-> IF NotAfter(d, asOf) THEN close[s][d] ELSE NoBar]]

Exit(rec) == AddMonths(rec.date, rec.horizon)

\* evaluate_call: strictly more than the threshold in the call's direction,
\* the two returns brought to a common denominator.
Correct(call, entry, exit, benchEntry, benchExit) ==
    LET excess == 100 * (exit * benchEntry - benchExit * entry)
        bar == ThresholdPp * entry * benchEntry
    IN IF call \in Buys THEN excess > bar ELSE excess < -bar

\* Mutant: a recommendation counts before its horizon is over.
FateWithoutMaturity(rec, asOf) ==
    LET bars == Loaded(asOf)
        entry == CloseAt(bars["stock"], rec.date)
        exit == CloseAt(bars["stock"], Exit(rec))
        benchEntry == CloseAt(bars["benchmark"], rec.date)
        benchExit == CloseAt(bars["benchmark"], Exit(rec))
    IN IF rec.call \in Excluded THEN "excluded"
       ELSE IF NoBar \in {entry, exit, benchEntry, benchExit} THEN "unpriced"
       ELSE IF Correct(rec.call, entry, exit, benchEntry, benchExit) THEN "correct"
       ELSE "wrong"

\* Mutant: judged by the closes of today instead of the exit date.
FateByToday(rec, asOf) ==
    LET bars == Loaded(asOf)
        entry == CloseAt(bars["stock"], rec.date)
        exit == CloseAt(bars["stock"], asOf)
        benchEntry == CloseAt(bars["benchmark"], rec.date)
        benchExit == CloseAt(bars["benchmark"], asOf)
    IN IF rec.call \in Excluded THEN "excluded"
       ELSE IF ~NotAfter(Exit(rec), asOf) THEN "immature"
       ELSE IF NoBar \in {entry, exit, benchEntry, benchExit} THEN "unpriced"
       ELSE IF Correct(rec.call, entry, exit, benchEntry, benchExit) THEN "correct"
       ELSE "wrong"

\* _evaluate_recs: the fate of one recommendation in a run at asOf.
Fate(rec, asOf) ==
    LET bars == Loaded(asOf)
        entry == CloseAt(bars["stock"], rec.date)
        exit == CloseAt(bars["stock"], Exit(rec))
        benchEntry == CloseAt(bars["benchmark"], rec.date)
        benchExit == CloseAt(bars["benchmark"], Exit(rec))
    IN IF rec.call \in Excluded THEN "excluded"
       ELSE IF ~NotAfter(Exit(rec), asOf) THEN "immature"
       ELSE IF NoBar \in {entry, exit, benchEntry, benchExit} THEN "unpriced"
       ELSE IF Correct(rec.call, entry, exit, benchEntry, benchExit) THEN "correct"
       ELSE "wrong"

Evaluated == {"correct", "wrong"}

\* The recommendations of the window and segment that a run evaluates.
Sample(asOf, window, segment) ==
    {r \in recs : /\ NotAfter(AddMonths(asOf, -window), r.date)
                  /\ NotAfter(r.date, asOf)
                  /\ r.segment = segment
                  /\ Fate(r, asOf) \in Evaluated}

\* Mutant: one month of history too few.
HistoryInsufficientEarly(asOf) ==
    \A r \in recs : ~NotAfter(AddMonths(r.date, MinHistory - 1), asOf)

\* The gate looks at the earliest row of all, whatever became of it.
HistoryInsufficient(asOf) ==
    \A r \in recs : ~NotAfter(AddMonths(r.date, MinHistory), asOf)

\* summarize_segment: the gate hides the accuracy, not the sample size.
Summary(asOf, window, segment) ==
    LET sample == Sample(asOf, window, segment)
    IN [size |-> Cardinality(sample),
        accuracy |-> IF HistoryInsufficient(asOf) \/ sample = {} THEN <<>>
                     ELSE <<Cardinality({r \in sample : Fate(r, asOf) = "correct"})>>]

-----------------------------------------------------------------------------
BacktestTypeOK ==
    /\ today \in Dates
    /\ close \in [Symbols -> [Dates -> StockPrices \union BenchmarkPrices \union {NoBar}]]
    /\ recs \subseteq Rec
    /\ published = <<>>
       \/ published \in [asOf : Dates,
                         rows : [Windows \X Segments -> [size : Nat, accuracy : Seq(Nat)]]]

BacktestInit ==
    /\ today = <<1, 1>>
    /\ close = [s \in Symbols |-> [d \in Dates |-> NoBar]]
    /\ recs = {}
    /\ published = <<>>

Tick ==
    /\ \E d \in Dates :
          /\ NotAfter(today, d) /\ d # today
          /\ \A e \in Dates : NotAfter(e, today) \/ NotAfter(d, e)
          /\ today' = d
    /\ UNCHANGED <<close, recs, published>>

\* A bar of a fetch is stored: today's, a late one of an earlier day, or one
\* that replaces the close stored before.
BarLands(s, d, price) ==
    /\ NotAfter(d, today)
    /\ Cardinality({d} \union {e \in Dates : close[s][e] # NoBar}) <= MaxBars[s]
    /\ close' = [close EXCEPT ![s][d] = price]
    /\ UNCHANGED <<today, recs, published>>

\* The engine's row of today is inserted or overwritten; past rows stay.
Recommend(rec) ==
    LET past == {r \in recs : r.date # today}
    IN /\ rec.date = today
       /\ Cardinality(past) < MaxRecs
       /\ recs' = past \union {rec}
       /\ UNCHANGED <<today, close, published>>

\* run_backtest; without any recommendation nothing is written.
Run ==
    /\ recs # {}
    /\ published' = [asOf |-> today,
                     rows |-> [ws \in Windows \X Segments |-> Summary(today, ws[1], ws[2])]]
    /\ UNCHANGED <<today, close, recs>>

BacktestNext ==
    \/ Tick
    \/ \E s \in Symbols : \E d \in Dates, price \in Prices[s] : BarLands(s, d, price)
    \/ \E rec \in Rec : Recommend(rec)
    \/ Run

BacktestSpec == BacktestInit /\ [][BacktestNext]_backtestVars

-----------------------------------------------------------------------------
\* A window shorter than every horizon in use can never evaluate anything:
\* with the default horizon of six months the three-month rows are always
\* empty, and a window as long as the horizon holds a recommendation only
\* when both reach the same day of the month, or clamping brings them there.
\* Behind every sample that is not empty is such a recommendation, of the
\* row's segment, with a call that can be judged, from within the window.
NarrowWindowIsEmpty ==
    published # <<>> =>
        \A w \in Windows, g \in Segments :
            published.rows[<<w, g>>].size > 0 =>
                \E r \in recs :
                    /\ r.segment = g /\ r.call \notin Excluded
                    /\ NotAfter(AddMonths(published.asOf, -w), r.date)
                    /\ \/ r.horizon < w
                       \/ r.horizon = w /\ published.asOf[1] = r.date[1] + w

\* No peeking and no second thoughts: once a run could judge a
\* recommendation, only a close on or before its exit date that lands late,
\* or that a later fetch replaces, changes the judgement.
JudgementIsFinal ==
    [][\A r \in recs :
        (Fate(r, today) \in Evaluated /\ Fate(r, today)' # Fate(r, today)) =>
            \E s \in Symbols, d \in Dates :
                NotAfter(d, Exit(r)) /\ close'[s][d] # close[s][d]]_backtestVars

\* An accuracy is shown only when the history reaches back to the start of
\* the longest window, or to a later day of the same month (the gate adds
\* months, the window subtracts them, and each clamps its own way).
ShownAccuracyHasHistory ==
    published # <<>> =>
        \A w \in Windows, g \in Segments :
            (published.rows[<<w, g>>].accuracy # <<>> /\ w <= MinHistory) =>
                LET start == AddMonths(published.asOf, -w)
                IN \E r \in recs : NotAfter(r.date, start) \/ r.date[1] = start[1]
=============================================================================
