---------------------------- MODULE PriceIngest ----------------------------
(***************************************************************************)
(* app/batch/adapters/yfinance_adapter.py: daily bars of the covered       *)
(* tickers, then of the market benchmarks, into price_bar.                 *)
(*                                                                         *)
(* A symbol without bars is backfilled, one with bars gets the short       *)
(* incremental window.  Upstream has one bar per day, and only the bar of  *)
(* the day itself may still be unusable (NaN, incomplete, out of bounds);  *)
(* values are left out, the set of stored days is what matters.            *)
(***************************************************************************)
EXTENDS Retry, Integers, Sequences, FiniteSets, Functions

CONSTANTS
    Listing,            \* the ticker table in id order, benchmarks apart
    BenchmarkSymbols,   \* BENCHMARK_SYMBOLS, in order
    Window,             \* INCREMENTAL_PERIOD in days
    LastDay             \* bound: the model ends on this day

Tickers == Range(Listing)
Symbols == Tickers \union Range(BenchmarkSymbols)
Days == 1 .. LastDay

PriceConstantsOK ==
    /\ Listing \in Seq(Tickers) /\ IsInjective(Listing)
    /\ BenchmarkSymbols \in Seq(Range(BenchmarkSymbols)) /\ BenchmarkSymbols # <<>>
    /\ Tickers \intersect Range(BenchmarkSymbols) = {}
    /\ Window \in Nat \ {0}
    /\ LastDay \in Nat \ {0}

VARIABLES
    day,        \* today
    covered,    \* the tickers with is_covered
    priceBar,   \* symbol -> the days it has a bar of
    landed,     \* history: symbol -> the days on which a fetch stored bars
    phase,      \* which loop of ingest_yfinance runs, "idle" outside a run
    nightly,    \* only_ticker is None
    todo,       \* the symbols this loop has left, the current one first
    step,       \* the upstream call the current symbol is at
    attempt,    \* of that call
    ok,         \* the covered tickers counted in tickers_ok
    verdict     \* what the last run reported

priceLoop == <<phase, nightly, todo, step, attempt, ok, verdict>>
priceVars == <<day, covered, priceBar, landed, priceLoop>>

PriceTypeOK ==
    /\ day \in Days
    /\ covered \subseteq Tickers
    /\ priceBar \in [Symbols -> SUBSET Days]
    /\ landed \in [Symbols -> SUBSET Days]
    /\ phase \in {"idle", "covered", "benchmarks"}
    /\ nightly \in BOOLEAN
    /\ todo \in Seq(Symbols)
    /\ step \in {"bars", "fundamentals"}
    /\ attempt \in 1 .. RetryAttempts
    /\ ok \subseteq Tickers
    /\ verdict \in {"none", "running", "ok", "unavailable"}

PriceInit ==
    /\ day = 1
    /\ covered = {}
    /\ priceBar = [s \in Symbols |-> {}]
    /\ landed = [s \in Symbols |-> {}]
    /\ phase = "idle"
    /\ nightly = FALSE
    /\ todo = <<>>
    /\ step = "bars"
    /\ attempt = 1
    /\ ok = {}
    /\ verdict = "none"

-----------------------------------------------------------------------------
\* An on-demand analysis promotes a ticker while the adapter may be running.
Promote(t) ==
    /\ covered' = covered \union {t}
    /\ UNCHANGED <<day, priceBar, landed, priceLoop>>

Tick ==
    /\ day < LastDay
    /\ day' = day + 1
    /\ UNCHANGED <<covered, priceBar, landed, priceLoop>>

\* The covered list is read once; nothing to ingest is "unavailable".
Start(isNightly, list) ==
    /\ phase = "idle"
    /\ nightly' = isNightly
    /\ todo' = list
    /\ ok' = {}
    /\ phase' = IF list = <<>> THEN "idle" ELSE "covered"
    /\ verdict' = IF list = <<>> THEN "unavailable" ELSE "running"
    /\ UNCHANGED <<day, covered, priceBar, landed, step, attempt>>

\* ORDER BY id
InIdOrder(list) ==
    \A i, j \in DOMAIN list : i < j =>
        \E m, n \in DOMAIN Listing : m < n /\ Listing[m] = list[i] /\ Listing[n] = list[j]

StartNightly ==
    \E list \in [1 .. Cardinality(covered) -> covered] :
        InIdOrder(list) /\ Start(TRUE, list)

StartOnDemand(t) == Start(FALSE, IF t \in covered THEN <<t>> ELSE <<>>)

\* Mutant: an on-demand run refreshes the benchmarks as well.
SettleBenchmarksAlways(succeeded) ==
    LET good == IF succeeded THEN ok \union {Head(todo)} ELSE ok
        last == Len(todo) = 1
        benchmarksNext == phase = "covered" /\ good # {}
    IN /\ ok' = IF phase = "covered" THEN good ELSE ok
       /\ step' = "bars"
       /\ attempt' = 1
       /\ phase' = IF ~last THEN phase
                   ELSE IF benchmarksNext THEN "benchmarks" ELSE "idle"
       /\ todo' = IF last /\ benchmarksNext THEN BenchmarkSymbols ELSE Tail(todo)
       /\ verdict' = IF phase' # "idle" THEN "running"
                     ELSE IF ok' = {} THEN "unavailable" ELSE "ok"

\* The end of one symbol's try block, and of its loop when it was the last:
\* no ticker succeeded -> AdapterUnavailable, before any benchmark; the
\* benchmarks follow the covered tickers of a nightly run only.
Settle(succeeded) ==
    LET good == IF succeeded THEN ok \union {Head(todo)} ELSE ok
        last == Len(todo) = 1
        benchmarksNext == phase = "covered" /\ good # {} /\ nightly
    IN /\ ok' = IF phase = "covered" THEN good ELSE ok
       /\ step' = "bars"
       /\ attempt' = 1
       /\ phase' = IF ~last THEN phase
                   ELSE IF benchmarksNext THEN "benchmarks" ELSE "idle"
       /\ todo' = IF last /\ benchmarksNext THEN BenchmarkSymbols ELSE Tail(todo)
       /\ verdict' = IF phase' # "idle" THEN "running"
                     ELSE IF ok' = {} THEN "unavailable" ELSE "ok"

TryAgain ==
    /\ phase # "idle"
    /\ Retries("transient", attempt)
    /\ attempt' = attempt + 1
    /\ UNCHANGED <<day, covered, priceBar, landed, phase, nightly, todo, step, ok, verdict>>

\* The call, or writing what it brought, fails for good.
CallFails(reply) ==
    /\ phase # "idle"
    /\ GivesUp(reply, attempt)
    /\ Settle(FALSE)
    /\ UNCHANGED <<day, covered, priceBar, landed, nightly>>

\* Mutant: a new symbol gets the short window too.
PeriodAlwaysShort(symbol) == (day - Window + 1) .. day

\* Incremental when the symbol has bars, else the backfill (all of history).
Period(symbol) ==
    IF priceBar[symbol] # {} THEN (day - Window + 1) .. day ELSE 1 .. day

\* The rows of the period that pass _usable_bar_rows.
UsableRows(symbol, todayUsable) ==
    {d \in Period(symbol) \intersect Days : d # day \/ todayUsable}

NoUsableRows ==
    /\ phase # "idle" /\ step = "bars"
    /\ UsableRows(Head(todo), FALSE) = {}
    /\ Settle(FALSE)
    /\ UNCHANGED <<day, covered, priceBar, landed, nightly>>

\* The bars are stored at once; a covered ticker's fundamentals are fetched
\* after that, a benchmark has none.
BarsLand(todayUsable) ==
    LET symbol == Head(todo)
        rows == UsableRows(symbol, todayUsable)
    IN /\ phase # "idle" /\ step = "bars"
       /\ rows # {}
       /\ priceBar' = [priceBar EXCEPT ![symbol] = @ \union rows]
       /\ landed' = [landed EXCEPT ![symbol] = @ \union {day}]
       /\ IF phase = "covered"
          THEN /\ step' = "fundamentals" /\ attempt' = 1
               /\ UNCHANGED <<phase, todo, ok, verdict>>
          ELSE Settle(TRUE)
       /\ UNCHANGED <<day, covered, nightly>>

\* All fields empty is a note, not a failure.
FundamentalsLand ==
    /\ phase = "covered" /\ step = "fundamentals"
    /\ Settle(TRUE)
    /\ UNCHANGED <<day, covered, priceBar, landed, nightly>>

PriceNext ==
    \/ \E t \in Tickers : Promote(t) \/ StartOnDemand(t)
    \/ Tick
    \/ StartNightly
    \/ TryAgain
    \/ \E reply \in Reply : CallFails(reply)
    \/ NoUsableRows
    \/ \E todayUsable \in BOOLEAN : BarsLand(todayUsable)
    \/ FundamentalsLand

PriceSpec == PriceInit /\ [][PriceNext]_priceVars

-----------------------------------------------------------------------------
\* The series the lenses and the backtest read has a hole only where an
\* outage explains it: a day is missing only if no fetch of that symbol
\* stored anything on the Window - 1 days after it (they would have brought
\* it again), nor a backfill later.
HolesNeedAnOutage ==
    \A s \in Symbols : \A n \in landed[s] : \A d \in Days :
        /\ (n - Window < d /\ d < n) => d \in priceBar[s]
        /\ (d < n /\ \A m \in landed[s] : n <= m) => d \in priceBar[s]

\* A benchmark gains bars only in a nightly run in which a covered ticker
\* succeeded: on-demand runs add no global egress, and a night on which every
\* ticker failed leaves the backtest's benchmark a day behind.
BenchmarksFollowTickers ==
    [][\A b \in Range(BenchmarkSymbols) :
        priceBar'[b] # priceBar[b] => nightly /\ ok # {}]_priceVars

\* The loop keeps what SourceIngest promises for the covered tickers.
PricePromise == INSTANCE SourceIngest WITH
    Items <- Tickers,
    todo <- IF phase = "covered" THEN Range(todo) ELSE {}

PriceKeepsPromise == PricePromise!Spec
=============================================================================
