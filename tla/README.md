# Formal model of the stock-analysis application

This directory is a verification project for the repository beside it: TLA+
modules translated from the source, TLC configurations that check them on small
instances, and TLAPS proofs for instances of any size. `PROJECT.json` lists the
components, runs, mutants, hazards, findings and theorems, and maps every
definition to the lines it models. Paths below are relative to the repository root.

To repeat a check: `tlc -workers 2 -config JobsSafety.cfg MCAnalysisJobs.tla`;
to repeat a proof: `tlapm AnalysisJobsProofs.tla`, and likewise for every other
`*Proofs` module and for `Lemmas`.

## 1. The system

A single-user application that recommends stocks. A nightly batch ingests market
facts and news for a pool of *covered* tickers, scores each through four lenses,
writes one recommendation per ticker and date and back-tests the old ones. A
client may ask for a ticker at any time: the API queues a job, a worker promotes
the ticker into the pool, fetches for it alone and scores it. Three processes:
the API (FastAPI on one asyncio loop, with the on-demand worker as a task in it),
the scheduler (APScheduler), and the web client. They share Postgres and, for the
jobs, Redis. Nothing holds a lock across two calls, and hardly any statement
shares a transaction with the next; everything below follows from that.

### Inventory

| component | state it keeps | operations | interacts by |
|---|---|---|---|
| POST /analyze (`app/api/routers/analyze.py`) | none of its own between requests; `is_covered` and `run_id` held across awaits | short-circuit, coalesce, cooldown, pool cap, enqueue | reads Postgres, reads and writes Redis |
| Job store and queue (`app/services/analysis_jobs.py`) | `analysis_job:*` hashes, `analysis_queue`, `analysis_active:*`, `analysis_last_finished:*` | `enqueue_job`, `_mark`, `_finish`, the guards | Redis, shared by handlers and worker |
| On-demand worker (same file) | payload in hand | `worker_loop`, `run_job` | blpop; writes `ticker`, `recommendation` |
| GET /analyze/{run_id} | none | one read | polled by the dashboard |
| Nightly pipeline (`app/batch/pipeline.py`, `scheduler.py`, POST /pipeline/run-now) | `pipeline_run` rows | six stages per execution | the stages read each other's rows; the two triggers share them |
| News lens and gdelt adapter (`app/batch/signals/news.py`, `adapters/gdelt_adapter.py`) | `failed_tickers=` token inside `pipeline_run.message` | emit, parse | gdelt stage to engine stage, through the row |
| Recommendation engine (`app/services/recommendation_engine.py`) | `recommendation` rows | `run_engine`, `score_ticker`, pure core | pipeline and worker both call it |
| yfinance adapter (`app/batch/adapters/yfinance_adapter.py`) | `price_bar`, `fundamental_snapshot` | per symbol: period, bars, fundamentals; then the benchmarks | stage; on-demand fetch |
| TWSE/TPEx adapter (`twse_tpex_adapter.py`) | `chip_data_tw`; caches of one run | nets of an exchange, auxiliary tables, upsert | stage; on-demand fetch |
| EDGAR adapter (`edgar_adapter.py`) | `institutional_position_us` | the newest 13F of each filer | stage; on-demand fetch |
| Lenses (`app/batch/signals/*.py`) | none | reads, then a vote per rule | the engine |
| Backtest engine (`app/services/backtest_engine.py`) | `backtest_result` | `run_backtest` | last stage; stocks router |
| Pipeline status (`app/api/routers/pipeline.py`) | none | `consecutive_bad_days`, `sla_met` | reads `pipeline_run` |
| Dashboard page (`web/app/dashboard/page.tsx`) | query, data, analyze flow, polling effect | search, load, analyze, poll | HTTP to the API |
| Configuration (`user_config`) | one row of weights | PUT validates the sum | the engine loads it |
| Authentication, read API, migrations, start-up | tokens, `schema_migrations` | single statements | - |

### What makes it hard, and what makes each part correct

* **POST /analyze.** Up to seven awaits between the first read and the last
  write, any number of handlers at once. Right when a 202 names an existing run
  of *that* ticker, when no run is dropped, and when a `ready` is not invented.
* **Job store and worker.** `_finish` is three Redis calls and so is
  `enqueue_job`; blpop is destructive; a call may fail or the process may die
  between any two. Right when a run is handed out at most once, the worker
  outlives every failure, what a client polled as final stays final, success means
  a recommendation is there, and pointers and cooldown markers are what the
  guards take them for.
* **Pipeline.** The scheduler's `max_instances=1` does not know of run-now, nor
  either of the on-demand worker. An execution can die, a stage can raise, a
  single ticker can fail, midnight can pass. Right when a news lens that says ok
  rests on a query that succeeded, when every row settles, and when an ok engine
  row has recommendations behind it.
* **Adapters.** Upstream calls that fail, for a while or for good, in a loop that
  must isolate one item from the next; figures of several days, several markets
  and several filing dates that land in one table. Right when a run settles every
  item once and says `unavailable` exactly when none succeeded, when a failure is
  made good by a later run, and when a row holds what its key says.
* **Lenses and engine core.** Votes, medians and rounding. Right when they have
  no bias (a mirrored history scores the opposite), are monotone (better news
  never costs a call), stay within their inputs, and admit what they lack.
* **Backtest.** Maturity, windows and gates in months of different lengths.
  Right when it judges nothing before its time, never revises a judgement
  without new data from before the exit date, and shows no accuracy without the
  history for it.
* **Status.** Two time zones and the alert counter. Right when `sla_met` means
  the deadline and the counter moves with outcomes.
* **Dashboard.** Late and reordered answers to loads, posts and polls. Right when
  the card of a pending run comes down for reasons of that run.

## 2. Modules

| module | what it is |
|---|---|
| `JobLifecycle` | abstract: what a client that polls may rely on |
| `AnalysisJobs` | the POST handler, the Redis store, the worker, faults and crashes |
| `MCAnalysisJobs` | TLC instance of `AnalysisJobs` (symmetry) |
| `AnalysisJobsProofs` | theorems about `AnalysisJobs` |
| `Pipeline` | executions of the batch, the news lens, on-demand jobs, midnight |
| `MCPipeline` | TLC instance of `Pipeline` |
| `PipelineProofs` | theorems about `Pipeline` |
| `Retry` | what one upstream call can bring and when `fetch_with_retries` goes on |
| `SourceIngest` | abstract: what every ingestion source promises the pipeline |
| `PriceIngest`, `ChipIngest`, `PositionIngest` | the three adapters, each implementing `SourceIngest` |
| `PriceIngestProofs`, `ChipSourcesProofs` | theorems about them (the chip and the 13F adapter share one module) |
| `PipelineStatus` | GET /pipeline/status over hours and time zones |
| `MCIngest` | the four side by side, and their TLC instance |
| `IngestProofs` | theorems about the status page and about the four together |
| `TechnicalLens`, `FundamentalLens` | two lenses over histories and peer groups |
| `Scoring` | weights, composite, call, confidence, conflict, targets of one ticker |
| `Backtest`, `BacktestProofs` | which recommendations count, and how they did |
| `AnalyzePage` | the dashboard page against a server that keeps `JobLifecycle` |
| `MCAnalytics` | the five side by side, and their TLC instance |
| `AnalyticsProofs` | theorems about the lenses, the scoring and the page, and about the five together |
| `Lemmas` | facts about lists, sums and maxima the proofs share |

Operators called "Mutant" in a comment are plausible wrong versions of the
definition that follows them; `PROJECT.json` says which property notices which.

### AnalysisJobs

One action per await that touches shared state; the code between two awaits
belongs to the action before it, because the event loop cannot run anybody else
there. A request names the run it may mint (one POST mints at most one id), so
requests and run ids are one set. The order of the handler's actions is the
order of its calls:

    Receive, ReadTicker, [ReadSnapshot], GetActive, [GetStatus], GetCooldown,
    [CountPool], EnqueueHash, EnqueuePointer, EnqueuePush

ending in `accepted` (202), `ready` (200), `pool_full` (409), `error` (503) or
`lost` (the process died). The worker's are

    Pop, Acquire, MarkFetching, Promote, Fetch, MarkScoring, Score,
    FinishHash, FinishDelete, FinishCooldown, Release

with `JobRaises` for run_job's except clauses, `EscapesToNet` and the `net_*`
points for worker_loop's own except clause, `PopReplyLost` for a blpop whose
reply never arrived. Of the fetch only what decides the terminal reason is
kept (which kinds of failure occurred, whether gdelt succeeded), of the scoring
whether it wrote a row and whether the call was suppressed. The cooldown marker
is `never`, `recent` or `elapsed`. `Crash` takes the handlers and the worker
down together, because they share the process, and keeps Redis and Postgres.

Implementing the abstract module: `stage` is what GET /analyze/{run_id} answers
(`PollAnswer`), `line` is the queue, headed by the run that was popped but not
yet marked (`InLine`).

### Pipeline

`row` is `pipeline_run` with run_kind 'scheduled' (status and failed tickers),
`rec` the news lens of each ticker's recommendation of each date, `pc`, `at`
and `date` an execution's progress, `job` the on-demand worker's. Per stage:
`Begin` (the upsert to running), the work (`Gdelt`, or `List`, `ReadLenses`,
`WriteRecommendation` and `CloseEngine` for the engine, or `Call`),
`StageRaises`, and `Record` (the update that finishes the row). `Gdelt` is one
step for its list and its queries because nobody can see between them: the row
that carries the outcome is written by `Record`. The engine's read of the lenses
and its upsert are two steps, so that a row read may be stale when it is used.
`Die` stops an execution anywhere, `Midnight` moves the UTC date.
`queried` and `joined` are history for the properties: which queries succeeded
and when a ticker was promoted.

Left out: the text of messages (the token is a set of tickers), symbols that are
not token-safe (the adapter and the lens both fail them closed), the numeric
signals, and the on-demand audit rows, which have their own run_kind and are
never read by either.

### Retry, SourceIngest and the adapters

`Retry` holds the reply classes of `adapters/common.py` and when the bounded loop
tries again; all three adapters extend it. `SourceIngest` is the promise the
pipeline builds on: `Start` a list, `Settle` each item once in any order, answer
`unavailable` exactly when no item succeeded. Each adapter declares its instance
(`PricePromise == INSTANCE SourceIngest WITH ...`) and has its `Spec` as a property
(`PriceKeepsPromise`, and so on). Names that the adapters would share carry the
adapter's (`StartChip`, `filersTodo`), so that `MCIngest` can extend all of them.

*`PriceIngest`.* `todo` is the list of the loop, `phase` says which of the two
loops runs, `step` which of the two upstream calls of a covered ticker is next.
`Period` is the backfill or the incremental window, chosen by whether the symbol
has bars. A bar is only the day it is of: `landed` is history, the days on which
a fetch stored something. Only today's bar may be unusable, since the bounds
check the values of a day upstream has once settled on.

*`ChipIngest`.* `cache` and `auxCache` are the client's: nets of an exchange once
they arrived, an auxiliary table once its request ended, failed or not. A table is
the day its figures are of and whether the response says so; a merged column is
what became of that comparison. Caches are dropped at the end of the run.

*`PositionIngest`.* Filers file (`File`) when they get to it, the adapter takes
each filer's newest filing (`FilingLands`), and `FlowLens` is the US chip lens
over the two latest quarters in the table. A filing is the list of its rows for
the ticker's CUSIP: none, one or several.

### PipelineStatus

Rows of `pipeline_run` and a clock in hours, with the cron trigger's Taipei time
and run_date's UTC. The batch is one list of stages; what they do and how
executions overlap is `Pipeline`. `ClockMoves` is time, `BadDays`, `FinishTimes`, `Deadline` and
`SlaMet` are the handler's queries.

### TechnicalLens, FundamentalLens, Scoring

The lenses are operators over a growing price history (`CloseLands`) and over
landing snapshots (`OwnLands`, `PeerLands`): the state machine supplies the
inputs the database can hold. Periods are constants. The averages divide Decimals
of 28 digits; the model takes them as exact: each close carries the factor `Scale`,
and `ScaleIsEven` demands that it be divisible as often as the longest history
makes an average divide. Such a factor exists for any periods and any history (for
the code's too, where it is astronomical), for the run's it is 23328. Medians are
doubled. So nothing is rounded but what the code quantizes. A missing figure is `Null`, a value that is no number; `Ordered` is
the list of the peers' values in ascending order, given by what its k-th is. `Scoring` takes any signals, loads the weights (`LoadWeights`,
which replaces a set that does not add up), and ends in `Score`, `Suppress`,
`Skip` or `Raise`, the four ways `score_ticker` can end. Decimals are scaled
integers and `RoundHalfUp` is the code's quantize.

### Backtest

`Tick`, `BarLands` (today's bar, a late one of an earlier day, or one of a later
fetch that replaces a stored close, as `_UPSERT_BAR` does), `Recommend` (the upsert
of today's row) and `Run`. Which days a fetch covers depends on its period; here a
close of any day so far can change. `Fate` follows one recommendation through maturity,
pricing and judgement, `Sample` and `Summary` are the window, segment and gate.
Dates are month and day over months of any lengths, `AddMonths` clamps.

### AnalyzePage

Every fetch is two steps, and answers come back in any order. `flow` is the card
on display, `loads` the dashboard requests in flight with who asked, `posting`
the POST in flight, `poll` the polling effect of the pending card, `cancelled`
the polls whose effect was cleaned up while their request was under way. The
server is `INSTANCE JobLifecycle`, the specification `AnalysisJobs` implements:
the page is checked against what clients may rely on, not against one handler.

## 3. Runs

| run | checks | instance |
|---|---|---|
| `JobsSafety` | all safety properties of the jobs, one action property | 2 tickers, 2 requests, cap 1, 2 faults, 1 crash |
| `JobsLive` | refinement of `JobLifecycle` with its fairness; `TickerReleased` | 1 ticker, 2 requests, no fault |
| `JobsSurvive` | `WorkerSurvives` | 1 ticker, 2 requests, 2 faults, 1 crash |
| `PipelineOverlap` | all invariants of the pipeline | 2 tickers, 1 date, nightly + manual execution, 1 job, 1 death |
| `PipelineMidnight` | evidence and settled rows across midnight | 1 ticker, 2 dates, one plain source before gdelt, 1 job |
| `Ingest` | the adapters' promise to the pipeline, holes, blends, flow direction; the SLA flag and the alert counter | see below |
| `Analytics` | properties of the lenses, scoring, backtest and page | see below |
| `DocCoalesce`, `DocPoolCap`, `DocPollTerminal`, `DocNews`, `DocSla` | what a document says and the code does not do (section 6) | the smallest that shows it |

**The bounds.** Two requests are what a race in the handler needs: each race is
between two handlers, or between a handler and the worker; a third only repeats
one of the two roles (and the theorems hold for any number). Cap 1 with two
tickers puts the pool at its limit; two faults let the net's own `_finish` fail
after the call that led to it; a crash after a restart meets the same Redis
states as the first. For the pipeline, two executions are what two triggers can
start on a date, since the cron trigger allows one instance; two tickers give
every partial failure of gdelt a survivor; with one ticker partial failures
disappear but executions and jobs on two dates meet. Initial states include
every pool and every set of scored tickers for the jobs, and every pool for the
pipeline. Two of the three plain sources are left out in every run: they differ
in name only. The pipeline runs stop when every execution is over and the jobs
are used up, so deadlock is not checked there; in the job runs the worker can
always poll, and it is.

`Ingest` and `Analytics` each hold several components that share no variable with
one another. A behaviour picks one (`part`) and lets the others rest in their first
state: all properties are about one component at a time, so the product would
multiply states and show nothing more. Their interactions are elsewhere: the
adapters meet the pipeline through `SourceIngest`'s verdict, the lenses meet
scoring as any signal or none, the page meets the server through `JobLifecycle`.

* Price: two tickers and a benchmark, two attempts, four days with a window of two,
  so that an outage can be longer than the window and be followed by a success.
* Chip: two tickers that share an exchange's tables and one on the exchange whose
  block table is never asked for, two days, one auxiliary table (the code handles
  the second in the same way).
* Position: two filers and two quarters, filings of no, one and two rows, so that
  totals rise, fall and stay.
* Status: two stages (one whose row is the last to finish), the hours 03, 11 and
  19 UTC, which are 11:00, 19:00 and the trigger's 03:00 in Taipei, over two
  dates, and one death. The trigger's run ends at its start or a step later.
* Technical: all histories of up to six bars with closes 0 to 4 (which gives
  rising histories of more than one shape), periods of 2 and 3, minimum 4, history
  5, so that the limit of the history cuts something off.
* Fundamental: three peers and the ticker, each column NULL, a loss or one of two
  ratios. P/B has no values here: it goes through the function of P/E.
* Scoring: every set of lenses with signals at and beside the band edges, weights
  that leave everything to one lens, nothing to another, or do not add up, and
  price facts with and without close, peers and earnings.
* Backtest: months of one and two days, so that clamping happens in every second
  one, three months, windows and horizons of one and two, two recommendations,
  three bars, a stock that rises beyond the threshold, falls or stands still. The
  theorems need no such bound.
* Page: two tickers with a run each and two loads in flight, the least that can
  pass one another.

Deadlock is not checked in `Analytics`: a history reaches its bound, a run ends.

**Fairness.** Weak fairness of the worker and of each handler that has started:
the asyncio loop runs every coroutine whose call has returned. That every Redis and
Postgres call returns or fails is an assumption: the code sets no timeouts of its
own (`app/db/redis.py:16`, `app/db/pool.py:13`), and a call that hangs for good is
outside the liveness claims. No fairness of arrivals, of failed calls, of crashes, of the
cooldown, nor of anything in the other modules, of which no liveness is claimed
(a batch may die, an upstream may stay down, a page may be closed). In
`JobsLive` failed calls are excluded because with them the property is false
(section 6, and `DocPollTerminal` for crashes).

## 4. What is proved

`AnalysisJobsProofs` proves for every `Tickers`, `Requests`, `PoolCap`,
`MaxInFlight`, `MaxFaults` and `MaxCrashes`, from the single assumption
`ConstantsOK` (numbers are natural, `NoRun` is not a request):

| theorem | property | under failures |
|---|---|---|
| `TypeCorrect` | `TypeOK` | any |
| `DeliveredAtMostOnce` | `AtMostOnceDelivery` | any |
| `AcceptedAnswersRequest` | `AcceptedRunAnswersRequest` | any |
| `DoneHasSnapshot` | `DoneMeansSnapshot` | any |
| `ReadyIsEarned` | `ReadyHasHistory` | any |
| `RunsHaveOwners` | `EveryRunHasOwner` | none so far |
| `PointersAreLive` | `NoStalePointer` | none so far |
| `CooldownIsLeft` | `FinishedLeavesCooldown` | none so far |
| `TerminalFinal` | `TerminalIsFinal` | crashes, no failed call |
| `LifecycleImplemented` | the safety part of `RefinesLifecycle`: `Spec` implements `JobLifecycle`'s | none (`MaxFaults` and `MaxCrashes` are 0) |

The argument has three layers. `TypeInv` adds to the types that the worker
holds a payload exactly when it is not idle. `DeliveryInv` says that an id not
yet pushed is nowhere (not in the queue, not with the worker, no pointer names
it before its hash exists), that the queue has no duplicates and that what is
queued is still in status queued; a Pop then cannot hand out a run twice.
`JobsInv` is the conjunction of the properties with what they need to be
inductive: `WorkerInv` (which status the run in hand has at each of the worker's
points), `PointerInv` (what a handler between two writes, or the worker about to
delete, may find in the pointer), `MarkerInv` (the marker is there by the time
the connection is released), `SnapshotInv` (a verdict of success was formed after
the upsert) and `ReadyInv` (what a handler on its way to `ready` has seen).
Each is needed: `NoStalePointer` alone is not preserved by FinishHash, nor
`DoneMeansSnapshot` by FinishHash without `SnapshotInv`. `TerminalFinal` needs
from `JobsInv` that the worker never writes the hash of a run that is terminal,
which is where failed calls have to be excluded. `LifecycleImplemented` adds
`LifeInv`: the run in hand has the status its worker's point calls for (a crash or
a failed call would break that, hence the theorem's assumption), and no other run
reads fetching or scoring. A run that was popped and still reads queued is the
head of the abstract line (`InLine`), so that the step that takes it off is the
write that marks it fetching, or failed. Every other step leaves what a client
polls as it was.

`PipelineProofs` proves, from `PipelineConstantsOK` alone and so for every set of
tickers and executions, every list of plain sources and any number of dates,
jobs and deaths:

| theorem | property |
|---|---|
| `PipelineTypeCorrect` | `TypeOK` |
| `MembersHaveEvidence` | `MembersNewsHasEvidence` |
| `OkEngineLeftSnapshot` | `EngineOkMeansSnapshot` |
| `StagesSettle` | `RowsSettle` |
| `LoneNewsIsExact` | `LoneRunNewsIsExact` |

`MembersHaveEvidence` follows the news from the query to the recommendation:
`OutcomeEvidence` (what an execution is about to record tells the truth about
every covered member), `RowEvidence` (so does the row), `HandEvidence` (so does
the lens in hand, though the row may have changed since) and `DateInv` (nothing
is dated in the future). The last is what makes a promotion harmless for
members: whoever is promoted today is a member only of later dates, which have
no row yet. `OkEngineLeftSnapshot` rests on recommendations never disappearing
(`RecommendationsStay`). `StagesSettle` rests on `RowsBegun` (an execution that
is past a stage left its row) and `RunningHasOwner` (a row that reads running has
an execution at that stage, or one that died there). `LoneNewsIsExact` follows
one execution whose date is its own: `LoneFacts` says that nothing is queried
before its gdelt stage, and that from there on a query that succeeded is carried
as ok from the outcome to the row, to the lens in hand and to the recommendation;
`OthersKeepFacts` that no execution of another date can change that. The other
direction is `MembersNewsHasEvidence`, since nobody joined the pool.

All other theorems are proved from the components' `*ConstantsOK` and
`RetryAttemptsOK` (lists without repetition, positive bounds, months of at least
one day; for the status page also that the deadline's hour is smaller than
Taipei's offset, as 7 is smaller than 8). They hold for any number of tickers,
filers, peers, days, attempts, windows, horizons, prices, signals and weights:

| module | theorem | states |
|---|---|---|
| `PriceIngestProofs` | `HolesAreOutages` | `HolesNeedAnOutage` |
| | `BenchmarksFollow` | `BenchmarksFollowTickers` |
| | `PriceTypeCorrect`, `PriceRefinesSource` | types; the adapter implements `SourceIngest` |
| `ChipSourcesProofs` | `OnlyUndatedBlend` | `BlendOnlyUndated` |
| | `FlowIsRight` | `FlowSignRight` |
| | `ChipTypeCorrect`, `PositionTypeCorrect` | types |
| | `ChipRefinesSource`, `PositionRefinesSource` | the adapters implement `SourceIngest` |
| `IngestProofs` | `SlaMetIsYesterdays` | `SlaMetOnlyBeforeAnyFinish` |
| | `AlertCounterMoves` | `BadDaysMove` |
| | `IngestTypesCorrect` | `IngestTypeOK` |
| | `SourcesRefinePromise` | `SourcesKeepPromise` |
| | `IngestSafe` | the other properties of the run `Ingest`, of the composition |
| `BacktestProofs` | `NarrowWindows` | `NarrowWindowIsEmpty` |
| | `ShownAccuracies` | `ShownAccuracyHasHistory` |
| | `JudgementsAreFinal` | `JudgementIsFinal` |
| | `BacktestTypeCorrect` | types |
| `AnalyticsProofs` | `CompositesWithinLenses` | `CompositeWithinLenses` |
| | `BetterNewsNeverCosts` | `RaisingALensNeverLowersTheCall` |
| | `MissingRowsExplained` | `MissingRowMeansWeightOnMissingLens` |
| | `HonestTargets` | `TargetsAreHonest` |
| | `PeerMedianSound` | `PeerMedianIsAPeersValuation` |
| | `CheaperScoresNoLower` | `CheaperNeverScoresLower` |
| | `RisingLensNeverNegative` | `RisingNeverNegative` |
| | `MirrorIsFair` | `MirrorScoresOpposite` |
| | `PendingEndsRightly` | `PendingEndsForItsOwnReasons` |
| | `AnalyticsTypesCorrect` | `AnalyticsTypeOK` |
| | `AnalyticsSafe` | the other properties of the run `Analytics`, of the composition |

*Composition.* The components of `MCIngest` and of `MCAnalytics` share no variable,
so a step of the composition is a step of one of them and a stutter of the others
(`PartsBehave`, `AnalyticsPartsBehave`). What is proved of each alone therefore
holds of the specifications that the runs check.

*Refinements.* The initial state maps to the initial state, and a step of the
adapter to a step of `SourceIngest` or to a stutter. That needs an invariant of
the loop (`LoopInv`, for the filers `FilersInv`): the list in hand has no
duplicates, so that the head leaves the *set* of items when it leaves the list
(`TailOfInjective` in `Lemmas`), it is empty exactly when the run is over, and
the verdict is running exactly when it is not. For prices it also says that the
benchmark loop is only reached from a nightly run with a success, which is
`BenchmarksFollow`, and why the abstract run is still open there with no item left.

*`HolesAreOutages`* needs `BarsInv`: nothing landed in the future, and a symbol
for which nothing landed has no bar. Without the second part its next fetch could
take the short window and leave the days before it out.

*`OnlyUndatedBlend`* needs `ChipRowsInv`, the types of the caches and the rows with
`blended` left out, and that a table which passed the date check is merged
honestly. *`SlaMetIsYesterdays`* needs `StatusInv`: a row's finish, if it has one,
is not before its date began in UTC, since the clock only moves on from the hour
the date was taken from; Taipei's 07:00 of that date is before it.

*Sums.* The folds of the community modules are recursive functions over the
subsets of a set. `SumUnwinds` in `Lemmas` shows that such a function exists, by
induction in the form of a set of numbers (`NatInductionSet`, which needs no operator
as a parameter); from it follow that a sum does not depend on the order
(`SumSplits`), is linear (`SumPlus`, `SumTimes`), monotone (`SumMonotone`), and adds
up over parts (`SumParts`). The flow, the composite and the moving averages are such
sums.

*`FlowIsRight`* needs `HoldingsInv`: a filer counts as ingested only when it has
filed, and its stored row is then the last of its filing. In a complete quarter that
is the only one, so the stored total is the true one, term by term.

*`AlertCounterMoves`* needs `BatchInv`: the row of the stage under way is running. The
counter is the number of bad rows after the last ok one; a step that finishes a row
badly either leaves that set alone or adds the row to it, and whatever else changes
it is one of the steps that the property names.

*Scoring.* `ScoringInv` says that weights once loaded add up and that a scored row is
what the operators make of the inputs, which do not change any more. The composite is a weighted mean, so it lies between its terms
(`WeightedBounds`) before it is rounded; `RoundHalfUp` moves a number by at most a
half (`RoundWithin`), is monotone (`RoundMonotone`) and leaves whole numbers alone,
so the rounded mean stays within the bounds and moves with each lens. The bands
are monotone in the composite. The effective weights are four rounded shares of one,
each off by at most a half.

*Medians.* A k-th smallest value exists in every finite column (`OrderedIsAValue`), so
the median lies between two of its members (`MedianBetween`). It is a number of the
peers alone: the votes that `CheaperScoresNoLower` compares meet the same one.

*`RisingLensNeverNegative`.* Closes that rise every day rise between any two days
(`RisingFar`); the last `MaShort` of them then have a mean below the last close and
above the mean of the last `MaLong` (`RisingSums`), which is the full trend vote. RSI
and MACD can take back at most that, whatever their values are.

*`MirrorIsFair`* rests on `ScaleIsEven`, and needs it: floor division alone is not
symmetric. The averages are recursive functions over an interval; that such a function
exists and does what it says is `RecursionExists` in `Lemmas`, again with a set of
numbers in place of an operator parameter, and `EmaUnwinds` and `WilderUnwinds`. A mean of
values that carry its divisor comes out even (`MeanMirrors`); each further step of an
exponential average uses up one more factor, and what mirrors at one place mirrors at
the next (`EmaMirrors`, by induction over the places). So the histogram changes its
sign (`HistMirrors`). Gains and losses change places, so the two averages of Wilder do
(`RsiMirrors`); oversold becomes overbought but for one asymmetry in the code, which
calls a history without losses overbought whatever its gains are. Wilder's average never
forgets a change completely (`WilderForgetsNothing`: it is zero only if every change
was), so the asymmetry shows only in a history without any change, the exception that the
property names (`FlatVotes`).

*`PendingEndsRightly`* needs `PageInv`: while a pending card is shown no POST is in
flight, so that none can replace it; and a poll whose effect was cleaned up
(`CancelledPollReturns`) leaves the page alone.

*Backtest.* `PublishedInv` says that each published sample and accuracy has a
witness still in the table, and for the sample one of the row's own window and
segment, whose call can be judged: a judged recommendation is older than the run that
judged it (`MatureIsOlder`), and only today's row can be replaced. The other half
is `JudgementsAreFinal`, an action property that follows from a pair of states and
holds whether a changed bar was missing before or is replaced:
the close on or before the exit date depends only on bars up to it
(`CloseAtLocal`, by the existence of a latest bar in a bounded calendar).

## 5. What is only model-checked

`TickerReleased`, `WorkerSurvives` and the fairness of the `JobLifecycle`
refinement: liveness and ENABLED are out of the prover's reach (the refinement's
safety part is `LifecycleImplemented`). Every other property of a passing run is a
theorem. The five runs that find a violation are counterexamples, and nothing is
claimed of them beyond their instances.

## 6. Where the code and its documents differ

Each of these is a violation run; the trace is what TLC prints.

* `DocCoalesce`: two POSTs of one ticker both find the pointer empty, then both
  enqueue. *"never two concurrent runs per ticker"* (analyze.py:53).
* `DocPoolCap`: two POSTs of two new tickers both count the pool before either job
  promotes. *"a NEW ticker that would push the covered pool past the cap"* is a
  409 (analyze.py:57).
* `DocPollTerminal`: the process stops while a job runs; nothing finds the job
  afterwards, its pointer stays, and every later POST coalesces onto it. The
  design has clients poll *"until terminal"*.
* `DocNews`: a ticker promoted after the gdelt stage listed its tickers is scored
  by the same execution with a neutral, complete news lens. *"fetch/source failure
  (no run, ...) -> unavailable"* (news.py:11).
* `DocSla`: a batch that starts at 03:00 Taipei and ends within four hours is
  reported with `sla_met` false: run_date is the UTC date, the day before in
  Taipei, whose 07:00 is long over. *"true if completed by 07:00 TW (NFR-01)"*
  (openapi.yaml:494). `SlaMetOnlyBeforeAnyFinish` says when it can be true at all.

The model holds further behaviours that get no run of their own. They bound what
the properties can say, so they are worth knowing:

* A first analysis fails; within the cooldown the next POST answers 200 ready with
  no recommendation behind it, where analyze.py:30 has *"the snapshot answers"*.
  `ReadyHasHistory` is what holds.
* A job that began before midnight writes its date's row after the date is over,
  over what the batch wrote; recommendation_engine.py:253 has *"a prior day's row is
  never touched"*, which is true of one execution.
* `_finish` deletes the pointer without looking whose it is: a POST between
  FinishHash and FinishDelete sets the pointer of a new run, which FinishDelete
  removes. `NoStalePointer` is therefore about pointers that exist, not about
  live runs having one.
* A POST between FinishHash and FinishCooldown, or one that read the marker before
  it was written, mints a run inside the cooldown.
* A handler that read a ticker as uncovered can answer 409 after the worker
  promoted it, because the full pool now counts the ticker itself.
* If the delete, the marker or the connection's release fails after the terminal
  hset, worker_loop's net calls `_finish(failed)` and a client sees ready turn
  into failed. Hence the condition `faults = 0` of `TerminalIsFinal`.
* A blpop reply that is lost, or an rpush that fails, leaves a run queued with a
  pointer and no queue entry. Hence the condition of `EveryRunHasOwner`.

* A bar stored before the fundamentals fail leaves a run `unavailable` although
  data landed, and gives the next run the short window. `HolesNeedAnOutage` is
  stated with fetches that stored something for that reason.
* *"a value only merges when its response date matches"* (twse_tpex_adapter.py:132)
  holds for responses that carry a date; one without is merged under the nets' date.
* One request per exchange is what a run makes when it succeeds; a failed one is not
  cached, so every ticker of the exchange repeats it with all its retries.
* A second run of a day writes NULL over margin and block figures when their
  endpoint fails that time.
* A close may be stored again by every fetch whose period covers its day
  (`_UPSERT_BAR`, yfinance_adapter.py:190-197): an intraday close becomes the final
  one, an adjusted one moves. A judgement whose exit date is on or after that day
  may change with it, the exception in `JudgementIsFinal`.
* The flow of a quarter that some filers have not reached compares unlike sets of
  filers, and of several rows of one filing for the CUSIP the last is stored: in both
  cases its sign may be wrong. `FlowSignRight` is about complete quarters.
* A price history without any change has RSI 100 and scores -0.5, the exception in
  `MirrorScoresOpposite`.
* With all weight on the lens that is down, three available lenses end in a
  division by zero, counted as a failed ticker: `MissingRowMeansWeightOnMissingLens`.
* The dashboard sends two loads for a deep link (`?ticker=`), the default ticker
  first; if its answer is the later one, it is what the page shows. Submitting the
  same symbol again sends no load, and a load still in flight when a pending card
  goes up takes it down when it returns, whichever ticker it is of.

## 7. What is not modelled

* Loss of Redis data or expiry of keys: the code sets no expiry.
* Authentication, sessions and the validation of symbols: they run before any state
  is touched, and security is not the subject here.
* The connection pool and its lazy creation (`app/db/pool.py:13`): a race at start-up
  whose only effect is a pool that is never closed.
* The migration runner (`app/db/migrate.py:37`): a script run by hand at deployment.
* The read API and the other pages: queries and rendering of one resource, with no
  state of their own beside the insert of a user's decision.
* Parsing of upstream payloads (JSON columns, XML, titles): conversions without
  control state; what they decide (usable or not, dated or not, how many rows) is a
  choice in the model.
* The Taiwan chip lens's weighted signs and the news lens's average tone: formulas
  over one row. Texts of messages, notes and errors; the JSON of the breakdown.
* The on-demand audit rows: written, with a run_kind of their own, and read by none
  of the modelled parts.

`PROJECT.json` gives the status and the reason for each component.

## 8. Plan

Everything of the original plan is in place except the migrations, left out for
the reason above. In the order in which it would add most, what could follow:

1. The page composed with `AnalysisJobs` itself rather than with its abstraction,
   which would show a duplicate run on the screen.
2. The ticker-scoped backtest answer of the stocks router, and the decision insert.
