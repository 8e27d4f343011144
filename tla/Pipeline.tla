------------------------------ MODULE Pipeline ------------------------------
(***************************************************************************)
(* The batch pipeline, run by the scheduler's cron trigger and by POST     *)
(* /pipeline/run-now, together with the on-demand jobs that promote and    *)
(* score tickers meanwhile.  Scheduler, API and worker share the database  *)
(* and nothing else: every statement may interleave with any other.        *)
(*                                                                         *)
(* Of the news data only provenance is kept: which gdelt queries succeeded *)
(* and whether a recommendation's news lens was ok.                        *)
(*                                                                         *)
(* The clock is the UTC date, which every execution and job takes once.    *)
(***************************************************************************)
EXTENDS Naturals, Sequences, FiniteSets

CONSTANTS Tickers,       \* full symbols
          CronRuns,      \* executions the scheduler may start
          ManualRuns,    \* executions POST /pipeline/run-now may start
          PlainSources,  \* the ingestion sources before gdelt, in order
          NoTicker,      \* no ticker in hand
          LastDate,      \* bound: the clock stops here
          MaxJobs,       \* bound: on-demand jobs
          MaxDeaths      \* bound: executions that die half-way

Runs == CronRuns \cup ManualRuns
Stages == PlainSources \o <<"gdelt", "engine", "backtest">>
Sources == {Stages[i] : i \in DOMAIN Stages}

Dates == 1..LastDate

ASSUME PipelineConstantsOK ==
    /\ CronRuns \cap ManualRuns = {} /\ NoTicker \notin Tickers
    /\ LastDate \in Nat \ {0} /\ MaxJobs \in Nat /\ MaxDeaths \in Nat
    /\ PlainSources \in Seq({"yfinance", "twse_tpex", "edgar_13f"})

VARIABLES today,      \* the UTC date
          covered,    \* tickers with is_covered
          row,        \* pipeline_run rows of run_kind 'scheduled'
          rec,        \* the news lens of each ticker's row of each date
          pc,         \* where each execution is
          at,         \* its stage, an index of Stages
          date,       \* its run_date
          todo,       \* tickers its engine stage has still to score
          anyScored,  \* whether that stage scored a ticker already
          inHand,     \* the ticker it is scoring, and the news lens it read
          outcome,    \* what the stage is about to record
          job,        \* the on-demand worker's job
          jobs, deaths,
          queried,    \* history: <<t, d>> when a gdelt fetch that did not raise as
                        \* a whole queried t for d with success
          joined      \* history: <<t, d>> when t was promoted on d

stageVars == <<todo, anyScored, inHand, outcome>>
runVars == <<pc, at, date, stageVars>>
jobVars == <<job, jobs>>
historyVars == <<queried, joined>>
vars == <<today, covered, row, rec, runVars, jobVars, deaths, historyVars>>

Finished == {"ok", "unavailable", "error"}
NoRow == [status |-> "absent", failed |-> {}]
Idle == [step |-> "idle", ticker |-> NoTicker, date |-> 0, lens |-> "none"]
NoOutcome == [status |-> "none", failed |-> {}]
EmptyHand == [ticker |-> NoTicker, lens |-> "none"]

Init ==
    /\ today = 1
    /\ covered \in SUBSET Tickers
    /\ row = [ds \in Dates \X Sources |-> NoRow]
    /\ rec = [td \in Tickers \X Dates |-> "none"]
    /\ pc = [p \in Runs |-> "new"]
    /\ at = [p \in Runs |-> 1]
    /\ date = [p \in Runs |-> 0]
    /\ todo = [p \in Runs |-> {}]
    /\ anyScored = [p \in Runs |-> FALSE]
    /\ inHand = [p \in Runs |-> EmptyHand]
    /\ outcome = [p \in Runs |-> NoOutcome]
    /\ job = Idle /\ jobs = 0 /\ deaths = 0
    /\ queried = {} /\ joined = {}

Source(p) == Stages[at[p]]
Active(p) == pc[p] \notin {"new", "done", "dead"}

Goto(p, label) == pc' = [pc EXCEPT ![p] = label]

\* The stage of p is over; its row is still to be written.
Conclude(p, status, failed) ==
    /\ outcome' = [outcome EXCEPT ![p] = [status |-> status, failed |-> failed]]
    /\ Goto(p, "record")

-----------------------------------------------------------------------------
(* Executions                                                              *)

\* max_instances = 1: the trigger skips a day when the last run is not over.
CronFires(p) ==
    /\ p \in CronRuns
    /\ \A q \in CronRuns : ~Active(q) /\ date[q] # today

Start(p) ==
    /\ pc[p] = "new"
    /\ p \in ManualRuns \/ CronFires(p)
    /\ date' = [date EXCEPT ![p] = today]
    /\ Goto(p, "begin")
    /\ UNCHANGED <<today, covered, row, rec, at, stageVars, jobVars, deaths, historyVars>>

\* The upsert that marks the stage running and clears what it said before.
Begin(p) ==
    /\ pc[p] = "begin"
    /\ row' = [row EXCEPT ![<<date[p], Source(p)>>] =
                  [status |-> "running", failed |-> {}]]
    /\ Goto(p, "work")
    /\ UNCHANGED <<today, covered, rec, at, date, stageVars, jobVars, deaths, historyVars>>

\* A stage without state of its own.  The backtest is unavailable until some
\* recommendation exists.
Call(p) ==
    /\ pc[p] = "work" /\ Source(p) \notin {"gdelt", "engine"}
    /\ \E status \in {"ok", "unavailable"} :
          /\ Source(p) = "backtest" =>
                (status = "ok" <=> \E td \in Tickers \X Dates : rec[td] # "none")
          /\ Conclude(p, status, {})
    /\ UNCHANGED <<today, covered, row, rec, at, date, todo, anyScored, inHand,
                   jobVars, deaths, historyVars>>

\* Mutant: a run that lost some tickers is reported unavailable.
GdeltOutcomeAllOrNothing(ok, failed) == IF ok = {} \/ failed # {} THEN "unavailable" ELSE "ok"

\* Mutant: partial success gets a status of its own.
GdeltOutcomePartial(ok, failed) ==
    IF ok = {} THEN "unavailable" ELSE IF failed # {} THEN "partial" ELSE "ok"

\* The source is down when no ticker's query succeeded.
GdeltOutcome(ok, failed) == IF ok = {} THEN "unavailable" ELSE "ok"

\* ingest_gdelt: the covered tickers are listed once and queried one by one,
\* each query failing on its own.  Nobody reads what happens in between, so
\* the list, the queries and the summary are one step: the row that names the
\* failed tickers is written later.
Gdelt(p) ==
    /\ pc[p] = "work" /\ Source(p) = "gdelt"
    /\ \E ok \in SUBSET covered :
          /\ queried' = queried \cup {<<t, date[p]>> : t \in ok}
          /\ Conclude(p, GdeltOutcome(ok, covered \ ok), IF ok = {} THEN {} ELSE covered \ ok)
    /\ UNCHANGED <<today, covered, row, rec, at, date, todo, anyScored, inHand,
                   jobVars, deaths, joined>>

\* run_engine reads the covered tickers once.
List(p) ==
    /\ pc[p] = "work" /\ Source(p) = "engine"
    /\ todo' = [todo EXCEPT ![p] = covered]
    /\ anyScored' = [anyScored EXCEPT ![p] = FALSE]
    /\ Goto(p, "score")
    /\ UNCHANGED <<today, covered, row, rec, at, date, inHand, outcome, jobVars, deaths, historyVars>>

\* Mutant: the failed_tickers token is not looked at.
NewsLensIgnoresToken(t, d) ==
    IF row[<<d, "gdelt">>].status = "ok" THEN "ok" ELSE "missing"

\* news_signal for the daily engine: the gdelt row of the date decides.
NewsLens(t, d) ==
    IF row[<<d, "gdelt">>].status = "ok" /\ t \notin row[<<d, "gdelt">>].failed
    THEN "ok" ELSE "missing"

\* score_ticker, first half: the lenses are read.
ReadLenses(p, t) ==
    /\ pc[p] = "score" /\ t \in todo[p]
    /\ todo' = [todo EXCEPT ![p] = todo[p] \ {t}]
    /\ inHand' = [inHand EXCEPT ![p] = [ticker |-> t, lens |-> NewsLens(t, date[p])]]
    /\ Goto(p, "write")
    /\ UNCHANGED <<today, covered, row, rec, at, date, anyScored, outcome, jobVars, deaths, historyVars>>

\* Mutant: a ticker is counted before its row is written.
WriteRecommendationCountsFirst(p) ==
    /\ pc[p] = "write"
    /\ anyScored' = [anyScored EXCEPT ![p] = TRUE]
    /\ \/ rec' = [rec EXCEPT ![<<inHand[p].ticker, date[p]>>] = inHand[p].lens]
       \/ UNCHANGED rec
    /\ inHand' = [inHand EXCEPT ![p] = EmptyHand]
    /\ Goto(p, "score")
    /\ UNCHANGED <<today, covered, row, at, date, todo, outcome, jobVars, deaths, historyVars>>

\* score_ticker, second half: the upsert of the date's row.  A ticker that has
\* no lens at all, or whose scoring raises, gets none.
WriteRecommendation(p) ==
    /\ pc[p] = "write"
    /\ \/ /\ rec' = [rec EXCEPT ![<<inHand[p].ticker, date[p]>>] = inHand[p].lens]
          /\ anyScored' = [anyScored EXCEPT ![p] = TRUE]
       \/ UNCHANGED <<rec, anyScored>>
    /\ inHand' = [inHand EXCEPT ![p] = EmptyHand]
    /\ Goto(p, "score")
    /\ UNCHANGED <<today, covered, row, at, date, todo, outcome, jobVars, deaths, historyVars>>

CloseEngine(p) ==
    /\ pc[p] = "score" /\ todo[p] = {}
    /\ Conclude(p, IF anyScored[p] THEN "ok" ELSE "unavailable", {})
    /\ UNCHANGED <<today, covered, row, rec, at, date, todo, anyScored, inHand,
                   jobVars, deaths, historyVars>>

\* Mutant: an exception ends the execution, not only its stage.
StageRaisesAborts(p) ==
    /\ pc[p] = "work"
    /\ Goto(p, "done")
    /\ UNCHANGED <<today, covered, row, rec, at, date, stageVars, jobVars, deaths, historyVars>>

\* The stage raises as a whole: AdapterUnavailable from the gdelt client, or
\* any other exception.  Once the engine has its list, whatever raises is
\* caught ticker by ticker.
StageRaises(p) ==
    /\ pc[p] = "work"
    /\ \E status \in {"unavailable", "error"} :
          /\ status = "unavailable" => Source(p) = "gdelt"
          /\ Conclude(p, status, {})
    /\ UNCHANGED <<today, covered, row, rec, at, date, todo, anyScored, inHand,
                   jobVars, deaths, historyVars>>

\* Mutant: the date is asked for again when the row is finished.
RecordUnderToday(p) ==
    /\ pc[p] = "record"
    /\ row' = [row EXCEPT ![<<today, Source(p)>>] = outcome[p]]
    /\ IF at[p] = Len(Stages)
       THEN Goto(p, "done") /\ UNCHANGED at
       ELSE Goto(p, "begin") /\ at' = [at EXCEPT ![p] = at[p] + 1]
    /\ outcome' = [outcome EXCEPT ![p] = NoOutcome]
    /\ UNCHANGED <<today, covered, rec, date, todo, anyScored, inHand, jobVars, deaths, historyVars>>

\* The update that finishes the stage's row, and on to the next stage.
Record(p) ==
    /\ pc[p] = "record"
    /\ row' = [row EXCEPT ![<<date[p], Source(p)>>] = outcome[p]]
    /\ IF at[p] = Len(Stages)
       THEN Goto(p, "done") /\ UNCHANGED at
       ELSE Goto(p, "begin") /\ at' = [at EXCEPT ![p] = at[p] + 1]
    /\ outcome' = [outcome EXCEPT ![p] = NoOutcome]
    /\ UNCHANGED <<today, covered, rec, date, todo, anyScored, inHand, jobVars, deaths, historyVars>>

\* The process ends, or one of the two statements outside the try raises.
Die(p) ==
    /\ Active(p) /\ deaths < MaxDeaths
    /\ deaths' = deaths + 1
    /\ Goto(p, "dead")
    /\ UNCHANGED <<today, covered, row, rec, at, date, stageVars, jobVars, historyVars>>

-----------------------------------------------------------------------------
(* The on-demand worker, one job at a time                                 *)

TakeJob(t) ==
    /\ job.step = "idle" /\ jobs < MaxJobs
    /\ job' = [step |-> "promote", ticker |-> t, date |-> today, lens |-> "none"]
    /\ jobs' = jobs + 1
    /\ UNCHANGED <<today, covered, row, rec, runVars, deaths, historyVars>>

Promote ==
    /\ job.step = "promote"
    /\ covered' = covered \cup {job.ticker}
    /\ joined' = IF job.ticker \in covered THEN joined
                                           ELSE joined \cup {<<job.ticker, today>>}
    /\ job' = [step |-> "fetch", ticker |-> job.ticker, date |-> job.date, lens |-> "none"]
    /\ UNCHANGED <<today, row, rec, runVars, jobs, deaths, queried>>

\* The gdelt outcome stays in memory: the scheduled row is not its business.
FetchNews ==
    /\ job.step = "fetch"
    /\ \E lens \in {"ok", "missing"} :
          /\ job' = [step |-> "score", ticker |-> job.ticker, date |-> job.date, lens |-> lens]
          /\ queried' = IF lens = "ok" THEN queried \cup {<<job.ticker, job.date>>} ELSE queried
    /\ UNCHANGED <<today, covered, row, rec, runVars, jobs, deaths, joined>>

\* Mutant: whatever the fetch brought, the override says ok.
ScoreJobTrustsFetch ==
    /\ job.step = "score"
    /\ rec' = [rec EXCEPT ![<<job.ticker, job.date>>] = "ok"]
    /\ job' = Idle
    /\ UNCHANGED <<today, covered, row, runVars, jobs, deaths, historyVars>>

ScoreJob ==
    /\ job.step = "score"
    /\ \/ rec' = [rec EXCEPT ![<<job.ticker, job.date>>] = job.lens]
       \/ job.lens = "missing" /\ UNCHANGED rec
    /\ job' = Idle
    /\ UNCHANGED <<today, covered, row, runVars, jobs, deaths, historyVars>>

\* The job fails closed, or its process dies.
JobEnds ==
    /\ job.step # "idle"
    /\ job' = Idle
    /\ UNCHANGED <<today, covered, row, rec, runVars, jobs, deaths, historyVars>>

Midnight ==
    /\ today < LastDate
    /\ today' = today + 1
    /\ UNCHANGED <<covered, row, rec, runVars, jobVars, deaths, historyVars>>

-----------------------------------------------------------------------------
Step(p) ==
    \/ Begin(p) \/ Call(p) \/ Gdelt(p) \/ List(p) \/ WriteRecommendation(p)
    \/ CloseEngine(p) \/ StageRaises(p) \/ Record(p)
    \/ \E t \in Tickers : ReadLenses(p, t)

OnDemand ==
    \/ \E t \in Tickers : TakeJob(t)
    \/ Promote \/ FetchNews \/ ScoreJob \/ JobEnds

Next == (\E p \in Runs : Start(p) \/ Step(p) \/ Die(p)) \/ OnDemand \/ Midnight

Spec == Init /\ [][Next]_vars

-----------------------------------------------------------------------------
(* Properties                                                              *)

Lenses == {"none", "ok", "missing"}

TypeOK ==
    /\ today \in Dates
    /\ covered \in SUBSET Tickers
    /\ row \in [Dates \X Sources -> [status : {"absent", "running"} \cup Finished,
                                     failed : SUBSET Tickers]]
    /\ rec \in [Tickers \X Dates -> Lenses]
    /\ pc \in [Runs -> {"new", "begin", "work", "score", "write", "record", "done", "dead"}]
    /\ at \in [Runs -> DOMAIN Stages]
    /\ date \in [Runs -> {0} \cup Dates]
    /\ todo \in [Runs -> SUBSET Tickers]
    /\ anyScored \in [Runs -> BOOLEAN]
    /\ inHand \in [Runs -> [ticker : Tickers \cup {NoTicker}, lens : Lenses]]
    /\ outcome \in [Runs -> [status : {"none"} \cup Finished, failed : SUBSET Tickers]]
    /\ job \in [step : {"idle", "promote", "fetch", "score"}, ticker : Tickers \cup {NoTicker},
                date : {0} \cup Dates, lens : Lenses]
    /\ jobs \in 0..MaxJobs /\ deaths \in 0..MaxDeaths
    /\ queried \in SUBSET (Tickers \X Dates)
    /\ joined \in SUBSET (Tickers \X Dates)

\* A news lens that is ok rests on a successful gdelt query: for a ticker that
\* was in the pool before the date began, a recommendation of the date has an
\* ok news lens only if a query of that ticker succeeded for that date, however
\* executions overlap, die and overwrite each other's rows.
MembersNewsHasEvidence ==
    \A t \in Tickers, d \in Dates :
        rec[<<t, d>>] = "ok" /\ (\A e \in Dates : <<t, e>> \in joined => e < d) =>
            <<t, d>> \in queried

\* When every execution of a date has come to its end, each of its stages has a
\* finished row: no failure of one source takes the later ones with it, and
\* overlapping executions leave no row running.
RowsSettle ==
    \A d \in Dates :
        LET mine == {p \in Runs : date[p] = d} IN
        mine # {} /\ (\A p \in mine : pc[p] = "done") =>
            \A s \in Sources : row[<<d, s>>].status \in Finished

\* A date whose engine row is ok has a recommendation.
EngineOkMeansSnapshot ==
    \A d \in Dates :
        row[<<d, "engine">>].status = "ok" => \E t \in Tickers : rec[<<t, d>>] # "none"

\* Left alone, the news lens is exactly the fetch outcome: on a date with one
\* execution, which came to its end, and without on-demand jobs, a
\* recommendation's news lens is ok if and only if the ticker's query
\* succeeded and gdelt as a whole did not raise.
LoneRunNewsIsExact ==
    \A p \in Runs :
        /\ pc[p] = "done" /\ jobs = 0
        /\ \A q \in Runs \ {p} : date[q] # date[p]
        =>
        \A t \in Tickers : rec[<<t, date[p]>>] # "none" =>
            (rec[<<t, date[p]>>] = "ok" <=> <<t, date[p]>> \in queried)

-----------------------------------------------------------------------------
(* What the documentation says                                             *)

\* news.py:7-13: "fetch/source failure (no run, ...) -> unavailable": no news
\* lens is ok without a query that succeeded.  A ticker promoted between the
\* gdelt and the engine stage has none, and is not among the failed.
NewsHasEvidence ==
    \A td \in Tickers \X Dates : rec[td] = "ok" => td \in queried
=============================================================================
