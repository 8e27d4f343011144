---------------------------- MODULE AnalysisJobs ----------------------------
(***************************************************************************)
(* On-demand ticker analysis: the POST /analyze handler, the job store and *)
(* queue it keeps in Redis, and the in-process worker that runs the jobs.  *)
(*                                                                         *)
(* Every await of a Redis or Postgres call is a point where asyncio may    *)
(* run somebody else, so every such call is one action; the code between   *)
(* two awaits belongs to the action of the call before it.  A request is   *)
(* the HTTP handler serving it, and it names the run it may mint: one POST *)
(* mints at most one run_id, so the run_id is the request itself.          *)
(*                                                                         *)
(* The API process (all handlers and the worker) may crash and restart;    *)
(* Redis and Postgres keep what was written.                               *)
(***************************************************************************)
EXTENDS Naturals, Sequences, FiniteSets

CONSTANTS Tickers,      \* full symbols clients may ask for
          Requests,     \* POST /analyze calls, and the run ids they may mint
          NoRun,        \* no run_id
          PoolCap,      \* settings.max_coverage_pool_size
          MaxInFlight,  \* bound: handlers served at the same time
          MaxFaults,    \* bound: failed Redis or pool calls
          MaxCrashes    \* bound: crashes (or cancelling shutdowns) of the process

ASSUME ConstantsOK ==
    /\ NoRun \notin Requests
    /\ PoolCap \in Nat /\ MaxInFlight \in Nat
    /\ MaxFaults \in Nat /\ MaxCrashes \in Nat

VARIABLES body,          \* what each request asks: [ticker, force]
          pool,          \* ticker row: absent, or its is_covered flag
          scored,        \* tickers with a recommendation row
          job,           \* analysis_job:{run_id} hashes
          queue,         \* analysis_queue, head first
          active,        \* analysis_active:{TICKER} pointers
          lastFinished,  \* analysis_last_finished:{TICKER} against the cooldown
          pc,            \* where each handler is, or the answer it gave
          sawCovered,    \* the is_covered flag each handler read
          run,           \* the run_id each handler holds or answered with
          wpc,           \* where the worker is
          wrun,          \* the run in the worker's payload
          fetched,       \* what the fetch phase left: [newsOk, reason]
          verdict,       \* the terminal fields _finish is about to write
          faults, crashes

dbVars == <<pool, scored>>
redisVars == <<job, queue, active, lastFinished>>
handlerVars == <<pc, sawCovered, run>>
workerVars == <<wpc, wrun, fetched, verdict>>
budgetVars == <<faults, crashes>>
vars == <<body, dbVars, redisVars, handlerVars, workerVars, budgetVars>>

-----------------------------------------------------------------------------
Running == {"fetching", "scoring"}
Live == {"queued"} \cup Running
Terminal == {"ready", "partial", "failed"}
Reasons == {"source_unavailable", "fetch_failed", "timeout"}

\* A run_id nobody minted has no hash: status "none".  The phase, shown only
\* while a job runs, takes the place of "running".
Job == [status : {"none"} \cup Live \cup Terminal, reason : {"none"} \cup Reasons]
NoJob == [status |-> "none", reason |-> "none"]

\* Handlers between arrival and answer, and the answers: 202, 200, 409, 503,
\* and no answer at all (the process died).
InHandler == {"read_ticker", "read_snapshot", "get_active", "get_status",
              "get_cooldown", "next_refresh", "count_pool",
              "hset", "set_active", "rpush"}
Answers == {"accepted", "ready", "pool_full", "error", "lost"}

\* run_job's try block, then _finish, then the connection's release; net_* is
\* the _finish of worker_loop's own except clause.
InTry == {"mark_fetching", "promote", "fetch", "mark_scoring", "score"}
InFinish == {"finish_hset", "finish_delete", "finish_cooldown"}
InNet == {"net_hset", "net_delete", "net_cooldown"}
WorkerPC == {"idle", "acquire", "release"} \cup InTry \cup InFinish \cup InNet

Covered == {t \in Tickers : pool[t] = "covered"}
TickerOf(r) == body[r].ticker

Init ==
    /\ body \in [Requests -> [ticker : Tickers, force : BOOLEAN]]
    /\ pool \in [Tickers -> {"absent", "uncovered", "covered"}]
    /\ Cardinality(Covered) <= PoolCap
    /\ scored \in SUBSET Covered
    /\ job = [r \in Requests |-> NoJob]
    /\ queue = <<>>
    /\ active = [t \in Tickers |-> NoRun]
    /\ lastFinished = [t \in Tickers |-> "never"]
    /\ pc = [q \in Requests |-> "new"]
    /\ sawCovered = [q \in Requests |-> FALSE]
    /\ run = [q \in Requests |-> NoRun]
    /\ wpc = "idle" /\ wrun = NoRun
    /\ fetched = [newsOk |-> FALSE, reason |-> "none"]
    /\ verdict = [status |-> "none", reason |-> "none"]
    /\ faults = 0 /\ crashes = 0

-----------------------------------------------------------------------------
(* POST /analyze                                                           *)

Goto(q, label) == pc' = [pc EXCEPT ![q] = label]

\* The request passed SYMBOL_RE and reached the database.
Receive(q) ==
    /\ pc[q] = "new"
    /\ Cardinality({p \in Requests : pc[p] \in InHandler}) < MaxInFlight
    /\ Goto(q, "read_ticker")
    /\ UNCHANGED <<body, dbVars, redisVars, sawCovered, run, workerVars, budgetVars>>

\* fetch_ticker: a ticker without a row has no recommendation to look up.
ReadTicker(q) ==
    /\ pc[q] = "read_ticker"
    /\ sawCovered' = [sawCovered EXCEPT ![q] = pool[TickerOf(q)] = "covered"]
    /\ Goto(q, IF pool[TickerOf(q)] = "absent" THEN "get_active" ELSE "read_snapshot")
    /\ UNCHANGED <<body, dbVars, redisVars, run, workerVars, budgetVars>>

\* Mutant: a covered ticker is taken to have a snapshot.
ReadSnapshotTrustsCovered(q) ==
    /\ pc[q] = "read_snapshot"
    /\ Goto(q, IF sawCovered[q] /\ ~body[q].force THEN "next_refresh" ELSE "get_active")
    /\ UNCHANGED <<body, dbVars, redisVars, sawCovered, run, workerVars, budgetVars>>

\* max(rec_date), then the short-circuit: a covered ticker with a snapshot is
\* served unless the client forces a new run.
ReadSnapshot(q) ==
    /\ pc[q] = "read_snapshot"
    /\ Goto(q, IF sawCovered[q] /\ TickerOf(q) \in scored /\ ~body[q].force
               THEN "next_refresh" ELSE "get_active")
    /\ UNCHANGED <<body, dbVars, redisVars, sawCovered, run, workerVars, budgetVars>>

\* Mutant: one pointer for the whole application, not one per ticker.
GetActiveAnyTicker(q) ==
    /\ pc[q] = "get_active"
    /\ \E t \in Tickers :
          /\ run' = [run EXCEPT ![q] = active[t]]
          /\ Goto(q, IF active[t] = NoRun THEN "get_cooldown" ELSE "get_status")
    /\ UNCHANGED <<body, dbVars, redisVars, sawCovered, workerVars, budgetVars>>

\* active_run_id, first call: the coalesce pointer.
GetActive(q) ==
    /\ pc[q] = "get_active"
    /\ run' = [run EXCEPT ![q] = active[TickerOf(q)]]
    /\ Goto(q, IF active[TickerOf(q)] = NoRun THEN "get_cooldown" ELSE "get_status")
    /\ UNCHANGED <<body, dbVars, redisVars, sawCovered, workerVars, budgetVars>>

\* active_run_id, second call: the pointer counts while its job is live.
GetStatus(q) ==
    /\ pc[q] = "get_status"
    /\ IF job[run[q]].status \in Live
       THEN Goto(q, "accepted") /\ UNCHANGED run
       ELSE Goto(q, "get_cooldown") /\ run' = [run EXCEPT ![q] = NoRun]
    /\ UNCHANGED <<body, dbVars, redisVars, sawCovered, workerVars, budgetVars>>

\* seconds_since_last_finish: force does not bypass the cooldown.
GetCooldown(q) ==
    /\ pc[q] = "get_cooldown"
    /\ Goto(q, IF lastFinished[TickerOf(q)] = "recent" THEN "next_refresh"
               ELSE IF sawCovered[q] THEN "hset" ELSE "count_pool")
    /\ UNCHANGED <<body, dbVars, redisVars, sawCovered, run, workerVars, budgetVars>>

\* next_refresh_at, and the 200 answer that carries it.
NextRefresh(q) ==
    /\ pc[q] = "next_refresh"
    /\ Goto(q, "ready")
    /\ UNCHANGED <<body, dbVars, redisVars, sawCovered, run, workerVars, budgetVars>>

\* The pool cap stands in the way of new tickers only.
CountPool(q) ==
    /\ pc[q] = "count_pool"
    /\ Goto(q, IF Cardinality(Covered) >= PoolCap THEN "pool_full" ELSE "hset")
    /\ UNCHANGED <<body, dbVars, redisVars, sawCovered, run, workerVars, budgetVars>>

\* enqueue_job, one action per call: the hash, the pointer, the queue.
EnqueueHash(q) ==
    /\ pc[q] = "hset"
    /\ job' = [job EXCEPT ![q] = [status |-> "queued", reason |-> "none"]]
    /\ run' = [run EXCEPT ![q] = q]
    /\ Goto(q, "set_active")
    /\ UNCHANGED <<body, dbVars, queue, active, lastFinished, sawCovered, workerVars, budgetVars>>

\* Mutant: a handler that finds the pointer taken answers with its own run
\* without queueing it.
EnqueuePointerLateCoalesce(q) ==
    /\ pc[q] = "set_active"
    /\ IF active[TickerOf(q)] = NoRun
       THEN active' = [active EXCEPT ![TickerOf(q)] = q] /\ Goto(q, "rpush")
       ELSE UNCHANGED active /\ Goto(q, "accepted")
    /\ UNCHANGED <<body, dbVars, job, queue, lastFinished, sawCovered, run, workerVars, budgetVars>>

EnqueuePointer(q) ==
    /\ pc[q] = "set_active"
    /\ active' = [active EXCEPT ![TickerOf(q)] = q]
    /\ Goto(q, "rpush")
    /\ UNCHANGED <<body, dbVars, job, queue, lastFinished, sawCovered, run, workerVars, budgetVars>>

\* Mutant: lpush where blpop expects rpush.
EnqueuePushFront(q) ==
    /\ pc[q] = "rpush"
    /\ queue' = <<q>> \o queue
    /\ Goto(q, "accepted")
    /\ UNCHANGED <<body, dbVars, job, active, lastFinished, sawCovered, run, workerVars, budgetVars>>

EnqueuePush(q) ==
    /\ pc[q] = "rpush"
    /\ queue' = Append(queue, q)
    /\ Goto(q, "accepted")
    /\ UNCHANGED <<body, dbVars, job, active, lastFinished, sawCovered, run, workerVars, budgetVars>>

-----------------------------------------------------------------------------
(* The worker                                                              *)

\* blpop came back empty: the loop goes round again.
PollEmpty ==
    /\ wpc = "idle" /\ queue = <<>>
    /\ UNCHANGED vars

\* Mutant: the item is read but stays in the list.
PopPeeks ==
    /\ wpc = "idle" /\ queue # <<>>
    /\ wrun' = Head(queue)
    /\ wpc' = "acquire"
    /\ UNCHANGED <<body, dbVars, redisVars, handlerVars, fetched, verdict, budgetVars>>

Pop ==
    /\ wpc = "idle" /\ queue # <<>>
    /\ queue' = Tail(queue)
    /\ wrun' = Head(queue)
    /\ wpc' = "acquire"
    /\ UNCHANGED <<body, dbVars, job, active, lastFinished, handlerVars,
                   fetched, verdict, budgetVars>>

Acquire ==
    /\ wpc = "acquire"
    /\ wpc' = "mark_fetching"
    /\ UNCHANGED <<body, dbVars, redisVars, handlerVars, wrun, fetched, verdict, budgetVars>>

\* _mark(status="running", phase=...).
Mark(here, phase, next) ==
    /\ wpc = here
    /\ job' = [job EXCEPT ![wrun] = [status |-> phase, reason |-> job[wrun].reason]]
    /\ wpc' = next
    /\ UNCHANGED <<body, dbVars, queue, active, lastFinished, handlerVars,
                   wrun, fetched, verdict, budgetVars>>

MarkFetching == Mark("mark_fetching", "fetching", "promote")
MarkScoring == Mark("mark_scoring", "scoring", "score")

\* _ensure_covered_ticker: no second look at the pool cap.
Promote ==
    /\ wpc = "promote"
    /\ pool' = [pool EXCEPT ![TickerOf(wrun)] = "covered"]
    /\ wpc' = "fetch"
    /\ UNCHANGED <<body, scored, redisVars, handlerVars, wrun, fetched, verdict, budgetVars>>

\* The failure category of a fetch whose sources failed in the given ways; a
\* fetch without failures still has one, used when nothing could be scored.
ReasonFromOutcomes(failures) ==
    IF "timeout" \in failures THEN "timeout"
    ELSE IF "unavailable" \in failures THEN "source_unavailable"
    ELSE IF "error" \in failures THEN "fetch_failed"
    ELSE "source_unavailable"

\* run_on_demand_fetch isolates every source, then the audit rows are written.
\* Only the ways the sources failed, and whether gdelt is among the failed
\* ones, reach the rest of the job.
Fetch ==
    /\ wpc = "fetch"
    /\ \E failures \in SUBSET {"timeout", "unavailable", "error"}, newsOk \in BOOLEAN :
          /\ failures = {} => newsOk
          /\ fetched' = [newsOk |-> newsOk, reason |-> ReasonFromOutcomes(failures)]
    /\ wpc' = "mark_scoring"
    /\ UNCHANGED <<body, dbVars, redisVars, handlerVars, wrun, verdict, budgetVars>>

\* Mutant: only suppression counts as a failure, not the absence of a row.
VerdictNoDataPartial(result) ==
    IF result = "suppressed"
    THEN [status |-> "failed", reason |-> fetched.reason]
    ELSE [status |-> IF result = "complete" THEN "ready" ELSE "partial", reason |-> "none"]

\* What the engine's answer means for the job.
Verdict(result) ==
    IF result \in {"no_data", "suppressed"}
    THEN [status |-> "failed", reason |-> fetched.reason]
    ELSE [status |-> IF result = "complete" THEN "ready" ELSE "partial", reason |-> "none"]

\* score_ticker over whatever rows the database holds: without any data there
\* is no row, a suppressed result is a row like any other, and news that could
\* not be fetched is a missing module.
Score ==
    /\ wpc = "score"
    /\ \E result \in {"no_data", "suppressed", "missing_modules", "complete"} :
          /\ ~fetched.newsOk => result # "complete"
          /\ verdict' = Verdict(result)
          /\ scored' = IF result = "no_data" THEN scored
                                             ELSE scored \cup {TickerOf(wrun)}
    /\ wpc' = "finish_hset"
    /\ UNCHANGED <<body, pool, redisVars, handlerVars, wrun, fetched, budgetVars>>

\* Mutant: the exception's text goes into the job's reason.
JobRaisesWithDetail ==
    /\ wpc \in InTry
    /\ verdict' = [status |-> "failed", reason |-> "upstream body"]
    /\ wpc' = "finish_hset"
    /\ UNCHANGED <<body, dbVars, redisVars, handlerVars, wrun, fetched, budgetVars>>

\* Any exception in run_job's try block ends the job as failed.
JobRaises ==
    /\ wpc \in InTry
    /\ \E reason \in Reasons : verdict' = [status |-> "failed", reason |-> reason]
    /\ wpc' = "finish_hset"
    /\ UNCHANGED <<body, dbVars, redisVars, handlerVars, wrun, fetched, budgetVars>>

\* _finish, one action per call, from run_job or from worker_loop's net.  A
\* verdict without a reason leaves the hash's reason field alone.
FinishHash ==
    /\ wpc \in {"finish_hset", "net_hset"}
    /\ LET reason == IF verdict.reason = "none" THEN job[wrun].reason ELSE verdict.reason IN
       job' = [job EXCEPT ![wrun] = [status |-> verdict.status, reason |-> reason]]
    /\ wpc' = IF wpc = "finish_hset" THEN "finish_delete" ELSE "net_delete"
    /\ UNCHANGED <<body, dbVars, queue, active, lastFinished, handlerVars,
                   wrun, fetched, verdict, budgetVars>>

\* Mutant: the pointer is cleared for runs that succeeded only.
FinishDeleteOnSuccess ==
    /\ wpc \in {"finish_delete", "net_delete"}
    /\ active' = IF verdict.status = "failed" THEN active
                 ELSE [active EXCEPT ![TickerOf(wrun)] = NoRun]
    /\ wpc' = IF wpc = "finish_delete" THEN "finish_cooldown" ELSE "net_cooldown"
    /\ UNCHANGED <<body, dbVars, job, queue, lastFinished, handlerVars,
                   wrun, fetched, verdict, budgetVars>>

\* Mutant: a failed run returns before it writes the cooldown marker.
FinishDeleteSkipsMarker ==
    /\ wpc \in {"finish_delete", "net_delete"}
    /\ active' = [active EXCEPT ![TickerOf(wrun)] = NoRun]
    /\ wpc' = IF verdict.status = "failed" THEN "release" ELSE "finish_cooldown"
    /\ UNCHANGED <<body, dbVars, job, queue, lastFinished, handlerVars,
                   wrun, fetched, verdict, budgetVars>>

\* The pointer goes whichever run it names.
FinishDelete ==
    /\ wpc \in {"finish_delete", "net_delete"}
    /\ active' = [active EXCEPT ![TickerOf(wrun)] = NoRun]
    /\ wpc' = IF wpc = "finish_delete" THEN "finish_cooldown" ELSE "net_cooldown"
    /\ UNCHANGED <<body, dbVars, job, queue, lastFinished, handlerVars,
                   wrun, fetched, verdict, budgetVars>>

\* The worker between two jobs: payload = None at the top of the loop.
ForgetPayload ==
    /\ wpc' = "idle"
    /\ wrun' = NoRun
    /\ fetched' = [newsOk |-> FALSE, reason |-> "none"]
    /\ verdict' = [status |-> "none", reason |-> "none"]

FinishCooldown ==
    /\ wpc \in {"finish_cooldown", "net_cooldown"}
    /\ lastFinished' = [lastFinished EXCEPT ![TickerOf(wrun)] = "recent"]
    /\ IF wpc = "finish_cooldown"
       THEN wpc' = "release" /\ UNCHANGED <<wrun, fetched, verdict>>
       ELSE ForgetPayload
    /\ UNCHANGED <<body, dbVars, job, queue, active, handlerVars, budgetVars>>

\* The connection goes back to the pool and the loop starts over.
Release ==
    /\ wpc = "release"
    /\ ForgetPayload
    /\ UNCHANGED <<body, dbVars, redisVars, handlerVars, budgetVars>>

-----------------------------------------------------------------------------
(* Failed calls, crashes, time, and the nightly batch                      *)

SpendFault ==
    /\ faults < MaxFaults
    /\ faults' = faults + 1
    /\ UNCHANGED crashes

\* A Redis or Postgres call of the handler raises: 503, and the writes already
\* made stay.
HandlerFails(q) ==
    /\ pc[q] \in InHandler
    /\ Goto(q, "error")
    /\ SpendFault
    /\ UNCHANGED <<body, dbVars, redisVars, sawCovered, run, workerVars>>

\* blpop took the item but its reply never arrived: payload is still None.
PopReplyLost ==
    /\ wpc = "idle" /\ queue # <<>>
    /\ queue' = Tail(queue)
    /\ SpendFault
    /\ UNCHANGED <<body, dbVars, job, active, lastFinished, handlerVars, workerVars>>

\* An exception that leaves run_job, or the connection's acquire or release,
\* reaches worker_loop's net, which fails the job whatever became of it.
EscapesToNet ==
    /\ wpc \in {"acquire", "release"} \cup InFinish
    /\ verdict' = [status |-> "failed", reason |-> "fetch_failed"]
    /\ wpc' = "net_hset"
    /\ SpendFault
    /\ UNCHANGED <<body, dbVars, redisVars, handlerVars, wrun, fetched>>

\* Mutant: the net's _finish is not guarded, and its exception ends the loop.
NetFailsKillsWorker ==
    /\ wpc \in InNet
    /\ wpc' = "dead"
    /\ SpendFault
    /\ UNCHANGED <<body, dbVars, redisVars, handlerVars, wrun, fetched, verdict>>

\* The net's own _finish raises: logged, and the loop goes on.
NetFails ==
    /\ wpc \in InNet
    /\ ForgetPayload
    /\ SpendFault
    /\ UNCHANGED <<body, dbVars, redisVars, handlerVars>>

\* Mutant: a restart sweeps the store and fails every job it finds there.
CrashSweepsJobs ==
    /\ crashes < MaxCrashes
    /\ crashes' = crashes + 1
    /\ pc' = [q \in Requests |-> IF pc[q] \in InHandler THEN "lost" ELSE pc[q]]
    /\ job' = [r \in Requests |-> IF job[r].status = "none" THEN NoJob
                                  ELSE [status |-> "failed", reason |-> "fetch_failed"]]
    /\ ForgetPayload
    /\ UNCHANGED <<body, dbVars, queue, active, lastFinished, sawCovered, run, faults>>

\* The process dies or is shut down (CancelledError is re-raised): handlers
\* and worker vanish where they stand, and a new worker starts with no payload.
Crash ==
    /\ crashes < MaxCrashes
    /\ crashes' = crashes + 1
    /\ pc' = [q \in Requests |-> IF pc[q] \in InHandler THEN "lost" ELSE pc[q]]
    /\ ForgetPayload
    /\ UNCHANGED <<body, dbVars, redisVars, sawCovered, run, faults>>

\* on_demand_cooldown_s have passed since the marker was written.
CooldownElapses(t) ==
    /\ lastFinished[t] = "recent"
    /\ lastFinished' = [lastFinished EXCEPT ![t] = "elapsed"]
    /\ UNCHANGED <<body, dbVars, job, queue, active, handlerVars, workerVars, budgetVars>>

\* The nightly engine, a process of its own, scores a covered ticker.
NightlyScores(t) ==
    /\ pool[t] = "covered" /\ t \notin scored
    /\ scored' = scored \cup {t}
    /\ UNCHANGED <<body, pool, redisVars, handlerVars, workerVars, budgetVars>>

-----------------------------------------------------------------------------
Handler(q) ==
    \/ ReadTicker(q) \/ ReadSnapshot(q) \/ GetActive(q) \/ GetStatus(q)
    \/ GetCooldown(q) \/ NextRefresh(q) \/ CountPool(q)
    \/ EnqueueHash(q) \/ EnqueuePointer(q) \/ EnqueuePush(q)

Worker ==
    \/ PollEmpty \/ Pop \/ Acquire
    \/ MarkFetching \/ Promote \/ Fetch \/ MarkScoring \/ Score \/ JobRaises
    \/ FinishHash \/ FinishDelete \/ FinishCooldown \/ Release

Environment ==
    \/ \E q \in Requests : Receive(q) \/ HandlerFails(q)
    \/ PopReplyLost \/ EscapesToNet \/ NetFails \/ Crash
    \/ \E t \in Tickers : CooldownElapses(t) \/ NightlyScores(t)

Next == (\E q \in Requests : Handler(q)) \/ Worker \/ Environment

Spec == Init /\ [][Next]_vars

\* The event loop runs every ready coroutine: a handler whose call returned
\* goes on, and so does the worker.  Nothing obliges a client to send a
\* request, a call to fail or the clock to pass the cooldown.
Fairness == WF_vars(Worker) /\ \A q \in Requests : WF_vars(Handler(q))

FairSpec == Spec /\ Fairness

-----------------------------------------------------------------------------
(* Properties                                                              *)

TypeOK ==
    /\ body \in [Requests -> [ticker : Tickers, force : BOOLEAN]]
    /\ pool \in [Tickers -> {"absent", "uncovered", "covered"}]
    /\ scored \in SUBSET Tickers
    /\ job \in [Requests -> Job]
    /\ queue \in Seq(Requests)
    /\ active \in [Tickers -> Requests \cup {NoRun}]
    /\ lastFinished \in [Tickers -> {"never", "recent", "elapsed"}]
    /\ pc \in [Requests -> {"new"} \cup InHandler \cup Answers]
    /\ sawCovered \in [Requests -> BOOLEAN]
    /\ run \in [Requests -> Requests \cup {NoRun}]
    /\ wpc \in WorkerPC
    /\ wrun \in Requests \cup {NoRun}
    /\ fetched \in [newsOk : BOOLEAN, reason : {"none"} \cup Reasons]
    /\ verdict \in [status : {"none"} \cup Terminal, reason : {"none"} \cup Reasons]
    /\ faults \in 0..MaxFaults /\ crashes \in 0..MaxCrashes

Queued(r) == \E i \in DOMAIN queue : queue[i] = r

\* Whatever fails and whenever the process dies, a run is handed to the worker
\* at most once: the queue never holds it twice, nor after the worker took it,
\* nor once its job left the queued state.
AtMostOnceDelivery ==
    /\ \A i, j \in DOMAIN queue : queue[i] = queue[j] => i = j
    /\ \A r \in Requests : Queued(r) => r # wrun /\ job[r].status = "queued"

\* While no call failed and nothing crashed, a run that is not finished is
\* either still being enqueued, or queued, or with the worker: no run is
\* dropped between blpop and _finish, and none is left without a queue entry.
EveryRunHasOwner ==
    faults = 0 /\ crashes = 0 =>
        \A r \in Requests : job[r].status \in Live =>
            pc[r] \in {"set_active", "rpush"} \/ Queued(r) \/ r = wrun

\* While no call failed and nothing crashed, the coalesce pointer names a live
\* run of its own ticker, or one the worker is just finishing.
NoStalePointer ==
    faults = 0 /\ crashes = 0 =>
        \A t \in Tickers : active[t] # NoRun =>
            LET r == active[t] IN
            /\ TickerOf(r) = t
            /\ job[r].status \in Live \/ (r = wrun /\ wpc = "finish_delete")

\* A 202 names a run that exists and analyses the ticker that was asked for,
\* whoever minted it: a coalesced client polls neither a 404 nor another
\* ticker's job.
AcceptedRunAnswersRequest ==
    \A q \in Requests : pc[q] = "accepted" =>
        /\ run[q] # NoRun
        /\ job[run[q]].status # "none"
        /\ TickerOf(run[q]) = TickerOf(q)

\* A job that reports ready or partial left a recommendation of a covered
\* ticker behind: the dashboard the client loads next has something to show.
DoneMeansSnapshot ==
    \A r \in Requests : job[r].status \in {"ready", "partial"} =>
        TickerOf(r) \in scored /\ pool[TickerOf(r)] = "covered"

\* While no call failed and nothing crashed, a ticker one of whose runs is over
\* has its cooldown marker by the time the worker turns to something else:
\* however a run ends, force cannot start the next one at once.
FinishedLeavesCooldown ==
    faults = 0 /\ crashes = 0 =>
        \A r \in Requests : job[r].status \in Terminal /\ r # wrun =>
            lastFinished[TickerOf(r)] # "never"

\* A ready answer to a POST is never pure invention: the ticker has a snapshot,
\* or an analysis of it finished once.
ReadyHasHistory ==
    \A q \in Requests : pc[q] = "ready" =>
        TickerOf(q) \in scored \/ lastFinished[TickerOf(q)] # "never"

\* GET /analyze/{run_id}: 404 for a run without a hash, else the status, with
\* the phase in its place while the job runs, and the reason of a failed one.
PollAnswer(r) ==
    [stage  |-> IF job[r].status = "none" THEN "unknown" ELSE job[r].status,
     reason |-> IF job[r].status = "failed" THEN job[r].reason ELSE "none"]

\* The runs still in line: a popped run keeps its place until it is marked.
InLine == IF wrun # NoRun /\ job[wrun].status = "queued"
          THEN <<wrun>> \o queue ELSE queue

Lifecycle == INSTANCE JobLifecycle
                 WITH Runs <- Requests, stage <- [r \in Requests |-> PollAnswer(r).stage],
                      line <- InLine

\* Without failed calls and crashes, what clients can poll follows the
\* lifecycle, and the scheduling carries every run to its end.
RefinesLifecycle == Lifecycle!FairSpec

\* While no call failed, a terminal answer is final, crashes and restarts
\* included: what a client polled once, it polls for ever.
TerminalIsFinal ==
    [][faults = 0 => \A r \in Requests : job[r].status \in Terminal => job'[r] = job[r]]_vars

\* Every run that exists reaches a terminal status.
EveryRunFinishes ==
    \A r \in Requests : job[r].status \in Live ~> job[r].status \in Terminal

\* A ticker is not held by one run for ever: its pointer moves on.
TickerReleased ==
    \A t \in Tickers, r \in Requests : active[t] = r ~> active[t] # r

\* Failed calls, escaped exceptions and restarts included, the worker always
\* comes back for the next job.
WorkerSurvives == []<>(wpc = "idle")

-----------------------------------------------------------------------------
(* What the documentation says, and the races contradict                   *)

\* "never two concurrent runs per ticker": no two live runs of one ticker.
NeverTwoConcurrentRuns ==
    \A q, r \in Requests :
        q # r /\ job[q].status \in Live /\ job[r].status \in Live => TickerOf(q) # TickerOf(r)

\* "a NEW ticker that would push the covered pool past the cap is a 409".
PoolWithinCap == Cardinality(Covered) <= PoolCap
=============================================================================
