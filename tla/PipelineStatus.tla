--------------------------- MODULE PipelineStatus ---------------------------
(***************************************************************************)
(* app/api/routers/pipeline.py: what GET /pipeline/status says of the      *)
(* scheduled rows of pipeline_run, over hours and time zones.  The batch   *)
(* is reduced to its rows: a stage is "running", then ends with a status   *)
(* at some hour, or the batch dies and its row stays "running".  Module    *)
(* Pipeline has what the stages do, and executions that overlap.           *)
(*                                                                         *)
(* The clock counts hours from midnight UTC of day 0.                      *)
(***************************************************************************)
EXTENDS Integers, Sequences, FiniteSets, SequencesExt, FiniteSetsExt

CONSTANTS
    Sources,        \* the stages of run_pipeline_once, in order
    TaipeiOffset,   \* hours Taipei is ahead of UTC: 8
    CronHour,       \* the trigger, Taipei time: 3
    SlaHour,        \* NFR-01, Taipei time: 7
    FirstHour,      \* bounds: the clock starts here,
    HourStep,       \*         moves by this many hours
    LastHour,       \*         and stops here
    MaxDeaths       \* bound: deaths of the batch process

SourceSet == Range(Sources)
UtcDate(hour) == hour \div 24
Dates == 0 .. UtcDate(LastHour)
Bad == {"unavailable", "error"}
NotFinished == -1
NoRow == [status |-> "none", finished |-> NotFinished]

StatusConstantsOK ==
    /\ Sources \in Seq(SourceSet) /\ MaxDeaths \in Nat
    /\ LastHour \in Nat /\ FirstHour \in 0 .. LastHour /\ HourStep \in Nat \ {0}
    /\ TaipeiOffset \in 0 .. 23 /\ SlaHour \in 0 .. 23
    /\ SlaHour < TaipeiOffset

VARIABLES
    clock,
    row,         \* source -> run_date -> [status, finished]
    batch,       \* the stages the running batch has left, the current first
    begun,       \* whether the current stage has its running row
    runDate,     \* the date the batch took at its start
    startedAt,   \* history: the hour the batch started
    deaths

statusVars == <<clock, row, batch, begun, runDate, startedAt, deaths>>

Row == [status : {"none", "running", "ok"} \union Bad, finished : Int]

StatusTypeOK ==
    /\ clock \in 0 .. LastHour
    /\ row \in [SourceSet -> [Dates -> Row]]
    /\ batch \in Seq(SourceSet)
    /\ begun \in BOOLEAN
    /\ runDate \in Dates
    /\ startedAt \in 0 .. LastHour
    /\ deaths \in 0 .. MaxDeaths

StatusInit ==
    /\ clock = FirstHour
    /\ row = [s \in SourceSet |-> [d \in Dates |-> NoRow]]
    /\ batch = <<>>
    /\ begun = FALSE
    /\ runDate = 0
    /\ startedAt = 0
    /\ deaths = 0

-----------------------------------------------------------------------------
ClockMoves ==
    /\ clock + HourStep <= LastHour
    /\ clock' = clock + HourStep
    /\ UNCHANGED <<row, batch, begun, runDate, startedAt, deaths>>

TaipeiHour(hour) == (hour + TaipeiOffset) % 24

\* run_date is the date in UTC, whatever the trigger's time zone.
StartBatch ==
    /\ batch = <<>>
    /\ batch' = Sources
    /\ runDate' = UtcDate(clock)
    /\ startedAt' = clock
    /\ UNCHANGED <<clock, row, begun, deaths>>

CronFires == TaipeiHour(clock) = CronHour /\ StartBatch

RunNow == StartBatch

\* INSERT .. ON CONFLICT: a rerun of a date puts its row back to running.
Begin ==
    /\ batch # <<>> /\ ~begun
    /\ begun' = TRUE
    /\ row' = [row EXCEPT ![Head(batch)][runDate] =
                 [status |-> "running", finished |-> NotFinished]]
    /\ UNCHANGED <<clock, batch, runDate, startedAt, deaths>>

Record(status) ==
    /\ batch # <<>> /\ begun
    /\ begun' = FALSE
    /\ batch' = Tail(batch)
    /\ row' = [row EXCEPT ![Head(batch)][runDate] =
                 [status |-> status, finished |-> clock]]
    /\ UNCHANGED <<clock, runDate, startedAt, deaths>>

Die ==
    /\ batch # <<>>
    /\ deaths < MaxDeaths
    /\ deaths' = deaths + 1
    /\ batch' = <<>>
    /\ begun' = FALSE
    /\ UNCHANGED <<clock, row, runDate, startedAt>>

StatusNext ==
    \/ ClockMoves
    \/ CronFires
    \/ RunNow
    \/ Begin
    \/ \E status \in {"ok"} \union Bad : Record(status)
    \/ Die

StatusSpec == StatusInit /\ [][StatusNext]_statusVars

-----------------------------------------------------------------------------
(* The answer of GET /pipeline/status. *)

DatesOf(s) == {d \in Dates : row[s][d].status # "none"}
Reported == {s \in SourceSet : DatesOf(s) # {}}

\* SELECT max(run_date)
LatestDate == Max(UNION {DatesOf(s) : s \in Reported})

\* DISTINCT ON (source_name) .. ORDER BY source_name, run_date DESC
LatestRow(s) == row[s][Max(DatesOf(s))]

\* Mutant: a stage that is running counts as bad.
BadDaysCountRunning(s) ==
    Cardinality({d \in Dates :
        /\ row[s][d].status \in Bad \union {"running"}
        /\ \A e \in Dates : e >= d => row[s][e].status # "ok"})

\* consecutive_bad_days: bad rows later than the source's last ok row.
BadDays(s) ==
    Cardinality({d \in Dates :
        /\ row[s][d].status \in Bad
        /\ \A e \in Dates : e >= d => row[s][e].status # "ok"})

\* completed_at: the last finish among the sources' latest rows.
FinishTimes == {LatestRow(s).finished : s \in Reported} \ {NotFinished}

\* Mutant: the deadline in the wrong time zone.
DeadlineInUtc(date) == 24 * date + SlaHour

\* 07:00 Taipei on run_date, in hours from midnight UTC of day 0.
Deadline(date) == 24 * date + SlaHour - TaipeiOffset

SlaMet ==
    IF FinishTimes = {} THEN "unknown"
    ELSE IF Max(FinishTimes) <= Deadline(LatestDate) THEN "yes" ELSE "no"

-----------------------------------------------------------------------------
\* The status page says the deadline was met only while no stage of the
\* latest date has finished, from the finish times of the day before: with
\* run_date taken in UTC, 07:00 Taipei of run_date is over when it begins.
SlaMetOnlyBeforeAnyFinish ==
    SlaMet = "yes" =>
        \A s \in SourceSet : row[s][LatestDate].finished = NotFinished

\* A nightly batch that started at 03:00 and was done by 07:00 Taipei meets
\* the SLA (openapi.yaml: "true if completed by 07:00 TW").
SlaMetWhenDoneByDeadline ==
    ( /\ batch = <<>> /\ Reported # {}
      /\ TaipeiHour(startedAt) = CronHour
      /\ \A s \in SourceSet :
            row[s][LatestDate].finished \in startedAt .. (startedAt + SlaHour - CronHour) )
    => SlaMet = "yes"

\* The alert counter of a source rises by one with each bad outcome and goes
\* back with an ok one.  Only a rerun moves it otherwise: its row is running
\* again, so a bad day is not counted and an ok day no longer ends the count
\* of the days before it.
BadDaysMove ==
    [][\A s \in SourceSet :
        BadDays(s)' # BadDays(s) =>
            \/ \E d \in Dates : row[s][d].status \notin {"none", "running"}
                                /\ row'[s][d].status = "running"
            \/ \E d \in Dates : row[s][d].status = "running" /\
                  \/ row'[s][d].status = "ok"
                  \/ row'[s][d].status \in Bad /\ BadDays(s)' = BadDays(s) + 1]_statusVars
=============================================================================
