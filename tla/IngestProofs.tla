---------------------------- MODULE IngestProofs ----------------------------
(***************************************************************************)
(* Theorems of PipelineStatus for every list of stages, every clock and    *)
(* any number of runs and deaths, and of the composition of the four       *)
(* components of MCIngest.                                                 *)
(***************************************************************************)
EXTENDS MCIngest, PriceIngestProofs, ChipSourcesProofs

-----------------------------------------------------------------------------
\* A row of a date is finished, if at all, after that date began in UTC: the
\* batch took its date from a clock that only moves on.
Entry(d) ==
    {e \in Row :
        \/ e.finished = NotFinished
        \/ e.status # "none" /\ e.finished \in (24 * d) .. LastHour}

StatusInv ==
    /\ clock \in 0 .. LastHour
    /\ runDate \in Dates /\ 24 * runDate <= clock
    /\ row \in [SourceSet -> [Dates -> Row]]
    /\ \A s \in SourceSet, d \in Dates : row[s][d] \in Entry(d)

\* The clock's invariant holds initially.
LEMMA StatusInvInit == ASSUME StatusConstantsOK PROVE StatusInit => StatusInv
<1>1. FirstHour \in 0 .. LastHour /\ LastHour \in Nat
  BY DEF StatusConstantsOK
<1>2. 0 \in Dates
  BY <1>1 DEF Dates, UtcDate
<1>3. NoRow \in Row /\ \A d : NoRow \in Entry(d)
  BY DEF NoRow, Entry, Row, NotFinished
<1> QED
  BY <1>1, <1>2, <1>3 DEF StatusInit, StatusInv

\* One row of the batch's date changes, to a legal entry.
LEMMA RowWritten ==
    ASSUME StatusInv, NEW source, NEW e \in Entry(runDate),
           row' = [row EXCEPT ![source][runDate] = e],
           UNCHANGED <<clock, runDate>>
    PROVE  StatusInv'
<1>1. e \in Row
  BY DEF Entry
<1>2. row' \in [SourceSet -> [Dates -> Row]]
  BY <1>1 DEF StatusInv
<1>3. ASSUME NEW s \in SourceSet, NEW d \in Dates
      PROVE  row'[s][d] \in Entry(d)
  <2>1. row'[s][d] = IF s = source /\ d = runDate THEN e ELSE row[s][d]
    BY <1>3 DEF StatusInv
  <2> QED
    BY <2>1 DEF StatusInv
<1>4. \A d : Entry(d)' = Entry(d)
  BY DEF Entry
<1> QED
  BY <1>2, <1>3, <1>4 DEF StatusInv

\* Every step of the status component preserves it.
LEMMA StatusStep ==
    ASSUME StatusConstantsOK, StatusInv, [StatusNext]_statusVars
    PROVE  StatusInv'
<1> USE DEF StatusConstantsOK
<1>0. clock \in Nat /\ LastHour \in Nat /\ clock <= LastHour
  BY DEF StatusInv
<1>1. CASE ClockMoves
  <2>1. clock' \in 0 .. LastHour /\ clock <= clock'
    BY <1>0, <1>1 DEF ClockMoves
  <2>2. 24 * runDate <= clock'
    BY <1>0, <2>1 DEF StatusInv, Dates
  <2> QED
    BY <1>1, <2>1, <2>2 DEF ClockMoves, StatusInv
<1>2. CASE StartBatch
  <2>1. UtcDate(clock) \in Dates /\ 24 * UtcDate(clock) <= clock
    BY <1>0 DEF UtcDate, Dates
  <2> QED
    BY <1>2, <2>1 DEF StartBatch, StatusInv
<1>3. CASE Begin
  <2>1. [status |-> "running", finished |-> NotFinished] \in Entry(runDate)
    BY DEF Entry, Row, NotFinished
  <2> QED
    BY <1>3, <2>1, RowWritten DEF Begin
<1>4. ASSUME NEW status \in {"ok"} \union Bad, Record(status)
      PROVE  StatusInv'
  <2>1. clock \in (24 * runDate) .. LastHour
    BY <1>0 DEF StatusInv
  <2>2. status \in {"none", "running", "ok"} \union Bad /\ status # "none"
    BY DEF Bad
  <2>3. [status |-> status, finished |-> clock] \in Entry(runDate)
    BY <1>0, <2>1, <2>2 DEF Entry, Row
  <2> QED
    BY <1>4, <2>3, RowWritten DEF Record
<1>5. CASE UNCHANGED <<clock, row, runDate>>
  BY <1>5 DEF StatusInv
<1> QED
  BY <1>1, <1>2, <1>3, <1>4, <1>5 DEF StatusNext, CronFires, RunNow, Die, statusVars

\* What the page shows of a source of the latest date is that date's row.
LEMMA LatestDateShows ==
    ASSUME StatusConstantsOK, StatusInv, NEW s \in SourceSet,
           LatestDate \in DatesOf(s)
    PROVE  LatestRow(s) = row[s][LatestDate]
<1> DEFINE reported == UNION {DatesOf(t) : t \in Reported}
<1>1. UtcDate(LastHour) \in Nat
  BY DEF UtcDate, StatusConstantsOK
<1>2. DatesOf(s) \subseteq 0 .. UtcDate(LastHour) /\ reported \subseteq 0 .. UtcDate(LastHour)
  BY DEF DatesOf, Dates
<1>3. s \in Reported /\ DatesOf(s) \subseteq reported
  BY DEF Reported
<1>4. LatestDate = Max(reported)
  BY DEF LatestDate
<1> HIDE DEF reported
<1>5. \A d \in DatesOf(s) : d <= LatestDate
  BY <1>1, <1>2, <1>3, <1>4, GreatestExists
<1>6. Max(DatesOf(s)) \in DatesOf(s) /\ LatestDate <= Max(DatesOf(s))
  BY <1>1, <1>2, GreatestExists
<1>7. Max(DatesOf(s)) = LatestDate
  BY <1>2, <1>5, <1>6
<1> QED
  BY <1>7 DEF LatestRow

\* Run dates are UTC dates, so the page can call the deadline met only from
\* the finish times of an earlier date.
THEOREM SlaMetIsYesterdays ==
    ASSUME StatusConstantsOK
    PROVE  StatusSpec => []SlaMetOnlyBeforeAnyFinish
<1>1. ASSUME StatusInv
      PROVE  SlaMetOnlyBeforeAnyFinish
  <2> SUFFICES ASSUME NEW s \in SourceSet, row[s][LatestDate].finished # NotFinished,
                      SlaMet = "yes"
               PROVE  FALSE
    BY DEF SlaMetOnlyBeforeAnyFinish
  <2> DEFINE hour == row[s][LatestDate].finished
  <2>1. FinishTimes # {} /\ Max(FinishTimes) <= Deadline(LatestDate)
    BY DEF SlaMet
  <2>2. FinishTimes \subseteq 0 .. LastHour
    <3>1. ASSUME NEW t \in Reported, LatestRow(t).finished # NotFinished
          PROVE  LatestRow(t).finished \in 0 .. LastHour
      <4>1. t \in SourceSet /\ DatesOf(t) # {} /\ DatesOf(t) \subseteq 0 .. UtcDate(LastHour)
        BY DEF Reported, DatesOf, Dates
      <4>2. UtcDate(LastHour) \in Nat
        BY DEF UtcDate, StatusConstantsOK
      <4>3. Max(DatesOf(t)) \in Dates
        BY <4>1, <4>2, GreatestExists DEF Dates
      <4>4. row[t][Max(DatesOf(t))] \in Entry(Max(DatesOf(t)))
        BY <1>1, <4>1, <4>3 DEF StatusInv
      <4>5. LatestRow(t).finished \in (24 * Max(DatesOf(t))) .. LastHour
        BY <3>1, <4>4 DEF LatestRow, Entry
      <4> QED
        BY <4>3, <4>5 DEF Dates, StatusConstantsOK
    <3> QED
      BY <3>1 DEF FinishTimes
  <2>3. FinishTimes # {} => \E t \in Reported : TRUE
    BY DEF FinishTimes
  <2>4. LatestDate \in Dates
    <3> DEFINE reported == UNION {DatesOf(t) : t \in Reported}
    <3>1. reported # {} /\ reported \subseteq 0 .. UtcDate(LastHour)
      BY <2>1, <2>3 DEF Reported, DatesOf, Dates
    <3>2. UtcDate(LastHour) \in Nat
      BY DEF UtcDate, StatusConstantsOK
    <3>3. LatestDate = Max(reported)
      BY DEF LatestDate
    <3> HIDE DEF reported
    <3> QED
      BY <3>1, <3>2, <3>3, GreatestExists DEF Dates
  <2>5. row[s][LatestDate] \in Entry(LatestDate)
    BY <1>1, <2>4 DEF StatusInv
  <2>6. hour \in (24 * LatestDate) .. LastHour /\ LatestDate \in DatesOf(s)
    BY <2>4, <2>5 DEF Entry, DatesOf
  <2>7. LatestRow(s).finished = hour /\ s \in Reported
    BY <1>1, <2>6, LatestDateShows DEF Reported
  <2>8. hour \in FinishTimes
    BY <2>7 DEF FinishTimes
  <2>9. hour <= Max(FinishTimes) /\ Max(FinishTimes) \in Int
    <3>1. LastHour \in Nat
      BY DEF StatusConstantsOK
    <3>2. Max(FinishTimes) \in FinishTimes /\ \A y \in FinishTimes : y <= Max(FinishTimes)
      BY <2>1, <2>2, <3>1, GreatestExists
    <3>3. Max(FinishTimes) \in 0 .. LastHour
      BY <2>2, <3>2
    <3> HIDE DEF hour
    <3> QED
      BY <2>8, <3>1, <3>2, <3>3
  <2>10. Deadline(LatestDate) < 24 * LatestDate /\ LatestDate \in Int
    BY <2>4 DEF Deadline, Dates, StatusConstantsOK
  <2>11. Deadline(LatestDate) \in Int
    BY <2>4 DEF Deadline, Dates, StatusConstantsOK
  <2>12. hour \in Int /\ 24 * LatestDate <= hour
    BY <2>6, <2>10
  <2> HIDE DEF hour
  <2> QED
    BY <2>1, <2>9, <2>10, <2>11, <2>12
<1>2. StatusInit => StatusInv
  BY StatusInvInit
<1>3. StatusInv /\ [StatusNext]_statusVars => StatusInv'
  BY StatusStep
<1> QED
  BY <1>1, <1>2, <1>3, PTL DEF StatusSpec

-----------------------------------------------------------------------------
(* The batch                                                               *)

\* The stage that has begun is the one whose row is running.
BatchInv ==
    /\ batch \in Seq(SourceSet)
    /\ begun \in BOOLEAN
    /\ startedAt \in 0 .. LastHour
    /\ deaths \in 0 .. MaxDeaths
    /\ begun => batch # <<>> /\ row[Head(batch)][runDate].status = "running"

\* No batch has begun initially.
LEMMA BatchInit == ASSUME StatusConstantsOK PROVE StatusInit => BatchInv
<1>1. 0 \in 0 .. LastHour /\ 0 \in 0 .. MaxDeaths /\ <<>> \in Seq(SourceSet)
  BY DEF StatusConstantsOK
<1> QED
  BY <1>1 DEF StatusInit, BatchInv

\* Every step of the status component preserves the batch's invariant.
LEMMA BatchStep ==
    ASSUME StatusConstantsOK, StatusInv, BatchInv, [StatusNext]_statusVars
    PROVE  BatchInv'
<1>1. CASE ClockMoves
  BY <1>1 DEF ClockMoves, BatchInv
<1>2. CASE StartBatch
  <2>1. begun' = FALSE /\ batch' = Sources /\ Sources \in Seq(SourceSet)
    BY <1>2 DEF StartBatch, BatchInv, StatusConstantsOK
  <2>2. startedAt' \in 0 .. LastHour /\ deaths' = deaths
    BY <1>2 DEF StartBatch, StatusInv
  <2> QED
    BY <2>1, <2>2 DEF BatchInv
<1>3. CASE Begin
  <2>1. Head(batch) \in SourceSet /\ runDate \in Dates
    BY <1>3, HeadTailProperties DEF Begin, BatchInv, StatusInv
  <2>2. row'[Head(batch)][runDate].status = "running"
    BY <1>3, <2>1 DEF Begin, StatusInv
  <2>3. UNCHANGED <<batch, runDate, startedAt, deaths>> /\ batch # <<>> /\ begun' = TRUE
    BY <1>3 DEF Begin
  <2> QED
    BY <2>2, <2>3 DEF BatchInv
<1>4. ASSUME NEW status, Record(status)
      PROVE  BatchInv'
  <2>1. batch # <<>> /\ batch' = Tail(batch) /\ begun' = FALSE /\ UNCHANGED <<startedAt, deaths>>
    BY <1>4 DEF Record
  <2>2. Tail(batch) \in Seq(SourceSet)
    BY <2>1, HeadTailProperties DEF BatchInv
  <2> QED
    BY <2>1, <2>2 DEF BatchInv
<1>5. CASE Die
  <2>1. deaths' \in 0 .. MaxDeaths
    BY <1>5 DEF Die, BatchInv, StatusConstantsOK
  <2>2. batch' = <<>> /\ begun' = FALSE /\ startedAt' = startedAt
    BY <1>5 DEF Die
  <2>3. <<>> \in Seq(SourceSet)
    OBVIOUS
  <2> QED
    BY <2>1, <2>2, <2>3 DEF BatchInv
<1>6. CASE UNCHANGED statusVars
  BY <1>6 DEF statusVars, BatchInv
<1> QED
  BY <1>1, <1>2, <1>3, <1>4, <1>5, <1>6 DEF StatusNext, CronFires, RunNow

\* Both invariants of the batch's rows, together.
LEMMA StatusInvariant ==
    ASSUME StatusConstantsOK
    PROVE  StatusSpec => [](StatusInv /\ BatchInv)
<1>1. StatusInit => StatusInv /\ BatchInv
  BY StatusInvInit, BatchInit
<1>2. StatusInv /\ BatchInv /\ [StatusNext]_statusVars => (StatusInv /\ BatchInv)'
  BY StatusStep, BatchStep
<1> QED
  BY <1>1, <1>2, PTL DEF StatusSpec

\* Every variable keeps its type.
THEOREM StatusTypeCorrect ==
    ASSUME StatusConstantsOK
    PROVE  StatusSpec => []StatusTypeOK
<1>1. StatusInv /\ BatchInv => StatusTypeOK
  BY DEF StatusInv, BatchInv, StatusTypeOK
<1> QED
  BY <1>1, StatusInvariant, PTL

-----------------------------------------------------------------------------
(* The alert counter                                                       *)

\* The days that BadDays counts, of the statuses of one source.
CountedDays(status) ==
    {d \in Dates : status[d] \in Bad /\ \A e \in Dates : e >= d => status[e] # "ok"}

\* The dates are finitely many, so those counted are.
LEMMA CountedDaysFinite ==
    ASSUME StatusConstantsOK, NEW status
    PROVE  IsFiniteSet(CountedDays(status))
<1>1. IsFiniteSet(0 .. UtcDate(LastHour))
  BY FS_Interval DEF UtcDate, StatusConstantsOK
<1>2. CountedDays(status) \subseteq 0 .. UtcDate(LastHour)
  BY DEF CountedDays, Dates
<1> QED
  BY <1>1, <1>2, FS_Subset

\* One row leaves "none" or "running", or goes back there.
LEMMA CounterMoves ==
    ASSUME StatusConstantsOK, NEW old, NEW new, NEW date \in Dates,
           \A d \in Dates : d # date => new[d] = old[d],
           old[date] \in {"none", "running"},
           Cardinality(CountedDays(new)) # Cardinality(CountedDays(old))
    PROVE  \/ new[date] = "ok"
           \/ /\ new[date] \in Bad
              /\ Cardinality(CountedDays(new)) = Cardinality(CountedDays(old)) + 1
<1> SUFFICES ASSUME new[date] # "ok"
             PROVE  /\ new[date] \in Bad
                    /\ Cardinality(CountedDays(new)) = Cardinality(CountedDays(old)) + 1
  OBVIOUS
<1>1. old[date] \notin Bad /\ old[date] # "ok"
  BY DEF Bad
<1>2. \A e \in Dates : new[e] = "ok" <=> old[e] = "ok"
  BY <1>1
<1>3. \A d \in Dates : d # date => (d \in CountedDays(new) <=> d \in CountedDays(old))
  BY <1>2 DEF CountedDays
<1>4. date \notin CountedDays(old)
  BY <1>1 DEF CountedDays
<1>5. CountedDays(old) \subseteq Dates /\ CountedDays(new) \subseteq Dates
  BY DEF CountedDays
<1>6. date \in CountedDays(new)
  <2>1. SUFFICES ASSUME date \notin CountedDays(new)
                 PROVE  CountedDays(new) = CountedDays(old)
    OBVIOUS
  <2> QED
    BY <1>3, <1>4, <1>5, <2>1
<1>7. CountedDays(new) = CountedDays(old) \union {date}
  BY <1>3, <1>5, <1>6
<1>8. Cardinality(CountedDays(new)) = Cardinality(CountedDays(old)) + 1
  BY <1>4, <1>7, CountedDaysFinite, FS_AddElement
<1> QED
  BY <1>6, <1>8 DEF CountedDays

\* The alert counter moves with outcomes, and with reruns only otherwise.
THEOREM AlertCounterMoves ==
    ASSUME StatusConstantsOK
    PROVE  StatusSpec => BadDaysMove
<1> DEFINE statusOf(s) == [d \in Dates |-> row[s][d].status]
           Reruns(s) == \E d \in Dates : row[s][d].status \notin {"none", "running"}
                                         /\ row'[s][d].status = "running"
           Ends(s) == \E d \in Dates : row[s][d].status = "running" /\
                         \/ row'[s][d].status = "ok"
                         \/ row'[s][d].status \in Bad /\ BadDays(s)' = BadDays(s) + 1
           CounterHasReason ==
             \A s \in SourceSet :
               BadDays(s)' # BadDays(s) =>
                   \/ \E d \in Dates : row[s][d].status \notin {"none", "running"}
                                       /\ row'[s][d].status = "running"
                   \/ \E d \in Dates : row[s][d].status = "running" /\
                         \/ row'[s][d].status = "ok"
                         \/ row'[s][d].status \in Bad /\ BadDays(s)' = BadDays(s) + 1
<1>1. ASSUME StatusInv, BatchInv, [StatusNext]_statusVars, NEW s \in SourceSet,
             BadDays(s)' # BadDays(s)
      PROVE  Reruns(s) \/ Ends(s)
  <2> DEFINE old == statusOf(s)
             new == [d \in Dates |-> row'[s][d].status]
  <2>1. /\ BadDays(s) = Cardinality(CountedDays(old))
        /\ BadDays(s)' = Cardinality(CountedDays(new))
    BY DEF BadDays, CountedDays
  <2>2. ASSUME NEW status, batch # <<>>, NEW finished,
               row' = [row EXCEPT ![Head(batch)][runDate] =
                          [status |-> status, finished |-> finished]]
        PROVE  /\ runDate \in Dates /\ new[runDate] = status
               /\ \A d \in Dates : d # runDate => new[d] = old[d]
    <3>1. runDate \in Dates /\ Head(batch) \in SourceSet
      BY <1>1, <2>2, HeadTailProperties DEF StatusInv, BatchInv
    <3>2. row \in [SourceSet -> [Dates -> Row]]
      BY <1>1 DEF StatusInv
    <3>3. CASE s # Head(batch)
      <4>1. row'[s] = row[s]
        BY <2>2, <3>1, <3>2, <3>3
      <4>2. BadDays(s)' = BadDays(s)
        BY <2>1, <4>1
      <4> QED
        BY <1>1, <4>2
    <3>4. CASE s = Head(batch)
      <4>1. row'[s] = [row[s] EXCEPT ![runDate] = [status |-> status, finished |-> finished]]
        BY <2>2, <3>1, <3>2, <3>4
      <4>2. row[s] \in [Dates -> Row]
        BY <3>2
      <4> QED
        BY <3>1, <4>1, <4>2
    <3> QED
      BY <3>3, <3>4
  <2>3. CASE Begin
    <3>1. /\ runDate \in Dates /\ new[runDate] = "running"
          /\ \A d \in Dates : d # runDate => new[d] = old[d]
      BY <2>2, <2>3 DEF Begin
    <3>2. old[runDate] \notin {"none", "running"}
      <4> SUFFICES ASSUME old[runDate] \in {"none", "running"}
                   PROVE  FALSE
        OBVIOUS
      <4>1. new[runDate] = "ok" \/ new[runDate] \in Bad
        <5> HIDE DEF old, new
        <5> QED
          BY <1>1, <2>1, <3>1, CounterMoves
      <4> QED
        BY <3>1, <4>1 DEF Bad
    <3>3. Reruns(s)
      BY <3>1, <3>2
    <3> QED
      BY <3>3
  <2>4. ASSUME NEW status \in {"ok"} \union Bad, Record(status)
        PROVE  Ends(s)
    <3>1. /\ runDate \in Dates /\ new[runDate] = status
          /\ \A d \in Dates : d # runDate => new[d] = old[d]
      BY <2>2, <2>4 DEF Record
    <3>2. s = Head(batch)
      <4>1. row \in [SourceSet -> [Dates -> Row]] /\ Head(batch) \in SourceSet /\ batch # <<>>
        BY <1>1, <2>4, HeadTailProperties DEF StatusInv, BatchInv, Record
      <4>2. s # Head(batch) => row'[s] = row[s]
        BY <2>4, <4>1 DEF Record
      <4>3. row'[s] = row[s] => BadDays(s)' = BadDays(s)
        BY <2>1
      <4> QED
        BY <1>1, <4>2, <4>3
    <3>3. row[s][runDate].status = "running"
      BY <1>1, <2>4, <3>2 DEF BatchInv, Record
    <3>4. old[runDate] = "running"
      BY <3>1, <3>3
    <3>5. \/ new[runDate] = "ok"
          \/ /\ new[runDate] \in Bad
             /\ Cardinality(CountedDays(new)) = Cardinality(CountedDays(old)) + 1
      <4> HIDE DEF old, new
      <4> QED
        BY <1>1, <2>1, <3>1, <3>4, CounterMoves
    <3>6. new[runDate] = row'[s][runDate].status
      BY <3>1
    <3>7. row'[s][runDate].status = "ok" \/ (row'[s][runDate].status \in Bad /\ BadDays(s)' = BadDays(s) + 1)
      <4> HIDE DEF old, new
      <4> QED
        BY <2>1, <3>5, <3>6
    <3> QED
      BY <3>1, <3>3, <3>7
  <2>5. CASE UNCHANGED row
    <3>1. BadDays(s)' = BadDays(s)
      BY <2>1, <2>5
    <3> QED
      BY <1>1, <3>1
  <2> HIDE DEF Reruns, Ends
  <2> QED
    BY <1>1, <2>3, <2>4, <2>5
    DEF StatusNext, ClockMoves, CronFires, RunNow, StartBatch, Die, statusVars
<1>2. StatusInv /\ BatchInv /\ [StatusNext]_statusVars => [CounterHasReason]_statusVars
  BY <1>1
<1> QED
  BY <1>2, StatusInvariant, PTL DEF StatusSpec, BadDaysMove

-----------------------------------------------------------------------------
(* The four components side by side                                        *)

\* Each component behaves, next to the others, as it does alone.
LEMMA PartsBehave ==
    IngestSpec => PriceSpec /\ ChipSpec /\ PositionSpec /\ StatusSpec
<1>1. IngestInit => PriceInit /\ ChipInit /\ PositionInit /\ StatusInit
  BY DEF IngestInit
<1>2. [IngestNext]_ingestVars => [PriceNext]_priceVars
  BY DEF IngestNext, PriceMoves, ChipMoves, PositionMoves, StatusMoves, ingestVars
<1>3. [IngestNext]_ingestVars => [ChipNext]_chipVars
  BY DEF IngestNext, PriceMoves, ChipMoves, PositionMoves, StatusMoves, ingestVars
<1>4. [IngestNext]_ingestVars => [PositionNext]_positionVars
  BY DEF IngestNext, PriceMoves, ChipMoves, PositionMoves, StatusMoves, ingestVars
<1>5. [IngestNext]_ingestVars => [StatusNext]_statusVars
  BY DEF IngestNext, PriceMoves, ChipMoves, PositionMoves, StatusMoves, ingestVars
<1> QED
  BY <1>1, <1>2, <1>3, <1>4, <1>5, PTL
  DEF IngestSpec, PriceSpec, ChipSpec, PositionSpec, StatusSpec

\* Every variable of the four components keeps its type.
THEOREM IngestTypesCorrect == IngestSpec => []IngestTypeOK
<1>1. PriceConstantsOK /\ ChipConstantsOK /\ PositionConstantsOK /\ StatusConstantsOK
  BY IngestConstantsOK
<1>2. PriceTypeOK /\ ChipTypeOK /\ PositionTypeOK /\ StatusTypeOK => IngestTypeOK
  BY DEF IngestTypeOK
<1>3. PriceSpec => []PriceTypeOK
  BY <1>1, PriceTypeCorrect
<1>4. ChipSpec => []ChipTypeOK
  BY <1>1, ChipTypeCorrect
<1>5. PositionSpec => []PositionTypeOK
  BY <1>1, PositionTypeCorrect
<1>6. StatusSpec => []StatusTypeOK
  BY <1>1, StatusTypeCorrect
<1> QED
  BY <1>2, <1>3, <1>4, <1>5, <1>6, PartsBehave, PTL

\* The composition of the adapters implements SourceIngest three times over:
\* every item of a run is settled once, and the verdict is "unavailable"
\* exactly when none succeeded, whatever the other adapters do.
THEOREM SourcesRefinePromise == IngestSpec => SourcesKeepPromise
<1>1. PriceConstantsOK /\ ChipConstantsOK /\ PositionConstantsOK
  BY IngestConstantsOK
<1>2. PriceSpec => PriceKeepsPromise
  BY <1>1, PriceRefinesSource
<1>3. ChipSpec => ChipKeepsPromise
  BY <1>1, ChipRefinesSource
<1>4. PositionSpec => PositionKeepsPromise
  BY <1>1, PositionRefinesSource
<1> QED
  BY <1>2, <1>3, <1>4, PartsBehave, PTL DEF SourcesKeepPromise

\* What the theorems say of each component alone holds of the four together,
\* the specification that the run checks.
THEOREM IngestSafe ==
    IngestSpec =>
        /\ []HolesNeedAnOutage /\ BenchmarksFollowTickers
        /\ []BlendOnlyUndated /\ []FlowSignRight
        /\ []SlaMetOnlyBeforeAnyFinish /\ BadDaysMove
<1>1. PriceConstantsOK /\ ChipConstantsOK /\ PositionConstantsOK /\ StatusConstantsOK
  BY IngestConstantsOK
<1>2. PriceSpec => []HolesNeedAnOutage /\ BenchmarksFollowTickers
  BY <1>1, HolesAreOutages, BenchmarksFollow
<1>3. ChipSpec => []BlendOnlyUndated
  BY <1>1, OnlyUndatedBlend
<1>4. PositionSpec => []FlowSignRight
  BY <1>1, FlowIsRight
<1>5. StatusSpec => []SlaMetOnlyBeforeAnyFinish /\ BadDaysMove
  BY <1>1, SlaMetIsYesterdays, AlertCounterMoves
<1> QED
  BY <1>2, <1>3, <1>4, <1>5, PartsBehave, PTL
=============================================================================
