--------------------------- MODULE PipelineProofs ---------------------------
(***************************************************************************)
(* Theorems of Pipeline for every set of tickers and executions, every     *)
(* list of plain sources and every number of dates, jobs and deaths.       *)
(***************************************************************************)
EXTENDS Pipeline, SequenceTheorems, TLAPS

-----------------------------------------------------------------------------
(* The stages                                                              *)

\* The stages are a sequence that holds gdelt and the engine.
LEMMA StagesAreSources ==
    /\ Stages \in Seq(Sources)
    /\ Len(Stages) \in Nat \ {0} /\ DOMAIN Stages = 1..Len(Stages)
    /\ {"gdelt", "engine"} \subseteq Sources
<1> DEFINE Tail3 == <<"gdelt", "engine", "backtest">>
           All == {"yfinance", "twse_tpex", "edgar_13f", "gdelt", "engine", "backtest"}
<1>1. PlainSources \in Seq(All) /\ Tail3 \in Seq(All)
  <2>1. PlainSources \in Seq({"yfinance", "twse_tpex", "edgar_13f"})
    BY PipelineConstantsOK
  <2> QED
    BY <2>1
<1>2. Stages \in Seq(All)
  BY <1>1, ConcatProperties DEF Stages
<1>3. Len(Stages) = Len(PlainSources) + 3 /\ Len(PlainSources) \in Nat
  <2>1. Len(Stages) = Len(PlainSources) + Len(Tail3)
    BY <1>1, ConcatProperties DEF Stages
  <2> QED
    BY <1>1, <2>1, LenProperties
<1>4. DOMAIN Stages = 1..Len(Stages)
  BY <1>2, LenProperties
<1>5. Stages \in Seq(Sources)
  <2>1. Stages = [i \in 1..Len(Stages) |-> Stages[i]]
    BY <1>2, <1>4
  <2>2. \A i \in 1..Len(Stages) : Stages[i] \in Sources
    BY <1>4 DEF Sources
  <2> QED
    BY <1>3, <2>1, <2>2, IsASeq
<1>6. \A i \in 1..3 : Stages[Len(PlainSources) + i] = Tail3[i]
  BY <1>1, <1>3, ConcatProperties DEF Stages
<1>7. {"gdelt", "engine"} \subseteq Sources
  <2>1. Stages[Len(PlainSources) + 1] = "gdelt" /\ Stages[Len(PlainSources) + 2] = "engine"
    BY <1>6
  <2>2. Len(PlainSources) + 1 \in DOMAIN Stages /\ Len(PlainSources) + 2 \in DOMAIN Stages
    BY <1>3, <1>4
  <2> QED
    BY <2>1, <2>2 DEF Sources
<1> QED
  BY <1>3, <1>4, <1>5, <1>7

-----------------------------------------------------------------------------
(* Type correctness                                                        *)

\* Past its start an execution has a date, what it is about to record is a
\* finished status, a ticker in hand has a lens, and so has a job that is about
\* to score.
TypeInv ==
    /\ TypeOK
    /\ \A p \in Runs : pc[p] # "new" => date[p] \in Dates
    /\ \A p \in Runs : pc[p] = "write" =>
          inHand[p].ticker \in Tickers /\ inHand[p].lens \in {"ok", "missing"}
    /\ \A p \in Runs : pc[p] = "record" => outcome[p].status \in Finished
    /\ job.step # "idle" => job.ticker \in Tickers /\ job.date \in Dates
    /\ job.step = "score" => job.lens \in {"ok", "missing"}

\* Concluding a stage gives a typed outcome.
LEMMA ConcludeTypes ==
    ASSUME TypeInv, NEW p \in Runs, NEW status \in Finished, NEW failed \in SUBSET Tickers,
           Conclude(p, status, failed)
    PROVE  /\ outcome' \in [Runs -> [status : {"none"} \cup Finished, failed : SUBSET Tickers]]
           /\ pc' \in [Runs -> {"new", "begin", "work", "score", "write", "record", "done", "dead"}]
           /\ pc' = [pc EXCEPT ![p] = "record"]
           /\ \A q \in Runs : pc'[q] = "record" => outcome'[q].status \in Finished
BY DEF TypeInv, TypeOK, Conclude, Goto

\* The type invariant in its inductive form.
LEMMA TypeInvariant == Spec => []TypeInv
<1> USE PipelineConstantsOK, StagesAreSources
<1>1. Init => TypeInv
  <2> SUFFICES ASSUME Init
               PROVE  TypeInv
    OBVIOUS
  <2>1. row \in [Dates \X Sources -> [status : {"absent", "running"} \cup Finished,
                                      failed : SUBSET Tickers]]
    BY DEF Init, NoRow
  <2>2. today \in Dates /\ at \in [Runs -> DOMAIN Stages]
    BY DEF Init, Dates
  <2> QED
    BY <2>1, <2>2 DEF Init, TypeInv, TypeOK, Idle, NoOutcome, EmptyHand, Lenses
<1>2. TypeInv /\ [Next]_vars => TypeInv'
  <2> SUFFICES ASSUME TypeInv, [Next]_vars
               PROVE  TypeInv'
    OBVIOUS
  <2> USE DEF TypeInv, TypeOK, Goto, Lenses, stageVars, runVars, jobVars, historyVars
  <2>1. ASSUME NEW p \in Runs, Start(p) \/ Step(p) \/ Die(p)
        PROVE  TypeInv'
    <3> Source(p) \in Sources
      BY DEF Source, Sources
    <3>1. CASE Start(p)
      BY <3>1 DEF Start
    <3>2. CASE Begin(p)
      BY <3>2 DEF Begin
    <3>3. CASE Call(p)
      <4>1. PICK status \in Finished : Conclude(p, status, {})
        BY <3>3 DEF Call, Finished
      <4> QED
        BY <3>3, <4>1, ConcludeTypes DEF Call
    <3>4. CASE Gdelt(p)
      <4>1. PICK ok \in SUBSET covered :
                /\ queried' = queried \cup {<<t, date[p]>> : t \in ok}
                /\ Conclude(p, GdeltOutcome(ok, covered \ ok),
                            IF ok = {} THEN {} ELSE covered \ ok)
        BY <3>4 DEF Gdelt
      <4>2. date[p] \in Dates /\ queried' \in SUBSET (Tickers \X Dates)
        BY <3>4, <4>1 DEF Gdelt
      <4>3. GdeltOutcome(ok, covered \ ok) \in Finished
        BY DEF GdeltOutcome, Finished
      <4>4. (IF ok = {} THEN {} ELSE covered \ ok) \in SUBSET Tickers
        OBVIOUS
      <4>5. /\ outcome' \in [Runs -> [status : {"none"} \cup Finished, failed : SUBSET Tickers]]
            /\ pc' \in [Runs -> {"new", "begin", "work", "score", "write", "record", "done", "dead"}]
            /\ pc' = [pc EXCEPT ![p] = "record"]
            /\ \A q \in Runs : pc'[q] = "record" => outcome'[q].status \in Finished
        BY <4>1, <4>3, <4>4, ConcludeTypes
      <4> QED
        BY <3>4, <4>2, <4>5 DEF Gdelt
    <3>5. CASE List(p)
      BY <3>5 DEF List
    <3>6. ASSUME NEW t \in Tickers, ReadLenses(p, t)
          PROVE  TypeInv'
      <4>1. NewsLens(t, date[p]) \in {"ok", "missing"}
        BY DEF NewsLens
      <4> QED
        BY <3>6, <4>1 DEF ReadLenses
    <3>7. CASE WriteRecommendation(p)
      <4>1. <<inHand[p].ticker, date[p]>> \in Tickers \X Dates
        BY <3>7 DEF WriteRecommendation
      <4>2. rec' \in [Tickers \X Dates -> Lenses]
        BY <3>7, <4>1, inHand[p].lens \in Lenses DEF WriteRecommendation
      <4>3. anyScored' \in [Runs -> BOOLEAN]
        BY <3>7 DEF WriteRecommendation
      <4> QED
        BY <3>7, <4>2, <4>3 DEF WriteRecommendation, EmptyHand
    <3>8. CASE CloseEngine(p)
      <4>1. PICK status \in Finished : Conclude(p, status, {})
        BY <3>8 DEF CloseEngine, Finished
      <4> QED
        BY <3>8, <4>1, ConcludeTypes DEF CloseEngine
    <3>9. CASE StageRaises(p)
      <4>1. PICK status \in Finished : Conclude(p, status, {})
        BY <3>9 DEF StageRaises, Finished
      <4> QED
        BY <3>9, <4>1, ConcludeTypes DEF StageRaises
    <3>10. CASE Record(p)
      <4>1. /\ outcome[p] \in [status : Finished, failed : SUBSET Tickers]
            /\ <<date[p], Source(p)>> \in Dates \X Sources
        BY <3>10 DEF Record
      <4>2. at' \in [Runs -> DOMAIN Stages]
        BY <3>10 DEF Record
      <4>3. row' \in [Dates \X Sources -> [status : {"absent", "running"} \cup Finished,
                                           failed : SUBSET Tickers]]
        BY <3>10, <4>1 DEF Record
      <4>4. pc' = [pc EXCEPT ![p] = IF at[p] = Len(Stages) THEN "done" ELSE "begin"]
        BY <3>10 DEF Record
      <4>5. outcome' = [outcome EXCEPT ![p] = [status |-> "none", failed |-> {}]]
        BY <3>10 DEF Record, NoOutcome
      <4>6. UNCHANGED <<today, covered, rec, date, todo, anyScored, inHand, jobVars, deaths,
                        historyVars>>
        BY <3>10, Zenon DEF Record
      <4>7. \A q \in Runs : pc'[q] = "record" =>
                q # p /\ pc[q] = "record" /\ outcome'[q] = outcome[q]
        BY <4>4, <4>5
      <4>8. \A q \in Runs : (pc'[q] # "new" => date[q] \in Dates)
                             /\ (pc'[q] = "write" => pc[q] = "write")
        BY <3>10, <4>4 DEF Record
      <4>9. TypeOK'
        <5>1. outcome' \in [Runs -> [status : {"none"} \cup Finished, failed : SUBSET Tickers]]
          BY <4>5
        <5>2. pc' \in [Runs -> {"new", "begin", "work", "score", "write", "record",
                                "done", "dead"}]
          BY <4>4
        <5> QED
          BY <4>2, <4>3, <4>6, <5>1, <5>2
      <4>10. \A q \in Runs : pc'[q] = "record" => outcome'[q].status \in Finished
        BY <4>7
      <4>11. \A q \in Runs : pc'[q] # "new" => date'[q] \in Dates
        BY <4>6, <4>8
      <4>12. \A q \in Runs : pc'[q] = "write" =>
                inHand'[q].ticker \in Tickers /\ inHand'[q].lens \in {"ok", "missing"}
        BY <4>6, <4>8
      <4>13. job' = job
        BY <4>6
      <4> HIDE DEF TypeOK
      <4> QED
        BY <4>9, <4>10, <4>11, <4>12, <4>13
    <3>11. CASE Die(p)
      <4>1. deaths' \in 0..MaxDeaths
        BY <3>11 DEF Die
      <4>2. pc' = [pc EXCEPT ![p] = "dead"] /\ pc[p] # "new"
        BY <3>11 DEF Die, Active
      <4> QED
        BY <3>11, <4>1, <4>2 DEF Die
    <3> QED
      BY <2>1, <3>1, <3>2, <3>3, <3>4, <3>5, <3>6, <3>7, <3>8, <3>9, <3>10, <3>11 DEF Step
  <2>2. CASE OnDemand
    <3>1. ASSUME NEW t \in Tickers, TakeJob(t)
          PROVE  TypeInv'
      BY <3>1 DEF TakeJob
    <3>2. CASE Promote
      BY <3>2 DEF Promote
    <3>3. CASE FetchNews
      BY <3>3 DEF FetchNews
    <3>4. CASE ScoreJob
      BY <3>4 DEF ScoreJob, Idle
    <3>5. CASE JobEnds
      BY <3>5 DEF JobEnds, Idle
    <3> QED
      BY <2>2, <3>1, <3>2, <3>3, <3>4, <3>5 DEF OnDemand
  <2>3. CASE Midnight
    BY <2>3 DEF Midnight, Dates
  <2>4. CASE UNCHANGED vars
    BY <2>4 DEF vars
  <2> QED
    BY <2>1, <2>2, <2>3, <2>4 DEF Next
<1> QED
  BY <1>1, <1>2, PTL DEF Spec

\* Every variable of the pipeline keeps its type.
THEOREM PipelineTypeCorrect == Spec => []TypeOK
<1>1. TypeInv => TypeOK
  BY DEF TypeInv
<1> QED
  BY <1>1, TypeInvariant, PTL

-----------------------------------------------------------------------------
(* An ok news lens rests on a query                                        *)

\* t was in the pool before date d began, or is not in it yet.
Member(t, d) == \A e \in Dates : <<t, e>> \in joined => e < d

\* Nothing is dated in the future.
DateInv ==
    /\ \A p \in Runs : date[p] <= today
    /\ job.date <= today
    /\ \A d \in Dates, s \in Sources : today < d => row[<<d, s>>].status = "absent"

\* What the gdelt row says of a member of the pool is true.
RowEvidence ==
    \A t \in covered, d \in Dates :
        row[<<d, "gdelt">>].status = "ok" /\ Member(t, d) =>
            t \in row[<<d, "gdelt">>].failed \/ <<t, d>> \in queried

\* So is what an execution is about to write into it.
OutcomeEvidence ==
    \A p \in Runs, t \in covered :
        pc[p] = "record" /\ Source(p) = "gdelt" /\ outcome[p].status = "ok"
            /\ Member(t, date[p]) =>
            t \in outcome[p].failed \/ <<t, date[p]>> \in queried

\* A lens that was read ok has its evidence still, however the row changed.
HandEvidence ==
    /\ \A p \in Runs : pc[p] = "write" /\ inHand[p].lens = "ok"
                           /\ Member(inHand[p].ticker, date[p]) =>
          <<inHand[p].ticker, date[p]>> \in queried
    /\ job.step = "score" /\ job.lens = "ok" => <<job.ticker, job.date>> \in queried

EvidenceInv ==
    /\ DateInv /\ RowEvidence /\ OutcomeEvidence /\ HandEvidence
    /\ \A p \in Runs : todo[p] \subseteq covered
    /\ \A p \in Runs : pc[p] \in {"score", "write"} => Source(p) = "engine"
    /\ MembersNewsHasEvidence

\* The evidence invariant.  It needs the types.
LEMMA EvidenceInvariant == Spec => []EvidenceInv
<1> USE StagesAreSources DEF Dates
<1>1. Init => EvidenceInv
  BY PipelineConstantsOK DEF Init, EvidenceInv, DateInv, RowEvidence, OutcomeEvidence,
     HandEvidence, MembersNewsHasEvidence, NoRow, Idle
<1>2. TypeInv /\ EvidenceInv /\ [Next]_vars => EvidenceInv'
  <2> SUFFICES ASSUME TypeInv, EvidenceInv, [Next]_vars
               PROVE  EvidenceInv'
    OBVIOUS
  <2> today \in Nat /\ (\A p \in Runs : date[p] \in Nat) /\ job.date \in Nat
    BY PipelineConstantsOK DEF TypeInv, TypeOK
  <2> USE DEF EvidenceInv, DateInv, RowEvidence, OutcomeEvidence, HandEvidence,
              MembersNewsHasEvidence, Member, Source, Goto, stageVars, runVars, jobVars,
              historyVars
  <2>1. ASSUME NEW p \in Runs, Start(p) \/ Step(p) \/ Die(p)
        PROVE  EvidenceInv'
    <3>1. CASE Start(p)
      BY <3>1 DEF Start, TypeInv, TypeOK
    <3>2. CASE Begin(p)
      BY <3>2 DEF Begin, TypeInv, TypeOK
    <3>3. CASE Call(p)
      BY <3>3 DEF Call, Conclude, TypeInv, TypeOK
    <3>4. CASE Gdelt(p)
      BY <3>4 DEF Gdelt, GdeltOutcome, Conclude, TypeInv, TypeOK
    <3>5. CASE List(p)
      BY <3>5 DEF List, TypeInv, TypeOK
    <3>6. ASSUME NEW t \in Tickers, ReadLenses(p, t)
          PROVE  EvidenceInv'
      <4>1. /\ UNCHANGED <<today, covered, row, rec, at, date, outcome, job, queried, joined>>
            /\ pc[p] = "score" /\ t \in todo[p]
            /\ pc' = [pc EXCEPT ![p] = "write"] /\ todo' = [todo EXCEPT ![p] = todo[p] \ {t}]
            /\ inHand' = [inHand EXCEPT ![p] = [ticker |-> t, lens |-> NewsLens(t, date[p])]]
        BY <3>6 DEF ReadLenses
      <4>2. DateInv' /\ RowEvidence' /\ OutcomeEvidence' /\ MembersNewsHasEvidence'
        BY <4>1 DEF TypeInv, TypeOK
      <4>3. HandEvidence'
        <5>1. NewsLens(t, date[p]) = "ok" /\ Member(t, date[p]) => <<t, date[p]>> \in queried
          BY <4>1 DEF NewsLens, TypeInv
        <5> QED
          BY <4>1, <5>1 DEF TypeInv, TypeOK
      <4> QED
        BY <4>1, <4>2, <4>3 DEF TypeInv, TypeOK
    <3>7. CASE WriteRecommendation(p)
      <4>1. /\ UNCHANGED <<today, covered, row, at, date, todo, outcome, job, queried, joined>>
            /\ pc[p] = "write" /\ pc' = [pc EXCEPT ![p] = "score"]
            /\ inHand' = [inHand EXCEPT ![p] = EmptyHand]
        BY <3>7 DEF WriteRecommendation
      <4>2. DateInv' /\ RowEvidence' /\ OutcomeEvidence'
        BY <4>1 DEF TypeInv, TypeOK
      <4>3. HandEvidence'
        BY <4>1 DEF TypeInv, TypeOK
      <4>4. MembersNewsHasEvidence'
        <5>1. \A t \in Tickers, d \in Dates :
                  rec'[<<t, d>>] = "ok" =>
                      \/ rec[<<t, d>>] = "ok"
                      \/ inHand[p].lens = "ok" /\ t = inHand[p].ticker /\ d = date[p]
          BY <3>7 DEF WriteRecommendation, TypeInv, TypeOK
        <5> QED
          BY ZenonT(40), <4>1, <5>1
      <4> QED
        BY <4>1, <4>2, <4>3, <4>4 DEF TypeInv, TypeOK
    <3>8. CASE CloseEngine(p)
      BY <3>8 DEF CloseEngine, Conclude, TypeInv, TypeOK
    <3>9. CASE StageRaises(p)
      BY <3>9 DEF StageRaises, Conclude, TypeInv, TypeOK
    <3>10. CASE Record(p)
      <4>1. /\ UNCHANGED <<today, covered, rec, date, todo, inHand, job, queried, joined>>
            /\ pc[p] = "record" /\ pc'[p] \in {"begin", "done"}
            /\ \A q \in Runs \ {p} : pc'[q] = pc[q] /\ at'[q] = at[q] /\ outcome'[q] = outcome[q]
        BY <3>10 DEF Record, TypeInv, TypeOK
      <4>2. \A d \in Dates, s \in Sources :
                row'[<<d, s>>] = IF d = date[p] /\ s = Source(p) THEN outcome[p] ELSE row[<<d, s>>]
        BY <3>10 DEF Record, TypeInv, TypeOK
      <4>3. DateInv'
        BY <4>1, <4>2
      <4>4. RowEvidence'
        BY <4>1, <4>2
      <4>5. OutcomeEvidence' /\ HandEvidence'
        BY <4>1
      <4> QED
        BY <4>1, <4>3, <4>4, <4>5
    <3>11. CASE Die(p)
      BY <3>11 DEF Die, TypeInv, TypeOK
    <3> QED
      BY <2>1, <3>1, <3>2, <3>3, <3>4, <3>5, <3>6, <3>7, <3>8, <3>9, <3>10, <3>11 DEF Step
  <2>2. CASE OnDemand
    <3>1. ASSUME NEW t \in Tickers, TakeJob(t)
          PROVE  EvidenceInv'
      BY <3>1 DEF TakeJob
    <3>2. CASE Promote
      <4>1. /\ UNCHANGED <<today, row, rec, pc, at, date, todo, inHand, outcome, queried>>
            /\ covered' = covered \cup {job.ticker} /\ job'.date = job.date /\ job'.step = "fetch"
        BY <3>2 DEF Promote
      <4>2. /\ job.ticker \notin covered => joined' = joined \cup {<<job.ticker, today>>}
            /\ joined \subseteq joined'
        BY <3>2 DEF Promote
      <4>3. \A t \in Tickers, d \in Dates : Member(t, d)' => Member(t, d)
        BY <4>2
      <4>4. \A t \in covered', d \in Dates : t \notin covered /\ Member(t, d)' => today < d
        <5> SUFFICES ASSUME NEW t \in covered', NEW d \in Dates, t \notin covered, Member(t, d)'
                     PROVE  today < d
          OBVIOUS
        <5>1. t = job.ticker
          BY <4>1
        <5>2. <<t, today>> \in joined'
          BY <4>2, <5>1
        <5>3. today \in Dates
          BY DEF TypeInv, TypeOK
        <5> QED
          BY <5>2, <5>3
      <4>5. covered' \subseteq Tickers /\ covered \subseteq covered'
        BY <3>2, <4>1 DEF Promote, TypeInv, TypeOK
      <4> HIDE DEF Member
      <4>6. RowEvidence'
        <5> SUFFICES ASSUME NEW t \in covered', NEW d \in Dates,
                            row[<<d, "gdelt">>].status = "ok", Member(t, d)'
                     PROVE  t \in row[<<d, "gdelt">>].failed \/ <<t, d>> \in queried
          BY <4>1
        <5>1. row[<<d, "gdelt">>].status # "absent"
          OBVIOUS
        <5>2. ~(today < d)
          BY <5>1
        <5>3. t \in covered /\ Member(t, d)
          BY <4>1, <4>3, <4>4, <4>5, <5>2
        <5> QED
          BY <5>3
      <4>7. OutcomeEvidence'
        <5> SUFFICES ASSUME NEW p \in Runs, NEW t \in covered',
                            pc[p] = "record", Source(p) = "gdelt", outcome[p].status = "ok",
                            Member(t, date[p])'
                     PROVE  t \in outcome[p].failed \/ <<t, date[p]>> \in queried
          BY <4>1
        <5>1. date[p] \in Dates /\ ~(today < date[p])
          BY DEF TypeInv
        <5>2. PICK d \in Dates : d = date[p]
          BY <5>1
        <5>3. Member(t, d)'
          BY <4>1, <5>2 DEF Member
        <5>4. t \in covered /\ Member(t, d)
          BY <4>3, <4>4, <4>5, <5>1, <5>2, <5>3
        <5> QED
          BY <5>2, <5>4
      <4>8. HandEvidence'
        <5>1. \A p \in Runs : pc[p] = "write" => inHand[p].ticker \in Tickers /\ date[p] \in Dates
          BY DEF TypeInv
        <5> QED
          BY <4>1, <4>3, <5>1
      <4>9. MembersNewsHasEvidence'
        BY <4>1, <4>3 DEF Member
      <4>10. DateInv'
        BY <4>1
      <4> QED
        BY <4>1, <4>5, <4>6, <4>7, <4>8, <4>9, <4>10
    <3>3. CASE FetchNews
      BY <3>3 DEF FetchNews
    <3>4. CASE ScoreJob
      <4>1. /\ UNCHANGED <<today, covered, row, pc, at, date, todo, inHand, outcome, queried, joined>>
            /\ job' = Idle /\ job.step = "score"
        BY <3>4 DEF ScoreJob
      <4>2. \A t \in Tickers, d \in Dates :
                rec'[<<t, d>>] = "ok" =>
                    rec[<<t, d>>] = "ok" \/ (job.lens = "ok" /\ t = job.ticker /\ d = job.date)
        BY <3>4 DEF ScoreJob, TypeInv, TypeOK
      <4>3. MembersNewsHasEvidence'
        BY <4>1, <4>2
      <4>4. DateInv' /\ RowEvidence' /\ OutcomeEvidence' /\ HandEvidence'
        BY <4>1 DEF Idle
      <4> QED
        BY <4>1, <4>3, <4>4
    <3>5. CASE JobEnds
      BY <3>5 DEF JobEnds, Idle
    <3> QED
      BY <2>2, <3>1, <3>2, <3>3, <3>4, <3>5 DEF OnDemand
  <2>3. CASE Midnight
    BY <2>3 DEF Midnight
  <2>4. CASE UNCHANGED vars
    BY <2>4 DEF vars
  <2> QED
    BY <2>1, <2>2, <2>3, <2>4 DEF Next
<1> QED
  BY <1>1, <1>2, TypeInvariant, PTL DEF Spec

\* For a ticker that was in the pool before the date began, an ok news lens
\* rests on a query of that ticker that succeeded for that date.
THEOREM MembersHaveEvidence == Spec => []MembersNewsHasEvidence
<1>1. EvidenceInv => MembersNewsHasEvidence
  BY DEF EvidenceInv
<1> QED
  BY <1>1, EvidenceInvariant, PTL

-----------------------------------------------------------------------------
(* An ok engine row has recommendations                                    *)

Scored(d) == \E t \in Tickers : rec[<<t, d>>] # "none"

\* Whoever counted a ticker, or is about to report that one was counted, left
\* a recommendation of his date.
EngineInv ==
    /\ \A p \in Runs : pc[p] \in {"score", "write"} /\ anyScored[p] => Scored(date[p])
    /\ \A p \in Runs : pc[p] = "record" /\ Source(p) = "engine" /\ outcome[p].status = "ok" =>
          Scored(date[p])
    /\ \A d \in Dates : row[<<d, "engine">>].status = "ok" => Scored(d)

\* No step takes a recommendation away.
LEMMA RecommendationsStay ==
    ASSUME TypeInv, [Next]_vars, NEW d \in Dates, Scored(d)
    PROVE  Scored(d)'
<1> USE DEF Scored
<1>1. PICK t \in Tickers : rec[<<t, d>>] # "none"
  OBVIOUS
<1> SUFFICES rec'[<<t, d>>] # "none"
  OBVIOUS
<1>2. ASSUME NEW p \in Runs, WriteRecommendation(p)
      PROVE  rec'[<<t, d>>] # "none"
  BY ZenonT(40), <1>1, <1>2 DEF WriteRecommendation, TypeInv, TypeOK
<1>3. CASE ScoreJob
  BY <1>1, <1>3 DEF ScoreJob, TypeInv, TypeOK
<1>4. (\E p \in Runs : WriteRecommendation(p)) \/ ScoreJob \/ rec' = rec
  BY DEF Next, Step, OnDemand, Start, Begin, Call, Gdelt, List, ReadLenses, CloseEngine,
     StageRaises, Record, Die, TakeJob, Promote, FetchNews, JobEnds, Midnight, vars
<1> QED
  BY <1>1, <1>2, <1>3, <1>4

\* Counting, reporting and recording keep to the recommendations there are.
LEMMA EngineInvariant == Spec => []EngineInv
<1> USE StagesAreSources
<1>1. Init => EngineInv
  BY DEF Init, EngineInv, NoRow
<1>2. TypeInv /\ EngineInv /\ [Next]_vars => EngineInv'
  <2> SUFFICES ASSUME TypeInv, EngineInv, [Next]_vars
               PROVE  EngineInv'
    OBVIOUS
  <2>1. \A d \in Dates : Scored(d) => Scored(d)'
    BY RecommendationsStay
  <2> USE DEF EngineInv, Source, Goto, stageVars, runVars, jobVars, historyVars
  <2> HIDE DEF Scored
  <2>2. ASSUME NEW p \in Runs, Start(p) \/ Step(p) \/ Die(p)
        PROVE  EngineInv'
    <3>1. CASE Start(p)
      BY <2>1, <3>1 DEF Start, TypeInv, TypeOK
    <3>2. CASE Begin(p)
      BY <2>1, <3>2 DEF Begin, TypeInv, TypeOK
    <3>3. CASE Call(p)
      BY <2>1, <3>3 DEF Call, Conclude, TypeInv, TypeOK
    <3>4. CASE Gdelt(p)
      BY <2>1, <3>4 DEF Gdelt, Conclude, TypeInv, TypeOK
    <3>5. CASE List(p)
      BY <2>1, <3>5 DEF List, TypeInv, TypeOK
    <3>6. ASSUME NEW t \in Tickers, ReadLenses(p, t)
          PROVE  EngineInv'
      BY <2>1, <3>6 DEF ReadLenses, TypeInv, TypeOK
    <3>7. CASE WriteRecommendation(p)
      <4>1. anyScored'[p] => Scored(date[p])'
        BY <2>1, <3>7 DEF WriteRecommendation, Scored, TypeInv, TypeOK
      <4> QED
        BY <2>1, <3>7, <4>1 DEF WriteRecommendation, TypeInv, TypeOK
    <3>8. CASE CloseEngine(p)
      BY <2>1, <3>8 DEF CloseEngine, Conclude, TypeInv, TypeOK
    <3>9. CASE StageRaises(p)
      BY <2>1, <3>9 DEF StageRaises, Conclude, TypeInv, TypeOK
    <3>10. CASE Record(p)
      BY <2>1, <3>10 DEF Record, TypeInv, TypeOK
    <3>11. CASE Die(p)
      BY <2>1, <3>11 DEF Die, TypeInv, TypeOK
    <3> QED
      BY <2>2, <3>1, <3>2, <3>3, <3>4, <3>5, <3>6, <3>7, <3>8, <3>9, <3>10, <3>11 DEF Step
  <2>3. CASE OnDemand
    BY <2>1, <2>3 DEF OnDemand, TakeJob, Promote, FetchNews, ScoreJob, JobEnds,
       TypeInv
  <2>4. CASE Midnight
    BY <2>1, <2>4 DEF Midnight, TypeInv
  <2>5. CASE UNCHANGED vars
    BY <2>1, <2>5 DEF vars, TypeInv
  <2> QED
    BY <2>2, <2>3, <2>4, <2>5 DEF Next
<1> QED
  BY <1>1, <1>2, TypeInvariant, PTL DEF Spec

\* A date whose engine row is ok has a recommendation.
THEOREM OkEngineLeftSnapshot == Spec => []EngineOkMeansSnapshot
<1>1. EngineInv => EngineOkMeansSnapshot
  BY DEF EngineInv, EngineOkMeansSnapshot, Scored
<1> QED
  BY <1>1, EngineInvariant, PTL

-----------------------------------------------------------------------------
(* The rows settle                                                         *)

Working == {"work", "score", "write", "record"}

\* Every stage an execution began has its row.
RowsBegun ==
    \A p \in Runs, i \in DOMAIN Stages :
        pc[p] # "new" /\ (i < at[p] \/ (i = at[p] /\ pc[p] \in Working \cup {"done"})) =>
            row[<<date[p], Stages[i]>>].status # "absent"

\* A row that reads running has an execution that is at it, or died at it.
RunningHasOwner ==
    \A d \in Dates, s \in Sources : row[<<d, s>>].status = "running" =>
        \E p \in Runs : date[p] = d /\ Source(p) = s /\ pc[p] \in Working \cup {"dead"}

SettleInv ==
    /\ RowsBegun /\ RunningHasOwner
    /\ \A p \in Runs : pc[p] = "new" => at[p] = 1
    /\ \A p \in Runs : pc[p] = "done" => at[p] = Len(Stages)

\* A step that moves one execution on within its stage keeps the rows right.
LEMMA WithinStage ==
    ASSUME TypeInv, SettleInv, NEW p \in Runs, UNCHANGED <<row, at, date>>,
           NEW label \in Working \cup {"dead"}, pc' = [pc EXCEPT ![p] = label],
           pc[p] \in Working \/ (label = "dead" /\ pc[p] # "new")
    PROVE  SettleInv'
BY DEF SettleInv, RowsBegun, RunningHasOwner, TypeInv, TypeOK, Working, Source

\* Begin and Record are the only steps that touch a row.
LEMMA SettleInvariant == Spec => []SettleInv
<1> USE StagesAreSources
<1>1. Init => SettleInv
  BY DEF Init, SettleInv, RowsBegun, RunningHasOwner, NoRow, Working
<1>2. TypeInv /\ SettleInv /\ [Next]_vars => SettleInv'
  <2> SUFFICES ASSUME TypeInv, SettleInv, [Next]_vars
               PROVE  SettleInv'
    OBVIOUS
  <2> USE DEF Goto, stageVars, runVars, jobVars, historyVars
  <2>1. ASSUME NEW p \in Runs, Start(p) \/ Step(p) \/ Die(p)
        PROVE  SettleInv'
    <3>1. CASE Start(p)
      <4>1. /\ UNCHANGED <<row, at>> /\ pc[p] = "new" /\ pc' = [pc EXCEPT ![p] = "begin"]
            /\ \A q \in Runs \ {p} : date'[q] = date[q]
        BY <3>1 DEF Start, TypeInv, TypeOK
      <4>2. at[p] = 1
        BY <4>1 DEF SettleInv
      <4>3. RowsBegun'
        BY <4>1, <4>2 DEF TypeInv, TypeOK, SettleInv, RowsBegun, Working
      <4>4. RunningHasOwner'
        <5> SUFFICES ASSUME NEW d \in Dates, NEW s \in Sources, row[<<d, s>>].status = "running"
                     PROVE  \E q \in Runs : date'[q] = d /\ Source(q)' = s
                                             /\ pc'[q] \in Working \cup {"dead"}
          BY <4>1 DEF RunningHasOwner
        <5>1. PICK q \in Runs : date[q] = d /\ Source(q) = s /\ pc[q] \in Working \cup {"dead"}
          BY DEF SettleInv, RunningHasOwner
        <5>2. q # p /\ Source(q)' = Source(q)
          BY <4>1, <5>1 DEF Working, Source
        <5>3. pc'[q] = pc[q] /\ date'[q] = date[q]
          BY <4>1, <5>2 DEF TypeInv, TypeOK
        <5> QED
          BY <5>1, <5>2, <5>3
      <4> QED
        BY <4>1, <4>3, <4>4 DEF TypeInv, TypeOK, SettleInv
    <3>2. CASE Begin(p)
      <4>1. /\ UNCHANGED <<at, date>> /\ pc[p] = "begin" /\ pc' = [pc EXCEPT ![p] = "work"]
            /\ <<date[p], Source(p)>> \in Dates \X Sources
            /\ row' = [row EXCEPT ![<<date[p], Source(p)>>] = [status |-> "running", failed |-> {}]]
        BY <3>2 DEF Begin, TypeInv, TypeOK, Source, Sources
      <4>2. \A d \in Dates, s \in Sources :
                row'[<<d, s>>] = IF d = date[p] /\ s = Source(p)
                                 THEN [status |-> "running", failed |-> {}] ELSE row[<<d, s>>]
        BY <4>1 DEF TypeInv, TypeOK
      <4>3. RowsBegun'
        <5>1. \A q \in Runs, i \in DOMAIN Stages :
                  pc[q] # "new" => date[q] \in Dates /\ Stages[i] \in Sources
          BY DEF TypeInv, Sources
        <5>2. ASSUME NEW q \in Runs, NEW i \in DOMAIN Stages, pc'[q] # "new",
                     i < at[q] \/ (i = at[q] /\ pc'[q] \in Working \cup {"done"})
              PROVE  \/ q = p /\ i = at[p]
                     \/ pc[q] # "new" /\ (i < at[q] \/ (i = at[q] /\ pc[q] \in Working \cup {"done"}))
          <6>1. q # p => pc'[q] = pc[q]
            BY <4>1 DEF TypeInv, TypeOK
          <6> QED
            BY <4>1, <5>2, <6>1
        <5>3. \A q \in Runs, i \in DOMAIN Stages : pc[q] # "new" =>
                  (row[<<date[q], Stages[i]>>].status # "absent" =>
                      row'[<<date[q], Stages[i]>>].status # "absent")
          BY <4>1, <4>2, <5>1
        <5>4. row'[<<date[p], Stages[at[p]]>>].status # "absent"
          BY <4>1, <4>2 DEF Source
        <5>5. ASSUME NEW q \in Runs, NEW i \in DOMAIN Stages, pc'[q] # "new",
                     i < at[q] \/ (i = at[q] /\ pc'[q] \in Working \cup {"done"})
              PROVE  row'[<<date[q], Stages[i]>>].status # "absent"
          <6>1. CASE q = p /\ i = at[p]
            BY <5>4, <6>1
          <6>2. CASE pc[q] # "new" /\ (i < at[q] \/ (i = at[q] /\ pc[q] \in Working \cup {"done"}))
            <7>1. row[<<date[q], Stages[i]>>].status # "absent"
              BY <6>2 DEF SettleInv, RowsBegun
            <7> QED
              BY <5>3, <6>2, <7>1
          <6> QED
            BY <5>2, <5>5, <6>1, <6>2
        <5> QED
          BY <4>1, <5>5 DEF RowsBegun
      <4>4. RunningHasOwner'
        BY <4>1, <4>2 DEF TypeInv, TypeOK, SettleInv, RunningHasOwner, Working, Source
      <4> QED
        BY <4>1, <4>3, <4>4 DEF TypeInv, TypeOK, SettleInv
    <3>3. CASE Call(p)
      BY <3>3, WithinStage DEF Call, Conclude, Working
    <3>4. CASE Gdelt(p)
      BY <3>4, WithinStage DEF Gdelt, Conclude, Working
    <3>5. CASE List(p)
      BY <3>5, WithinStage DEF List, Working
    <3>6. ASSUME NEW t \in Tickers, ReadLenses(p, t)
          PROVE  SettleInv'
      BY <3>6, WithinStage DEF ReadLenses, Working
    <3>7. CASE WriteRecommendation(p)
      BY <3>7, WithinStage DEF WriteRecommendation, Working
    <3>8. CASE CloseEngine(p)
      BY <3>8, WithinStage DEF CloseEngine, Conclude, Working
    <3>9. CASE StageRaises(p)
      BY <3>9, WithinStage DEF StageRaises, Conclude, Working
    <3>10. CASE Record(p)
      <4>1. /\ UNCHANGED date /\ pc[p] = "record" /\ outcome[p].status \in Finished
            /\ <<date[p], Source(p)>> \in Dates \X Sources
        BY <3>10 DEF Record, TypeInv, TypeOK, Source, Sources
      <4>2. \A d \in Dates, s \in Sources :
                row'[<<d, s>>] = IF d = date[p] /\ s = Source(p) THEN outcome[p] ELSE row[<<d, s>>]
        BY <3>10 DEF Record, TypeInv, TypeOK
      <4>3. IF at[p] = Len(Stages)
            THEN pc' = [pc EXCEPT ![p] = "done"] /\ at' = at
            ELSE pc' = [pc EXCEPT ![p] = "begin"] /\ at' = [at EXCEPT ![p] = at[p] + 1]
        BY <3>10 DEF Record
      <4>4. RowsBegun'
        <5>1. \A q \in Runs, i \in DOMAIN Stages :
                  pc[q] # "new" => date[q] \in Dates /\ Stages[i] \in Sources
          BY DEF TypeInv, Sources
        <5>2. ASSUME NEW q \in Runs, NEW i \in DOMAIN Stages, pc'[q] # "new",
                     i < at'[q] \/ (i = at'[q] /\ pc'[q] \in Working \cup {"done"})
              PROVE  pc[q] # "new" /\ (i < at[q] \/ (i = at[q] /\ pc[q] \in Working \cup {"done"}))
          BY <4>1, <4>3, <5>2 DEF TypeInv, TypeOK, Working
        <5>3. \A q \in Runs, i \in DOMAIN Stages : pc[q] # "new" =>
                  (row[<<date[q], Stages[i]>>].status # "absent" =>
                      row'[<<date[q], Stages[i]>>].status # "absent")
          BY <4>1, <4>2, <5>1 DEF Finished
        <5> QED
          BY <4>1, <5>2, <5>3 DEF SettleInv, RowsBegun
      <4>5. RunningHasOwner'
        <5>1. ASSUME NEW d \in Dates, NEW s \in Sources, row'[<<d, s>>].status = "running"
              PROVE  row[<<d, s>>].status = "running" /\ ~(d = date[p] /\ s = Source(p))
          BY <4>1, <4>2, <5>1 DEF Finished
        <5>2. \A q \in Runs \ {p} : pc'[q] = pc[q] /\ at'[q] = at[q]
          BY <4>3 DEF TypeInv, TypeOK
        <5> QED
          BY <4>1, <5>1, <5>2 DEF SettleInv, RunningHasOwner, Source
      <4>6. \A q \in Runs \ {p} : pc'[q] = pc[q] /\ at'[q] = at[q]
        BY <4>3 DEF TypeInv, TypeOK
      <4>7. pc'[p] # "new" /\ (pc'[p] = "done" => at'[p] = Len(Stages))
        BY <4>3 DEF TypeInv, TypeOK
      <4> QED
        BY <4>4, <4>5, <4>6, <4>7 DEF SettleInv
    <3>11. CASE Die(p)
      BY <3>11, WithinStage DEF Die, Active
    <3> QED
      BY <2>1, <3>1, <3>2, <3>3, <3>4, <3>5, <3>6, <3>7, <3>8, <3>9, <3>10, <3>11 DEF Step
  <2>2. CASE OnDemand
    BY <2>2 DEF OnDemand, TakeJob, Promote, FetchNews, ScoreJob, JobEnds, SettleInv, RowsBegun,
       RunningHasOwner, Source
  <2>3. CASE Midnight
    BY <2>3 DEF Midnight, SettleInv, RowsBegun, RunningHasOwner, Source
  <2>4. CASE UNCHANGED vars
    BY <2>4 DEF vars, SettleInv, RowsBegun, RunningHasOwner, Source
  <2> QED
    BY <2>1, <2>2, <2>3, <2>4 DEF Next
<1> QED
  BY <1>1, <1>2, TypeInvariant, PTL DEF Spec

\* When every execution of a date came to its end, each stage has a finished
\* row of that date.
THEOREM StagesSettle == Spec => []RowsSettle
<1>1. TypeInv /\ SettleInv => RowsSettle
  <2> SUFFICES ASSUME TypeInv, SettleInv, NEW d \in Dates, NEW p \in Runs, date[p] = d,
                      \A q \in Runs : date[q] = d => pc[q] = "done",
                      NEW s \in Sources
               PROVE  row[<<d, s>>].status \in Finished
    BY DEF RowsSettle
  <2>1. PICK i \in DOMAIN Stages : Stages[i] = s
    BY DEF Sources
  <2>2. row[<<d, s>>].status # "absent"
    BY <2>1, StagesAreSources DEF SettleInv, RowsBegun
  <2>3. row[<<d, s>>].status # "running"
    BY DEF SettleInv, RunningHasOwner, Working
  <2> QED
    BY <2>2, <2>3 DEF TypeInv, TypeOK
<1> QED
  BY <1>1, TypeInvariant, SettleInvariant, PTL

-----------------------------------------------------------------------------
(* An execution by itself                                                  *)

GdeltAt == Len(PlainSources) + 1

\* The places of gdelt and of the engine are theirs alone.
LEMMA StagePlaces ==
    /\ GdeltAt \in DOMAIN Stages /\ GdeltAt \in Nat \ {0}
    /\ \A i \in DOMAIN Stages : Stages[i] = "gdelt" <=> i = GdeltAt
    /\ \A i \in DOMAIN Stages : Stages[i] = "engine" <=> i = GdeltAt + 1
<1> DEFINE Plain == {"yfinance", "twse_tpex", "edgar_13f"}
           Rest == <<"gdelt", "engine", "backtest">>
           All == Plain \cup {"gdelt", "engine", "backtest"}
<1>1. PlainSources \in Seq(Plain) /\ PlainSources \in Seq(All) /\ Rest \in Seq(All) /\ Len(Rest) = 3
  <2>1. PlainSources \in Seq(Plain)
    BY PipelineConstantsOK
  <2> QED
    BY <2>1
<1>2. Len(PlainSources) \in Nat /\ \A i \in 1..Len(PlainSources) : PlainSources[i] \in Plain
  BY <1>1, ElementOfSeq, LenProperties
<1>3. /\ Len(Stages) = Len(PlainSources) + 3
      /\ \A i \in 1..Len(Stages) :
            Stages[i] = IF i <= Len(PlainSources) THEN PlainSources[i]
                        ELSE Rest[i - Len(PlainSources)]
  BY <1>1, ConcatProperties DEF Stages
<1>4. DOMAIN Stages = 1..Len(Stages)
  BY StagesAreSources
<1>5. ASSUME NEW i \in DOMAIN Stages
      PROVE  (Stages[i] = "gdelt" <=> i = GdeltAt) /\ (Stages[i] = "engine" <=> i = GdeltAt + 1)
  <2>1. CASE i <= Len(PlainSources)
    BY <1>2, <1>3, <1>4, <2>1 DEF GdeltAt
  <2>2. CASE ~(i <= Len(PlainSources))
    <3>1. i - Len(PlainSources) \in 1..3 /\ Stages[i] = Rest[i - Len(PlainSources)]
      BY <1>2, <1>3, <1>4, <2>2
    <3>2. Rest[1] = "gdelt" /\ Rest[2] = "engine" /\ Rest[3] = "backtest"
      OBVIOUS
    <3> QED
      BY <1>2, <1>4, <3>1, <3>2 DEF GdeltAt
  <2> QED
    BY <2>1, <2>2
<1> QED
  BY <1>2, <1>3, <1>4, <1>5 DEF GdeltAt

\* No on-demand job has run, and no other execution has the date of p.
Alone(p) ==
    /\ jobs = 0 /\ pc[p] \notin {"new", "dead"}
    /\ \A q \in Runs \ {p} : date[q] # date[p]

\* What such an execution has queried, recorded, read and written: nothing
\* before gdelt, then the outcome of each query, carried from hand to hand.
LoneFacts(p) ==
    \A t \in Tickers :
        /\ (at[p] < GdeltAt \/ (at[p] = GdeltAt /\ pc[p] \in {"begin", "work"})) =>
              <<t, date[p]>> \notin queried
        /\ at[p] <= GdeltAt => rec[<<t, date[p]>>] = "none"
        /\ <<t, date[p]>> \in queried =>
              /\ at[p] = GdeltAt /\ pc[p] = "record" =>
                    outcome[p].status = "ok" /\ t \notin outcome[p].failed
              /\ at[p] > GdeltAt => NewsLens(t, date[p]) = "ok"
              /\ rec[<<t, date[p]>>] \in {"none", "ok"}
              /\ pc[p] = "write" /\ inHand[p].ticker = t => inHand[p].lens = "ok"

LoneInv ==
    /\ jobs = 0 => job.step = "idle" /\ joined = {}
    /\ \A p \in Runs : pc[p] = "new" => date[p] = 0
    /\ jobs = 0 => \A d \in Dates : (\A q \in Runs : date[q] # d) =>
          \A t \in Tickers : <<t, d>> \notin queried /\ rec[<<t, d>>] = "none"
    /\ \A p \in Runs : Alone(p) => LoneFacts(p)

EntrySet == [status : {"absent", "running"} \cup Finished, failed : SUBSET Tickers]

\* A step of one execution leaves the news of every other date as they are.
LEMMA OtherDatesUntouched ==
    ASSUME TypeInv, NEW p \in Runs, Start(p) \/ Step(p) \/ Die(p),
           NEW d \in Dates, date[p] # d
    PROVE  /\ row'[<<d, "gdelt">>] = row[<<d, "gdelt">>]
           /\ \A t \in Tickers : /\ <<t, d>> \in queried' <=> <<t, d>> \in queried
                                 /\ rec'[<<t, d>>] = rec[<<t, d>>]
<1>1. row'[<<d, "gdelt">>] = row[<<d, "gdelt">>]
  <2>1. UNCHANGED row \/ (\E s \in Sources, e \in EntrySet : row' = [row EXCEPT ![<<date[p], s>>] = e])
    <3>1. CASE Begin(p)
      <4>1. Source(p) \in Sources
        BY DEF Source, Sources, TypeInv, TypeOK
      <4> QED
        BY <3>1, <4>1 DEF Begin, EntrySet, Finished
    <3>2. CASE Record(p)
      <4>1. Source(p) \in Sources /\ outcome[p] \in EntrySet
        <5>1. outcome[p].status \in Finished /\ outcome[p] \in [status : {"none"} \cup Finished, failed : SUBSET Tickers]
          BY <3>2 DEF Record, TypeInv, TypeOK
        <5> QED
          BY <5>1 DEF Source, Sources, TypeInv, TypeOK, EntrySet
      <4> QED
        BY <3>2, <4>1 DEF Record
    <3>3. CASE Start(p) \/ Die(p) \/ (Step(p) /\ ~Begin(p) /\ ~Record(p))
      BY <3>3 DEF Step, Start, Call, Gdelt, List, ReadLenses, WriteRecommendation, CloseEngine,
                  StageRaises, Die
    <3> QED
      BY <3>1, <3>2, <3>3
  <2>2. "gdelt" \in Sources /\ <<d, "gdelt">> \in Dates \X Sources
    BY StagePlaces DEF Sources
  <2>3. row \in [Dates \X Sources -> EntrySet]
    BY DEF TypeInv, TypeOK, EntrySet
  <2>4. \A s \in Sources : <<d, "gdelt">> # <<date[p], s>>
    OBVIOUS
  <2> QED
    BY <2>1, <2>2, <2>3, <2>4
<1>2. \A t \in Tickers : <<t, d>> \in queried' <=> <<t, d>> \in queried
  <2>1. CASE Gdelt(p)
    <3>1. PICK ok \in SUBSET covered : queried' = queried \cup {<<t, date[p]>> : t \in ok}
      BY <2>1 DEF Gdelt
    <3>2. \A t \in Tickers : <<t, d>> \notin {<<u, date[p]>> : u \in ok}
      OBVIOUS
    <3> QED
      BY <3>1, <3>2
  <2>2. CASE ~Gdelt(p)
    <3>1. queried' = queried
      BY <2>2 DEF Step, Start, Begin, Call, List, ReadLenses, WriteRecommendation, CloseEngine,
                  StageRaises, Record, Die, historyVars
    <3> QED
      BY <3>1
  <2> QED
    BY <2>1, <2>2
<1>3. \A t \in Tickers : rec'[<<t, d>>] = rec[<<t, d>>]
  <2>1. CASE WriteRecommendation(p)
    <3>1. UNCHANGED rec \/ rec' = [rec EXCEPT ![<<inHand[p].ticker, date[p]>>] = inHand[p].lens]
      BY <2>1 DEF WriteRecommendation
    <3>2. \A t \in Tickers : <<t, d>> \in Tickers \X Dates
                             /\ <<t, d>> # <<inHand[p].ticker, date[p]>>
      OBVIOUS
    <3>3. rec \in [Tickers \X Dates -> Lenses]
      BY DEF TypeInv, TypeOK
    <3> QED
      BY <3>1, <3>2, <3>3
  <2>2. CASE ~WriteRecommendation(p)
    BY <2>2 DEF Step, Start, Begin, Call, Gdelt, List, ReadLenses, CloseEngine, StageRaises,
                Record, Die
  <2> QED
    BY <2>1, <2>2
<1> QED
  BY <1>1, <1>2, <1>3

\* A step of one execution leaves the facts of another date alone.
LEMMA OthersKeepFacts ==
    ASSUME TypeInv, LoneInv, NEW p \in Runs, Start(p) \/ Step(p) \/ Die(p),
           NEW q \in Runs \ {p}, Alone(q)'
    PROVE  LoneFacts(q)'
<1>1. /\ pc'[q] = pc[q] /\ at'[q] = at[q] /\ date'[q] = date[q]
      /\ outcome'[q] = outcome[q] /\ inHand'[q] = inHand[q] /\ jobs' = jobs
  <2> USE DEF TypeInv, TypeOK, Goto, Conclude, stageVars, runVars, jobVars
  <2>1. Start(p) \/ Die(p) => <1>1!:
    BY DEF Start, Die
  <2>2. Begin(p) \/ Call(p) \/ Gdelt(p) \/ List(p) => <1>1!:
    BY DEF Begin, Call, Gdelt, List
  <2>3. WriteRecommendation(p) \/ CloseEngine(p) \/ StageRaises(p) \/ Record(p) => <1>1!:
    BY DEF WriteRecommendation, CloseEngine, StageRaises, Record
  <2>4. (\E t \in Tickers : ReadLenses(p, t)) => <1>1!:
    BY DEF ReadLenses
  <2> QED
    BY <2>1, <2>2, <2>3, <2>4 DEF Step
<1>2. date[q] \in Dates /\ date'[p] # date[q]
  BY <1>1 DEF Alone, TypeInv
<1>3. date[p] # date[q]
  <2>1. CASE Start(p)
    <3>1. 0 \notin Dates
      BY DEF Dates
    <3> QED
      BY <1>2, <2>1, <3>1 DEF Start, LoneInv
  <2>2. CASE ~Start(p)
    <3>1. date' = date
      BY <2>2 DEF Step, Begin, Call, Gdelt, List, ReadLenses, WriteRecommendation, CloseEngine,
                  StageRaises, Record, Die
    <3> QED
      BY <1>2, <3>1
  <2> QED
    BY <2>1, <2>2
<1>4. Alone(q) /\ LoneFacts(q)
  <2>1. \A r \in Runs \ {q} : r # p => date'[r] = date[r]
    BY DEF Step, Start, Begin, Call, Gdelt, List, ReadLenses, WriteRecommendation, CloseEngine,
           StageRaises, Record, Die, TypeInv, TypeOK
  <2>2. Alone(q)
    BY <1>1, <1>3, <2>1 DEF Alone
  <2> QED
    BY <2>2 DEF LoneInv
<1>5. /\ row'[<<date[q], "gdelt">>] = row[<<date[q], "gdelt">>]
      /\ \A t \in Tickers : /\ <<t, date[q]>> \in queried' <=> <<t, date[q]>> \in queried
                            /\ rec'[<<t, date[q]>>] = rec[<<t, date[q]>>]
  BY <1>2, <1>3, OtherDatesUntouched
<1> QED
  BY <1>1, <1>4, <1>5 DEF LoneFacts, NewsLens

\* The start of an execution whose date nobody has: nothing was queried for it.
LEMMA StartHasFacts ==
    ASSUME TypeInv, SettleInv, LoneInv, NEW p \in Runs, Start(p), Alone(p)'
    PROVE  LoneFacts(p)'
<1>1. /\ date' = [date EXCEPT ![p] = today] /\ pc' = [pc EXCEPT ![p] = "begin"] /\ pc[p] = "new"
      /\ UNCHANGED <<at, row, rec, queried, jobs, outcome, inHand>>
  BY DEF Start, Goto, stageVars, jobVars, historyVars
<1>2. at[p] = 1 /\ date[p] = 0 /\ today \in Dates /\ 0 \notin Dates /\ jobs = 0
  BY <1>1 DEF SettleInv, LoneInv, TypeInv, TypeOK, Dates, Alone
<1>3. date'[p] = today /\ pc'[p] = "begin" /\ \A q \in Runs \ {p} : date'[q] = date[q]
  BY <1>1 DEF TypeInv, TypeOK
<1>4. \A q \in Runs : date[q] # today
  BY <1>2, <1>3 DEF Alone
<1>5. \A t \in Tickers : <<t, today>> \notin queried /\ rec[<<t, today>>] = "none"
  BY <1>2, <1>4 DEF LoneInv
<1> QED
  BY <1>1, <1>3, <1>5 DEF LoneFacts

\* A step of the execution itself keeps its facts: gdelt is the stage that
\* queries, its row is written once, and the engine reads that row.
LEMMA OwnStepKeepsFacts ==
    ASSUME TypeInv, EvidenceInv, LoneInv, NEW p \in Runs, Step(p), Alone(p)'
    PROVE  LoneFacts(p)'
<1> DEFINE d == date[p]
<1>1. date' = date /\ jobs' = jobs /\ pc[p] \in {"begin", "work", "score", "write", "record"}
  BY DEF Step, Begin, Call, Gdelt, List, ReadLenses, WriteRecommendation, CloseEngine,
         StageRaises, Record, jobVars
<1>2. Alone(p) /\ LoneFacts(p) /\ d \in Dates
  BY <1>1 DEF Alone, LoneInv, TypeInv
<1>3. /\ at[p] \in Nat /\ GdeltAt \in Nat
      /\ at[p] = GdeltAt <=> Source(p) = "gdelt"
      /\ at[p] = GdeltAt + 1 <=> Source(p) = "engine"
  BY StagePlaces, StagesAreSources DEF TypeInv, TypeOK, Source
<1>4. pc[p] \in {"score", "write"} => at[p] = GdeltAt + 1
  BY <1>3 DEF EvidenceInv
<1>5. /\ <<d, "gdelt">> \in Dates \X Sources /\ <<d, Source(p)>> \in Dates \X Sources
      /\ at[p] # GdeltAt => <<d, Source(p)>> # <<d, "gdelt">>
  BY <1>2, <1>3, StagesAreSources DEF Source, Sources, TypeInv, TypeOK
<1> USE <1>1, <1>2, <1>3 DEF LoneFacts, NewsLens, Goto, Conclude, stageVars, jobVars, historyVars
<1>6. CASE Begin(p)
  <2>1. pc'[p] = "work" /\ UNCHANGED <<at, date, rec, outcome, inHand, queried>> /\ pc[p] = "begin"
    BY <1>6 DEF Begin, TypeInv, TypeOK
  <2>2. at[p] # GdeltAt => row'[<<d, "gdelt">>] = row[<<d, "gdelt">>]
    BY <1>5, <1>6 DEF Begin, TypeInv, TypeOK
  <2> QED
    BY <2>1, <2>2
<1>7. CASE Call(p) \/ StageRaises(p) \/ CloseEngine(p)
  <2>1. pc'[p] = "record" /\ UNCHANGED <<at, date, row, rec, inHand, queried>>
    BY <1>7 DEF Call, StageRaises, CloseEngine, TypeInv, TypeOK
  <2>2. at[p] = GdeltAt => pc[p] = "work"
    BY <1>4, <1>7 DEF Call, StageRaises, CloseEngine
  <2> QED
    BY <2>1, <2>2
<1>8. CASE Gdelt(p)
  <2>1. PICK ok \in SUBSET covered :
           /\ queried' = queried \cup {<<t, d>> : t \in ok}
           /\ Conclude(p, GdeltOutcome(ok, covered \ ok), IF ok = {} THEN {} ELSE covered \ ok)
    BY <1>8 DEF Gdelt
  <2>2. pc'[p] = "record" /\ at' = at /\ rec' = rec /\ at[p] = GdeltAt /\ pc[p] = "work"
    BY <1>8 DEF Gdelt, TypeInv, TypeOK
  <2>3. outcome'[p] = [status |-> GdeltOutcome(ok, covered \ ok),
                       failed |-> IF ok = {} THEN {} ELSE covered \ ok]
    BY <2>1 DEF TypeInv, TypeOK
  <2>4. \A t \in Tickers : <<t, d>> \in queried' <=> t \in ok
    BY <2>1, <2>2
  <2>5. \A t \in ok : outcome'[p].status = "ok" /\ t \notin outcome'[p].failed
    BY <2>3 DEF GdeltOutcome
  <2>6. \A t \in Tickers : rec[<<t, d>>] = "none"
    BY <2>2
  <2> QED
    BY <2>2, <2>4, <2>5, <2>6
<1>9. CASE List(p)
  <2>1. pc'[p] = "score" /\ at[p] = GdeltAt + 1 /\ UNCHANGED <<at, row, rec, queried>>
    BY <1>9 DEF List, TypeInv, TypeOK
  <2> QED
    BY <2>1
<1>10. ASSUME NEW u \in Tickers, ReadLenses(p, u)
       PROVE  LoneFacts(p)'
  <2>1. pc'[p] = "write" /\ at[p] = GdeltAt + 1 /\ UNCHANGED <<at, row, rec, queried>>
    BY <1>4, <1>10 DEF ReadLenses, TypeInv, TypeOK
  <2>2. inHand'[p] = [ticker |-> u, lens |-> NewsLens(u, d)]
    BY <1>10 DEF ReadLenses, TypeInv, TypeOK
  <2> QED
    BY <2>1, <2>2
<1>11. CASE WriteRecommendation(p)
  <2>1. /\ pc'[p] = "score" /\ pc[p] = "write" /\ at[p] = GdeltAt + 1 /\ UNCHANGED <<at, row, queried>>
    BY <1>4, <1>11 DEF WriteRecommendation, TypeInv, TypeOK
  <2>2. UNCHANGED rec \/ rec' = [rec EXCEPT ![<<inHand[p].ticker, d>>] = inHand[p].lens]
    BY <1>11 DEF WriteRecommendation
  <2>3. \A t \in Tickers : rec'[<<t, d>>] = rec[<<t, d>>]
                           \/ (t = inHand[p].ticker /\ rec'[<<t, d>>] = inHand[p].lens)
    BY ZenonT(40), <2>2 DEF TypeInv, TypeOK
  <2> QED
    BY <2>1, <2>3
<1>12. CASE Record(p)
  <2>1. /\ UNCHANGED <<rec, inHand, queried>> /\ pc[p] = "record"
        /\ row' = [row EXCEPT ![<<d, Source(p)>>] = outcome[p]]
        /\ pc'[p] \in {"begin", "done"} /\ at'[p] \in {at[p], at[p] + 1}
        /\ at'[p] = at[p] => pc'[p] = "done"
    BY <1>12 DEF Record, TypeInv, TypeOK
  <2>2. CASE at[p] < GdeltAt
    BY <2>1, <2>2
  <2>3. CASE at[p] = GdeltAt
    <3>1. row'[<<d, "gdelt">>] = outcome[p]
      BY <1>5, <2>1, <2>3 DEF TypeInv, TypeOK
    <3> QED
      BY <2>1, <2>3, <3>1
  <2>4. CASE at[p] > GdeltAt
    <3>1. row'[<<d, "gdelt">>] = row[<<d, "gdelt">>]
      BY <1>5, <2>1, <2>4 DEF TypeInv, TypeOK
    <3> QED
      BY <2>1, <2>4, <3>1
  <2> QED
    BY <2>2, <2>3, <2>4
<1> QED
  BY <1>6, <1>7, <1>8, <1>9, <1>10, <1>11, <1>12 DEF Step

\* The invariant of executions that have their date to themselves.
LEMMA LoneInvariant == Spec => []LoneInv
<1>1. Init => LoneInv
  BY DEF Init, LoneInv, Alone, Idle
<1>2. TypeInv /\ EvidenceInv /\ SettleInv /\ LoneInv /\ [Next]_vars => LoneInv'
  <2> SUFFICES ASSUME TypeInv, EvidenceInv, SettleInv, LoneInv, [Next]_vars
               PROVE  LoneInv'
    OBVIOUS
  <2>1. ASSUME NEW p \in Runs, Start(p) \/ Step(p) \/ Die(p)
        PROVE  LoneInv'
    <3>1. /\ UNCHANGED <<job, jobs, joined>>
          /\ \A q \in Runs : date'[q] = date[q] \/ (pc[q] = "new" /\ pc'[q] # "new")
          /\ \A q \in Runs : pc'[q] = "new" => pc[q] = "new"
      <4> USE DEF TypeInv, TypeOK, Goto, Conclude, jobVars, historyVars
      <4>1. Start(p) => <3>1!:
        BY DEF Start
      <4>2. Begin(p) \/ Call(p) \/ Gdelt(p) \/ List(p) \/ Die(p) => <3>1!:
        BY DEF Begin, Call, Gdelt, List, Die
      <4>3. WriteRecommendation(p) \/ CloseEngine(p) \/ StageRaises(p) \/ Record(p) => <3>1!:
        BY DEF WriteRecommendation, CloseEngine, StageRaises, Record
      <4>4. (\E t \in Tickers : ReadLenses(p, t)) => <3>1!:
        BY DEF ReadLenses
      <4> QED
        BY <2>1, <4>1, <4>2, <4>3, <4>4 DEF Step
    <3>2. ASSUME jobs' = 0, NEW d \in Dates, \A q \in Runs : date'[q] # d, NEW t \in Tickers
          PROVE  <<t, d>> \notin queried' /\ rec'[<<t, d>>] = "none"
      <4>1. \A q \in Runs : date[q] # d
        <5>1. 0 # d
          BY DEF Dates
        <5> QED
          BY <3>1, <3>2, <5>1 DEF LoneInv
      <4> QED
        BY <2>1, <3>1, <3>2, <4>1, OtherDatesUntouched DEF LoneInv
    <3>3. ASSUME NEW q \in Runs, Alone(q)'
          PROVE  LoneFacts(q)'
      <4>1. CASE q # p
        BY <2>1, <3>3, <4>1, OthersKeepFacts
      <4>2. CASE q = p /\ Start(p)
        BY <3>3, <4>2, StartHasFacts
      <4>3. CASE q = p /\ Step(p)
        BY <3>3, <4>3, OwnStepKeepsFacts
      <4>4. CASE q = p /\ Die(p)
        BY <3>3, <4>4 DEF Die, Goto, Alone, TypeInv, TypeOK
      <4> QED
        BY <2>1, <4>1, <4>2, <4>3, <4>4
    <3> QED
      BY <3>1, <3>2, <3>3 DEF LoneInv
  <2>2. CASE OnDemand
    <3>1. jobs' # 0
      BY <2>2, PipelineConstantsOK DEF OnDemand, TakeJob, Promote, FetchNews, ScoreJob, JobEnds,
                                       LoneInv, TypeInv, TypeOK
    <3>2. UNCHANGED <<pc, date>>
      BY <2>2 DEF OnDemand, TakeJob, Promote, FetchNews, ScoreJob, JobEnds, runVars
    <3> QED
      BY <3>1, <3>2 DEF LoneInv, Alone
  <2>3. CASE Midnight \/ UNCHANGED vars
    <3>1. UNCHANGED <<row, rec, runVars, jobVars, historyVars>>
      BY <2>3 DEF Midnight, vars
    <3> QED
      BY <3>1 DEF LoneInv, Alone, LoneFacts, NewsLens, runVars, stageVars, jobVars, historyVars
  <2> QED
    BY <2>1, <2>2, <2>3 DEF Next
<1> QED
  BY <1>1, <1>2, TypeInvariant, EvidenceInvariant, SettleInvariant, PTL DEF Spec

\* On a date with one execution, which came to its end, and no on-demand job,
\* a recommendation's news lens is ok exactly when the ticker's gdelt query
\* succeeded.
THEOREM LoneNewsIsExact == Spec => []LoneRunNewsIsExact
<1>1. TypeInv /\ EvidenceInv /\ LoneInv => LoneRunNewsIsExact
  <2> SUFFICES ASSUME TypeInv, EvidenceInv, LoneInv, NEW p \in Runs, pc[p] = "done", jobs = 0,
                      \A q \in Runs \ {p} : date[q] # date[p],
                      NEW t \in Tickers, rec[<<t, date[p]>>] # "none"
               PROVE  rec[<<t, date[p]>>] = "ok" <=> <<t, date[p]>> \in queried
    BY DEF LoneRunNewsIsExact
  <2>1. Alone(p) /\ LoneFacts(p) /\ date[p] \in Dates
    BY DEF Alone, LoneInv, TypeInv
  <2>2. <<t, date[p]>> \in queried => rec[<<t, date[p]>>] = "ok"
    BY <2>1 DEF LoneFacts
  <2>3. rec[<<t, date[p]>>] = "ok" => <<t, date[p]>> \in queried
    BY <2>1 DEF LoneInv, EvidenceInv, MembersNewsHasEvidence
  <2> QED
    BY <2>2, <2>3
<1> QED
  BY <1>1, TypeInvariant, EvidenceInvariant, LoneInvariant, PTL
=============================================================================
