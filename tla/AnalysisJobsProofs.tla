------------------------- MODULE AnalysisJobsProofs -------------------------
(***************************************************************************)
(* Theorems of AnalysisJobs for every set of tickers and requests, every   *)
(* pool cap and every number of faults and crashes.                        *)
(***************************************************************************)
EXTENDS AnalysisJobs, SequenceTheorems, TLAPS

-----------------------------------------------------------------------------
(* Type correctness                                                        *)

\* Outside its idle point the worker has a payload.
TypeInv == TypeOK /\ (wpc = "idle" <=> wrun = NoRun)

\* The type invariant in its inductive form.
LEMMA TypeInvariant == Spec => []TypeInv
<1> USE ConstantsOK
<1>1. Init => TypeInv
  BY DEF Init, TypeInv, TypeOK, Covered, Job, NoJob, Live, Running, Terminal, Reasons, WorkerPC
<1>2. TypeInv /\ [Next]_vars => TypeInv'
  <2> SUFFICES ASSUME TypeInv, [Next]_vars
               PROVE  TypeInv'
    OBVIOUS
  <2> USE DEF TypeInv, TypeOK, Goto, dbVars, redisVars, handlerVars, workerVars, budgetVars
  <2>1. ASSUME NEW q \in Requests, Handler(q)
        PROVE  TypeInv'
    <3> USE <2>1 DEF InHandler, Answers
    <3>1. CASE ReadTicker(q)
      BY <3>1 DEF ReadTicker
    <3>2. CASE ReadSnapshot(q)
      BY <3>2 DEF ReadSnapshot
    <3>3. CASE GetActive(q)
      BY <3>3 DEF GetActive, TickerOf
    <3>4. CASE GetStatus(q)
      BY <3>4 DEF GetStatus
    <3>5. CASE GetCooldown(q)
      BY <3>5 DEF GetCooldown
    <3>6. CASE NextRefresh(q)
      BY <3>6 DEF NextRefresh
    <3>7. CASE CountPool(q)
      BY <3>7 DEF CountPool
    <3>8. CASE EnqueueHash(q)
      BY <3>8 DEF EnqueueHash, Job, NoJob, Live
    <3>9. CASE EnqueuePointer(q)
      BY <3>9 DEF EnqueuePointer
    <3>10. CASE EnqueuePush(q)
      BY <3>10 DEF EnqueuePush
    <3> QED
      BY <3>1, <3>2, <3>3, <3>4, <3>5, <3>6, <3>7, <3>8, <3>9, <3>10 DEF Handler
  <2>2. ASSUME Worker
        PROVE  TypeInv'
    <3> USE <2>2 DEF WorkerPC, InTry, InFinish, InNet
    <3>1. CASE PollEmpty
      BY <3>1 DEF PollEmpty, vars
    <3>2. CASE Pop
      BY <3>2 DEF Pop
    <3>3. CASE Acquire
      BY <3>3 DEF Acquire
    <3>4. CASE MarkFetching \/ MarkScoring
      <4>1. job' \in [Requests -> Job] /\ wpc' \in {"promote", "score"}
        BY <3>4 DEF MarkFetching, MarkScoring, Mark, Job, Live, Running
      <4>2. wpc # "idle"
        BY <3>4 DEF MarkFetching, MarkScoring, Mark
      <4>3. UNCHANGED <<body, pool, scored, queue, active, lastFinished, pc, sawCovered,
                        run, wrun, fetched, verdict, faults, crashes>>
        BY <3>4 DEF MarkFetching, MarkScoring, Mark
      <4> QED
        BY <4>1, <4>2, <4>3
    <3>5. CASE Promote
      BY <3>5 DEF Promote
    <3>6. CASE Fetch
      BY <3>6 DEF Fetch, ReasonFromOutcomes, Reasons
    <3>7. CASE Score
      <4>1. \A res \in {"no_data", "suppressed", "missing_modules", "complete"} :
               Verdict(res) \in [status : {"none"} \cup Terminal, reason : {"none"} \cup Reasons]
        BY DEF Verdict, Terminal
      <4>2. wrun \in Requests /\ TickerOf(wrun) \in Tickers
        BY <3>7 DEF Score, TickerOf
      <4> QED
        BY <3>7, <4>1, <4>2 DEF Score
    <3>8. CASE JobRaises
      BY <3>8 DEF JobRaises, Terminal, Reasons
    <3>9. CASE FinishHash
      BY <3>9 DEF FinishHash, Job
    <3>10. CASE FinishDelete
      BY <3>10 DEF FinishDelete
    <3>11. CASE FinishCooldown
      <4>1. CASE wpc = "finish_cooldown"
        BY <3>11, <4>1 DEF FinishCooldown
      <4>2. CASE wpc = "net_cooldown"
        <5>1. ForgetPayload
          BY <3>11, <4>2 DEF FinishCooldown
        <5>2. /\ lastFinished' \in [Tickers -> {"never", "recent", "elapsed"}]
              /\ UNCHANGED <<body, pool, scored, job, queue, active, pc, sawCovered,
                             run, faults, crashes>>
          BY <3>11 DEF FinishCooldown
        <5> QED
          BY <5>1, <5>2 DEF ForgetPayload
      <4> QED
        BY <3>11, <4>1, <4>2 DEF FinishCooldown
    <3>12. CASE Release
      BY <3>12 DEF Release, ForgetPayload
    <3> QED
      BY <3>1, <3>2, <3>3, <3>4, <3>5, <3>6, <3>7, <3>8, <3>9, <3>10, <3>11, <3>12 DEF Worker
  <2>3. ASSUME Environment
        PROVE  TypeInv'
    <3> USE <2>3
    <3>1. ASSUME NEW q \in Requests, Receive(q) \/ HandlerFails(q)
          PROVE  TypeInv'
      BY SMTT(30), <3>1 DEF Receive, HandlerFails, SpendFault, InHandler, Answers
    <3>2. CASE PopReplyLost
      <4>1. queue' \in Seq(Requests)
        BY <3>2 DEF PopReplyLost
      <4>2. faults' \in 0..MaxFaults
        BY <3>2 DEF PopReplyLost, SpendFault
      <4> QED
        BY <3>2, <4>1, <4>2 DEF PopReplyLost, SpendFault
    <3>3. CASE EscapesToNet
      BY <3>3 DEF EscapesToNet, SpendFault, WorkerPC, InFinish, InNet, Terminal, Reasons
    <3>4. CASE NetFails
      BY <3>4 DEF NetFails, ForgetPayload, SpendFault, WorkerPC
    <3>5. CASE Crash
      BY <3>5 DEF Crash, ForgetPayload, WorkerPC, Answers
    <3>6. ASSUME NEW t \in Tickers, CooldownElapses(t) \/ NightlyScores(t)
          PROVE  TypeInv'
      BY <3>6 DEF CooldownElapses, NightlyScores
    <3> QED
      BY <3>1, <3>2, <3>3, <3>4, <3>5, <3>6 DEF Environment
  <2>4. CASE UNCHANGED vars
    BY <2>4 DEF vars
  <2> QED
    BY <2>1, <2>2, <2>3, <2>4 DEF Next
<1> QED
  BY <1>1, <1>2, PTL DEF Spec

\* The handlers and the worker write only values of the declared types: the
\* reason of a job is one of the sanitized categories, never anything else.
THEOREM TypeCorrect == Spec => []TypeOK
<1>1. TypeInv => TypeOK
  BY DEF TypeInv
<1> QED
  BY <1>1, TypeInvariant, PTL

-----------------------------------------------------------------------------
(* At-most-once delivery                                                   *)

\* Where a handler stands relative to the minting of its own run.
Unminted == {"new", "read_ticker", "read_snapshot", "get_active", "get_status",
             "get_cooldown", "next_refresh", "count_pool", "hset"}
Minting == {"set_active", "rpush"}

NoDuplicates == \A i, j \in DOMAIN queue : queue[i] = queue[j] => i = j

\* A run reaches the queue, and from there the worker, only after the handler
\* that mints it is through with it.
DeliveryInv ==
    /\ NoDuplicates
    /\ \A i \in DOMAIN queue : /\ queue[i] # wrun
                               /\ job[queue[i]].status = "queued"
                               /\ pc[queue[i]] \in Answers
    /\ wrun # NoRun => pc[wrun] \in Answers
    /\ \A r \in Requests : pc[r] \in Minting =>
          /\ job[r].status = "queued"
          /\ \A i \in DOMAIN queue : queue[i] # r
    /\ \A r \in Requests : pc[r] \in Unminted => job[r].status = "none"

\* Removing the head of a queue keeps the other entries, one place further on.
LEMMA TailEntries ==
  ASSUME NEW S, NEW s \in Seq(S), s # <<>>
  PROVE  /\ Head(s) = s[1] /\ 1 \in DOMAIN s
         /\ \A i \in DOMAIN Tail(s) : i+1 \in DOMAIN s /\ i+1 # 1 /\ Tail(s)[i] = s[i+1]
         /\ \A i, j \in DOMAIN Tail(s) : i+1 = j+1 => i = j
         /\ \A i \in DOMAIN s : i = 1 \/ (i-1 \in DOMAIN Tail(s) /\ Tail(s)[i-1] = s[i])
<1> DEFINE T == Tail(s)
<1>1. /\ T \in Seq(S) /\ Len(T) = Len(s) - 1
      /\ \A i \in 1..Len(T) : T[i] = s[i+1]
  BY HeadTailProperties
<1>2. Head(s) = s[1] /\ Len(s) \in Nat \ {0} /\ DOMAIN s = 1..Len(s)
  OBVIOUS
<1> HIDE DEF T
<1>3. DOMAIN T = 1..Len(T)
  BY <1>1
<1>4. \A i \in DOMAIN s : i = 1 \/ (i-1 \in DOMAIN T /\ T[i-1] = s[i])
  <2> SUFFICES ASSUME NEW i \in DOMAIN s, i # 1
               PROVE  i-1 \in DOMAIN T /\ T[i-1] = s[i]
    OBVIOUS
  <2>1. i \in Int /\ i-1 \in 1..Len(T) /\ (i-1)+1 = i
    BY <1>1, <1>2
  <2>2. T[i-1] = s[(i-1)+1]
    BY <1>1, <2>1
  <2> QED
    BY <1>3, <2>1, <2>2
<1>5. \A i \in DOMAIN T : i+1 \in DOMAIN s /\ i+1 # 1 /\ T[i] = s[i+1]
  BY <1>1, <1>2, <1>3
<1>6. \A i, j \in DOMAIN T : i+1 = j+1 => i = j
  BY <1>1, <1>3
<1>7. 1 \in DOMAIN s
  BY <1>2
<1> QED
  BY <1>2, <1>4, <1>5, <1>6, <1>7, Zenon DEF T

\* Appending keeps the entries and adds one at the end.
LEMMA AppendEntries ==
  ASSUME NEW S, NEW s \in Seq(S), NEW e \in S
  PROVE  /\ \A i \in DOMAIN Append(s, e) :
               \/ i \in DOMAIN s /\ Append(s, e)[i] = s[i]
               \/ i = Len(s) + 1 /\ Append(s, e)[i] = e
         /\ \A i \in DOMAIN s : i \in DOMAIN Append(s, e) /\ Append(s, e)[i] = s[i]
         /\ Len(s) + 1 \in DOMAIN Append(s, e) /\ Append(s, e)[Len(s) + 1] = e
OBVIOUS

\* DeliveryInv is inductive, given the types.
LEMMA DeliveryInvariant == Spec => []DeliveryInv
<1>1. Init => DeliveryInv
  BY ConstantsOK DEF Init, DeliveryInv, NoDuplicates, NoJob, Unminted, Minting
<1>2. TypeInv /\ TypeInv' /\ DeliveryInv /\ [Next]_vars => DeliveryInv'
  <2> SUFFICES ASSUME TypeInv, TypeInv', DeliveryInv, [Next]_vars
               PROVE  DeliveryInv'
    OBVIOUS
  <2> USE ConstantsOK
      DEF TypeInv, TypeOK, DeliveryInv, NoDuplicates, Unminted, Minting, Answers,
          Goto, dbVars, redisVars, handlerVars, workerVars, budgetVars
  <2>1. ASSUME NEW q \in Requests, Handler(q)
        PROVE  DeliveryInv'
    <3>1. CASE ReadTicker(q)
      BY <3>1 DEF ReadTicker
    <3>2. CASE ReadSnapshot(q)
      BY <3>2 DEF ReadSnapshot
    <3>3. CASE GetActive(q)
      BY <3>3 DEF GetActive
    <3>4. CASE GetStatus(q)
      BY <3>4 DEF GetStatus
    <3>5. CASE GetCooldown(q)
      BY <3>5 DEF GetCooldown
    <3>6. CASE NextRefresh(q)
      BY <3>6 DEF NextRefresh
    <3>7. CASE CountPool(q)
      BY <3>7 DEF CountPool
    <3>8. CASE EnqueueHash(q)
      BY <3>8 DEF EnqueueHash
    <3>9. CASE EnqueuePointer(q)
      BY <3>9 DEF EnqueuePointer
    <3>10. CASE EnqueuePush(q)
      <4>1. /\ queue' = Append(queue, q) /\ pc' = [pc EXCEPT ![q] = "accepted"]
            /\ pc[q] = "rpush" /\ UNCHANGED <<job, wrun>>
        BY <3>10 DEF EnqueuePush
      <4>2. \A i \in DOMAIN queue' : \/ i \in DOMAIN queue /\ queue'[i] = queue[i]
                                     \/ i = Len(queue) + 1 /\ queue'[i] = q
        BY <4>1, AppendEntries
      <4> QED
        BY <4>1, <4>2
    <3> QED
      BY <2>1, <3>1, <3>2, <3>3, <3>4, <3>5, <3>6, <3>7, <3>8, <3>9, <3>10 DEF Handler
  <2>2. ASSUME Worker
        PROVE  DeliveryInv'
    <3>1. CASE PollEmpty
      BY <3>1 DEF PollEmpty, vars
    <3>2. CASE Pop
      <4>1. /\ queue # <<>> /\ queue' = Tail(queue) /\ wrun' = Head(queue) /\ wrun = NoRun
            /\ UNCHANGED <<job, pc>>
        BY <3>2 DEF Pop
      <4>2. /\ Head(queue) = queue[1] /\ 1 \in DOMAIN queue
            /\ \A i \in DOMAIN queue' : i+1 \in DOMAIN queue /\ i+1 # 1 /\ queue'[i] = queue[i+1]
            /\ \A i, j \in DOMAIN queue' : i+1 = j+1 => i = j
        BY <4>1, TailEntries
      <4> QED
        BY <4>1, <4>2
    <3>3. CASE Acquire
      BY <3>3 DEF Acquire
    <3>4. CASE MarkFetching \/ MarkScoring
      <4>1. /\ \E st \in Running : job' = [job EXCEPT ![wrun] = [status |-> st, reason |-> job[wrun].reason]]
            /\ UNCHANGED <<queue, pc, wrun>> /\ wrun # NoRun
        BY <3>4 DEF MarkFetching, MarkScoring, Mark, Running
      <4> QED
        BY <4>1
    <3>5. CASE Promote
      BY <3>5 DEF Promote
    <3>6. CASE Fetch
      BY <3>6 DEF Fetch
    <3>7. CASE Score
      BY <3>7 DEF Score
    <3>8. CASE JobRaises
      BY <3>8 DEF JobRaises
    <3>9. CASE FinishHash
      BY <3>9 DEF FinishHash
    <3>10. CASE FinishDelete
      BY <3>10 DEF FinishDelete
    <3>11. CASE FinishCooldown
      <4>1. UNCHANGED <<queue, pc, job>> /\ wrun' \in {wrun, NoRun}
        BY <3>11 DEF FinishCooldown, ForgetPayload
      <4> QED
        BY <4>1
    <3>12. CASE Release
      BY <3>12 DEF Release, ForgetPayload
    <3> QED
      BY <2>2, <3>1, <3>2, <3>3, <3>4, <3>5, <3>6, <3>7, <3>8, <3>9, <3>10, <3>11, <3>12 DEF Worker
  <2>3. ASSUME Environment
        PROVE  DeliveryInv'
    <3>1. ASSUME NEW q \in Requests, Receive(q)
          PROVE  DeliveryInv'
      BY <3>1 DEF Receive
    <3>2. ASSUME NEW q \in Requests, HandlerFails(q)
          PROVE  DeliveryInv'
      BY <3>2 DEF HandlerFails, InHandler
    <3>3. CASE PopReplyLost
      <4>1. queue # <<>> /\ queue' = Tail(queue) /\ UNCHANGED <<job, pc, wrun>>
        BY <3>3 DEF PopReplyLost
      <4>2. /\ \A i \in DOMAIN queue' : i+1 \in DOMAIN queue /\ queue'[i] = queue[i+1]
            /\ \A i, j \in DOMAIN queue' : i+1 = j+1 => i = j
        BY <4>1, TailEntries
      <4> QED
        BY <4>1, <4>2
    <3>4. CASE EscapesToNet
      BY <3>4 DEF EscapesToNet
    <3>5. CASE NetFails
      BY <3>5 DEF NetFails, ForgetPayload
    <3>6. CASE Crash
      BY <3>6 DEF Crash, ForgetPayload, InHandler
    <3>7. ASSUME NEW t \in Tickers, CooldownElapses(t) \/ NightlyScores(t)
          PROVE  DeliveryInv'
      BY <3>7 DEF CooldownElapses, NightlyScores
    <3> QED
      BY <2>3, <3>1, <3>2, <3>3, <3>4, <3>5, <3>6, <3>7 DEF Environment
  <2>4. CASE UNCHANGED vars
    BY <2>4 DEF vars
  <2> QED
    BY <2>1, <2>2, <2>3, <2>4 DEF Next
<1> QED
  BY <1>1, <1>2, TypeInvariant, PTL DEF Spec

\* Whatever fails and however often the process dies, the worker takes no run
\* twice: the queue holds a run at most once, and only while it is queued.
THEOREM DeliveredAtMostOnce == Spec => []AtMostOnceDelivery
<1>1. TypeInv /\ DeliveryInv => AtMostOnceDelivery
  BY DEF TypeInv, TypeOK, DeliveryInv, NoDuplicates, AtMostOnceDelivery, Queued
<1> QED
  BY <1>1, TypeInvariant, DeliveryInvariant, PTL

-----------------------------------------------------------------------------
(* Owners, pointers, cooldowns, answers and snapshots                      *)

Finishing == {"finish_delete", "finish_cooldown", "net_delete", "net_cooldown", "release"}
Deciding == {"finish_hset", "net_hset"}
Undecided == {"acquire", "finish_hset"} \cup InTry

\* The worker's payload has a live job until its verdict is written, and a
\* finished one from then on; worker_loop's net is entered by a fault only.
WorkerInv ==
    /\ wpc \in Finishing \cup Deciding => verdict.status \in Terminal
    /\ wpc \in Finishing => job[wrun].status \in Terminal
    /\ wpc \in Undecided => job[wrun].status \in Live
    /\ faults = 0 => wpc \notin InNet

\* Pointers name minted runs of their own ticker, and so does what a handler
\* read from one.
PointerInv ==
    /\ \A t \in Tickers : active[t] # NoRun =>
          TickerOf(active[t]) = t /\ job[active[t]].status # "none"
    /\ \A q \in Requests : pc[q] = "get_status" =>
          run[q] # NoRun /\ TickerOf(run[q]) = TickerOf(q)
    /\ \A q \in Requests : pc[q] \in Minting => run[q] = q

\* A worker at the end of a run has written the marker.
MarkerInv == wpc = "release" => lastFinished[TickerOf(wrun)] # "never"

\* The ticker is covered once promoted, and a run judged ready or partial has
\* its recommendation row.
SnapshotInv ==
    /\ wpc \in {"fetch", "mark_scoring", "score"} => pool[TickerOf(wrun)] = "covered"
    /\ verdict.status \in {"ready", "partial"} =>
          wrun # NoRun /\ TickerOf(wrun) \in Covered \cap scored

\* The cooldown and the short-circuit are the only ways to a ready answer.
ReadyInv ==
    \A q \in Requests : pc[q] \in {"next_refresh", "ready"} =>
        TickerOf(q) \in scored \/ lastFinished[TickerOf(q)] # "never"

JobsInv ==
    /\ WorkerInv /\ PointerInv /\ MarkerInv /\ SnapshotInv /\ ReadyInv
    /\ EveryRunHasOwner /\ NoStalePointer /\ FinishedLeavesCooldown
    /\ AcceptedRunAnswersRequest /\ DoneMeansSnapshot

\* Popping takes the run that becomes the payload and leaves the others queued.
LEMMA PopKeepsOthers ==
    ASSUME queue \in Seq(Requests), Pop
    PROVE  \A r \in Requests : Queued(r) => r = wrun' \/ Queued(r)'
<1>1. queue # <<>> /\ queue' = Tail(queue) /\ wrun' = Head(queue)
  BY DEF Pop
<1>2. /\ Head(queue) = queue[1]
      /\ \A i \in DOMAIN queue : i = 1 \/ (i-1 \in DOMAIN Tail(queue) /\ Tail(queue)[i-1] = queue[i])
  BY <1>1, TailEntries
<1>3. SUFFICES ASSUME NEW r \in Requests, NEW i \in DOMAIN queue, queue[i] = r
               PROVE  r = wrun' \/ Queued(r)'
  BY DEF Queued
<1>4. CASE i = 1
  BY <1>1, <1>2, <1>3, <1>4
<1>5. CASE i # 1
  <2>1. i-1 \in DOMAIN queue' /\ queue'[i-1] = r
    BY <1>1, <1>2, <1>3, <1>5
  <2> QED
    BY <2>1 DEF Queued
<1> QED
  BY <1>4, <1>5

\* JobsInv is inductive, given the types and the at-most-once invariant.
LEMMA JobsInvariant == Spec => []JobsInv
<1> USE ConstantsOK
<1> DEFINE Inv == TypeInv /\ DeliveryInv
<1>1. Init => JobsInv
  BY DEF Init, JobsInv, WorkerInv, PointerInv, MarkerInv, SnapshotInv, ReadyInv, EveryRunHasOwner,
         NoStalePointer, FinishedLeavesCooldown, AcceptedRunAnswersRequest, DoneMeansSnapshot,
         NoJob, Live, Running, Terminal, Finishing, Deciding, Undecided, InTry, InNet, Minting
<1>2. Inv /\ Inv' /\ JobsInv /\ [Next]_vars => JobsInv'
  <2> SUFFICES ASSUME Inv, Inv', JobsInv, [Next]_vars
               PROVE  JobsInv'
    OBVIOUS
  <2> USE DEF TypeInv, TypeOK, DeliveryInv, Minting, Unminted, Answers,
          JobsInv, WorkerInv, PointerInv, MarkerInv, SnapshotInv, ReadyInv, EveryRunHasOwner,
          NoStalePointer, FinishedLeavesCooldown, AcceptedRunAnswersRequest, DoneMeansSnapshot,
          Queued, TickerOf, Covered, Job, Live, Running, Terminal, Finishing, Deciding,
          Undecided, InTry, InFinish, InNet,
          Goto, dbVars, redisVars, handlerVars, workerVars, budgetVars
  <2>1. ASSUME NEW q \in Requests, Handler(q)
        PROVE  JobsInv'
    <3>1. CASE ReadTicker(q)
      BY <3>1 DEF ReadTicker
    <3>2. CASE ReadSnapshot(q)
      BY <3>2 DEF ReadSnapshot
    <3>3. CASE GetActive(q)
      BY <3>3 DEF GetActive
    <3>4. CASE GetStatus(q)
      <4>1. CASE job[run[q]].status \in Live
        BY <3>4, <4>1 DEF GetStatus
      <4>2. CASE job[run[q]].status \notin Live
        <5>1. /\ pc' = [pc EXCEPT ![q] = "get_cooldown"] /\ run' = [run EXCEPT ![q] = NoRun]
              /\ UNCHANGED <<body, pool, scored, job, queue, active, lastFinished,
                             wpc, wrun, verdict, faults, crashes>>
              /\ pc[q] = "get_status"
          BY <3>4, <4>2 DEF GetStatus
        <5> QED
          BY <5>1
      <4> QED
        BY <4>1, <4>2
    <3>5. CASE GetCooldown(q)
      BY <3>5 DEF GetCooldown
    <3>6. CASE NextRefresh(q)
      BY <3>6 DEF NextRefresh
    <3>7. CASE CountPool(q)
      BY <3>7 DEF CountPool
    <3>8. CASE EnqueueHash(q)
      BY <3>8 DEF EnqueueHash
    <3>9. CASE EnqueuePointer(q)
      BY <3>9 DEF EnqueuePointer
    <3>10. CASE EnqueuePush(q)
      <4>1. Queued(q)' /\ \A r \in Requests : Queued(r) => Queued(r)'
        BY <3>10, AppendEntries DEF EnqueuePush
      <4> HIDE DEF Queued
      <4> QED
        BY <3>10, <4>1 DEF EnqueuePush
    <3> QED
      BY <2>1, <3>1, <3>2, <3>3, <3>4, <3>5, <3>6, <3>7, <3>8, <3>9, <3>10 DEF Handler
  <2>2. ASSUME Worker
        PROVE  JobsInv'
    <3>1. CASE PollEmpty
      BY <3>1 DEF PollEmpty, vars
    <3>2. CASE Pop
      <4>1. \A r \in Requests : Queued(r) => r = wrun' \/ Queued(r)'
        BY <3>2, PopKeepsOthers
      <4>2. wrun = NoRun /\ wrun' \in Requests /\ job[wrun'].status = "queued"
        BY <3>2, TailEntries DEF Pop
      <4> HIDE DEF Queued
      <4> QED
        BY <3>2, <4>1, <4>2 DEF Pop
    <3>3. CASE Acquire
      BY <3>3 DEF Acquire
    <3>4. CASE MarkFetching
      BY <3>4 DEF MarkFetching, Mark
    <3>5. CASE MarkScoring
      BY <3>5 DEF MarkScoring, Mark
    <3>6. CASE Promote
      BY <3>6 DEF Promote
    <3>7. CASE Fetch
      BY <3>7 DEF Fetch
    <3>8. CASE Score
      BY <3>8 DEF Score, Verdict
    <3>9. CASE JobRaises
      BY <3>9 DEF JobRaises
    <3>10. CASE FinishHash
      BY <3>10 DEF FinishHash
    <3>11. CASE FinishDelete
      BY <3>11 DEF FinishDelete
    <3>12. CASE FinishCooldown
      BY <3>12 DEF FinishCooldown, ForgetPayload
    <3>13. CASE Release
      <4>1. /\ wpc' = "idle" /\ wrun' = NoRun /\ verdict'.status = "none"
            /\ UNCHANGED <<body, pool, scored, job, queue, active, lastFinished, pc, run,
                           faults, crashes>>
        BY <3>13 DEF Release, ForgetPayload
      <4>2. wpc = "release" /\ wrun \in Requests /\ job[wrun].status \in Terminal
        BY <3>13 DEF Release
      <4>3. \A r \in Requests : Queued(r)' = Queued(r)
        BY <4>1
      <4> HIDE DEF Queued
      <4>4. WorkerInv' /\ PointerInv' /\ MarkerInv' /\ SnapshotInv' /\ ReadyInv'
        BY <4>1
      <4>5. EveryRunHasOwner' /\ NoStalePointer' /\ FinishedLeavesCooldown'
        <5>1. EveryRunHasOwner'
          BY <4>1, <4>2, <4>3
        <5>2. NoStalePointer'
          BY <4>1, <4>2
        <5>3. FinishedLeavesCooldown'
          BY <4>1, <4>2
        <5> QED
          BY <5>1, <5>2, <5>3
      <4>6. AcceptedRunAnswersRequest' /\ DoneMeansSnapshot'
        BY <4>1
      <4> QED
        BY <4>4, <4>5, <4>6
    <3> QED
      BY <2>2, <3>1, <3>2, <3>3, <3>4, <3>5, <3>6, <3>7, <3>8, <3>9, <3>10, <3>11, <3>12,
         <3>13 DEF Worker
  <2>3. ASSUME Environment
        PROVE  JobsInv'
    <3>1. ASSUME NEW q \in Requests, Receive(q)
          PROVE  JobsInv'
      BY <3>1 DEF Receive
    <3>2. ASSUME NEW q \in Requests, HandlerFails(q)
          PROVE  JobsInv'
      BY <3>2 DEF HandlerFails, SpendFault
    <3>3. CASE PopReplyLost
      BY <3>3 DEF PopReplyLost, SpendFault
    <3>4. CASE EscapesToNet
      BY <3>4 DEF EscapesToNet, SpendFault
    <3>5. CASE NetFails
      BY <3>5 DEF NetFails, ForgetPayload, SpendFault
    <3>6. CASE Crash
      BY <3>6 DEF Crash, ForgetPayload, InHandler
    <3>7. ASSUME NEW t \in Tickers, CooldownElapses(t)
          PROVE  JobsInv'
      BY <3>7 DEF CooldownElapses
    <3>8. ASSUME NEW t \in Tickers, NightlyScores(t)
          PROVE  JobsInv'
      BY <3>8 DEF NightlyScores
    <3> QED
      BY <2>3, <3>1, <3>2, <3>3, <3>4, <3>5, <3>6, <3>7, <3>8 DEF Environment
  <2>4. CASE UNCHANGED vars
    BY <2>4 DEF vars
  <2> QED
    BY <2>1, <2>2, <2>3, <2>4 DEF Next
<1> QED
  BY <1>1, <1>2, TypeInvariant, DeliveryInvariant, PTL DEF Spec

\* While no call failed and nothing crashed, no unfinished run is dropped: it is
\* being enqueued, queued, or with the worker.
THEOREM RunsHaveOwners == Spec => []EveryRunHasOwner
<1>1. JobsInv => EveryRunHasOwner
  BY DEF JobsInv
<1> QED
  BY <1>1, JobsInvariant, PTL

\* While no call failed and nothing crashed, a coalesce pointer never outlives
\* its run past _finish's own delete.
THEOREM PointersAreLive == Spec => []NoStalePointer
<1>1. JobsInv => NoStalePointer
  BY DEF JobsInv
<1> QED
  BY <1>1, JobsInvariant, PTL

\* While no call failed and nothing crashed, a finished run always leaves the
\* cooldown marker behind.
THEOREM CooldownIsLeft == Spec => []FinishedLeavesCooldown
<1>1. JobsInv => FinishedLeavesCooldown
  BY DEF JobsInv
<1> QED
  BY <1>1, JobsInvariant, PTL

\* A 202 names an existing run of the ticker that was asked for, whatever fails.
THEOREM AcceptedAnswersRequest == Spec => []AcceptedRunAnswersRequest
<1>1. JobsInv => AcceptedRunAnswersRequest
  BY DEF JobsInv
<1> QED
  BY <1>1, JobsInvariant, PTL

\* A job reporting ready or partial has a covered, scored ticker, whatever
\* fails: the snapshot was written before the status.
THEOREM DoneHasSnapshot == Spec => []DoneMeansSnapshot
<1>1. JobsInv => DoneMeansSnapshot
  BY DEF JobsInv
<1> QED
  BY <1>1, JobsInvariant, PTL

\* Ready is answered for tickers with a snapshot or a finished analysis only,
\* whatever fails.
THEOREM ReadyIsEarned == Spec => []ReadyHasHistory
<1>1. JobsInv => ReadyHasHistory
  BY DEF JobsInv, ReadyInv, ReadyHasHistory
<1> QED
  BY <1>1, JobsInvariant, PTL

-----------------------------------------------------------------------------
(* Terminal answers                                                        *)

\* One step with no fault spent keeps every terminal answer.
LEMMA StepKeepsTerminal ==
    ASSUME TypeInv, DeliveryInv, JobsInv, faults = 0, Next, NEW r \in Requests,
           job[r].status \in Terminal
    PROVE  job'[r] = job[r]
<1> USE DEF TypeInv, TypeOK, DeliveryInv, JobsInv, WorkerInv, Unminted, Minting,
            Undecided, InTry, InNet, Live, Running, Terminal,
            dbVars, redisVars, handlerVars, workerVars, budgetVars
<1>1. ASSUME NEW q \in Requests, Handler(q)
      PROVE  job'[r] = job[r]
  <2>1. CASE EnqueueHash(q)
    <3>1. r # q
      BY <2>1 DEF EnqueueHash
    <3> QED
      BY <2>1, <3>1 DEF EnqueueHash
  <2>2. CASE ~EnqueueHash(q)
    <3>1. UNCHANGED job
      BY <1>1, <2>2 DEF Handler, ReadTicker, ReadSnapshot, GetActive, GetStatus, GetCooldown,
                        NextRefresh, CountPool, EnqueuePointer, EnqueuePush
    <3> QED
      BY <3>1
  <2> QED
    BY <2>1, <2>2
<1>2. ASSUME Worker
      PROVE  job'[r] = job[r]
  <2>1. CASE MarkFetching \/ MarkScoring
    <3>1. wrun # r
      BY <2>1 DEF MarkFetching, MarkScoring, Mark
    <3> QED
      BY <2>1, <3>1 DEF MarkFetching, MarkScoring, Mark
  <2>2. CASE FinishHash
    <3>1. wrun # r
      BY <2>2 DEF FinishHash
    <3> QED
      BY <2>2, <3>1 DEF FinishHash
  <2>3. CASE ~(MarkFetching \/ MarkScoring \/ FinishHash)
    <3>1. UNCHANGED job
      BY <1>2, <2>3 DEF Worker, PollEmpty, Pop, Acquire, Promote, Fetch, Score, JobRaises,
                        FinishDelete, FinishCooldown, Release, vars
    <3> QED
      BY <3>1
  <2> QED
    BY <2>1, <2>2, <2>3
<1>3. ASSUME Environment
      PROVE  job'[r] = job[r]
  <2>1. UNCHANGED job
    BY <1>3 DEF Environment, Receive, HandlerFails, PopReplyLost, EscapesToNet, NetFails,
                Crash, CooldownElapses, NightlyScores
  <2> QED
    BY <2>1
<1> QED
  BY <1>1, <1>2, <1>3 DEF Next

\* However often the process crashes, a terminal answer is final while no call
\* failed: only worker_loop's net, which a fault enters, rewrites one.
THEOREM TerminalFinal == Spec => TerminalIsFinal
<1> DEFINE Inv == TypeInv /\ DeliveryInv /\ JobsInv
<1>1. Inv /\ [Next]_vars =>
        [faults = 0 => \A r \in Requests : job[r].status \in Terminal => job'[r] = job[r]]_vars
  BY StepKeepsTerminal
<1>2. Spec => []Inv
  BY TypeInvariant, DeliveryInvariant, JobsInvariant, PTL
<1> QED
  BY <1>1, <1>2, PTL DEF Spec, TerminalIsFinal

-----------------------------------------------------------------------------
(* The lifecycle that clients poll                                         *)

\* While nothing fails, the status of the run in hand is the one its point in
\* run_job calls for, and no other run is shown as being worked on.
LifeInv ==
    faults = 0 /\ crashes = 0 =>
        /\ \A r \in Requests : job[r].status \in Running => r = wrun
        /\ wpc \in {"acquire", "mark_fetching"} => job[wrun].status = "queued"
        /\ wpc \in {"promote", "fetch", "mark_scoring"} => job[wrun].status = "fetching"
        /\ wpc = "score" => job[wrun].status = "scoring"
        /\ wpc = "finish_hset" => \/ job[wrun].status = "scoring"
                                  \/ job[wrun].status \in {"queued", "fetching"}
                                     /\ verdict.status = "failed"

\* LifeInv is inductive, given the other invariants.
LEMMA LifeInvariant == Spec => []LifeInv
<1> USE ConstantsOK
<1> DEFINE Inv == TypeInv /\ DeliveryInv /\ JobsInv
<1>1. Init => LifeInv
  BY DEF Init, LifeInv, NoJob, Running
<1>2. Inv /\ LifeInv /\ [Next]_vars => LifeInv'
  <2> SUFFICES ASSUME Inv, LifeInv, [Next]_vars
               PROVE  LifeInv'
    OBVIOUS
  <2> USE DEF TypeInv, TypeOK, DeliveryInv, JobsInv, WorkerInv, LifeInv, Unminted, Minting,
              Answers, Job, Live, Running, Terminal, Finishing, Deciding, Undecided,
              InTry, InFinish, InNet,
              Goto, dbVars, redisVars, handlerVars, workerVars, budgetVars
  <2>1. ASSUME NEW q \in Requests, Handler(q)
        PROVE  LifeInv'
    <3>1. CASE EnqueueHash(q)
      <4>1. q # wrun
        BY <3>1 DEF EnqueueHash
      <4> QED
        BY <3>1, <4>1 DEF EnqueueHash
    <3>2. CASE ~EnqueueHash(q)
      <4>1. UNCHANGED <<job, workerVars, budgetVars>>
        BY <2>1, <3>2 DEF Handler, ReadTicker, ReadSnapshot, GetActive, GetStatus, GetCooldown,
                          NextRefresh, CountPool, EnqueuePointer, EnqueuePush
      <4> QED
        BY <4>1
    <3> QED
      BY <3>1, <3>2
  <2>2. ASSUME Worker
        PROVE  LifeInv'
    <3>1. CASE PollEmpty
      BY <3>1 DEF PollEmpty, vars
    <3>2. CASE Pop
      <4>1. wrun = NoRun /\ wrun' \in Requests /\ job[wrun'].status = "queued"
        BY <3>2, TailEntries DEF Pop
      <4> QED
        BY <3>2, <4>1 DEF Pop
    <3>3. CASE Acquire
      BY <3>3 DEF Acquire
    <3>4. CASE MarkFetching
      BY <3>4 DEF MarkFetching, Mark
    <3>5. CASE MarkScoring
      BY <3>5 DEF MarkScoring, Mark
    <3>6. CASE Promote
      BY <3>6 DEF Promote
    <3>7. CASE Fetch
      BY <3>7 DEF Fetch
    <3>8. CASE Score
      BY <3>8 DEF Score
    <3>9. CASE JobRaises
      BY <3>9 DEF JobRaises
    <3>10. CASE FinishHash
      BY <3>10 DEF FinishHash
    <3>11. CASE FinishDelete
      BY <3>11 DEF FinishDelete
    <3>12. CASE FinishCooldown
      BY <3>12 DEF FinishCooldown, ForgetPayload
    <3>13. CASE Release
      BY <3>13 DEF Release, ForgetPayload
    <3> QED
      BY <2>2, <3>1, <3>2, <3>3, <3>4, <3>5, <3>6, <3>7, <3>8, <3>9, <3>10, <3>11, <3>12,
         <3>13 DEF Worker
  <2>3. ASSUME Environment
        PROVE  LifeInv'
    <3>1. ASSUME NEW q \in Requests, Receive(q)
          PROVE  LifeInv'
      BY <3>1 DEF Receive
    <3>2. ASSUME NEW t \in Tickers, CooldownElapses(t) \/ NightlyScores(t)
          PROVE  LifeInv'
      BY <3>2 DEF CooldownElapses, NightlyScores
    <3>3. ASSUME faults' = faults + 1 \/ crashes' = crashes + 1
          PROVE  LifeInv'
      BY <3>3
    <3>4. ASSUME NEW q \in Requests, HandlerFails(q)
          PROVE  faults' = faults + 1
      BY <3>4 DEF HandlerFails, SpendFault
    <3>5. PopReplyLost \/ EscapesToNet \/ NetFails => faults' = faults + 1
      BY DEF PopReplyLost, EscapesToNet, NetFails, SpendFault
    <3>6. Crash => crashes' = crashes + 1
      BY DEF Crash
    <3> QED
      BY <2>3, <3>1, <3>2, <3>3, <3>4, <3>5, <3>6 DEF Environment
  <2>4. CASE UNCHANGED vars
    BY <2>4 DEF vars
  <2> QED
    BY <2>1, <2>2, <2>3, <2>4 DEF Next
<1>3. Spec => []Inv
  BY TypeInvariant, DeliveryInvariant, JobsInvariant, PTL
<1> QED
  BY <1>1, <1>2, <1>3, PTL DEF Spec

\* What polling shows of every run: the refinement's stage.
Polled == [r \in Requests |-> PollAnswer(r).stage]

\* A write to one hash changes what is polled of that run and of no other.
LEMMA HashIsPolled ==
    ASSUME job \in [Requests -> Job], NEW r \in Requests, NEW s, s # "none", NEW reason,
           job' = [job EXCEPT ![r] = [status |-> s, reason |-> reason]]
    PROVE  Polled' = [Polled EXCEPT ![r] = s]
BY DEF Polled, PollAnswer

\* A run without a hash is polled as unknown, any other as its status.
LEMMA PolledIs ==
    ASSUME NEW r \in Requests
    PROVE  /\ job[r].status # "none" => Polled[r] = job[r].status
           /\ job[r].status = "none" => Polled[r] = "unknown"
BY DEF Polled, PollAnswer

\* A popped run in front of the queue, and one that is pushed behind it.
LEMMA LineWithHead ==
    ASSUME NEW S, NEW w \in S, NEW s \in Seq(S)
    PROVE  /\ <<w>> \o s # <<>> /\ Head(<<w>> \o s) = w /\ Tail(<<w>> \o s) = s
           /\ \A q \in S : Append(<<w>> \o s, q) = <<w>> \o Append(s, q)
           /\ \A q \in S : q # w /\ (\A i \in DOMAIN s : s[i] # q) =>
                              \A i \in DOMAIN (<<w>> \o s) : (<<w>> \o s)[i] # q
           /\ s # <<>> => <<Head(s)>> \o Tail(s) = s
<1>1. <<w>> \in Seq(S) /\ Len(<<w>>) = 1
  OBVIOUS
<1>2. /\ <<w>> \o s \in Seq(S) /\ Len(<<w>> \o s) = 1 + Len(s)
      /\ \A i \in 1 .. 1 + Len(s) :
            (<<w>> \o s)[i] = IF i <= 1 THEN <<w>>[i] ELSE s[i - 1]
  BY <1>1, ConcatProperties
<1>3. Len(s) \in Nat /\ DOMAIN s = 1 .. Len(s)
  BY LenProperties
<1>4. <<w>> \o s # <<>> /\ Head(<<w>> \o s) = w
  BY <1>2, <1>3, EmptySeq
<1>5. Tail(<<w>> \o s) = s
  <2> DEFINE c == <<w>> \o s
  <2>1. c \in Seq(S) /\ c # <<>> /\ Len(c) = 1 + Len(s)
    BY <1>2, <1>4
  <2>2. \A i \in 1 .. Len(s) : c[i + 1] = s[i]
    BY <1>2, <1>3
  <2> HIDE DEF c
  <2>3. /\ Tail(c) \in Seq(S) /\ Len(Tail(c)) = Len(c) - 1
        /\ \A i \in 1 .. Len(Tail(c)) : Tail(c)[i] = c[i + 1]
    BY <2>1, HeadTailProperties
  <2>4. Len(Tail(c)) = Len(s) /\ \A i \in 1 .. Len(Tail(c)) : Tail(c)[i] = s[i]
    BY <1>3, <2>1, <2>2, <2>3
  <2>5. Tail(c) = s
    BY <2>3, <2>4, SeqEqual
  <2> QED
    BY <2>5 DEF c
<1>6. ASSUME NEW q \in S
      PROVE  Append(<<w>> \o s, q) = <<w>> \o Append(s, q)
  <2>1. <<q>> \in Seq(S)
    OBVIOUS
  <2>2. Append(<<w>> \o s, q) = (<<w>> \o s) \o <<q>> /\ Append(s, q) = s \o <<q>>
    BY <1>2, AppendIsConcat
  <2> QED
    BY <1>1, <2>1, <2>2, ConcatAssociative
<1>7. ASSUME NEW q \in S, q # w, \A i \in DOMAIN s : s[i] # q,
             NEW i \in DOMAIN (<<w>> \o s)
      PROVE  (<<w>> \o s)[i] # q
  <2>1. i \in 1 .. 1 + Len(s)
    BY <1>2, LenProperties
  <2> QED
    BY <1>2, <1>3, <1>7, <2>1
<1>8. ASSUME s # <<>>
      PROVE  <<Head(s)>> \o Tail(s) = s
  BY <1>8
<1> QED
  BY <1>4, <1>5, <1>6, <1>7, <1>8

\* A step without failures is a step of the lifecycle, or none.
LEMMA LifecycleStep ==
    ASSUME TypeInv, TypeInv', DeliveryInv, JobsInv, LifeInv, faults = 0, crashes = 0,
           MaxFaults = 0, MaxCrashes = 0, [Next]_vars
    PROVE  [Lifecycle!Next]_(Lifecycle!vars)
<1> USE ConstantsOK
<1> DEFINE Quiet == Polled' = Polled /\ InLine' = InLine
<1>1. Quiet => UNCHANGED Lifecycle!vars
  BY DEF Lifecycle!vars, Polled
<1>2. UNCHANGED <<job, queue, wrun>> => Quiet
  BY DEF Polled, PollAnswer, InLine
<1> USE DEF TypeInv, TypeOK, DeliveryInv, JobsInv, WorkerInv, LifeInv
<1>3. InLine = queue \/ (InLine = <<wrun>> \o queue /\ wrun \in Requests)
  BY DEF InLine
<1>4. ASSUME NEW q \in Requests, Handler(q)
      PROVE  [Lifecycle!Next]_(Lifecycle!vars)
  <2>1. CASE EnqueueHash(q)
    <3>1. /\ job' = [job EXCEPT ![q] = [status |-> "queued", reason |-> "none"]]
          /\ UNCHANGED <<queue, wrun>>
          /\ job[q].status = "none" /\ q # wrun
      BY <2>1 DEF EnqueueHash, Unminted, Answers, workerVars
    <3>2. Polled' = [Polled EXCEPT ![q] = "queued"]
      <4>1. job \in [Requests -> Job] /\ "queued" # "none"
        OBVIOUS
      <4> QED
        BY ONLY <1>4, <3>1, <4>1, HashIsPolled
    <3>3. Polled[q] = "unknown"
      BY <3>1, PolledIs
    <3>4. InLine' = InLine
      BY <3>1 DEF InLine
    <3>5. Lifecycle!Enroll(q)
      BY <3>2, <3>3, <3>4 DEF Lifecycle!Enroll, Polled
    <3> QED
      BY <3>5 DEF Lifecycle!Next
  <2>2. CASE EnqueuePush(q)
    <3>1. /\ queue' = Append(queue, q) /\ UNCHANGED <<job, wrun>>
          /\ job[q].status = "queued" /\ q # wrun
          /\ \A i \in DOMAIN queue : queue[i] # q
      BY <2>2 DEF EnqueuePush, Minting, Answers, workerVars
    <3>2. Polled' = Polled /\ Polled[q] = "queued"
      BY <3>1, PolledIs DEF Polled, PollAnswer
    <3>3. wrun \in Requests =>
            /\ Append(<<wrun>> \o queue, q) = <<wrun>> \o Append(queue, q)
            /\ \A i \in DOMAIN (<<wrun>> \o queue) : (<<wrun>> \o queue)[i] # q
      <4>1. queue \in Seq(Requests) /\ q # wrun /\ \A i \in DOMAIN queue : queue[i] # q
        BY <3>1
      <4> QED
        BY ONLY SMTT(30), <1>4, <4>1, LineWithHead
    <3>4. InLine' = Append(InLine, q) /\ \A i \in DOMAIN InLine : InLine[i] # q
      <4>1. CASE InLine = queue
        BY <3>1, <4>1 DEF InLine
      <4>2. CASE InLine # queue
        BY <1>3, <3>1, <3>3, <4>2 DEF InLine
      <4> QED
        BY <4>1, <4>2
    <3>5. Lifecycle!Join(q)
      BY <3>2, <3>4 DEF Lifecycle!Join, Polled
    <3> QED
      BY <3>5 DEF Lifecycle!Next
  <2>3. CASE ~(EnqueueHash(q) \/ EnqueuePush(q))
    <3>1. UNCHANGED <<job, queue, wrun>>
      BY <1>4, <2>3 DEF Handler, ReadTicker, ReadSnapshot, GetActive, GetStatus, GetCooldown,
                        NextRefresh, CountPool, EnqueuePointer, redisVars, workerVars
    <3> QED
      BY <1>1, <1>2, <3>1
  <2> QED
    BY <2>1, <2>2, <2>3
<1>5. ASSUME NEW s, s # "none", NEW reason, wrun # NoRun,
             job' = [job EXCEPT ![wrun] = [status |-> s, reason |-> reason]],
             UNCHANGED <<queue, wrun>>,
             \/ job[wrun].status = "queued" /\ s \in {"fetching", "failed"}
             \/ job[wrun].status = "fetching" /\ s \in {"scoring", "failed"}
             \/ job[wrun].status = "scoring" /\ s \in Terminal
      PROVE  [Lifecycle!Next]_(Lifecycle!vars)
  <2>1. wrun \in Requests /\ Polled' = [Polled EXCEPT ![wrun] = s]
    BY ZenonT(40), <1>5, HashIsPolled
  <2>2. Polled[wrun] = job[wrun].status
    BY <1>5, <2>1, PolledIs
  <2>3. job'[wrun].status = s
    BY <1>5, <2>1
  <2>4. CASE job[wrun].status = "queued"
    <3>1. InLine = <<wrun>> \o queue /\ InLine' = queue
      BY <1>5, <2>3, <2>4 DEF InLine
    <3>2. InLine # <<>> /\ Head(InLine) = wrun /\ Tail(InLine) = queue
      <4>1. wrun \in Requests /\ queue \in Seq(Requests)
        BY <2>1
      <4> QED
        BY ONLY <3>1, <4>1, LineWithHead
    <3>3. Lifecycle!NobodyWorking
      <4> SUFFICES ASSUME NEW r \in Requests
                   PROVE  Polled[r] \notin {"fetching", "scoring"}
        BY DEF Lifecycle!NobodyWorking, Polled
      <4>1. job[r].status \notin Running
        BY <2>4 DEF Running
      <4> QED
        BY <4>1, PolledIs DEF Running
    <3>4. Lifecycle!Start
      BY <1>5, <2>1, <2>4, <3>1, <3>2, <3>3 DEF Lifecycle!Start, Polled
    <3> QED
      BY <3>4 DEF Lifecycle!Next
  <2>5. CASE job[wrun].status \in {"fetching", "scoring"}
    <3>1. InLine' = InLine
      BY <1>5, <2>3, <2>5 DEF InLine, Terminal
    <3>2. Lifecycle!Advance(wrun) \/ Lifecycle!Complete(wrun)
      BY <1>5, <2>1, <2>2, <2>5, <3>1
         DEF Lifecycle!Advance, Lifecycle!Complete, Lifecycle!Terminal, Terminal, Polled
    <3> QED
      BY <2>1, <3>2 DEF Lifecycle!Next
  <2> QED
    BY <1>5, <2>4, <2>5
<1>6. ASSUME Worker
      PROVE  [Lifecycle!Next]_(Lifecycle!vars)
  <2>1. CASE Pop
    <3>1. /\ queue # <<>> /\ queue' = Tail(queue) /\ wrun' = Head(queue) /\ wrun = NoRun
          /\ UNCHANGED job
      BY <2>1 DEF Pop
    <3>2. wrun' \in Requests /\ job[wrun'].status = "queued"
      BY <3>1, TailEntries
    <3>3. InLine = queue /\ InLine' = <<Head(queue)>> \o Tail(queue)
      BY <3>1, <3>2 DEF InLine
    <3>4. <<Head(queue)>> \o Tail(queue) = queue
      <4>1. queue \in Seq(Requests) /\ wrun' \in Requests
        BY <3>2
      <4> QED
        BY ONLY <3>1, <4>1, LineWithHead
    <3>5. Quiet
      BY <3>1, <3>3, <3>4 DEF Polled, PollAnswer
    <3> QED
      BY <1>1, <3>5
  <2>2. CASE MarkFetching
    BY <1>5, <2>2 DEF MarkFetching, Mark
  <2>3. CASE MarkScoring
    BY <1>5, <2>3 DEF MarkScoring, Mark
  <2>4. CASE FinishHash
    <3>1. wpc = "finish_hset" /\ wrun # NoRun /\ UNCHANGED <<queue, wrun>>
      BY <2>4 DEF FinishHash, InNet
    <3>2. verdict.status \in Terminal
      BY <3>1 DEF Deciding
    <3>3. PICK reason : job' = [job EXCEPT ![wrun] =
                                   [status |-> verdict.status, reason |-> reason]]
      BY <2>4 DEF FinishHash
    <3> QED
      BY <1>5, <3>1, <3>2, <3>3 DEF Terminal
  <2>5. CASE FinishCooldown \/ Release
    <3>1. UNCHANGED <<job, queue>> /\ wrun' \in {wrun, NoRun}
      BY <2>5 DEF FinishCooldown, Release, ForgetPayload, redisVars
    <3>2. wpc \in Finishing /\ job[wrun].status # "queued"
      BY <2>5 DEF FinishCooldown, Release, Finishing, Terminal
    <3>3. Quiet
      BY <3>1, <3>2 DEF Polled, PollAnswer, InLine
    <3> QED
      BY <1>1, <3>3
  <2>6. CASE PollEmpty \/ Acquire \/ Promote \/ Fetch \/ Score \/ JobRaises \/ FinishDelete
    <3>1. UNCHANGED <<job, queue, wrun>>
      BY <2>6 DEF PollEmpty, Acquire, Promote, Fetch, Score, JobRaises, FinishDelete,
                  vars, redisVars, workerVars
    <3> QED
      BY <1>1, <1>2, <3>1
  <2> QED
    BY <1>6, <2>1, <2>2, <2>3, <2>4, <2>5, <2>6 DEF Worker
<1>7. ASSUME Environment
      PROVE  [Lifecycle!Next]_(Lifecycle!vars)
  <2>1. ~SpendFault /\ ~Crash
    BY DEF SpendFault, Crash
  <2>2. UNCHANGED <<job, queue, wrun>>
    <3>1. ASSUME NEW q \in Requests, Receive(q)
          PROVE  UNCHANGED <<job, queue, wrun>>
      BY <3>1 DEF Receive, redisVars, workerVars
    <3>2. ASSUME NEW t \in Tickers, CooldownElapses(t) \/ NightlyScores(t)
          PROVE  UNCHANGED <<job, queue, wrun>>
      BY <3>2 DEF CooldownElapses, NightlyScores, redisVars, workerVars
    <3>3. \A q \in Requests : ~HandlerFails(q)
      BY <2>1 DEF HandlerFails
    <3>4. ~PopReplyLost /\ ~EscapesToNet /\ ~NetFails
      BY <2>1 DEF PopReplyLost, EscapesToNet, NetFails
    <3> QED
      BY <1>7, <2>1, <3>1, <3>2, <3>3, <3>4 DEF Environment
  <2> QED
    BY <1>1, <1>2, <2>2
<1>8. CASE UNCHANGED vars
  <2>1. UNCHANGED <<job, queue, wrun>>
    BY <1>8 DEF vars, redisVars, workerVars
  <2> QED
    BY <1>1, <1>2, <2>1
<1> QED
  BY <1>4, <1>6, <1>7, <1>8 DEF Next

\* Without failed calls and crashes, the handlers, the queue and the worker
\* implement the lifecycle that clients poll, for any number of requests.
THEOREM LifecycleImplemented ==
    ASSUME MaxFaults = 0, MaxCrashes = 0
    PROVE  Spec => Lifecycle!Spec
<1> DEFINE Inv == TypeInv /\ DeliveryInv /\ JobsInv /\ LifeInv
<1>1. Init => Lifecycle!Init
  BY DEF Init, Lifecycle!Init, PollAnswer, InLine, NoJob
<1>2. Inv /\ Inv' /\ [Next]_vars => [Lifecycle!Next]_(Lifecycle!vars)
  <2>1. TypeInv => faults = 0 /\ crashes = 0
    BY DEF TypeInv, TypeOK
  <2> QED
    BY <2>1, LifecycleStep
<1>3. Spec => []Inv
  BY TypeInvariant, DeliveryInvariant, JobsInvariant, LifeInvariant, PTL
<1> QED
  BY <1>1, <1>2, <1>3, PTL DEF Spec, Lifecycle!Spec
=============================================================================
