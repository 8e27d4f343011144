------------------------- MODULE PriceIngestProofs -------------------------
(***************************************************************************)
(* Theorems of PriceIngest for every list of tickers and of benchmarks,    *)
(* every incremental window and every number of days and of attempts.      *)
(***************************************************************************)
EXTENDS PriceIngest, FiniteSetTheorems, Lemmas

-----------------------------------------------------------------------------
(* The series of bars                                                      *)

\* What the tables are, and that a symbol whose fetch never stored anything
\* has no bar, so that its next fetch is the backfill.
BarsInv ==
    /\ day \in Days
    /\ priceBar \in [Symbols -> SUBSET Days]
    /\ landed \in [Symbols -> SUBSET Days]
    /\ \A s \in Symbols : \A n \in landed[s] : n <= day
    /\ \A s \in Symbols : landed[s] = {} => priceBar[s] = {}

\* The part of a step that touches the tables: none, the day, or one fetch.
Stores(symbol) ==
    \E todayUsable \in BOOLEAN :
        LET rows == UsableRows(symbol, todayUsable)
        IN /\ rows # {}
           /\ priceBar' = [priceBar EXCEPT ![symbol] = @ \union rows]
           /\ landed' = [landed EXCEPT ![symbol] = @ \union {day}]
           /\ day' = day

\* A step lets a day pass, stores the rows of one fetch, or leaves the tables alone.
LEMMA StepsStore ==
    ASSUME [PriceNext]_priceVars
    PROVE  \/ UNCHANGED <<day, priceBar, landed>>
           \/ day < LastDay /\ day' = day + 1 /\ UNCHANGED <<priceBar, landed>>
           \/ \E symbol : Stores(symbol)
<1>1. CASE PriceNext
  <2>1. CASE \E t \in Tickers : Promote(t) \/ StartOnDemand(t)
    BY <2>1 DEF Promote, StartOnDemand, Start
  <2>2. CASE Tick
    BY <2>2 DEF Tick
  <2>3. CASE StartNightly
    BY <2>3 DEF StartNightly, Start
  <2>4. CASE TryAgain
    BY <2>4 DEF TryAgain
  <2>5. CASE \E reply \in Reply : CallFails(reply)
    BY <2>5 DEF CallFails
  <2>6. CASE NoUsableRows
    BY <2>6 DEF NoUsableRows
  <2>7. CASE \E todayUsable \in BOOLEAN : BarsLand(todayUsable)
    BY <2>7 DEF BarsLand, Stores
  <2>8. CASE FundamentalsLand
    BY <2>8 DEF FundamentalsLand
  <2> QED
    BY <1>1, <2>1, <2>2, <2>3, <2>4, <2>5, <2>6, <2>7, <2>8 DEF PriceNext
<1>2. CASE UNCHANGED priceVars
  BY <1>2 DEF priceVars
<1> QED
  BY <1>1, <1>2

\* A fetch never invents days, and one of a symbol without bars brings all
\* but perhaps today.
LEMMA RowsAreDays ==
    ASSUME PriceConstantsOK, BarsInv, NEW symbol \in Symbols, NEW todayUsable \in BOOLEAN
    PROVE  LET rows == UsableRows(symbol, todayUsable)
           IN /\ rows \subseteq Days
              /\ \A d \in Days : day - Window < d /\ d < day => d \in rows
              /\ landed[symbol] = {} => \A d \in Days : d < day => d \in rows
BY DEF PriceConstantsOK, BarsInv, UsableRows, Period, Days

\* Both hold initially and every step of the component preserves them.
LEMMA BarsInvariant ==
    ASSUME PriceConstantsOK
    PROVE  PriceSpec => [](BarsInv /\ HolesNeedAnOutage)
<1>1. PriceInit => BarsInv /\ HolesNeedAnOutage
  BY DEF PriceConstantsOK, PriceInit, BarsInv, HolesNeedAnOutage, Days
<1>2. BarsInv /\ HolesNeedAnOutage /\ [PriceNext]_priceVars => BarsInv' /\ HolesNeedAnOutage'
  <2> SUFFICES ASSUME BarsInv, HolesNeedAnOutage, [PriceNext]_priceVars
               PROVE  BarsInv' /\ HolesNeedAnOutage'
    OBVIOUS
  <2>1. CASE UNCHANGED <<day, priceBar, landed>>
    BY <2>1 DEF BarsInv, HolesNeedAnOutage
  <2>2. CASE day < LastDay /\ day' = day + 1 /\ UNCHANGED <<priceBar, landed>>
    <3>1. BarsInv'
      BY <2>2 DEF PriceConstantsOK, BarsInv, Days
    <3>2. HolesNeedAnOutage'
      BY <2>2 DEF HolesNeedAnOutage
    <3> QED
      BY <3>1, <3>2
  <2>3. ASSUME NEW symbol, Stores(symbol)
        PROVE  BarsInv' /\ HolesNeedAnOutage'
    <3>1. CASE symbol \notin Symbols
      <4>1. UNCHANGED <<day, priceBar, landed>>
        BY <2>3, <3>1 DEF Stores, BarsInv
      <4> QED
        BY <4>1 DEF BarsInv, HolesNeedAnOutage
    <3>2. CASE symbol \in Symbols
      <4>1. PICK todayUsable \in BOOLEAN :
                /\ priceBar' = [priceBar EXCEPT ![symbol] = @ \union UsableRows(symbol, todayUsable)]
                /\ landed' = [landed EXCEPT ![symbol] = @ \union {day}]
                /\ day' = day
        BY <2>3 DEF Stores
      <4> DEFINE rows == UsableRows(symbol, todayUsable)
      <4>2. /\ rows \subseteq Days
            /\ \A d \in Days : day - Window < d /\ d < day => d \in rows
            /\ landed[symbol] = {} => \A d \in Days : d < day => d \in rows
        BY <3>2, RowsAreDays
      <4> HIDE DEF rows
      <4>3. \A s \in Symbols :
                /\ priceBar'[s] = (IF s = symbol THEN priceBar[s] \union rows ELSE priceBar[s])
                /\ landed'[s] = (IF s = symbol THEN landed[s] \union {day} ELSE landed[s])
        BY <3>2, <4>1 DEF BarsInv, rows
      <4>4. BarsInv'
        <5>1. priceBar' \in [Symbols -> SUBSET Days] /\ landed' \in [Symbols -> SUBSET Days]
          BY <4>1, <4>2 DEF BarsInv, rows
        <5>2. day' \in Days /\ day' = day /\ day \in Int
          BY <4>1 DEF BarsInv, Days
        <5>3. \A s \in Symbols : \A n \in landed'[s] : n <= day'
          <6> SUFFICES ASSUME NEW s \in Symbols, NEW n \in landed'[s]
                       PROVE  n <= day'
            OBVIOUS
          <6>1. n \in landed[s] \/ n = day
            BY <4>3
          <6>2. n \in landed[s] => n <= day
            BY DEF BarsInv
          <6>3. day <= day
            BY <5>2
          <6> QED
            BY <5>2, <6>1, <6>2, <6>3
        <5>4. \A s \in Symbols : landed'[s] = {} => priceBar'[s] = {}
          <6> SUFFICES ASSUME NEW s \in Symbols, landed'[s] = {}
                       PROVE  priceBar'[s] = {}
            OBVIOUS
          <6>1. s # symbol
            BY <4>3
          <6> QED
            BY <4>3, <6>1 DEF BarsInv
        <5> QED
          BY <5>1, <5>2, <5>3, <5>4 DEF BarsInv
      <4>5. ASSUME NEW s \in Symbols, NEW n \in landed'[s], NEW d \in Days
            PROVE  /\ (n - Window < d /\ d < n) => d \in priceBar'[s]
                   /\ (d < n /\ \A m \in landed'[s] : n <= m) => d \in priceBar'[s]
        <5>1. CASE n \in landed[s]
          BY <4>3, <4>5, <5>1 DEF HolesNeedAnOutage
        <5>2. CASE n \notin landed[s]
          <6>1. s = symbol /\ n = day
            BY <4>3, <4>5, <5>2
          <6>2. (n - Window < d /\ d < n) => d \in priceBar'[s]
            BY <4>2, <4>3, <6>1
          <6>3. ASSUME d < n, \A m \in landed'[s] : n <= m
                PROVE  d \in priceBar'[s]
            <7>1. landed[s] = {}
              <8> SUFFICES ASSUME NEW m \in landed[s]
                           PROVE  FALSE
                OBVIOUS
              <8>1. m \in Days /\ day \in Days /\ m <= day
                BY <6>1 DEF BarsInv
              <8>2. m \in landed'[s]
                BY <4>3
              <8>3. day <= m
                BY <6>1, <6>3, <8>2
              <8>4. m = day
                BY <8>1, <8>3 DEF Days
              <8> QED
                BY <5>2, <6>1, <8>4
            <7> QED
              BY <4>2, <4>3, <6>1, <6>3, <7>1
          <6> QED
            BY <6>2, <6>3
        <5> QED
          BY <5>1, <5>2
      <4> QED
        BY <4>4, <4>5 DEF HolesNeedAnOutage
    <3> QED
      BY <3>1, <3>2
  <2> QED
    BY <2>1, <2>2, <2>3, StepsStore
<1> QED
  BY <1>1, <1>2, PTL DEF PriceSpec

\* A day is missing from a series only if no fetch of the symbol stored
\* anything in the window after it, whatever fails, whenever it fails and
\* however often runs overlap a promotion.
THEOREM HolesAreOutages ==
    ASSUME PriceConstantsOK
    PROVE  PriceSpec => []HolesNeedAnOutage
BY BarsInvariant, PTL

-----------------------------------------------------------------------------
(* The loop over the covered tickers, and the one over the benchmarks      *)

\* The list in hand never repeats a ticker and is never empty inside a loop;
\* the benchmarks are only reached from a nightly run that had a success.
LoopInv ==
    /\ covered \subseteq Tickers /\ ok \subseteq Tickers
    /\ nightly \in BOOLEAN
    /\ step \in {"bars", "fundamentals"}
    /\ attempt \in 1 .. RetryAttempts
    /\ \/ phase = "idle" /\ todo = <<>> /\ verdict \in {"none", "ok", "unavailable"}
       \/ /\ phase = "covered" /\ verdict = "running"
          /\ todo \in Seq(Tickers) /\ todo # <<>> /\ IsInjective(todo)
       \/ /\ phase = "benchmarks" /\ verdict = "running"
          /\ todo \in Seq(Range(BenchmarkSymbols)) /\ todo # <<>>
          /\ nightly /\ ok # {}

\* A step that leaves the loop as it is keeps the invariant.
LEMMA LoopUnchanged ==
    ASSUME LoopInv, UNCHANGED <<phase, nightly, todo, ok, verdict>>,
           covered' \subseteq Tickers,
           step' \in {"bars", "fundamentals"}, attempt' \in 1 .. RetryAttempts
    PROVE  LoopInv'
BY DEF LoopInv

\* Settling an item keeps it, on whichever side of the end of a loop.
LEMMA SettleLoop ==
    ASSUME PriceConstantsOK, LoopInv, phase # "idle", NEW succeeded \in BOOLEAN,
           Settle(succeeded), UNCHANGED <<covered, nightly>>
    PROVE  LoopInv'
<1> DEFINE good == IF succeeded THEN ok \union {Head(todo)} ELSE ok
           last == Len(todo) = 1
           benchmarksNext == phase = "covered" /\ good # {} /\ nightly
<1>1. attempt' \in 1 .. RetryAttempts /\ step' \in {"bars", "fundamentals"}
  BY RetryAttemptsOK DEF Settle
<1>2. ok' = (IF phase = "covered" THEN good ELSE ok)
  BY DEF Settle
<1>3. phase' = (IF ~last THEN phase ELSE IF benchmarksNext THEN "benchmarks" ELSE "idle")
  BY DEF Settle
<1>4. todo' = (IF last /\ benchmarksNext THEN BenchmarkSymbols ELSE Tail(todo))
  BY DEF Settle
<1>5. verdict' = (IF phase' # "idle" THEN "running" ELSE IF ok' = {} THEN "unavailable" ELSE "ok")
  BY DEF Settle
<1>6. CASE phase = "covered"
  <2>1. todo \in Seq(Tickers) /\ todo # <<>> /\ IsInjective(todo)
    BY <1>6 DEF LoopInv
  <2>2. /\ Tail(todo) \in Seq(Tickers) /\ IsInjective(Tail(todo))
        /\ Tail(todo) = <<>> <=> last
    BY <2>1, TailOfInjective
  <2>3. Head(todo) \in Tickers
    BY <2>1, HeadTailProperties
  <2>4. good \subseteq Tickers
    BY <2>3 DEF LoopInv
  <2>5. BenchmarkSymbols \in Seq(Range(BenchmarkSymbols)) /\ BenchmarkSymbols # <<>>
    BY DEF PriceConstantsOK
  <2> HIDE DEF good, last
  <2>6. CASE ~last
    BY <1>1, <1>2, <1>3, <1>4, <1>5, <1>6, <2>2, <2>4, <2>6 DEF LoopInv
  <2>7. CASE last /\ benchmarksNext
    BY <1>1, <1>2, <1>3, <1>4, <1>5, <1>6, <2>4, <2>5, <2>7 DEF LoopInv
  <2>8. CASE last /\ ~benchmarksNext
    BY <1>1, <1>2, <1>3, <1>4, <1>5, <1>6, <2>2, <2>4, <2>8 DEF LoopInv
  <2> QED
    BY <2>6, <2>7, <2>8
<1>7. CASE phase = "benchmarks"
  <2>1. todo \in Seq(Range(BenchmarkSymbols)) /\ todo # <<>> /\ nightly /\ ok # {}
    BY <1>7 DEF LoopInv
  <2>2. Tail(todo) \in Seq(Range(BenchmarkSymbols)) /\ Len(Tail(todo)) = Len(todo) - 1
    BY <2>1, HeadTailProperties
  <2>3. Len(todo) \in Nat /\ (Tail(todo) = <<>> <=> Len(Tail(todo)) = 0)
    BY <2>1, <2>2, EmptySeq, LenProperties
  <2>4. Tail(todo) = <<>> <=> last
    BY <2>2, <2>3
  <2> HIDE DEF last
  <2> QED
    BY <1>1, <1>2, <1>3, <1>4, <1>5, <1>7, <2>1, <2>2, <2>4 DEF LoopInv
<1> QED
  BY <1>6, <1>7 DEF LoopInv

\* The two lists a run can start with.
LEMMA StartLists ==
    ASSUME PriceConstantsOK, LoopInv
    PROVE  /\ \A list \in [1 .. Cardinality(covered) -> covered] :
                 InIdOrder(list) => list \in Seq(Tickers) /\ IsInjective(list)
           /\ \A t \in Tickers : LET list == IF t \in covered THEN <<t>> ELSE <<>>
                                 IN list \in Seq(Tickers) /\ IsInjective(list)
<1>1. IsFiniteSet(Tickers)
  BY RangeFinite DEF PriceConstantsOK, Tickers
<1>2. Cardinality(covered) \in Nat
  BY <1>1, FS_Subset, FS_CardinalityType DEF LoopInv
<1>3. ASSUME NEW list \in [1 .. Cardinality(covered) -> covered], InIdOrder(list)
      PROVE  list \in Seq(Tickers) /\ IsInjective(list)
  <2>1. list \in [1 .. Cardinality(covered) -> Tickers]
    BY DEF LoopInv
  <2>2. list \in Seq(Tickers)
    BY <1>2, <2>1, SeqDef
  <2>3. ASSUME NEW i \in DOMAIN list, NEW j \in DOMAIN list, list[i] = list[j], i < j
        PROVE  FALSE
    <3>1. PICK m, n \in DOMAIN Listing : m < n /\ Listing[m] = list[i] /\ Listing[n] = list[j]
      BY <1>3, <2>3 DEF InIdOrder
    <3>2. m = n
      BY <2>3, <3>1 DEF PriceConstantsOK, IsInjective
    <3>3. DOMAIN Listing = 1..Len(Listing)
      BY LenProperties DEF PriceConstantsOK
    <3> QED
      BY <3>1, <3>2, <3>3
  <2>4. \A i, j \in DOMAIN list : list[i] = list[j] => ~(i < j) /\ ~(j < i)
    BY <2>3
  <2>5. \A i, j \in DOMAIN list : ~(i < j) /\ ~(j < i) => i = j
    BY <1>2
  <2> QED
    BY <2>2, <2>4, <2>5 DEF IsInjective
<1>4. ASSUME NEW t \in Tickers
      PROVE  LET list == IF t \in covered THEN <<t>> ELSE <<>>
             IN list \in Seq(Tickers) /\ IsInjective(list)
  BY DEF IsInjective
<1> QED
  BY <1>3, <1>4

\* A run starts its loop with a list without duplicates.
LEMMA StartLoop ==
    ASSUME LoopInv, NEW isNightly \in BOOLEAN, NEW list \in Seq(Tickers), IsInjective(list),
           Start(isNightly, list)
    PROVE  LoopInv'
BY DEF Start, LoopInv

\* The loop's invariant holds initially and every step preserves it.
LEMMA LoopInvariant ==
    ASSUME PriceConstantsOK
    PROVE  PriceSpec => []LoopInv
<1>1. PriceInit => LoopInv
  <2>1. 1 \in 1 .. RetryAttempts
    BY RetryAttemptsOK
  <2> QED
    BY <2>1 DEF PriceInit, LoopInv
<1>2. LoopInv /\ [PriceNext]_priceVars => LoopInv'
  <2> SUFFICES ASSUME LoopInv, [PriceNext]_priceVars
               PROVE  LoopInv'
    OBVIOUS
  <2>1. ASSUME NEW t \in Tickers, Promote(t)
        PROVE  LoopInv'
    BY <2>1 DEF Promote, priceLoop, LoopInv
  <2>2. ASSUME NEW t \in Tickers, StartOnDemand(t)
        PROVE  LoopInv'
    BY <2>2, StartLists, StartLoop DEF StartOnDemand
  <2>3. CASE Tick
    BY <2>3 DEF Tick, priceLoop, LoopInv
  <2>4. CASE StartNightly
    BY <2>4, StartLists, StartLoop DEF StartNightly
  <2>5. CASE TryAgain
    BY <2>5, RetryAttemptsOK DEF TryAgain, Retries, LoopInv
  <2>6. ASSUME NEW reply \in Reply, CallFails(reply)
        PROVE  LoopInv'
    BY <2>6, SettleLoop DEF CallFails
  <2>7. CASE NoUsableRows
    BY <2>7, SettleLoop DEF NoUsableRows
  <2>8. ASSUME NEW todayUsable \in BOOLEAN, BarsLand(todayUsable)
        PROVE  LoopInv'
    <3>1. CASE phase = "covered"
      BY <2>8, <3>1, RetryAttemptsOK DEF BarsLand, LoopInv
    <3>2. CASE phase # "covered"
      BY <2>8, <3>2, SettleLoop DEF BarsLand
    <3> QED
      BY <3>1, <3>2
  <2>9. CASE FundamentalsLand
    BY <2>9, SettleLoop DEF FundamentalsLand
  <2>10. CASE UNCHANGED priceVars
    BY <2>10 DEF priceVars, priceLoop, LoopInv
  <2> QED
    BY <2>1, <2>2, <2>3, <2>4, <2>5, <2>6, <2>7, <2>8, <2>9, <2>10 DEF PriceNext
<1> QED
  BY <1>1, <1>2, PTL DEF PriceSpec

\* Every variable keeps its type.
THEOREM PriceTypeCorrect ==
    ASSUME PriceConstantsOK
    PROVE  PriceSpec => []PriceTypeOK
<1>1. BarsInv /\ LoopInv => PriceTypeOK
  <2> SUFFICES ASSUME BarsInv, LoopInv
               PROVE  PriceTypeOK
    OBVIOUS
  <2>1. todo \in Seq(Symbols)
    <3>1. Tickers \subseteq Symbols /\ Range(BenchmarkSymbols) \subseteq Symbols
      BY DEF Symbols
    <3>2. todo = <<>> \/ todo \in Seq(Tickers) \/ todo \in Seq(Range(BenchmarkSymbols))
      BY DEF LoopInv
    <3> QED
      BY <3>1, <3>2, SeqMonotonic, EmptySeq
  <2> QED
    BY <2>1 DEF BarsInv, LoopInv, PriceTypeOK
<1> QED
  BY <1>1, BarsInvariant, LoopInvariant, PTL

\* A benchmark gains bars only after a covered ticker succeeded in the same
\* nightly run.
THEOREM BenchmarksFollow ==
    ASSUME PriceConstantsOK
    PROVE  PriceSpec => BenchmarksFollowTickers
<1> DEFINE Follows == \A b \in Range(BenchmarkSymbols) :
                          priceBar'[b] # priceBar[b] => nightly /\ ok # {}
<1>1. BarsInv /\ LoopInv /\ [PriceNext]_priceVars => Follows
  <2> SUFFICES ASSUME BarsInv, LoopInv, [PriceNext]_priceVars,
                      NEW b \in Range(BenchmarkSymbols), priceBar'[b] # priceBar[b]
               PROVE  nightly /\ ok # {}
    OBVIOUS
  <2>1. PICK todayUsable \in BOOLEAN : BarsLand(todayUsable)
    BY DEF PriceNext, priceVars, priceLoop, Promote, StartOnDemand, Start, Tick, StartNightly, TryAgain,
           CallFails, NoUsableRows, FundamentalsLand
  <2>2. Head(todo) = b /\ phase # "idle"
    BY <2>1 DEF BarsLand, BarsInv
  <2>3. b \notin Tickers
    BY DEF PriceConstantsOK
  <2>4. phase # "covered"
    BY <2>2, <2>3, HeadTailProperties DEF LoopInv
  <2> QED
    BY <2>2, <2>4 DEF LoopInv
<1>2. BarsInv /\ LoopInv /\ [PriceNext]_priceVars => [Follows]_priceVars
  BY <1>1
<1> QED
  BY <1>2, BarsInvariant, LoopInvariant, PTL DEF PriceSpec, BenchmarksFollowTickers

-----------------------------------------------------------------------------
(* The refinement of SourceIngest                                          *)

\* The items SourceIngest has left.
Left == IF phase = "covered" THEN Range(todo) ELSE {}

\* A new run is a Start of the abstract source.
LEMMA StartRefines ==
    ASSUME LoopInv, NEW isNightly \in BOOLEAN, NEW list \in Seq(Tickers),
           Start(isNightly, list)
    PROVE  PricePromise!Next
<1>1. Range(list) \in SUBSET Tickers /\ (Range(list) = {} <=> list = <<>>)
  BY RangeEmpty
<1>2. verdict # "running" /\ phase = "idle"
  BY DEF Start, LoopInv
<1>3. Left' = Range(list) /\ ok' = {}
  BY <1>1 DEF Start, Left
<1>4. PricePromise!Start(Range(list))
  BY <1>1, <1>2, <1>3 DEF Start, Left, PricePromise!Start
<1> QED
  BY <1>1, <1>4 DEF PricePromise!Next

\* Settling a covered ticker is the abstract Settle of that ticker; settling
\* a benchmark is seen only when it is the last one.
LEMMA SettleRefines ==
    ASSUME LoopInv, phase # "idle", NEW succeeded \in BOOLEAN, Settle(succeeded)
    PROVE  [PricePromise!Next]_(PricePromise!vars)
<1> DEFINE good == IF succeeded THEN ok \union {Head(todo)} ELSE ok
           last == Len(todo) = 1
           benchmarksNext == phase = "covered" /\ good # {} /\ nightly
<1>1. ok' = (IF phase = "covered" THEN good ELSE ok)
  BY DEF Settle
<1>2. phase' = (IF ~last THEN phase ELSE IF benchmarksNext THEN "benchmarks" ELSE "idle")
  BY DEF Settle
<1>3. todo' = (IF last /\ benchmarksNext THEN BenchmarkSymbols ELSE Tail(todo))
  BY DEF Settle
<1>4. verdict' = (IF phase' # "idle" THEN "running" ELSE IF ok' = {} THEN "unavailable" ELSE "ok")
  BY DEF Settle
<1>5. verdict = "running"
  BY DEF LoopInv
<1>6. CASE phase = "covered"
  <2>1. todo \in Seq(Tickers) /\ todo # <<>> /\ IsInjective(todo)
    BY <1>6 DEF LoopInv
  <2>2. /\ Head(todo) \in Left
        /\ Range(Tail(todo)) = Left \ {Head(todo)}
        /\ Tail(todo) = <<>> <=> last
        /\ Tail(todo) \in Seq(Tickers)
    BY <1>6, <2>1, TailOfInjective DEF Left
  <2>3. last => Left \ {Head(todo)} = {}
    BY <2>2, RangeEmpty
  <2>4. ok' \in {ok, ok \union {Head(todo)}}
    BY <1>1, <1>6
  <2> HIDE DEF last, benchmarksNext, good
  <2>5. Left' = Left \ {Head(todo)}
    <3>1. CASE ~last
      BY <1>2, <1>3, <1>6, <2>2, <3>1 DEF Left
    <3>2. CASE last
      BY <1>2, <2>3, <3>2 DEF Left
    <3> QED
      BY <3>1, <3>2
  <2>6. verdict' = "running" \/ (Left' = {} /\ verdict' = PricePromise!Verdict(ok'))
    <3>1. CASE ~last
      BY <1>2, <1>4, <1>6, <3>1
    <3>2. CASE last
      BY <1>4, <2>3, <2>5, <3>2 DEF PricePromise!Verdict
    <3> QED
      BY <3>1, <3>2
  <2>7. PricePromise!Settle(Head(todo))
    BY <1>5, <2>2, <2>4, <2>5, <2>6 DEF PricePromise!Settle, Left
  <2> QED
    BY <2>2, <2>7 DEF PricePromise!Next, Left
<1>7. CASE phase = "benchmarks"
  <2>1. Left = {} /\ Left' = {} /\ ok' = ok /\ ok # {}
    BY <1>1, <1>2, <1>7 DEF Left, LoopInv
  <2>2. CASE ~last
    BY <1>2, <1>4, <1>5, <1>7, <2>1, <2>2 DEF Left, PricePromise!vars
  <2>3. CASE last
    <3>1. phase' = "idle" /\ verdict' = "ok"
      BY <1>2, <1>4, <1>7, <2>1, <2>3
    <3>2. PricePromise!Close
      BY <1>5, <2>1, <3>1 DEF PricePromise!Close, PricePromise!Verdict, Left
    <3> QED
      BY <3>2 DEF PricePromise!Next
  <2> QED
    BY <2>2, <2>3
<1> QED
  BY <1>6, <1>7 DEF LoopInv

\* The adapter is a source as SourceIngest promises it: every covered ticker
\* of a run is settled once, no failure touches another ticker, and the run is
\* unavailable exactly when none succeeded.
THEOREM PriceRefinesSource ==
    ASSUME PriceConstantsOK
    PROVE  PriceSpec => PriceKeepsPromise
<1>1. PriceInit => PricePromise!Init
  BY DEF PriceInit, PricePromise!Init
<1>2. LoopInv /\ [PriceNext]_priceVars => [PricePromise!Next]_(PricePromise!vars)
  <2> SUFFICES ASSUME LoopInv, [PriceNext]_priceVars
               PROVE  [PricePromise!Next]_(PricePromise!vars)
    OBVIOUS
  <2>1. CASE UNCHANGED <<phase, todo, ok, verdict>>
    BY <2>1 DEF PricePromise!vars
  <2>2. ASSUME NEW t \in Tickers, StartOnDemand(t)
        PROVE  PricePromise!Next
    BY <2>2, StartLists, StartRefines DEF StartOnDemand
  <2>3. CASE StartNightly
    BY <2>3, StartLists, StartRefines DEF StartNightly
  <2>4. ASSUME NEW succeeded \in BOOLEAN, phase # "idle", Settle(succeeded)
        PROVE  [PricePromise!Next]_(PricePromise!vars)
    BY <2>4, SettleRefines
  <2>5. \/ UNCHANGED <<phase, todo, ok, verdict>>
        \/ \E t \in Tickers : StartOnDemand(t)
        \/ StartNightly
        \/ \E succeeded \in BOOLEAN : phase # "idle" /\ Settle(succeeded)
    <3>1. CASE \E t \in Tickers : Promote(t)
      BY <3>1 DEF Promote, priceLoop
    <3>2. CASE Tick
      BY <3>2 DEF Tick, priceLoop
    <3>3. CASE TryAgain
      BY <3>3 DEF TryAgain
    <3>4. CASE \E reply \in Reply : CallFails(reply)
      BY <3>4 DEF CallFails
    <3>5. CASE NoUsableRows
      BY <3>5 DEF NoUsableRows
    <3>6. CASE \E todayUsable \in BOOLEAN : BarsLand(todayUsable)
      BY <3>6 DEF BarsLand
    <3>7. CASE FundamentalsLand
      BY <3>7 DEF FundamentalsLand
    <3>8. CASE UNCHANGED priceVars
      BY <3>8 DEF priceVars, priceLoop
    <3> QED
      BY <3>1, <3>2, <3>3, <3>4, <3>5, <3>6, <3>7, <3>8 DEF PriceNext
  <2> QED
    BY <2>1, <2>2, <2>3, <2>4, <2>5
<1> QED
  BY <1>1, <1>2, LoopInvariant, PTL DEF PriceSpec, PriceKeepsPromise, PricePromise!Spec
=============================================================================
