------------------------- MODULE ChipSourcesProofs -------------------------
(***************************************************************************)
(* Theorems of the two sources of the chip lens: ChipIngest for every list *)
(* of tickers and their exchanges, every set of auxiliary tables and every *)
(* number of days, PositionIngest for every list of filers, every set of   *)
(* filings and every number of quarters; both for any number of attempts.  *)
(***************************************************************************)
EXTENDS ChipIngest, PositionIngest, Lemmas

-----------------------------------------------------------------------------
(* The loop over the tickers                                               *)

\* The list in hand never repeats a ticker; it is empty exactly outside a run.
ChipLoopInv ==
    /\ chipTodo \in Seq(ChipTickers) /\ IsInjective(chipTodo)
    /\ chipOk \subseteq ChipTickers
    /\ chipStep \in {"idle", "nets", "aux"}
    /\ chipAttempt \in 1 .. RetryAttempts
    /\ chipStep = "idle" <=> chipTodo = <<>>
    /\ chipStep = "idle" => chipVerdict \in {"none", "ok", "unavailable"}
    /\ chipStep # "idle" => chipVerdict = "running"

\* One item less, and the abstract source settles the same one.
LEMMA ChipSettleStep ==
    ASSUME ChipLoopInv, chipStep # "idle", NEW succeeded \in BOOLEAN, SettleChip(succeeded)
    PROVE  ChipLoopInv' /\ ChipPromise!Next
<1> DEFINE good == IF succeeded THEN chipOk \union {Head(chipTodo)} ELSE chipOk
<1>1. chipTodo \in Seq(ChipTickers) /\ chipTodo # <<>> /\ IsInjective(chipTodo) /\ chipVerdict = "running"
  BY DEF ChipLoopInv
<1>2. /\ Head(chipTodo) \in Range(chipTodo) /\ Head(chipTodo) \in ChipTickers
      /\ Tail(chipTodo) \in Seq(ChipTickers) /\ IsInjective(Tail(chipTodo))
      /\ Range(Tail(chipTodo)) = Range(chipTodo) \ {Head(chipTodo)}
  BY <1>1, TailOfInjective, HeadTailProperties
<1>3. Range(Tail(chipTodo)) = {} <=> Tail(chipTodo) = <<>>
  BY <1>2, RangeEmpty
<1>4. good \subseteq ChipTickers /\ good \in {chipOk, chipOk \union {Head(chipTodo)}}
  BY <1>2 DEF ChipLoopInv
<1>5. /\ chipOk' = good /\ chipTodo' = Tail(chipTodo) /\ chipAttempt' = 1
      /\ chipStep' = (IF Tail(chipTodo) = <<>> THEN "idle" ELSE "nets")
      /\ chipVerdict' = (IF Tail(chipTodo) # <<>> THEN "running"
                     ELSE IF good = {} THEN "unavailable" ELSE "ok")
  BY DEF SettleChip
<1>6. 1 \in 1 .. RetryAttempts
  BY RetryAttemptsOK
<1> HIDE DEF good
<1>7. ChipLoopInv'
  BY <1>2, <1>4, <1>5, <1>6 DEF ChipLoopInv
<1>8. ChipPromise!Settle(Head(chipTodo))
  BY <1>1, <1>2, <1>3, <1>4, <1>5 DEF ChipPromise!Settle, ChipPromise!Verdict
<1> QED
  BY <1>2, <1>7, <1>8 DEF ChipPromise!Next

\* A run starts with the nightly list, with one ticker or with nothing.
LEMMA ChipStartStep ==
    ASSUME ChipConstantsOK, ChipLoopInv,
           StartChip(ChipListing) \/ StartChip(<<>>) \/ \E t \in ChipTickers : StartChip(<<t>>)
    PROVE  ChipLoopInv' /\ ChipPromise!Next
<1>1. PICK list \in Seq(ChipTickers) : IsInjective(list) /\ StartChip(list)
  <2>1. ChipListing \in Seq(ChipTickers) /\ IsInjective(ChipListing)
    BY DEF ChipConstantsOK
  <2>2. <<>> \in Seq(ChipTickers) /\ IsInjective(<<>>)
    BY EmptyList
  <2>3. \A t \in ChipTickers : <<t>> \in Seq(ChipTickers) /\ IsInjective(<<t>>)
    BY SingletonList
  <2> QED
    BY <2>1, <2>2, <2>3
<1>2. Range(list) \in SUBSET ChipTickers /\ (Range(list) = {} <=> list = <<>>)
  BY RangeEmpty
<1>3. ChipLoopInv'
  BY <1>1 DEF StartChip, ChipLoopInv
<1>4. ChipPromise!Start(Range(list))
  BY <1>1, <1>2 DEF StartChip, ChipLoopInv, ChipPromise!Start
<1> QED
  BY <1>2, <1>3, <1>4 DEF ChipPromise!Next

\* Every other step leaves the list, the successes and the verdict alone.
LEMMA ChipLoopStep ==
    ASSUME ChipConstantsOK, ChipLoopInv, [ChipNext]_chipVars
    PROVE  ChipLoopInv' /\ [ChipPromise!Next]_(ChipPromise!vars)
<1>1. CASE StartChip(ChipListing) \/ StartChip(<<>>) \/ \E t \in ChipTickers : StartChip(<<t>>)
  BY <1>1, ChipStartStep
<1>2. ASSUME NEW succeeded \in BOOLEAN, chipStep # "idle", SettleChip(succeeded)
      PROVE  ChipLoopInv' /\ [ChipPromise!Next]_(ChipPromise!vars)
  BY <1>2, ChipSettleStep
<1>3. CASE /\ UNCHANGED <<chipTodo, chipOk, chipVerdict>>
           /\ chipStep' = chipStep \/ (chipStep = "nets" /\ chipStep' = "aux")
           /\ chipAttempt' \in 1 .. RetryAttempts
  BY <1>3 DEF ChipLoopInv, ChipPromise!vars
<1>4. \/ StartChip(ChipListing) \/ StartChip(<<>>) \/ \E t \in ChipTickers : StartChip(<<t>>)
      \/ \E succeeded \in BOOLEAN : chipStep # "idle" /\ SettleChip(succeeded)
      \/ /\ UNCHANGED <<chipTodo, chipOk, chipVerdict>>
         /\ chipStep' = chipStep \/ (chipStep = "nets" /\ chipStep' = "aux")
         /\ chipAttempt' \in 1 .. RetryAttempts
  <2>0. chipAttempt \in 1 .. RetryAttempts
    BY DEF ChipLoopInv
  <2>1. CASE ChipDayPasses
    BY <2>0, <2>1 DEF ChipDayPasses, chipLoop
  <2>2. ASSUME NEW table, NetsArrive(table)
        PROVE  UNCHANGED chipLoop
    BY <2>2 DEF NetsArrive
  <2>3. CASE TryChipAgain
    BY <2>0, <2>3, RetryAttemptsOK DEF TryChipAgain, Retries
  <2>4. CASE \E reply \in Reply : NetsFail(reply)
    BY <2>4 DEF NetsFail
  <2>5. CASE FindNets
    BY <2>0, <2>5 DEF FindNets
  <2>6. CASE NoUsableNets
    BY <2>6 DEF NoUsableNets
  <2>7. ASSUME NEW k \in Kinds, NEW answer, FetchAux(k, answer)
        PROVE  UNCHANGED chipLoop
    BY <2>7 DEF FetchAux
  <2>8. CASE Upsert
    BY <2>8 DEF Upsert, AuxDone
  <2>9. CASE UpsertFails
    BY <2>9 DEF UpsertFails, AuxDone
  <2>10. CASE UNCHANGED chipVars
    BY <2>0, <2>10 DEF chipVars, chipLoop
  <2>11. CASE UNCHANGED chipLoop
    BY <2>0, <2>11 DEF chipLoop
  <2> QED
    BY <2>1, <2>2, <2>3, <2>4, <2>5, <2>6, <2>7, <2>8, <2>9, <2>10, <2>11 DEF ChipNext
<1> QED
  BY <1>1, <1>2, <1>3, <1>4

\* Initially no run is under way, here and in the promise.
LEMMA ChipLoopInit == ChipInit => ChipLoopInv /\ ChipPromise!Init
<1>1. 1 \in 1 .. RetryAttempts
  BY RetryAttemptsOK
<1>2. <<>> \in Seq(ChipTickers) /\ IsInjective(<<>>) /\ Range(<<>>) = {}
  BY EmptyList
<1>3. ASSUME ChipInit
      PROVE  ChipLoopInv
  BY <1>1, <1>2, <1>3 DEF ChipInit, ChipLoopInv
<1>4. ASSUME ChipInit
      PROVE  ChipPromise!Init
  BY <1>2, <1>4 DEF ChipInit, ChipPromise!Init
<1> QED
  BY <1>3, <1>4

\* The adapter is a source as SourceIngest promises it, whatever the caches,
\* the retries and the auxiliary endpoints do.
THEOREM ChipRefinesSource ==
    ASSUME ChipConstantsOK
    PROVE  ChipSpec => ChipKeepsPromise
<1>1. ChipInit => ChipLoopInv /\ ChipPromise!Init
  BY ChipLoopInit
<1>2. ChipLoopInv /\ [ChipNext]_chipVars => ChipLoopInv' /\ [ChipPromise!Next]_(ChipPromise!vars)
  BY ChipLoopStep
<1> QED
  BY <1>1, <1>2, PTL DEF ChipSpec, ChipKeepsPromise, ChipPromise!Spec

-----------------------------------------------------------------------------
(* The rows                                                                *)

\* What the tables and the caches hold, the columns without "blended".
HonestColumn == {"null", "own", "undated"}

ChipRowsInv ==
    /\ chipDay \in ChipDays
    /\ chipRow \in [ChipTickers -> [ChipDays -> {<<>>} \union [Kinds -> HonestColumn]]]
    /\ cache \in [Exchanges -> Table \union {NotFetched}]
    /\ auxCache \in [Exchanges -> [Kinds -> Table \union {Empty, NotFetched}]]

\* A table that passed the date check is never one of another day that says so.
LEMMA MergedHonestly ==
    ASSUME NEW entry, NEW rowDate
    PROVE  Merged(AuxValue(entry, rowDate), rowDate) \in HonestColumn
BY DEF Merged, AuxValue, HonestColumn

\* The rows' invariant holds initially and every step preserves it.
LEMMA ChipRowsInvariant ==
    ASSUME ChipConstantsOK
    PROVE  ChipSpec => []ChipRowsInv
<1>1. ChipInit => ChipRowsInv
  BY DEF ChipInit, ChipRowsInv, NewCache, NewAuxCache, ChipConstantsOK, ChipDays
<1>2. ChipRowsInv /\ [ChipNext]_chipVars => ChipRowsInv'
  <2> SUFFICES ASSUME ChipRowsInv, [ChipNext]_chipVars
               PROVE  ChipRowsInv'
    OBVIOUS
  <2>1. NewCache \in [Exchanges -> Table \union {NotFetched}]
    BY DEF NewCache
  <2>2. NewAuxCache \in [Exchanges -> [Kinds -> Table \union {Empty, NotFetched}]]
    BY DEF NewAuxCache
  <2>3. ASSUME NEW succeeded \in BOOLEAN, SettleChip(succeeded)
        PROVE  /\ cache' \in [Exchanges -> Table \union {NotFetched}]
               /\ auxCache' \in [Exchanges -> [Kinds -> Table \union {Empty, NotFetched}]]
    BY <2>1, <2>2, <2>3 DEF SettleChip, client, ChipRowsInv
  <2>4. CASE ChipDayPasses
    BY <2>4 DEF ChipDayPasses, client, ChipRowsInv, ChipDays, ChipConstantsOK
  <2>5. CASE UNCHANGED <<chipDay, chipRow, client>>
    BY <2>5 DEF client, ChipRowsInv
  <2>6. ASSUME NEW of \in ChipDays, NEW dated \in BOOLEAN, NetsArrive([of |-> of, dated |-> dated])
        PROVE  ChipRowsInv'
    BY <2>6 DEF NetsArrive, ChipRowsInv, Table
  <2>7. ASSUME UNCHANGED <<chipDay, chipRow>>, NEW succeeded \in BOOLEAN, SettleChip(succeeded)
        PROVE  ChipRowsInv'
    BY <2>3, <2>7 DEF ChipRowsInv
  <2>8. ASSUME NEW k \in Kinds, NEW a \in AuxAnswers(k, exchange), FetchAux(k, a)
        PROVE  ChipRowsInv'
    <3>1. a \in Table \union {Empty, NotFetched}
      BY DEF AuxAnswers, Table
    <3> QED
      BY <2>8, <3>1 DEF FetchAux, ChipRowsInv
  <2>9. CASE Upsert
    <3> DEFINE rowDate == cache[exchange].of
               merged == [k \in Kinds |->
                             Merged(AuxValue(auxCache[exchange][k], rowDate), rowDate)]
    <3>1. /\ chipRow' = [chipRow EXCEPT ![Head(chipTodo)][rowDate] = merged]
          /\ SettleChip(TRUE) /\ chipDay' = chipDay
      BY <2>9 DEF Upsert
    <3>2. merged \in [Kinds -> HonestColumn]
      BY MergedHonestly
    <3> HIDE DEF merged, rowDate
    <3>3. chipRow' \in [ChipTickers -> [ChipDays -> {<<>>} \union [Kinds -> HonestColumn]]]
      BY <3>1, <3>2 DEF ChipRowsInv
    <3> QED
      BY <2>3, <3>1, <3>3 DEF ChipRowsInv
  <2>10. \/ ChipDayPasses \/ UNCHANGED <<chipDay, chipRow, client>>
         \/ \E of \in ChipDays, dated \in BOOLEAN : NetsArrive([of |-> of, dated |-> dated])
         \/ UNCHANGED <<chipDay, chipRow>> /\ \E succeeded \in BOOLEAN : SettleChip(succeeded)
         \/ \E k \in Kinds : \E a \in AuxAnswers(k, exchange) : FetchAux(k, a)
         \/ Upsert
    BY DEF ChipNext, chipVars, StartChip, TryChipAgain, NetsFail, FindNets, NoUsableNets, UpsertFails
  <2> QED
    BY <2>4, <2>5, <2>6, <2>7, <2>8, <2>9, <2>10
<1> QED
  BY <1>1, <1>2, PTL DEF ChipSpec

\* Every variable keeps its type.
THEOREM ChipTypeCorrect ==
    ASSUME ChipConstantsOK
    PROVE  ChipSpec => []ChipTypeOK
<1>1. ChipInit => ChipLoopInv
  BY ChipLoopInit
<1>2. ChipLoopInv /\ [ChipNext]_chipVars => ChipLoopInv'
  BY ChipLoopStep
<1>3. ChipRowsInv /\ ChipLoopInv => ChipTypeOK
  <2> SUFFICES ASSUME ChipRowsInv, ChipLoopInv
               PROVE  ChipTypeOK
    OBVIOUS
  <2>1. \A t \in ChipTickers, d \in ChipDays :
            chipRow[t][d] = <<>> \/ chipRow[t][d] \in [Kinds -> Column]
    BY DEF ChipRowsInv, HonestColumn, Column
  <2> QED
    BY <2>1 DEF ChipRowsInv, ChipLoopInv, ChipTypeOK
<1> QED
  BY <1>1, <1>2, <1>3, ChipRowsInvariant, PTL DEF ChipSpec

\* Of the figures of another day, only those that do not say so are merged.
THEOREM OnlyUndatedBlend ==
    ASSUME ChipConstantsOK
    PROVE  ChipSpec => []BlendOnlyUndated
<1>1. ChipRowsInv => BlendOnlyUndated
  <2> SUFFICES ASSUME ChipRowsInv, NEW t \in ChipTickers, NEW d \in ChipDays, chipRow[t][d] # <<>>,
                      NEW k \in Kinds
               PROVE  chipRow[t][d][k] # "blended"
    BY DEF BlendOnlyUndated
  <2>1. chipRow[t][d] \in [Kinds -> HonestColumn]
    BY DEF ChipRowsInv
  <2> QED
    BY <2>1 DEF HonestColumn
<1> QED
  BY <1>1, ChipRowsInvariant, PTL

-----------------------------------------------------------------------------
(* The loop over the filers                                                *)

\* The list in hand never repeats a filer; a run is on exactly while filers
\* are left in it.
FilersInv ==
    /\ filersTodo \in Seq(FilerSet) /\ IsInjective(filersTodo)
    /\ filersOk \subseteq FilerSet
    /\ filerAttempt \in 1 .. RetryAttempts
    /\ filersTodo = <<>> => positionVerdict \in {"none", "ok", "unavailable"}
    /\ filersTodo # <<>> => positionVerdict = "running"

\* Initially no run is under way, here and in the promise.
LEMMA FilersInit == PositionInit => FilersInv /\ PositionPromise!Init
<1>1. 1 \in 1 .. RetryAttempts
  BY RetryAttemptsOK
<1>2. <<>> \in Seq(FilerSet) /\ IsInjective(<<>>) /\ Range(<<>>) = {}
  BY EmptyList
<1>3. ASSUME PositionInit
      PROVE  FilersInv
  BY <1>1, <1>2, <1>3 DEF PositionInit, FilersInv
<1>4. ASSUME PositionInit
      PROVE  PositionPromise!Init
  BY <1>2, <1>4 DEF PositionInit, PositionPromise!Init
<1> QED
  BY <1>3, <1>4

\* One filer less, and the abstract source settles the same one.
LEMMA FilerSettleStep ==
    ASSUME FilersInv, filersTodo # <<>>, NEW succeeded \in BOOLEAN, SettleFiler(succeeded)
    PROVE  FilersInv' /\ PositionPromise!Next
<1> DEFINE good == IF succeeded THEN filersOk \union {Head(filersTodo)} ELSE filersOk
<1>1. filersTodo \in Seq(FilerSet) /\ IsInjective(filersTodo) /\ positionVerdict = "running"
  BY DEF FilersInv
<1>2. /\ Head(filersTodo) \in Range(filersTodo) /\ Head(filersTodo) \in FilerSet
      /\ Tail(filersTodo) \in Seq(FilerSet) /\ IsInjective(Tail(filersTodo))
      /\ Range(Tail(filersTodo)) = Range(filersTodo) \ {Head(filersTodo)}
  BY <1>1, TailOfInjective, HeadTailProperties
<1>3. Range(Tail(filersTodo)) = {} <=> Tail(filersTodo) = <<>>
  BY <1>2, RangeEmpty
<1>4. good \subseteq FilerSet /\ good \in {filersOk, filersOk \union {Head(filersTodo)}}
  BY <1>2 DEF FilersInv
<1>5. /\ filersOk' = good /\ filersTodo' = Tail(filersTodo) /\ filerAttempt' = 1
      /\ positionVerdict' = (IF Tail(filersTodo) # <<>> THEN "running"
                     ELSE IF good = {} THEN "unavailable" ELSE "ok")
  BY DEF SettleFiler
<1>6. 1 \in 1 .. RetryAttempts
  BY RetryAttemptsOK
<1> HIDE DEF good
<1>7. FilersInv'
  BY <1>2, <1>4, <1>5, <1>6 DEF FilersInv
<1>8. PositionPromise!Settle(Head(filersTodo))
  BY <1>1, <1>2, <1>3, <1>4, <1>5 DEF PositionPromise!Settle, PositionPromise!Verdict
<1> QED
  BY <1>2, <1>7, <1>8 DEF PositionPromise!Next

\* A run starts with every filer, or with none.
LEMMA FilersStartStep ==
    ASSUME PositionConstantsOK, FilersInv, NEW list \in {Filers, <<>>}, StartFilers(list)
    PROVE  FilersInv' /\ PositionPromise!Next
<1>1. list \in Seq(FilerSet) /\ IsInjective(list)
  BY EmptyList DEF PositionConstantsOK
<1>2. Range(list) \in SUBSET FilerSet /\ (Range(list) = {} <=> list = <<>>)
  BY <1>1, RangeEmpty
<1>3. FilersInv'
  BY <1>1 DEF StartFilers, FilersInv
<1>4. PositionPromise!Start(Range(list))
  BY <1>1, <1>2 DEF StartFilers, FilersInv, PositionPromise!Start
<1> QED
  BY <1>2, <1>3, <1>4 DEF PositionPromise!Next

\* A step keeps the loop's invariant and is a step of the promise or a stutter.
LEMMA FilersStep ==
    ASSUME PositionConstantsOK, FilersInv, [PositionNext]_positionVars
    PROVE  FilersInv' /\ [PositionPromise!Next]_(PositionPromise!vars)
<1>0. filerAttempt \in 1 .. RetryAttempts
  BY DEF FilersInv
<1>1. ASSUME NEW list \in {Filers, <<>>}, StartFilers(list)
      PROVE  FilersInv' /\ [PositionPromise!Next]_(PositionPromise!vars)
  BY <1>1, FilersStartStep
<1>2. ASSUME NEW succeeded \in BOOLEAN, filersTodo # <<>>, SettleFiler(succeeded)
      PROVE  FilersInv' /\ [PositionPromise!Next]_(PositionPromise!vars)
  BY <1>2, FilerSettleStep
<1>3. CASE UNCHANGED <<filersTodo, filersOk, positionVerdict>> /\ filerAttempt' \in 1 .. RetryAttempts
  BY <1>3 DEF FilersInv, PositionPromise!vars
<1>4. ASSUME NEW f, NEW q, NEW rows, File(f, q, rows)
      PROVE  UNCHANGED <<filersTodo, filerAttempt, filersOk, positionVerdict>>
  BY <1>4 DEF File, filersLoop
<1>5. CASE TryFilerAgain
  <2>1. filerAttempt' \in 1 .. RetryAttempts
    BY <1>0, <1>5, RetryAttemptsOK DEF TryFilerAgain, Retries
  <2>2. UNCHANGED <<filersTodo, filersOk, positionVerdict>>
    BY <1>5 DEF TryFilerAgain
  <2> QED
    BY <1>3, <2>1, <2>2
<1>6. ASSUME NEW reply \in Reply, FilerFails(reply)
      PROVE  filersTodo # <<>> /\ SettleFiler(FALSE)
  BY <1>6 DEF FilerFails
<1>7. CASE FilingLands
  <2>1. filersTodo # <<>> /\ SettleFiler(TRUE)
    BY <1>7 DEF FilingLands
  <2> QED
    BY <1>2, <2>1
<1>8. CASE UNCHANGED positionVars
  BY <1>0, <1>3, <1>8 DEF positionVars, filersLoop
<1> QED
  BY <1>0, <1>1, <1>2, <1>3, <1>4, <1>5, <1>6, <1>7, <1>8 DEF PositionNext

\* The adapter is a source as SourceIngest promises it, with the filers as
\* its items, whenever they file and whatever their filings list.
THEOREM PositionRefinesSource ==
    ASSUME PositionConstantsOK
    PROVE  PositionSpec => PositionKeepsPromise
<1>1. PositionInit => FilersInv /\ PositionPromise!Init
  BY FilersInit
<1>2. FilersInv /\ [PositionNext]_positionVars => FilersInv' /\ [PositionPromise!Next]_(PositionPromise!vars)
  BY FilersStep
<1> QED
  BY <1>1, <1>2, PTL DEF PositionSpec, PositionKeepsPromise, PositionPromise!Spec

-----------------------------------------------------------------------------
(* The positions                                                           *)

\* A filing that landed was the filer's for that quarter, which it will not
\* file again, so the table has what its last row says.
HoldingsInv ==
    /\ filed \in [Quarters -> [FilerSet -> Filings \union {NotFiled}]]
    /\ position \in [Quarters -> [FilerSet -> Nat \union {NoHolding}]]
    /\ filingsLanded \in [Quarters -> SUBSET FilerSet]
    /\ \A q \in Quarters : \A f \in filingsLanded[q] :
          /\ HasFiled(f, q)
          /\ filed[q][f] # <<>> => position[q][f] = Last(filed[q][f])

\* The rows of a filing are natural numbers of shares.
LEMMA FilingHasShares ==
    ASSUME PositionConstantsOK, NEW rows \in Filings
    PROVE  /\ rows # NotFiled
           /\ Len(rows) \in Nat /\ \A i \in 1 .. Len(rows) : rows[i] \in Nat
           /\ rows # <<>> => Last(rows) \in Nat
<1>1. rows \in Seq(Nat)
  BY DEF PositionConstantsOK
<1>2. Len(rows) \in Nat /\ \A i \in 1 .. Len(rows) : rows[i] \in Nat
  BY <1>1, LenProperties, ElementOfSeq
<1>3. rows # <<>> => Len(rows) \in 1 .. Len(rows)
  BY <1>1, <1>2, EmptySeq
<1>4. NotFiled[1] \notin Nat /\ Len(NotFiled) = 1
  BY DEF NotFiled, NoHolding
<1> QED
  BY <1>2, <1>3, <1>4 DEF Last

\* The quarter of the filing that is upserted is the newest one filed for.
LEMMA NewestFiling ==
    ASSUME PositionConstantsOK, HoldingsInv, NEW f \in FilerSet,
           NEW q, q = Max({p \in Quarters : HasFiled(f, p)}),
           \E p \in Quarters : HasFiled(f, p)
    PROVE  q \in Quarters /\ HasFiled(f, q) /\ filed[q][f] \in Filings
<1> DEFINE quarters == {p \in Quarters : HasFiled(f, p)}
<1>1. quarters # {} /\ quarters \subseteq 0 .. LastQuarter /\ LastQuarter \in Nat
  BY DEF PositionConstantsOK, Quarters
<1>2. Max(quarters) \in quarters
  <2> HIDE DEF quarters
  <2> QED
    BY <1>1, GreatestExists
<1>3. q \in quarters
  BY <1>2
<1>4. q \in Quarters /\ filed[q][f] # NotFiled
  BY <1>3 DEF HasFiled
<1> QED
  BY <1>3, <1>4 DEF HoldingsInv

\* The holdings' invariant holds initially and every step preserves it.
LEMMA HoldingsInvariant ==
    ASSUME PositionConstantsOK
    PROVE  PositionSpec => []HoldingsInv
<1>1. PositionInit => HoldingsInv
  BY DEF PositionInit, HoldingsInv
<1>2. HoldingsInv /\ FilersInv /\ [PositionNext]_positionVars => HoldingsInv'
  <2> SUFFICES ASSUME HoldingsInv, FilersInv, [PositionNext]_positionVars
               PROVE  HoldingsInv'
    OBVIOUS
  <2>1. ASSUME NEW g \in FilerSet, NEW r \in Quarters, NEW rows \in Filings, File(g, r, rows)
        PROVE  HoldingsInv'
    <3>1. filed' = [filed EXCEPT ![r][g] = rows] /\ UNCHANGED <<position, filingsLanded>>
      BY <2>1 DEF File
    <3>2. filed' \in [Quarters -> [FilerSet -> Filings \union {NotFiled}]]
      BY <3>1 DEF HoldingsInv
    <3>3. ASSUME NEW q \in Quarters, NEW f \in filingsLanded[q]
          PROVE  filed'[q][f] = filed[q][f] /\ HasFiled(f, q)'
      <4>1. f \in FilerSet /\ HasFiled(f, q)
        BY DEF HoldingsInv
      <4>2. ~(q = r /\ f = g)
        BY <2>1, <4>1 DEF File
      <4>3. filed'[q][f] = filed[q][f]
        BY <3>1, <4>1, <4>2 DEF HoldingsInv
      <4> QED
        BY <4>1, <4>3 DEF HasFiled
    <3> QED
      BY <3>1, <3>2, <3>3 DEF HoldingsInv
  <2>2. CASE FilingLands
    <3> DEFINE g == Head(filersTodo)
               r == Max({p \in Quarters : HasFiled(g, p)})
               rows == filed[r][g]
    <3>1. /\ filersTodo # <<>> /\ \E p \in Quarters : HasFiled(g, p)
          /\ position' = IF rows = <<>> THEN position ELSE [position EXCEPT ![r][g] = Last(rows)]
          /\ filingsLanded' = [filingsLanded EXCEPT ![r] = @ \union {g}]
          /\ filed' = filed
      BY <2>2 DEF FilingLands
    <3>2. g \in FilerSet
      BY <3>1, HeadTailProperties DEF FilersInv
    <3>3. r \in Quarters /\ HasFiled(g, r) /\ rows \in Filings
      <4> HIDE DEF g
      <4> QED
        BY <3>1, <3>2, NewestFiling
    <3>4. rows # <<>> => Last(rows) \in Nat
      BY <3>3, FilingHasShares
    <3> HIDE DEF g, r
    <3>5. /\ position' \in [Quarters -> [FilerSet -> Nat \union {NoHolding}]]
          /\ filingsLanded' \in [Quarters -> SUBSET FilerSet]
      BY <3>1, <3>2, <3>3, <3>4 DEF HoldingsInv
    <3>6. ASSUME NEW q \in Quarters, NEW f \in filingsLanded'[q]
          PROVE  /\ HasFiled(f, q)'
                 /\ filed'[q][f] # <<>> => position'[q][f] = Last(filed'[q][f])
      <4>1. f \in FilerSet
        BY <3>5
      <4>2. CASE q = r /\ f = g
        BY <3>1, <3>2, <3>3, <4>2 DEF HoldingsInv, HasFiled
      <4>3. CASE ~(q = r /\ f = g)
        <5>1. f \in filingsLanded[q]
          BY <3>1, <3>6, <4>3 DEF HoldingsInv
        <5>2. position'[q][f] = position[q][f]
          BY <3>1, <4>1, <4>3 DEF HoldingsInv
        <5> QED
          BY <3>1, <5>1, <5>2 DEF HoldingsInv, HasFiled
      <4> QED
        BY <4>2, <4>3
    <3> QED
      BY <3>1, <3>5, <3>6 DEF HoldingsInv
  <2>3. CASE UNCHANGED <<filed, position, filingsLanded>>
    BY <2>3 DEF HoldingsInv, HasFiled
  <2> QED
    BY <2>1, <2>2, <2>3
    DEF PositionNext, positionVars, StartFilers, TryFilerAgain, FilerFails
<1>3. PositionInit => FilersInv
  BY FilersInit
<1>4. FilersInv /\ [PositionNext]_positionVars => FilersInv'
  BY FilersStep
<1> QED
  BY <1>1, <1>2, <1>3, <1>4, PTL DEF PositionSpec

\* Every variable keeps its type.
THEOREM PositionTypeCorrect ==
    ASSUME PositionConstantsOK
    PROVE  PositionSpec => []PositionTypeOK
<1>1. PositionInit => FilersInv
  BY FilersInit
<1>2. FilersInv /\ [PositionNext]_positionVars => FilersInv'
  BY FilersStep
<1>3. HoldingsInv /\ FilersInv => PositionTypeOK
  BY DEF HoldingsInv, FilersInv, PositionTypeOK
<1> QED
  BY <1>1, <1>2, <1>3, HoldingsInvariant, PTL DEF PositionSpec

-----------------------------------------------------------------------------
(* The flow                                                                *)

\* Of a complete quarter the table has the true total.
LEMMA CompleteTotal ==
    ASSUME PositionConstantsOK, HoldingsInv, NEW q \in Quarters, Complete(q)
    PROVE  Total(q) = TrueTotal(q) /\ Total(q) \in Int
<1> DEFINE shares == [f \in FilerSet |-> SumFunction(filed[q][f])]
<1>1. IsFiniteSet(FilerSet)
  BY RangeFinite DEF PositionConstantsOK, FilerSet
<1>2. ASSUME NEW f \in FilerSet
      PROVE  position[q][f] \in Nat /\ shares[f] = position[q][f]
  <2> DEFINE rows == filed[q][f]
  <2>1. HasFiled(f, q) /\ Len(rows) = 1
    BY DEF Complete, HoldingsInv
  <2>2. rows \in Filings
    BY <2>1 DEF HoldingsInv, HasFiled
  <2>3. rows \in Seq(Nat) /\ rows # <<>>
    BY <2>1, <2>2 DEF PositionConstantsOK
  <2>4. position[q][f] = rows[1]
    BY <2>1, <2>3 DEF Complete, HoldingsInv, Last
  <2>5. DOMAIN rows = {1} /\ rows[1] \in Nat
    BY <2>1, <2>2, <2>3, FilingHasShares, LenProperties
  <2>6. SumFunction(rows) = rows[1]
    <3> HIDE DEF rows
    <3>1. IsFiniteSet({1}) /\ {1} \ {1} = {} /\ IsFiniteSet({})
      BY FS_Singleton, FS_EmptySet
    <3>2. SumFunctionOnSet(rows, {1}) = rows[1] + SumFunctionOnSet(rows, {})
      BY <2>5, <3>1, SumSplits
    <3>3. SumFunctionOnSet(rows, {}) = 0
      BY <3>1, SumSplits
    <3> QED
      BY <2>5, <3>2, <3>3 DEF SumFunction
  <2> QED
    BY <2>4, <2>5, <2>6
<1> HIDE DEF shares
<1>3. Holders(q) = FilerSet
  BY <1>2 DEF Holders, NoHolding
<1>4. \A f \in FilerSet : position[q][f] \in Int /\ shares[f] = position[q][f]
  BY <1>2
<1>5. SumFunctionOnSet(shares, FilerSet) = SumFunctionOnSet(position[q], FilerSet)
  BY <1>1, <1>4, SumSame
<1>6. SumFunctionOnSet(position[q], FilerSet) \in Int
  BY <1>1, <1>4, SumSplits
<1>7. DOMAIN shares = FilerSet
  BY DEF shares
<1> QED
  BY <1>3, <1>5, <1>6, <1>7 DEF Total, TrueTotal, SumFunction, shares

\* With two stored quarters, both that the lens compares are quarters.
LEMMA TwoQuarters ==
    ASSUME PositionConstantsOK, Cardinality(Stored) >= 2
    PROVE  /\ Latest \in Quarters /\ Prior \in Quarters
           /\ Cardinality(Stored) \in Nat
<1>1. /\ Stored \subseteq 0 .. LastQuarter /\ LastQuarter \in Nat
      /\ IsFiniteSet(Stored) /\ Cardinality(Stored) \in Nat
  <2>1. Stored \subseteq 0 .. LastQuarter /\ LastQuarter \in Nat
    BY DEF Stored, Quarters, PositionConstantsOK
  <2>2. IsFiniteSet(0 .. LastQuarter)
    BY <2>1, FS_Interval
  <2> QED
    BY <2>1, <2>2, FS_Subset, FS_CardinalityType
<1>2. Stored # {}
  BY FS_EmptySet
<1>3. Latest \in Stored
  BY <1>1, <1>2, GreatestExists DEF Latest
<1>4. Stored \ {Latest} # {}
  <2>1. Cardinality(Stored \ {Latest}) = Cardinality(Stored) - 1
    BY <1>1, <1>3, FS_RemoveElement
  <2>2. Cardinality(Stored) \in Nat /\ Cardinality({}) = 0
    BY <1>1, FS_CardinalityType, FS_EmptySet
  <2> QED
    BY <2>1, <2>2
<1>5. Prior \in Stored
  BY <1>1, <1>4, GreatestExists DEF Prior
<1> QED
  BY <1>1, <1>3, <1>5 DEF Stored

\* The lens has the sign of the true flow between two complete quarters.
THEOREM FlowIsRight ==
    ASSUME PositionConstantsOK
    PROVE  PositionSpec => []FlowSignRight
<1>1. ASSUME HoldingsInv
      PROVE  FlowSignRight
  <2> SUFFICES ASSUME Cardinality(Stored) >= 2, Complete(Latest), Complete(Prior)
               PROVE  FlowLens = Sign(TrueTotal(Latest) - TrueTotal(Prior))
    BY DEF FlowSignRight
  <2>1. /\ Total(Latest) = TrueTotal(Latest) /\ Total(Latest) \in Int
        /\ Total(Prior) = TrueTotal(Prior) /\ Total(Prior) \in Int
    BY <1>1, TwoQuarters, CompleteTotal
  <2>2. ~(Cardinality(Stored) < 2)
    <3>1. Cardinality(Stored) \in Nat
      BY TwoQuarters
    <3> QED
      BY <3>1
  <2>3. Total(Prior) = 0 => Total(Latest) - Total(Prior) = Total(Latest)
    BY <2>1
  <2> QED
    BY <2>1, <2>2, <2>3 DEF FlowLens
<1> QED
  BY <1>1, HoldingsInvariant, PTL
=============================================================================
