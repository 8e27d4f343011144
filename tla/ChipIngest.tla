----------------------------- MODULE ChipIngest -----------------------------
(***************************************************************************)
(* app/batch/adapters/twse_tpex_adapter.py: the institutional nets of the  *)
(* Taiwan tickers, with margin and block volume merged in, into            *)
(* chip_data_tw.                                                           *)
(*                                                                         *)
(* One response is a whole market, so the client keeps it for the run: the *)
(* nets of an exchange when they arrive, an auxiliary table even when it   *)
(* fails.  What tells one table from another here is the trading day its   *)
(* figures are of, and whether the response says so.                       *)
(***************************************************************************)
EXTENDS Retry, Integers, Sequences, FiniteSets, Functions

CONSTANTS
    ChipListing,   \* the covered Taiwan tickers in id order
    Exchange,      \* ticker -> "TWSE" or "TPEx"
    Kinds,         \* the auxiliary tables: "margin", "block"
    ChipLastDay    \* bound: the model ends on this day

ChipTickers == Range(ChipListing)
Exchanges == {"TWSE", "TPEx"}
ChipDays == 1 .. ChipLastDay

ChipConstantsOK ==
    /\ ChipListing \in Seq(ChipTickers) /\ IsInjective(ChipListing)
    /\ Exchange \in [ChipTickers -> Exchanges]
    /\ ChipLastDay \in Nat \ {0}

\* A response of day `of`, which it names or (dated = FALSE) does not.
Table == [of : ChipDays, dated : BOOLEAN]
NotFetched == [of |-> 0, dated |-> FALSE]
Empty == [of |-> 0, dated |-> TRUE]

\* What a merged column holds: nothing, the figure of the row's own day, or
\* that of another day, whose response did (blended) or did not say so.
Column == {"null", "own", "blended", "undated"}

VARIABLES
    chipDay,    \* the weekday the client asks for
    chipRow,    \* ticker -> trade_date -> kind -> Column; <<>> while absent
    cache,      \* exchange -> its nets, or NotFetched
    auxCache,   \* exchange -> kind -> its table, Empty or NotFetched
    chipTodo,   \* the tickers of this run left, the current one first
    chipStep,   \* "idle", "nets" (_market_table) or "aux"
    chipAttempt,
    chipOk,
    chipVerdict

client == <<cache, auxCache>>
chipLoop == <<chipTodo, chipStep, chipAttempt, chipOk, chipVerdict>>
chipVars == <<chipDay, chipRow, client, chipLoop>>

ChipTypeOK ==
    /\ chipDay \in ChipDays
    /\ \A t \in ChipTickers, d \in ChipDays :
          chipRow[t][d] = <<>> \/ chipRow[t][d] \in [Kinds -> Column]
    /\ cache \in [Exchanges -> Table \union {NotFetched}]
    /\ auxCache \in [Exchanges -> [Kinds -> Table \union {Empty, NotFetched}]]
    /\ chipTodo \in Seq(ChipTickers)
    /\ chipStep \in {"idle", "nets", "aux"}
    /\ chipAttempt \in 1 .. RetryAttempts
    /\ chipOk \subseteq ChipTickers
    /\ chipVerdict \in {"none", "running", "ok", "unavailable"}

\* Every run has a client of its own, dropped with its caches when it ends.
NewCache == [e \in Exchanges |-> NotFetched]
NewAuxCache == [e \in Exchanges |-> [k \in Kinds |-> NotFetched]]

ChipInit ==
    /\ chipDay = 1
    /\ chipRow = [t \in ChipTickers |-> [d \in ChipDays |-> <<>>]]
    /\ cache = NewCache
    /\ auxCache = NewAuxCache
    /\ chipTodo = <<>>
    /\ chipStep = "idle"
    /\ chipAttempt = 1
    /\ chipOk = {}
    /\ chipVerdict = "none"

-----------------------------------------------------------------------------
\* A client serves one run, whose day it computes when it is built.
ChipDayPasses ==
    /\ chipStep = "idle"
    /\ chipDay < ChipLastDay
    /\ chipDay' = chipDay + 1
    /\ UNCHANGED <<chipRow, client, chipLoop>>

\* The nightly list, the one ticker of an on-demand run, or nothing: an
\* on-demand run for a ticker of another market.
StartChip(list) ==
    /\ chipStep = "idle"
    /\ chipTodo' = list
    /\ chipStep' = IF list = <<>> THEN "idle" ELSE "nets"
    /\ chipOk' = {}
    /\ chipVerdict' = IF list = <<>> THEN "unavailable" ELSE "running"
    /\ UNCHANGED <<chipDay, chipRow, client, chipAttempt>>

\* Mutant: the first failure ends the loop.
SettleChipStopsAtFailure(succeeded) ==
    LET good == IF succeeded THEN chipOk \union {Head(chipTodo)} ELSE chipOk
        left == IF succeeded THEN Tail(chipTodo) ELSE <<>>
    IN /\ chipOk' = good
       /\ chipTodo' = left
       /\ chipAttempt' = 1
       /\ chipStep' = IF left = <<>> THEN "idle" ELSE "nets"
       /\ chipVerdict' = IF left # <<>> THEN "running"
                     ELSE IF good = {} THEN "unavailable" ELSE "ok"
       /\ IF left = <<>>
          THEN cache' = NewCache /\ auxCache' = NewAuxCache
          ELSE UNCHANGED client

SettleChip(succeeded) ==
    LET good == IF succeeded THEN chipOk \union {Head(chipTodo)} ELSE chipOk
    IN /\ chipOk' = good
       /\ chipTodo' = Tail(chipTodo)
       /\ chipAttempt' = 1
       /\ chipStep' = IF Tail(chipTodo) = <<>> THEN "idle" ELSE "nets"
       /\ chipVerdict' = IF Tail(chipTodo) # <<>> THEN "running"
                     ELSE IF good = {} THEN "unavailable" ELSE "ok"
       /\ IF Tail(chipTodo) = <<>>
          THEN cache' = NewCache /\ auxCache' = NewAuxCache
          ELSE UNCHANGED client

exchange == Exchange[Head(chipTodo)]

\* The request for the nets answers; a table of yesterday is what a holiday
\* or a late publication brings.  A failed request is not kept: the next
\* attempt, and the next ticker, ask again.
NetsArrive(table) ==
    /\ chipStep = "nets"
    /\ cache[exchange] = NotFetched
    /\ cache' = [cache EXCEPT ![exchange] = table]
    /\ UNCHANGED <<chipDay, chipRow, auxCache, chipLoop>>

TryChipAgain ==
    /\ chipStep = "nets"
    /\ cache[exchange] = NotFetched
    /\ Retries("transient", chipAttempt)
    /\ chipAttempt' = chipAttempt + 1
    /\ UNCHANGED <<chipDay, chipRow, client, chipTodo, chipStep, chipOk, chipVerdict>>

NetsFail(reply) ==
    /\ chipStep = "nets"
    /\ cache[exchange] = NotFetched
    /\ GivesUp(reply, chipAttempt)
    /\ SettleChip(FALSE)
    /\ UNCHANGED <<chipDay, chipRow>>

\* The symbol is in the cached nets, which name their day.
FindNets ==
    /\ chipStep = "nets"
    /\ cache[exchange].dated /\ cache[exchange].of \in ChipDays
    /\ chipStep' = "aux"
    /\ UNCHANGED <<chipDay, chipRow, client, chipTodo, chipAttempt, chipOk, chipVerdict>>

\* No row for the symbol, one with a poisoned or no value, or no trade date.
NoUsableNets ==
    /\ chipStep = "nets"
    /\ cache[exchange] # NotFetched
    /\ SettleChip(FALSE)
    /\ UNCHANGED <<chipDay, chipRow>>

\* The TPEx block endpoint names no ticker: it is never requested.
AuxAnswers(kind, ex) ==
    IF kind = "block" /\ ex = "TPEx" THEN {Empty} ELSE
    {Empty} \union [of : {chipDay, chipDay - 1} \intersect ChipDays, dated : BOOLEAN]

\* _aux_table: best effort, and whatever came of it is kept for the run.
FetchAux(kind, answer) ==
    /\ chipStep = "aux"
    /\ auxCache[exchange][kind] = NotFetched
    /\ auxCache' = [auxCache EXCEPT ![exchange][kind] = answer]
    /\ UNCHANGED <<chipDay, chipRow, cache, chipLoop>>

AuxDone ==
    /\ chipStep = "aux"
    /\ \A k \in Kinds : auxCache[exchange][k] # NotFetched

\* Mutant: the response date is not compared.
AuxValueUnchecked(entry, rowDate) == entry

\* A value whose response names another day is dropped; one without a date
\* is merged.
AuxValue(entry, rowDate) ==
    IF entry.dated /\ entry.of # rowDate THEN Empty ELSE entry

Merged(entry, rowDate) ==
    CASE entry = Empty -> "null"
      [] entry # Empty /\ entry.of = rowDate -> "own"
      [] OTHER -> IF entry.dated THEN "blended" ELSE "undated"

\* The row of the day the nets name is inserted or overwritten, NULLs included.
Upsert ==
    LET rowDate == cache[exchange].of
    IN /\ AuxDone
       /\ chipRow' = [chipRow EXCEPT ![Head(chipTodo)][rowDate] =
                        [k \in Kinds |->
                            Merged(AuxValue(auxCache[exchange][k], rowDate), rowDate)]]
       /\ SettleChip(TRUE)
       /\ UNCHANGED chipDay

UpsertFails ==
    /\ AuxDone
    /\ SettleChip(FALSE)
    /\ UNCHANGED <<chipDay, chipRow>>

ChipNext ==
    \/ ChipDayPasses
    \/ StartChip(ChipListing)
    \/ StartChip(<<>>)
    \/ \E t \in ChipTickers : StartChip(<<t>>)
    \/ \E of \in {chipDay, chipDay - 1} \intersect ChipDays : \E dated \in BOOLEAN :
          NetsArrive([of |-> of, dated |-> dated])
    \/ TryChipAgain
    \/ \E reply \in Reply : NetsFail(reply)
    \/ FindNets
    \/ NoUsableNets
    \/ chipStep = "aux" /\ \E k \in Kinds : \E a \in AuxAnswers(k, exchange) : FetchAux(k, a)
    \/ Upsert
    \/ UpsertFails

ChipSpec == ChipInit /\ [][ChipNext]_chipVars

-----------------------------------------------------------------------------
\* Margin and block figures of one day stand beside the nets of another only
\* when their own response named no day: "a value only merges when its
\* response date matches the nets' trade_date" holds for dated responses.
BlendOnlyUndated ==
    \A t \in ChipTickers, d \in ChipDays : chipRow[t][d] # <<>> =>
        \A k \in Kinds : chipRow[t][d][k] # "blended"

\* The loop keeps what SourceIngest promises.
ChipPromise == INSTANCE SourceIngest WITH
    Items <- ChipTickers, todo <- Range(chipTodo), ok <- chipOk, verdict <- chipVerdict

ChipKeepsPromise == ChipPromise!Spec
=============================================================================
