--------------------------- MODULE PositionIngest ---------------------------
(***************************************************************************)
(* app/batch/adapters/edgar_adapter.py and the US half of                  *)
(* app/batch/signals/chip.py: quarterly 13F positions of the curated       *)
(* filers in one covered US ticker, and the flow lens read from them.      *)
(*                                                                         *)
(* Filers file at dates of their own.  A filing lists the ticker's CUSIP   *)
(* in no, one or several rows (share classes, managers); the true holding  *)
(* of the filer is their sum.                                              *)
(***************************************************************************)
EXTENDS Retry, Integers, Sequences, FiniteSets, SequencesExt, FiniteSetsExt, Functions

CONSTANTS
    Filers,       \* the curated filers, in order
    Filings,      \* the row lists a filing can have for this CUSIP
    LastQuarter   \* bound: the quarters of the model

FilerSet == Range(Filers)
Quarters == 1 .. LastQuarter
NoHolding == -1   \* no row in institutional_position_us
NotFiled == <<NoHolding>>

PositionConstantsOK ==
    /\ Filers \in Seq(FilerSet) /\ IsInjective(Filers)
    /\ Filings \subseteq Seq(Nat)
    /\ LastQuarter \in Nat

VARIABLES
    filed,           \* upstream: quarter -> filer -> the rows of its filing
    position,        \* institutional_position_us: quarter -> filer -> shares
    filingsLanded,   \* history: quarter -> the filers whose filing was ingested
    filersTodo,      \* the filers this run has left, the current one first
    filerAttempt,
    filersOk,
    positionVerdict

filersLoop == <<filersTodo, filerAttempt, filersOk, positionVerdict>>
positionVars == <<filed, position, filingsLanded, filersLoop>>

PositionTypeOK ==
    /\ filed \in [Quarters -> [FilerSet -> Filings \union {NotFiled}]]
    /\ position \in [Quarters -> [FilerSet -> Nat \union {NoHolding}]]
    /\ filingsLanded \in [Quarters -> SUBSET FilerSet]
    /\ filersTodo \in Seq(FilerSet)
    /\ filerAttempt \in 1 .. RetryAttempts
    /\ filersOk \subseteq FilerSet
    /\ positionVerdict \in {"none", "running", "ok", "unavailable"}

PositionInit ==
    /\ filed = [q \in Quarters |-> [f \in FilerSet |-> NotFiled]]
    /\ position = [q \in Quarters |-> [f \in FilerSet |-> NoHolding]]
    /\ filingsLanded = [q \in Quarters |-> {}]
    /\ filersTodo = <<>>
    /\ filerAttempt = 1
    /\ filersOk = {}
    /\ positionVerdict = "none"

-----------------------------------------------------------------------------
HasFiled(f, q) == filed[q][f] # NotFiled

\* A filer files each quarter once, in order, whenever it gets to it.
File(f, q, rows) ==
    /\ ~HasFiled(f, q)
    /\ \A p \in 1 .. (q - 1) : HasFiled(f, p)
    /\ filed' = [filed EXCEPT ![q][f] = rows]
    /\ UNCHANGED <<position, filingsLanded, filersLoop>>

\* The filers are the unit of fetch in nightly and on-demand runs alike; with
\* no covered US ticker, or one of another market, none is fetched.
StartFilers(list) ==
    /\ filersTodo = <<>>
    /\ filersTodo' = list
    /\ filersOk' = {}
    /\ positionVerdict' = IF list = <<>> THEN "unavailable" ELSE "running"
    /\ UNCHANGED <<filed, position, filingsLanded, filerAttempt>>

SettleFiler(succeeded) ==
    LET good == IF succeeded THEN filersOk \union {Head(filersTodo)} ELSE filersOk
    IN /\ filersOk' = good
       /\ filersTodo' = Tail(filersTodo)
       /\ filerAttempt' = 1
       /\ positionVerdict' = IF Tail(filersTodo) # <<>> THEN "running"
                     ELSE IF good = {} THEN "unavailable" ELSE "ok"

TryFilerAgain ==
    /\ filersTodo # <<>>
    /\ Retries("transient", filerAttempt)
    /\ filerAttempt' = filerAttempt + 1
    /\ UNCHANGED <<filed, position, filingsLanded, filersTodo, filersOk, positionVerdict>>

\* The fetch gives up, no 13F-HR was ever filed, or the upsert fails.
FilerFails(reply) ==
    /\ filersTodo # <<>>
    /\ GivesUp(reply, filerAttempt)
    /\ SettleFiler(FALSE)
    /\ UNCHANGED <<filed, position, filingsLanded>>

\* Mutant: the upsert adds to the shares it finds.
FilingLandsAdding ==
    LET f == Head(filersTodo)
        q == Max({p \in Quarters : HasFiled(f, p)})
        rows == filed[q][f]
    IN /\ filersTodo # <<>>
       /\ \E p \in Quarters : HasFiled(f, p)
       /\ position' = IF rows = <<>> THEN position
                      ELSE [position EXCEPT ![q][f] = Max({@, 0}) + Last(rows)]
       /\ filingsLanded' = [filingsLanded EXCEPT ![q] = @ \union {f}]
       /\ SettleFiler(TRUE)
       /\ UNCHANGED filed

\* The newest filing is upserted row by row under (ticker, quarter, CIK), so
\* of several rows the last one stays; no row at all is a success too.
FilingLands ==
    LET f == Head(filersTodo)
        q == Max({p \in Quarters : HasFiled(f, p)})
        rows == filed[q][f]
    IN /\ filersTodo # <<>>
       /\ \E p \in Quarters : HasFiled(f, p)
       /\ position' = IF rows = <<>> THEN position
                      ELSE [position EXCEPT ![q][f] = Last(rows)]
       /\ filingsLanded' = [filingsLanded EXCEPT ![q] = @ \union {f}]
       /\ SettleFiler(TRUE)
       /\ UNCHANGED filed

PositionNext ==
    \/ \E f \in FilerSet, q \in Quarters, rows \in Filings : File(f, q, rows)
    \/ \E list \in {Filers, <<>>} : StartFilers(list)
    \/ TryFilerAgain
    \/ \E reply \in Reply : FilerFails(reply)
    \/ FilingLands

PositionSpec == PositionInit /\ [][PositionNext]_positionVars

-----------------------------------------------------------------------------
\* chip_signal: the stored shares per quarter, the two latest quarters that
\* have any row.
Holders(q) == {f \in FilerSet : position[q][f] # NoHolding}
Total(q) == SumFunctionOnSet(position[q], Holders(q))
Stored == {q \in Quarters : Holders(q) # {}}
Latest == Max(Stored)
Prior == Max(Stored \ {Latest})

Sign(n) == IF n > 0 THEN 1 ELSE IF n < 0 THEN -1 ELSE 0

\* chip_score_us: the flow between two quarters, by its sign.
FlowLens ==
    IF Cardinality(Stored) < 2 THEN "unavailable"
    ELSE IF Total(Prior) = 0 THEN Sign(Total(Latest))
    ELSE Sign(Total(Latest) - Total(Prior))

-----------------------------------------------------------------------------
TrueTotal(q) == SumFunction([f \in FilerSet |-> SumFunction(filed[q][f])])

\* The quarter is complete in the table: every filer's filing was ingested
\* while it was the newest one, and lists the CUSIP once.
Complete(q) == filingsLanded[q] = FilerSet /\ \A f \in FilerSet : Len(filed[q][f]) = 1

\* The lens gets the direction of the institutions' flow right when both
\* quarters it compares are complete.  Without that it does not: a filer not
\* ingested in time makes the others' total look like a sale, and of several
\* rows for one CUSIP only the last one counts.
FlowSignRight ==
    (Cardinality(Stored) >= 2 /\ Complete(Latest) /\ Complete(Prior)) =>
        FlowLens = Sign(TrueTotal(Latest) - TrueTotal(Prior))

\* The loop keeps what SourceIngest promises for the filers.
PositionPromise == INSTANCE SourceIngest WITH
    Items <- FilerSet, todo <- Range(filersTodo), ok <- filersOk, verdict <- positionVerdict

PositionKeepsPromise == PositionPromise!Spec
=============================================================================
