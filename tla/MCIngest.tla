------------------------------ MODULE MCIngest ------------------------------
(***************************************************************************)
(* The four components that bring data in and report on it, side by side,  *)
(* and the values their constants take for model checking.  They share no  *)
(* variable: each adapter writes tables of its own, and the status page    *)
(* reads pipeline_run alone.  Their product would only multiply unrelated  *)
(* states, so a behaviour here is one of one component (part says which)   *)
(* while the others rest in their first state.                             *)
(***************************************************************************)
EXTENDS PriceIngest, ChipIngest, PositionIngest, PipelineStatus

VARIABLE part

ingestVars == <<part, priceVars, chipVars, positionVars, statusVars>>

PriceListing == <<"t1", "t2">>
PriceBenchmarks == <<"b1">>

\* Two tickers share an exchange's response, one is alone on the other.
TaiwanListing == <<"t1", "t2", "t3">>
TaiwanExchanges == [t1 |-> "TWSE", t2 |-> "TWSE", t3 |-> "TPEx"]

\* Filings without the ticker, with one row for it, and with two.
CuratedFilers == <<"f1", "f2">>
FilingRows == {<<>>, <<0>>, <<1>>, <<2>>, <<1, 2>>}

\* With Ingest.cfg's hours the clock stops at 03:00, 11:00 and 19:00 UTC,
\* which are 11:00, 19:00 and 03:00 in Taipei.
BatchSources == <<"gdelt", "engine">>

ASSUME IngestConstantsOK ==
    /\ PriceConstantsOK
    /\ ChipConstantsOK
    /\ PositionConstantsOK
    /\ StatusConstantsOK

IngestInit ==
    /\ part \in {"price", "chip", "position", "status"}
    /\ PriceInit /\ ChipInit /\ PositionInit /\ StatusInit

PriceMoves == part = "price" /\ PriceNext
    /\ UNCHANGED <<part, chipVars, positionVars, statusVars>>

ChipMoves == part = "chip" /\ ChipNext
    /\ UNCHANGED <<part, priceVars, positionVars, statusVars>>

PositionMoves == part = "position" /\ PositionNext
    /\ UNCHANGED <<part, priceVars, chipVars, statusVars>>

StatusMoves == part = "status" /\ StatusNext
    /\ UNCHANGED <<part, priceVars, chipVars, positionVars>>

IngestNext == PriceMoves \/ ChipMoves \/ PositionMoves \/ StatusMoves

IngestSpec == IngestInit /\ [][IngestNext]_ingestVars

-----------------------------------------------------------------------------
\* Every component keeps the types of its variables.
IngestTypeOK == PriceTypeOK /\ ChipTypeOK /\ PositionTypeOK /\ StatusTypeOK

\* The three adapters implement SourceIngest: every item of a run is settled
\* once, whatever the others do, and the run is "unavailable" exactly when
\* none succeeded.
SourcesKeepPromise == PriceKeepsPromise /\ ChipKeepsPromise /\ PositionKeepsPromise
=============================================================================
