----------------------------- MODULE MCPipeline -----------------------------
(***************************************************************************)
(* Instances of Pipeline for TLC: one plain source stands for the three    *)
(* that behave alike.                                                      *)
(***************************************************************************)
EXTENDS Pipeline, TLC

OneSource == <<"yfinance">>
NoSource == <<>>
Symmetry == Permutations(Tickers)
=============================================================================
