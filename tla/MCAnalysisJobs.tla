--------------------------- MODULE MCAnalysisJobs ---------------------------
(***************************************************************************)
(* Instances of AnalysisJobs for TLC.  Tickers and requests are model      *)
(* values that no action tells apart, so safety runs may use symmetry.     *)
(***************************************************************************)
EXTENDS AnalysisJobs, TLC

Symmetry == Permutations(Tickers) \cup Permutations(Requests)
=============================================================================
