-------------------------- MODULE FundamentalLens --------------------------
(***************************************************************************)
(* app/batch/signals/fundamental.py: one ticker's latest snapshot against  *)
(* the medians of the other covered tickers' latest snapshots.             *)
(*                                                                         *)
(* Scores are in tenths and medians are doubled, so that everything is an  *)
(* integer.  Null stands for a NULL column.                                *)
(***************************************************************************)
EXTENDS Integers, FiniteSets

CONSTANTS
    Peers,   \* the other covered tickers
    PeValues, PbValues, MarginValues,
    Null

FundamentalConstantsOK ==
    /\ IsFiniteSet(Peers)
    /\ PeValues \union PbValues \union MarginValues \subseteq Int
    /\ Null \notin Int

Snapshot == [pe : PeValues \union {Null}, pb : PbValues \union {Null},
             margin : MarginValues \union {Null}]
NoSnapshot == [pe |-> Null, pb |-> Null, margin |-> Null]

VARIABLES
    own,   \* <<>>, or <<the ticker's latest snapshot>>
    peer   \* peer -> its latest snapshot; NoSnapshot counts for nothing

fundamentalVars == <<own, peer>>

FundamentalTypeOK ==
    /\ own \in {<<>>} \union {<<s>> : s \in Snapshot}
    /\ peer \in [Peers -> Snapshot]

FundamentalInit == own = <<>> /\ peer = [p \in Peers |-> NoSnapshot]

\* ingest_yfinance upserts a snapshot unless all its fields are empty.
OwnLands(s) == own' = <<s>> /\ UNCHANGED peer

PeerLands(p, s) == peer' = [peer EXCEPT ![p] = s] /\ UNCHANGED own

FundamentalNext == \E s \in Snapshot : OwnLands(s) \/ \E p \in Peers : PeerLands(p, s)

FundamentalSpec == FundamentalInit /\ [][FundamentalNext]_fundamentalVars

-----------------------------------------------------------------------------
\* sorted: the k-th value has fewer than k values below it, and at least k
\* that are not above it.
Ordered(f, S) ==
    [k \in 1 .. Cardinality(S) |->
        CHOOSE v \in {f[p] : p \in S} :
            /\ Cardinality({p \in S : f[p] < v}) < k
            /\ Cardinality({p \in S : f[p] <= v}) >= k]

\* Twice the median of f over the peers S; Null when there is none.
MedianTwice(f, S) ==
    LET n == Cardinality(S)
        mid == n \div 2
    IN IF S = {} THEN Null
       ELSE IF n % 2 = 1 THEN 2 * Ordered(f, S)[mid + 1]
       ELSE Ordered(f, S)[mid] + Ordered(f, S)[mid + 1]

Column(name) == [p \in Peers |-> peer[p][name]]

\* The peers that report the metric.
Reported(name) == {p \in Peers : peer[p][name] # Null}

\* Mutant: losses are left among the ratios.
PositiveOrNot(name) == Reported(name)

\* A ratio counts only where it is positive.
Positive(name) == {p \in Reported(name) : peer[p][name] > 0}

PeerPe == MedianTwice(Column("pe"), Positive("pe"))
PeerPb == MedianTwice(Column("pb"), Positive("pb"))
PeerMargin == MedianTwice(Column("margin"), Reported("margin"))

\* Mutant: discount and premium swapped.
ValuationVoteSwapped(value, medianTwice, vote) ==
    IF value = Null \/ value <= 0 \/ medianTwice = Null \/ medianTwice <= 0 THEN 0
    ELSE IF 20 * value <= 8 * medianTwice THEN -vote
    ELSE IF 20 * value >= 12 * medianTwice THEN vote
    ELSE 0

\* A comparison that is impossible counts for nothing.
ValuationVote(value, medianTwice, vote) ==
    IF value = Null \/ value <= 0 \/ medianTwice = Null \/ medianTwice <= 0 THEN 0
    ELSE IF 20 * value <= 8 * medianTwice THEN vote
    ELSE IF 20 * value >= 12 * medianTwice THEN -vote
    ELSE 0

MarginVote(value, medianTwice) ==
    IF value = Null \/ medianTwice = Null THEN 0
    ELSE IF 2 * value > medianTwice THEN 5
    ELSE IF 2 * value < medianTwice THEN -5
    ELSE 0

FundamentalScore(s) ==
    ValuationVote(s.pe, PeerPe, 10) + ValuationVote(s.pb, PeerPb, 5)
    + MarginVote(s.margin, PeerMargin)

FundamentalOk == own # <<>> /\ own[1] # NoSnapshot

-----------------------------------------------------------------------------
\* The valuation the target price is built on is never nonsense: with an odd
\* or even number of peers, with losses and gaps among them, peer_median_pe is
\* a positive number between two of the peers' own.
PeerMedianIsAPeersValuation ==
    PeerPe # Null =>
        \E p, q \in Reported("pe") :
            0 < peer[p].pe /\ 2 * peer[p].pe <= PeerPe /\ PeerPe <= 2 * peer[q].pe

Cheaper(new, old) == new = old \/ (Null \notin {new, old} /\ 0 < new /\ new < old)
Better(new, old) == new = old \/ (Null \notin {new, old} /\ new > old)

\* A cheaper ticker never scores lower: lowering a positive P/E or P/B, or
\* raising the margin, with everything else as it is, does not lower the
\* score.  A loss (P/E not positive) is outside the comparison.
CheaperNeverScoresLower ==
    FundamentalOk => \A t \in Snapshot :
        ( /\ Cheaper(t.pe, own[1].pe) /\ Cheaper(t.pb, own[1].pb)
          /\ Better(t.margin, own[1].margin) )
        => FundamentalScore(t) >= FundamentalScore(own[1])
=============================================================================
