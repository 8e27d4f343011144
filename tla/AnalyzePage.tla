---------------------------- MODULE AnalyzePage ----------------------------
(***************************************************************************)
(* web/app/dashboard/page.tsx: one open dashboard page, its loads, its     *)
(* POST /analyze and the polling of the run it waits for, against a server *)
(* that keeps the lifecycle of JobLifecycle.                               *)
(*                                                                         *)
(* Every fetch is two steps, and nothing orders two answers.  Symbols the  *)
(* form refuses and the wording of errors are left out; a 401 leaves the   *)
(* page, and what happens then is not modelled.                            *)
(***************************************************************************)
EXTENDS Naturals, Sequences, FiniteSets

CONSTANTS
    Tickers,
    First,       \* the ticker the page opens with, "GF-A" in the source
    RunTicker,   \* run -> the ticker it analyses
    MaxLoads     \* bound: loads in flight

None == "none"
Runs == DOMAIN RunTicker

PageConstantsOK ==
    /\ First \in Tickers /\ None \notin Tickers
    /\ \A r \in Runs : RunTicker[r] \in Tickers
    /\ MaxLoads \in Nat \ {0, 1}

VARIABLES
    stage, line,   \* the server's runs
    query,         \* the ticker last searched for
    data,          \* the ticker on display, or None
    flow,          \* what the page shows instead, and about what
    loads,         \* GET .../dashboard requests in flight, with who asked
    busy,          \* the search form is disabled
    posting,       \* the ticker of the POST /analyze in flight, or None
    poll,          \* the pending run's effect: "none", "timer" or "asked"
    cancelled      \* runs with a poll in flight whose effect was cleaned up

server == <<stage, line>>
page == <<query, data, flow, loads, busy, posting, poll, cancelled>>
pageVars == <<server, page>>

Server == INSTANCE JobLifecycle

Load == [ticker : Tickers, by : {"query", "poll", "post"}]
Idle == [kind |-> "idle"]
Miss(t) == [kind |-> "miss", ticker |-> t]
Failed(t) == [kind |-> "failed", ticker |-> t]
Pending(r) == [kind |-> "pending", run |-> r]
Flow == {Idle} \union {Miss(t) : t \in Tickers} \union {Failed(t) : t \in Tickers}
        \union {Pending(r) : r \in Runs}

PageTypeOK ==
    /\ stage \in [Runs -> Server!Stage] /\ line \in Seq(Runs)
    /\ query \in Tickers /\ data \in Tickers \union {None}
    /\ flow \in Flow
    /\ loads \subseteq Load /\ busy \in BOOLEAN
    /\ posting \in Tickers \union {None}
    /\ poll \in {"none", "timer", "asked"}
    /\ flow.kind = "pending" <=> poll # "none"
    /\ cancelled \subseteq Runs

\* A deep link (?ticker=) sets the query after the first load was sent.
PageInit ==
    /\ Server!Init
    /\ query \in Tickers
    /\ data = None
    /\ flow = Idle
    /\ loads = {[ticker |-> t, by |-> "query"] : t \in {First, query}}
    /\ busy = TRUE
    /\ posting = None
    /\ poll = "none"
    /\ cancelled = {}

-----------------------------------------------------------------------------
\* setFlow; a pending flow starts the timer of its polling effect.
Display(f) ==
    /\ flow' = f
    /\ poll' = IF f.kind = "pending" THEN "timer" ELSE "none"

\* The effect of the old flow is cleaned up; its request in flight goes on.
Show(f) ==
    /\ Display(f)
    /\ cancelled' = IF poll = "asked" THEN cancelled \union {flow.run} ELSE cancelled

Stay == UNCHANGED <<flow, poll, cancelled>>

SendLoad(t, by) ==
    /\ Cardinality(loads) < MaxLoads
    /\ [ticker |-> t, by |-> by] \notin loads
    /\ loads' = loads \union {[ticker |-> t, by |-> by]}
    /\ busy' = TRUE

\* The search form; the same ticker again is no change of query, so no load.
Search(t) ==
    /\ ~busy
    /\ Show(Idle)
    /\ query' = t
    /\ IF t = query THEN UNCHANGED <<loads, busy>> ELSE SendLoad(t, "query")
    /\ UNCHANGED <<server, data, posting>>

\* Any load that returns enables the form, and one with an answer changes the
\* flow, whatever the page shows by then.
LoadReturns(l) ==
    /\ loads' = loads \ {l}
    /\ busy' = FALSE
    /\ posting' = IF l.by = "post" THEN None ELSE posting
    /\ \/ data' = l.ticker /\ Show(Idle)
       \/ data' = None /\ Show(Miss(l.ticker))
       \/ data' = None /\ Stay
    /\ UNCHANGED <<server, query>>

\* The buttons of the miss and failure cards, and Refresh (of a snapshot that
\* may or may not be stale); all are disabled while a POST is in flight.
Analyze(t) ==
    /\ posting = None
    /\ \/ flow.kind \in {"miss", "failed"} /\ flow.ticker = t
       \/ flow = Idle /\ data = t
    /\ posting' = t
    /\ UNCHANGED <<server, query, data, flow, loads, busy, poll, cancelled>>

AwaitsPost ==
    posting # None /\ [ticker |-> posting, by |-> "post"] \notin loads

\* 202 with a new run or the one it coalesced onto.
PostAccepted(r) ==
    /\ AwaitsPost
    /\ RunTicker[r] = posting /\ stage[r] # "unknown"
    /\ Show(Pending(r))
    /\ posting' = None
    /\ UNCHANGED <<server, query, data, loads, busy>>

\* 200: the snapshot answers; the POST is over when its load is.
PostReady ==
    /\ AwaitsPost
    /\ Show(Idle)
    /\ SendLoad(posting, "post")
    /\ UNCHANGED <<server, query, data, posting>>

\* 409, 400 or anything else.
PostRefused ==
    /\ AwaitsPost
    /\ Show(Miss(posting)) \/ Stay \/ Show(Failed(posting))
    /\ posting' = None
    /\ UNCHANGED <<server, query, data, loads, busy>>

PollAsks ==
    /\ poll = "timer"
    /\ poll' = "asked"
    /\ UNCHANGED <<server, query, data, flow, loads, busy, posting, cancelled>>

\* GET /analyze/{run_id}: the run is over well, it failed or the request was
\* refused, or there is nothing new (a network failure tells nothing either).
PollReturns ==
    /\ poll = "asked"
    /\ \/ /\ stage[flow.run] \in {"ready", "partial"}
          /\ Display(Idle)
          /\ SendLoad(RunTicker[flow.run], "poll")
       \/ Display(Failed(RunTicker[flow.run])) /\ UNCHANGED <<loads, busy>>
       \/ poll' = "timer" /\ UNCHANGED <<flow, loads, busy>>
    /\ UNCHANGED <<server, query, data, posting, cancelled>>

\* Mutant: a cleaned-up effect does not look whether it is.
CancelledPollReturnsAnyway(r) ==
    /\ r \in cancelled
    /\ cancelled' = cancelled \ {r}
    /\ IF stage[r] = "failed" THEN Display(Failed(RunTicker[r])) ELSE UNCHANGED <<flow, poll>>
    /\ UNCHANGED <<server, query, data, loads, busy, posting>>

\* The answer to a cleaned-up effect is dropped.
CancelledPollReturns(r) ==
    /\ r \in cancelled
    /\ cancelled' = cancelled \ {r}
    /\ UNCHANGED <<server, query, data, flow, loads, busy, posting, poll>>

ServerMoves == Server!Next /\ UNCHANGED page

PageNext ==
    \/ \E t \in Tickers : Search(t) \/ Analyze(t)
    \/ \E l \in loads : LoadReturns(l)
    \/ \E r \in Runs : PostAccepted(r) \/ CancelledPollReturns(r)
    \/ PostReady
    \/ PostRefused
    \/ PollAsks
    \/ PollReturns
    \/ ServerMoves

PageSpec == PageInit /\ [][PageNext]_pageVars

-----------------------------------------------------------------------------
\* A pending card comes down because its own run is over, because a poll of
\* that run was refused, because the user searched, or because a load that
\* was still in flight when the card went up came back: never for the answer
\* about a run that an earlier card was waiting for.
PendingEndsForItsOwnReasons ==
    [][ (flow.kind = "pending" /\ flow' # flow) =>
            \/ stage[flow.run] \in {"ready", "partial"} /\ poll = "asked"
            \/ flow' = Failed(RunTicker[flow.run]) /\ poll = "asked"
            \/ flow' = Idle /\ ~busy /\ (query' # query \/ loads' = loads)
            \/ \E l \in loads : loads' = loads \ {l} ]_pageVars
=============================================================================
