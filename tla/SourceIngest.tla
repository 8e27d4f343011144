---------------------------- MODULE SourceIngest ----------------------------
(***************************************************************************)
(* What every ingestion source promises the pipeline, whatever it fetches: *)
(* a run takes a list of items (tickers, or 13F filers), settles each of   *)
(* them exactly once, lets no failure of one item touch the others, and    *)
(* answers "unavailable" when, and only when, no item succeeded.           *)
(***************************************************************************)
EXTENDS FiniteSets

CONSTANT Items

VARIABLES
    todo,      \* the items not settled yet
    ok,        \* the items that succeeded in this run
    verdict    \* "none", "running", "ok" or "unavailable"

vars == <<todo, ok, verdict>>

Verdict(succeeded) == IF succeeded = {} THEN "unavailable" ELSE "ok"

Init == todo = {} /\ ok = {} /\ verdict = "none"

Start(listed) ==
    /\ verdict # "running"
    /\ todo' = listed
    /\ ok' = {}
    /\ verdict' = IF listed = {} THEN "unavailable" ELSE "running"

\* The last item may be settled and the run closed in one step.
Settle(item) ==
    /\ verdict = "running"
    /\ item \in todo
    /\ todo' = todo \ {item}
    /\ ok' \in {ok, ok \union {item}}
    /\ \/ verdict' = "running"
       \/ todo' = {} /\ verdict' = Verdict(ok')

Close ==
    /\ verdict = "running"
    /\ todo = {}
    /\ verdict' = Verdict(ok)
    /\ UNCHANGED <<todo, ok>>

Next ==
    \/ \E listed \in SUBSET Items : Start(listed)
    \/ \E item \in todo : Settle(item)
    \/ Close

Spec == Init /\ [][Next]_vars
=============================================================================
