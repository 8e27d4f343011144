---------------------------- MODULE JobLifecycle ----------------------------
(***************************************************************************)
(* What a client polling GET /analyze/{run_id} may rely on: a run is       *)
(* queued, then fetching, then scoring, then ready, partial or failed for  *)
(* good; runs start in the order they joined the line, and at most one is  *)
(* being worked on.  The design spec's status enum, with the worker's "one *)
(* job at a time".                                                         *)
(***************************************************************************)
EXTENDS Naturals, Sequences

CONSTANT Runs

VARIABLES stage,  \* what a poll of each run answers
          line    \* runs waiting for the worker, first come first

vars == <<stage, line>>

Terminal == {"ready", "partial", "failed"}
Stage == {"unknown", "queued", "fetching", "scoring"} \cup Terminal

Init ==
    /\ stage = [r \in Runs |-> "unknown"]
    /\ line = <<>>

\* The run exists; it joins the line in a step of its own.
Enroll(r) ==
    /\ stage[r] = "unknown"
    /\ stage' = [stage EXCEPT ![r] = "queued"]
    /\ UNCHANGED line

Join(r) ==
    /\ stage[r] = "queued"
    /\ \A i \in DOMAIN line : line[i] # r
    /\ line' = Append(line, r)
    /\ UNCHANGED stage

NobodyWorking == \A r \in Runs : stage[r] \notin {"fetching", "scoring"}

\* The first of the line goes to work, or fails before it begins.
Start ==
    /\ line # <<>> /\ NobodyWorking
    /\ \E s \in {"fetching", "failed"} : stage' = [stage EXCEPT ![Head(line)] = s]
    /\ line' = Tail(line)

Advance(r) ==
    /\ stage[r] = "fetching"
    /\ stage' = [stage EXCEPT ![r] = "scoring"]
    /\ UNCHANGED line

\* Only a run that was scored can be anything but failed.
Complete(r) ==
    /\ \/ stage[r] = "fetching" /\ stage' = [stage EXCEPT ![r] = "failed"]
       \/ stage[r] = "scoring"  /\ \E s \in Terminal : stage' = [stage EXCEPT ![r] = s]
    /\ UNCHANGED line

Next == Start \/ \E r \in Runs : Enroll(r) \/ Join(r) \/ Advance(r) \/ Complete(r)

Fairness ==
    /\ WF_vars(Start)
    /\ \A r \in Runs : WF_vars(Join(r)) /\ WF_vars(Advance(r) \/ Complete(r))

Spec == Init /\ [][Next]_vars
FairSpec == Spec /\ Fairness
=============================================================================
