------------------------------- MODULE Retry -------------------------------
(***************************************************************************)
(* app/batch/adapters/common.py: what one attempt at an upstream call can  *)
(* bring, and when the bounded retry loop goes on or gives up.  The pause  *)
(* between attempts (backoff and jitter) changes nothing but time.         *)
(***************************************************************************)
EXTENDS Naturals

CONSTANT RetryAttempts   \* RETRY_ATTEMPTS, 3 in the code

ASSUME RetryAttemptsOK == RetryAttempts \in Nat \ {0}

\* An answer; an error that reads like 429, 5xx, DNS or a timeout; any other.
Reply == {"good", "transient", "fatal"}

\* Mutant: one attempt too many.
RetriesOnceMore(reply, attempt) == reply = "transient" /\ attempt <= RetryAttempts

Retries(reply, attempt) == reply = "transient" /\ attempt < RetryAttempts

GivesUp(reply, attempt) ==
    reply = "fatal" \/ (reply = "transient" /\ attempt = RetryAttempts)
=============================================================================
