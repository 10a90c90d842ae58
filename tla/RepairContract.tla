--------------------------- MODULE RepairContract ---------------------------
(***************************************************************************)
(* What a caller of RepairEngine.repair may rely on, without worktrees,    *)
(* gates or artifacts: at most Max attempts, one more only after a         *)
(* retryable one, and a verdict that follows from the last outcome.        *)
(***************************************************************************)
EXTENDS Naturals

CONSTANT Max

VARIABLES tried, outcome, verdict

vars == <<tried, outcome, verdict>>

Outcomes == {"retryable", "stopped", "review", "accepted"}

Init ==
    /\ tried = 0
    /\ outcome = "none"
    /\ verdict = "PENDING"

Try ==
    /\ verdict = "PENDING"
    /\ outcome \in {"none", "retryable"}
    /\ tried < Max
    /\ tried' = tried + 1
    /\ outcome' \in Outcomes
    /\ UNCHANGED verdict

\* The plan was not ready: no attempt is made.
Decline ==
    /\ verdict = "PENDING"
    /\ tried = 0
    /\ verdict' = "NEEDS_HUMAN_REVIEW"
    /\ UNCHANGED <<tried, outcome>>

Accept ==
    /\ verdict = "PENDING"
    /\ outcome = "accepted"
    /\ verdict' = "VERIFIED_MIGRATION"
    /\ UNCHANGED <<tried, outcome>>

HandOver ==
    /\ verdict = "PENDING"
    /\ outcome = "review"
    /\ verdict' = "NEEDS_HUMAN_REVIEW"
    /\ UNCHANGED <<tried, outcome>>

GiveUp ==
    /\ verdict = "PENDING"
    /\ outcome = "stopped" \/ (outcome = "retryable" /\ tried = Max)
    /\ verdict' = "UNRESOLVED"
    /\ UNCHANGED <<tried, outcome>>

\* An exception or a killed process: there is no result.
Abort ==
    /\ verdict = "PENDING"
    /\ verdict' = "ABORTED"
    /\ UNCHANGED <<tried, outcome>>

Next == Try \/ Decline \/ Accept \/ HandOver \/ GiveUp \/ Abort

Spec == Init /\ [][Next]_vars
=============================================================================
