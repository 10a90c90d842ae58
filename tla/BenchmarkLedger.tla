-------------------------- MODULE BenchmarkLedger ---------------------------
(***************************************************************************)
(* What the rows of a resumable benchmark run promise, whatever processes  *)
(* work on it: a row is never replaced unless a rerun was asked for, the   *)
(* process that saw a provider outage adds no further row, and the run is  *)
(* published as complete only with every row there and as paused only by   *)
(* the process that saw the outage.                                        *)
(***************************************************************************)
CONSTANTS Paths, Rows, Absent, Global(_)

VARIABLES
    rows,       \* the rows on disk
    working,    \* a process is at work ...
    rerun,      \* ... that may replace rows ...
    outage,     \* ... and has seen a global provider failure
    published   \* what the run is published as

vars == <<rows, working, rerun, outage, published>>

Init ==
    /\ rows = [p \in Paths |-> Absent]
    /\ working = FALSE
    /\ rerun = FALSE
    /\ outage = FALSE
    /\ published = "NOTHING"

Begin ==
    /\ ~working
    /\ working' = TRUE
    /\ rerun' \in BOOLEAN
    /\ UNCHANGED <<rows, outage, published>>

\* Only its end makes a process forget the outage.
End ==
    /\ working
    /\ working' = FALSE
    /\ rerun' = FALSE
    /\ outage' = FALSE

\* It is interrupted or refuses to go on.
Abandon == End /\ UNCHANGED <<rows, published>>

\* The process withdraws what an earlier one published.
Reopen ==
    /\ working /\ ~outage
    /\ published' = "NOTHING"
    /\ UNCHANGED <<rows, working, rerun, outage>>

Write ==
    /\ working /\ ~outage
    /\ published = "NOTHING"
    /\ \E p \in Paths, row \in Rows :
         /\ rows[p] = Absent \/ rerun
         /\ rows' = [rows EXCEPT ![p] = row]
         /\ outage' = Global(row)
    /\ UNCHANGED <<working, rerun, published>>

\* The process publishes the run and ends.
Complete ==
    /\ ~outage
    /\ \A p \in Paths : rows[p] # Absent
    /\ published' = "COMPLETED"
    /\ End
    /\ UNCHANGED rows

Pause ==
    /\ outage
    /\ published' = "PAUSED_PROVIDER_UNAVAILABLE"
    /\ End
    /\ UNCHANGED rows

Next == Begin \/ Abandon \/ Reopen \/ Write \/ Complete \/ Pause

Spec == Init /\ [][Next]_vars
=============================================================================
