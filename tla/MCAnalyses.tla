------------------------------ MODULE MCAnalyses ------------------------------
(***************************************************************************)
(* Two calls of the analyses; every analysis runs against another one, and *)
(* two of them are given the same run id.                                  *)
(***************************************************************************)
EXTENDS Analyses

Assign(first, second, run) ==
    [c \in Calls |-> IF c = "one" THEN [service |-> first, run |-> "r1"]
                                  ELSE [service |-> second, run |-> run]]

MCCalls == {"one", "two"}
MCServices ==
    {Assign("reproduce", "reproduce", "r1"), Assign("dependencies", "failures", "r1"),
     Assign("diagnose", "failures", "r2"), Assign("plan", "reproduce", "r1")}
=============================================================================
