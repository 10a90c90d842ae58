------------------------- MODULE MCBenchmarkRunner --------------------------
(***************************************************************************)
(* BenchmarkRunner on small suites.                                        *)
(***************************************************************************)
EXTENDS BenchmarkRunner

TwoCases == <<"case-0", "case-1">>
ThreeCases == <<"case-0", "case-1", "case-2">>
OneStrategy == <<"BUMPSHIELD">>
TwoStrategies == <<"DIRECT_ONE_SHOT", "BUMPSHIELD">>

LocalFailure == [status |-> "UNRESOLVED", failure |-> "PROVIDER_TIMEOUT"]
Outage == [status |-> "UNRESOLVED", failure |-> "PROVIDER_QUOTA_EXHAUSTED"]
MCResults == {LocalFailure, Outage}
MCOutage == {Outage}
=============================================================================
