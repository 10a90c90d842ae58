-------------------------- MODULE MCDependencyTree --------------------------
(* Two artifacts of the target and one other dependency, up to four lines  *)
(* and three levels.                                                       *)
EXTENDS DependencyTree

CONSTANTS jar, tests, other

MCKeys == {jar, tests, other}
MCTargetKeys == {jar, tests}
=============================================================================
