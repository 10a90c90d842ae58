---------------------------- MODULE Verification ----------------------------
(***************************************************************************)
(* The deterministic judgement passed on one candidate patch: what the     *)
(* patch analyser's findings mean (analysis/patch_analysis.py), which      *)
(* versions the patched Maven graph resolves, and the nine checks of the   *)
(* independent verifier (execution/verifier.py).  Operators only: the      *)
(* repair loop that calls them is RepairEngine.                            *)
(*                                                                         *)
(* A patch is abstracted to the sets of files each finding is about, a     *)
(* dependency tree to the version it resolves for each dependency key.     *)
(***************************************************************************)

CONSTANTS
    Files,            \* repository-relative paths a patch may touch
    Versions,         \* dependency versions a Maven graph may resolve
    None,             \* Python's None, where a version may be missing
    Keys,             \* dependency keys: group, artifact, type, classifier
    TargetKeys,       \* the keys with the target's group and artifact
    TargetVersion,    \* task.target_dependency.new_version
    CausalExpected,   \* plan.affected_dependency has an `after' coordinate
    CausalKey,        \* its key ...
    CausalVersion     \* ... and its version

ASSUME VersionAssumption ==
    /\ None \notin Versions
    /\ TargetKeys \subseteq Keys
    /\ TargetVersion \in Versions
    /\ CausalExpected \in BOOLEAN
    /\ CausalKey \in Keys
    /\ CausalVersion \in Versions

ExecutionStatus == {"PASS", "FAIL", "TIMEOUT", "ERROR"}

VerificationStatus ==
    {"VERIFIED_MIGRATION", "VERIFICATION_FAILED", "NEEDS_HUMAN_REVIEW"}

-----------------------------------------------------------------------------
(* Patches.                                                                *)

\* Review concerns that do not come from the scope comparison.
Concerns == {"MANIFEST", "BROAD", "PRODUCTION_DELETED", "REMOVAL", "DUMMY_RETURN",
             "ASSERTIONS_REMOVED"}

PatchAnalysis ==
    [changed_files             : SUBSET Files,
     deleted_test_files        : SUBSET Files,
     newly_disabled_test_files : SUBSET Files,
     test_skip_introduced      : BOOLEAN,
     out_of_scope_files        : SUBSET Files,
     concerns                  : SUBSET Concerns]

\* What Git reports of a worktree nobody edited.
EmptyPatch ==
    [changed_files |-> {}, deleted_test_files |-> {}, newly_disabled_test_files |-> {},
     test_skip_introduced |-> FALSE, out_of_scope_files |-> {}, concerns |-> {}]

HasChanges(patch) == patch.changed_files # {}

\* Whether analyze() puts anything in fatal_issues.
Fatal(patch) ==
    \/ patch.deleted_test_files # {}
    \/ patch.newly_disabled_test_files # {}
    \/ patch.test_skip_introduced

\* Whether analyze() puts anything in review_issues.
Suspicious(patch) ==
    \/ patch.out_of_scope_files # {}
    \/ patch.concerns # {}

-----------------------------------------------------------------------------
(* Dependency resolution of the patched project.                           *)

\* What the Maven dependency:tree command and the tree parser return.
DependencyTree ==
    [execution : ExecutionStatus, parsed : BOOLEAN, nodes : [Keys -> Versions \union {None}]]

\* The keys of S the tree has a node for.
NodesAmong(tree, S) == {k \in S : tree.nodes[k] # None}

\* The version of the one node with the target's coordinates, if it is one.
FindTarget(tree) ==
    IF \E k \in TargetKeys : NodesAmong(tree, TargetKeys) = {k}
    THEN tree.nodes[CHOOSE k \in TargetKeys : NodesAmong(tree, TargetKeys) = {k}]
    ELSE None

FindCausal(tree) == IF CausalExpected THEN tree.nodes[CausalKey] ELSE None

DependencyValidation ==
    [execution                  : ExecutionStatus,
     target_retained            : BOOLEAN,
     causal_dependency_retained : BOOLEAN,
     resolved_target_version    : Versions \union {None},
     resolved_causal_version    : Versions \union {None}]

\* A tree that did not resolve, or cannot be parsed, retains nothing.
Validate(tree) ==
    LET readable == tree.execution = "PASS" /\ tree.parsed
        target   == IF readable THEN FindTarget(tree) ELSE None
        causal   == IF readable THEN FindCausal(tree) ELSE None
    IN  [execution                  |-> tree.execution,
         target_retained            |-> target = TargetVersion,
         causal_dependency_retained |->
             readable /\ (CausalExpected => causal = CausalVersion),
         resolved_target_version    |-> target,
         resolved_causal_version    |-> causal]

\* The dependency guard the repair loop applies before it compiles anything.
GuardAccepts(dependency) ==
    /\ dependency.execution = "PASS"
    /\ dependency.target_retained
    /\ dependency.causal_dependency_retained

-----------------------------------------------------------------------------
(* The verifier.                                                           *)

\* Some mandatory check is FAIL.
AnyCheckFails(dependency, compile, test, patch) ==
    \/ ~dependency.target_retained             \* TARGET_DEPENDENCY
    \/ ~dependency.causal_dependency_retained  \* CAUSAL_DEPENDENCY
    \/ compile # "PASS"                        \* COMPILE
    \/ test # "PASS"                           \* TESTS
    \/ patch.deleted_test_files # {}           \* TEST_FILES
    \/ patch.newly_disabled_test_files # {}    \* TEST_DISABLEMENT
    \/ patch.test_skip_introduced              \* TEST_SKIPPING
    \/ Fatal(patch)                            \* PATCH_SAFETY

\* Some check asks for a human: PATCH_SCOPE or PATCH_SAFETY.
AnyCheckReviews(patch) ==
    \/ patch.out_of_scope_files # {}
    \/ ~Fatal(patch) /\ Suspicious(patch)

\* The mutant of a verifier that never asks for a human.
VerifyWithoutReview(dependency, compile, test, patch) ==
    IF AnyCheckFails(dependency, compile, test, patch)
    THEN "VERIFICATION_FAILED"
    ELSE "VERIFIED_MIGRATION"

Verify(dependency, compile, test, patch) ==
    IF AnyCheckFails(dependency, compile, test, patch) THEN "VERIFICATION_FAILED"
    ELSE IF AnyCheckReviews(patch) THEN "NEEDS_HUMAN_REVIEW"
    ELSE "VERIFIED_MIGRATION"
=============================================================================
