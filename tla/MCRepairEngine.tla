--------------------------- MODULE MCRepairEngine ---------------------------
(***************************************************************************)
(* RepairEngine on small instances.  One patch and one dependency tree for *)
(* each way a gate can decide.                                             *)
(***************************************************************************)
EXTENDS RepairEngine

MCFiles == {"Main.java", "MainTest.java", "Other.java"}
MCVersions == {"old", "new"}
MCKeys == {"target:jar", "target:tests", "causal:jar"}
MCTargetKeys == {"target:jar", "target:tests"}

CleanPatch == [EmptyPatch EXCEPT !.changed_files = {"Main.java"}]
DeletedTestPatch == [EmptyPatch EXCEPT !.changed_files = {"Main.java", "MainTest.java"},
                                       !.deleted_test_files = {"MainTest.java"}]
OutOfScopePatch == [EmptyPatch EXCEPT !.changed_files = {"Main.java", "Other.java"},
                                      !.out_of_scope_files = {"Other.java"}]
BroadPatch == [EmptyPatch EXCEPT !.changed_files = {"Main.java"}, !.concerns = {"BROAD"}]
SkippingPatch == [EmptyPatch EXCEPT !.changed_files = {"Other.java"},
                                    !.test_skip_introduced = TRUE]

MCPatches == {EmptyPatch, CleanPatch, DeletedTestPatch, OutOfScopePatch, BroadPatch}
MCFewPatches == {EmptyPatch, CleanPatch, OutOfScopePatch, SkippingPatch}

Resolving(target, tests, causal) ==
    [execution |-> "PASS", parsed |-> TRUE,
     nodes |-> [k \in MCKeys |-> IF k = "target:jar" THEN target
                                 ELSE IF k = "target:tests" THEN tests ELSE causal]]

RetainingTree == Resolving("new", None, "new")
MCTrees ==
    {RetainingTree,
     Resolving("old", None, "new"),      \* the target was downgraded
     Resolving("new", None, "old"),      \* the causal dependency was
     Resolving("new", "new", "new"),     \* two nodes with the target's coordinates
     Resolving("new", None, None),       \* the causal dependency is gone
     [RetainingTree EXCEPT !.parsed = FALSE],
     [RetainingTree EXCEPT !.execution = "TIMEOUT"]}
MCFewTrees == {RetainingTree, Resolving("new", None, "old")}

AllFaults == FaultKinds
CleanupFault == {"cleanup"}
=============================================================================
