---------------------------- MODULE Dependencies ----------------------------
(***************************************************************************)
(* Resolved Maven dependency trees (analysis/dependency_diff.py) and the   *)
(* path from a dependency up to the project (analysis/api_diff.py):        *)
(* operators only.  A tree is the sequence of nodes the parser keeps, in   *)
(* the order Maven printed them.                                           *)
(***************************************************************************)
EXTENDS Integers, Sequences, FiniteSets

CONSTANTS
    Keys,        \* version-independent identities: group, artifact, type, classifier
    TargetKeys,  \* the keys with the target's group and artifact ...
    CanonicalKey,\* ... and the one of them of type jar without a classifier
    Versions,    \* resolved versions
    None         \* Python's None

ASSUME KeyAssumption ==
    /\ TargetKeys \subseteq Keys
    /\ CanonicalKey \in TargetKeys
    /\ None \notin Keys
    /\ None \notin Versions

\* DependencyNode; `version' stands for the version and the scope.
Node == [key : Keys, version : Versions, depth : Nat \ {0}, parent : Keys \union {None}]

KeysOf(nodes) == {nodes[i].key : i \in DOMAIN nodes}

\* The parser keeps one node for a key, which is what _index_nodes insists on.
NodeAt(nodes, key) == nodes[CHOOSE i \in DOMAIN nodes : nodes[i].key = key]

VersionAt(nodes, key) == IF key \in KeysOf(nodes) THEN NodeAt(nodes, key).version ELSE None

Relationship(node) == IF node.depth = 1 THEN "DIRECT" ELSE "TRANSITIVE"

-----------------------------------------------------------------------------
(* The target.                                                             *)

\* The target is ambiguous in a tree: DependencyAnalysisError.
TargetAmbiguous(nodes) ==
    LET matches == KeysOf(nodes) \intersect TargetKeys
    IN  CanonicalKey \notin matches /\ Cardinality(matches) > 1

\* _find_target of the analysis: the canonical artifact, or the only one.
FindTarget(nodes) ==
    LET matches == KeysOf(nodes) \intersect TargetKeys
    IN  IF CanonicalKey \in matches THEN CanonicalKey
        ELSE IF Cardinality(matches) = 1 THEN CHOOSE k \in matches : TRUE
        ELSE None

-----------------------------------------------------------------------------
(* The comparison.                                                         *)

ChangeKinds == {"ADDED", "REMOVED", "UPDATED", "UNCHANGED"}

ChangeKind(before, after) ==
    IF before = None THEN "ADDED"
    ELSE IF after = None THEN "REMOVED"
    ELSE IF before # after THEN "UPDATED"
    ELSE "UNCHANGED"

\* compare_dependency_trees: one change for each key of either tree.
Compare(base, updated) ==
    {[key       |-> k,
      kind      |-> ChangeKind(VersionAt(base, k), VersionAt(updated, k)),
      before    |-> VersionAt(base, k),
      after     |-> VersionAt(updated, k),
      is_target |-> k \in {FindTarget(base), FindTarget(updated)}]
     : k \in KeysOf(base) \union KeysOf(updated)}

-----------------------------------------------------------------------------
(* Provenance.                                                             *)

\* One step up from the last key met: its parent, unless there is none in the
\* tree or it was met before.
Further(nodes, met) ==
    IF met = <<>> THEN met
    ELSE LET parent == NodeAt(nodes, met[Len(met)]).parent
         IN  IF parent \in KeysOf(nodes) /\ \A i \in DOMAIN met : met[i] # parent
             THEN Append(met, parent)
             ELSE met

\* The keys met going up from `key' in at most n steps.
Climb(nodes, key) ==
    LET up[n \in 0..Len(nodes)] ==
            IF n = 0 THEN IF key \in KeysOf(nodes) THEN <<key>> ELSE <<>>
            ELSE Further(nodes, up[n - 1])
    IN  up

\* A tree has no more keys than nodes, so that many steps reach the end.
Ascent(nodes, key) == Climb(nodes, key)[Len(nodes)]

\* The mutant that leaves out the reversal.
UpwardPath(nodes, key) == Ascent(nodes, key)

\* reconstruct_dependency_path: from the project's own dependency down to `key'.
DependencyPath(nodes, key) ==
    LET up == Ascent(nodes, key) IN [i \in 1..Len(up) |-> up[Len(up) + 1 - i]]

TargetOnPath(path) == \E i \in DOMAIN path : path[i] \in TargetKeys
=============================================================================
