------------------------------ MODULE Planning ------------------------------
(***************************************************************************)
(* From a diagnosis to a migration plan: the search for usages             *)
(* (analysis/source_usage.py) and the planner (agent/repairer.py).         *)
(* Operators only.  Paths and class names are integers where the code      *)
(* orders them by name.                                                    *)
(***************************************************************************)
EXTENDS Investigation

CONSTANTS
    Sources,            \* the Java files of the project, numbered in path order
    SourceKind,         \* SourceKind[f]: where in the project f lies
    ClassOrder,         \* ClassOrder[c]: the place of a name in alphabetic order
    MaxAllowedFiles     \* MAX_ALLOWED_FILES

ASSUME PlanningAssumption ==
    /\ Sources \subseteq Nat
    /\ SourceKind \in [Sources -> {"PRODUCTION_SOURCE", "TEST_SOURCE", "GENERATED_SOURCE"}]
    /\ MaxAllowedFiles \in Nat \ {0}

-----------------------------------------------------------------------------
(* Usages.                                                                 *)

MigrationKind(hypothesis) ==
    IF hypothesis = None \/ hypothesis.kind \notin PositiveKinds THEN "UNKNOWN"
    ELSE CASE hypothesis.kind = "REMOVED_MEMBER" -> "REMOVED_METHOD"
           [] hypothesis.kind = "CHANGED_MEMBER_SIGNATURE" -> "CHANGED_METHOD_SIGNATURE"
           [] hypothesis.kind = "REMOVED_CLASS" -> "REMOVED_CLASS"
           [] hypothesis.kind = "PACKAGE_REMOVED" -> "REMOVED_PACKAGE"
           [] hypothesis.kind = "DEPENDENCY_REMOVED_WITH_CLASS" -> "REMOVED_DEPENDENCY"

\* _matching_location_kind: what a line that calls the member, or imports or
\* mentions the class, is taken for under a migration of this kind.
LocationKind(use, migration, symbol) ==
    IF migration \in {"REMOVED_METHOD", "CHANGED_METHOD_SIGNATURE"}
    THEN IF use = "call" /\ symbol # None THEN "POTENTIAL_CALL_SITE" ELSE None
    ELSE IF migration = "REMOVED_PACKAGE"
    THEN IF use = "import" THEN "EXACT_IMPORT" ELSE None
    ELSE IF migration \in {"REMOVED_CLASS", "REMOVED_DEPENDENCY"}
    THEN IF use = "import" THEN "EXACT_IMPORT"
         ELSE IF use = "mention" THEN "POTENTIAL_TYPE_REFERENCE" ELSE None
    ELSE None

\* _primary_location: the failing line, if a fresh checkout has it.
PrimaryLocation(w) ==
    IF w.source.file # None /\ w.source.file \in w.checkout /\ w.source.line_exists
    THEN {[file |-> w.source.file, kind |-> "PRIMARY_FAILURE"]} ELSE {}

\* SourceUsageFinder.find in a fresh checkout of the updated commit; only
\* production and test sources are scanned. A line is one location: `uses' are the
\* matching lines other than the failing one, which is there already.
FindUsages(w, migration, api) ==
    PrimaryLocation(w)
      \union {l \in [file : {f \in w.checkout : SourceKind[f] # "GENERATED_SOURCE"},
                     kind : {"EXACT_IMPORT", "POTENTIAL_CALL_SITE", "POTENTIAL_TYPE_REFERENCE"}] :
                 \E u \in w.uses : /\ u.file = l.file
                                   /\ u.use = "call" \/ u.class = api.class_name
                                   /\ l.kind = LocationKind(u.use, migration, api.symbol)}

-----------------------------------------------------------------------------
(* The plan.                                                               *)

\* _api_evidence_for: among the evidence that fits the hypothesis, the first by
\* the name of its class.
ApiEvidenceOf(attributions, hypothesis) ==
    IF hypothesis = None \/ hypothesis.kind \notin PositiveKinds THEN None
    ELSE LET found == {a.api : a \in {b \in attributions :
                          /\ b.api # None /\ b.api.kind = hypothesis.kind
                          /\ b.dependencies = hypothesis.attribution.dependencies}}
         IN  IF found = {} THEN None
             ELSE CHOOSE e \in found :
                      \A f \in found : ClassOrder[e.class_name] <= ClassOrder[f.class_name]

\* _planning_status.
PlanStatus(status, hypothesis, api, locations) ==
    LET primary == {l \in locations : l.kind = "PRIMARY_FAILURE"}
    IN  IF status \in {"AMBIGUOUS_DIAGNOSIS", "PARTIAL_DIAGNOSIS"} THEN "NEEDS_HUMAN_REVIEW"
        ELSE IF status = "INSUFFICIENT_EVIDENCE" \/ hypothesis = None \/ api = None
        THEN "NO_ACTIONABLE_DIAGNOSIS"
        ELSE IF \E l \in primary : SourceKind[l.file] = "GENERATED_SOURCE"
        THEN "NEEDS_HUMAN_REVIEW"
        ELSE IF primary = {} THEN "PLAN_PARTIAL"
        ELSE IF Strength(hypothesis.score) \in {"STRONG", "VERY_STRONG"} THEN "PLAN_READY"
        ELSE "PLAN_PARTIAL"

Actionable(status) == status \in {"PLAN_READY", "PLAN_PARTIAL"}

Priority(kind) ==
    CASE kind = "PRIMARY_FAILURE" -> 0
      [] kind = "EXACT_IMPORT" -> 1
      [] kind = "POTENTIAL_CALL_SITE" -> 2
      [] kind = "POTENTIAL_TYPE_REFERENCE" -> 3

FilePriority(locations, f) ==
    LET kinds == {Priority(l.kind) : l \in {m \in locations : m.file = f}}
    IN  CHOOSE p \in kinds : \A q \in kinds : p <= q

\* The mutant that orders the files by their paths only.
AllowedByPath(locations) ==
    LET files == {l.file : l \in {m \in locations : SourceKind[m.file] # "GENERATED_SOURCE"}}
    IN  {f \in files : Cardinality({g \in files : g < f}) < MaxAllowedFiles}

\* _allowed_files: the first by priority, then path.
AllowedFiles(locations) ==
    LET files == {l.file : l \in {m \in locations : SourceKind[m.file] # "GENERATED_SOURCE"}}
        Precedes(g, f) == \/ FilePriority(locations, g) < FilePriority(locations, f)
                          \/ FilePriority(locations, g) = FilePriority(locations, f) /\ g < f
    IN  {f \in files : Cardinality({g \in files : Precedes(g, f)}) < MaxAllowedFiles}

EstimateScope(count) ==
    IF count <= 2 THEN "SMALL" ELSE IF count <= 5 THEN "MEDIUM" ELSE "LARGE"

\* MigrationPlanner.plan.
PlanFor(status, hypothesis, attributions, locations) ==
    LET api    == ApiEvidenceOf(attributions, hypothesis)
        result == PlanStatus(status, hypothesis, api, locations)
        files  == IF Actionable(result) THEN AllowedFiles(locations) ELSE {}
    IN  [status         |-> result,
         migration_kind |-> MigrationKind(hypothesis),
         affected_class |-> IF api = None THEN None ELSE api.class_name,
         primary        |-> \E l \in locations : l.kind = "PRIMARY_FAILURE",
         allowed_files  |-> files,
         scope          |-> EstimateScope(Cardinality(files)),
         cautious       |-> \/ result = "PLAN_PARTIAL"
                            \/ hypothesis # None
                                  /\ Strength(hypothesis.score) \notin {"STRONG", "VERY_STRONG"}]
=============================================================================
