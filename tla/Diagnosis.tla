----------------------------- MODULE Diagnosis ------------------------------
(***************************************************************************)
(* One diagnosis and its plan, from the facts of both builds: candidates   *)
(* are attributed one by one (ApiEvidenceAnalyzer.analyze), hypotheses     *)
(* ranked (DeterministicInvestigator.investigate), usages searched in a    *)
(* second, fresh checkout and the plan drawn up                            *)
(* (MigrationPlanningService.plan).                                        *)
(*                                                                         *)
(* `world' is what the two builds, the archives and the project really     *)
(* are; what may be trusted in the answer is judged against it.            *)
(***************************************************************************)
EXTENDS Planning, SequencesExt

CONSTANTS
    Worlds       \* the situations looked at, in families: a bound of the model

\* What the earlier phases hand over: trees of parsed nodes, a failing line that
\* is localized or not, and a finite checkout.
ASSUME WorldsAssumption ==
    \A family \in DOMAIN Worlds : \A w \in Worlds[family] :
        /\ w.base \in Seq(Node) /\ w.updated \in Seq(Node)
        /\ w.source.localized \in BOOLEAN
        /\ w.checkout \subseteq Sources /\ IsFiniteSet(w.checkout)

\* DiagnosisStatus and ApiAnalysisStatus.
DiagnosisStatuses == {"SUPPORTED_DIAGNOSIS", "AMBIGUOUS_DIAGNOSIS", "PARTIAL_DIAGNOSIS",
                      "INSUFFICIENT_EVIDENCE"}

AnalysisStatuses == {"NO_SUPPORTED_FAILURE", "AMBIGUOUS_ATTRIBUTION", "API_TOOL_UNAVAILABLE",
                     "PARTIAL_EVIDENCE", "API_EVIDENCE_FOUND", "CLASS_ATTRIBUTED_NO_API_CHANGE",
                     "NO_CHANGED_DEPENDENCY_ATTRIBUTION"}

\* None is told apart from every outcome.
ASSUME OutcomeAssumption == None \notin DiagnosisStatuses \union AnalysisStatuses

VARIABLES
    world,       \* the facts; never changes
    stage,       \* what comes next
    attributions,\* DependencyAttributions, one for each candidate so far
    issues,      \* whether some artifact could not be inspected
    analysis,    \* ApiAnalysisStatus
    ranking,     \* the hypotheses, best first
    status,      \* DiagnosisStatus
    plan         \* the migration plan

vars == <<world, stage, attributions, issues, analysis, ranking, status, plan>>

TypeOK ==
    /\ stage \in {"attribute", "investigate", "plan", "done", "refused"}
    /\ \A i \in DOMAIN attributions : attributions[i].ownership \in
          {"PROJECT_OWNED", "NO_MATCH", "EXACT_SINGLE_MATCH", "MULTIPLE_MATCHES"}
    /\ issues \in BOOLEAN
    /\ \A i \in DOMAIN ranking : ranking[i].score \in 0..100
    /\ analysis \in AnalysisStatuses \union {None}
    /\ status \in DiagnosisStatuses \union {None}

-----------------------------------------------------------------------------

Init ==
    /\ \E family \in DOMAIN Worlds : world \in Worlds[family]
    /\ stage = "attribute"
    /\ attributions = <<>>
    /\ issues = FALSE
    /\ analysis = None
    /\ ranking = <<>>
    /\ status = None
    /\ plan = None

Attributed == {attributions[i] : i \in DOMAIN attributions}

CandidatesOf(w) == IF w.failure = None THEN <<>> ELSE Candidates(w.mentions)

\* compare_dependency_trees raises: which artifact is the target is not clear.
Refuse ==
    /\ stage = "attribute"
    /\ TargetAmbiguous(world.base) \/ TargetAmbiguous(world.updated)
    /\ stage' = "refused"
    /\ UNCHANGED <<world, attributions, issues, analysis, ranking, status, plan>>

\* The next candidate.
AttributeNext ==
    /\ stage = "attribute"
    /\ ~TargetAmbiguous(world.base) /\ ~TargetAmbiguous(world.updated)
    /\ Len(attributions) < Len(CandidatesOf(world))
    /\ LET candidate == CandidatesOf(world)[Len(attributions) + 1]
           attribution == Attribute(world, candidate)
       IN  /\ attributions' = Append(attributions, attribution)
           /\ issues' = \/ issues
                        \/ LeavesIssue(world, candidate)
                        \/ /\ attribution.api # None
                           /\ attribution.api.kind = "API_INSPECTION_UNAVAILABLE"
    /\ UNCHANGED <<world, stage, analysis, ranking, status, plan>>

\* The bundle is complete.
CloseBundle ==
    /\ stage = "attribute"
    /\ ~TargetAmbiguous(world.base) /\ ~TargetAmbiguous(world.updated)
    /\ Len(attributions) = Len(CandidatesOf(world))
    /\ stage' = "investigate"
    /\ analysis' = ClassifyAnalysis(world.failure, Attributed, issues)
    /\ UNCHANGED <<world, attributions, issues, ranking, status, plan>>

Investigate ==
    /\ stage = "investigate"
    /\ LET hypotheses == Hypotheses(world, Attributed)
       IN  /\ \E order \in SetToSeqs(hypotheses) :
                 /\ \A i, j \in DOMAIN order : i < j => ~RanksBefore(order[j], order[i])
                 /\ ranking' = order
           /\ status' = DiagnosisStatus(hypotheses)
    /\ stage' = "plan"
    /\ UNCHANGED <<world, attributions, issues, analysis, plan>>

\* Usages are searched only for a supported diagnosis.
Plan ==
    /\ stage = "plan"
    /\ LET lead == PrimaryHypothesis(status, ranking)
           api  == ApiEvidenceOf(Attributed, lead)
           locations == IF status = "SUPPORTED_DIAGNOSIS" /\ lead # None /\ api # None
                        THEN FindUsages(world, MigrationKind(lead), api) ELSE {}
       IN  plan' = PlanFor(status, lead, Attributed, locations)
    /\ stage' = "done"
    /\ UNCHANGED <<world, attributions, issues, analysis, ranking, status>>

Next == Refuse \/ AttributeNext \/ CloseBundle \/ Investigate \/ Plan

Spec == Init /\ [][Next]_vars

-----------------------------------------------------------------------------
(* What is true of the world, whatever could be read of it.                *)

Lead == PrimaryHypothesis(status, ranking)

\* The jar of a dependency before or after the update, {} if it is not resolved.
Really(side, version, key) == IF version = None THEN {} ELSE world.jars[side][key].classes

Old(change) == Really("base", change.before, change.key)
New(change) == Really("updated", change.after, change.key)

\* The members of the class with the name the failure is about.
Named(side, change, class) ==
    {m \in world.jars[side][change.key].api[class] : m.name = world.failure.symbol.name}

\* Every set of nodes that contains the key and the parents of its nodes
\* contains the target: some dependency above it, or itself, is the target.
BroughtByTarget(nodes, key) ==
    \A S \in SUBSET KeysOf(nodes) :
        key \in S /\ (\A k \in S : NodeAt(nodes, k).parent \in S \union {None})
            => S \intersect TargetKeys # {}

\* What a hypothesis claims of the update of its dependency.
Claim(hypothesis) ==
    LET change == ChangeOf(hypothesis.attribution)
        name   == hypothesis.attribution.candidate.name
    IN  CASE hypothesis.kind = "REMOVED_CLASS" -> name \in Old(change) \ New(change)
          [] hypothesis.kind = "DEPENDENCY_REMOVED_WITH_CLASS" ->
                 name \in Old(change) /\ change.key \notin KeysOf(world.updated)
          [] hypothesis.kind = "PACKAGE_REMOVED" ->
                 Old(change) \intersect Under[name] # {} /\ New(change) \intersect Under[name] = {}
          [] hypothesis.kind = "REMOVED_MEMBER" ->
                 /\ name \in Old(change) \intersect New(change)
                 /\ Named("base", change, name) # {} /\ Named("updated", change, name) = {}
          [] hypothesis.kind = "CHANGED_MEMBER_SIGNATURE" ->
                 /\ name \in Old(change) \intersect New(change)
                 /\ Named("base", change, name) # Named("updated", change, name)

\* A supported diagnosis is true: its dependency lost or changed what the lead
\* says, the target of the upgrade brought that dependency in, and the failing
\* line was found in the project.
SupportedDiagnosisIsTrue ==
    status = "SUPPORTED_DIAGNOSIS" =>
        LET change == ChangeOf(Lead.attribution)
        IN  /\ Claim(Lead)
            /\ BroughtByTarget(IF change.after = None THEN world.base ELSE world.updated, change.key)
            /\ world.source.localized

\* The lead of a diagnosis has the standing the diagnosis reports: the scores
\* never rank a weaker kind of hypothesis above the one that decided the status.
LeadIsBest ==
    /\ status = "SUPPORTED_DIAGNOSIS" => Lead.status = "SUPPORTED"
    /\ status = "PARTIAL_DIAGNOSIS" => Lead.status = "PARTIALLY_SUPPORTED"

\* The facts the analysis hands to the investigator always fit together, so a
\* contradiction is always one about the API.
EvidenceIsConsistent ==
    \A i \in DOMAIN ranking : ranking[i].contradictory \subseteq {"RELEVANT_MEMBER_UNCHANGED"}

StepsOf(hypothesis) == {hypothesis.chain[i] : i \in DOMAIN hypothesis.chain}

\* A supported hypothesis links the upgrade of the target, the change of the
\* dependency where it is another one, the API change, the usage and the
\* failure, in that order, and every link rests on evidence.
SupportedChainIsComplete ==
    \A i \in DOMAIN ranking :
        ranking[i].status = "SUPPORTED" =>
            LET kinds == [j \in DOMAIN ranking[i].chain |-> ranking[i].chain[j].kind]
            IN  /\ kinds = <<"TARGET_UPGRADE">>
                           \o (IF ChangeOf(ranking[i].attribution).is_target THEN <<>>
                               ELSE <<"DEPENDENCY_RESOLUTION_CHANGE">>)
                           \o <<"API_CHANGE", "PROJECT_USAGE", "OBSERVED_FAILURE">>
                /\ \A step \in StepsOf(ranking[i]) : step.evidence # {}

\* The chain from the upgrade to the failure holds: both of the above.
SupportedChainHolds == EvidenceIsConsistent /\ SupportedChainIsComplete

\* A plan may be carried out only for a true cause, and then the file that
\* fails is one the repair may edit, with no generated file beside it.
ReadyPlanAllowsTheFailingFile ==
    plan # None =>
        /\ plan.status = "PLAN_READY" =>
              /\ status = "SUPPORTED_DIAGNOSIS" /\ Claim(Lead)
              /\ world.source.file \in plan.allowed_files
        /\ \A f \in plan.allowed_files : SourceKind[f] # "GENERATED_SOURCE"
        /\ Cardinality(plan.allowed_files) <= MaxAllowedFiles

\* What the analysis reports without a reservation covers every changed
\* dependency: when it found no owner nobody has the type, and when it found
\* evidence no jar it could not read hides another owner.
AnalysisLookedEverywhere ==
    analysis \in {"NO_CHANGED_DEPENDENCY_ATTRIBUTION", "API_EVIDENCE_FOUND"} =>
        \A a \in Attributed : \A c \in Relevant(world) :
            ~a.candidate.project_owned /\ ~a.candidate.is_package
                /\ a.candidate.name \in Old(c) \union New(c)
            => a.ownership \in {"EXACT_SINGLE_MATCH", "MULTIPLE_MATCHES"} /\ c \in a.dependencies

-----------------------------------------------------------------------------
(* What the documents say and the code does not do.                        *)

\* A supported lead has "one changed dependency owner": no other changed
\* dependency really contains the class.
SupportedOwnerIsUnique ==
    status = "SUPPORTED_DIAGNOSIS" /\ ~Lead.attribution.candidate.is_package =>
        \A c \in Relevant(world) :
            Lead.attribution.candidate.name \in Old(c) \union New(c) => c = ChangeOf(Lead.attribution)

\* A member that is reported unchanged has the same declaration before and after.
UnchangedMeansSameDeclaration ==
    \A a \in Attributed :
        a.api # None /\ a.api.kind = "RELEVANT_MEMBER_UNCHANGED" =>
            a.api.old_members = a.api.new_members

\* A package is present where "at least one class [is] directly under" it, so
\* one that lost its last class was removed.
PackageRemovalIsSeen ==
    \A a \in Attributed :
        a.ownership = "EXACT_SINGLE_MATCH" /\ a.candidate.is_package
            /\ a.api.kind # "API_INSPECTION_UNAVAILABLE" =>
            LET change == ChangeOf(a)
            IN  Old(change) \intersect Directly[a.candidate.name] # {}
                    /\ New(change) \intersect Directly[a.candidate.name] = {}
                => a.api.kind = "PACKAGE_REMOVED"

\* Every step of a causal chain is "supported by explicit evidence references".
EveryStepHasEvidence ==
    \A i \in DOMAIN ranking : \A step \in StepsOf(ranking[i]) : step.evidence # {}

\* The plan is about the class its diagnosis is about.
PlanIsAboutTheLead ==
    plan # None /\ plan.affected_class # None =>
        plan.affected_class = Lead.attribution.candidate.name

\* A failure in a generated file requires human review.
GeneratedFailureNeedsReview ==
    plan # None /\ world.source.file # None =>
        (SourceKind[world.source.file] = "GENERATED_SOURCE" => ~Actionable(plan.status))
=============================================================================
