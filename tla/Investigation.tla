--------------------------- MODULE Investigation ----------------------------
(***************************************************************************)
(* The deterministic investigator (agent/investigator.py): a hypothesis    *)
(* for each attribution, its score and status from the evidence for it and *)
(* against it, and the diagnosis the hypotheses amount to.  Operators      *)
(* only.  A piece of evidence is its kind; ids and wording are left out.   *)
(***************************************************************************)
EXTENDS ApiEvidence

PositiveKinds == {"REMOVED_MEMBER", "CHANGED_MEMBER_SIGNATURE", "REMOVED_CLASS",
                  "PACKAGE_REMOVED", "DEPENDENCY_REMOVED_WITH_CLASS"}

HypothesisKinds == PositiveKinds \union {"API_INSPECTION_UNAVAILABLE", "RELEVANT_MEMBER_UNCHANGED"}

Inconsistencies == {"CHANGE_NOT_IN_DIFF", "SYMBOL_MISMATCH", "TARGET_NOT_ON_PATH",
                    "PATH_ENDS_ELSEWHERE"}

-----------------------------------------------------------------------------
(* The evidence score.                                                     *)

\* EVIDENCE_WEIGHTS of what supports a hypothesis.
Weight(kind) ==
    CASE kind = "DEPENDENCY_UPDATE" -> 10
      [] kind = "EXACT_CLASS_OWNERSHIP" -> 20
      [] kind = "API_CHANGE" -> 30
      [] kind = "FAILURE_SYMBOL_MATCH" -> 20
      [] kind \in {"SOURCE_LOCALIZED", "SOURCE_CALL_SITE"} -> 5
      [] kind = "TARGET_DEPENDENCY_PATH" -> 10
      [] OTHER -> 0

\* EVIDENCE_WEIGHTS of what is missing; a missing symbol match costs nothing.
Penalty(kind) ==
    CASE kind = "API_INSPECTION_UNAVAILABLE" -> 35
      [] kind \in {"SOURCE_UNRESOLVED", "DEPENDENCY_PATH_INCOMPLETE"} -> 10
      [] OTHER -> 0

Supports == {"DEPENDENCY_UPDATE", "EXACT_CLASS_OWNERSHIP", "API_CHANGE", "FAILURE_SYMBOL_MATCH",
             "SOURCE_LOCALIZED", "SOURCE_CALL_SITE", "TARGET_DEPENDENCY_PATH"}

Gaps == {"API_INSPECTION_UNAVAILABLE", "FAILURE_SYMBOL_MATCH", "SOURCE_UNRESOLVED",
         "DEPENDENCY_PATH_INCOMPLETE"}

If(kind, evidence, value) == IF kind \in evidence THEN value ELSE 0

\* The sum of the contributions.
RawScore(supporting, missing) ==
      If("DEPENDENCY_UPDATE", supporting, Weight("DEPENDENCY_UPDATE"))
    + If("EXACT_CLASS_OWNERSHIP", supporting, Weight("EXACT_CLASS_OWNERSHIP"))
    + If("API_CHANGE", supporting, Weight("API_CHANGE"))
    + If("FAILURE_SYMBOL_MATCH", supporting, Weight("FAILURE_SYMBOL_MATCH"))
    + If("SOURCE_LOCALIZED", supporting, Weight("SOURCE_LOCALIZED"))
    + If("SOURCE_CALL_SITE", supporting, Weight("SOURCE_CALL_SITE"))
    + If("TARGET_DEPENDENCY_PATH", supporting, Weight("TARGET_DEPENDENCY_PATH"))
    - If("API_INSPECTION_UNAVAILABLE", missing, Penalty("API_INSPECTION_UNAVAILABLE"))
    - If("SOURCE_UNRESOLVED", missing, Penalty("SOURCE_UNRESOLVED"))
    - If("DEPENDENCY_PATH_INCOMPLETE", missing, Penalty("DEPENDENCY_PATH_INCOMPLETE"))

HardContradictionScoreCap == 20

\* Kept within 0 and 100, and low when something contradicts the hypothesis.
Score(supporting, contradictory, missing) ==
    LET raw     == RawScore(supporting, missing)
        bounded == IF raw < 0 THEN 0 ELSE IF raw > 100 THEN 100 ELSE raw
    IN  IF contradictory # {} /\ bounded > HardContradictionScoreCap
        THEN HardContradictionScoreCap ELSE bounded

Strength(score) ==
    IF score >= 90 THEN "VERY_STRONG"
    ELSE IF score >= 70 THEN "STRONG"
    ELSE IF score >= 50 THEN "MODERATE"
    ELSE IF score >= 25 THEN "WEAK"
    ELSE "INSUFFICIENT"

\* What a hypothesis of this kind is worth, given what speaks against it and
\* what is missing for it.
HypothesisStatus(kind, contradictory, missing) ==
    IF contradictory # {} THEN "CONTRADICTED"
    ELSE IF kind \notin PositiveKinds THEN "INSUFFICIENT_EVIDENCE"
    ELSE IF missing # {} THEN "PARTIALLY_SUPPORTED"
    ELSE "SUPPORTED"

-----------------------------------------------------------------------------
(* Hypotheses.                                                             *)

ChangeOf(attribution) == CHOOSE c \in attribution.dependencies : TRUE

\* _evidence_inconsistencies: facts of earlier phases that do not fit together.
InconsistenciesOf(w, a) ==
    LET change == ChangeOf(a)
        Holding(kind) ==
            CASE kind = "CHANGE_NOT_IN_DIFF" ->
                    \/ change \notin Compare(w.base, w.updated)
                    \/ a.api.before # change.before \/ a.api.after # change.after
              [] kind = "SYMBOL_MISMATCH" ->
                    w.failure # None /\ a.api.symbol \notin {None, w.failure.symbol}
              [] kind = "TARGET_NOT_ON_PATH" -> a.target_on_path /\ ~TargetOnPath(a.path)
              [] kind = "PATH_ENDS_ELSEWHERE" ->
                    \* a coordinate is a key and the version its tree has for it
                    a.path # <<>> /\ <<a.path[Len(a.path)], VersionAt(TreeOf(w, change), a.path[Len(a.path)])>>
                        # <<change.key, IF change.kind = "REMOVED" THEN change.before ELSE change.after>>
    IN  {kind \in Inconsistencies : Holding(kind)}

\* Evidence for the hypothesis.
Supporting(w, a) ==
    LET symbol == w.failure # None /\ a.api.symbol # None /\ a.api.symbol = w.failure.symbol
    IN  {"DEPENDENCY_UPDATE", "EXACT_CLASS_OWNERSHIP"}
          \union (IF a.api.kind \in PositiveKinds THEN {"API_CHANGE"} ELSE {})
          \union (IF symbol THEN {"FAILURE_SYMBOL_MATCH"} ELSE {})
          \union (IF w.source.localized THEN {"SOURCE_LOCALIZED"} ELSE {})
          \union (IF w.source.localized /\ w.source.call_site /\ w.failure.symbol # None
                  THEN {"SOURCE_CALL_SITE"} ELSE {})
          \union (IF a.target_on_path THEN {"TARGET_DEPENDENCY_PATH"} ELSE {})

\* Evidence against it.
Contradictory(w, a) ==
    InconsistenciesOf(w, a)
      \union (IF a.api.kind = "RELEVANT_MEMBER_UNCHANGED" THEN {"RELEVANT_MEMBER_UNCHANGED"} ELSE {})

\* The mutant for which a cause outside the target's subtree lacks nothing.
MissingPathForgiven(w, a) ==
    (IF a.api.kind = "API_INSPECTION_UNAVAILABLE" THEN {"API_INSPECTION_UNAVAILABLE"} ELSE {})
      \union (IF w.failure = None \/ a.api.symbol = None THEN {"FAILURE_SYMBOL_MATCH"} ELSE {})
      \union (IF ~w.source.localized THEN {"SOURCE_UNRESOLVED"} ELSE {})

\* The mutant for which a failure without a symbol lacks nothing.
MissingSymbolForgiven(w, a) ==
    (IF a.api.kind = "API_INSPECTION_UNAVAILABLE" THEN {"API_INSPECTION_UNAVAILABLE"} ELSE {})
      \union (IF ~w.source.localized THEN {"SOURCE_UNRESOLVED"} ELSE {})
      \union (IF ~a.target_on_path THEN {"DEPENDENCY_PATH_INCOMPLETE"} ELSE {})

\* Evidence it lacks.
Missing(w, a) ==
    (IF a.api.kind = "API_INSPECTION_UNAVAILABLE" THEN {"API_INSPECTION_UNAVAILABLE"} ELSE {})
      \union (IF w.failure = None \/ a.api.symbol = None THEN {"FAILURE_SYMBOL_MATCH"} ELSE {})
      \union (IF ~w.source.localized THEN {"SOURCE_UNRESOLVED"} ELSE {})
      \union (IF ~a.target_on_path THEN {"DEPENDENCY_PATH_INCOMPLETE"} ELSE {})

\* _causal_chain: its steps in order, each with the evidence it cites.
CausalChain(w, a, supporting) ==
    LET change == ChangeOf(a)
        Cite(kinds) == kinds \intersect supporting
        Step(kind, kinds) == [kind |-> kind, evidence |-> Cite(kinds)]
        cause == IF change.is_target /\ a.target_on_path
                 THEN <<Step("TARGET_UPGRADE", {"DEPENDENCY_UPDATE"})>>
                 ELSE (IF a.target_on_path
                       THEN <<Step("TARGET_UPGRADE", {"TARGET_DEPENDENCY_PATH"})>> ELSE <<>>)
                      \o <<Step("DEPENDENCY_RESOLUTION_CHANGE", {"DEPENDENCY_UPDATE"})>>
        api == IF a.api.kind \in PositiveKinds
               THEN <<Step("API_CHANGE", {"API_CHANGE"})>> ELSE <<>>
        usage == IF w.source.localized
                 THEN <<Step("PROJECT_USAGE", {"SOURCE_CALL_SITE", "SOURCE_LOCALIZED"})>> ELSE <<>>
        failure == IF w.failure # None
                   THEN <<Step("OBSERVED_FAILURE", {"FAILURE_SYMBOL_MATCH"})>> ELSE <<>>
    IN  cause \o api \o usage \o failure

\* _api_hypothesis.
ApiHypothesis(w, a) ==
    LET supporting    == Supporting(w, a)
        contradictory == Contradictory(w, a)
        missing       == Missing(w, a)
    IN  [attribution   |-> a,
         kind          |-> a.api.kind,
         status        |-> HypothesisStatus(a.api.kind, contradictory, missing),
         score         |-> Score(supporting, contradictory, missing),
         contradictory |-> contradictory,
         missing       |-> missing,
         chain         |-> CausalChain(w, a, supporting)]

\* _ambiguous_hypothesis.
AmbiguousHypothesis(a) ==
    [attribution |-> a, kind |-> "AMBIGUOUS_OWNERSHIP", status |-> "AMBIGUOUS", score |-> 0,
     contradictory |-> {}, missing |-> {"API_INSPECTION_UNAVAILABLE"}, chain |-> <<>>]

\* The hypotheses of all attributions.
Hypotheses(w, attributions) ==
    {AmbiguousHypothesis(a) : a \in {b \in attributions : b.ownership = "MULTIPLE_MATCHES"}}
      \union {ApiHypothesis(w, a) :
                  a \in {b \in attributions : b.ownership = "EXACT_SINGLE_MATCH"
                                                 /\ b.api.kind \in HypothesisKinds}}

\* The mutant that sorts the scores upwards.
LowestFirst(h, k) == h.score < k.score

\* _hypothesis_sort_key, but for the name of the dependency and the hash of
\* the hypothesis, which break the ties that are left one way or another.
RanksBefore(h, k) ==
    \/ h.score > k.score
    \/ /\ h.score = k.score
       /\ \/ Cardinality(h.contradictory) < Cardinality(k.contradictory)
          \/ /\ Cardinality(h.contradictory) = Cardinality(k.contradictory)
             /\ Cardinality(h.missing) < Cardinality(k.missing)

DiagnosisStatus(hypotheses) ==
    LET statuses == {h.status : h \in hypotheses}
    IN  IF "SUPPORTED" \in statuses THEN "SUPPORTED_DIAGNOSIS"
        ELSE IF "AMBIGUOUS" \in statuses THEN "AMBIGUOUS_DIAGNOSIS"
        ELSE IF "PARTIALLY_SUPPORTED" \in statuses THEN "PARTIAL_DIAGNOSIS"
        ELSE "INSUFFICIENT_EVIDENCE"

\* primary_hypothesis: the first of the ranking, where there is a lead at all.
PrimaryHypothesis(status, ranking) ==
    IF status \in {"AMBIGUOUS_DIAGNOSIS", "INSUFFICIENT_EVIDENCE"} \/ ranking = <<>> THEN None
    ELSE ranking[1]
=============================================================================
