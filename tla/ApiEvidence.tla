---------------------------- MODULE ApiEvidence -----------------------------
(***************************************************************************)
(* Which changed dependency owns the types a failure names, and what its   *)
(* update did to them: analysis/type_candidates.py, jar_inspector.py and   *)
(* api_diff.py.  Operators only; Diagnosis runs them.                      *)
(*                                                                         *)
(* A jar is what Maven's artifact list and the archive give of it.  Types  *)
(* in signatures are model values with a simple name, because the          *)
(* comparison looks at nothing else of them.                               *)
(***************************************************************************)
EXTENDS Dependencies

CONSTANTS
    Classes,     \* fully qualified class names
    Packages,    \* package names a compiler may report missing
    Under,       \* Under[p]: the classes in p and in the packages below it
    Directly,    \* Directly[p]: those of them directly in p
    Members,     \* public members: [name, kind, parameters, returns, is_static]
    SimpleName   \* SimpleName[t]: what follows the last dot of type t

ASSUME ScopeAssumption ==
    /\ Classes \intersect Packages = {}
    /\ Under \in [Packages -> SUBSET Classes]
    /\ Directly \in [Packages -> SUBSET Classes]
    /\ \A p \in Packages : Directly[p] \subseteq Under[p]

\* What the artifact list and the file system say of one resolved artifact.
JarStatus == {"readable", "unlisted", "listed_twice", "unsupported", "unreadable"}

Jar == [status : JarStatus, classes : SUBSET Classes, api : [Classes -> SUBSET Members],
        inspectable : BOOLEAN]

Presence == {"present", "absent", "unknown"}

-----------------------------------------------------------------------------
(* Type candidates.                                                        *)

\* A type mentioned by the failure: what extract() has before it filters.
Mention == [name : Classes \union Packages, platform : BOOLEAN, project_owned : BOOLEAN]

\* The candidates, first mention first: no platform types, no name twice.
Candidates(mentions) ==
    LET kept == SelectSeq([i \in DOMAIN mentions |->
                    [mention |-> mentions[i],
                     again   |-> \E j \in 1..(i - 1) : mentions[j].name = mentions[i].name]],
                    LAMBDA c : ~c.again /\ ~c.mention.platform)
    IN  [i \in DOMAIN kept |->
            [name          |-> kept[i].mention.name,
             is_package    |-> kept[i].mention.name \in Packages,
             project_owned |-> kept[i].mention.name \in Classes /\ kept[i].mention.project_owned]]

-----------------------------------------------------------------------------
(* Ownership.                                                              *)

Holds(jar, candidate) ==
    IF candidate.is_package THEN jar.classes \intersect Under[candidate.name] # {}
    ELSE candidate.name \in jar.classes

\* _owns and _resolve_artifact: what cannot be inspected is not known.
Owns(jar, version, candidate) ==
    IF version = None THEN "absent"
    ELSE IF jar.status # "readable" THEN "unknown"
    ELSE IF Holds(jar, candidate) THEN "present"
    ELSE "absent"

Relevant(w) == {c \in Compare(w.base, w.updated) : c.kind # "UNCHANGED"}

Before(w, change, candidate) == Owns(w.jars["base"][change.key], change.before, candidate)
After(w, change, candidate) == Owns(w.jars["updated"][change.key], change.after, candidate)

Matches(w, candidate) ==
    {c \in Relevant(w) : "present" \in {Before(w, c, candidate), After(w, c, candidate)}}

\* The mutant that forgets the jars before the update.
LeavesIssueAfter(w, candidate) ==
    /\ ~candidate.project_owned
    /\ \E c \in Relevant(w) : "unknown" = After(w, c, candidate)

\* Whether looking for the candidate in the changed jars left an issue behind.
LeavesIssue(w, candidate) ==
    /\ ~candidate.project_owned
    /\ \E c \in Relevant(w) : "unknown" \in {Before(w, c, candidate), After(w, c, candidate)}

-----------------------------------------------------------------------------
(* The API transition.                                                     *)

\* _member_key: the types of a signature count by their simple names.
MemberKey(member) ==
    [name       |-> member.name,
     kind       |-> member.kind,
     parameters |-> [i \in DOMAIN member.parameters |-> SimpleName[member.parameters[i]]],
     returns    |-> SimpleName[member.returns],
     is_static  |-> member.is_static]

SameMembers(old, new) == {MemberKey(m) : m \in old} = {MemberKey(m) : m \in new}

ParametersMatch(actual, expected) ==
    /\ Len(actual) = Len(expected)
    /\ \A i \in DOMAIN actual : SimpleName[actual[i]] = SimpleName[expected[i]]

CompareNamedSets(old, new) ==
    IF old # {} /\ new # {}
    THEN IF SameMembers(old, new) THEN "RELEVANT_MEMBER_UNCHANGED" ELSE "CHANGED_MEMBER_SIGNATURE"
    ELSE IF old # {} THEN "REMOVED_MEMBER"
    ELSE IF new # {} THEN "ADDED_MEMBER"
    ELSE "NO_RELEVANT_API_CHANGE"

\* _failure_member: the parameters are those in the symbol, or those javac
\* found at a call that does not fit.
ExpectedParameters(failure) ==
    IF failure.symbol.parameters # None THEN failure.symbol.parameters
    ELSE IF failure.category = "METHOD_ARGUMENT_MISMATCH" THEN failure.found
    ELSE None

NamesMember(failure) == failure.symbol # None /\ failure.category # "PACKAGE_NOT_FOUND"

\* compare_relevant_api: the kind of the transition and the members it is about.
CompareRelevantApi(failure, old, new) ==
    IF ~NamesMember(failure)
    THEN [kind |-> "CLASS_PRESENT_BOTH", old_members |-> {}, new_members |-> {}]
    ELSE
    LET oldNamed == {m \in old : m.name = failure.symbol.name}
        newNamed == {m \in new : m.name = failure.symbol.name}
        expected == ExpectedParameters(failure)
        Exact(named) ==
            IF expected = None THEN {} ELSE {m \in named : ParametersMatch(m.parameters, expected)}
        oldExact == Exact(oldNamed)
        newExact == Exact(newNamed)
    IN  [kind        |-> IF oldExact # {} /\ newExact # {} THEN CompareNamedSets(oldExact, newExact)
                         ELSE IF oldExact # {} THEN CompareNamedSets(oldExact, newNamed)
                         ELSE CompareNamedSets(oldNamed, newNamed),
         old_members |-> IF oldExact # {} THEN oldExact ELSE oldNamed,
         new_members |-> IF newExact # {} THEN newExact ELSE newNamed]

\* _api_evidence, by presence alone: what became of the class or the package, or
\* that the members have to be compared.
Transition(w, candidate, change) ==
    LET before == Before(w, change, candidate)
        after  == After(w, change, candidate)
    IN  IF "unknown" \in {before, after} THEN "API_INSPECTION_UNAVAILABLE"
        ELSE IF candidate.is_package
        THEN IF before = "present" /\ after = "absent" THEN "PACKAGE_REMOVED"
             ELSE "NO_RELEVANT_API_CHANGE"
        ELSE IF after = "absent"
        THEN IF change.kind = "REMOVED" THEN "DEPENDENCY_REMOVED_WITH_CLASS" ELSE "REMOVED_CLASS"
        ELSE IF before = "absent" THEN "ADDED_CLASS"
        ELSE IF w.failure = None THEN "NO_RELEVANT_API_CHANGE"
        ELSE IF ~(w.jars["base"][change.key].inspectable /\ w.jars["updated"][change.key].inspectable)
        THEN "API_INSPECTION_UNAVAILABLE"
        ELSE "COMPARED"

\* _api_evidence: what the update of its one owner did to the candidate.
ApiEvidenceFor(w, candidate, change) ==
    LET kind     == Transition(w, candidate, change)
        new      == w.jars["updated"][change.key].api[candidate.name]
        compared == CompareRelevantApi(w.failure, w.jars["base"][change.key].api[candidate.name], new)
    IN  [kind        |-> IF kind = "COMPARED" THEN compared.kind ELSE kind,
         class_name  |-> candidate.name,
         symbol      |-> IF w.failure = None THEN None ELSE w.failure.symbol,
         before      |-> change.before,
         after       |-> change.after,
         old_members |-> IF kind = "COMPARED" THEN compared.old_members ELSE {},
         new_members |-> IF kind = "COMPARED" THEN compared.new_members ELSE {},
         new_class   |-> IF kind = "COMPARED" THEN new ELSE {}]

Unattributed(candidate, ownership, dependencies) ==
    [candidate |-> candidate, ownership |-> ownership, dependencies |-> dependencies,
     path |-> <<>>, target_on_path |-> FALSE, api |-> None]

\* A removed dependency has its place in the base tree only.
TreeOf(w, change) == IF change.kind = "REMOVED" THEN w.base ELSE w.updated

\* One turn of the loop of _attribute.
Attribute(w, candidate) ==
    LET matches == Matches(w, candidate)
    IN  IF candidate.project_owned THEN Unattributed(candidate, "PROJECT_OWNED", {})
        ELSE IF matches = {} THEN Unattributed(candidate, "NO_MATCH", {})
        ELSE IF Cardinality(matches) > 1
        THEN Unattributed(candidate, "MULTIPLE_MATCHES", matches)
        ELSE LET change == CHOOSE c \in matches : TRUE
                 path == DependencyPath(TreeOf(w, change), change.key)
             IN  [candidate      |-> candidate,
                  ownership      |-> "EXACT_SINGLE_MATCH",
                  dependencies   |-> matches,
                  path           |-> path,
                  target_on_path |-> TargetOnPath(path),
                  api            |-> ApiEvidenceFor(w, candidate, change)]

-----------------------------------------------------------------------------

UsefulKinds == {"REMOVED_CLASS", "ADDED_CLASS", "REMOVED_MEMBER", "ADDED_MEMBER",
                "CHANGED_MEMBER_SIGNATURE", "DEPENDENCY_REMOVED_WITH_CLASS", "PACKAGE_REMOVED"}

SupportedFailures == {"MISSING_SYMBOL", "METHOD_ARGUMENT_MISMATCH", "PACKAGE_NOT_FOUND",
                      "INCOMPATIBLE_TYPES"}

\* _classify_analysis: what the collection of evidence is reported to be.
ClassifyAnalysis(failure, attributions, issues) ==
    LET kinds == {a.api.kind : a \in {b \in attributions : b.api # None}}
    IN  IF failure = None THEN "NO_SUPPORTED_FAILURE"
        ELSE IF failure.category \notin SupportedFailures /\ ~failure.traced
        THEN "NO_SUPPORTED_FAILURE"
        ELSE IF \E a \in attributions : a.ownership = "MULTIPLE_MATCHES"
        THEN "AMBIGUOUS_ATTRIBUTION"
        ELSE IF "API_INSPECTION_UNAVAILABLE" \in kinds THEN "API_TOOL_UNAVAILABLE"
        ELSE IF kinds \intersect UsefulKinds # {}
        THEN IF issues THEN "PARTIAL_EVIDENCE" ELSE "API_EVIDENCE_FOUND"
        ELSE IF kinds # {} THEN "CLASS_ATTRIBUTED_NO_API_CHANGE"
        ELSE IF issues THEN "PARTIAL_EVIDENCE"
        ELSE "NO_CHANGED_DEPENDENCY_ATTRIBUTION"
=============================================================================
