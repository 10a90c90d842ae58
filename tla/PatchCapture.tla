---------------------------- MODULE PatchCapture ----------------------------
(***************************************************************************)
(* PatchAnalyzer (analysis/patch_analysis.py) on one repair worktree: the  *)
(* baseline taken before the provider runs, the edits the provider leaves  *)
(* behind, and what capture through Git makes of them.                     *)
(*                                                                         *)
(* A file is its path; its content counts only through the markers the     *)
(* analyser looks for.  The provider cannot commit: the Git directory of a *)
(* linked worktree is outside the one directory its sandbox may write.     *)
(***************************************************************************)
EXTENDS Naturals, FiniteSets, FiniteSetsExt

CONSTANTS
    Files,       \* paths in the worktree
    JavaFiles,   \* those with suffix .java
    TestFiles,   \* the Java files below src/test/java
    Manifests,   \* pom.xml files, .mvn/maven.config, .mvn/jvm.config
    Generated,   \* paths with a part named target or .git
    Ignored,     \* paths a .gitignore pattern matches
    Evidenced,   \* allowed_files and affected_source_locations of the plan
    Contents,
    Disables,    \* @Disabled and @Ignore markers in a content
    Skips,       \* test-skipping markers in a content
    BroadLimit,  \* the most files a plan of this scope may touch
    MaxUntracked, \* _MAX_CAPTURED_UNTRACKED_FILES
    MaxEdits     \* bound: edits the provider makes

Absent == "absent"

\* The plan names files it found at the updated commit (head, below).
ASSUME CaptureAssumption ==
    /\ IsFiniteSet(Files)
    /\ TestFiles \subseteq JavaFiles /\ JavaFiles \subseteq Files
    /\ Manifests \subseteq Files \ JavaFiles
    /\ Generated \subseteq Files /\ Ignored \subseteq Files
    /\ Evidenced \subseteq Files
    /\ Absent \notin Contents
    /\ Disables \in [Contents -> Nat] /\ Skips \in [Contents -> Nat]
    /\ BroadLimit \in Nat /\ MaxUntracked \in Nat /\ MaxEdits \in Nat

VARIABLES
    pc,
    head,      \* the updated commit
    index,     \* tracked files, and those marked intent-to-add
    tree,      \* the worktree
    edits,     \* edits so far
    baseline,  \* PatchBaseline
    analysis   \* PatchAnalysis

vars == <<pc, head, index, tree, edits, baseline, analysis>>

-----------------------------------------------------------------------------
(* Values.                                                                 *)

Tree == [Files -> Contents \union {Absent}]
Present(t) == {f \in Files : t[f] # Absent}

\* _read_text: a missing file is empty.
DisableCount(t, f) == IF t[f] = Absent THEN 0 ELSE Disables[t[f]]

\* _skip_count
SkipCount(t, paths) ==
    MapThenSumSet(LAMBDA f : IF t[f] = Absent THEN 0 ELSE Skips[t[f]],
                  paths \intersect Manifests)

Baseline == [tests : SUBSET TestFiles, disables : [TestFiles -> Nat], skips : Nat]
NoBaseline == [tests |-> {}, disables |-> [f \in TestFiles |-> 0], skips |-> 0]

Analysis ==
    [changed  : SUBSET Files,
     patch    : SUBSET Files,  \* the files git diff HEAD has a hunk for
     fatal    : BOOLEAN,
     review   : BOOLEAN]
NoAnalysis == [changed |-> {}, patch |-> {}, fatal |-> FALSE, review |-> FALSE]

TypeOK ==
    /\ pc \in {"baseline", "provider", "analyze", "done", "raised"}
    /\ head \in Tree
    /\ index \subseteq Files
    /\ tree \in Tree
    /\ edits \in 0..MaxEdits
    /\ baseline \in Baseline
    /\ analysis \in Analysis

\* A fresh worktree of a commit that has every file of the plan. A file may be
\* tracked and match an ignore pattern.
Init ==
    /\ pc = "baseline"
    /\ head \in {t \in Tree : Evidenced \subseteq Present(t)}
    /\ index = Present(head)
    /\ tree = head
    /\ edits = 0
    /\ baseline = NoBaseline
    /\ analysis = NoAnalysis

-----------------------------------------------------------------------------
(* The attempt.                                                            *)

CaptureBaseline ==
    /\ pc = "baseline"
    /\ pc' = "provider"
    /\ baseline' = [tests    |-> index \intersect TestFiles,
                    disables |-> [f \in TestFiles |->
                                    IF f \in index THEN DisableCount(tree, f) ELSE 0],
                    skips    |-> SkipCount(tree, index)]
    /\ UNCHANGED <<head, index, tree, edits, analysis>>

\* The provider writes or removes a file.
Edit ==
    /\ pc = "provider"
    /\ edits < MaxEdits
    /\ edits' = edits + 1
    /\ \E f \in Files, c \in Contents \union {Absent} :
         /\ c # tree[f]
         /\ tree' = [tree EXCEPT ![f] = c]
    /\ UNCHANGED <<pc, head, index, baseline, analysis>>

ProviderEnds ==
    /\ pc = "provider"
    /\ pc' = "analyze"
    /\ UNCHANGED <<head, index, tree, edits, baseline, analysis>>

-----------------------------------------------------------------------------
(* analyze().                                                              *)

\* The mutant that leaves new files out of the diff.
UntrackedNever == {}

\* Files git status reports with ??, less the generated ones.
Untracked == (Present(tree) \ (index \union Ignored)) \ Generated

\* The files git diff HEAD compares.
Compared == index \union Untracked
Differing == {f \in Compared : head[f] # tree[f]}
Removed == {f \in Differing : tree[f] = Absent}
Added == {f \in Differing : head[f] = Absent}

\* Git pairs removed with added files it finds similar; of a pair, the
\* name-status parser keeps the new path.
Renames ==
    {olds \in SUBSET Removed : Cardinality(olds) <= Cardinality(Added)}

\* The mutant that takes new files to be in scope.
OutOfScopeWithoutNew(changed) == changed \ (Evidenced \union Untracked)

OutOfScope(changed) == changed \ Evidenced

\* Findings about tests that end an attempt.
Fatal ==
    \/ \E f \in baseline.tests : tree[f] = Absent
    \/ \E f \in Compared \intersect TestFiles :
           DisableCount(tree, f) > baseline.disables[f]
    \/ SkipCount(tree, Compared) > baseline.skips

\* Findings a human has to look at.  The ones about single lines may or may
\* not be there, whatever the files.
Review(changed, deleted) ==
    \/ OutOfScope(changed) # {}
    \/ changed \intersect Manifests # {}
    \/ Cardinality(changed) > BroadLimit
    \/ (deleted \intersect JavaFiles) \ TestFiles # {}

Analyze ==
    /\ pc = "analyze"
    /\ Cardinality(Untracked) <= MaxUntracked
    /\ pc' = "done"
    /\ index' = Compared
    /\ \E olds \in Renames, lines \in BOOLEAN :
         LET changed == Differing \ olds
         IN  analysis' = [changed |-> changed,
                          patch   |-> Differing,
                          fatal   |-> Fatal,
                          review  |-> lines \/ Review(changed, Removed \ olds)]
    /\ UNCHANGED <<head, tree, edits, baseline>>

\* PatchAnalysisError: a Git command failed, or there are too many new files.
CaptureFails ==
    /\ \/ pc \in {"baseline", "analyze"} /\ UNCHANGED index
       \/ pc = "analyze" /\ Cardinality(Untracked) <= MaxUntracked /\ index' = Compared
    /\ pc' = "raised"
    /\ UNCHANGED <<head, tree, edits, baseline, analysis>>

Finished == pc \in {"done", "raised"} /\ UNCHANGED vars

Next == CaptureBaseline \/ Edit \/ ProviderEnds \/ Analyze \/ CaptureFails \/ Finished

Spec == Init /\ [][Next]_vars

-----------------------------------------------------------------------------
(* What a clean analysis promises.                                         *)

\* The patch the verifier may turn into a verified migration.
Accepted == pc = "done" /\ analysis.changed # {} /\ ~analysis.fatal /\ ~analysis.review

\* The tree final.patch leads to when it is applied to the updated commit.
Patched == [f \in Files |-> IF f \in analysis.patch THEN tree[f] ELSE head[f]]

Visible == Files \ (Ignored \union Generated)

\* An accepted patch, in whatever steps it came about and however Git pairs
\* renames, only rewrites files the plan has evidence for: nothing else differs
\* from the updated commit, no production source is gone, no test is gone or
\* newly disabled and no test-skipping marker is new (patch_analysis.py:98-161).
AcceptedPatchStaysInScope ==
    Accepted => \A f \in Visible : tree[f] # head[f] =>
        /\ f \in Evidenced
        /\ f \in JavaFiles => tree[f] # Absent
        /\ f \in TestFiles => Disables[tree[f]] <= Disables[head[f]]
        /\ f \notin Manifests

\* The patch has all the provider did to files Git can see: applied to the
\* updated commit it gives the tree Maven is about to verify.
PatchIsExactOutsideTarget ==
    pc = "done" => \A f \in Visible : Patched[f] = tree[f]

\* analyze() claims to "Return exact diff" (patch_analysis.py:68): that tree
\* and the verified one have the same tracked and unignored files.
PatchIsExact ==
    pc = "done" => \A f \in Files \ Ignored : Patched[f] = tree[f]
=============================================================================
