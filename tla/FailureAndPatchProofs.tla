------------------------ MODULE FailureAndPatchProofs ------------------------
(***************************************************************************)
(* Proofs about the two ends of a repair: FailureParser, what the failed   *)
(* build says, and PatchCapture, what the provider changed for it.         *)
(*                                                                         *)
(* FailureParser, for every output of every build, every workspace and     *)
(* every limit: the text is laid out report by report, a block that is cut *)
(* off by the next report or by its limit stays within its own, and what   *)
(* counts as a repetition before and after a failure is localized never    *)
(* drops the last failure that tells of a report.                          *)
(*                                                                         *)
(* PatchCapture, for every set of files, every commit, every sequence of   *)
(* edits and every rename Git may pair: the invariant relates the baseline *)
(* to the commit and the analysis to the files compared; that Git may drop *)
(* the old path of a rename is harmless because a new path is never one    *)
(* the plan names.                                                         *)
(***************************************************************************)
EXTENDS PatchCapture, FailureParser, FiniteSetTheorems, WellFoundedInduction, SequenceTheorems,
        TLAPS

-----------------------------------------------------------------------------
(* Numbers.                                                                *)

\* The least of a set of numbers.
LEMMA LeastNumber ==
    ASSUME NEW T \in SUBSET Nat, T # {}
    PROVE  \E n \in T : \A m \in T : n <= m
  <1> DEFINE R == OpToRel(<, Nat)
  <1>1. IsWellFoundedOn(R, Nat)
    BY NatLessThanWellFounded
  <1>2. PICK x \in T : \A y \in T : ~ (<<y, x>> \in R)
    <2> HIDE DEF R
    <2> QED
      BY <1>1, WFMin
  <1>3. ASSUME NEW y \in Nat, y < x PROVE <<y, x>> \in R
    BY <1>3 DEF OpToRel
  <1>4. ASSUME NEW y \in T PROVE x <= y
    <2>1. ~ (<<y, x>> \in R)
      BY <1>2
    <2>2. ~ (y < x)
      BY <2>1, <1>3
    <2>3. QED
      BY <2>2
  <1>5. QED
    BY <1>4

\* Induction over numbers, for the set of those that have the property.
LEMMA SetInduction ==
    ASSUME NEW T \in SUBSET Nat, 0 \in T, \A n \in T : n + 1 \in T
    PROVE  T = Nat
  <1>1. SUFFICES ASSUME Nat \ T # {} PROVE FALSE
    OBVIOUS
  <1>2. PICK n \in Nat \ T : \A m \in Nat \ T : n <= m
    <2>1. Nat \ T \in SUBSET Nat
      OBVIOUS
    <2>2. QED
      BY <1>1, <2>1, LeastNumber
  <1>3. n # 0 /\ n - 1 \in Nat /\ ~ (n <= n - 1)
    BY <1>2
  <1>4. n - 1 \in T
    BY <1>2, <1>3
  <1>5. (n - 1) + 1 \in T
    BY <1>4
  <1>6. QED
    BY <1>2, <1>5

-----------------------------------------------------------------------------
(* Types of the capture: its skips are a sum over files.                   *)

\* The element a sum takes next.
Chosen(s) == CHOOSE x \in s : TRUE

\* The sums over the parts of a set that SkipCount builds up.
IsSum(sum, w, S) ==
    sum = [s \in SUBSET S |->
             IF s = {} THEN 0
             ELSE w[Chosen(s)] + sum[s \ {Chosen(s)}]]

\* There are such sums over the parts of a set with up to n elements.
IsSumUpTo(sum, w, S, n) ==
    sum = [s \in {t \in SUBSET S : Cardinality(t) <= n} |->
             IF s = {} THEN 0
             ELSE w[Chosen(s)] + sum[s \ {Chosen(s)}]]

\* A part of a finite set without the element chosen is smaller.
LEMMA OneLess ==
    ASSUME NEW S, IsFiniteSet(S), NEW s \in SUBSET S, s # {}
    PROVE  /\ Chosen(s) \in s /\ s \ {Chosen(s)} \in SUBSET S
           /\ Cardinality(s) \in Nat /\ Cardinality(s) >= 1
           /\ Cardinality(s \ {Chosen(s)}) = Cardinality(s) - 1
<1>1. Chosen(s) \in s
  BY DEF Chosen
<1>2. IsFiniteSet(s)
  BY FS_Subset
<1>3. Cardinality(s) \in Nat /\ Cardinality(s) # 0
  BY <1>2, FS_CardinalityType, FS_EmptySet
<1>4. Cardinality(s \ {Chosen(s)}) = Cardinality(s) - 1
  BY <1>1, <1>2, FS_RemoveElement
<1> QED
  BY <1>1, <1>3, <1>4

\* There is a sum of finitely many numbers.
LEMMA SumExists ==
    ASSUME NEW S, IsFiniteSet(S), NEW w
    PROVE  \E sum : IsSum(sum, w, S)
<1> DEFINE T == {n \in Nat : \E sum : IsSumUpTo(sum, w, S, n)}
<1>1. 0 \in T
  <2> DEFINE parts == {t \in SUBSET S : Cardinality(t) <= 0}
             sum == [s \in parts |-> 0]
  <2>1. \A s \in parts : s = {}
    <3>1. ASSUME NEW s \in parts, s # {} PROVE FALSE
      <4>1. Cardinality(s) \in Nat /\ Cardinality(s) >= 1
        BY <3>1, OneLess
      <4> QED
        BY <4>1
    <3> QED
      BY <3>1
  <2>2. sum = [s \in parts |-> IF s = {} THEN 0
                               ELSE w[Chosen(s)] + sum[s \ {Chosen(s)}]]
    BY <2>1
  <2> QED
    BY <2>2 DEF IsSumUpTo
<1>2. ASSUME NEW n \in T PROVE n + 1 \in T
  <2>1. PICK old : IsSumUpTo(old, w, S, n)
    OBVIOUS
  <2> DEFINE some == {t \in SUBSET S : Cardinality(t) <= n}
             more == {t \in SUBSET S : Cardinality(t) <= n + 1}
             sum == [s \in more |-> IF s = {} THEN 0 ELSE w[Chosen(s)] + old[s \ {Chosen(s)}]]
  <2>2. old = [s \in some |-> IF s = {} THEN 0 ELSE w[Chosen(s)] + old[s \ {Chosen(s)}]]
    BY <2>1 DEF IsSumUpTo
  <2>3. \A s \in some : s \in more
    <3>1. ASSUME NEW s \in some PROVE Cardinality(s) \in Nat
      BY FS_Subset, FS_CardinalityType
    <3> QED
      BY <3>1
  <2>4. \A s \in some : sum[s] = old[s]
    BY <2>2, <2>3
  <2>5. ASSUME NEW s \in more, s # {} PROVE s \ {Chosen(s)} \in some
    <3>1. /\ s \ {Chosen(s)} \in SUBSET S /\ Cardinality(s) \in Nat
          /\ Cardinality(s \ {Chosen(s)}) = Cardinality(s) - 1
      BY <2>5, OneLess
    <3> QED
      BY <3>1
  <2> HIDE DEF some
  <2>6. \A s \in more : sum[s] = IF s = {} THEN 0 ELSE w[Chosen(s)] + sum[s \ {Chosen(s)}]
    <3>1. ASSUME NEW s \in more PROVE sum[s] = IF s = {} THEN 0 ELSE w[Chosen(s)] + old[s \ {Chosen(s)}]
      OBVIOUS
    <3> HIDE DEF sum, more
    <3>2. ASSUME NEW s \in more, s # {}
          PROVE  sum[s \ {Chosen(s)}] = old[s \ {Chosen(s)}]
      BY <2>4, <2>5, <3>2
    <3> QED
      BY <3>1, <3>2
  <2>7. sum = [s \in more |-> IF s = {} THEN 0 ELSE w[Chosen(s)] + sum[s \ {Chosen(s)}]]
    BY <2>6
  <2> HIDE DEF sum
  <2>8. IsSumUpTo(sum, w, S, n + 1)
    BY <2>7 DEF IsSumUpTo
  <2>9. n + 1 \in Nat
    OBVIOUS
  <2> QED
    BY <2>8, <2>9
<1>3. T = Nat
  <2> HIDE DEF T
  <2>1. T \subseteq Nat
    BY DEF T
  <2> QED
    BY <1>1, <1>2, <2>1, SetInduction
<1>4. PICK sum : IsSumUpTo(sum, w, S, Cardinality(S))
  BY <1>3, FS_CardinalityType
<1>5. {t \in SUBSET S : Cardinality(t) <= Cardinality(S)} = SUBSET S
  BY FS_Subset
<1> QED
  BY <1>4, <1>5 DEF IsSumUpTo, IsSum

\* It is a number.
LEMMA SumIsANumber ==
    ASSUME NEW S, IsFiniteSet(S), NEW w, \A x \in S : w[x] \in Nat, NEW sum, IsSum(sum, w, S)
    PROVE  sum[S] \in Nat
<1> DEFINE T == {n \in Nat : \A s \in SUBSET S : Cardinality(s) = n => sum[s] \in Nat}
<1>1. \A s \in SUBSET S : sum[s] = IF s = {} THEN 0 ELSE w[Chosen(s)] + sum[s \ {Chosen(s)}]
  BY DEF IsSum
<1>2. 0 \in T
  <2>1. ASSUME NEW s \in SUBSET S, Cardinality(s) = 0 PROVE sum[s] \in Nat
    <3>1. s = {}
      <4>1. ASSUME s # {} PROVE FALSE
        <5>1. Cardinality(s) >= 1
          BY <4>1, OneLess
        <5> QED
          BY <2>1, <5>1
      <4> QED
        BY <4>1
    <3>2. sum[s] = 0
      BY <1>1, <3>1
    <3> QED
      BY <3>2
  <2> QED
    BY <2>1
<1>3. ASSUME NEW n \in T PROVE n + 1 \in T
  <2>1. ASSUME NEW s \in SUBSET S, Cardinality(s) = n + 1 PROVE sum[s] \in Nat
    <3>1. s # {}
      BY <2>1, FS_EmptySet
    <3>2. /\ Chosen(s) \in s /\ s \ {Chosen(s)} \in SUBSET S
          /\ Cardinality(s \ {Chosen(s)}) = n
      BY <2>1, <3>1, OneLess
    <3>3. sum[s \ {Chosen(s)}] \in Nat /\ w[Chosen(s)] \in Nat
      BY <3>2
    <3>4. sum[s] = w[Chosen(s)] + sum[s \ {Chosen(s)}]
      BY <1>1, <3>1
    <3> QED
      BY <3>3, <3>4
  <2> QED
    BY <2>1
<1>4. T = Nat
  <2> HIDE DEF T
  <2>1. T \subseteq Nat
    BY DEF T
  <2> QED
    BY <1>2, <1>3, <2>1, SetInduction
<1> QED
  BY <1>4, FS_CardinalityType

\* The markers of any files are so many.
LEMMA SkipCountIsANumber ==
    ASSUME NEW t \in Tree, NEW paths
    PROVE  SkipCount(t, paths) \in Nat
<1> DEFINE S == paths \intersect Manifests
           w == [f \in S |-> IF t[f] = Absent THEN 0 ELSE Skips[t[f]]]
<1>1. S \subseteq Files /\ IsFiniteSet(S)
  BY CaptureAssumption, FS_Subset
<1>2. \A f \in S : w[f] \in Nat /\ w[f] = IF t[f] = Absent THEN 0 ELSE Skips[t[f]]
  BY <1>1, CaptureAssumption DEF Tree
<1> DEFINE Counts(sum) ==
             sum = [s \in SUBSET S |->
                      IF s = {} THEN 0
                      ELSE LET x == CHOOSE x \in s : TRUE
                           IN  (IF t[x] = Absent THEN 0 ELSE Skips[t[x]]) + sum[s \ {x}]]
<1>3. SkipCount(t, paths) = (CHOOSE sum : Counts(sum))[S]
  BY DEF SkipCount, MapThenSumSet, MapThenFoldSet
<1>4. \A sum : IsSum(sum, w, S) <=> Counts(sum)
  <2> DEFINE n(s) == IF t[Chosen(s)] = Absent THEN 0 ELSE Skips[t[Chosen(s)]]
  <2>1. ASSUME NEW s \in SUBSET S, s # {}
        PROVE  w[Chosen(s)] = n(s)
    BY <1>2, <2>1 DEF Chosen
  <2> HIDE DEF w, S, n
  <2>2. ASSUME NEW sum
        PROVE  [s \in SUBSET S |-> IF s = {} THEN 0 ELSE w[Chosen(s)] + sum[s \ {Chosen(s)}]]
                 = [s \in SUBSET S |-> IF s = {} THEN 0 ELSE n(s) + sum[s \ {Chosen(s)}]]
    BY <2>1
  <2>3. \A sum : IsSum(sum, w, S) <=>
          sum = [s \in SUBSET S |-> IF s = {} THEN 0 ELSE n(s) + sum[s \ {Chosen(s)}]]
    BY <2>2 DEF IsSum
  <2> QED
    BY <2>3 DEF n, Chosen
<1>5. PICK sum : IsSum(sum, w, S) /\ SkipCount(t, paths) = sum[S]
  <2> HIDE DEF w, S, Counts
  <2>1. \E sum : Counts(sum)
    BY <1>1, <1>4, SumExists
  <2>2. Counts(CHOOSE sum : Counts(sum))
    BY <2>1
  <2> QED
    BY <1>3, <1>4, <2>2
<1> QED
  BY <1>1, <1>2, <1>5, SumIsANumber

\* What the analysis compares are files.
LEMMA ComparedAreFiles ==
    ASSUME TypeOK
    PROVE  /\ Compared \subseteq Files /\ Differing \subseteq Files
           /\ \A olds : Differing \ olds \subseteq Files
           /\ Fatal \in BOOLEAN
           /\ \A changed, deleted : Review(changed, deleted) \in BOOLEAN
<1>1. Compared \subseteq Files
  BY DEF TypeOK, Compared, Untracked, Present
<1>2. Differing \subseteq Compared
  BY DEF Differing
<1>3. Fatal \in BOOLEAN
  BY Zenon DEF Fatal
<1>4. \A changed, deleted : Review(changed, deleted) \in BOOLEAN
  BY Zenon DEF Review
<1> QED
  BY <1>1, <1>2, <1>3, <1>4

\* Every step keeps the types.
LEMMA CaptureStepIsWellTyped ==
    ASSUME TypeOK, [Next]_vars
    PROVE  TypeOK'
<1>1. CASE CaptureBaseline
  <2>1. SkipCount(tree, index) \in Nat
    BY SkipCountIsANumber DEF TypeOK
  <2>2. \A f \in TestFiles : (IF f \in index THEN DisableCount(tree, f) ELSE 0) \in Nat
    BY CaptureAssumption DEF TypeOK, Tree, DisableCount
  <2>3. baseline' \in Baseline
    BY <1>1, <2>1, <2>2 DEF CaptureBaseline, Baseline
  <2> QED
    BY <1>1, <2>3 DEF CaptureBaseline, TypeOK
<1>2. CASE Edit
  <2>1. edits' \in 0..MaxEdits
    BY <1>2, CaptureAssumption DEF Edit, TypeOK
  <2>2. tree' \in Tree
    BY <1>2 DEF Edit, TypeOK, Tree
  <2> QED
    BY <1>2, <2>1, <2>2 DEF Edit, TypeOK
<1>3. CASE ProviderEnds
  BY <1>3 DEF ProviderEnds, TypeOK
<1>4. CASE Analyze
  <2>1. PICK olds \in Renames, lines \in BOOLEAN :
            analysis' = [changed |-> Differing \ olds, patch |-> Differing, fatal |-> Fatal,
                         review |-> lines \/ Review(Differing \ olds, Removed \ olds)]
    BY <1>4 DEF Analyze
  <2>2. (lines \/ Review(Differing \ olds, Removed \ olds)) \in BOOLEAN
    BY Zenon
  <2>3. analysis' \in Analysis
    BY <2>1, <2>2, ComparedAreFiles DEF Analysis
  <2> QED
    BY <1>4, <2>3, ComparedAreFiles DEF Analyze, TypeOK
<1>5. CASE CaptureFails
  BY <1>5, ComparedAreFiles DEF CaptureFails, TypeOK
<1>6. CASE Finished
  BY <1>6 DEF Finished, vars, TypeOK
<1>7. CASE UNCHANGED vars
  BY <1>7 DEF vars, TypeOK
<1> QED
  BY <1>1, <1>2, <1>3, <1>4, <1>5, <1>6, <1>7 DEF Next

\* The baseline and the analysis are what their types say they are.
THEOREM CaptureTypeCorrect == Spec => []TypeOK
<1>1. Init => TypeOK
  BY CaptureAssumption DEF Init, TypeOK, Tree, Present, Baseline, NoBaseline, Analysis, NoAnalysis
<1>2. TypeOK /\ [Next]_vars => TypeOK'
  BY CaptureStepIsWellTyped
<1> QED
  BY <1>1, <1>2, PTL DEF Spec

-----------------------------------------------------------------------------
(* The capture of a patch.                                                 *)

\* The commit has the files of the plan.
HeadInv ==
    /\ head \in Tree /\ tree \in Tree
    /\ Evidenced \subseteq Present(head)

\* Nothing but analyze() stages a file.
IndexInv == pc \in {"baseline", "provider", "analyze"} => index = Present(head)

\* The baseline is about the commit, although it is read from the worktree.
BaselineInv ==
    /\ pc = "baseline" => tree = head
    /\ pc \in {"provider", "analyze", "done"} =>
         /\ baseline.tests = Present(head) \intersect TestFiles
         /\ \A f \in baseline.tests : baseline.disables[f] = Disables[head[f]]

\* What the analysis says of the files compared, with the old paths of the
\* renames Git paired.
AnalysisInv ==
    pc = "done" =>
        /\ Present(tree) \ (Ignored \union Generated) \subseteq Compared
        /\ Present(head) \subseteq Compared /\ Compared \subseteq Files
        /\ analysis.patch = Differing
        /\ \E olds \in Renames :
             /\ analysis.changed = Differing \ olds
             /\ ~analysis.fatal => ~Fatal
             /\ ~analysis.review => ~Review(Differing \ olds, Removed \ olds)

CaptureInv == HeadInv /\ IndexInv /\ BaselineInv /\ AnalysisInv

-----------------------------------------------------------------------------

\* A fresh worktree.
LEMMA CaptureInit == Init => CaptureInv
BY DEF Init, CaptureInv, HeadInv, IndexInv, BaselineInv, AnalysisInv

\* The baseline is taken while the worktree is still the commit.
LEMMA BaselineStep ==
    ASSUME CaptureInv, CaptureBaseline
    PROVE  CaptureInv'
<1> USE DEF CaptureInv
<1>1. tree = head /\ index = Present(head) /\ pc = "baseline"
  BY DEF CaptureBaseline, BaselineInv, IndexInv
<1>2. UNCHANGED <<head, index, tree, analysis>> /\ pc' = "provider"
  BY DEF CaptureBaseline
<1>3. HeadInv' /\ IndexInv' /\ AnalysisInv'
  BY <1>1, <1>2 DEF HeadInv, IndexInv, AnalysisInv, Present
<1>4. baseline'.tests = Present(head) \intersect TestFiles
      /\ baseline'.disables = [f \in TestFiles |-> IF f \in index THEN DisableCount(tree, f) ELSE 0]
  BY <1>1 DEF CaptureBaseline
<1>5. ASSUME NEW f \in baseline'.tests
      PROVE  baseline'.disables[f] = Disables[head[f]]
  BY <1>1, <1>4 DEF DisableCount, Present
<1> QED
  BY <1>2, <1>3, <1>4, <1>5 DEF BaselineInv, Present

\* The provider changes the worktree and nothing else.
LEMMA ProviderStep ==
    ASSUME CaptureInv, Edit \/ ProviderEnds
    PROVE  CaptureInv'
<1> USE DEF CaptureInv
<1>1. UNCHANGED <<head, index, baseline, analysis>> /\ pc = "provider"
      /\ pc' \in {"provider", "analyze"}
  BY DEF Edit, ProviderEnds
<1>2. tree' \in Tree
  BY DEF Edit, ProviderEnds, HeadInv, Tree
<1>3. Present(head)' = Present(head)
  BY <1>1 DEF Present
<1> QED
  BY <1>1, <1>2, <1>3 DEF HeadInv, IndexInv, BaselineInv, AnalysisInv

\* Staging the new files does not change which files are compared.
LEMMA AnalyzeStep ==
    ASSUME CaptureInv, Analyze
    PROVE  CaptureInv'
<1> USE DEF CaptureInv
<1>1. UNCHANGED <<head, tree, baseline>> /\ index' = Compared /\ pc = "analyze" /\ pc' = "done"
  BY DEF Analyze
<1>2. Present(head)' = Present(head) /\ Present(tree)' = Present(tree) /\ index = Present(head)
  BY <1>1 DEF Present, IndexInv
<1>3. Compared' = Compared
  BY <1>1, <1>2 DEF Compared, Untracked
<1>4. Differing' = Differing
  BY <1>1, <1>3 DEF Differing
<1>5. Removed' = Removed /\ Added' = Added
  BY <1>1, <1>4 DEF Removed, Added
<1>6. Renames' = Renames
  BY <1>5 DEF Renames
<1>7. Fatal' = Fatal
  BY <1>1, <1>3 DEF Fatal
<1>8. PICK olds \in Renames, lines \in BOOLEAN :
        analysis' = [changed |-> Differing \ olds,
                     patch   |-> Differing,
                     fatal   |-> Fatal,
                     review  |-> lines \/ Review(Differing \ olds, Removed \ olds)]
  BY DEF Analyze
<1>9. Review(Differing \ olds, Removed \ olds)' = Review(Differing \ olds, Removed \ olds)
  BY <1>4, <1>5 DEF Review, OutOfScope
<1>10. AnalysisInv'
  <2>1. Present(tree) \ (Ignored \union Generated) \subseteq Compared
        /\ Present(head) \subseteq Compared /\ Compared \subseteq Files
    BY <1>2 DEF Compared, Untracked, Present
  <2>2. analysis'.patch = Differing /\ analysis'.changed = Differing \ olds
        /\ analysis'.fatal = Fatal
        /\ analysis'.review = (lines \/ Review(Differing \ olds, Removed \ olds))
    BY <1>8
  <2> QED
    BY <1>2, <1>3, <1>4, <1>5, <1>6, <1>7, <1>9, <2>1, <2>2 DEF AnalysisInv
<1> QED
  BY <1>1, <1>2, <1>10 DEF HeadInv, IndexInv, BaselineInv

\* Every step keeps the invariant.
LEMMA CaptureNext ==
    ASSUME CaptureInv, [Next]_vars
    PROVE  CaptureInv'
<1>1. CASE CaptureBaseline
  BY <1>1, BaselineStep
<1>2. CASE Edit \/ ProviderEnds
  BY <1>2, ProviderStep
<1>3. CASE Analyze
  BY <1>3, AnalyzeStep
<1>4. CASE CaptureFails
  BY <1>4 DEF CaptureFails, CaptureInv, HeadInv, IndexInv, BaselineInv, AnalysisInv, Present
<1>5. CASE UNCHANGED vars
  <2>1. UNCHANGED <<pc, head, index, tree, baseline, analysis>>
    BY <1>5 DEF vars
  <2>2. HeadInv' /\ IndexInv' /\ BaselineInv'
    BY <2>1 DEF CaptureInv, HeadInv, IndexInv, BaselineInv, Present
  <2>3. Compared' = Compared /\ Differing' = Differing /\ Removed' = Removed /\ Added' = Added
    BY <2>1 DEF Compared, Untracked, Differing, Removed, Added, Present
  <2>4. Renames' = Renames /\ Fatal' = Fatal
    BY <2>1, <2>3 DEF Renames, Fatal
  <2>5. AnalysisInv'
    BY <2>1, <2>3, <2>4 DEF CaptureInv, AnalysisInv, Present, Review, OutOfScope
  <2> QED
    BY <2>2, <2>5 DEF CaptureInv
<1> QED
  BY <1>1, <1>2, <1>3, <1>4, <1>5 DEF Next, Finished

\* The baseline is about the commit, and the analysis about the tree it leaves.
THEOREM CaptureInvariance == Spec => []CaptureInv
<1>1. Init => CaptureInv
  BY CaptureInit
<1>2. CaptureInv /\ [Next]_vars => CaptureInv'
  BY CaptureNext
<1> QED
  BY <1>1, <1>2, PTL DEF Spec

-----------------------------------------------------------------------------

\* Every visible file that differs was compared.
LEMMA VisibleDifferences ==
    ASSUME CaptureInv, pc = "done", NEW f \in Visible, tree[f] # head[f]
    PROVE  f \in Differing
<1>1. f \in Compared
  BY DEF CaptureInv, AnalysisInv, Visible, Present
<1> QED
  BY <1>1 DEF Differing

\* An accepted analysis paired no rename: the new path would be out of scope.
LEMMA NoRenameAccepted ==
    ASSUME CaptureInv, Accepted
    PROVE  analysis.changed = Differing /\ ~Fatal /\ ~Review(Differing, Removed)
<1>1. PICK olds \in Renames :
        /\ analysis.changed = Differing \ olds
        /\ ~Fatal
        /\ ~Review(Differing \ olds, Removed \ olds)
  BY DEF CaptureInv, AnalysisInv, Accepted
<1>2. olds \subseteq Removed /\ Cardinality(olds) <= Cardinality(Added)
  BY DEF Renames
<1>3. Differing \ olds \subseteq Present(head)
  BY <1>1 DEF Review, OutOfScope, CaptureInv, HeadInv
<1>4. Added = {}
  BY <1>2, <1>3 DEF Added, Removed, Differing, Present
<1>5. olds = {}
  <2>1. Removed \subseteq Files
    BY DEF Removed, Differing, Accepted, CaptureInv, AnalysisInv
  <2>2. IsFiniteSet(olds) /\ Cardinality(olds) \in Nat
    BY <1>2, <2>1, CaptureAssumption, FS_Subset, FS_CardinalityType
  <2> QED
    BY <1>2, <1>4, <2>2, FS_EmptySet
<1> QED
  BY <1>1, <1>5

\* Whatever the provider edits and Git takes for a rename, an accepted patch
\* rewrites only files the plan has evidence for, keeps sources and tests, and
\* disables no test.
THEOREM AcceptedPatchIsInScope == Spec => []AcceptedPatchStaysInScope
<1>1. CaptureInv => AcceptedPatchStaysInScope
  <2> SUFFICES ASSUME CaptureInv, Accepted, NEW f \in Visible, tree[f] # head[f]
               PROVE  /\ f \in Evidenced
                      /\ f \in JavaFiles => tree[f] # Absent
                      /\ f \in TestFiles => Disables[tree[f]] <= Disables[head[f]]
                      /\ f \notin Manifests
    BY DEF AcceptedPatchStaysInScope
  <2>1. pc = "done" /\ f \in Differing
    BY VisibleDifferences DEF Accepted
  <2>2. ~Fatal /\ ~Review(Differing, Removed)
    BY NoRenameAccepted
  <2>3. f \in Evidenced /\ f \notin Manifests
    BY <2>1, <2>2 DEF Review, OutOfScope
  <2>4. f \in Present(head) /\ head[f] # Absent
    BY <2>3 DEF CaptureInv, HeadInv, Present
  <2>5. f \in TestFiles => f \in baseline.tests /\ baseline.disables[f] = Disables[head[f]]
    BY <2>1, <2>4 DEF CaptureInv, BaselineInv
  <2>6. f \in JavaFiles => tree[f] # Absent
    <3>1. CASE f \in TestFiles
      BY <2>2, <2>5, <3>1 DEF Fatal
    <3>2. CASE f \notin TestFiles
      BY <2>1, <2>2, <3>2 DEF Review, Removed
    <3> QED
      BY <3>1, <3>2
  <2>7. f \in TestFiles => Disables[tree[f]] <= Disables[head[f]]
    <3> SUFFICES ASSUME f \in TestFiles PROVE Disables[tree[f]] <= Disables[head[f]]
      OBVIOUS
    <3>1. tree[f] \in Contents /\ head[f] \in Contents
      BY <2>4, <2>6, CaptureAssumption DEF CaptureInv, HeadInv, Tree
    <3>2. ~(Disables[tree[f]] > Disables[head[f]])
      BY <2>1, <2>2, <2>5, <2>6, CaptureAssumption DEF Fatal, DisableCount, Differing
    <3> QED
      BY <3>1, <3>2, CaptureAssumption
  <2> QED
    BY <2>3, <2>6, <2>7
<1> QED
  BY <1>1, CaptureInvariance, PTL

\* Applied to the updated commit, the captured patch gives every visible file of
\* the worktree.
THEOREM PatchCaptureIsExact == Spec => []PatchIsExactOutsideTarget
<1>1. CaptureInv => PatchIsExactOutsideTarget
  <2> SUFFICES ASSUME CaptureInv, pc = "done", NEW f \in Visible
               PROVE  Patched[f] = tree[f]
    BY DEF PatchIsExactOutsideTarget
  <2>1. f \in Files /\ analysis.patch = Differing
    BY DEF Visible, CaptureInv, AnalysisInv
  <2>2. tree[f] # head[f] => f \in Differing
    BY VisibleDifferences
  <2> QED
    BY <2>1, <2>2 DEF Patched, Differing
<1> QED
  BY <1>1, CaptureInvariance, PTL

-----------------------------------------------------------------------------
(* The least of some numbers.                                              *)

\* Min is a least element.
LEMMA MinIs ==
    ASSUME NEW S \in SUBSET Nat, S # {}
    PROVE  Min(S) \in S /\ \A n \in S : Min(S) <= n
<1>1. \E x \in S : \A y \in S : x <= y
  BY LeastNumber
<1> QED
  BY <1>1 DEF Min

-----------------------------------------------------------------------------
(* Sequences of what is at some places.                                    *)

Ascends(order, S, n) ==
    order \in [1..n -> S] /\ \A i, j \in 1..n : i < j => order[i] < order[j]

\* Numbers up to a bound can be put in order.
LEMMA AscendingExists ==
    ASSUME NEW N \in Nat, NEW S \in SUBSET (1..N)
    PROVE  /\ IsFiniteSet(S) /\ Cardinality(S) \in Nat
           /\ \E order : Ascends(order, S, Cardinality(S))
<1> DEFINE Orderly == {n \in Nat : \A A \in SUBSET (1..n) :
                                      \E order : Ascends(order, A, Cardinality(A))}
<1>0. ASSUME NEW n \in Nat, NEW A \in SUBSET (1..n)
      PROVE  IsFiniteSet(A) /\ Cardinality(A) \in Nat
  <2>1. 1 \in Int /\ n \in Int
    OBVIOUS
  <2>2. IsFiniteSet(1..n)
    BY <2>1, FS_Interval
  <2>3. IsFiniteSet(A)
    BY <2>2, FS_Subset
  <2> QED
    BY <2>3, FS_CardinalityType
<1>1. 0 \in Orderly
  <2>1. ASSUME NEW A \in SUBSET (1..0) PROVE \E order : Ascends(order, A, Cardinality(A))
    <3>0. 1..0 = {}
      OBVIOUS
    <3>1. A = {} /\ Cardinality(A) = 0
      BY <3>0, FS_EmptySet, Zenon
    <3>2. Ascends([i \in 1..0 |-> i], A, 0)
      BY DEF Ascends
    <3> QED
      BY <3>1, <3>2
  <2> QED
    BY <2>1
<1>2. ASSUME NEW n \in Orderly PROVE n + 1 \in Orderly
  <2>1. ASSUME NEW A \in SUBSET (1..(n + 1))
        PROVE  \E order : Ascends(order, A, Cardinality(A))
    <3>1. CASE n + 1 \notin A
      <4>1. A \in SUBSET (1..n)
        BY <3>1
      <4> QED
        BY <4>1
    <3>2. CASE n + 1 \in A
      <4> DEFINE B == A \ {n + 1}
                 k == Cardinality(B)
      <4>1. B \in SUBSET (1..n)
        OBVIOUS
      <4>2. PICK order : Ascends(order, B, k)
        BY <4>1
      <4>3. k \in Nat /\ Cardinality(A) = k + 1
        <5>1. IsFiniteSet(A) /\ Cardinality(A) \in Nat /\ k \in Nat
          BY <1>0, <4>1, n \in Nat, n + 1 \in Nat
        <5> QED
          BY <5>1, <3>2, FS_RemoveElement
      <4> HIDE DEF k
      <4>4. ASSUME NEW i \in 1..k PROVE order[i] \in B /\ order[i] \in 1..n
        BY <4>1, <4>2 DEF Ascends
      <4> DEFINE longer == [i \in 1..(k + 1) |-> IF i <= k THEN order[i] ELSE n + 1]
      <4>5. longer \in [1..(k + 1) -> A]
        BY <3>2, <4>3, <4>4
      <4>6. ASSUME NEW i \in 1..(k + 1), NEW j \in 1..(k + 1), i < j
            PROVE  longer[i] < longer[j]
        <5>1. i \in 1..k /\ longer[i] = order[i] /\ order[i] \in 1..n
          BY <4>3, <4>4, <4>6
        <5>2. CASE j <= k
          BY <4>2, <4>3, <4>6, <5>1, <5>2 DEF Ascends
        <5>3. CASE ~(j <= k)
          <6>1. longer[j] = n + 1
            BY <5>3
          <6> QED
            BY <5>1, <6>1
        <5> QED
          BY <5>2, <5>3
      <4> HIDE DEF longer
      <4>7. Ascends(longer, A, k + 1)
        BY <4>5, <4>6 DEF Ascends
      <4> QED
        BY <4>3, <4>7
    <3> QED
      BY <3>1, <3>2
  <2> QED
    BY <2>1
<1>3. Orderly = Nat
  <2>1. Orderly \in SUBSET Nat
    OBVIOUS
  <2> HIDE DEF Orderly
  <2> QED
    BY <1>1, <1>2, <2>1, SetInduction
<1>4. N \in Orderly
  BY <1>3
<1> QED
  BY <1>0, <1>4

\* InOrder is what it says: each of the numbers once, the lesser ones first.
LEMMA InOrderIs ==
    ASSUME NEW N \in Nat, NEW S \in SUBSET (1..N)
    PROVE  LET order == InOrder(S)  n == Cardinality(S)
           IN  /\ IsFiniteSet(S) /\ n \in Nat /\ DOMAIN order = 1..n
               /\ order \in [1..n -> S]
               /\ \A i, j \in 1..n : i < j => order[i] < order[j]
               /\ \A x \in S : \E i \in 1..n : order[i] = x
<1> DEFINE order == InOrder(S)
           n == Cardinality(S)
<1>0. \A x \in S : x \in Nat
  OBVIOUS
<1>1. IsFiniteSet(S) /\ n \in Nat /\ \E o : Ascends(o, S, n)
  BY AscendingExists
<1> HIDE DEF n
<1>2. Ascends(order, S, n)
  <2>1. \E o \in [1..n -> S] : \A i, j \in DOMAIN o : i < j => o[i] < o[j]
    BY <1>1 DEF Ascends
  <2>2. order \in [1..n -> S] /\ \A i, j \in DOMAIN order : i < j => order[i] < order[j]
    BY <2>1 DEF InOrder, n
  <2> QED
    BY <2>2 DEF Ascends
<1> HIDE DEF order
<1>3. order \in Injection(1..n, S)
  <2>1. ASSUME NEW i \in 1..n, NEW j \in 1..n, order[i] = order[j] PROVE i = j
    <3>0. order[i] \in S
      BY <1>2 DEF Ascends
    <3>01. order[i] \in Nat
      BY <1>0, <3>0
    <3>1. ~(order[i] < order[j]) /\ ~(order[j] < order[i])
      BY <2>1, <3>01
    <3>2. ~(i < j) /\ ~(j < i)
      BY <1>2, <3>1 DEF Ascends
    <3> QED
      BY <1>1, <3>2
  <2>2. order \in [1..n -> S]
    BY <1>2 DEF Ascends
  <2> QED
    BY <2>1, <2>2 DEF Injection, IsInjective
<1>4. Cardinality(1..n) = n
  BY <1>1, FS_Interval
<1>5. order \in Surjection(1..n, S)
  BY <1>1, <1>3, <1>4, FS_Injection DEF n
<1> QED
  BY <1>1, <1>2, <1>5 DEF Ascends, Surjection, order, n

\* What Keep keeps.
LEMMA KeepIs ==
    ASSUME NEW X, NEW s \in Seq(X), NEW places \in SUBSET (DOMAIN s)
    PROVE  LET kept == Keep(s, places)  order == InOrder(places)
           IN  /\ kept \in Seq(X) /\ Len(kept) = Cardinality(places)
               /\ Len(kept) \in Nat
               /\ \A n \in 1..Len(kept) : order[n] \in places /\ kept[n] = s[order[n]]
               /\ \A p \in places : \E n \in 1..Len(kept) : order[n] = p /\ kept[n] = s[p]
               /\ \A i, j \in 1..Len(kept) : i < j => order[i] < order[j]
<1> DEFINE order == InOrder(places)
           n == Cardinality(places)
           kept == Keep(s, places)
<1>1. Len(s) \in Nat /\ DOMAIN s = 1..Len(s) /\ places \in SUBSET (1..Len(s))
  BY LenProperties
<1>2. /\ n \in Nat /\ DOMAIN order = 1..n
      /\ order \in [1..n -> places]
      /\ \A i, j \in 1..n : i < j => order[i] < order[j]
      /\ \A x \in places : \E i \in 1..n : order[i] = x
  BY <1>1, InOrderIs
<1>3. kept = [i \in 1..n |-> s[order[i]]]
  BY <1>2 DEF Keep
<1> HIDE DEF order, n, kept
<1>4. ASSUME NEW i \in 1..n PROVE s[order[i]] \in X
  BY <1>1, <1>2
<1>5. kept \in Seq(X) /\ Len(kept) = n
  BY <1>2, <1>3, <1>4
<1> QED
  BY <1>2, <1>3, <1>5 DEF order, n, kept

-----------------------------------------------------------------------------
(* Where the lines of a report are in the text.                            *)

\* Part r of a text begins after line off[r].
IsLayout(off, text, parts, n) ==
    /\ off \in [1..(n + 1) -> Nat] /\ off[1] = 0
    /\ \A r \in 1..n : off[r + 1] = off[r] + Len(parts[r])
    /\ Len(text) = off[n + 1]
    /\ \A r \in 1..n : \A k \in 1..Len(parts[r]) :
          off[r] + k \in 1..Len(text) /\ text[off[r] + k] = parts[r][k]

\* The texts FlattenSeq builds up.
IsFlattening(f, parts, n) ==
    f = [r \in 1..n |-> IF r = 1 THEN parts[r] ELSE f[r - 1] \o parts[r]]

\* There are such texts, however many the parts.
LEMMA FlatteningExists ==
    ASSUME NEW parts, NEW N \in Nat
    PROVE  \E f : IsFlattening(f, parts, N)
<1> DEFINE T == {n \in Nat : \E f : IsFlattening(f, parts, n)}
<1>1. 0 \in T
  <2>1. IsFlattening([r \in 1..0 |-> r], parts, 0)
    BY DEF IsFlattening
  <2> QED
    BY <2>1
<1>2. ASSUME NEW n \in T PROVE n + 1 \in T
  <2>1. PICK f : IsFlattening(f, parts, n)
    OBVIOUS
  <2> DEFINE g == [r \in 1..(n + 1) |-> IF r <= n THEN f[r]
                                        ELSE IF r = 1 THEN parts[r] ELSE f[r - 1] \o parts[r]]
  <2>2. ASSUME NEW r \in 1..(n + 1)
        PROVE  g[r] = IF r = 1 THEN parts[r] ELSE g[r - 1] \o parts[r]
    <3>1. CASE r <= n
      <4>1. r \in 1..n /\ g[r] = f[r] /\ (r # 1 => g[r - 1] = f[r - 1])
        BY <3>1
      <4>2. f[r] = IF r = 1 THEN parts[r] ELSE f[r - 1] \o parts[r]
        BY <2>1, <4>1 DEF IsFlattening
      <4> QED
        BY <4>1, <4>2
    <3>2. CASE ~(r <= n)
      <4>1. g[r] = IF r = 1 THEN parts[r] ELSE f[r - 1] \o parts[r]
        BY <3>2
      <4>2. r # 1 => g[r - 1] = f[r - 1]
        BY <3>2
      <4> QED
        BY <4>1, <4>2
    <3> QED
      BY <3>1, <3>2
  <2>3. g = [r \in 1..(n + 1) |-> g[r]]
    OBVIOUS
  <2> HIDE DEF g
  <2>4. g = [r \in 1..(n + 1) |-> IF r = 1 THEN parts[r] ELSE g[r - 1] \o parts[r]]
    BY <2>2, <2>3
  <2>5. IsFlattening(g, parts, n + 1)
    BY <2>4 DEF IsFlattening
  <2> QED
    BY <2>5
<1>3. T = Nat
  <2>1. T \in SUBSET Nat
    OBVIOUS
  <2> HIDE DEF T
  <2> QED
    BY <1>1, <1>2, <2>1, SetInduction
<1> QED
  BY <1>3

\* One part more.
LEMMA LayoutGrows ==
    ASSUME NEW X, NEW text \in Seq(X), NEW parts, NEW n \in Nat, NEW off,
           IsLayout(off, text, parts, n), parts[n + 1] \in Seq(X)
    PROVE  \E more : IsLayout(more, text \o parts[n + 1], parts, n + 1)
<1> DEFINE part == parts[n + 1]
           longer == text \o part
           more == [r \in 1..(n + 2) |-> IF r <= n + 1 THEN off[r] ELSE off[n + 1] + Len(part)]
<1>1. Len(text) \in Nat /\ Len(part) \in Nat /\ Len(longer) = Len(text) + Len(part)
  BY ConcatProperties, LenProperties
<1>2. \A i \in 1..Len(longer) : longer[i] = IF i <= Len(text) THEN text[i] ELSE part[i - Len(text)]
  BY <1>1, ConcatProperties
<1>3. /\ off \in [1..(n + 1) -> Nat] /\ off[1] = 0 /\ Len(text) = off[n + 1]
      /\ \A r \in 1..n : off[r + 1] = off[r] + Len(parts[r])
      /\ \A r \in 1..n : \A k \in 1..Len(parts[r]) :
            off[r] + k \in 1..Len(text) /\ text[off[r] + k] = parts[r][k]
  BY DEF IsLayout
<1>4. (n + 1) + 1 = n + 2
  OBVIOUS
<1>5. more \in [1..(n + 2) -> Nat] /\ more[1] = 0
  BY <1>1, <1>3
<1>6. ASSUME NEW r \in 1..(n + 1) PROVE more[r + 1] = more[r] + Len(parts[r])
  <2>1. CASE r <= n
    <3>1. r \in 1..n /\ more[r] = off[r] /\ more[r + 1] = off[r + 1]
      BY <2>1
    <3> QED
      BY <1>3, <3>1
  <2>2. CASE r = n + 1
    BY <2>2
  <2> QED
    BY <2>1, <2>2
<1>7. Len(longer) = more[n + 2]
  BY <1>1, <1>3
<1> HIDE DEF longer, part
<1>8. ASSUME NEW r \in 1..(n + 1), NEW k \in 1..Len(parts[r])
      PROVE  more[r] + k \in 1..Len(longer) /\ longer[more[r] + k] = parts[r][k]
  <2>1. CASE r <= n
    <3>1. r \in 1..n /\ more[r] = off[r]
      BY <2>1
    <3>2. off[r] + k \in 1..Len(text) /\ text[off[r] + k] = parts[r][k]
      BY <1>3, <3>1
    <3>3. off[r] + k \in 1..Len(longer) /\ longer[off[r] + k] = text[off[r] + k]
      BY <1>1, <1>2, <3>2
    <3> QED
      BY <3>1, <3>2, <3>3
  <2>2. CASE r = n + 1
    <3>1. more[r] = Len(text) /\ parts[r] = part
      BY <1>3, <2>2 DEF part
    <3>2. k \in 1..Len(part)
      BY <3>1
    <3>3. Len(text) + k \in 1..Len(longer) /\ ~(Len(text) + k <= Len(text))
          /\ (Len(text) + k) - Len(text) = k
      BY <1>1, <3>2
    <3>4. longer[Len(text) + k] = part[k]
      BY <1>2, <3>3
    <3> QED
      BY <3>1, <3>3, <3>4
  <2> QED
    BY <2>1, <2>2
<1> HIDE DEF more
<1>9. IsLayout(more, longer, parts, n + 1)
  BY <1>4, <1>5, <1>6, <1>7, <1>8 DEF IsLayout
<1> QED
  BY <1>9 DEF longer, part

\* The parts of a text follow each other in it.
LEMMA FlattenHasLayout ==
    ASSUME NEW X, NEW parts \in Seq(Seq(X))
    PROVE  /\ FlattenSeq(parts) \in Seq(X)
           /\ \E off : IsLayout(off, FlattenSeq(parts), parts, Len(parts))
<1> DEFINE N == Len(parts)
           text == FlattenSeq(parts)
<1>1. N \in Nat /\ \A r \in 1..N : parts[r] \in Seq(X)
  BY LenProperties, ElementOfSeq
<1> HIDE DEF N
<1>2. CASE N = 0
  <2>1. parts = <<>> /\ text = <<>>
    <3>1. parts = <<>>
      BY <1>2, EmptySeq DEF N
    <3> QED
      BY <1>2, <3>1 DEF FlattenSeq, N
  <2>2. IsLayout([r \in 1..1 |-> 0], <<>>, parts, 0)
    BY DEF IsLayout
  <2>3. Len(parts) = 0 /\ FlattenSeq(parts) = <<>> /\ <<>> \in Seq(X)
    BY <1>2, <2>1 DEF N
  <2> HIDE DEF text
  <2> QED
    BY <2>2, <2>3
<1>3. CASE N # 0
  <2> DEFINE f == CHOOSE g : IsFlattening(g, parts, N)
  <2>1. IsFlattening(f, parts, N)
    BY <1>1, FlatteningExists
  <2>2. text = f[N]
    BY <1>3 DEF FlattenSeq, IsFlattening, N
  <2> HIDE DEF f, text
  <2>3. ASSUME NEW r \in 1..N
        PROVE  f[r] = IF r = 1 THEN parts[r] ELSE f[r - 1] \o parts[r]
    BY <2>1, <2>3 DEF IsFlattening
  <2> DEFINE Good(n) == f[n] \in Seq(X) /\ \E off : IsLayout(off, f[n], parts, n)
             T == {n \in Nat : n + 1 \in 1..N => Good(n + 1)}
  <2>4. Good(1)
    <3>1. f[1] = parts[1] /\ parts[1] \in Seq(X)
      BY <1>1, <1>3, <2>3
    <3> DEFINE off == [r \in 1..2 |-> IF r = 1 THEN 0 ELSE Len(parts[1])]
    <3>2. Len(parts[1]) \in Nat
      BY <3>1, LenProperties
    <3>3. IsLayout(off, parts[1], parts, 1)
      BY <3>2 DEF IsLayout
    <3> QED
      BY <3>1, <3>3
  <2>5. 0 \in T
    BY <2>4
  <2>6. ASSUME NEW n \in T PROVE n + 1 \in T
    <3>1. SUFFICES ASSUME (n + 1) + 1 \in 1..N PROVE Good((n + 1) + 1)
      OBVIOUS
    <3> DEFINE m == n + 1
    <3>2. m \in Nat /\ m \in 1..N /\ m + 1 \in 1..N /\ m + 1 # 1 /\ (m + 1) - 1 = m
      BY <1>1, <3>1
    <3>3. f[m] \in Seq(X)
      BY <3>2
    <3>4. PICK off : IsLayout(off, f[m], parts, m)
      BY <3>2
    <3> HIDE DEF m
    <3>5. parts[m + 1] \in Seq(X) /\ f[m + 1] = f[m] \o parts[m + 1]
      BY <1>1, <2>3, <3>2
    <3>6. f[m + 1] \in Seq(X)
      BY <3>3, <3>5, ConcatProperties
    <3>7. \E more : IsLayout(more, f[m + 1], parts, m + 1)
      BY <3>2, <3>3, <3>4, <3>5, LayoutGrows
    <3> QED
      BY <3>6, <3>7 DEF m
  <2>7. T = Nat
    <3>1. T \in SUBSET Nat
      OBVIOUS
    <3> HIDE DEF T
    <3> QED
      BY <2>5, <2>6, <3>1, SetInduction
  <2>8. N - 1 \in T /\ (N - 1) + 1 = N /\ N \in 1..N
    <3> HIDE DEF T
    <3> QED
      BY <1>1, <1>3, <2>7
  <2>9. Good(N)
    BY <2>8
  <2> QED
    BY <2>2, <2>9 DEF N, text
<1> QED
  BY <1>2, <1>3

\* The parts before others end before they begin.
LEMMA LayoutIsMonotone ==
    ASSUME NEW off, NEW text, NEW parts, NEW n \in Nat, IsLayout(off, text, parts, n),
           \A r \in 1..n : Len(parts[r]) \in Nat,
           NEW r \in 1..n, NEW q \in 1..n, r < q
    PROVE  off[r] + Len(parts[r]) <= off[q]
<1> DEFINE T == {d \in Nat : (r + 1) + d \in 1..n => off[r + 1] <= off[(r + 1) + d]}
<1>1. /\ off \in [1..(n + 1) -> Nat]
      /\ \A p \in 1..n : off[p + 1] = off[p] + Len(parts[p])
  BY DEF IsLayout
<1>2. 0 \in T
  BY <1>1
<1>3. ASSUME NEW d \in T PROVE d + 1 \in T
  <2>1. SUFFICES ASSUME (r + 1) + (d + 1) \in 1..n PROVE off[r + 1] <= off[(r + 1) + (d + 1)]
    OBVIOUS
  <2> DEFINE p == (r + 1) + d
  <2>2. p \in 1..n /\ (r + 1) + (d + 1) = p + 1
    BY <2>1
  <2>3. off[r + 1] <= off[p]
    BY <2>2
  <2>4. off[p + 1] = off[p] + Len(parts[p]) /\ Len(parts[p]) \in Nat /\ off[p] \in Nat
        /\ off[r + 1] \in Nat
    BY <1>1, <2>2
  <2> HIDE DEF p
  <2>5. off[r + 1] <= off[p + 1]
    <3> HIDE DEF T
    <3> QED
      BY ONLY <2>3, <2>4
  <2> QED
    BY <2>2, <2>5
<1>4. T = Nat
  <2>1. T \in SUBSET Nat
    OBVIOUS
  <2> HIDE DEF T
  <2> QED
    BY <1>2, <1>3, <2>1, SetInduction
<1>5. q - (r + 1) \in T /\ (r + 1) + (q - (r + 1)) = q
  <2> HIDE DEF T
  <2> QED
    BY <1>4
<1>6. off[r + 1] <= off[q]
  BY <1>5
<1> QED
  BY <1>1, <1>6

\* Every line is in one of the parts.
LEMMA LineIsInAPart ==
    ASSUME NEW off, NEW text, NEW parts, NEW n \in Nat, IsLayout(off, text, parts, n),
           \A r \in 1..n : Len(parts[r]) \in Nat, NEW l \in 1..Len(text)
    PROVE  \E r \in 1..n : \E k \in 1..Len(parts[r]) : l = off[r] + k
<1> DEFINE T == {r \in 1..n : l <= off[r + 1]}
<1>1. /\ off \in [1..(n + 1) -> Nat] /\ off[1] = 0 /\ Len(text) = off[n + 1]
      /\ \A p \in 1..n : off[p + 1] = off[p] + Len(parts[p])
  BY DEF IsLayout
<1>2. n \in T
  <2>1. n # 0
    BY <1>1
  <2> QED
    BY <1>1, <2>1
<1>3. T \in SUBSET Nat
  OBVIOUS
<1>4. PICK r \in T : \A p \in T : r <= p
  <2> HIDE DEF T
  <2> QED
    BY <1>2, <1>3, LeastNumber
<1>5. off[r] < l
  <2>1. CASE r = 1
    BY <1>1, <2>1
  <2>2. CASE r # 1
    <3>1. r - 1 \in 1..n /\ (r - 1) + 1 = r /\ ~(r <= r - 1)
      BY <2>2
    <3>2. r - 1 \notin T
      BY <1>4, <3>1
    <3>3. ~(l <= off[r])
      BY <3>1, <3>2
    <3> QED
      BY <1>1, <3>3
  <2> QED
    BY <2>1, <2>2
<1>6. off[r] \in Nat /\ Len(parts[r]) \in Nat /\ l <= off[r] + Len(parts[r])
  BY <1>1
<1> WITNESS r \in 1..n
<1>7. l - off[r] \in 1..Len(parts[r]) /\ l = off[r] + (l - off[r])
  BY <1>1, <1>5, <1>6, SMTT(30)
<1> QED
  BY <1>7

-----------------------------------------------------------------------------
(* The lines of a report.                                                  *)

LineType ==
    [kind : {"compiler"}, path : [from : {"here", "elsewhere"}, path : SourceFiles], line : Nat,
     category : CompilerCategories]
    \union [kind : {"symbol"}, value : Words]
    \union [kind : {"header"}, test : Words]
    \union [kind : {"exception"}, type : Words]
    \union [kind : {"frame"}, class : Classes, line : Nat]
    \union [kind : {"summary"}, failing : BOOLEAN]
    \union [kind : {"stop", "results", "other"}]

\* A sequence of one.
LEMMA SingleIs ==
    ASSUME NEW X, NEW x \in X
    PROVE  <<x>> \in Seq(X) /\ Len(<<x>>) = 1 /\ <<x>>[1] = x
OBVIOUS

\* A diagnostic starts with a line of the compiler and may name a symbol.
LEMMA RenderDiagnostic ==
    ASSUME NEW report \in ReportType, report.kind = "diagnostic"
    PROVE  LET lines == Render(report)
           IN  /\ lines \in Seq(LineType) /\ Len(lines) \in Nat /\ Len(lines) >= 1
               /\ lines[1] = [kind |-> "compiler", path |-> report.path, line |-> report.line,
                              category |-> report.category]
               /\ \A k \in 2..Len(lines) :
                     /\ lines[k].kind \in {"other", "symbol"}
                     /\ lines[k].kind = "symbol" => report.symbol # None /\ lines[k].value = report.symbol
<1> DEFINE opening == [kind |-> "compiler", path |-> report.path, line |-> report.line,
                    category |-> report.category]
           middle == [i \in 1..report.details |-> [kind |-> "other"]]
           end == IF report.symbol = None THEN <<>>
                  ELSE <<[kind |-> "symbol", value |-> report.symbol]>>
<1>1. /\ report.path \in [from : {"here", "elsewhere"}, path : SourceFiles] /\ report.line \in Nat
      /\ report.category \in CompilerCategories /\ report.symbol \in Words \union {None}
      /\ report.details \in Nat
  BY DEF ReportType
<1>2. Render(report) = (<<opening>> \o middle) \o end
  BY DEF Render
<1>3. opening \in LineType
  BY <1>1 DEF LineType
<1>4. middle \in Seq(LineType) /\ Len(middle) = report.details
  <2>1. [kind |-> "other"] \in LineType
    BY DEF LineType
  <2> QED
    BY <1>1, <2>1
<1>5. /\ end \in Seq(LineType) /\ Len(end) \in {0, 1}
      /\ \A k \in 1..Len(end) : report.symbol # None
                                /\ end[k] = [kind |-> "symbol", value |-> report.symbol]
  <2>1. CASE report.symbol = None
    BY <2>1, EmptySeq
  <2>2. CASE report.symbol # None
    <3>1. [kind |-> "symbol", value |-> report.symbol] \in LineType
      BY <1>1, <2>2 DEF LineType
    <3>2. end = <<[kind |-> "symbol", value |-> report.symbol]>>
      BY <2>2
    <3> QED
      BY <2>2, <3>1, <3>2, SingleIs
  <2> QED
    BY <2>1, <2>2
<1>6. \A k \in 1..Len(middle) : middle[k] = [kind |-> "other"]
  BY <1>4
<1> HIDE DEF middle, end
<1>7. <<opening>> \in Seq(LineType) /\ Len(<<opening>>) = 1 /\ <<opening>>[1] = opening
  BY <1>3, SingleIs
<1> HIDE DEF opening
<1> DEFINE first == <<opening>> \o middle
<1>8. /\ first \in Seq(LineType) /\ Len(first) = 1 + report.details
      /\ \A i \in 1..Len(first) : first[i] = IF i <= 1 THEN <<opening>>[i] ELSE middle[i - 1]
  BY <1>1, <1>4, <1>7, ConcatProperties
<1> HIDE DEF first
<1> DEFINE lines == first \o end
<1>9. /\ lines \in Seq(LineType) /\ Len(lines) = Len(first) + Len(end)
      /\ \A i \in 1..Len(lines) : lines[i] = IF i <= Len(first) THEN first[i] ELSE end[i - Len(first)]
  <2>1. first \in Seq(LineType) /\ end \in Seq(LineType)
    BY <1>5, <1>8
  <2>2. Len(first) \in Nat /\ Len(end) \in Nat
    BY <1>1, <1>5, <1>8
  <2>3. /\ first \o end \in Seq(LineType) /\ Len(first \o end) = Len(first) + Len(end)
        /\ \A i \in 1..(Len(first) + Len(end)) :
              (first \o end)[i] = IF i <= Len(first) THEN first[i] ELSE end[i - Len(first)]
    BY ONLY <2>1, ConcatProperties
  <2> QED
    BY <2>3
<1> HIDE DEF lines
<1>10. Len(lines) \in Nat /\ Len(lines) >= 1
  BY <1>1, <1>5, <1>8, <1>9
<1>11. lines[1] = opening
  <2>1. lines[1] = first[1]
    BY <1>1, <1>8, <1>9, <1>10
  <2>2. first[1] = <<opening>>[1]
    BY <1>1, <1>8, SMTT(30)
  <2> QED
    BY <1>7, <2>1, <2>2
<1>12. ASSUME NEW k \in 2..Len(lines)
       PROVE  \/ lines[k] = [kind |-> "other"]
              \/ /\ report.symbol # None
                 /\ lines[k] = [kind |-> "symbol", value |-> report.symbol]
  <2>0. /\ Len(first) \in Nat /\ Len(end) \in Nat /\ Len(lines) = Len(first) + Len(end)
        /\ Len(first) = 1 + Len(middle) /\ k \in 1..Len(lines) /\ k >= 2 /\ k \in Nat
    BY <1>1, <1>4, <1>5, <1>8, <1>9, <1>10
  <2>1. CASE k <= Len(first)
    <3>1. k \in 1..Len(first) /\ ~(k <= 1) /\ k - 1 \in 1..Len(middle)
      BY <2>0, <2>1
    <3>3. lines[k] = first[k]
      BY <1>9, <2>0, <2>1
    <3>2. first[k] = middle[k - 1]
      BY <1>8, <3>1
    <3> QED
      BY <1>6, <3>1, <3>2, <3>3
  <2>2. CASE ~(k <= Len(first))
    <3>1. k - Len(first) \in 1..Len(end)
      BY <2>0, <2>2
    <3>2. lines[k] = end[k - Len(first)]
      BY <1>9, <2>0, <2>2
    <3> QED
      BY <1>5, <3>1, <3>2
  <2> QED
    BY <2>1, <2>2
<1>13. ASSUME NEW k \in 2..Len(lines)
       PROVE  /\ lines[k].kind \in {"other", "symbol"}
              /\ lines[k].kind = "symbol" => report.symbol # None /\ lines[k].value = report.symbol
  BY <1>12
<1>14. Render(report) = lines
  BY <1>2 DEF lines, first
<1> QED
  BY <1>9, <1>10, <1>11, <1>13, <1>14 DEF opening

\* Where the frames of a failing test start.
FramesAfter(report) == IF report.exception = None THEN 1 ELSE 2

\* A failing test starts with its header and has its exception and its trace.
LEMMA RenderTest ==
    ASSUME NEW report \in ReportType, report.kind = "test"
    PROVE  LET lines == Render(report)  h == FramesAfter(report)
           IN  /\ lines \in Seq(LineType) /\ Len(lines) = h + Len(report.frames)
               /\ lines[1] = [kind |-> "header", test |-> report.test]
               /\ h = 2 => lines[2] = [kind |-> "exception", type |-> report.exception]
               /\ \A n \in 1..Len(report.frames) :
                     lines[h + n] = [kind |-> "frame", class |-> report.frames[n].class,
                                     line |-> report.frames[n].line]
<1> DEFINE opening == [kind |-> "header", test |-> report.test]
           thrown == [kind |-> "exception", type |-> report.exception]
           middle == IF report.exception = None THEN <<>> ELSE <<thrown>>
           end == [i \in DOMAIN report.frames |-> [kind |-> "frame", class |-> report.frames[i].class,
                                                   line |-> report.frames[i].line]]
           h == FramesAfter(report)
<1>1. /\ report.test \in Words /\ report.exception \in Words \union {None}
      /\ report.frames \in Seq(FrameType)
  BY DEF ReportType
<1>2. Render(report) = (<<opening>> \o middle) \o end
  BY DEF Render
<1>3. /\ opening \in LineType /\ <<opening>> \in Seq(LineType)
      /\ Len(<<opening>>) = 1 /\ <<opening>>[1] = opening
  <2>1. opening \in LineType
    BY <1>1 DEF LineType
  <2> QED
    BY <2>1, SingleIs
<1>4. middle \in Seq(LineType) /\ Len(middle) = h - 1 /\ h \in {1, 2} /\ (h = 2 => middle[1] = thrown)
  <2>1. CASE report.exception = None
    BY <2>1, EmptySeq DEF FramesAfter
  <2>2. CASE report.exception # None
    <3>1. thrown \in LineType
      BY <1>1, <2>2 DEF LineType
    <3>2. middle = <<thrown>> /\ h = 2
      BY <2>2 DEF FramesAfter
    <3> HIDE DEF middle, thrown
    <3> QED
      BY <3>1, <3>2, SingleIs
  <2> QED
    BY <2>1, <2>2
<1>5. /\ end \in Seq(LineType) /\ Len(end) = Len(report.frames) /\ Len(end) \in Nat
      /\ \A n \in 1..Len(end) : end[n] = [kind |-> "frame", class |-> report.frames[n].class,
                                          line |-> report.frames[n].line]
  <2>1. Len(report.frames) \in Nat /\ DOMAIN report.frames = 1..Len(report.frames)
    BY <1>1, LenProperties
  <2>2. ASSUME NEW i \in 1..Len(report.frames)
        PROVE  [kind |-> "frame", class |-> report.frames[i].class, line |-> report.frames[i].line]
                 \in LineType
    <3>1. report.frames[i] \in FrameType
      BY <1>1, ElementOfSeq
    <3>2. report.frames[i].class \in Classes /\ report.frames[i].line \in Nat
      BY <3>1 DEF FrameType
    <3> QED
      BY <3>2 DEF LineType
  <2> QED
    BY <2>1, <2>2
<1> HIDE DEF middle, end, opening, thrown, h
<1> DEFINE first == <<opening>> \o middle
<1>6. /\ first \in Seq(LineType) /\ Len(first) = h
      /\ \A i \in 1..Len(first) : first[i] = IF i <= 1 THEN <<opening>>[i] ELSE middle[i - 1]
  BY <1>3, <1>4, ConcatProperties
<1> HIDE DEF first
<1> DEFINE lines == first \o end
<1>7. /\ lines \in Seq(LineType) /\ Len(lines) = h + Len(end)
      /\ \A i \in 1..Len(lines) : lines[i] = IF i <= h THEN first[i] ELSE end[i - h]
  <2>1. first \in Seq(LineType) /\ end \in Seq(LineType)
    BY <1>5, <1>6
  <2>2. /\ first \o end \in Seq(LineType) /\ Len(first \o end) = Len(first) + Len(end)
        /\ \A i \in 1..(Len(first) + Len(end)) :
              (first \o end)[i] = IF i <= Len(first) THEN first[i] ELSE end[i - Len(first)]
    BY ONLY <2>1, ConcatProperties
  <2> QED
    BY <1>6, <2>2
<1> HIDE DEF lines
<1>8. lines[1] = opening
  <2>1. lines[1] = first[1] /\ first[1] = <<opening>>[1]
    BY <1>4, <1>5, <1>6, <1>7
  <2> QED
    BY <1>3, <2>1
<1>9. ASSUME h = 2 PROVE lines[2] = thrown
  <2>1. lines[2] = first[2] /\ first[2] = middle[1]
    BY <1>5, <1>6, <1>7, <1>9
  <2> QED
    BY <1>4, <1>9, <2>1
<1>10. ASSUME NEW n \in 1..Len(end) PROVE lines[h + n] = end[n]
  <2>1. h + n \in 1..Len(lines) /\ ~(h + n <= h) /\ (h + n) - h = n
    BY <1>4, <1>5, <1>7
  <2> QED
    BY <1>7, <2>1
<1>11. Render(report) = lines
  BY <1>2 DEF lines, first
<1> QED
  BY <1>5, <1>7, <1>8, <1>9, <1>10, <1>11 DEF opening, thrown, h

\* Every other report is one line.
LEMMA RenderOther ==
    ASSUME NEW report \in ReportType, report.kind \notin {"diagnostic", "test"}
    PROVE  LET lines == Render(report)
           IN  /\ lines \in Seq(LineType) /\ Len(lines) = 1
               /\ lines[1].kind = report.kind
               /\ report.kind \in {"summary", "stop", "results", "other"}
               /\ report.kind = "summary" => lines[1].failing = report.failing
<1>1. CASE report.kind = "summary"
  <2> DEFINE line == [kind |-> "summary", failing |-> report.failing]
  <2>1. report.failing \in BOOLEAN
    BY <1>1 DEF ReportType
  <2>2. line \in LineType
    BY <2>1 DEF LineType
  <2>3. Render(report) = <<line>>
    BY <1>1 DEF Render
  <2>4. line.kind = report.kind /\ line.failing = report.failing
    BY <1>1
  <2> HIDE DEF line
  <2> QED
    BY <1>1, <2>2, <2>3, <2>4, SingleIs
<1>2. CASE report.kind # "summary"
  <2> DEFINE line == [kind |-> report.kind]
  <2>1. report.kind \in {"stop", "results", "other"}
    BY <1>2 DEF ReportType
  <2>2. line \in LineType
    BY <2>1 DEF LineType
  <2>3. Render(report) = <<line>>
    BY <1>2 DEF Render
  <2>4. line.kind = report.kind
    OBVIOUS
  <2> HIDE DEF line
  <2> QED
    BY <1>2, <2>1, <2>2, <2>3, <2>4, SingleIs
<1> QED
  BY <1>1, <1>2

-----------------------------------------------------------------------------
(* The text of a stream.                                                   *)

\* Report r is printed from the line after off[r] on.
IsPrinting(off, lines, reports) ==
    /\ lines \in Seq(LineType)
    /\ off \in [1..(Len(reports) + 1) -> Nat]
    /\ \A r \in 1..Len(reports) : \A k \in 1..Len(Render(reports[r])) :
          off[r] + k \in 1..Len(lines) /\ lines[off[r] + k] = Render(reports[r])[k]
    /\ \A l \in 1..Len(lines) :
          \E r \in 1..Len(reports) : \E k \in 1..Len(Render(reports[r])) : l = off[r] + k
    /\ \A r, q \in 1..Len(reports) : r < q => off[r] + Len(Render(reports[r])) <= off[q]

\* What a report prints is a sequence of lines.
LEMMA RenderIsText ==
    ASSUME NEW report \in ReportType
    PROVE  Render(report) \in Seq(LineType) /\ Len(Render(report)) \in Nat
<1>1. CASE report.kind = "diagnostic"
  BY <1>1, RenderDiagnostic
<1>2. CASE report.kind = "test"
  <2>1. Render(report) \in Seq(LineType)
    BY <1>2, RenderTest
  <2> QED
    BY <2>1, LenProperties
<1>3. CASE report.kind \notin {"diagnostic", "test"}
  <2>1. Render(report) \in Seq(LineType)
    BY <1>3, RenderOther
  <2> QED
    BY <2>1, LenProperties
<1> QED
  BY <1>1, <1>2, <1>3

\* A stream is the print of its reports.
LEMMA TextIsPrinting ==
    ASSUME NEW reports \in Seq(ReportType)
    PROVE  \E off : IsPrinting(off, Text(reports), reports)
<1> DEFINE parts == [i \in DOMAIN reports |-> Render(reports[i])]
           lines == Text(reports)
           n == Len(reports)
<1>1. n \in Nat /\ DOMAIN reports = 1..n /\ \A r \in 1..n : reports[r] \in ReportType
  BY LenProperties, ElementOfSeq
<1> HIDE DEF n
<1>2. \A r \in 1..n : Render(reports[r]) \in Seq(LineType) /\ Len(Render(reports[r])) \in Nat
  BY <1>1, RenderIsText
<1>3. parts \in Seq(Seq(LineType)) /\ Len(parts) = n /\ \A r \in 1..n : parts[r] = Render(reports[r])
  BY <1>1, <1>2
<1>4. lines = FlattenSeq(parts)
  BY DEF Text
<1> HIDE DEF parts, lines
<1>5. lines \in Seq(LineType)
  BY <1>3, <1>4, FlattenHasLayout
<1>6. PICK off : IsLayout(off, lines, parts, n)
  BY <1>3, <1>4, FlattenHasLayout
<1>7. /\ off \in [1..(n + 1) -> Nat]
      /\ \A r \in 1..n : \A k \in 1..Len(parts[r]) :
            off[r] + k \in 1..Len(lines) /\ lines[off[r] + k] = parts[r][k]
  BY <1>6 DEF IsLayout
<1>8. \A r \in 1..n : Len(parts[r]) \in Nat
  BY <1>2, <1>3
<1>9. ASSUME NEW l \in 1..Len(lines)
      PROVE  \E r \in 1..n : \E k \in 1..Len(parts[r]) : l = off[r] + k
  BY <1>1, <1>6, <1>8, LineIsInAPart
<1>10. ASSUME NEW r \in 1..n, NEW q \in 1..n, r < q
       PROVE  off[r] + Len(parts[r]) <= off[q]
  BY <1>1, <1>6, <1>8, <1>10, LayoutIsMonotone
<1>11. IsPrinting(off, lines, reports)
  <2>1. \A r \in 1..Len(reports) : \A k \in 1..Len(Render(reports[r])) :
           off[r] + k \in 1..Len(lines) /\ lines[off[r] + k] = Render(reports[r])[k]
    BY <1>3, <1>7 DEF n
  <2>2. \A l \in 1..Len(lines) :
           \E r \in 1..Len(reports) : \E k \in 1..Len(Render(reports[r])) : l = off[r] + k
    <3>1. ASSUME NEW l \in 1..Len(lines)
          PROVE  \E r \in 1..Len(reports) : \E k \in 1..Len(Render(reports[r])) : l = off[r] + k
      <4>1. PICK r \in 1..n : \E k \in 1..Len(parts[r]) : l = off[r] + k
        BY <1>9
      <4> QED
        BY <1>3, <4>1 DEF n
    <3> QED
      BY <3>1
  <2>3. \A r, q \in 1..Len(reports) : r < q => off[r] + Len(Render(reports[r])) <= off[q]
    BY <1>3, <1>10 DEF n
  <2>4. off \in [1..(Len(reports) + 1) -> Nat]
    BY <1>7 DEF n
  <2> QED
    BY <1>5, <2>1, <2>2, <2>3, <2>4 DEF IsPrinting
<1> QED
  BY <1>11 DEF lines

\* What line k of a report tells of the report.
LEMMA KindOfLine ==
    ASSUME NEW report \in ReportType, NEW k \in 1..Len(Render(report)),
           NEW line, line = Render(report)[k]
    PROVE  /\ line.kind = "compiler" <=> report.kind = "diagnostic" /\ k = 1
           /\ line.kind = "header" <=> report.kind = "test" /\ k = 1
           /\ line.kind = "summary" => report.kind = "summary" /\ line.failing = report.failing
           /\ report.kind = "summary" => line.kind = "summary"
           /\ line.kind = "symbol" => /\ report.kind = "diagnostic"
                                      /\ report.symbol # None /\ line.value = report.symbol
           /\ line.kind = "exception" => /\ report.kind = "test" /\ k = 2
                                         /\ FramesAfter(report) = 2
                                         /\ line.type = report.exception
           /\ line.kind = "frame" => /\ report.kind = "test"
                                     /\ k - FramesAfter(report) \in 1..Len(report.frames)
<1>1. CASE report.kind = "diagnostic"
  <2>1. CASE k = 1
    <3>1. line = [kind |-> "compiler", path |-> report.path, line |-> report.line,
                  category |-> report.category]
      BY <1>1, <2>1, RenderDiagnostic
    <3>2. line.kind = "compiler"
      BY <3>1
    <3> QED
      BY <1>1, <2>1, <3>2
  <2>2. CASE k # 1
    <3>0. Len(Render(report)) \in Nat
      BY <1>1, RenderDiagnostic
    <3>1. k \in 2..Len(Render(report))
      BY <2>2, <3>0
    <3>2. /\ line.kind \in {"other", "symbol"}
          /\ line.kind = "symbol" => report.symbol # None /\ line.value = report.symbol
      BY <1>1, <3>1, RenderDiagnostic
    <3> QED
      BY <1>1, <2>2, <3>2
  <2> QED
    BY <2>1, <2>2
<1>2. CASE report.kind = "test"
  <2> DEFINE h == FramesAfter(report)
  <2>1. /\ Len(Render(report)) = h + Len(report.frames)
        /\ Render(report)[1] = [kind |-> "header", test |-> report.test]
        /\ h = 2 => Render(report)[2] = [kind |-> "exception", type |-> report.exception]
        /\ \A n \in 1..Len(report.frames) :
              Render(report)[h + n] = [kind |-> "frame", class |-> report.frames[n].class,
                                       line |-> report.frames[n].line]
    BY <1>2, RenderTest
  <2>2. h \in {1, 2} /\ Len(report.frames) \in Nat
    <3>1. report.frames \in Seq(FrameType)
      BY <1>2 DEF ReportType
    <3> QED
      BY <3>1, LenProperties DEF FramesAfter
  <2> HIDE DEF h
  <2>3. CASE k = 1
    <3>1. line.kind = "header"
      BY <2>1, <2>3
    <3> QED
      BY <1>2, <2>3, <3>1
  <2>4. CASE k = 2 /\ h = 2
    <3>1. line.kind = "exception" /\ line.type = report.exception
      BY <2>1, <2>4
    <3> QED
      BY <1>2, <2>4, <3>1 DEF h
  <2>5. CASE k > h
    <3>1. k - h \in 1..Len(report.frames) /\ h + (k - h) = k
      BY <2>1, <2>2, <2>5
    <3>2. line = [kind |-> "frame", class |-> report.frames[k - h].class,
                  line |-> report.frames[k - h].line]
      BY <2>1, <3>1
    <3>3. line.kind = "frame" /\ k # 1
      BY <2>2, <2>5, <3>2
    <3> QED
      BY <1>2, <3>1, <3>3 DEF h
  <2> QED
    BY <2>1, <2>2, <2>3, <2>4, <2>5
<1>3. CASE report.kind \notin {"diagnostic", "test"}
  <2>1. /\ Len(Render(report)) = 1 /\ Render(report)[1].kind = report.kind
        /\ report.kind \in {"summary", "stop", "results", "other"}
        /\ report.kind = "summary" => Render(report)[1].failing = report.failing
    BY <1>3, RenderOther
  <2>2. k = 1
    BY <2>1
  <2> QED
    BY <1>3, <2>1, <2>2
<1> QED
  BY <1>1, <1>2, <1>3

-----------------------------------------------------------------------------
(* Blocks.                                                                 *)

\* No diagnostic starts within the block of another.
LEMMA DiagnosticEndIs ==
    ASSUME NEW lines \in Seq(LineType), NEW i \in 1..Len(lines)
    PROVE  /\ DiagnosticEnd(lines, i) \in i..Len(lines)
           /\ \A j \in (i + 1)..DiagnosticEnd(lines, i) : lines[j].kind # "compiler"
<1> DEFINE after == {k \in (i + 1)..Len(lines) : lines[k].kind \in {"compiler", "stop"}}
           limits == {Len(lines), i + MaxDiagnosticLines - 1} \union {j - 1 : j \in after}
<1>1. Len(lines) \in Nat /\ MaxDiagnosticLines \in Nat \ {0}
  BY LenProperties, LimitAssumption
<1>2. limits \in SUBSET Nat /\ \A n \in limits : i <= n
  BY <1>1
<1>3. DiagnosticEnd(lines, i) = Min(limits)
  BY DEF DiagnosticEnd
<1>4. Min(limits) \in limits /\ \A n \in limits : Min(limits) <= n
  <2>1. limits # {}
    OBVIOUS
  <2> HIDE DEF limits
  <2> QED
    BY <1>2, <2>1, MinIs
<1>5. Min(limits) \in Nat /\ i <= Min(limits) /\ Min(limits) <= Len(lines)
  <2>1. Len(lines) \in limits
    OBVIOUS
  <2> HIDE DEF limits
  <2> QED
    BY <1>2, <1>4, <2>1
<1>6. ASSUME NEW j \in (i + 1)..Min(limits), lines[j].kind = "compiler" PROVE FALSE
  <2>1. j \in after
    <3> HIDE DEF limits
    <3> QED
      BY <1>1, <1>5, <1>6
  <2>2. j - 1 \in limits
    BY <2>1
  <2> HIDE DEF limits
  <2> QED
    BY <1>4, <1>5, <2>2
<1> HIDE DEF limits
<1> QED
  BY <1>1, <1>3, <1>5, <1>6

\* No test starts within the block of another.
LEMMA TestEndIs ==
    ASSUME NEW lines \in Seq(LineType), NEW i \in 1..Len(lines)
    PROVE  /\ TestEnd(lines, i) \in i..Len(lines)
           /\ \A j \in (i + 1)..TestEnd(lines, i) : lines[j].kind # "header"
<1> DEFINE after == {k \in (i + 1)..Len(lines) : lines[k].kind \in {"header", "compiler", "results"}}
           limits == {Len(lines), i + MaxTestBlockLines - 1} \union {j - 1 : j \in after}
<1>1. Len(lines) \in Nat /\ MaxTestBlockLines \in Nat \ {0}
  BY LenProperties, LimitAssumption
<1>2. limits \in SUBSET Nat /\ \A n \in limits : i <= n
  BY <1>1
<1>3. TestEnd(lines, i) = Min(limits)
  BY DEF TestEnd
<1>4. Min(limits) \in limits /\ \A n \in limits : Min(limits) <= n
  <2>1. limits # {}
    OBVIOUS
  <2> HIDE DEF limits
  <2> QED
    BY <1>2, <2>1, MinIs
<1>5. Min(limits) \in Nat /\ i <= Min(limits) /\ Min(limits) <= Len(lines)
  <2>1. Len(lines) \in limits
    OBVIOUS
  <2> HIDE DEF limits
  <2> QED
    BY <1>2, <1>4, <2>1
<1>6. ASSUME NEW j \in (i + 1)..Min(limits), lines[j].kind = "header" PROVE FALSE
  <2>1. j \in after
    <3> HIDE DEF limits
    <3> QED
      BY <1>1, <1>5, <1>6
  <2>2. j - 1 \in limits
    BY <2>1
  <2> HIDE DEF limits
  <2> QED
    BY <1>4, <1>5, <2>2
<1> HIDE DEF limits
<1> QED
  BY <1>1, <1>3, <1>5, <1>6

\* A line after the first line of report q is of that report, if no line
\* between the two is the first of the report it is of.
LEMMA LineIsOfReport ==
    ASSUME NEW reports \in Seq(ReportType), NEW off, NEW lines, IsPrinting(off, lines, reports),
           NEW q \in 1..Len(reports), NEW r \in 1..Len(reports),
           NEW k \in 1..Len(Render(reports[r])), Len(Render(reports[q])) >= 1,
           off[q] + 1 <= off[r] + k,
           off[r] + 1 \notin (off[q] + 2)..(off[r] + k)
    PROVE  r = q
<1>1. /\ Len(reports) \in Nat /\ reports[q] \in ReportType /\ reports[r] \in ReportType
      /\ off \in [1..(Len(reports) + 1) -> Nat]
      /\ r < q => off[r] + Len(Render(reports[r])) <= off[q]
      /\ q < r => off[q] + Len(Render(reports[q])) <= off[r]
  BY LenProperties, ElementOfSeq DEF IsPrinting
<1>2. /\ Len(Render(reports[r])) \in Nat /\ Len(Render(reports[q])) \in Nat
      /\ off[r] \in Nat /\ off[q] \in Nat
  <2>1. off[r] \in Nat /\ off[q] \in Nat
    BY <1>1
  <2>2. Len(Render(reports[r])) \in Nat /\ Len(Render(reports[q])) \in Nat
    BY <1>1, RenderIsText
  <2> QED
    BY <2>1, <2>2
<1>3. ~(r < q)
  BY <1>1, <1>2, SMTT(30)
<1>4. ~(q < r)
  BY <1>1, <1>2, SMTT(30)
<1> QED
  BY <1>1, <1>3, <1>4

\* Where a line is printed, and what it is.
LEMMA LineIsPrinted ==
    ASSUME NEW reports \in Seq(ReportType), NEW off, NEW lines, IsPrinting(off, lines, reports),
           NEW l \in 1..Len(lines)
    PROVE  \E r \in 1..Len(reports) : \E k \in 1..Len(Render(reports[r])) :
              /\ l = off[r] + k /\ lines[l] = Render(reports[r])[k]
              /\ reports[r] \in ReportType /\ off[r] \in Nat
              /\ off[r] + 1 \in 1..Len(lines) /\ lines[off[r] + 1] = Render(reports[r])[1]
              /\ 1 \in 1..Len(Render(reports[r]))
<1>1. PICK r \in 1..Len(reports) : \E k \in 1..Len(Render(reports[r])) : l = off[r] + k
  BY DEF IsPrinting
<1>2. PICK k \in 1..Len(Render(reports[r])) : l = off[r] + k
  BY <1>1
<1>3. /\ Len(reports) \in Nat /\ reports[r] \in ReportType
      /\ off \in [1..(Len(reports) + 1) -> Nat]
  BY LenProperties, ElementOfSeq DEF IsPrinting
<1>4. Len(Render(reports[r])) \in Nat
  BY <1>3, RenderIsText
<1>5. 1 \in 1..Len(Render(reports[r])) /\ off[r] \in Nat
  BY <1>2, <1>3, <1>4
<1>6. /\ lines[off[r] + k] = Render(reports[r])[k]
      /\ off[r] + 1 \in 1..Len(lines) /\ lines[off[r] + 1] = Render(reports[r])[1]
  BY <1>2, <1>5 DEF IsPrinting
<1> QED
  BY <1>2, <1>3, <1>5, <1>6

\* The lines of a block.
LEMMA BlockIs ==
    ASSUME NEW lines \in Seq(LineType), NEW i \in 1..Len(lines), NEW e \in i..Len(lines)
    PROVE  LET block == SubSeq(lines, i, e)
           IN  /\ block \in Seq(LineType) /\ Len(block) = (e - i) + 1 /\ Len(block) \in Nat
               /\ DOMAIN block = 1..Len(block) /\ Len(block) >= 1
               /\ \A n \in 1..Len(block) : block[n] = lines[i + n - 1] /\ i + n - 1 \in i..e
<1>1. Len(lines) \in Nat /\ i \in Int /\ e \in Int /\ i <= e
  BY LenProperties
<1>2. \A n \in i..e : lines[n] \in LineType
  BY <1>1, ElementOfSeq
<1> DEFINE block == SubSeq(lines, i, e)
<1>3. /\ block \in Seq(LineType)
      /\ Len(block) = IF i <= e THEN e - i + 1 ELSE 0
      /\ \A n \in 1..(e - i + 1) : block[n] = lines[i + n - 1]
  BY <1>1, <1>2, SubSeqProperties
<1>4. DOMAIN block = 1..Len(block)
  BY <1>3, LenProperties
<1> HIDE DEF block
<1>5. Len(block) = (e - i) + 1 /\ Len(block) \in Nat /\ Len(block) >= 1
  BY <1>1, <1>3
<1>6. \A n \in 1..Len(block) : block[n] = lines[i + n - 1] /\ i + n - 1 \in i..e
  BY <1>1, <1>3, <1>5
<1> QED
  BY <1>3, <1>4, <1>5, <1>6 DEF block

\* What the first line of a kind says.
LEMMA FirstOfIs ==
    ASSUME NEW block \in Seq(LineType), NEW kind, NEW field
    PROVE  \/ FirstOf(block, kind, field) = None /\ \A n \in 1..Len(block) : block[n].kind # kind
           \/ \E n \in 1..Len(block) : /\ block[n].kind = kind
                                       /\ FirstOf(block, kind, field) = block[n][field]
<1> DEFINE found == {n \in DOMAIN block : block[n].kind = kind}
<1>1. DOMAIN block = 1..Len(block) /\ Len(block) \in Nat
  BY LenProperties
<1>2. FirstOf(block, kind, field) = IF found = {} THEN None ELSE block[Min(found)][field]
  BY DEF FirstOf
<1>3. CASE found = {}
  BY <1>1, <1>2, <1>3
<1>4. CASE found # {}
  <2>1. found \in SUBSET Nat
    BY <1>1
  <2>2. Min(found) \in found
    <3> HIDE DEF found
    <3> QED
      BY <1>4, <2>1, MinIs
  <2>3. FirstOf(block, kind, field) = block[Min(found)][field]
    BY <1>2, <1>4
  <2> QED
    BY <1>1, <2>2, <2>3
<1> QED
  BY <1>3, <1>4

\* The first n of some numbers are those of others, moved.
IsMoved(order, other, h, n) == \A m \in 1..n : order[m] = h + other[m]

\* The places kept of a copy that is moved and cut are the first ones kept of
\* the original.
LEMMA KeepOfCopy ==
    ASSUME NEW X, NEW s \in Seq(X), NEW P \in SUBSET (DOMAIN s),
           NEW Y, NEW t \in Seq(Y), NEW Q \in SUBSET (DOMAIN t),
           NEW h \in Nat, NEW e \in Nat, P = {h + q : q \in {p \in Q : h + p <= e}}
    PROVE  /\ Len(Keep(s, P)) <= Len(Keep(t, Q))
           /\ IsMoved(InOrder(P), InOrder(Q), h, Len(Keep(s, P)))
<1> DEFINE lp == Len(Keep(s, P))  lq == Len(Keep(t, Q))
           op == InOrder(P)       oq == InOrder(Q)
<1>1. /\ lp \in Nat
      /\ \A n \in 1..lp : op[n] \in P
      /\ \A p \in P : \E n \in 1..lp : op[n] = p
      /\ \A i, j \in 1..lp : i < j => op[i] < op[j]
  <2>1. lp \in Nat
    BY KeepIs
  <2>2. \A n \in 1..lp : op[n] \in P
    BY KeepIs
  <2>3. ASSUME NEW p \in P PROVE \E n \in 1..lp : op[n] = p
    <3>1. PICK n \in 1..lp : op[n] = p /\ Keep(s, P)[n] = s[p]
      BY KeepIs, ZenonT(60)
    <3> QED
      BY <3>1
  <2>4. \A i, j \in 1..lp : i < j => op[i] < op[j]
    BY KeepIs
  <2> QED
    BY <2>1, <2>2, <2>3, <2>4
<1>2. /\ lq \in Nat
      /\ \A n \in 1..lq : oq[n] \in Q
      /\ \A q \in Q : \E n \in 1..lq : oq[n] = q
      /\ \A i, j \in 1..lq : i < j => oq[i] < oq[j]
  <2>1. lq \in Nat
    BY KeepIs
  <2>2. \A n \in 1..lq : oq[n] \in Q
    BY KeepIs
  <2>3. \A p \in Q : \E n \in 1..lq : oq[n] = p
    BY KeepIs
  <2>4. \A i, j \in 1..lq : i < j => oq[i] < oq[j]
    BY KeepIs
  <2> QED
    BY <2>1, <2>2, <2>3, <2>4
<1>3. (\A q \in Q : q \in Nat) /\ (\A p \in P : p \in Nat)
  <2>1. DOMAIN t = 1..Len(t) /\ DOMAIN s = 1..Len(s)
    BY LenProperties
  <2> QED
    BY <2>1
<1> HIDE DEF lp, lq, op, oq
<1> DEFINE Good(n) == n <= lq /\ op[n] = h + oq[n]
           Bad == {n \in 1..lp : ~Good(n)}
<1>4. Bad = {}
  <2>1. SUFFICES ASSUME Bad # {} PROVE FALSE
    OBVIOUS
  <2>2. PICK n \in Bad : \A m \in Bad : n <= m
    <3>1. Bad \in SUBSET Nat
      OBVIOUS
    <3> HIDE DEF Bad
    <3> QED
      BY <2>1, <3>1, LeastNumber
  <2>3. n \in 1..lp /\ ~Good(n) /\ op[n] \in P /\ op[n] \in Nat
    BY <1>1, <1>3
  <2>4. ASSUME NEW m \in 1..lp, m < n PROVE Good(m)
    <3>1. n \in Nat /\ m \in Nat /\ ~(n <= m)
      BY <2>3, <2>4
    <3> QED
      BY <2>2, <3>1
  <2>5. PICK q \in Q : h + q <= e /\ op[n] = h + q
    BY <2>3
  <2>6. PICK p \in 1..lq : oq[p] = q
    BY <1>2
  <2> HIDE DEF Bad
  <2>7. CASE p < n
    <3>1. p \in 1..lp
      BY <1>1, <2>3, <2>7
    <3>2. op[p] = h + q
      BY <2>4, <2>6, <2>7, <3>1
    <3>3. op[p] < op[n]
      BY <1>1, <2>3, <2>7, <3>1
    <3>4. q \in Nat
      BY <1>3
    <3> QED
      BY <2>5, <3>2, <3>3, <3>4
  <2>8. CASE p = n
    BY <1>2, <2>3, <2>5, <2>6, <2>8
  <2>9. CASE n < p
    <3>1. n \in 1..lq
      BY <1>1, <1>2, <2>3, <2>9
    <3>2. oq[n] \in Q /\ oq[n] < q /\ oq[n] \in Nat /\ q \in Nat
      BY <1>2, <1>3, <2>6, <2>9, <3>1
    <3>3. h + oq[n] \in P
      BY <2>5, <3>2
    <3>4. PICK m \in 1..lp : op[m] = h + oq[n]
      BY <1>1, <3>3
    <3>5. op[m] < op[n]
      BY <2>5, <3>2, <3>4
    <3>6. m < n
      <4>1. m \in Nat /\ n \in Nat
        BY <2>3
      <4>2. op[m] \in Nat /\ op[n] \in Nat /\ ~(op[n] < op[m]) /\ op[n] # op[m]
        <5>1. op[m] \in P
          BY <1>1
        <5>2. op[m] \in Nat
          BY <1>3, <5>1
        <5> QED
          BY <2>3, <3>5, <5>2, SMTT(30)
      <4> QED
        BY <1>1, <2>3, <4>1, <4>2
    <3>7. Good(m)
      BY <2>4, <3>6
    <3>8. m \in 1..lq /\ oq[m] \in Nat
      BY <1>2, <1>3, <3>7
    <3>9. oq[m] = oq[n]
      BY <3>2, <3>4, <3>7, <3>8
    <3>10. oq[m] < oq[n]
      BY <1>2, <3>1, <3>6, <3>8
    <3> QED
      BY <3>8, <3>9, <3>10
  <2> QED
    BY <1>2, <2>3, <2>7, <2>8, <2>9
<1>5. \A n \in 1..lp : Good(n)
  BY <1>4
<1>6. lp <= lq
  <2>1. CASE lp = 0
    BY <1>2, <2>1
  <2>2. CASE lp # 0
    <3>1. lp \in 1..lp
      BY <1>1, <2>2
    <3> QED
      BY <1>5, <3>1
  <2> QED
    BY <2>1, <2>2
<1> QED
  BY <1>5, <1>6 DEF lp, lq, op, oq, IsMoved

\* A prefix, element by element.
LEMMA PrefixIs ==
    ASSUME NEW X, NEW s \in Seq(X), NEW t \in Seq(X), Len(s) <= Len(t),
           \A n \in 1..Len(s) : s[n] = t[n]
    PROVE  IsPrefix(s, t)
<1>1. Len(s) \in Nat /\ Len(t) \in Nat
  BY LenProperties
<1>2. SubSeq(s, 1, Len(s)) = s
  BY SubSeqFull
<1>3. \A n \in 1..Len(s) : t[n] \in X
  BY <1>1, ElementOfSeq
<1>4. /\ SubSeq(t, 1, Len(s)) \in Seq(X)
      /\ Len(SubSeq(t, 1, Len(s))) = Len(s)
      /\ \A n \in 1..Len(s) : SubSeq(t, 1, Len(s))[n] = t[n]
  <2>1. /\ SubSeq(t, 1, Len(s)) \in Seq(X)
        /\ Len(SubSeq(t, 1, Len(s))) = IF 1 <= Len(s) THEN Len(s) - 1 + 1 ELSE 0
        /\ \A n \in 1..(Len(s) - 1 + 1) : SubSeq(t, 1, Len(s))[n] = t[1 + n - 1]
    BY <1>1, <1>3, SubSeqProperties
  <2> QED
    BY <1>1, <2>1
<1>5. SubSeq(t, 1, Len(s)) = s
  BY <1>4, SeqEqual
<1> QED
  BY <1>2, <1>5 DEF IsPrefix

-----------------------------------------------------------------------------
(* The signal of a report.                                                 *)

\* Every report prints something.
LEMMA RenderNotEmpty ==
    ASSUME NEW report \in ReportType
    PROVE  Len(Render(report)) \in Nat /\ 1 \in 1..Len(Render(report))
<1>1. Len(Render(report)) \in Nat
  BY RenderIsText
<1>2. CASE report.kind = "diagnostic"
  <2>1. Len(Render(report)) >= 1
    BY <1>2, RenderDiagnostic
  <2> QED
    BY <1>1, <2>1
<1>3. CASE report.kind = "test"
  <2>1. Len(Render(report)) = FramesAfter(report) + Len(report.frames)
    BY <1>3, RenderTest
  <2>2. report.frames \in Seq(FrameType)
    BY <1>3 DEF ReportType
  <2>3. Len(report.frames) \in Nat /\ FramesAfter(report) \in {1, 2}
    BY <2>2, LenProperties DEF FramesAfter
  <2> QED
    BY <1>1, <2>1, <2>3
<1>4. CASE report.kind \notin {"diagnostic", "test"}
  <2>1. Len(Render(report)) = 1
    BY <1>4, RenderOther
  <2> QED
    BY <1>1, <2>1
<1> QED
  BY <1>1, <1>2, <1>3, <1>4

\* Line l is one of report q.
IsLineOf(l, lines, off, reports, q) ==
    \E k \in 1..Len(Render(reports[q])) :
        l = off[q] + k /\ lines[l] = Render(reports[q])[k] /\ reports[q] \in ReportType

\* A line of a block is of a report that does not start like the one the block
\* is of, unless it is that one.
LEMMA LineOfBlock ==
    ASSUME NEW reports \in Seq(ReportType), NEW off, NEW lines, IsPrinting(off, lines, reports),
           NEW r \in 1..Len(reports), NEW i, i = off[r] + 1, NEW e \in i..Len(lines),
           \A j \in (i + 1)..e : lines[j].kind # lines[i].kind, NEW l \in i..e
    PROVE  \E q \in 1..Len(reports) :
              /\ IsLineOf(l, lines, off, reports, q)
              /\ Render(reports[q])[1].kind = lines[i].kind => q = r
<1>1. /\ Len(reports) \in Nat /\ reports[r] \in ReportType /\ Len(lines) \in Nat
      /\ off \in [1..(Len(reports) + 1) -> Nat]
  BY LenProperties, ElementOfSeq DEF IsPrinting
<1>2. off[r] \in Nat /\ i \in Nat
  <2>1. off[r] \in Nat
    BY <1>1
  <2> QED
    BY <2>1
<1>3. l \in 1..Len(lines) /\ l \in Nat /\ e \in Nat
  BY <1>1, <1>2
<1>4. PICK q \in 1..Len(reports) : \E k \in 1..Len(Render(reports[q])) :
              /\ l = off[q] + k /\ lines[l] = Render(reports[q])[k]
              /\ reports[q] \in ReportType /\ off[q] \in Nat
              /\ off[q] + 1 \in 1..Len(lines) /\ lines[off[q] + 1] = Render(reports[q])[1]
              /\ 1 \in 1..Len(Render(reports[q]))
  BY <1>3, LineIsPrinted
<1>5. PICK k \in 1..Len(Render(reports[q])) :
              /\ l = off[q] + k /\ lines[l] = Render(reports[q])[k]
              /\ reports[q] \in ReportType /\ off[q] \in Nat
              /\ off[q] + 1 \in 1..Len(lines) /\ lines[off[q] + 1] = Render(reports[q])[1]
              /\ 1 \in 1..Len(Render(reports[q]))
  BY <1>4
<1>6. ASSUME Render(reports[q])[1].kind = lines[i].kind PROVE q = r
  <2>1. Len(Render(reports[r])) >= 1
    BY <1>1, RenderNotEmpty
  <2>2. off[r] + 1 <= off[q] + k
    BY <1>5
  <2>3. ~(off[q] + 1 \in (off[r] + 2)..(off[q] + k))
    <3>1. ASSUME off[q] + 1 \in (off[r] + 2)..(off[q] + k) PROVE FALSE
      <4>0. off[r] + 2 = i + 1
        BY <1>2, SMTT(30)
      <4>1. off[q] + 1 \in (i + 1)..e
        <5>1. off[q] + k <= e /\ off[q] + 1 \in Nat /\ off[q] + k \in Nat
          BY <1>3, <1>5
        <5>2. i + 1 <= off[q] + 1 /\ off[q] + 1 <= off[q] + k
          BY <1>2, <1>5, <3>1, <4>0, <5>1, SMTT(30)
        <5> QED
          BY <1>2, <1>3, <5>1, <5>2
      <4> QED
        BY <1>5, <1>6, <4>1
    <3> QED
      BY <3>1
  <2> QED
    BY <2>1, <2>2, <2>3, LineIsOfReport
<1> QED
  BY <1>5, <1>6 DEF IsLineOf

\* The failure a report is found by before it is localized.
IsSignalOf(failure, report) ==
    /\ failure \in SignalType /\ failure.file = None
    /\ Len(failure.frames) <= MaxStackFrames
    /\ TellsOf(failure, report)
    /\ failure.category \in CompilerCategories => report.kind = "diagnostic"
    /\ failure.reported = None => failure.frames = <<>>
    /\ report.kind = "diagnostic" => failure.frames = <<>>
    /\ report.kind = "summary" => failure.reported = None
    /\ report.kind = "test" =>
          \/ failure.frames = <<>> /\ failure.reported = None
          \/ /\ failure.frames # <<>> /\ Traced(report) # <<>>
             /\ failure.message = Said(report)
             /\ failure.reported = NamedFile(Traced(report)[1].class.name)
             /\ failure.line = Traced(report)[1].line

LEMMA CategoriesDiffer == CompilerCategories \intersect TestCategories = {}
BY DEF CompilerCategories, TestCategories

\* Where a block speaks of one category, that is what it is about.
LEMMA OnlyCategory ==
    ASSUME NEW block, NEW category \in CompilerCategories,
           {block[n].category : n \in {m \in DOMAIN block : block[m].kind = "compiler"}}
               = {category}
    PROVE  CategoryOf(block) = category
<1> DEFINE places == {n \in DOMAIN CategoryOrder : CategoryOrder[n] \in {category}}
<1>1. DOMAIN CategoryOrder = 1..5
  BY DEF CategoryOrder
<1>2. \E n \in 1..5 : CategoryOrder[n] = category
  BY DEF CategoryOrder, CompilerCategories
<1>3. places # {} /\ places \subseteq Nat
  BY <1>1, <1>2
<1>4. Min(places) \in places
  BY <1>3, MinIs
<1>5. CategoryOf(block) = CategoryOrder[Min(places)]
  BY DEF CategoryOf
<1> HIDE DEF places
<1> QED
  BY <1>4, <1>5 DEF places

\* What the compiler complained of is found as it was said.
LEMMA CompilerSignalIs ==
    ASSUME NEW reports \in Seq(ReportType), NEW off, NEW lines, IsPrinting(off, lines, reports),
           NEW r \in 1..Len(reports), reports[r].kind = "diagnostic", NEW i, i = off[r] + 1
    PROVE  /\ i \in 1..Len(lines) /\ lines[i].kind = "compiler"
           /\ IsSignalOf(CompilerSignal(lines, i), reports[r])
<1>0. PICK e : e = DiagnosticEnd(lines, i)
  OBVIOUS
<1> DEFINE block == SubSeq(lines, i, e)
           symbol == FirstOf(block, "symbol", "value")
           report == reports[r]
           signal == CompilerSignal(lines, i)
<1>1. /\ Len(reports) \in Nat /\ report \in ReportType /\ lines \in Seq(LineType)
      /\ off \in [1..(Len(reports) + 1) -> Nat]
  BY LenProperties, ElementOfSeq DEF IsPrinting
<1>2. off[r] \in Nat /\ i \in Nat
  <2>1. off[r] \in Nat
    BY <1>1
  <2> QED
    BY <2>1
<1>3. i \in 1..Len(lines) /\ lines[i] = Render(report)[1]
  <2>1. 1 \in 1..Len(Render(report))
    BY <1>1, RenderNotEmpty
  <2> QED
    BY <2>1 DEF IsPrinting
<1>4. lines[i] = [kind |-> "compiler", path |-> report.path, line |-> report.line,
                  category |-> report.category]
  BY <1>1, <1>3, RenderDiagnostic
<1> HIDE DEF report
<1>5. e \in i..Len(lines) /\ \A j \in (i + 1)..e : lines[j].kind # "compiler"
  BY <1>0, <1>1, <1>3, DiagnosticEndIs
<1>6. /\ block \in Seq(LineType) /\ Len(block) = (e - i) + 1
      /\ \A n \in 1..Len(block) : block[n] = lines[i + n - 1] /\ i + n - 1 \in i..e
  BY <1>1, <1>3, <1>5, BlockIs
<1> HIDE DEF block
<1>7. ASSUME NEW n \in 1..Len(block), block[n].kind = "symbol"
      PROVE  report.symbol # None /\ block[n].value = report.symbol
  <2>1. PICK l \in i..e : block[n] = lines[l]
    BY <1>6
  <2>2. PICK q \in 1..Len(reports) :
            /\ IsLineOf(l, lines, off, reports, q)
            /\ Render(reports[q])[1].kind = "compiler" => q = r
    <3>2. \A j \in (i + 1)..e : lines[j].kind # lines[i].kind
      BY <1>4, <1>5
    <3>1. /\ reports \in Seq(ReportType) /\ IsPrinting(off, lines, reports) /\ r \in 1..Len(reports)
          /\ i = off[r] + 1 /\ e \in i..Len(lines) /\ l \in i..e
      BY <1>5
    <3>3. PICK q \in 1..Len(reports) :
            /\ IsLineOf(l, lines, off, reports, q)
            /\ Render(reports[q])[1].kind = lines[i].kind => q = r
      BY ONLY <3>1, <3>2, LineOfBlock, SMTT(60)
    <3> QED
      BY <1>4, <3>3
  <2>3. PICK k \in 1..Len(Render(reports[q])) :
            lines[l] = Render(reports[q])[k] /\ reports[q] \in ReportType
    BY <2>2 DEF IsLineOf
  <2>4. /\ reports[q].kind = "diagnostic"
        /\ reports[q].symbol # None /\ lines[l].value = reports[q].symbol
    BY <1>7, <2>1, <2>3, KindOfLine
  <2>5. Render(reports[q])[1].kind = "compiler"
    <3>1. 1 \in 1..Len(Render(reports[q]))
      BY <2>3, RenderNotEmpty
    <3> QED
      BY <2>3, <2>4, <3>1, KindOfLine
  <2> QED
    BY <2>1, <2>2, <2>4, <2>5 DEF report
<1>8. symbol \in {report.symbol, None}
  <2>1. \/ symbol = None
        \/ \E n \in 1..Len(block) : block[n].kind = "symbol" /\ symbol = block[n].value
    BY <1>6, FirstOfIs
  <2> QED
    BY <1>7, <2>1
<1> HIDE DEF symbol
<1>9. CategoryOf(block) = report.category
  <2>0. DOMAIN block = 1..Len(block) /\ Len(block) \in Nat
    BY <1>6, LenProperties
  <2>1. 1 \in DOMAIN block /\ block[1] = lines[i]
    <3>1. 1 \in 1..Len(block)
      BY <1>2, <1>5, <1>6, <2>0
    <3>2. block[1] = lines[i + 1 - 1] /\ i + 1 - 1 = i
      BY <1>2, <1>6, <3>1
    <3> QED
      BY <2>0, <3>1, <3>2
  <2>2. ASSUME NEW n \in DOMAIN block, block[n].kind = "compiler" PROVE n = 1
    <3>1. n \in 1..Len(block) /\ n \in Nat
      BY <2>0
    <3>2. block[n] = lines[i + n - 1] /\ i + n - 1 \in i..e
      BY <1>6, <3>1
    <3>3. i + n - 1 \notin (i + 1)..e
      BY <1>5, <2>2, <3>2
    <3> QED
      BY <1>2, <3>1, <3>2, <3>3
  <2>3. {m \in DOMAIN block : block[m].kind = "compiler"} = {1}
    BY <1>4, <2>1, <2>2
  <2>4. {block[n].category : n \in {m \in DOMAIN block : block[m].kind = "compiler"}}
            = {report.category}
    BY <1>4, <2>1, <2>3
  <2>5. report.category \in CompilerCategories
    BY <1>1 DEF ReportType, report
  <2> QED
    BY <2>4, <2>5, OnlyCategory
<1>10. signal = [category |-> report.category, file |-> None, reported |-> report.path,
                line |-> report.line, symbol |-> symbol, message |-> report.category, frames |-> <<>>]
  BY <1>0, <1>4, <1>9 DEF CompilerSignal, symbol, block
<1> HIDE DEF signal
<1>11. /\ report.path \in [from : {"here", "elsewhere"}, path : SourceFiles] /\ report.line \in Nat
       /\ report.category \in CompilerCategories /\ report.symbol \in Words \union {None}
       /\ report.kind = "diagnostic"
  BY <1>1 DEF ReportType, report
<1>12. /\ report.category \in Categories /\ symbol \in Words \union {None}
       /\ report.path \in ReferenceType /\ report.path # None
  BY <1>8, <1>11, StreamsAssumption DEF Categories, ReferenceType
<1>13. signal \in SignalType
  BY <1>10, <1>11, <1>12 DEF SignalType
<1>14. TellsOf(signal, report)
  BY <1>8, <1>10, <1>11 DEF TellsOf
<1>15. Len(<<>>) = 0 /\ 0 <= MaxStackFrames
  BY LimitAssumption
<1>16. /\ signal.frames = <<>> /\ signal.reported # None /\ signal.file = None
       /\ Len(signal.frames) <= MaxStackFrames
  BY <1>10, <1>12, <1>15
<1>17. IsSignalOf(signal, report)
  BY <1>11, <1>13, <1>14, <1>16 DEF IsSignalOf
<1>18. lines[i].kind = "compiler"
  BY <1>4
<1> QED
  BY <1>3, <1>17, <1>18 DEF report, signal

\* The first frames of a trace are a part of it.
LEMMA FirstFramesIs ==
    ASSUME NEW X, NEW traced \in Seq(X)
    PROVE  LET kept == FirstFrames(traced)
           IN  /\ kept \in Seq(X) /\ Len(kept) \in Nat
               /\ Len(kept) <= Len(traced) /\ Len(kept) <= MaxStackFrames
               /\ Len(traced) >= 1 => Len(kept) >= 1
               /\ \A n \in 1..Len(kept) : kept[n] = traced[n]
<1> DEFINE limits == {Len(traced), MaxStackFrames}
           m == Min(limits)
           kept == FirstFrames(traced)
<1>1. Len(traced) \in Nat /\ MaxStackFrames \in Nat \ {0}
  BY LenProperties, LimitAssumption
<1>2. m \in limits /\ \A n \in limits : m <= n
  <2>1. limits \in SUBSET Nat /\ limits # {}
    BY <1>1
  <2> HIDE DEF limits
  <2> QED
    BY <2>1, MinIs
<1>3. /\ m \in Nat /\ m <= Len(traced) /\ m <= MaxStackFrames
      /\ Len(traced) >= 1 => m >= 1
  BY <1>1, <1>2
<1>4. kept = SubSeq(traced, 1, m)
  BY DEF FirstFrames
<1> HIDE DEF m, limits, kept
<1>5. \A n \in 1..m : traced[n] \in X
  BY <1>1, <1>3, ElementOfSeq
<1>6. /\ kept \in Seq(X)
      /\ Len(kept) = IF 1 <= m THEN m - 1 + 1 ELSE 0
      /\ \A n \in 1..(m - 1 + 1) : kept[n] = traced[1 + n - 1]
  BY <1>3, <1>4, <1>5, SubSeqProperties
<1>7. Len(kept) = m /\ \A n \in 1..Len(kept) : kept[n] = traced[n]
  BY <1>3, <1>6
<1> QED
  BY <1>3, <1>6, <1>7 DEF kept

\* The block of a failing test, as far as it goes.
IsTestBlock(block, report) ==
    /\ block \in Seq(LineType) /\ Len(block) \in Nat
    /\ \A n \in 1..Len(block) :
          /\ block[n].kind = "exception" =>
                report.exception # None /\ block[n].type = report.exception
          /\ block[n].kind = "frame" => n - FramesAfter(report) \in 1..Len(report.frames)
    /\ \A n \in 1..Len(report.frames) : FramesAfter(report) + n \in 1..Len(block) =>
          block[FramesAfter(report) + n] = [kind |-> "frame", class |-> report.frames[n].class,
                                            line |-> report.frames[n].line]
    /\ FramesAfter(report) = 2 /\ Len(block) >= 2 =>
          block[2] = [kind |-> "exception", type |-> report.exception]

\* Nothing in the block of a test is of another one.
LEMMA TestBlockIs ==
    ASSUME NEW reports \in Seq(ReportType), NEW off, NEW lines, IsPrinting(off, lines, reports),
           NEW r \in 1..Len(reports), reports[r].kind = "test", NEW i, i = off[r] + 1
    PROVE  /\ i \in 1..Len(lines)
           /\ lines[i] = [kind |-> "header", test |-> reports[r].test]
           /\ IsTestBlock(SubSeq(lines, i, TestEnd(lines, i)), reports[r])
<1>0. PICK e : e = TestEnd(lines, i)
  OBVIOUS
<1> DEFINE block == SubSeq(lines, i, e)
           report == reports[r]
           h == FramesAfter(report)
<1>1. /\ Len(reports) \in Nat /\ report \in ReportType /\ lines \in Seq(LineType)
      /\ off \in [1..(Len(reports) + 1) -> Nat]
  BY LenProperties, ElementOfSeq DEF IsPrinting
<1>2. off[r] \in Nat /\ i \in Nat
  <2>1. off[r] \in Nat
    BY <1>1
  <2> QED
    BY <2>1
<1>3. i \in 1..Len(lines) /\ lines[i] = Render(report)[1]
  <2>1. 1 \in 1..Len(Render(report))
    BY <1>1, RenderNotEmpty
  <2> QED
    BY <2>1 DEF IsPrinting
<1>4. /\ Len(Render(report)) = h + Len(report.frames)
      /\ Render(report)[1] = [kind |-> "header", test |-> report.test]
      /\ h = 2 => Render(report)[2] = [kind |-> "exception", type |-> report.exception]
      /\ \A n \in 1..Len(report.frames) :
            Render(report)[h + n] = [kind |-> "frame", class |-> report.frames[n].class,
                                     line |-> report.frames[n].line]
  BY <1>1, RenderTest
<1>5. e \in i..Len(lines) /\ \A j \in (i + 1)..e : lines[j].kind # "header"
  BY <1>0, <1>1, <1>3, TestEndIs
<1>6. /\ block \in Seq(LineType) /\ Len(block) = (e - i) + 1 /\ Len(block) \in Nat
      /\ \A n \in 1..Len(block) : block[n] = lines[i + n - 1] /\ i + n - 1 \in i..e
  BY <1>1, <1>3, <1>5, BlockIs
<1>7. report.frames \in Seq(FrameType) /\ Len(report.frames) \in Nat /\ h \in {1, 2}
  BY <1>1, LenProperties DEF ReportType, FramesAfter
<1> HIDE DEF report, h, block
<1>8. \A k \in 1..Len(Render(report)) : lines[off[r] + k] = Render(report)[k]
  BY DEF IsPrinting, report
<1>9. ASSUME NEW n \in 1..Len(block), block[n].kind \in {"exception", "frame"}
      PROVE  n \in 1..Len(Render(report)) /\ block[n] = Render(report)[n]
  <2>1. PICK l \in i..e : block[n] = lines[l] /\ l = i + n - 1
    BY <1>6
  <2>2. PICK q \in 1..Len(reports) :
            /\ IsLineOf(l, lines, off, reports, q)
            /\ Render(reports[q])[1].kind = "header" => q = r
    <3>1. lines[i].kind = "header"
      BY <1>3, <1>4
    <3>2. \A j \in (i + 1)..e : lines[j].kind # lines[i].kind
      BY <1>5, <3>1
    <3>3. /\ reports \in Seq(ReportType) /\ IsPrinting(off, lines, reports) /\ r \in 1..Len(reports)
          /\ i = off[r] + 1 /\ e \in i..Len(lines) /\ l \in i..e
      BY <1>5
    <3>4. PICK q \in 1..Len(reports) :
            /\ IsLineOf(l, lines, off, reports, q)
            /\ Render(reports[q])[1].kind = lines[i].kind => q = r
      BY ONLY <3>2, <3>3, LineOfBlock, SMTT(60)
    <3> QED
      BY <3>1, <3>4
  <2>3. PICK k \in 1..Len(Render(reports[q])) :
            l = off[q] + k /\ lines[l] = Render(reports[q])[k] /\ reports[q] \in ReportType
    BY <2>2 DEF IsLineOf
  <2>4. reports[q].kind = "test"
    BY <1>9, <2>1, <2>3, KindOfLine
  <2>5. Render(reports[q])[1].kind = "header"
    <3>1. 1 \in 1..Len(Render(reports[q]))
      BY <2>3, RenderNotEmpty
    <3> QED
      BY <2>3, <2>4, <3>1, KindOfLine
  <2>6. q = r
    BY <2>2, <2>5
  <2>7. k = n
    <3>1. off[r] + k = off[r] + n
      BY <1>2, <2>1, <2>3, <2>6, SMTT(30)
    <3>2. n \in Nat /\ k \in Nat
      <4>1. Len(Render(reports[q])) \in Nat
        BY <2>3, RenderNotEmpty
      <4> QED
        BY <1>6, <4>1
    <3> QED
      BY <1>2, <3>1, <3>2
  <2> QED
    BY <2>1, <2>3, <2>6, <2>7 DEF report
<1>10. ASSUME NEW n \in 1..Len(block)
       PROVE  /\ block[n].kind = "exception" =>
                    report.exception # None /\ block[n].type = report.exception
              /\ block[n].kind = "frame" => n - h \in 1..Len(report.frames)
  <2>1. CASE block[n].kind = "exception"
    <3>1. n \in 1..Len(Render(report)) /\ block[n] = Render(report)[n]
      BY <1>9, <2>1
    <3>2. h = 2 /\ block[n].type = report.exception
      BY <1>1, <2>1, <3>1, KindOfLine DEF h
    <3> QED
      BY <2>1, <3>2 DEF h, FramesAfter
  <2>2. CASE block[n].kind = "frame"
    <3>1. n \in 1..Len(Render(report)) /\ block[n] = Render(report)[n]
      BY <1>9, <2>2
    <3> QED
      BY <1>1, <2>2, <3>1, KindOfLine DEF h
  <2> QED
    BY <2>1, <2>2
<1>11. \A n \in 1..Len(block) : n <= Len(Render(report)) => block[n] = Render(report)[n]
  <2>1. Len(Render(report)) \in Nat
    BY <1>1, RenderNotEmpty
  <2> SUFFICES ASSUME NEW n \in 1..Len(block), n <= Len(Render(report))
               PROVE  block[n] = Render(report)[n]
    OBVIOUS
  <2>2. i + n - 1 = off[r] + n
    BY <1>2, <1>6
  <2>3. n \in 1..Len(Render(report))
    BY <1>6, <2>1
  <2>4. lines[off[r] + n] = Render(report)[n]
    BY <1>8, <2>3
  <2> QED
    BY <1>6, <2>2, <2>4
<1>12. ASSUME NEW n \in 1..Len(report.frames), h + n \in 1..Len(block)
       PROVE  block[h + n] = [kind |-> "frame", class |-> report.frames[n].class,
                              line |-> report.frames[n].line]
  <2>1. h + n <= Len(Render(report))
    BY <1>4, <1>7
  <2> QED
    BY <1>4, <1>11, <1>12, <2>1
<1>13. ASSUME h = 2, Len(block) >= 2
       PROVE  block[2] = [kind |-> "exception", type |-> report.exception]
  <2>1. 2 \in 1..Len(block) /\ 2 <= Len(Render(report))
    BY <1>4, <1>6, <1>7, <1>13
  <2> QED
    BY <1>4, <1>11, <1>13, <2>1
<1>14. IsTestBlock(block, report)
  BY <1>6, <1>10, <1>12, <1>13 DEF IsTestBlock, h
<1> QED
  BY <1>0, <1>3, <1>4, <1>14 DEF block, report

\* The traces of a test in its block and in its report.
TracePlaces(block) == {n \in DOMAIN block : block[n].kind = "frame" /\ ~Framework(block[n].class)}

OwnFrames(report) == {n \in DOMAIN report.frames : ~Framework(report.frames[n].class)}

\* The frames of a block are those of the report, as far as the block goes.
LEMMA TracePlacesAre ==
    ASSUME NEW report \in ReportType, report.kind = "test", NEW block, IsTestBlock(block, report)
    PROVE  LET h == FramesAfter(report)
           IN  TracePlaces(block) = {h + n : n \in {m \in OwnFrames(report) : h + m <= Len(block)}}
<1> DEFINE h == FramesAfter(report)
           own == {m \in OwnFrames(report) : h + m <= Len(block)}
<1>1. report.frames \in Seq(FrameType) /\ h \in {1, 2}
  BY DEF ReportType, FramesAfter
<1>2. DOMAIN report.frames = 1..Len(report.frames) /\ Len(report.frames) \in Nat
  BY <1>1, LenProperties
<1>3. DOMAIN block = 1..Len(block) /\ Len(block) \in Nat
  BY LenProperties DEF IsTestBlock
<1>4. /\ \A n \in 1..Len(block) :
            block[n].kind = "frame" => n - h \in 1..Len(report.frames)
      /\ \A n \in 1..Len(report.frames) : h + n \in 1..Len(block) =>
            block[h + n] = [kind |-> "frame", class |-> report.frames[n].class,
                            line |-> report.frames[n].line]
  BY DEF IsTestBlock
<1> HIDE DEF h
<1>5. ASSUME NEW n \in TracePlaces(block) PROVE \E m \in own : n = h + m
  <2>1. n \in 1..Len(block) /\ block[n].kind = "frame" /\ ~Framework(block[n].class)
    BY <1>3 DEF TracePlaces
  <2> DEFINE m == n - h
  <2>2. m \in 1..Len(report.frames) /\ n = h + m /\ h + m <= Len(block)
    BY <1>1, <1>3, <1>4, <2>1
  <2> HIDE DEF m
  <2>3. block[n].class = report.frames[m].class
    <3>1. block[h + m] = [kind |-> "frame", class |-> report.frames[m].class,
                          line |-> report.frames[m].line]
      BY <1>4, <2>1, <2>2
    <3> QED
      BY <2>2, <3>1
  <2>4. m \in OwnFrames(report)
    BY <1>2, <2>1, <2>2, <2>3 DEF OwnFrames
  <2> QED
    BY <2>2, <2>4
<1>6. ASSUME NEW m \in own PROVE h + m \in TracePlaces(block)
  <2>1. m \in 1..Len(report.frames) /\ ~Framework(report.frames[m].class) /\ h + m <= Len(block)
    BY <1>2 DEF OwnFrames
  <2>2. h + m \in 1..Len(block)
    BY <1>1, <1>2, <1>3, <2>1
  <2>3. block[h + m].kind = "frame" /\ block[h + m].class = report.frames[m].class
    <3>1. block[h + m] = [kind |-> "frame", class |-> report.frames[m].class,
                          line |-> report.frames[m].line]
      BY <1>4, <2>1, <2>2
    <3> QED
      BY <3>1
  <2> QED
    BY <1>3, <2>1, <2>2, <2>3 DEF TracePlaces
<1>7. TracePlaces(block) = {h + m : m \in own}
  <2> HIDE DEF own
  <2> QED
    BY <1>5, <1>6
<1> QED
  BY <1>7 DEF h

\* What a signal has of the trace in a block.
KeptFrames(block) ==
    LET kept == FirstFrames(Keep(block, TracePlaces(block)))
    IN  [n \in DOMAIN kept |-> [class |-> kept[n].class, line |-> kept[n].line]]

\* The frames of a signal are the first ones of its report.
LEMMA KeptFramesAre ==
    ASSUME NEW report \in ReportType, report.kind = "test", NEW block, IsTestBlock(block, report)
    PROVE  /\ Traced(report) \in Seq(FrameType)
           /\ KeptFrames(block) \in Seq(FrameType) /\ Len(KeptFrames(block)) <= MaxStackFrames
           /\ IsPrefix(KeptFrames(block), Traced(report))
           /\ KeptFrames(block) # <<>> =>
                 /\ Traced(report) # <<>> /\ KeptFrames(block)[1] = Traced(report)[1]
                 /\ Len(block) > FramesAfter(report)
<1> DEFINE h == FramesAfter(report)
           Q == OwnFrames(report)
           P == TracePlaces(block)
           traced == Keep(block, P)
           kept == FirstFrames(traced)
           frames == KeptFrames(block)
           whole == Traced(report)
           op == InOrder(P)
           oq == InOrder(Q)
<1>1. /\ report.frames \in Seq(FrameType) /\ h \in Nat /\ h \in {1, 2}
      /\ block \in Seq(LineType) /\ Len(block) \in Nat
      /\ DOMAIN report.frames = 1..Len(report.frames) /\ DOMAIN block = 1..Len(block)
      /\ Len(report.frames) \in Nat
  <2>1. report.frames \in Seq(FrameType) /\ h \in Nat /\ h \in {1, 2}
    BY DEF ReportType, FramesAfter
  <2>2. block \in Seq(LineType)
    BY DEF IsTestBlock
  <2> QED
    BY <2>1, <2>2, LenProperties
<1>2. P \in SUBSET DOMAIN block /\ Q \in SUBSET DOMAIN report.frames
  BY DEF TracePlaces, OwnFrames
<1>3. P = {h + q : q \in {p \in Q : h + p <= Len(block)}}
  BY TracePlacesAre
<1>4. whole = Keep(report.frames, Q)
  BY DEF Traced, OwnFrames
<1>5. frames = [n \in DOMAIN kept |-> [class |-> kept[n].class, line |-> kept[n].line]]
  BY DEF KeptFrames
<1>6. \A n \in 1..Len(report.frames) : h + n \in 1..Len(block) =>
         block[h + n] = [kind |-> "frame", class |-> report.frames[n].class,
                         line |-> report.frames[n].line]
  BY DEF IsTestBlock
<1> HIDE DEF h, Q, P
<1>7. /\ traced \in Seq(LineType) /\ Len(traced) \in Nat
      /\ \A n \in 1..Len(traced) : op[n] \in P /\ traced[n] = block[op[n]]
  <2>1. traced \in Seq(LineType) /\ Len(traced) \in Nat
    BY <1>1, <1>2, KeepIs
  <2>2. \A n \in 1..Len(traced) : op[n] \in P /\ traced[n] = block[op[n]]
    BY <1>1, <1>2, KeepIs
  <2> QED
    BY <2>1, <2>2
<1>8. /\ whole \in Seq(FrameType) /\ Len(whole) \in Nat
      /\ \A n \in 1..Len(whole) : oq[n] \in Q /\ whole[n] = report.frames[oq[n]]
  <2>1. whole \in Seq(FrameType) /\ Len(whole) \in Nat
    BY <1>1, <1>2, <1>4, KeepIs
  <2>2. \A n \in 1..Len(whole) : oq[n] \in Q /\ whole[n] = report.frames[oq[n]]
    BY <1>1, <1>2, <1>4, KeepIs
  <2> QED
    BY <2>1, <2>2
<1>9. Len(traced) <= Len(whole) /\ \A n \in 1..Len(traced) : op[n] = h + oq[n]
  <2>1. /\ report.frames \in Seq(FrameType) /\ block \in Seq(LineType)
        /\ P \in SUBSET DOMAIN block /\ Q \in SUBSET DOMAIN report.frames
        /\ h \in Nat /\ Len(block) \in Nat
    BY <1>1, <1>2
  <2>2. /\ Len(Keep(block, P)) <= Len(Keep(report.frames, Q))
        /\ IsMoved(InOrder(P), InOrder(Q), h, Len(Keep(block, P)))
    BY ONLY <1>3, <2>1, KeepOfCopy, SMTT(60)
  <2> QED
    BY <1>4, <2>2 DEF IsMoved
<1> HIDE DEF traced, whole, op, oq
<1>10. /\ kept \in Seq(LineType) /\ Len(kept) \in Nat
       /\ Len(kept) <= Len(traced) /\ Len(kept) <= MaxStackFrames
       /\ \A n \in 1..Len(kept) : kept[n] = traced[n]
  BY <1>7, FirstFramesIs
<1>11. DOMAIN kept = 1..Len(kept)
  BY <1>10, LenProperties
<1> HIDE DEF kept
<1>12. \A n \in 1..Len(whole) : whole[n] \in FrameType
  BY <1>8, ElementOfSeq
<1>13. ASSUME NEW n \in 1..Len(kept)
       PROVE  n \in 1..Len(whole) /\ [class |-> kept[n].class, line |-> kept[n].line] = whole[n]
  <2>1. n \in 1..Len(traced) /\ n \in 1..Len(whole)
    BY <1>7, <1>8, <1>9, <1>10
  <2>2. kept[n] = block[op[n]] /\ op[n] = h + oq[n] /\ op[n] \in P
    BY <1>7, <1>9, <1>10, <2>1
  <2>3. whole[n] = report.frames[oq[n]] /\ oq[n] \in 1..Len(report.frames)
    BY <1>1, <1>2, <1>8, <2>1
  <2>4. op[n] \in 1..Len(block)
    BY <1>1, <1>2, <2>2
  <2>5. kept[n] = [kind |-> "frame", class |-> whole[n].class, line |-> whole[n].line]
    BY <1>6, <2>2, <2>3, <2>4
  <2>6. whole[n] = [class |-> whole[n].class, line |-> whole[n].line]
    BY <1>12, <2>1 DEF FrameType
  <2> QED
    BY <2>1, <2>5, <2>6
<1>14. /\ frames \in Seq(FrameType) /\ Len(frames) = Len(kept)
       /\ \A n \in 1..Len(frames) : frames[n] = whole[n]
  <2>1. frames = [n \in 1..Len(kept) |-> whole[n]]
    <3>1. frames = [n \in 1..Len(kept) |-> [class |-> kept[n].class, line |-> kept[n].line]]
      BY <1>5, <1>11
    <3> HIDE DEF frames
    <3> QED
      BY <1>13, <3>1
  <2>2. \A n \in 1..Len(kept) : whole[n] \in FrameType
    BY <1>12, <1>13
  <2> HIDE DEF frames
  <2> QED
    BY <1>10, <2>1, <2>2
<1> HIDE DEF frames
<1>15. Len(frames) <= MaxStackFrames /\ Len(frames) <= Len(whole)
  BY <1>7, <1>8, <1>9, <1>10, <1>14, LimitAssumption
<1>16. IsPrefix(frames, whole)
  BY <1>8, <1>14, <1>15, PrefixIs
<1>17. ASSUME frames # <<>>
       PROVE  whole # <<>> /\ frames[1] = whole[1] /\ Len(block) > h
  <2>1. Len(frames) # 0 /\ Len(frames) \in Nat
    BY <1>14, <1>17, EmptySeq, LenProperties
  <2>2. 1 \in 1..Len(frames)
    BY <2>1
  <2>3. whole # <<>>
    <3>1. Len(whole) # 0
      BY <1>8, <1>15, <2>1
    <3> QED
      BY <3>1, EmptySeq
  <2>4. Len(block) > h
    <3>1. 1 \in 1..Len(traced) /\ 1 \in 1..Len(whole)
      BY <1>7, <1>8, <1>9, <1>10, <1>14, <2>2
    <3>2. op[1] = h + oq[1] /\ op[1] \in P /\ oq[1] \in Q
      BY <1>7, <1>8, <1>9, <3>1
    <3>3. op[1] \in 1..Len(block) /\ oq[1] \in 1..Len(report.frames)
      BY <1>1, <1>2, <3>2
    <3> QED
      BY <1>1, <3>2, <3>3
  <2> QED
    BY <1>14, <2>2, <2>3, <2>4
<1> QED
  BY <1>8, <1>14, <1>15, <1>16, <1>17 DEF h, frames, whole

\* A failing test is found as what it said, with the start of its trace.
LEMMA TestSignalIs ==
    ASSUME NEW reports \in Seq(ReportType), NEW off, NEW lines, IsPrinting(off, lines, reports),
           NEW r \in 1..Len(reports), reports[r].kind = "test", NEW i, i = off[r] + 1
    PROVE  /\ i \in 1..Len(lines) /\ lines[i].kind = "header"
           /\ IsSignalOf(TestSignal(lines, i), reports[r])
<1>0. PICK block : block = SubSeq(lines, i, TestEnd(lines, i))
  OBVIOUS
<1>1. PICK report : report = reports[r]
  OBVIOUS
<1> DEFINE thrown == FirstOf(block, "exception", "type")
           frames == KeptFrames(block)
           signal == TestSignal(lines, i)
<1>2. /\ report \in ReportType /\ report.kind = "test"
      /\ report.exception \in Words \union {None} /\ report.test \in Words
      /\ report.frames \in Seq(FrameType)
  <2>1. report \in ReportType /\ report.kind = "test"
    BY <1>1, LenProperties, ElementOfSeq
  <2> QED
    BY <2>1 DEF ReportType
<1>3. /\ i \in 1..Len(lines)
      /\ lines[i] = [kind |-> "header", test |-> report.test]
      /\ IsTestBlock(block, report)
  BY <1>0, <1>1, TestBlockIs
<1>4. lines[i].kind = "header" /\ lines[i].test = report.test
  BY <1>3
<1>5. signal = [category |-> IF thrown = None THEN "TEST_FAILURE"
                             ELSE IF thrown = "assertion" THEN "ASSERTION_FAILURE" ELSE "TEST_EXCEPTION",
                file     |-> None,
                reported |-> IF frames = <<>> THEN None ELSE NamedFile(frames[1].class.name),
                line     |-> IF frames = <<>> THEN None ELSE frames[1].line,
                symbol   |-> None,
                message  |-> IF thrown = None THEN report.test ELSE thrown,
                frames   |-> frames]
  BY <1>0, <1>4 DEF TestSignal, KeptFrames, TracePlaces
<1>6. /\ block \in Seq(LineType) /\ Len(block) \in Nat
      /\ \A n \in 1..Len(block) : block[n].kind = "exception" =>
            report.exception # None /\ block[n].type = report.exception
      /\ FramesAfter(report) = 2 /\ Len(block) >= 2 =>
            block[2] = [kind |-> "exception", type |-> report.exception]
  BY <1>3 DEF IsTestBlock
<1>7. \/ thrown = None /\ \A n \in 1..Len(block) : block[n].kind # "exception"
      \/ thrown = report.exception /\ report.exception # None
  <2>1. \/ thrown = None /\ \A n \in 1..Len(block) : block[n].kind # "exception"
        \/ \E n \in 1..Len(block) : block[n].kind = "exception" /\ thrown = block[n].type
    BY <1>6, FirstOfIs
  <2> QED
    BY <1>6, <2>1
<1>8. /\ Traced(report) \in Seq(FrameType)
      /\ frames \in Seq(FrameType) /\ Len(frames) <= MaxStackFrames
      /\ IsPrefix(frames, Traced(report))
      /\ frames # <<>> => /\ Traced(report) # <<>> /\ frames[1] = Traced(report)[1]
                          /\ Len(block) > FramesAfter(report)
  BY <1>2, <1>3, KeptFramesAre
<1> HIDE DEF thrown, frames, signal
<1>9. frames # <<>> => (IF thrown = None THEN report.test ELSE thrown) = Said(report)
  <2> SUFFICES ASSUME frames # <<>>
               PROVE  (IF thrown = None THEN report.test ELSE thrown) = Said(report)
    OBVIOUS
  <2>1. CASE report.exception = None
    BY <1>7, <2>1 DEF Said
  <2>2. CASE report.exception # None
    <3>1. FramesAfter(report) = 2 /\ Len(block) >= 2
      BY <1>6, <1>8, <2>2 DEF FramesAfter
    <3>2. 2 \in 1..Len(block) /\ block[2].kind = "exception"
      BY <1>6, <3>1
    <3>3. thrown = report.exception
      BY <1>7, <3>2
    <3> QED
      BY <2>2, <3>3 DEF Said
  <2> QED
    BY <2>1, <2>2
<1>10. /\ signal.category \in TestCategories /\ signal.category \notin CompilerCategories
       /\ signal.file = None /\ signal.frames = frames /\ signal.symbol = None
       /\ signal.message = IF thrown = None THEN report.test ELSE thrown
       /\ signal.reported = IF frames = <<>> THEN None ELSE NamedFile(frames[1].class.name)
       /\ signal.line = IF frames = <<>> THEN None ELSE frames[1].line
  <2>1. signal.category \in TestCategories
    BY <1>5 DEF TestCategories
  <2>2. signal.category \notin CompilerCategories
    BY <2>1, CategoriesDiffer
  <2> QED
    BY <1>5, <2>1, <2>2
<1>11. signal.message \in {report.test, report.exception} /\ signal.message \in Words
  BY <1>2, <1>7, <1>10
<1>12. frames # <<>> => /\ frames[1] \in FrameType
                        /\ NamedFile(frames[1].class.name) \in ReferenceType
                        /\ NamedFile(frames[1].class.name) # None
                        /\ frames[1].line \in Nat
  <2> SUFFICES ASSUME frames # <<>>
               PROVE  /\ frames[1] \in FrameType
                      /\ NamedFile(frames[1].class.name) \in ReferenceType
                      /\ NamedFile(frames[1].class.name) # None
                      /\ frames[1].line \in Nat
    OBVIOUS
  <2>1. frames[1] \in FrameType
    <3>1. Len(frames) # 0 /\ Len(frames) \in Nat
      BY <1>8, EmptySeq, LenProperties
    <3>2. 1 \in 1..Len(frames)
      BY <3>1
    <3> QED
      BY <1>8, <3>2, ElementOfSeq
  <2>2. frames[1].class \in Classes /\ frames[1].line \in Nat
    BY <2>1 DEF FrameType
  <2>3. NamedFile(frames[1].class.name) \in ReferenceType
    BY <2>2 DEF ReferenceType
  <2> QED
    BY <2>1, <2>2, <2>3, StreamsAssumption
<1>13. signal \in SignalType
  <2>1. signal.reported \in ReferenceType \union {None} /\ signal.line \in Nat \union {None}
    BY <1>10, <1>12
  <2>2. signal.category \in Categories
    BY <1>10 DEF Categories
  <2>3. signal = [category |-> signal.category, file |-> signal.file, reported |-> signal.reported,
                  line |-> signal.line, symbol |-> signal.symbol, message |-> signal.message,
                  frames |-> signal.frames]
    BY <1>5
  <2> QED
    BY <1>8, <1>10, <1>11, <2>1, <2>2, <2>3 DEF SignalType
<1>14. TellsOf(signal, report)
  BY <1>2, <1>8, <1>10, <1>11 DEF TellsOf
<1>15. \/ signal.frames = <<>> /\ signal.reported = None
       \/ /\ signal.frames # <<>> /\ Traced(report) # <<>>
          /\ signal.message = Said(report)
          /\ signal.reported = NamedFile(Traced(report)[1].class.name)
          /\ signal.line = Traced(report)[1].line
  BY <1>8, <1>9, <1>10
<1>16. signal.reported = None => signal.frames = <<>>
  BY <1>10, <1>12
<1>17. IsSignalOf(signal, report)
  BY <1>2, <1>8, <1>10, <1>13, <1>14, <1>15, <1>16 DEF IsSignalOf
<1> QED
  BY <1>1, <1>3, <1>4, <1>17 DEF signal

\* A summary is found as that.
LEMMA SummarySignalIs ==
    ASSUME NEW report, report.kind = "summary", report.failing
    PROVE  IsSignalOf(SummarySignal, report)
<1>1. /\ SummarySignal.message = "summary" /\ SummarySignal.frames = <<>>
      /\ SummarySignal.category = "TEST_FAILURE" /\ SummarySignal.file = None
      /\ SummarySignal.reported = None
  BY DEF SummarySignal
<1>2. "TEST_FAILURE" \in TestCategories /\ "TEST_FAILURE" \notin CompilerCategories
  BY DEF TestCategories, CompilerCategories
<1>3. SummarySignal \in SignalType
  <2>1. "TEST_FAILURE" \in Categories
    BY <1>2 DEF Categories
  <2>2. <<>> \in Seq(FrameType)
    OBVIOUS
  <2> QED
    BY <2>1, <2>2 DEF SummarySignal, SignalType
<1>4. Len(<<>>) = 0 /\ 0 <= MaxStackFrames
  BY LimitAssumption
<1> QED
  BY <1>1, <1>2, <1>3, <1>4 DEF IsSignalOf, TellsOf

-----------------------------------------------------------------------------
(* What is found in a stream.                                              *)

\* What the parser finds is what a report said.
LEMMA EventIsOfAReport ==
    ASSUME NEW reports \in Seq(ReportType), NEW off, NEW lines, IsPrinting(off, lines, reports),
           NEW i \in Events(lines)
    PROVE  \E r \in 1..Len(reports) : IsSignalOf(SignalAt(lines, i), reports[r])
<1> DEFINE tests == {k \in DOMAIN lines : lines[k].kind = "header"}
<1>1. lines \in Seq(LineType) /\ DOMAIN lines = 1..Len(lines) /\ Len(lines) \in Nat
  <2>1. lines \in Seq(LineType)
    BY DEF IsPrinting
  <2> QED
    BY <2>1, LenProperties
<1>2. \/ lines[i].kind \in {"compiler", "header"} /\ i \in 1..Len(lines)
      \/ SummaryLines(lines) # {} /\ i = Min(SummaryLines(lines))
  BY <1>1 DEF Events
<1>3. SummaryLines(lines) # {} => Min(SummaryLines(lines)) \in SummaryLines(lines)
  <2>1. SummaryLines(lines) \in SUBSET Nat
    BY <1>1 DEF SummaryLines
  <2> QED
    BY <2>1, MinIs
<1>4. i \in 1..Len(lines)
  BY <1>1, <1>2, <1>3 DEF SummaryLines
<1>5. \/ lines[i].kind \in {"compiler", "header"}
      \/ lines[i].kind = "summary" /\ lines[i].failing
  BY <1>2, <1>3 DEF SummaryLines
<1>6. PICK r \in 1..Len(reports) : \E k \in 1..Len(Render(reports[r])) :
              /\ i = off[r] + k /\ lines[i] = Render(reports[r])[k]
              /\ reports[r] \in ReportType
  BY <1>4, LineIsPrinted
<1>7. PICK k \in 1..Len(Render(reports[r])) :
              /\ i = off[r] + k /\ lines[i] = Render(reports[r])[k]
              /\ reports[r] \in ReportType
  BY <1>6
<1>8. CASE lines[i].kind = "compiler"
  <2>1. reports[r].kind = "diagnostic" /\ k = 1
    BY <1>7, <1>8, KindOfLine
  <2>2. i = off[r] + 1
    BY <1>7, <2>1
  <2>3. IsSignalOf(CompilerSignal(lines, i), reports[r])
    BY <2>1, <2>2, CompilerSignalIs
  <2> QED
    BY <1>8, <2>3 DEF SignalAt
<1>9. CASE lines[i].kind = "header"
  <2>1. reports[r].kind = "test" /\ k = 1
    BY <1>7, <1>9, KindOfLine
  <2>2. i = off[r] + 1
    BY <1>7, <2>1
  <2>3. IsSignalOf(TestSignal(lines, i), reports[r])
    BY <2>1, <2>2, TestSignalIs
  <2> QED
    BY <1>9, <2>3 DEF SignalAt
<1>10. CASE lines[i].kind = "summary" /\ lines[i].failing
  <2>1. reports[r].kind = "summary" /\ reports[r].failing
    BY <1>7, <1>10, KindOfLine
  <2>2. IsSignalOf(SummarySignal, reports[r])
    BY <2>1, SummarySignalIs
  <2> QED
    BY <1>10, <2>2 DEF SignalAt
<1> QED
  BY <1>5, <1>8, <1>9, <1>10

\* What a report said is found.
LEMMA ReportHasItsEvent ==
    ASSUME NEW reports \in Seq(ReportType), NEW off, NEW lines, IsPrinting(off, lines, reports),
           NEW r \in 1..Len(reports), reports[r].kind \in {"diagnostic", "test"}
    PROVE  \E i \in Events(lines) : IsSignalOf(SignalAt(lines, i), reports[r])
<1>1. lines \in Seq(LineType) /\ DOMAIN lines = 1..Len(lines)
  <2>1. lines \in Seq(LineType)
    BY DEF IsPrinting
  <2> QED
    BY <2>1, LenProperties
<1>2. PICK i : i = off[r] + 1
  OBVIOUS
<1>3. CASE reports[r].kind = "diagnostic"
  <2>1. /\ i \in 1..Len(lines) /\ lines[i].kind = "compiler"
        /\ IsSignalOf(CompilerSignal(lines, i), reports[r])
    BY <1>2, <1>3, CompilerSignalIs
  <2>2. i \in Events(lines)
    BY <1>1, <2>1 DEF Events
  <2> QED
    BY <2>1, <2>2 DEF SignalAt
<1>4. CASE reports[r].kind = "test"
  <2>1. /\ i \in 1..Len(lines) /\ lines[i].kind = "header"
        /\ IsSignalOf(TestSignal(lines, i), reports[r])
    BY <1>2, <1>4, TestSignalIs
  <2>2. i \in Events(lines)
    BY <1>1, <2>1 DEF Events
  <2> QED
    BY <2>1, <2>2 DEF SignalAt
<1> QED
  BY <1>3, <1>4

\* A summary that says tests failed is not for nothing.
LEMMA SummaryHasAnEvent ==
    ASSUME NEW reports \in Seq(ReportType), NEW off, NEW lines, IsPrinting(off, lines, reports),
           NEW r \in 1..Len(reports), reports[r].kind = "summary", reports[r].failing
    PROVE  Events(lines) # {}
<1>1. lines \in Seq(LineType) /\ DOMAIN lines = 1..Len(lines)
  <2>1. lines \in Seq(LineType)
    BY DEF IsPrinting
  <2> QED
    BY <2>1, LenProperties
<1>2. PICK i : i = off[r] + 1
  OBVIOUS
<1>3. reports[r] \in ReportType
  BY LenProperties, ElementOfSeq
<1>4. 1 \in 1..Len(Render(reports[r]))
  BY <1>3, RenderNotEmpty
<1>5. i \in 1..Len(lines) /\ lines[i] = Render(reports[r])[1]
  BY <1>2, <1>4 DEF IsPrinting
<1>6. lines[i].kind = "summary" /\ lines[i].failing
  BY <1>3, <1>4, <1>5, KindOfLine
<1>7. SummaryLines(lines) # {}
  BY <1>1, <1>5, <1>6 DEF SummaryLines
<1> QED
  BY <1>7 DEF Events

\* The rest are repetitions.
IsDeduplicated(found, signals) ==
    /\ \A n \in 1..Len(found) : \E i \in 1..Len(signals) : found[n] = signals[i]
    /\ \A i \in 1..Len(signals) : \E n \in 1..Len(found) : Key(found[n]) = Key(signals[i])

LEMMA DeduplicateIs ==
    ASSUME NEW X, NEW signals \in Seq(X)
    PROVE  /\ Deduplicate(signals) \in Seq(X)
           /\ IsDeduplicated(Deduplicate(signals), signals)
<1> DEFINE places == {i \in DOMAIN signals : \A j \in 1..(i - 1) : Key(signals[j]) # Key(signals[i])}
           found == Deduplicate(signals)
           order == InOrder(places)
<1>1. DOMAIN signals = 1..Len(signals) /\ Len(signals) \in Nat
  BY LenProperties
<1>2. found = Keep(signals, places)
  BY DEF Deduplicate
<1>3. places \in SUBSET DOMAIN signals
  OBVIOUS
<1>4. ASSUME NEW i \in 1..Len(signals)
      PROVE  \E p \in places : Key(signals[p]) = Key(signals[i])
  <2> DEFINE same == {j \in 1..Len(signals) : Key(signals[j]) = Key(signals[i])}
  <2>1. PICK p \in same : \A j \in same : p <= j
    <3>1. same \in SUBSET Nat /\ i \in same
      OBVIOUS
    <3> HIDE DEF same
    <3> QED
      BY <3>1, LeastNumber
  <2>2. ASSUME NEW j \in 1..(p - 1) PROVE Key(signals[j]) # Key(signals[p])
    <3>1. j \in 1..Len(signals) /\ ~(p <= j)
      BY <1>1, <2>1
    <3> QED
      BY <2>1, <3>1
  <2>3. p \in places
    BY <1>1, <2>2
  <2> QED
    BY <2>1, <2>3
<1> HIDE DEF places, found, order
<1>5. found \in Seq(X)
  BY <1>2, <1>3, KeepIs
<1>6. \A n \in 1..Len(found) : order[n] \in places /\ found[n] = signals[order[n]]
  BY <1>2, <1>3, KeepIs DEF order
<1>7. ASSUME NEW p \in places PROVE \E n \in 1..Len(found) : found[n] = signals[p]
  <2>1. PICK n \in 1..Len(found) : order[n] = p /\ found[n] = signals[p]
    BY <1>2, <1>3, KeepIs, ZenonT(60) DEF order
  <2> QED
    BY <2>1
<1>8. ASSUME NEW n \in 1..Len(found) PROVE \E i \in 1..Len(signals) : found[n] = signals[i]
  <2>1. order[n] \in 1..Len(signals)
    BY <1>1, <1>3, <1>6
  <2> QED
    BY <1>6, <2>1
<1>9. ASSUME NEW i \in 1..Len(signals)
      PROVE  \E n \in 1..Len(found) : Key(found[n]) = Key(signals[i])
  <2>1. PICK p \in places : Key(signals[p]) = Key(signals[i])
    BY <1>4
  <2>2. PICK n \in 1..Len(found) : found[n] = signals[p]
    BY <1>7
  <2> QED
    BY <2>1, <2>2
<1> QED
  BY <1>5, <1>8, <1>9 DEF found, IsDeduplicated

\* What a report said, as long as it is not localized.
IsFoundBy(failure, report) ==
    CASE report.kind = "diagnostic" ->
            /\ failure.category = report.category
            /\ failure.reported = report.path /\ failure.line = report.line
            /\ failure.symbol \in {report.symbol, None}
      [] report.kind = "test" ->
            /\ failure.category \in TestCategories
            /\ \/ /\ failure.reported = None
                  /\ failure.message \in {report.test, report.exception}
               \/ /\ Traced(report) # <<>>
                  /\ failure.reported = NamedFile(Traced(report)[1].class.name)
                  /\ failure.line = Traced(report)[1].line
                  /\ failure.message = Said(report)
      [] OTHER -> FALSE

LEMMA SignalIsFound ==
    ASSUME NEW failure, NEW report, IsSignalOf(failure, report),
           report.kind \in {"diagnostic", "test"}
    PROVE  IsFoundBy(failure, report)
BY DEF IsSignalOf, TellsOf, IsFoundBy

\* A repetition will do.
LEMMA FoundByKey ==
    ASSUME NEW failure, NEW other, NEW report, failure.file = None, other.file = None,
           Key(failure) = Key(other), IsFoundBy(failure, report)
    PROVE  IsFoundBy(other, report)
<1>1. /\ failure.category = other.category /\ failure.reported = other.reported
      /\ failure.line = other.line /\ failure.symbol = other.symbol
      /\ failure.message = other.message
  BY DEF Key
<1> QED
  BY <1>1 DEF IsFoundBy

\* What is found in a stream.
IsParsed(found, reports) ==
    /\ found \in Seq(SignalType)
    /\ \A n \in 1..Len(found) : \E r \in 1..Len(reports) : IsSignalOf(found[n], reports[r])
    /\ \A r \in 1..Len(reports) :
          reports[r].kind \in {"diagnostic", "test"} =>
              \E n \in 1..Len(found) : IsFoundBy(found[n], reports[r])
    /\ (\E r \in 1..Len(reports) : reports[r].kind = "summary" /\ reports[r].failing)
          => Len(found) >= 1

\* Everything a stream says is found in it, and nothing it does not say.
LEMMA ParseTextIs ==
    ASSUME NEW reports \in Seq(ReportType)
    PROVE  IsParsed(ParseText(Text(reports)), reports)
<1>0. PICK lines : lines = Text(reports)
  OBVIOUS
<1>1. PICK off : IsPrinting(off, lines, reports)
  BY <1>0, TextIsPrinting
<1> DEFINE events == Events(lines)
           order == InOrder(events)
           n == Cardinality(events)
           signals == [m \in DOMAIN order |-> SignalAt(lines, order[m])]
           found == ParseText(lines)
<1>2. lines \in Seq(LineType) /\ DOMAIN lines = 1..Len(lines) /\ Len(lines) \in Nat
  <2>1. lines \in Seq(LineType)
    BY <1>1 DEF IsPrinting
  <2> QED
    BY <2>1, LenProperties
<1>3. events \in SUBSET (1..Len(lines))
  <2>1. SummaryLines(lines) # {} => Min(SummaryLines(lines)) \in SummaryLines(lines)
    <3>1. SummaryLines(lines) \in SUBSET Nat
      BY <1>2 DEF SummaryLines
    <3> QED
      BY <3>1, MinIs
  <2>2. SummaryLines(lines) \subseteq 1..Len(lines)
    BY <1>2 DEF SummaryLines
  <2> QED
    BY <1>2, <2>1, <2>2 DEF Events
<1>4. found = Deduplicate(signals)
  BY DEF ParseText
<1>5. \A i \in events : \E r \in 1..Len(reports) : IsSignalOf(SignalAt(lines, i), reports[r])
  BY <1>1, EventIsOfAReport
<1>6. \A r \in 1..Len(reports) : reports[r].kind \in {"diagnostic", "test"} =>
          \E i \in events : IsSignalOf(SignalAt(lines, i), reports[r])
  BY <1>1, ReportHasItsEvent
<1>7. (\E r \in 1..Len(reports) : reports[r].kind = "summary" /\ reports[r].failing)
         => events # {}
  BY <1>1, SummaryHasAnEvent
<1> HIDE DEF events
<1>8. /\ n \in Nat /\ DOMAIN order = 1..n
      /\ order \in [1..n -> events]
      /\ \A i \in events : \E m \in 1..n : order[m] = i
  BY <1>2, <1>3, InOrderIs
<1> HIDE DEF n, order
<1>9. \A m \in 1..n : signals[m] = SignalAt(lines, order[m]) /\ order[m] \in events
  BY <1>8
<1>10. \A m \in 1..n : signals[m] \in SignalType /\ signals[m].file = None
  <2> HIDE DEF signals
  <2> SUFFICES ASSUME NEW m \in 1..n PROVE signals[m] \in SignalType /\ signals[m].file = None
    OBVIOUS
  <2>1. PICK r \in 1..Len(reports) : IsSignalOf(signals[m], reports[r])
    BY <1>5, <1>9
  <2> QED
    BY <2>1 DEF IsSignalOf
<1>11. signals \in Seq(SignalType) /\ Len(signals) = n
  <2>1. signals = [m \in 1..n |-> signals[m]]
    BY <1>8
  <2> HIDE DEF signals
  <2> QED
    BY <1>8, <1>10, <2>1, SMTT(30)
<1> HIDE DEF signals, found
<1>12. found \in Seq(SignalType) /\ IsDeduplicated(found, signals)
  BY <1>4, <1>11, DeduplicateIs
<1>13. ASSUME NEW m \in 1..Len(found)
       PROVE  found[m].file = None /\ \E r \in 1..Len(reports) : IsSignalOf(found[m], reports[r])
  <2>1. PICK k \in 1..n : found[m] = signals[k]
    BY <1>11, <1>12 DEF IsDeduplicated
  <2> QED
    BY <1>5, <1>9, <1>10, <2>1
<1>14. ASSUME NEW r \in 1..Len(reports), reports[r].kind \in {"diagnostic", "test"}
       PROVE  \E m \in 1..Len(found) : IsFoundBy(found[m], reports[r])
  <2>1. PICK i \in events : IsSignalOf(SignalAt(lines, i), reports[r])
    BY <1>6, <1>14
  <2>2. PICK k \in 1..n : order[k] = i
    BY <1>8
  <2>3. IsFoundBy(signals[k], reports[r])
    BY <1>9, <1>14, <2>1, <2>2, SignalIsFound
  <2>4. PICK m \in 1..Len(found) : Key(found[m]) = Key(signals[k])
    BY <1>11, <1>12 DEF IsDeduplicated
  <2>5. IsFoundBy(found[m], reports[r])
    BY <1>10, <1>13, <2>3, <2>4, FoundByKey
  <2> QED
    BY <2>5
<1>15. ASSUME NEW r \in 1..Len(reports), reports[r].kind = "summary", reports[r].failing
       PROVE  Len(found) >= 1
  <2>1. PICK i : i \in events
    BY <1>7, <1>15
  <2>2. PICK k \in 1..n : order[k] = i
    BY <1>8, <2>1
  <2>3. PICK m \in 1..Len(found) : Key(found[m]) = Key(signals[k])
    BY <1>11, <1>12 DEF IsDeduplicated
  <2>4. Len(found) \in Nat
    BY <1>12, LenProperties
  <2> QED
    BY <2>3, <2>4
<1>16. IsParsed(found, reports)
  BY <1>12, <1>13, <1>14, <1>15 DEF IsParsed
<1> QED
  BY <1>0, <1>16 DEF found

-----------------------------------------------------------------------------
(* Where a failure is placed.                                              *)

\* Unique is the only one there is.
LEMMA UniqueIs ==
    ASSUME NEW W \in Workspaces, NEW candidates \in SUBSET W
    PROVE  /\ Unique(candidates) \in W \union {None}
           /\ Unique(candidates) # None => \A f \in candidates : Unique(candidates) = f
<1>1. IsFiniteSet(candidates)
  BY StreamsAssumption, FS_Subset
<1>2. CASE Cardinality(candidates) = 1
  <2>1. PICK x : candidates = {x}
    BY <1>1, <1>2, FS_Singleton
  <2>2. Unique(candidates) = x
    BY <1>2, <2>1 DEF Unique
  <2> QED
    BY <2>1, <2>2
<1>3. CASE Cardinality(candidates) # 1
  BY <1>3 DEF Unique
<1> QED
  BY <1>2, <1>3

LEMMA PlacesAreInTheWorkspace ==
    ASSUME workspace \in Workspaces
    PROVE  /\ \A reported : LocalizeReported(reported) \in workspace \union {None}
           /\ \A frame : LocalizeFrame(frame) \in workspace \union {None}
<1>1. \A name : FindUniqueName(name) \in workspace \union {None}
  BY UniqueIs DEF FindUniqueName
<1>2. \A suffix : FindUniqueSuffix(suffix) \in workspace \union {None}
  BY UniqueIs DEF FindUniqueSuffix
<1>3. \A reported : LocalizeReported(reported) \in workspace \union {None}
  BY <1>1, <1>2 DEF LocalizeReported
<1>4. ASSUME NEW frame PROVE LocalizeFrame(frame) \in workspace \union {None}
  <2> DEFINE exact == Unique({f \in workspace : /\ f.module = "top"
                                                /\ f.package = frame.class.package
                                                /\ f.name = frame.class.name})
  <2>1. exact \in workspace \union {None}
    BY UniqueIs
  <2>2. LocalizeFrame(frame) = IF exact # None THEN exact
                               ELSE IF frame.class.package = None THEN FindUniqueName(frame.class.name)
                               ELSE None
    BY DEF LocalizeFrame
  <2> HIDE DEF exact
  <2> QED
    BY <1>1, <2>1, <2>2
<1> QED
  BY <1>3, <1>4

\* How a failure is localized, if at all.
LEMMA LocalizeIs ==
    ASSUME workspace \in Workspaces, NEW failure \in SignalType, failure.file = None
    PROVE  LET placed == Localize(failure)
           IN  /\ placed \in SignalType /\ placed.file \in workspace \union {None}
               /\ placed.category = failure.category /\ placed.symbol = failure.symbol
               /\ placed.message = failure.message /\ placed.frames = failure.frames
               /\ \/ /\ placed.reported = failure.reported /\ placed.line = failure.line
                     /\ placed.file # None => /\ failure.reported # None
                                              /\ placed.file = LocalizeReported(failure.reported)
                  \/ \E n \in DOMAIN failure.frames :
                        /\ placed.line = failure.frames[n].line
                        /\ placed.reported = NamedFile(failure.frames[n].class.name)
                        /\ placed.reported \in ReferenceType
<1> DEFINE direct == IF failure.reported = None THEN None ELSE LocalizeReported(failure.reported)
           found == {i \in DOMAIN failure.frames : LocalizeFrame(failure.frames[i]) # None}
           frame == failure.frames[Min(found)]
           placed == Localize(failure)
<1>1. /\ failure.category \in Categories /\ failure.reported \in ReferenceType \union {None}
      /\ failure.line \in Nat \union {None} /\ failure.symbol \in Words \union {None}
      /\ failure.message \in Words \union CompilerCategories \union {"summary"}
      /\ failure.frames \in Seq(FrameType)
      /\ failure = [category |-> failure.category, file |-> failure.file,
                    reported |-> failure.reported, line |-> failure.line,
                    symbol |-> failure.symbol, message |-> failure.message,
                    frames |-> failure.frames]
  BY DEF SignalType
<1>2. placed = IF direct # None THEN [failure EXCEPT !.file = direct]
               ELSE IF found = {} THEN [failure EXCEPT !.file = None]
               ELSE [failure EXCEPT !.file = LocalizeFrame(frame), !.line = frame.line,
                                    !.reported = NamedFile(frame.class.name)]
  BY DEF Localize
<1>3. /\ direct \in workspace \union {None} /\ LocalizeFrame(frame) \in workspace \union {None}
      /\ workspace \subseteq SourceFiles
  BY PlacesAreInTheWorkspace, StreamsAssumption
<1>4. direct # None => failure.reported # None /\ direct = LocalizeReported(failure.reported)
  OBVIOUS
<1>5. found # {} => /\ Min(found) \in DOMAIN failure.frames
                    /\ frame \in FrameType
  <2> SUFFICES ASSUME found # {}
               PROVE  Min(found) \in DOMAIN failure.frames /\ frame \in FrameType
    OBVIOUS
  <2>1. DOMAIN failure.frames = 1..Len(failure.frames)
    BY <1>1, LenProperties
  <2>2. Min(found) \in found
    <3>1. found \in SUBSET Nat
      BY <2>1
    <3> HIDE DEF found
    <3> QED
      BY <3>1, MinIs
  <2>3. Min(found) \in DOMAIN failure.frames
    BY <2>2
  <2> QED
    BY <1>1, <2>1, <2>3, ElementOfSeq
<1> HIDE DEF direct, found, placed
<1>6. CASE direct # None
  <2>1. placed = [category |-> failure.category, file |-> direct,
                  reported |-> failure.reported, line |-> failure.line,
                  symbol |-> failure.symbol, message |-> failure.message,
                  frames |-> failure.frames]
    BY <1>1, <1>2, <1>6
  <2>2. placed \in SignalType
    BY <1>1, <1>3, <2>1 DEF SignalType
  <2> QED
    BY <1>3, <1>4, <1>6, <2>1, <2>2 DEF placed
<1>7. CASE direct = None /\ found = {}
  <2>1. placed = [category |-> failure.category, file |-> None,
                  reported |-> failure.reported, line |-> failure.line,
                  symbol |-> failure.symbol, message |-> failure.message,
                  frames |-> failure.frames]
    BY <1>1, <1>2, <1>7
  <2>2. placed \in SignalType
    BY <1>1, <1>3, <2>1 DEF SignalType
  <2> QED
    BY <2>1, <2>2 DEF placed
<1>8. CASE direct = None /\ found # {}
  <2>1. PICK n \in DOMAIN failure.frames : n = Min(found)
    BY <1>5, <1>8
  <2>2. frame = failure.frames[n] /\ frame \in FrameType
    BY <1>5, <1>8, <2>1
  <2> DEFINE file == LocalizeFrame(frame)
             reported == NamedFile(frame.class.name)
             line == frame.line
  <2>3. line \in Nat /\ frame.class \in Classes
    BY <2>2 DEF FrameType
  <2>4. reported \in ReferenceType
    BY <2>3 DEF ReferenceType
  <2>5. placed = [failure EXCEPT !.file = file, !.line = line, !.reported = reported]
    BY <1>2, <1>8
  <2>6. line = failure.frames[n].line /\ reported = NamedFile(failure.frames[n].class.name)
    BY <2>2
  <2>7. file \in workspace \union {None}
    BY <1>3
  <2> HIDE DEF file, reported, line
  <2>8. placed = [category |-> failure.category, file |-> file,
                  reported |-> reported, line |-> line,
                  symbol |-> failure.symbol, message |-> failure.message,
                  frames |-> failure.frames]
    BY <1>1, <2>5
  <2>9. placed \in SignalType
    BY <1>1, <1>3, <2>3, <2>4, <2>7, <2>8 DEF SignalType, line
  <2>10. /\ placed.line = failure.frames[n].line /\ placed.reported \in ReferenceType
         /\ placed.reported = NamedFile(failure.frames[n].class.name)
    BY <2>4, <2>6, <2>8
  <2> QED
    BY <2>7, <2>8, <2>9, <2>10 DEF placed
<1> QED
  BY <1>6, <1>7, <1>8

\* LocalizeReported among some files.
PlaceIn(files, reported) ==
    IF reported.from = "name" THEN Unique({f \in files : f.module = "top" /\ f.name = reported.name})
    ELSE IF reported.from = "here" /\ reported.path \in files THEN reported.path
    ELSE Unique({f \in files : /\ f.root = reported.path.root
                               /\ f.package = reported.path.package
                               /\ f.name = reported.path.name})

LEMMA PlaceInIs == \A reported : LocalizeReported(reported) = PlaceIn(workspace, reported)
BY DEF LocalizeReported, PlaceIn, FindUniqueName, FindUniqueSuffix

\* What a test said is known among some reports.
IsSaid(reports, failure, report) ==
    /\ failure.category \in TestCategories
    /\ \E other \in reports :
          /\ SameThrow(report, other) /\ failure.message = Said(other)
          /\ \E n \in DOMAIN Traced(other) : Traced(other)[n].line = failure.line

\* The failure a report is found by once it was localized.
IsPlaced(files, failure, report) ==
    /\ TellsOf(failure, report)
    /\ failure.reported = None => failure.frames = <<>>
    /\ failure.category \in CompilerCategories =>
          /\ report.kind = "diagnostic"
          /\ failure.file # None => failure.file = PlaceIn(files, failure.reported)

\* What a report said, once it was localized.
IsKnownBy(files, reports, failure, report) ==
    CASE report.kind = "diagnostic" ->
            /\ failure.category = report.category /\ failure.line = report.line
            /\ failure.symbol \in {report.symbol, None}
            /\ IF failure.file = None THEN failure.reported = report.path
               ELSE failure.file = PlaceIn(files, report.path)
      [] report.kind = "test" ->
            \/ /\ failure.category \in TestCategories
               /\ failure.file = None /\ failure.reported = None
               /\ failure.message \in {report.test, report.exception}
            \/ IsSaid(reports, failure, report)
      [] OTHER -> FALSE

LEMMA TracedIs ==
    ASSUME NEW report \in ReportType, report.kind = "test"
    PROVE  /\ Traced(report) \in Seq(FrameType)
           /\ DOMAIN Traced(report) = 1..Len(Traced(report)) /\ Len(Traced(report)) \in Nat
           /\ Traced(report) # <<>> => 1 \in DOMAIN Traced(report)
<1> DEFINE own == {n \in DOMAIN report.frames : ~Framework(report.frames[n].class)}
<1>1. report.frames \in Seq(FrameType)
  BY DEF ReportType
<1>2. Traced(report) = Keep(report.frames, own)
  BY DEF Traced
<1>3. own \in SUBSET DOMAIN report.frames
  OBVIOUS
<1> HIDE DEF own
<1>4. Traced(report) \in Seq(FrameType)
  BY <1>1, <1>2, <1>3, KeepIs
<1>5. Len(Traced(report)) \in Nat /\ DOMAIN Traced(report) = 1..Len(Traced(report))
  BY <1>4, LenProperties
<1>6. Traced(report) # <<>> => Len(Traced(report)) # 0
  BY <1>4, EmptySeq
<1> QED
  BY <1>4, <1>5, <1>6

\* What is in a prefix is in the whole.
LEMMA PrefixElements ==
    ASSUME NEW X, NEW s \in Seq(X), NEW t \in Seq(X), IsPrefix(s, t), NEW n \in DOMAIN s
    PROVE  n \in DOMAIN t /\ s[n] = t[n]
<1>1. /\ Len(s) \in Nat /\ Len(t) \in Nat
      /\ DOMAIN s = 1..Len(s) /\ DOMAIN t = 1..Len(t)
  BY LenProperties
<1>2. Len(s) <= Len(t) /\ SubSeq(s, 1, Len(s)) = SubSeq(t, 1, Len(s))
  BY DEF IsPrefix
<1>3. SubSeq(s, 1, Len(s)) = s
  BY SubSeqFull
<1>4. \A m \in 1..Len(s) : t[m] \in X
  BY <1>1, <1>2, ElementOfSeq
<1>5. \A m \in 1..(Len(s) - 1 + 1) : SubSeq(t, 1, Len(s))[m] = t[1 + m - 1]
  BY <1>1, <1>4, SubSeqProperties
<1>6. n \in 1..(Len(s) - 1 + 1) /\ 1 + n - 1 = n /\ n \in 1..Len(t)
  BY <1>1, <1>2
<1>7. SubSeq(t, 1, Len(s))[n] = t[n]
  BY <1>5, <1>6
<1> QED
  BY <1>1, <1>2, <1>3, <1>6, <1>7

\* A frame that a failure was placed by is one of its report.
LEMMA LocalizeIsPlaced ==
    ASSUME workspace \in Workspaces, NEW report \in ReportType, NEW failure,
           IsSignalOf(failure, report)
    PROVE  /\ Localize(failure) \in SignalType
           /\ Localize(failure).file \in workspace \union {None}
           /\ Len(Localize(failure).frames) <= MaxStackFrames
           /\ IsPlaced(workspace, Localize(failure), report)
<1>1. PICK placed : placed = Localize(failure)
  OBVIOUS
<1>2. /\ failure \in SignalType /\ failure.file = None
      /\ Len(failure.frames) <= MaxStackFrames
      /\ TellsOf(failure, report)
      /\ failure.category \in CompilerCategories => report.kind = "diagnostic"
      /\ failure.reported = None => failure.frames = <<>>
      /\ report.kind = "diagnostic" => failure.frames = <<>>
  BY DEF IsSignalOf
<1>3. /\ placed \in SignalType /\ placed.file \in workspace \union {None}
      /\ placed.category = failure.category /\ placed.symbol = failure.symbol
      /\ placed.message = failure.message /\ placed.frames = failure.frames
      /\ \/ /\ placed.reported = failure.reported /\ placed.line = failure.line
            /\ placed.file # None => /\ failure.reported # None
                                     /\ placed.file = LocalizeReported(failure.reported)
         \/ \E n \in DOMAIN failure.frames :
               /\ placed.line = failure.frames[n].line
               /\ placed.reported = NamedFile(failure.frames[n].class.name)
               /\ placed.reported \in ReferenceType
  BY <1>1, <1>2, LocalizeIs
<1>4. CASE /\ placed.reported = failure.reported /\ placed.line = failure.line
           /\ placed.file # None => /\ failure.reported # None
                                    /\ placed.file = LocalizeReported(failure.reported)
  <2>1. TellsOf(placed, report)
    BY <1>2, <1>3, <1>4 DEF TellsOf
  <2> QED
    BY <1>1, <1>2, <1>3, <1>4, <2>1, PlaceInIs DEF IsPlaced
<1>5. CASE \E n \in DOMAIN failure.frames :
               /\ placed.line = failure.frames[n].line
               /\ placed.reported = NamedFile(failure.frames[n].class.name)
               /\ placed.reported \in ReferenceType
  <2>1. failure.frames # <<>>
    <3>1. failure.frames \in Seq(FrameType)
      BY <1>2 DEF SignalType
    <3> QED
      BY <1>5, <3>1
  <2>2. report.kind # "diagnostic" /\ failure.category \notin CompilerCategories
    BY <1>2, <2>1
  <2>3. placed.reported # None
    BY <1>5, StreamsAssumption
  <2>4. TellsOf(placed, report)
    BY <1>2, <1>3, <2>2 DEF TellsOf
  <2> QED
    BY <1>1, <1>2, <1>3, <2>2, <2>3, <2>4 DEF IsPlaced
<1> QED
  BY <1>3, <1>4, <1>5

\* What is found is known when it was localized.
LEMMA LocalizeIsKnown ==
    ASSUME workspace \in Workspaces, Reports \subseteq ReportType,
           NEW report \in Reports, NEW failure, IsSignalOf(failure, report),
           NEW other \in ReportType, IsFoundBy(failure, other)
    PROVE  IsKnownBy(workspace, Reports, Localize(failure), other)
<1>1. PICK placed : placed = Localize(failure)
  OBVIOUS
<1>2. /\ failure \in SignalType /\ failure.file = None
      /\ TellsOf(failure, report) /\ report \in ReportType
      /\ failure.category \in CompilerCategories => report.kind = "diagnostic"
      /\ failure.reported = None => failure.frames = <<>>
      /\ report.kind = "diagnostic" => failure.frames = <<>>
      /\ failure.frames \in Seq(FrameType)
  BY DEF IsSignalOf, SignalType
<1>3. /\ placed \in SignalType /\ placed.file \in workspace \union {None}
      /\ placed.category = failure.category /\ placed.symbol = failure.symbol
      /\ placed.message = failure.message /\ placed.frames = failure.frames
      /\ \/ /\ placed.reported = failure.reported /\ placed.line = failure.line
            /\ placed.file # None => /\ failure.reported # None
                                     /\ placed.file = LocalizeReported(failure.reported)
         \/ \E n \in DOMAIN failure.frames :
               /\ placed.line = failure.frames[n].line
               /\ placed.reported = NamedFile(failure.frames[n].class.name)
               /\ placed.reported \in ReferenceType
  BY <1>1, <1>2, LocalizeIs
<1>4. failure.frames = <<>> =>
         /\ placed.reported = failure.reported /\ placed.line = failure.line
         /\ placed.file # None => /\ failure.reported # None
                                  /\ placed.file = LocalizeReported(failure.reported)
  BY <1>3
<1>5. other.kind \in {"diagnostic", "test"}
  BY DEF IsFoundBy
<1>6. CASE other.kind = "diagnostic"
  <2>1. /\ failure.category = other.category /\ failure.reported = other.path
        /\ failure.line = other.line /\ failure.symbol \in {other.symbol, None}
        /\ other.category \in CompilerCategories
    BY <1>6 DEF IsFoundBy, ReportType
  <2>2. failure.frames = <<>>
    BY <1>2, <2>1
  <2> QED
    BY <1>1, <1>3, <1>4, <1>6, <2>1, <2>2, PlaceInIs DEF IsKnownBy
<1>7. CASE other.kind = "test"
  <2>1. failure.category \in TestCategories /\ failure.category \notin CompilerCategories
    <3>1. failure.category \in TestCategories
      BY <1>7 DEF IsFoundBy
    <3> QED
      BY <3>1, CategoriesDiffer
  <2>2. CASE failure.reported = None
    <3>1. failure.message \in {other.test, other.exception}
      BY <1>7, <2>2 DEF IsFoundBy, Said
    <3>2. placed.file = None /\ placed.reported = None
      BY <1>2, <1>4, <2>2
    <3> QED
      BY <1>1, <1>3, <1>7, <2>1, <3>1, <3>2 DEF IsKnownBy
  <2>3. CASE failure.reported # None
    <3>1. /\ Traced(other) # <<>>
          /\ failure.reported = NamedFile(Traced(other)[1].class.name)
          /\ failure.line = Traced(other)[1].line
          /\ failure.message = Said(other)
      BY <1>7, <2>3 DEF IsFoundBy
    <3>2. report.kind = "test"
      <4>1. report.kind # "diagnostic"
        <5>1. ASSUME report.kind = "diagnostic" PROVE FALSE
          <6>1. failure.category = report.category /\ report.category \in CompilerCategories
            BY <1>2, <5>1 DEF TellsOf, ReportType
          <6> QED
            BY <2>1, <6>1
        <5> QED
          BY <5>1
      <4>2. report.kind # "summary"
        BY <2>3 DEF IsSignalOf
      <4>3. report.kind \in {"diagnostic", "test", "summary"}
        BY <1>2 DEF TellsOf
      <4> QED
        BY <4>1, <4>2, <4>3
    <3>3. /\ Traced(report) # <<>>
          /\ failure.message = Said(report)
          /\ failure.reported = NamedFile(Traced(report)[1].class.name)
          /\ failure.line = Traced(report)[1].line
      BY <2>3, <3>2 DEF IsSignalOf
    <3>4. SameThrow(other, report)
      <4>1. Traced(report)[1].class.name = Traced(other)[1].class.name
        <5>1. NamedFile(Traced(report)[1].class.name) = NamedFile(Traced(other)[1].class.name)
          BY <3>1, <3>3
        <5> QED
          BY <5>1 DEF NamedFile
      <4> QED
        BY <1>7, <3>1, <3>2, <3>3, <4>1 DEF SameThrow
    <3>5. \E n \in DOMAIN Traced(report) : Traced(report)[n].line = placed.line
      <4>1. /\ Traced(report) \in Seq(FrameType) /\ 1 \in DOMAIN Traced(report)
        BY <1>2, <3>2, <3>3, TracedIs
      <4>2. IsPrefix(failure.frames, Traced(report))
        BY <1>2, <3>2 DEF TellsOf
      <4>3. CASE placed.line = failure.line
        BY <3>3, <4>1, <4>3
      <4>4. CASE \E n \in DOMAIN failure.frames : placed.line = failure.frames[n].line
        <5>1. PICK n \in DOMAIN failure.frames : placed.line = failure.frames[n].line
          BY <4>4
        <5>2. n \in DOMAIN Traced(report) /\ failure.frames[n] = Traced(report)[n]
          BY <1>2, <4>1, <4>2, PrefixElements
        <5> QED
          BY <5>1, <5>2
      <4> QED
        BY <1>3, <4>3, <4>4
    <3>6. IsSaid(Reports, placed, other)
      BY <1>3, <1>7, <2>1, <3>3, <3>4, <3>5 DEF IsSaid
    <3> QED
      BY <1>1, <1>7, <3>6 DEF IsKnownBy
  <2> QED
    BY <2>2, <2>3
<1> QED
  BY <1>5, <1>6, <1>7

\* The file of a signal is no reference to one: what has the same key is placed
\* in the same file, or refers to the same.
LEMMA SameKeyIs ==
    ASSUME workspace \subseteq SourceFiles,
           NEW failure \in SignalType, failure.file \in workspace \union {None},
           NEW other \in SignalType, other.file \in workspace \union {None},
           Key(failure) = Key(other)
    PROVE  /\ failure.category = other.category /\ failure.line = other.line
           /\ failure.symbol = other.symbol /\ failure.message = other.message
           /\ failure.file = other.file
           /\ failure.file = None => failure.reported = other.reported
<1>1. /\ failure.category = other.category /\ failure.line = other.line
      /\ failure.symbol = other.symbol /\ failure.message = other.message
      /\ (IF failure.file # None THEN failure.file ELSE failure.reported)
           = (IF other.file # None THEN other.file ELSE other.reported)
  BY DEF Key
<1>2. /\ failure.reported \in ReferenceType \union {None}
      /\ other.reported \in ReferenceType \union {None}
  BY DEF SignalType
<1>3. /\ None \notin SourceFiles
      /\ \A f \in SourceFiles : f \notin ReferenceType \union {None}
  BY StreamsAssumption
<1> QED
  BY <1>1, <1>2, <1>3

\* A repetition will do here too.
LEMMA KnownByKey ==
    ASSUME NEW reports, workspace \subseteq SourceFiles,
           NEW failure \in SignalType, failure.file \in workspace \union {None},
           NEW other \in SignalType, other.file \in workspace \union {None},
           Key(failure) = Key(other), NEW report, IsKnownBy(workspace, reports, failure, report)
    PROVE  IsKnownBy(workspace, reports, other, report)
<1>1. /\ failure.category = other.category /\ failure.line = other.line
      /\ failure.symbol = other.symbol /\ failure.message = other.message
      /\ failure.file = other.file
      /\ failure.file = None => failure.reported = other.reported
  BY SameKeyIs
<1>2. CASE report.kind = "diagnostic"
  BY <1>1, <1>2 DEF IsKnownBy
<1>3. CASE report.kind = "test"
  <2>1. IsSaid(reports, failure, report) => IsSaid(reports, other, report)
    BY <1>1 DEF IsSaid
  <2> QED
    BY <1>1, <1>3, <2>1 DEF IsKnownBy
<1> QED
  BY <1>2, <1>3 DEF IsKnownBy

\* What a known report is told by in the end.
LEMMA KnownIsTold ==
    ASSUME NEW failure, NEW teller, NEW report \in ReportType,
           IsPlaced(workspace, failure, teller),
           IsKnownBy(workspace, Reports, failure, report)
    PROVE  TellsOf(failure, report) \/ SameAsAnother(failure, report)
<1>1. CASE report.kind = "diagnostic"
  BY <1>1, PlaceInIs DEF IsKnownBy, TellsOf, SameAsAnother
<1>2. CASE report.kind = "test"
  <2>1. CASE IsSaid(Reports, failure, report)
    BY <1>2, <2>1 DEF IsSaid, SameAsAnother
  <2>2. CASE /\ failure.category \in TestCategories
             /\ failure.file = None /\ failure.reported = None
             /\ failure.message \in {report.test, report.exception}
    <3>1. failure.frames = <<>>
      BY <2>2 DEF IsPlaced
    <3>2. Traced(report) \in Seq(FrameType) /\ Len(Traced(report)) \in Nat
      BY <1>2, TracedIs
    <3>3. IsPrefix(<<>>, Traced(report))
      <4>1. PICK none \in Seq(FrameType) : none = <<>> /\ Len(none) = 0
        <5>1. <<>> \in Seq(FrameType)
          OBVIOUS
        <5>2. Len(<<>>) = 0
          OBVIOUS
        <5> QED
          BY <5>1, <5>2
      <4>2. Len(none) <= Len(Traced(report)) /\ 1..Len(none) = {}
        BY <3>2, <4>1
      <4>3. IsPrefix(none, Traced(report))
        BY <3>2, <4>2, PrefixIs
      <4> QED
        BY <4>1, <4>3
    <3> QED
      BY <1>2, <2>2, <3>1, <3>3 DEF TellsOf
  <2> QED
    BY <1>2, <2>1, <2>2 DEF IsKnownBy
<1> QED
  BY <1>1, <1>2 DEF IsKnownBy

-----------------------------------------------------------------------------
(* The invariant.                                                          *)

\* What a report said is among the failures, of which the first are localized.
IsAmong(files, reports, n, signals, report) ==
    \E i \in 1..Len(signals) :
        IF i < n THEN IsKnownBy(files, reports, signals[i], report)
        ELSE IsFoundBy(signals[i], report)

\* Everything that a stream says is.
IsRead(files, reports, n, signals, stream) ==
    /\ \A r \in 1..Len(stream) :
          stream[r].kind \in {"diagnostic", "test"} => IsAmong(files, reports, n, signals, stream[r])
    /\ (\E r \in 1..Len(stream) : stream[r].kind = "summary" /\ stream[r].failing)
          => Len(signals) >= 1

\* Every failure is what some report said.
AreTold(files, reports, n, signals) ==
    \A i \in 1..Len(signals) : \E report \in reports :
        IF i < n THEN IsPlaced(files, signals[i], report) ELSE IsSignalOf(signals[i], report)

UnreadIsPrinted == \A u \in 1..Len(unread) : \E s \in 1..Len(build) : unread[u] = build[s]

PhasesAreInOrder ==
    /\ next >= 1 => unread = <<>>
    /\ outcome # "FAIL" => failures = <<>> /\ contexts = {}
    /\ status # None /\ outcome = "FAIL" =>
          next = Len(failures) + 1 /\ contexts = ContextsOf(failures)

\* What is no longer unread was found.
StreamsAreRead ==
    \A s \in 1..Len(build) : \/ \E u \in 1..Len(unread) : unread[u] = build[s]
                             \/ IsRead(workspace, Reports, next, failures, build[s])

ParsingInv ==
    /\ FailureTypeOK
    /\ UnreadIsPrinted
    /\ PhasesAreInOrder
    /\ AreTold(workspace, Reports, next, failures)
    /\ StreamsAreRead

LEMMA ReportsAre ==
    ASSUME build \in Seq(Seq(ReportType))
    PROVE  /\ Reports \subseteq ReportType
           /\ \A s \in 1..Len(build) : build[s] \in Seq(ReportType)
           /\ \A s \in 1..Len(build) : \A r \in 1..Len(build[s]) : build[s][r] \in Reports
           /\ \A report \in Reports : \E s \in 1..Len(build) : \E r \in 1..Len(build[s]) :
                 report = build[s][r]
<1>1. DOMAIN build = 1..Len(build) /\ \A s \in 1..Len(build) : build[s] \in Seq(ReportType)
  BY LenProperties, ElementOfSeq
<1>2. \A s \in 1..Len(build) : DOMAIN build[s] = 1..Len(build[s])
  BY <1>1, LenProperties
<1>3. \A s \in 1..Len(build) : \A r \in 1..Len(build[s]) : build[s][r] \in ReportType
  BY <1>1, ElementOfSeq
<1>4. ASSUME NEW s \in 1..Len(build), NEW r \in 1..Len(build[s])
      PROVE  build[s][r] \in Reports
  <2>1. build[s][r] \in {build[s][i] : i \in DOMAIN build[s]}
    BY <1>2
  <2> QED
    BY <1>1, <2>1 DEF Reports
<1>5. \A report \in Reports : \E s \in 1..Len(build) : \E r \in 1..Len(build[s]) :
         report = build[s][r]
  BY <1>1, <1>2 DEF Reports
<1>6. Reports \subseteq ReportType
  BY <1>3, <1>5
<1> QED
  BY <1>1, <1>4, <1>5, <1>6

\* At the start nothing was found and nothing read.
LEMMA ParsingInvInit ==
    ASSUME FailureInit
    PROVE  ParsingInv
<1>1. build \in Seq(Seq(ReportType)) /\ unread = build /\ failures = <<>> /\ next = 0
  BY StreamsAssumption DEF FailureInit
<1>2. <<>> \in Seq(SignalType) /\ Len(<<>>) = 0
  OBVIOUS
<1>3. 1..Len(failures) = {} /\ DOMAIN failures = {}
  BY <1>1, <1>2
<1>4. FailureTypeOK
  <2>1. next \in 0..(Len(failures) + 1)
    BY <1>1, <1>2
  <2> QED
    BY <1>1, <1>2, <1>3, <2>1 DEF FailureInit, FailureTypeOK
<1>5. UnreadIsPrinted
  BY <1>1 DEF UnreadIsPrinted
<1>6. PhasesAreInOrder
  BY <1>1 DEF FailureInit, PhasesAreInOrder
<1>7. AreTold(workspace, Reports, next, failures)
  BY <1>3 DEF AreTold
<1>8. StreamsAreRead
  BY <1>1 DEF StreamsAreRead
<1> QED
  BY <1>4, <1>5, <1>6, <1>7, <1>8 DEF ParsingInv

\* What the parser takes from a stream is added to what it has.
LEMMA ParseStreamKeeps ==
    ASSUME ParsingInv, ParseStream
    PROVE  ParsingInv'
<1>1. PICK stream : stream = Head(unread)
  OBVIOUS
<1>2. PICK found : found = ParseText(Text(stream))
  OBVIOUS
<1>3. /\ unread # <<>> /\ outcome = "FAIL"
      /\ failures' = failures \o found /\ unread' = Tail(unread)
      /\ outcome' = outcome /\ build' = build /\ workspace' = workspace
      /\ next' = next /\ contexts' = contexts /\ status' = status
  BY <1>1, <1>2 DEF ParseStream
<1>4. /\ build \in Seq(Seq(ReportType)) /\ unread \in Seq(Seq(ReportType))
      /\ failures \in Seq(SignalType) /\ next \in 0..(Len(failures) + 1)
      /\ \A i \in DOMAIN failures : /\ failures[i].file \in workspace \union {None}
                                    /\ Len(failures[i].frames) <= MaxStackFrames
  BY DEF ParsingInv, FailureTypeOK
<1>5. Len(failures) \in Nat /\ DOMAIN failures = 1..Len(failures) /\ Len(unread) \in Nat
  BY <1>4, LenProperties
<1>6. next = 0
  BY <1>3, <1>4, <1>5 DEF ParsingInv, PhasesAreInOrder
<1>7. /\ stream \in Seq(ReportType) /\ stream = unread[1] /\ Len(unread) >= 1
      /\ Tail(unread) \in Seq(Seq(ReportType)) /\ Len(Tail(unread)) = Len(unread) - 1
      /\ \A u \in 1..Len(Tail(unread)) : Tail(unread)[u] = unread[u + 1]
  <2>1. /\ Len(Tail(unread)) = Len(unread) - 1 /\ Tail(unread) \in Seq(Seq(ReportType))
        /\ \A u \in 1..Len(Tail(unread)) : Tail(unread)[u] = unread[u + 1]
    BY <1>3, <1>4, HeadTailProperties
  <2>2. Len(unread) >= 1
    BY <1>3, <1>4, <1>5, EmptySeq
  <2>3. stream = unread[1] /\ stream \in Seq(ReportType)
    BY <1>1, <1>3, <1>4, HeadTailProperties
  <2> QED
    BY <2>1, <2>2, <2>3
<1>8. IsParsed(found, stream)
  BY <1>2, <1>7, ParseTextIs
<1>9. /\ found \in Seq(SignalType) /\ Len(found) \in Nat
      /\ \A n \in 1..Len(found) : \E r \in 1..Len(stream) : IsSignalOf(found[n], stream[r])
  <2>1. found \in Seq(SignalType)
    BY <1>8 DEF IsParsed
  <2> QED
    BY <1>8, <2>1, LenProperties DEF IsParsed
<1>10. /\ failures' \in Seq(SignalType) /\ Len(failures') = Len(failures) + Len(found)
       /\ Len(failures') \in Nat /\ DOMAIN failures' = 1..Len(failures')
  BY <1>3, <1>4, <1>9, ConcatProperties, LenProperties
<1>11. \A i \in 1..Len(failures) : i \in 1..Len(failures') /\ failures'[i] = failures[i]
  <2>1. \A i \in 1..(Len(failures) + Len(found)) :
           (failures \o found)[i] = IF i <= Len(failures) THEN failures[i]
                                    ELSE found[i - Len(failures)]
    BY ONLY <1>4, <1>9, ConcatProperties
  <2> QED
    BY <1>3, <1>5, <1>9, <1>10, <2>1
<1>12. \A n \in 1..Len(found) : /\ Len(failures) + n \in 1..Len(failures')
                                /\ failures'[Len(failures) + n] = found[n]
  <2>1. \A i \in 1..(Len(failures) + Len(found)) :
           (failures \o found)[i] = IF i <= Len(failures) THEN failures[i]
                                    ELSE found[i - Len(failures)]
    BY ONLY <1>4, <1>9, ConcatProperties
  <2> SUFFICES ASSUME NEW n \in 1..Len(found)
               PROVE  /\ Len(failures) + n \in 1..Len(failures')
                      /\ failures'[Len(failures) + n] = found[n]
    OBVIOUS
  <2>2. /\ Len(failures) + n \in 1..(Len(failures) + Len(found))
        /\ ~(Len(failures) + n <= Len(failures)) /\ (Len(failures) + n) - Len(failures) = n
    BY <1>5, <1>9
  <2> QED
    BY <1>3, <1>10, <2>1, <2>2
<1>13. \A i \in 1..Len(failures') :
          \/ i \in 1..Len(failures) /\ failures'[i] = failures[i]
          \/ \E n \in 1..Len(found) : failures'[i] = found[n]
  <2> SUFFICES ASSUME NEW i \in 1..Len(failures'), i \notin 1..Len(failures)
               PROVE  \E n \in 1..Len(found) : failures'[i] = found[n]
    BY <1>11
  <2>1. i - Len(failures) \in 1..Len(found) /\ Len(failures) + (i - Len(failures)) = i
    BY <1>5, <1>9, <1>10
  <2> QED
    BY <1>12, <2>1
<1>14. PICK s \in 1..Len(build) : stream = build[s]
  <2>1. 1 \in 1..Len(unread)
    BY <1>5, <1>7
  <2> QED
    BY <1>7, <2>1 DEF ParsingInv, UnreadIsPrinted
<1>15. Reports' = Reports
  BY <1>3 DEF Reports
<1>16. \A r \in 1..Len(stream) : stream[r] \in Reports
  BY <1>4, <1>14, ReportsAre
<1>17. FailureTypeOK'
  <2>1. \A n \in 1..Len(found) : found[n].file = None /\ Len(found[n].frames) <= MaxStackFrames
    BY <1>9 DEF IsSignalOf
  <2>2. \A i \in 1..Len(failures') : /\ failures'[i].file \in workspace \union {None}
                                     /\ Len(failures'[i].frames) <= MaxStackFrames
    BY <1>4, <1>5, <1>13, <2>1
  <2>3. next' \in 0..(Len(failures') + 1)
    BY <1>3, <1>6, <1>10
  <2> QED
    BY <1>3, <1>7, <1>10, <2>2, <2>3 DEF ParsingInv, FailureTypeOK
<1>18. UnreadIsPrinted'
  <2>1. \A u \in 1..Len(Tail(unread)) : u + 1 \in 1..Len(unread) /\ Tail(unread)[u] = unread[u + 1]
    BY <1>5, <1>7
  <2>2. ASSUME NEW u \in 1..Len(Tail(unread))
        PROVE  \E t \in 1..Len(build) : Tail(unread)[u] = build[t]
    BY <2>1 DEF ParsingInv, UnreadIsPrinted
  <2> QED
    BY <1>3, <2>2 DEF UnreadIsPrinted
<1>19. PhasesAreInOrder'
  <2>1. status = None
    BY <1>3, <1>5, <1>6 DEF ParsingInv, PhasesAreInOrder
  <2> QED
    BY <1>3, <1>6, <2>1 DEF PhasesAreInOrder
<1>20. AreTold(workspace, Reports, next, failures)'
  <2> SUFFICES ASSUME NEW i \in 1..Len(failures')
               PROVE  \E report \in Reports : IsSignalOf(failures'[i], report)
    BY <1>3, <1>6, <1>15 DEF AreTold
  <2>1. CASE i \in 1..Len(failures) /\ failures'[i] = failures[i]
    BY <1>6, <2>1 DEF ParsingInv, AreTold
  <2>2. CASE \E n \in 1..Len(found) : failures'[i] = found[n]
    BY <1>9, <1>16, <2>2
  <2> QED
    BY <1>13, <2>1, <2>2
<1>21. IsRead(workspace, Reports, 0, failures', stream)
  <2>1. ASSUME NEW r \in 1..Len(stream), stream[r].kind \in {"diagnostic", "test"}
        PROVE  IsAmong(workspace, Reports, 0, failures', stream[r])
    <3>1. PICK n \in 1..Len(found) : IsFoundBy(found[n], stream[r])
      BY <1>8, <2>1 DEF IsParsed
    <3>2. ~(Len(failures) + n < 0)
      BY <1>5, <1>9
    <3> QED
      BY <1>12, <3>1, <3>2 DEF IsAmong
  <2>2. ASSUME NEW r \in 1..Len(stream), stream[r].kind = "summary", stream[r].failing
        PROVE  Len(failures') >= 1
    <3>1. Len(found) >= 1
      BY <1>8, <2>2 DEF IsParsed
    <3> QED
      BY <1>5, <1>9, <1>10, <3>1
  <2> QED
    BY <2>1, <2>2 DEF IsRead
<1>22. ASSUME NEW t \in 1..Len(build), IsRead(workspace, Reports, 0, failures, build[t])
       PROVE  IsRead(workspace, Reports, 0, failures', build[t])
  <2>1. Len(failures') >= Len(failures)
    BY <1>5, <1>9, <1>10
  <2>2. ASSUME NEW report, IsAmong(workspace, Reports, 0, failures, report)
        PROVE  IsAmong(workspace, Reports, 0, failures', report)
    BY <1>11, <2>2 DEF IsAmong
  <2> QED
    BY <1>5, <1>10, <1>22, <2>1, <2>2 DEF IsRead
<1>23. StreamsAreRead'
  <2> SUFFICES ASSUME NEW t \in 1..Len(build),
                      ~IsRead(workspace, Reports, 0, failures', build[t])
               PROVE  \E u \in 1..Len(Tail(unread)) : Tail(unread)[u] = build[t]
    BY <1>3, <1>6, <1>15 DEF StreamsAreRead
  <2>1. PICK u \in 1..Len(unread) : unread[u] = build[t]
    BY <1>6, <1>22 DEF ParsingInv, StreamsAreRead
  <2>2. u # 1
    BY <1>7, <1>21, <2>1
  <2>3. u - 1 \in 1..Len(Tail(unread)) /\ (u - 1) + 1 = u
    BY <1>5, <1>7, <2>2
  <2> QED
    BY <1>7, <2>1, <2>3
<1> QED
  BY <1>17, <1>18, <1>19, <1>20, <1>23 DEF ParsingInv

\* What the invariant says of the failures.
LEMMA FailuresAre ==
    ASSUME ParsingInv
    PROVE  /\ build \in Seq(Seq(ReportType)) /\ workspace \in Workspaces
           /\ workspace \subseteq SourceFiles
           /\ Reports \subseteq ReportType
           /\ failures \in Seq(SignalType) /\ Len(failures) \in Nat
           /\ DOMAIN failures = 1..Len(failures) /\ next \in Nat
           /\ \A i \in 1..Len(failures) :
                 /\ failures[i] \in SignalType /\ failures[i].file \in workspace \union {None}
                 /\ Len(failures[i].frames) <= MaxStackFrames
<1>1. /\ build \in Seq(Seq(ReportType)) /\ workspace \in Workspaces
      /\ failures \in Seq(SignalType) /\ next \in 0..(Len(failures) + 1)
      /\ \A i \in DOMAIN failures : /\ failures[i].file \in workspace \union {None}
                                    /\ Len(failures[i].frames) <= MaxStackFrames
  BY DEF ParsingInv, FailureTypeOK
<1>2. Len(failures) \in Nat /\ DOMAIN failures = 1..Len(failures)
  BY <1>1, LenProperties
<1>3. \A i \in 1..Len(failures) : failures[i] \in SignalType
  BY <1>1, <1>2, ElementOfSeq
<1>4. Reports \subseteq ReportType
  BY <1>1, ReportsAre
<1>5. workspace \subseteq SourceFiles
  BY <1>1, StreamsAssumption
<1>6. next \in Nat
  BY <1>1, <1>2
<1>7. \A i \in 1..Len(failures) : /\ failures[i].file \in workspace \union {None}
                                  /\ Len(failures[i].frames) <= MaxStackFrames
  BY <1>1, <1>2
<1> QED
  BY <1>1, <1>2, <1>3, <1>4, <1>5, <1>6, <1>7

\* Repetitions are left out before anything is localized.
LEMMA FinishParsingKeeps ==
    ASSUME ParsingInv, FinishParsing
    PROVE  ParsingInv'
<1>1. PICK found : found = Deduplicate(failures)
  OBVIOUS
<1>2. /\ outcome = "FAIL" /\ unread = <<>> /\ next = 0
      /\ failures' = found /\ next' = 1 /\ unread' = unread
      /\ outcome' = outcome /\ build' = build /\ workspace' = workspace
      /\ contexts' = contexts /\ status' = status
  BY <1>1 DEF FinishParsing
<1>3. /\ failures \in Seq(SignalType) /\ Len(failures) \in Nat
      /\ \A i \in 1..Len(failures) :
            /\ failures[i].file \in workspace \union {None}
            /\ Len(failures[i].frames) <= MaxStackFrames
  BY FailuresAre
<1>4. /\ found \in Seq(SignalType) /\ IsDeduplicated(found, failures)
      /\ Len(found) \in Nat /\ DOMAIN found = 1..Len(found)
  <2>1. found \in Seq(SignalType) /\ IsDeduplicated(found, failures)
    BY <1>1, <1>3, DeduplicateIs
  <2> QED
    BY <2>1, LenProperties
<1>5. /\ \A n \in 1..Len(found) : \E i \in 1..Len(failures) : found[n] = failures[i]
      /\ \A i \in 1..Len(failures) : \E n \in 1..Len(found) : Key(found[n]) = Key(failures[i])
  BY <1>4 DEF IsDeduplicated
<1>6. Reports' = Reports
  BY <1>2 DEF Reports
<1>7. /\ \A i \in 1..Len(failures) : ~(i < 0) /\ ~(i < 1)
      /\ \A n \in 1..Len(found) : ~(n < 1)
  BY <1>3, <1>4
<1>8. \A i \in 1..Len(failures) : /\ failures[i].file = None
                                  /\ \E report \in Reports : IsSignalOf(failures[i], report)
  <2> SUFFICES ASSUME NEW i \in 1..Len(failures)
               PROVE  /\ failures[i].file = None
                      /\ \E report \in Reports : IsSignalOf(failures[i], report)
    OBVIOUS
  <2>1. PICK report \in Reports : IsSignalOf(failures[i], report)
    BY <1>2, <1>7 DEF ParsingInv, AreTold
  <2> QED
    BY <2>1 DEF IsSignalOf
<1>9. FailureTypeOK'
  <2>1. \A n \in 1..Len(found) : /\ found[n].file \in workspace \union {None}
                                 /\ Len(found[n].frames) <= MaxStackFrames
    BY <1>3, <1>5
  <2>2. next' \in 0..(Len(found) + 1)
    BY <1>2, <1>4
  <2> QED
    BY <1>2, <1>4, <2>1, <2>2 DEF ParsingInv, FailureTypeOK
<1>10. UnreadIsPrinted'
  BY <1>2 DEF ParsingInv, UnreadIsPrinted
<1>11. PhasesAreInOrder'
  <2>1. status = None
    BY <1>2, <1>3 DEF ParsingInv, PhasesAreInOrder
  <2> QED
    BY <1>2, <2>1 DEF PhasesAreInOrder
<1>12. AreTold(workspace, Reports, next, failures)'
  <2>1. ASSUME NEW n \in 1..Len(found)
        PROVE  \E report \in Reports : IsSignalOf(found[n], report)
    BY <1>5, <1>8
  <2> QED
    BY <1>2, <1>6, <1>7, <2>1 DEF AreTold
<1>13. ASSUME NEW report, IsAmong(workspace, Reports, 0, failures, report)
       PROVE  IsAmong(workspace, Reports, 1, found, report)
  <2>1. PICK i \in 1..Len(failures) : IsFoundBy(failures[i], report)
    BY <1>7, <1>13 DEF IsAmong
  <2>2. PICK n \in 1..Len(found) : Key(found[n]) = Key(failures[i])
    BY <1>5
  <2>3. found[n].file = None /\ failures[i].file = None
    BY <1>5, <1>8
  <2>4. IsFoundBy(found[n], report)
    BY <2>1, <2>2, <2>3, FoundByKey
  <2> QED
    BY <1>7, <2>4 DEF IsAmong
<1>14. Len(failures) >= 1 => Len(found) >= 1
  <2> SUFFICES ASSUME Len(failures) >= 1 PROVE Len(found) >= 1
    OBVIOUS
  <2>1. 1 \in 1..Len(failures)
    BY <1>3
  <2>2. PICK n \in 1..Len(found) : Key(found[n]) = Key(failures[1])
    BY <1>5, <2>1
  <2> QED
    BY <1>4, <2>2
<1>15. StreamsAreRead'
  <2>1. ASSUME NEW s \in 1..Len(build) PROVE IsRead(workspace, Reports, 1, found, build[s])
    <3>1. 1..Len(unread) = {}
      BY <1>2
    <3>2. IsRead(workspace, Reports, 0, failures, build[s])
      BY <1>2, <3>1 DEF ParsingInv, StreamsAreRead
    <3> QED
      BY <1>13, <1>14, <3>2 DEF IsRead
  <2> QED
    BY <1>2, <1>6, <2>1 DEF StreamsAreRead
<1> QED
  BY <1>9, <1>10, <1>11, <1>12, <1>15 DEF ParsingInv

\* One more is placed.
LEMMA LocalizeNextKeeps ==
    ASSUME ParsingInv, LocalizeNext
    PROVE  ParsingInv'
<1>1. PICK placed : placed = Localize(failures[next])
  OBVIOUS
<1>2. /\ next \in DOMAIN failures /\ status = None
      /\ failures' = [failures EXCEPT ![next] = placed] /\ next' = next + 1
      /\ unread' = unread
      /\ outcome' = outcome /\ build' = build /\ workspace' = workspace
      /\ contexts' = contexts /\ status' = status
  BY <1>1 DEF LocalizeNext
<1>3. /\ workspace \in Workspaces /\ workspace \subseteq SourceFiles /\ Reports \subseteq ReportType
      /\ failures \in Seq(SignalType) /\ Len(failures) \in Nat
      /\ DOMAIN failures = 1..Len(failures) /\ next \in Nat
      /\ \A i \in 1..Len(failures) :
            /\ failures[i].file \in workspace \union {None}
            /\ Len(failures[i].frames) <= MaxStackFrames
  BY FailuresAre
<1>4. PICK report \in Reports : IsSignalOf(failures[next], report)
  BY <1>2, <1>3 DEF ParsingInv, AreTold
<1>5. /\ placed \in SignalType /\ placed.file \in workspace \union {None}
      /\ Len(placed.frames) <= MaxStackFrames /\ IsPlaced(workspace, placed, report)
  BY <1>1, <1>3, <1>4, LocalizeIsPlaced
<1>6. /\ failures' \in Seq(SignalType) /\ Len(failures') = Len(failures)
      /\ DOMAIN failures' = 1..Len(failures)
      /\ failures'[next] = placed
      /\ \A i \in 1..Len(failures) : i # next => failures'[i] = failures[i]
  <2>1. failures' \in Seq(SignalType) /\ Len(failures') = Len(failures)
    BY <1>2, <1>3, <1>5, ExceptSeq
  <2> QED
    BY <1>2, <1>3, <2>1, LenProperties
<1>7. Reports' = Reports
  BY <1>2 DEF Reports
<1>8. \A i \in 1..Len(failures) : i < next + 1 <=> i < next \/ i = next
  BY <1>3
<1>9. FailureTypeOK'
  <2>1. \A i \in 1..Len(failures') : /\ failures'[i].file \in workspace \union {None}
                                     /\ Len(failures'[i].frames) <= MaxStackFrames
    BY <1>3, <1>5, <1>6
  <2>2. next' \in 0..(Len(failures') + 1)
    BY <1>2, <1>3, <1>6
  <2> QED
    BY <1>2, <1>6, <2>1, <2>2 DEF ParsingInv, FailureTypeOK
<1>10. UnreadIsPrinted'
  BY <1>2 DEF ParsingInv, UnreadIsPrinted
<1>11. PhasesAreInOrder'
  <2>1. failures # <<>> /\ next >= 1 /\ next + 1 >= 1
    BY <1>2, <1>3
  <2>2. outcome = "FAIL" /\ unread = <<>>
    BY <2>1 DEF ParsingInv, PhasesAreInOrder
  <2> QED
    BY <1>2, <2>2 DEF PhasesAreInOrder
<1>12. AreTold(workspace, Reports, next, failures)'
  <2> SUFFICES ASSUME NEW i \in 1..Len(failures)
               PROVE  \E teller \in Reports :
                         IF i < next + 1 THEN IsPlaced(workspace, failures'[i], teller)
                         ELSE IsSignalOf(failures'[i], teller)
    BY <1>2, <1>6, <1>7 DEF AreTold
  <2>1. CASE i = next
    BY <1>5, <1>6, <1>8, <2>1
  <2>2. CASE i # next
    <3>1. PICK teller \in Reports :
             IF i < next THEN IsPlaced(workspace, failures[i], teller)
             ELSE IsSignalOf(failures[i], teller)
      BY DEF ParsingInv, AreTold
    <3> QED
      BY <1>6, <1>8, <2>2, <3>1
  <2> QED
    BY <2>1, <2>2
<1>13. ASSUME NEW told \in ReportType, IsAmong(workspace, Reports, next, failures, told)
       PROVE  IsAmong(workspace, Reports, next + 1, failures', told)
  <2>1. PICK i \in 1..Len(failures) :
           IF i < next THEN IsKnownBy(workspace, Reports, failures[i], told)
           ELSE IsFoundBy(failures[i], told)
    BY <1>13 DEF IsAmong
  <2>2. CASE i = next
    <3>1. IsFoundBy(failures[next], told)
      BY <1>3, <2>1, <2>2
    <3>2. IsKnownBy(workspace, Reports, placed, told)
      BY <1>1, <1>3, <1>4, <3>1, LocalizeIsKnown
    <3> QED
      BY <1>6, <1>8, <2>2, <3>2 DEF IsAmong
  <2>3. CASE i # next
    <3>1. failures'[i] = failures[i] /\ (i < next + 1 <=> i < next)
      BY <1>6, <1>8, <2>3
    <3> QED
      BY <1>6, <2>1, <3>1 DEF IsAmong
  <2> QED
    BY <2>2, <2>3
<1>14. StreamsAreRead'
  <2> SUFFICES ASSUME NEW s \in 1..Len(build), ~\E u \in 1..Len(unread) : unread[u] = build[s]
               PROVE  IsRead(workspace, Reports, next + 1, failures', build[s])
    BY <1>2, <1>7 DEF StreamsAreRead
  <2>1. IsRead(workspace, Reports, next, failures, build[s])
    BY DEF ParsingInv, StreamsAreRead
  <2>2. build[s] \in Seq(ReportType)
    BY FailuresAre, ReportsAre
  <2>3. \A r \in 1..Len(build[s]) : build[s][r] \in ReportType
    BY <2>2, LenProperties, ElementOfSeq
  <2> QED
    BY <1>6, <1>13, <2>1, <2>3 DEF IsRead
<1> QED
  BY <1>9, <1>10, <1>11, <1>12, <1>14 DEF ParsingInv

\* A window is in a file, at a line.
LEMMA ContextsAre ==
    ASSUME NEW signals \in Seq(SignalType), NEW W \in SUBSET SourceFiles,
           \A i \in 1..Len(signals) : signals[i].file \in W \union {None}
    PROVE  ContextsOf(signals) \subseteq SourceFiles \X Nat
<1>1. DOMAIN signals = 1..Len(signals)
  BY LenProperties
<1>2. ASSUME NEW i \in DOMAIN signals, HasContext(signals[i])
      PROVE  Focus(signals[i]) \in SourceFiles \X Nat
  <2>1. signals[i] \in SignalType
    BY <1>1, ElementOfSeq
  <2>2. signals[i].line \in Nat \union {None} /\ signals[i].line # None
    BY <1>2, <2>1 DEF SignalType, HasContext
  <2>3. signals[i].file \in SourceFiles
    BY <1>1, <1>2 DEF HasContext
  <2> QED
    BY <2>2, <2>3 DEF Focus
<1> QED
  BY <1>2 DEF ContextsOf

\* Repetitions are left out again, now by place.
LEMMA ConcludeKeeps ==
    ASSUME ParsingInv, Conclude
    PROVE  ParsingInv'
<1>1. PICK found : found = Deduplicate(failures)
  OBVIOUS
<1>2. /\ outcome = "FAIL" /\ next = Len(failures) + 1 /\ status = None
      /\ failures' = found /\ next' = Len(found) + 1 /\ unread' = unread
      /\ contexts' = ContextsOf(found) /\ status' = ClassifyFailures(found)
      /\ outcome' = outcome /\ build' = build /\ workspace' = workspace
  BY <1>1 DEF Conclude
<1>3. /\ workspace \subseteq SourceFiles
      /\ failures \in Seq(SignalType) /\ Len(failures) \in Nat
      /\ \A i \in 1..Len(failures) :
            /\ failures[i] \in SignalType /\ failures[i].file \in workspace \union {None}
            /\ Len(failures[i].frames) <= MaxStackFrames
  BY FailuresAre
<1>4. /\ found \in Seq(SignalType) /\ IsDeduplicated(found, failures)
      /\ Len(found) \in Nat /\ DOMAIN found = 1..Len(found)
  <2>1. found \in Seq(SignalType) /\ IsDeduplicated(found, failures)
    BY <1>1, <1>3, DeduplicateIs
  <2> QED
    BY <2>1, LenProperties
<1>5. /\ \A n \in 1..Len(found) : \E i \in 1..Len(failures) : found[n] = failures[i]
      /\ \A i \in 1..Len(failures) : \E n \in 1..Len(found) : Key(found[n]) = Key(failures[i])
  BY <1>4 DEF IsDeduplicated
<1>6. Reports' = Reports
  BY <1>2 DEF Reports
<1>7. /\ \A i \in 1..Len(failures) : i < next
      /\ \A n \in 1..Len(found) : n < Len(found) + 1
  BY <1>2, <1>3, <1>4
<1>8. \A n \in 1..Len(found) : /\ found[n] \in SignalType
                               /\ found[n].file \in workspace \union {None}
                               /\ Len(found[n].frames) <= MaxStackFrames
  BY <1>3, <1>5
<1>9. unread = <<>>
  <2>1. next >= 1
    BY <1>2, <1>3
  <2> QED
    BY <2>1 DEF ParsingInv, PhasesAreInOrder
<1>10. FailureTypeOK'
  <2>1. next' \in 0..(Len(found) + 1)
    BY <1>2, <1>4
  <2>2. contexts' \subseteq SourceFiles \X Nat
    BY <1>2, <1>3, <1>4, <1>8, ContextsAre
  <2>3. status' \in {"FAILURES_LOCALIZED", "FAILURES_PARSED_PARTIALLY", "FAILURE_UNLOCALIZED"}
    BY <1>2 DEF ClassifyFailures
  <2> QED
    BY <1>2, <1>4, <1>8, <2>1, <2>2, <2>3 DEF ParsingInv, FailureTypeOK
<1>11. UnreadIsPrinted'
  BY <1>2 DEF ParsingInv, UnreadIsPrinted
<1>12. PhasesAreInOrder'
  BY <1>2, <1>9 DEF PhasesAreInOrder
<1>13. AreTold(workspace, Reports, next, failures)'
  <2>1. ASSUME NEW n \in 1..Len(found)
        PROVE  \E report \in Reports : IsPlaced(workspace, found[n], report)
    BY <1>5, <1>7 DEF ParsingInv, AreTold
  <2> QED
    BY <1>2, <1>6, <1>7, <2>1 DEF AreTold
<1>14. ASSUME NEW report, IsAmong(workspace, Reports, next, failures, report)
       PROVE  IsAmong(workspace, Reports, Len(found) + 1, found, report)
  <2>1. PICK i \in 1..Len(failures) : IsKnownBy(workspace, Reports, failures[i], report)
    BY <1>7, <1>14 DEF IsAmong
  <2>2. PICK n \in 1..Len(found) : Key(found[n]) = Key(failures[i])
    BY <1>5
  <2>3. IsKnownBy(workspace, Reports, found[n], report)
    BY <1>3, <1>8, <2>1, <2>2, KnownByKey
  <2> QED
    BY <1>7, <2>3 DEF IsAmong
<1>15. Len(failures) >= 1 => Len(found) >= 1
  <2> SUFFICES ASSUME Len(failures) >= 1 PROVE Len(found) >= 1
    OBVIOUS
  <2>1. 1 \in 1..Len(failures)
    BY <1>3
  <2>2. PICK n \in 1..Len(found) : Key(found[n]) = Key(failures[1])
    BY <1>5, <2>1
  <2> QED
    BY <1>4, <2>2
<1>16. StreamsAreRead'
  <2>1. ASSUME NEW s \in 1..Len(build)
        PROVE  IsRead(workspace, Reports, Len(found) + 1, found, build[s])
    <3>1. 1..Len(unread) = {}
      BY <1>9
    <3>2. IsRead(workspace, Reports, next, failures, build[s])
      BY <3>1 DEF ParsingInv, StreamsAreRead
    <3> QED
      BY <1>14, <1>15, <3>2 DEF IsRead
  <2> QED
    BY <1>2, <1>6, <2>1 DEF StreamsAreRead
<1> QED
  BY <1>10, <1>11, <1>12, <1>13, <1>16 DEF ParsingInv

\* A build that did not fail has no failures.
LEMMA NothingToParseKeeps ==
    ASSUME ParsingInv, NothingToParse
    PROVE  ParsingInv'
<1>1. /\ outcome # "FAIL"
      /\ status' = CASE outcome = "PASS" -> "NO_FAILURE"
                     [] outcome = "TIMEOUT" -> "TIMEOUT"
                     [] outcome = "ERROR" -> "EXECUTION_ERROR"
      /\ outcome' = outcome /\ build' = build /\ workspace' = workspace /\ unread' = unread
      /\ failures' = failures /\ next' = next /\ contexts' = contexts
  BY DEF NothingToParse
<1>2. outcome \in {"PASS", "TIMEOUT", "ERROR"}
  BY <1>1 DEF ParsingInv, FailureTypeOK
<1>3. status' \in {"NO_FAILURE", "TIMEOUT", "EXECUTION_ERROR"}
  BY <1>1, <1>2
<1>4. Reports' = Reports
  BY <1>1 DEF Reports
<1>5. FailureTypeOK'
  BY <1>1, <1>3 DEF ParsingInv, FailureTypeOK
<1>6. UnreadIsPrinted' /\ PhasesAreInOrder'
  BY <1>1 DEF ParsingInv, UnreadIsPrinted, PhasesAreInOrder
<1>7. AreTold(workspace, Reports, next, failures)'
  BY <1>1, <1>4 DEF ParsingInv
<1>8. StreamsAreRead'
  BY <1>1, <1>4 DEF ParsingInv, StreamsAreRead
<1> QED
  BY <1>5, <1>6, <1>7, <1>8 DEF ParsingInv

LEMMA ParsingStutters ==
    ASSUME ParsingInv, UNCHANGED failureVars
    PROVE  ParsingInv'
<1>1. /\ outcome' = outcome /\ build' = build /\ workspace' = workspace /\ unread' = unread
      /\ failures' = failures /\ next' = next /\ contexts' = contexts /\ status' = status
  BY DEF failureVars
<1>2. Reports' = Reports
  BY <1>1 DEF Reports
<1>3. FailureTypeOK'
  BY <1>1 DEF ParsingInv, FailureTypeOK
<1>4. UnreadIsPrinted' /\ PhasesAreInOrder'
  BY <1>1 DEF ParsingInv, UnreadIsPrinted, PhasesAreInOrder
<1>5. AreTold(workspace, Reports, next, failures)'
  BY <1>1, <1>2 DEF ParsingInv
<1>6. StreamsAreRead'
  BY <1>1, <1>2 DEF ParsingInv, StreamsAreRead
<1> QED
  BY <1>3, <1>4, <1>5, <1>6 DEF ParsingInv

\* The invariant holds of every analysis, whatever was printed.
THEOREM ParsingInvariant == FailureSpec => []ParsingInv
<1>1. FailureInit => ParsingInv
  BY ParsingInvInit
<1>2. ParsingInv /\ [FailureNext]_failureVars => ParsingInv'
  <2> SUFFICES ASSUME ParsingInv, [FailureNext]_failureVars
               PROVE  ParsingInv'
    OBVIOUS
  <2>1. CASE NothingToParse
    BY <2>1, NothingToParseKeeps
  <2>2. CASE ParseStream
    BY <2>2, ParseStreamKeeps
  <2>3. CASE FinishParsing
    BY <2>3, FinishParsingKeeps
  <2>4. CASE LocalizeNext
    BY <2>4, LocalizeNextKeeps
  <2>5. CASE Conclude
    BY <2>5, ConcludeKeeps
  <2>6. CASE UNCHANGED failureVars
    BY <2>6, ParsingStutters
  <2> QED
    BY <2>1, <2>2, <2>3, <2>4, <2>5, <2>6 DEF FailureNext
<1> QED
  BY <1>1, <1>2, PTL DEF FailureSpec

\* Every variable has its type: what is parsed and localized is a FailureSignal
\* with at most _MAX_STACK_FRAMES frames, in a file of the workspace if in any.
THEOREM FailureTypeCorrect == FailureSpec => []FailureTypeOK
<1>1. ParsingInv => FailureTypeOK
  BY DEF ParsingInv
<1> QED
  BY <1>1, ParsingInvariant, PTL

\* Whatever the build printed, and wherever its blocks were cut off, no failure
\* has the symbol, the exception or a frame of another report.
THEOREM NothingIsMixedUp == FailureSpec => []FailuresAreNotMixedUp
<1>1. ParsingInv => FailuresAreNotMixedUp
  <2> SUFFICES ASSUME ParsingInv, NEW i \in DOMAIN failures
               PROVE  \E report \in Reports : TellsOf(failures[i], report)
    BY DEF FailuresAreNotMixedUp
  <2>1. i \in 1..Len(failures)
    BY FailuresAre
  <2>2. PICK report \in Reports :
           IF i < next THEN IsPlaced(workspace, failures[i], report)
           ELSE IsSignalOf(failures[i], report)
    BY <2>1 DEF ParsingInv, AreTold
  <2>3. TellsOf(failures[i], report)
    BY <2>2 DEF IsPlaced, IsSignalOf
  <2> QED
    BY <2>3
<1> QED
  BY <1>1, ParsingInvariant, PTL

\* Two passes that leave out repetitions, and a place that changes what counts
\* as one between them, lose no error and no failing test.
THEOREM NoReportIsLost == FailureSpec => []EveryReportIsFound
<1>1. ParsingInv => EveryReportIsFound
  <2> SUFFICES ASSUME ParsingInv, status # None, outcome = "FAIL"
               PROVE  /\ \A report \in Reports :
                            report.kind \in {"diagnostic", "test"} =>
                                \E i \in DOMAIN failures :
                                   \/ TellsOf(failures[i], report)
                                   \/ SameAsAnother(failures[i], report)
                      /\ (\E report \in Reports : report.kind = "summary" /\ report.failing)
                            => failures # <<>>
    BY DEF EveryReportIsFound
  <2>1. /\ build \in Seq(Seq(ReportType)) /\ Reports \subseteq ReportType
        /\ DOMAIN failures = 1..Len(failures) /\ Len(failures) \in Nat
    BY FailuresAre
  <2>2. next = Len(failures) + 1 /\ unread = <<>>
    <3>1. next = Len(failures) + 1
      BY DEF ParsingInv, PhasesAreInOrder
    <3>2. next >= 1
      BY <2>1, <3>1
    <3> QED
      BY <3>1, <3>2 DEF ParsingInv, PhasesAreInOrder
  <2>3. \A s \in 1..Len(build) : IsRead(workspace, Reports, next, failures, build[s])
    <3>1. 1..Len(unread) = {}
      BY <2>2
    <3> QED
      BY <3>1 DEF ParsingInv, StreamsAreRead
  <2>4. \A i \in 1..Len(failures) : i < next
    BY <2>1, <2>2
  <2>5. ASSUME NEW report \in Reports, report.kind \in {"diagnostic", "test"}
        PROVE  \E i \in DOMAIN failures :
                  TellsOf(failures[i], report) \/ SameAsAnother(failures[i], report)
    <3>1. PICK s \in 1..Len(build) : \E r \in 1..Len(build[s]) : report = build[s][r]
      BY <2>1, ReportsAre
    <3>2. IsAmong(workspace, Reports, next, failures, report)
      BY <2>3, <2>5, <3>1 DEF IsRead
    <3>3. PICK i \in 1..Len(failures) : IsKnownBy(workspace, Reports, failures[i], report)
      BY <2>4, <3>2 DEF IsAmong
    <3>4. PICK teller \in Reports : IsPlaced(workspace, failures[i], teller)
      BY <2>4 DEF ParsingInv, AreTold
    <3>5. TellsOf(failures[i], report) \/ SameAsAnother(failures[i], report)
      BY <2>1, <3>3, <3>4, KnownIsTold
    <3> QED
      BY <2>1, <3>5
  <2>6. ASSUME NEW report \in Reports, report.kind = "summary", report.failing
        PROVE  failures # <<>>
    <3>1. PICK s \in 1..Len(build) : \E r \in 1..Len(build[s]) : report = build[s][r]
      BY <2>1, ReportsAre
    <3>2. Len(failures) >= 1
      BY <2>3, <2>6, <3>1 DEF IsRead
    <3>3. Len(<<>>) = 0
      OBVIOUS
    <3> QED
      BY <3>2, <3>3
  <2> QED
    BY <2>5, <2>6
<1> QED
  BY <1>1, ParsingInvariant, PTL

\* An error is placed where the compiler reported it or in the only file it can
\* be, and what has a line that there is can be looked at by its place.
THEOREM PlacesCanBeReliedOn == FailureSpec => []PlacesAreSound
<1>1. ParsingInv => PlacesAreCertain
  <2> SUFFICES ASSUME ParsingInv, NEW i \in DOMAIN failures,
                      failures[i].file # None, failures[i].category \in CompilerCategories,
                      NEW reported, reported = failures[i].reported
               PROVE  IF reported.path \in workspace /\ reported.from = "here"
                      THEN failures[i].file = reported.path
                      ELSE \A f \in workspace :
                              /\ f.root = reported.path.root
                              /\ f.package = reported.path.package
                              /\ f.name = reported.path.name
                              => failures[i].file = f
    BY DEF PlacesAreCertain
  <2>1. /\ i \in 1..Len(failures) /\ workspace \in Workspaces
        /\ Reports \subseteq ReportType
    BY FailuresAre
  <2>2. PICK report \in Reports :
           IF i < next THEN IsPlaced(workspace, failures[i], report)
           ELSE IsSignalOf(failures[i], report)
    BY <2>1 DEF ParsingInv, AreTold
  <2>3. IsPlaced(workspace, failures[i], report)
    BY <2>2 DEF IsSignalOf
  <2>4. /\ report.kind = "diagnostic" /\ reported = report.path
        /\ failures[i].file = PlaceIn(workspace, reported)
    BY <2>3 DEF IsPlaced, TellsOf
  <2>5. reported.from # "name"
    BY <2>1, <2>4 DEF ReportType
  <2>6. CASE reported.path \in workspace /\ reported.from = "here"
    BY <2>4, <2>5, <2>6 DEF PlaceIn
  <2>7. CASE ~(reported.path \in workspace /\ reported.from = "here")
    <3> DEFINE candidates == {f \in workspace : /\ f.root = reported.path.root
                                                /\ f.package = reported.path.package
                                                /\ f.name = reported.path.name}
    <3>1. failures[i].file = Unique(candidates)
      BY <2>4, <2>5, <2>7 DEF PlaceIn
    <3>2. candidates \in SUBSET workspace
      OBVIOUS
    <3>3. \A f \in candidates : failures[i].file = f
      <4> HIDE DEF candidates
      <4> QED
        BY <2>1, <3>1, <3>2, UniqueIs
    <3> QED
      BY <2>7, <3>3
  <2> QED
    BY <2>6, <2>7
<1>2. ParsingInv => EveryPlaceHasItsContext
  <2> SUFFICES ASSUME ParsingInv, status # None
               PROVE  /\ \A i \in DOMAIN failures :
                            HasContext(failures[i]) => Focus(failures[i]) \in contexts
                      /\ \A c \in contexts : \E i \in DOMAIN failures : c = Focus(failures[i])
    BY DEF EveryPlaceHasItsContext
  <2>1. CASE outcome = "FAIL"
    <3>1. contexts = ContextsOf(failures)
      BY <2>1 DEF ParsingInv, PhasesAreInOrder
    <3> QED
      BY <3>1 DEF ContextsOf
  <2>2. CASE outcome # "FAIL"
    <3>1. failures = <<>> /\ contexts = {}
      BY <2>2 DEF ParsingInv, PhasesAreInOrder
    <3>2. DOMAIN failures = {}
      BY <3>1
    <3> QED
      BY <3>1, <3>2
  <2> QED
    BY <2>1, <2>2
<1>3. ParsingInv => PlacesAreSound
  BY <1>1, <1>2 DEF PlacesAreSound
<1> QED
  BY <1>3, ParsingInvariant, PTL

==============================================================================
