------------------------- MODULE RepairEngineProofs -------------------------
(***************************************************************************)
(* Theorems about RepairEngine for every number of attempts, every set of  *)
(* patches and trees and every fault class.  First what an attempt has     *)
(* shown when it is judged; then, from there, what carries over from one   *)
(* attempt to the next, what the run directory says, and that the loop     *)
(* implements RepairContract.                                              *)
(***************************************************************************)
EXTENDS RepairEngine, TLAPS

USE DEF Numbers, PlanStatus, ProviderStatus, MigrationStatus, AttemptStatus, NotReached,
        ExecutionStatus, VerificationStatus, ArtifactFiles, Errors, Running, Stopped

\* The dependency validator returns a well-formed result, and one the guard
\* accepts carries the upgraded versions (verifier.py:54-122).
LEMMA ValidateSound ==
    ASSUME NEW tree \in DependencyTree, VersionAssumption
    PROVE  /\ Validate(tree) \in DependencyValidation
           /\ GuardAccepts(Validate(tree)) =>
                /\ Validate(tree).execution = "PASS"
                /\ Validate(tree).resolved_target_version = TargetVersion
                /\ CausalExpected => Validate(tree).resolved_causal_version = CausalVersion
<1>1. FindTarget(tree) \in Versions \union {None}
  <2>1. CASE \E k \in TargetKeys : NodesAmong(tree, TargetKeys) = {k}
    <3> DEFINE K == CHOOSE k \in TargetKeys : NodesAmong(tree, TargetKeys) = {k}
    <3>1. K \in TargetKeys
      BY <2>1
    <3>2. tree.nodes[K] \in Versions \union {None}
      BY <3>1 DEF DependencyTree, VersionAssumption
    <3>3. QED BY <2>1, <3>2 DEF FindTarget
  <2>2. CASE ~\E k \in TargetKeys : NodesAmong(tree, TargetKeys) = {k}
    BY <2>2 DEF FindTarget
  <2>3. QED BY <2>1, <2>2
<1>2. FindCausal(tree) \in Versions \union {None}
  BY DEF FindCausal, DependencyTree, VersionAssumption
<1>3. tree.execution \in ExecutionStatus
  BY DEF DependencyTree
<1>4. QED
  BY <1>1, <1>2, <1>3 DEF Validate, DependencyValidation, GuardAccepts, VersionAssumption

LEMMA BlankAttemptType ==
    ASSUME NEW n \in Numbers, NEW used \in Feedback, EngineAssumption
    PROVE  BlankAttempt(n, used) \in RepairAttempt
BY DEF BlankAttempt, RepairAttempt, Feedback, NoFeedback, EngineAssumption

LEMMA SettledType ==
    ASSUME NEW c \in RepairAttempt, NEW s \in AttemptStatus, number \in Numbers
    PROVE  Settled(c, s) \in RepairAttempt /\ Settled(c, s).status = s
<1> DEFINE about == [number |-> number, status |-> s]
<1>1. about \in Feedback
  BY DEF Feedback
<1>2. about \in Feedback => [c EXCEPT !.status = s, !.feedback = about] \in RepairAttempt
  <2> HIDE DEF about
  <2>1. QED BY DEF RepairAttempt
<1>3. [c EXCEPT !.status = s, !.feedback = about].status = s
  BY DEF RepairAttempt
<1>4. QED BY <1>1, <1>2, <1>3 DEF Settled

LEMMA VerifiedType ==
    ASSUME NEW c \in RepairAttempt
    PROVE  /\ [c EXCEPT !.status = "VERIFIED"] \in RepairAttempt
           /\ [c EXCEPT !.status = "VERIFIED"].status = "VERIFIED"
BY DEF RepairAttempt

LEMMA ProposedType ==
    ASSUME NEW c \in RepairAttempt, NEW s \in ProviderStatus, NEW p \in Patches
    PROVE  [c EXCEPT !.provider = s, !.patch = p] \in RepairAttempt
BY DEF RepairAttempt

LEMMA VerifyType ==
    ASSUME NEW d, NEW c, NEW t, NEW p
    PROVE  Verify(d, c, t, p) \in VerificationStatus
BY DEF Verify

-----------------------------------------------------------------------------
(* Types.  TypeOK alone is not inductive: the gates name the attempt they  *)
(* settle, so they need the loop counter to have left zero.                *)

InAttempt == {"create", "prepare", "propose", "screen", "validate", "compile", "test",
              "verify", "record", "exit", "decide", "export"}

TypeInv ==
    /\ TypeOK
    /\ pc \in InAttempt => number \in Numbers
    /\ pc = "record" => candidate.status \in AttemptStatus

LEMMA TypeInit == ASSUME VersionAssumption, EngineAssumption, Init PROVE TypeInv
<1>1. 1 \in Numbers /\ NoFeedback \in Feedback
  BY DEF EngineAssumption, Feedback
<1>2. BlankAttempt(1, NoFeedback) \in RepairAttempt
  BY <1>1, BlankAttemptType
<1>3. disk \in Disk
  BY DEF Init, Disk
<1>4. QED
  BY <1>1, <1>2, <1>3 DEF Init, TypeInv, TypeOK, InAttempt

\* A gate of _evaluate_attempt leaves a well-formed attempt.
LEMMA GateType ==
    ASSUME VersionAssumption, EngineAssumption, TypeInv, EvaluateAttempt
    PROVE  /\ candidate' \in RepairAttempt
           /\ pc \in {"screen", "validate", "compile", "test", "verify"}
           /\ pc' \in {"validate", "compile", "test", "verify", "record"}
           /\ pc' = "record" => candidate'.status \in AttemptStatus
<1> USE DEF TypeInv, TypeOK, InAttempt
<1>1. CASE ProviderGate
  BY <1>1, SettledType DEF ProviderGate, Goto
<1>2. CASE PatchGate
  BY <1>2, SettledType DEF PatchGate
<1>3. CASE DependencyGate
  <2>1. PICK tree \in Trees :
          LET dependency == Validate(tree)
              judged     == [candidate EXCEPT !.dependency = dependency]
          IN  IF GuardAccepts(dependency)
              THEN candidate' = judged /\ pc' = "compile"
              ELSE candidate' = Settled(judged, "PATCH_REJECTED") /\ pc' = "record"
    BY <1>3 DEF DependencyGate
  <2> DEFINE judged == [candidate EXCEPT !.dependency = Validate(tree)]
  <2>2. Validate(tree) \in DependencyValidation
    BY ValidateSound DEF EngineAssumption
  <2>3. judged \in RepairAttempt
    BY <2>2 DEF RepairAttempt
  <2>4. number \in Numbers
    BY <1>3 DEF DependencyGate
  <2>5. Settled(judged, "PATCH_REJECTED") \in RepairAttempt
    BY <2>3, <2>4, SettledType
  <2>6. QED BY <1>3, <2>1, <2>3, <2>4, <2>5, SettledType DEF DependencyGate
<1>4. CASE CompileGate
  <2>1. PICK s \in ExecutionStatus :
          LET judged == [candidate EXCEPT !.compile = s]
          IN  IF s = "PASS"
              THEN candidate' = judged /\ pc' = "test"
              ELSE /\ candidate' = Settled(judged, MavenFailure(s, "COMPILE_FAILED"))
                   /\ pc' = "record"
    BY <1>4 DEF CompileGate
  <2> DEFINE judged == [candidate EXCEPT !.compile = s]
  <2>2. judged \in RepairAttempt
    BY DEF RepairAttempt
  <2>3. MavenFailure(s, "COMPILE_FAILED") \in AttemptStatus
    BY DEF MavenFailure
  <2>4. Settled(judged, MavenFailure(s, "COMPILE_FAILED")) \in RepairAttempt
    BY <1>4, <2>2, <2>3, SettledType DEF CompileGate
  <2>5. QED BY <1>4, <2>1, <2>2, <2>3, <2>4, SettledType DEF CompileGate
<1>5. CASE TestGate
  <2>1. PICK s \in ExecutionStatus :
          LET judged == [candidate EXCEPT !.test = s]
          IN  IF s = "PASS"
              THEN candidate' = judged /\ pc' = "verify"
              ELSE /\ candidate' = Settled(judged, MavenFailure(s, "TEST_FAILED"))
                   /\ pc' = "record"
    BY <1>5 DEF TestGate
  <2> DEFINE judged == [candidate EXCEPT !.test = s]
  <2>2. judged \in RepairAttempt
    BY DEF RepairAttempt
  <2>3. MavenFailure(s, "TEST_FAILED") \in AttemptStatus
    BY DEF MavenFailure
  <2>4. Settled(judged, MavenFailure(s, "TEST_FAILED")) \in RepairAttempt
    BY <1>5, <2>2, <2>3, SettledType DEF TestGate
  <2>5. QED BY <1>5, <2>1, <2>2, <2>3, <2>4, SettledType DEF TestGate
<1>6. CASE VerifierGate
  <2> DEFINE v == Verify(candidate.dependency, candidate.compile, candidate.test,
                         candidate.patch)
             judged == [candidate EXCEPT !.verification = v]
  <2>1. judged \in RepairAttempt
    BY VerifyType DEF RepairAttempt
  <2>2. /\ [judged EXCEPT !.status = "VERIFIED"] \in RepairAttempt
        /\ [judged EXCEPT !.status = "VERIFIED"].status = "VERIFIED"
    BY <2>1, VerifiedType
  <2>3. /\ Settled(judged, "VERIFICATION_FAILED") \in RepairAttempt
        /\ Settled(judged, "VERIFICATION_FAILED").status = "VERIFICATION_FAILED"
    BY <1>6, <2>1, SettledType DEF VerifierGate, Goto
  <2>4. \/ candidate' = [judged EXCEPT !.status = "VERIFIED"]
        \/ candidate' = Settled(judged, "VERIFICATION_FAILED")
    BY <1>6 DEF VerifierGate
  <2>5. pc' = "record"
    BY <1>6 DEF VerifierGate, Goto
  <2>6. QED
    <3> HIDE DEF judged
    <3>1. QED BY <1>6, <2>2, <2>3, <2>4, <2>5 DEF VerifierGate, Goto
<1>7. QED
  BY <1>1, <1>2, <1>3, <1>4, <1>5, <1>6 DEF EvaluateAttempt

\* Every step keeps the artifact directory well formed.
LEMMA DiskType ==
    ASSUME EngineAssumption, TypeInv, Next
    PROVE  disk' \in Disk
<1> USE DEF TypeInv, TypeOK, InAttempt
<1>1. ASSUME NEW file \in ArtifactFiles, Truncate(file) PROVE disk' \in Disk
  <2>1. PICK left \in SUBSET {file} : disk' = [disk EXCEPT !.partial = disk.partial \union left]
    BY <1>1 DEF Truncate
  <2>2. disk.partial \union left \in SUBSET ArtifactFiles
    BY <1>1 DEF Disk
  <2>3. QED BY <2>1, <2>2 DEF Disk
<1>2. CASE Plan
  BY <1>2 DEF Plan
<1>3. CASE BeginAttempt
  <2>1. number + 1 \in Numbers
    BY <1>3 DEF BeginAttempt, EngineAssumption
  <2>2. [disk EXCEPT !.directories = @ \union {number + 1}] \in Disk
    BY <2>1 DEF Disk
  <2>3. QED BY <1>3, <2>2 DEF BeginAttempt
<1>4. CASE CreateWorktree \/ PrepareRequest \/ EvaluateAttempt \/ LeaveWorkspace
  BY <1>4 DEF CreateWorktree, PrepareRequest, EvaluateAttempt, LeaveWorkspace
<1>5. CASE Propose
  <2>1. [disk EXCEPT !.patches = @ \union {number}] \in Disk
    BY <1>5 DEF Propose, Disk
  <2>2. QED BY <1>5, <2>1 DEF Propose
<1>6. CASE RecordAttempt
  <2> DEFINE records == [disk.records EXCEPT ![number] = candidate.status]
  <2>1. candidate.status \in AttemptStatus
    BY <1>6 DEF RecordAttempt
  <2>2. records \in [Numbers -> AttemptStatus \union {"ABSENT"}]
    BY <2>1 DEF Disk
  <2>3. [disk EXCEPT !.records[number] = candidate.status] \in Disk
    BY <2>2 DEF Disk
  <2>4. QED BY <1>1, <1>6, <2>3 DEF RecordAttempt
<1>7. CASE ExhaustAttempts \/ Decide \/ Terminated
  BY <1>7 DEF ExhaustAttempts, Decide, Terminated, vars
<1>8. CASE ExportFinalPatch
  <2>1. [disk EXCEPT !.finalPatch = number] \in Disk
    BY DEF Disk
  <2>2. QED BY <1>1, <1>8, <2>1 DEF ExportFinalPatch
<1>9. CASE Finish
  <2>1. [disk EXCEPT !.result = finalStatus] \in Disk
    BY DEF Disk
  <2>2. QED BY <1>1, <1>9, <2>1 DEF Finish, WriteResult
<1>10. CASE Kill
  <2>1. [disk EXCEPT !.result = finalStatus] \in Disk
    BY DEF Disk
  <2>2. \/ UNCHANGED disk
        \/ \E file \in ArtifactFiles : Truncate(file)
        \/ WriteResult
    BY <1>10 DEF Kill
  <2>3. QED BY <1>1, <2>1, <2>2 DEF WriteResult
<1>11. QED
  BY <1>2, <1>3, <1>4, <1>5, <1>6, <1>7, <1>8, <1>9, <1>10 DEF Next, Attempt

LEMMA TypeNext ==
    ASSUME VersionAssumption, EngineAssumption, TypeInv, [Next]_vars
    PROVE  TypeInv'
<1> USE DEF TypeInv, TypeOK, InAttempt
<1>1. CASE UNCHANGED vars
  BY <1>1 DEF vars, locals
<1> SUFFICES ASSUME Next PROVE TypeInv'
  BY <1>1
<1> disk' \in Disk
  BY DiskType
<1> HIDE DEF Disk
<1>2. CASE Plan
  BY <1>2 DEF Plan, Goto, RaiseOut
<1>3. CASE BeginAttempt
  <2>1. number' \in Numbers
    BY <1>3 DEF BeginAttempt, EngineAssumption
  <2>2. candidate' \in RepairAttempt
    BY <1>3, <2>1, BlankAttemptType DEF BeginAttempt
  <2>3. QED BY <1>3, <2>1, <2>2 DEF BeginAttempt, RaiseOut
<1>4. CASE CreateWorktree
  <2>1. pc' \in {"prepare", "exit"} /\ error' \in {error, "RepairError"}
    BY <1>4 DEF CreateWorktree, RaiseInside
  <2>2. number \in Numbers /\ worktrees' \subseteq worktrees \union {number}
    BY <1>4 DEF CreateWorktree
  <2>3. UNCHANGED <<plan, number, candidate, attempts, feedback, finalVerification,
                    winningAttempt, finalStatus>>
    BY <1>4 DEF CreateWorktree
  <2> QED
    BY <2>1, <2>2, <2>3
<1>5. CASE PrepareRequest
  BY <1>5 DEF PrepareRequest, RaiseInside
<1>6. CASE Propose
  <2>1. \/ /\ \E s \in ProviderStatus, p \in Patches :
                candidate' = [candidate EXCEPT !.provider = s, !.patch = p]
           /\ pc' = "screen" /\ UNCHANGED error
        \/ pc' = "exit" /\ error' \in Errors /\ UNCHANGED candidate
    BY <1>6 DEF Propose, RaiseInside
  <2>2. candidate' \in RepairAttempt
    <3>1. CASE UNCHANGED candidate
      BY <3>1
    <3>2. CASE \E s \in ProviderStatus, p \in Patches :
                 candidate' = [candidate EXCEPT !.provider = s, !.patch = p]
      <4>1. PICK s \in ProviderStatus, p \in Patches :
              candidate' = [candidate EXCEPT !.provider = s, !.patch = p]
        BY <3>2
      <4>2. [candidate EXCEPT !.provider = s, !.patch = p] \in RepairAttempt
        BY ProposedType
      <4>3. QED BY <4>1, <4>2
    <3>3. QED BY <2>1, <3>1, <3>2
  <2>3. /\ pc = "propose"
        /\ UNCHANGED <<plan, number, attempts, feedback, finalVerification, winningAttempt,
                       finalStatus, worktrees>>
    BY <1>6 DEF Propose
  <2>4. pc' \in {"screen", "exit"} /\ error' \in Errors \union {error} /\ number \in Numbers
    BY <2>1, <2>3
  <2>5. QED BY <2>2, <2>3, <2>4
<1>7. CASE EvaluateAttempt
  BY <1>7, GateType DEF EvaluateAttempt
<1>8. CASE RecordAttempt
  <2>1. attempts' \in Seq(RepairAttempt)
    BY <1>8 DEF RecordAttempt
  <2>2. QED BY <1>8, <2>1 DEF RecordAttempt, RaiseInside
<1>9. CASE LeaveWorkspace
  <2>1. worktrees' \subseteq Numbers
    BY <1>9 DEF LeaveWorkspace
  <2>2. error' \in Errors \union {"none"} /\ pc' \in {"decide", "raised"}
    BY <1>9 DEF LeaveWorkspace, RaiseOut
  <2>3. number \in Numbers
    BY <1>9 DEF LeaveWorkspace
  <2>4. QED BY <1>9, <2>1, <2>2, <2>3 DEF LeaveWorkspace
<1>10. CASE ExhaustAttempts
  BY <1>10 DEF ExhaustAttempts, Goto, locals
<1>11. CASE Decide
  <2>1. candidate.feedback \in Feedback
        /\ candidate.verification \in VerificationStatus \union {NotReached}
    BY DEF RepairAttempt
  <2>2. QED BY <1>11, <2>1 DEF Decide
<1>12. CASE ExportFinalPatch
  BY <1>12 DEF ExportFinalPatch, RaiseOut
<1>13. CASE Finish
  BY <1>13 DEF Finish, RaiseOut
<1>14. CASE Kill
  BY <1>14 DEF Kill, locals
<1>15. CASE Terminated
  BY <1>15 DEF Terminated, vars, locals
<1>16. QED
  BY <1>2, <1>3, <1>4, <1>5, <1>6, <1>7, <1>8, <1>9, <1>10, <1>11, <1>12, <1>13, <1>14, <1>15
     DEF Next, Attempt

\* The locals, the worktrees and the artifact directory keep their types, and
\* the loop counter is a real attempt number whenever an attempt is under way.
THEOREM TypeInvariance == Spec => []TypeInv
<1>1. Init => TypeInv
  BY TypeInit, VersionAssumption, EngineAssumption
<1>2. TypeInv /\ [Next]_vars => TypeInv'
  BY TypeNext, VersionAssumption, EngineAssumption
<1>3. QED BY <1>1, <1>2, PTL DEF Spec

\* Every local of repair(), the worktrees and the run directory stay inside the
\* values repair_engine.py gives them, for any number of attempts.
THEOREM TypeCorrect == Spec => []TypeOK
<1>1. TypeInv => TypeOK
  BY DEF TypeInv
<1>2. QED BY <1>1, TypeInvariance, PTL

-----------------------------------------------------------------------------
(* A verified migration is earned.  VerdictIsEarned is not inductive: it    *)
(* needs what each gate has already established about the candidate, where *)
(* the counter stands against the attempts made, and that the verdict is   *)
(* written once, after the last attempt.                                   *)

AtGates == {"screen", "validate", "compile", "test", "verify"}

GateFacts ==
    /\ pc \in {"create", "prepare", "propose"} \union AtGates => candidate.status = NotReached
    /\ pc \in {"validate", "compile", "test", "verify"} =>
         /\ candidate.provider = "SUCCESS"
         /\ HasChanges(candidate.patch)
         /\ ~Fatal(candidate.patch)
    /\ pc \in {"compile", "test", "verify"} =>
         /\ candidate.dependency.execution = "PASS"
         /\ candidate.dependency.resolved_target_version = TargetVersion
         /\ CausalExpected => candidate.dependency.resolved_causal_version = CausalVersion
    /\ pc \in {"test", "verify"} => candidate.compile = "PASS"
    /\ pc = "verify" => candidate.test = "PASS"
    /\ candidate.status = "VERIFIED" => Earned(candidate)

CountFacts ==
    /\ pc \in {"plan", "loop"} => number = Len(attempts) /\ error = "none"
    /\ pc \in {"create", "prepare", "propose", "record"} \union AtGates =>
         number = Len(attempts) + 1 /\ error = "none"
    /\ pc \in {"decide", "export"} \/ (pc = "exit" /\ error = "none") =>
         /\ error = "none"
         /\ number = Len(attempts) /\ attempts # <<>> /\ LastAttempt = candidate

VerdictFacts ==
    /\ pc \in {"plan", "loop"} \union (InAttempt \ {"export"}) => finalStatus = "UNRESOLVED"
    /\ pc \in Running => disk.result = "ABSENT"
    /\ disk.result \in {"ABSENT", finalStatus}
    /\ finalStatus = "VERIFIED_MIGRATION" =>
         attempts # <<>> /\ winningAttempt = Len(attempts) /\ Earned(LastAttempt)

VerdictInv == TypeInv /\ GateFacts /\ CountFacts /\ VerdictFacts

\* Settling an attempt changes nothing that was observed in it.
LEMMA SettledKeeps ==
    ASSUME NEW c \in RepairAttempt, NEW s
    PROVE  /\ Settled(c, s).status = s
           /\ Settled(c, s).provider = c.provider
           /\ Settled(c, s).patch = c.patch
BY DEF Settled, RepairAttempt

LEMMA GateStep ==
    ASSUME TypeInv, GateFacts, EvaluateAttempt
    PROVE  GateFacts'
<1> candidate \in RepairAttempt
  BY DEF TypeInv, TypeOK
<1> USE DEF GateFacts, AtGates
<1>1. CASE ProviderGate
  BY <1>1, SettledKeeps DEF ProviderGate, Goto
<1>2. CASE PatchGate
  BY <1>2, SettledKeeps DEF PatchGate
<1>3. CASE DependencyGate
  <2>1. PICK tree \in Trees :
          LET dependency == Validate(tree)
              judged     == [candidate EXCEPT !.dependency = dependency]
          IN  IF GuardAccepts(dependency)
              THEN candidate' = judged /\ pc' = "compile"
              ELSE candidate' = Settled(judged, "PATCH_REJECTED") /\ pc' = "record"
    BY <1>3 DEF DependencyGate
  <2> DEFINE d == Validate(tree)
             judged == [candidate EXCEPT !.dependency = d]
  <2>2. /\ d \in DependencyValidation
        /\ GuardAccepts(d) =>
             /\ d.execution = "PASS"
             /\ d.resolved_target_version = TargetVersion
             /\ CausalExpected => d.resolved_causal_version = CausalVersion
    BY ValidateSound, VersionAssumption, EngineAssumption DEF EngineAssumption
  <2> HIDE DEF d
  <2>3. /\ judged \in RepairAttempt
        /\ judged.dependency = d /\ judged.status = candidate.status
        /\ judged.provider = candidate.provider /\ judged.patch = candidate.patch
    BY <2>2 DEF RepairAttempt
  <2> HIDE DEF judged
  <2>4. CASE GuardAccepts(d) /\ candidate' = judged /\ pc' = "compile"
    BY <1>3, <2>2, <2>3, <2>4 DEF DependencyGate
  <2>5. CASE candidate' = Settled(judged, "PATCH_REJECTED") /\ pc' = "record"
    BY <2>3, <2>5, SettledKeeps
  <2>6. QED BY <2>1, <2>4, <2>5 DEF d, judged
<1>4. CASE CompileGate
  <2>1. PICK s \in ExecutionStatus :
          LET judged == [candidate EXCEPT !.compile = s]
          IN  IF s = "PASS"
              THEN candidate' = judged /\ pc' = "test"
              ELSE /\ candidate' = Settled(judged, MavenFailure(s, "COMPILE_FAILED"))
                   /\ pc' = "record"
    BY <1>4 DEF CompileGate
  <2> DEFINE judged == [candidate EXCEPT !.compile = s]
  <2>2. /\ judged \in RepairAttempt
        /\ judged.compile = s /\ judged.status = candidate.status
        /\ judged.provider = candidate.provider /\ judged.patch = candidate.patch
        /\ judged.dependency = candidate.dependency
    BY DEF RepairAttempt
  <2> HIDE DEF judged
  <2>3. CASE s = "PASS" /\ candidate' = judged /\ pc' = "test"
    BY <1>4, <2>2, <2>3 DEF CompileGate
  <2>4. CASE candidate' = Settled(judged, MavenFailure(s, "COMPILE_FAILED")) /\ pc' = "record"
    <3>1. MavenFailure(s, "COMPILE_FAILED") # "VERIFIED"
      BY DEF MavenFailure
    <3>2. QED BY <2>2, <2>4, <3>1, SettledKeeps
  <2>5. QED BY <2>1, <2>3, <2>4 DEF judged
<1>5. CASE TestGate
  <2>1. PICK s \in ExecutionStatus :
          LET judged == [candidate EXCEPT !.test = s]
          IN  IF s = "PASS"
              THEN candidate' = judged /\ pc' = "verify"
              ELSE /\ candidate' = Settled(judged, MavenFailure(s, "TEST_FAILED"))
                   /\ pc' = "record"
    BY <1>5 DEF TestGate
  <2> DEFINE judged == [candidate EXCEPT !.test = s]
  <2>2. /\ judged \in RepairAttempt
        /\ judged.test = s /\ judged.status = candidate.status
        /\ judged.provider = candidate.provider /\ judged.patch = candidate.patch
        /\ judged.dependency = candidate.dependency /\ judged.compile = candidate.compile
    BY DEF RepairAttempt
  <2> HIDE DEF judged
  <2>3. CASE s = "PASS" /\ candidate' = judged /\ pc' = "verify"
    BY <1>5, <2>2, <2>3 DEF TestGate
  <2>4. CASE candidate' = Settled(judged, MavenFailure(s, "TEST_FAILED")) /\ pc' = "record"
    <3>1. MavenFailure(s, "TEST_FAILED") # "VERIFIED"
      BY DEF MavenFailure
    <3>2. QED BY <2>2, <2>4, <3>1, SettledKeeps
  <2>5. QED BY <2>1, <2>3, <2>4 DEF judged
<1>6. CASE VerifierGate
  <2> DEFINE v == Verify(candidate.dependency, candidate.compile, candidate.test,
                         candidate.patch)
             judged == [candidate EXCEPT !.verification = v]
             winner == [judged EXCEPT !.status = "VERIFIED"]
  <2>1. v = "VERIFIED_MIGRATION" => ~Suspicious(candidate.patch)
    BY <1>6 DEF Verify, AnyCheckReviews, VerifierGate, Goto
  <2>2. Earned(candidate) \/ v # "VERIFIED_MIGRATION"
    BY <1>6, <2>1 DEF Earned, VerifierGate, Goto
  <2>3. v \in VerificationStatus
    BY VerifyType
  <2> HIDE DEF v
  <2>4. judged \in RepairAttempt
    BY <2>3 DEF RepairAttempt
  <2>5. /\ winner.provider = candidate.provider /\ winner.patch = candidate.patch
        /\ winner.dependency = candidate.dependency
        /\ winner.compile = candidate.compile /\ winner.test = candidate.test
    BY DEF RepairAttempt
  <2>6. Earned(candidate) => Earned(winner)
    <3> HIDE DEF winner
    <3>1. QED BY <2>5 DEF Earned
  <2>7. pc' = "record"
    BY <1>6 DEF VerifierGate, Goto
  <2>8. CASE v = "VERIFIED_MIGRATION" /\ candidate' = winner
    BY <2>2, <2>6, <2>7, <2>8
  <2>9. CASE candidate' = Settled(judged, "VERIFICATION_FAILED")
    <3> HIDE DEF judged
    <3>1. QED BY <2>4, <2>7, <2>9, SettledKeeps
  <2>10. QED BY <1>6, <2>8, <2>9 DEF VerifierGate, v
<1>7. QED
  BY <1>1, <1>2, <1>3, <1>4, <1>5, <1>6 DEF EvaluateAttempt

LEMMA VerdictInit == Init => GateFacts /\ CountFacts /\ VerdictFacts
BY DEF Init, GateFacts, CountFacts, VerdictFacts, AtGates, InAttempt, BlankAttempt

\* The attempt just begun is blank.
LEMMA BlankAttemptStatus ==
    ASSUME NEW n, NEW used
    PROVE  BlankAttempt(n, used).status = NotReached
BY DEF BlankAttempt

LEMMA TruncateKeeps ==
    ASSUME NEW file, TypeInv, Truncate(file)
    PROVE  disk'.result = disk.result
BY DEF Truncate, TypeInv, TypeOK, Disk

\* Only persist_result writes the result.
LEMMA ResultKept ==
    ASSUME TypeInv, Next, pc # "finish"
    PROVE  disk'.result = disk.result
<1>a. disk \in Disk
  BY DEF TypeInv, TypeOK
<1>1. CASE Plan \/ CreateWorktree \/ PrepareRequest \/ EvaluateAttempt \/ LeaveWorkspace
             \/ ExhaustAttempts \/ Decide \/ Terminated
  BY <1>1 DEF Plan, CreateWorktree, PrepareRequest, EvaluateAttempt, LeaveWorkspace,
              ExhaustAttempts, Decide, Terminated, vars
<1>2. CASE BeginAttempt
  BY <1>a, <1>2 DEF BeginAttempt, Disk
<1>3. CASE Propose
  BY <1>a, <1>3 DEF Propose, Disk
<1>4. CASE RecordAttempt
  BY <1>a, <1>4, TruncateKeeps DEF RecordAttempt, Disk
<1>5. CASE ExportFinalPatch
  BY <1>a, <1>5, TruncateKeeps DEF ExportFinalPatch, Disk
<1>6. CASE Finish
  BY <1>6 DEF Finish
<1>7. CASE Kill
  BY <1>7, TruncateKeeps DEF Kill
<1>8. QED
  BY <1>1, <1>2, <1>3, <1>4, <1>5, <1>6, <1>7 DEF Next, Attempt

LEMMA VerdictNext ==
    ASSUME VerdictInv, [Next]_vars
    PROVE  GateFacts' /\ CountFacts' /\ VerdictFacts'
<1> USE DEF VerdictInv
<1> DEFINE Kept == UNCHANGED <<number, candidate, attempts, finalStatus, winningAttempt>>
<1>a. disk \in Disk /\ attempts \in Seq(RepairAttempt) /\ candidate \in RepairAttempt
  BY DEF TypeInv, TypeOK
<1>1. CASE UNCHANGED vars
  BY <1>1 DEF vars, locals, GateFacts, CountFacts, VerdictFacts, LastAttempt, Earned
<1>2. CASE Plan
  BY <1>2 DEF Plan, Goto, RaiseOut, GateFacts, CountFacts, VerdictFacts, AtGates, InAttempt,
              LastAttempt, Earned
<1>3. CASE BeginAttempt
  <2>1. GateFacts'
    BY <1>3, BlankAttemptStatus DEF BeginAttempt, RaiseOut, GateFacts, AtGates, Earned
  <2>2. CountFacts'
    BY <1>3 DEF BeginAttempt, RaiseOut, CountFacts, AtGates
  <2>3. disk'.result = disk.result
    BY <1>3, ResultKept DEF BeginAttempt, Next, Attempt
  <2>4. VerdictFacts'
    BY <1>3, <2>3 DEF BeginAttempt, RaiseOut, VerdictFacts, AtGates, InAttempt, LastAttempt, Earned
  <2>5. QED BY <2>1, <2>2, <2>4
<1>4. CASE CreateWorktree
  BY <1>4 DEF CreateWorktree, RaiseInside, GateFacts, CountFacts, VerdictFacts, AtGates,
              InAttempt, LastAttempt, Earned
<1>5. CASE PrepareRequest
  BY <1>5 DEF PrepareRequest, RaiseInside, GateFacts, CountFacts, VerdictFacts, AtGates,
              InAttempt, LastAttempt, Earned
<1>6. CASE Propose
  <2>1. \/ /\ \E s \in ProviderStatus, p \in Patches :
                candidate' = [candidate EXCEPT !.provider = s, !.patch = p]
           /\ pc' = "screen" /\ UNCHANGED error
        \/ pc' = "exit" /\ error' \in Errors /\ UNCHANGED candidate
    BY <1>6 DEF Propose, RaiseInside
  <2>2. candidate'.status = candidate.status
    BY <1>a, <2>1 DEF RepairAttempt
  <2>3. pc = "propose" /\ UNCHANGED <<number, attempts, finalStatus, winningAttempt>>
    BY <1>6 DEF Propose
  <2>4. disk'.result = disk.result
    BY <1>6, <2>3, ResultKept DEF Next, Attempt
  <2>5. GateFacts'
    BY <2>1, <2>2, <2>3 DEF GateFacts, AtGates
  <2>6. CountFacts'
    BY <2>1, <2>3 DEF CountFacts, AtGates
  <2>7. VerdictFacts'
    BY <2>1, <2>3, <2>4 DEF VerdictFacts, InAttempt, LastAttempt, Earned
  <2>8. QED BY <2>5, <2>6, <2>7
<1>7. CASE EvaluateAttempt
  <2>1. GateFacts'
    BY <1>7, GateStep
  <2>2. /\ pc \in AtGates
        /\ pc' \in {"validate", "compile", "test", "verify", "record"}
    BY <1>7, GateType, VersionAssumption, EngineAssumption DEF AtGates
  <2>3. UNCHANGED <<number, attempts, finalStatus, winningAttempt, error, disk>>
    BY <1>7 DEF EvaluateAttempt
  <2>4. CountFacts'
    BY <2>2, <2>3 DEF CountFacts, AtGates
  <2>5. VerdictFacts'
    BY <2>2, <2>3 DEF VerdictFacts, AtGates, InAttempt, LastAttempt, Earned
  <2>6. QED BY <2>1, <2>4, <2>5
<1>8. CASE RecordAttempt
  <2>1. /\ attempts' = Append(attempts, candidate)
        /\ pc = "record" /\ pc' = "exit"
        /\ UNCHANGED <<number, candidate, finalStatus, winningAttempt>>
        /\ error' # "none" \/ error' = error
    BY <1>8 DEF RecordAttempt, RaiseInside
  <2>2. /\ Len(attempts') = Len(attempts) + 1
        /\ attempts' # <<>>
        /\ attempts'[Len(attempts')] = candidate
    BY <1>a, <2>1
  <2>3. disk'.result = disk.result
    BY <1>8, <2>1, ResultKept DEF Next, Attempt
  <2>4. GateFacts'
    BY <2>1 DEF GateFacts, AtGates, Earned
  <2>5. CountFacts'
    BY <2>1, <2>2 DEF CountFacts, AtGates, LastAttempt
  <2>6. VerdictFacts'
    BY <2>1, <2>3 DEF VerdictFacts, InAttempt
  <2>7. QED BY <2>4, <2>5, <2>6
<1>9. CASE LeaveWorkspace
  BY <1>9 DEF LeaveWorkspace, RaiseOut, GateFacts, CountFacts, VerdictFacts, AtGates,
              InAttempt, LastAttempt, Earned
<1>10. CASE ExhaustAttempts
  BY <1>10 DEF ExhaustAttempts, Goto, locals, GateFacts, CountFacts, VerdictFacts, AtGates,
               InAttempt, LastAttempt, Earned
<1>11. CASE Decide
  <2>1. GateFacts'
    BY <1>11 DEF Decide, GateFacts, AtGates, Earned
  <2>2. CountFacts'
    BY <1>11 DEF Decide, CountFacts, AtGates, LastAttempt
  <2>3. VerdictFacts'
    BY <1>11 DEF Decide, GateFacts, CountFacts, VerdictFacts, InAttempt, LastAttempt, Earned
  <2>4. QED BY <2>1, <2>2, <2>3
<1>12. CASE ExportFinalPatch
  <2>1. /\ pc = "export" /\ pc' \in {"finish", "raised"} /\ Kept
    BY <1>12 DEF ExportFinalPatch, RaiseOut
  <2>2. disk'.result = disk.result
    BY <1>12, <2>1, ResultKept DEF Next
  <2>3. QED
    BY <2>1, <2>2 DEF GateFacts, CountFacts, VerdictFacts, AtGates, InAttempt, LastAttempt, Earned
<1>13. CASE Finish
  <2>1. /\ pc = "finish" /\ pc' \in {"done", "raised"} /\ Kept
    BY <1>13 DEF Finish, RaiseOut
  <2>2. \/ disk'.result = disk.result
        \/ disk'.result = finalStatus
    BY <1>a, <1>13, TruncateKeeps DEF Finish, WriteResult, Disk
  <2>3. QED
    BY <2>1, <2>2 DEF GateFacts, CountFacts, VerdictFacts, AtGates, InAttempt, LastAttempt, Earned
<1>14. CASE Kill
  <2>1. pc \in Running /\ pc' = "killed" /\ Kept
    BY <1>14 DEF Kill, locals
  <2>2. \/ disk'.result = disk.result
        \/ disk'.result = finalStatus
    BY <1>a, <1>14, TruncateKeeps DEF Kill, WriteResult, Disk
  <2>3. QED
    BY <2>1, <2>2 DEF GateFacts, CountFacts, VerdictFacts, AtGates, InAttempt, LastAttempt, Earned
<1>15. CASE Terminated
  BY <1>1, <1>15 DEF Terminated
<1>16. QED
  BY <1>1, <1>2, <1>3, <1>4, <1>5, <1>6, <1>7, <1>8, <1>9, <1>10, <1>11, <1>12, <1>13, <1>14,
     <1>15 DEF Next, Attempt

\* What the gates, the loop counter and the verdict say holds together in every
\* reachable state of repair().
THEOREM VerdictInvariance == Spec => []VerdictInv
<1>1. Init => VerdictInv
  BY TypeInit, VerdictInit, VersionAssumption, EngineAssumption DEF VerdictInv
<1>2. VerdictInv /\ [Next]_vars => VerdictInv'
  BY TypeNext, VerdictNext, VersionAssumption, EngineAssumption DEF VerdictInv
<1>3. QED BY <1>1, <1>2, PTL DEF Spec

\* Whatever the provider, Git, Maven and the file system do, and however often
\* the process is killed, a migration is called VERIFIED only for a last attempt
\* in which every guarantee of repair_engine.py and verifier.py was observed.
THEOREM VerdictCorrect == Spec => []VerdictIsEarned
<1>1. VerdictInv => VerdictIsEarned
  BY DEF VerdictInv, VerdictFacts, VerdictIsEarned
<1>2. QED BY <1>1, VerdictInvariance, PTL

-----------------------------------------------------------------------------
(* The worktrees.                                                          *)

WorktreeFacts ==
    /\ pc \in {"plan", "loop", "create", "decide", "export", "finish", "done"} => worktrees = {}
    /\ pc \in {"prepare", "propose", "record"} \union AtGates => worktrees = {number}
    /\ pc = "exit" => worktrees \subseteq {number}
    /\ pc = "raised" => worktrees \subseteq IF "cleanup" \in Faults THEN {number} ELSE {}

-----------------------------------------------------------------------------
(* What an attempt was found to be, against what was observed in it.       *)

\* The status, the verification and the observations of a settled attempt
\* call for the same decision.
Judged(c) ==
    \/ c.status = "VERIFIED" /\ c.verification = "VERIFIED_MIGRATION"
          /\ OutcomeOf(c) = "accepted"
    \/ c.status = "VERIFICATION_FAILED" /\ c.verification = "NEEDS_HUMAN_REVIEW"
          /\ OutcomeOf(c) = "review"
    \/ c.status # "VERIFIED" /\ c.verification = NotReached /\ MustStop(c)
          /\ OutcomeOf(c) = "stopped"
    \/ Retryable(c) /\ ~MustStop(c) /\ OutcomeOf(c) = "retryable"

\* The attempt has been judged and nothing was raised since.
Evaluated == pc \in {"record", "decide", "export"} \/ (pc = "exit" /\ error = "none")

\* The provider has not returned.
Unproposed == {"create", "prepare", "propose"}

JudgementFacts ==
    /\ pc \in Unproposed \union {"screen", "validate"} => candidate.dependency = NotResolved
    /\ pc \in Unproposed \union {"screen", "validate", "compile"} => candidate.compile = NotReached
    /\ pc \in Unproposed \union (AtGates \ {"verify"}) => candidate.test = NotReached
    /\ pc \in Unproposed \union AtGates => candidate.verification = NotReached
    /\ pc \in {"compile", "test", "verify"} => GuardAccepts(candidate.dependency)
    /\ Evaluated =>
         /\ Judged(candidate)
         /\ candidate.status # "VERIFIED" =>
                candidate.feedback = [number |-> number, status |-> candidate.status]

-----------------------------------------------------------------------------
(* From one attempt to the next.                                           *)

\* What the attempt after those made is to be told.
Told(made) ==
    IF made = <<>> THEN NoFeedback
    ELSE [number |-> Len(made), status |-> made[Len(made)].status]

RetryFacts ==
    /\ FeedbackIsFromPreviousAttempt
    /\ OnlyRetryableIsRetried
    /\ pc = "plan" => attempts = <<>>
    /\ pc = "loop" => feedback = Told(attempts)
    /\ pc \in {"plan", "loop", "record"} \union Unproposed \union AtGates =>
         (attempts # <<>> => Retryable(LastAttempt) /\ OutcomeOf(LastAttempt) = "retryable")
    /\ pc \in {"record"} \union Unproposed \union AtGates =>
         candidate.feedbackUsed = Told(attempts)
    /\ pc = "plan" => feedback = NoFeedback

\* The result is on disk or is the next thing to be written; repair() may
\* still raise, or be killed, after the first file of persist_result.
Published == pc \in {"finish", "done"} \/ disk.result # "ABSENT"

\* The verification that is published is the last attempt's.
ReportFacts ==
    /\ pc \in {"plan", "loop"} \union (InAttempt \ {"export"}) => finalVerification = NotReached
    /\ pc = "export" \/ Published =>
         finalVerification = IF attempts = <<>> THEN NotReached ELSE LastAttempt.verification

\* Only a winner is exported.
ExportFacts ==
    pc = "export" =>
        /\ candidate.status = "VERIFIED" /\ winningAttempt = number
        /\ finalStatus = "VERIFIED_MIGRATION"

-----------------------------------------------------------------------------
(* The run directory.                                                      *)

ArtifactFacts ==
    /\ \A n \in disk.directories : n <= number
    /\ pc \in AtGates \union {"record"} \/ Evaluated => number \in disk.patches
    /\ Evaluated /\ pc # "record" => disk.records[number] = candidate.status
    /\ pc \in {"plan", "loop"} \union InAttempt => disk.finalPatch = 0
    /\ pc \in Running => "final.patch" \notin disk.partial
    /\ Published => "final.patch" \notin disk.partial
    /\ Published /\ finalStatus = "VERIFIED_MIGRATION" => disk.finalPatch = winningAttempt
    /\ disk.finalPatch # 0 =>
         /\ disk.records[disk.finalPatch] = "VERIFIED"
         /\ disk.finalPatch \in disk.patches
         /\ \A n \in disk.directories : n <= disk.finalPatch

-----------------------------------------------------------------------------
\* Why the run ended as it did, in the terms of the contract.
EndFacts ==
    pc \in {"finish", "done"} =>
        \/ attempts = <<>> /\ finalStatus = "NEEDS_HUMAN_REVIEW"
        \/ attempts # <<>> /\ OutcomeOf(LastAttempt) = "accepted"
              /\ finalStatus = "VERIFIED_MIGRATION"
        \/ attempts # <<>> /\ OutcomeOf(LastAttempt) = "review"
              /\ finalStatus = "NEEDS_HUMAN_REVIEW"
        \/ attempts # <<>> /\ OutcomeOf(LastAttempt) = "stopped" /\ finalStatus = "UNRESOLVED"
        \/ attempts # <<>> /\ OutcomeOf(LastAttempt) = "retryable"
              /\ Len(attempts) = MaxRepairAttempts /\ finalStatus = "UNRESOLVED"

LoopInv ==
    /\ VerdictInv /\ WorktreeFacts /\ JudgementFacts /\ RetryFacts /\ ReportFacts
    /\ ExportFacts /\ ArtifactFacts /\ EndFacts

-----------------------------------------------------------------------------
(* One lemma per part.                                                     *)

LEMMA LoopInit == Init => WorktreeFacts /\ JudgementFacts /\ RetryFacts /\ ReportFacts
                            /\ ExportFacts /\ ArtifactFacts /\ EndFacts
BY DEF Init, WorktreeFacts, JudgementFacts, RetryFacts, ReportFacts, ExportFacts,
       ArtifactFacts, EndFacts, AtGates, InAttempt, BlankAttempt, Evaluated, Unproposed, Told,
       Published, FeedbackIsFromPreviousAttempt, OnlyRetryableIsRetried

LEMMA WorktreeNext ==
    ASSUME TypeInv, WorktreeFacts, [Next]_vars
    PROVE  WorktreeFacts'
<1> USE DEF WorktreeFacts, AtGates
<1>1. CASE UNCHANGED vars
  BY <1>1 DEF vars, locals
<1>2. CASE Plan
  BY <1>2 DEF Plan, Goto, RaiseOut
<1>3. CASE BeginAttempt
  BY <1>3 DEF BeginAttempt, RaiseOut
<1>4. CASE CreateWorktree
  BY <1>4 DEF CreateWorktree, RaiseInside
<1>5. CASE PrepareRequest
  BY <1>5 DEF PrepareRequest, RaiseInside
<1>6. CASE Propose
  BY <1>6 DEF Propose, RaiseInside
<1>7. CASE EvaluateAttempt
  <2>1. /\ pc \in AtGates /\ pc' \in {"validate", "compile", "test", "verify", "record"}
        /\ UNCHANGED <<number, worktrees>>
    BY <1>7, GateType, VersionAssumption, EngineAssumption DEF EvaluateAttempt
  <2>2. QED BY <2>1
<1>8. CASE RecordAttempt
  BY <1>8 DEF RecordAttempt, RaiseInside
<1>9. CASE LeaveWorkspace
  BY <1>9 DEF LeaveWorkspace, RaiseOut
<1>10. CASE ExhaustAttempts \/ Decide \/ ExportFinalPatch \/ Finish \/ Kill
  BY <1>10 DEF ExhaustAttempts, Goto, locals, Decide, ExportFinalPatch, Finish, RaiseOut, Kill
<1>11. CASE Terminated
  BY <1>1, <1>11 DEF Terminated
<1>12. QED
  BY <1>1, <1>2, <1>3, <1>4, <1>5, <1>6, <1>7, <1>8, <1>9, <1>10, <1>11 DEF Next, Attempt

\* Settling an attempt adds a status and feedback to what was observed in it.
LEMMA SettledObserves ==
    ASSUME NEW c \in RepairAttempt, NEW s
    PROVE  /\ Settled(c, s).status = s
           /\ Settled(c, s).feedback = [number |-> number, status |-> s]
           /\ Settled(c, s).provider = c.provider
           /\ Settled(c, s).patch = c.patch
           /\ Settled(c, s).dependency = c.dependency
           /\ Settled(c, s).compile = c.compile
           /\ Settled(c, s).test = c.test
           /\ Settled(c, s).verification = c.verification
           /\ Settled(c, s).feedbackUsed = c.feedbackUsed
BY DEF Settled, RepairAttempt

\* What remains to be shown once an attempt is settled.
LEMMA SettledIsEnough ==
    ASSUME pc' = "record", Judged(candidate'),
           candidate'.status # "VERIFIED" =>
               candidate'.feedback = [number |-> number, status |-> candidate'.status],
           UNCHANGED number
    PROVE  JudgementFacts'
BY DEF JudgementFacts, Evaluated, Unproposed, AtGates

LEMMA ProviderGateJudges ==
    ASSUME TypeInv, JudgementFacts, ProviderGate, UNCHANGED number
    PROVE  JudgementFacts'
<1> DEFINE s == IF candidate.provider = "TIMEOUT" THEN "TIMEOUT" ELSE "PROVIDER_ERROR"
<1>1. /\ candidate \in RepairAttempt
      /\ candidate' = Settled(candidate, s)
      /\ pc = "screen" /\ pc' = "record"
      /\ candidate.provider # "SUCCESS"
  BY DEF TypeInv, TypeOK, ProviderGate, Goto
<1>2. s \in {"TIMEOUT", "PROVIDER_ERROR"}
  OBVIOUS
<1> HIDE DEF s
<1>3. /\ candidate'.status = s
      /\ candidate'.feedback = [number |-> number, status |-> s]
      /\ candidate'.provider = candidate.provider
      /\ candidate'.test = NotReached
      /\ candidate'.verification = NotReached
  BY <1>1, SettledObserves DEF JudgementFacts, AtGates, Unproposed
<1>4. ~Earned(candidate') /\ ~Refused(candidate')
  BY <1>1, <1>3 DEF Earned, Refused
<1>5. Judged(candidate')
  BY <1>2, <1>3, <1>4 DEF Judged, OutcomeOf, Unstartable, Retryable, MustStop
<1>6. QED BY <1>1, <1>3, <1>5, SettledIsEnough

LEMMA PatchGateJudges ==
    ASSUME TypeInv, JudgementFacts, PatchGate, UNCHANGED number
    PROVE  JudgementFacts'
<1>1. /\ candidate \in RepairAttempt
      /\ pc = "screen" /\ candidate.provider = "SUCCESS"
  BY DEF TypeInv, TypeOK, PatchGate
<1>2. /\ candidate.dependency = NotResolved
      /\ candidate.compile = NotReached /\ candidate.test = NotReached
      /\ candidate.verification = NotReached
  BY <1>1 DEF JudgementFacts, AtGates, Unproposed
<1>3. CASE UNCHANGED candidate /\ pc' = "validate"
  BY <1>2, <1>3 DEF JudgementFacts, AtGates, Unproposed, Evaluated
<1>4. CASE ~HasChanges(candidate.patch) /\ candidate' = Settled(candidate, "NO_CHANGES")
             /\ pc' = "record"
  <2>1. /\ candidate'.status = "NO_CHANGES"
        /\ candidate'.feedback = [number |-> number, status |-> "NO_CHANGES"]
        /\ candidate'.provider = "SUCCESS" /\ candidate'.patch = candidate.patch
        /\ candidate'.test = NotReached /\ candidate'.verification = NotReached
    BY <1>1, <1>2, <1>4, SettledObserves
  <2>2. ~Earned(candidate') /\ ~Refused(candidate')
    BY <1>4, <2>1 DEF Earned, Refused
  <2>3. Judged(candidate')
    BY <2>1, <2>2 DEF Judged, OutcomeOf, Unstartable, Retryable, MustStop
  <2>4. QED BY <1>4, <2>1, <2>3, SettledIsEnough
<1>5. CASE HasChanges(candidate.patch) /\ Fatal(candidate.patch)
             /\ candidate' = Settled(candidate, "PATCH_REJECTED") /\ pc' = "record"
  <2>1. /\ candidate'.status = "PATCH_REJECTED"
        /\ candidate'.feedback = [number |-> number, status |-> "PATCH_REJECTED"]
        /\ candidate'.provider = "SUCCESS" /\ candidate'.patch = candidate.patch
        /\ candidate'.verification = NotReached
    BY <1>1, <1>2, <1>5, SettledObserves
  <2>2. ~Earned(candidate') /\ Refused(candidate')
    BY <1>5, <2>1 DEF Earned, Refused
  <2>3. Judged(candidate')
    BY <2>1, <2>2 DEF Judged, OutcomeOf, Retryable, MustStop
  <2>4. QED BY <1>5, <2>1, <2>3, SettledIsEnough
<1>6. QED BY <1>3, <1>4, <1>5 DEF PatchGate

LEMMA DependencyGateJudges ==
    ASSUME TypeInv, GateFacts, JudgementFacts, DependencyGate, UNCHANGED number
    PROVE  JudgementFacts'
<1>1. /\ candidate \in RepairAttempt /\ pc = "validate"
      /\ candidate.provider = "SUCCESS" /\ HasChanges(candidate.patch)
  BY DEF TypeInv, TypeOK, DependencyGate, GateFacts
<1>2. /\ candidate.compile = NotReached /\ candidate.test = NotReached
      /\ candidate.verification = NotReached
  BY <1>1 DEF JudgementFacts, AtGates, Unproposed
<1>3. PICK tree \in Trees :
        LET dependency == Validate(tree)
            judged     == [candidate EXCEPT !.dependency = dependency]
        IN  IF GuardAccepts(dependency)
            THEN candidate' = judged /\ pc' = "compile"
            ELSE candidate' = Settled(judged, "PATCH_REJECTED") /\ pc' = "record"
  BY DEF DependencyGate
<1> DEFINE d == Validate(tree)
           judged == [candidate EXCEPT !.dependency = d]
<1>4. d \in DependencyValidation
  BY ValidateSound, VersionAssumption, EngineAssumption DEF EngineAssumption
<1>5. d # NotResolved
  <2>1. d.execution \in ExecutionStatus
    <3> HIDE DEF d
    <3>1. QED BY <1>4 DEF DependencyValidation
  <2>2. NotResolved.execution = NotReached
    BY DEF NotResolved
  <2>3. QED BY <2>1, <2>2
<1> HIDE DEF d
<1>6. /\ judged \in RepairAttempt
      /\ judged.dependency = d /\ judged.provider = candidate.provider
      /\ judged.patch = candidate.patch /\ judged.compile = candidate.compile
      /\ judged.test = candidate.test /\ judged.verification = candidate.verification
  BY <1>1, <1>4 DEF RepairAttempt
<1> HIDE DEF judged
<1>7. CASE GuardAccepts(d) /\ candidate' = judged /\ pc' = "compile"
  BY <1>2, <1>6, <1>7 DEF JudgementFacts, AtGates, Unproposed, Evaluated
<1>8. CASE ~GuardAccepts(d) /\ candidate' = Settled(judged, "PATCH_REJECTED") /\ pc' = "record"
  <2>1. /\ candidate'.status = "PATCH_REJECTED"
        /\ candidate'.feedback = [number |-> number, status |-> "PATCH_REJECTED"]
        /\ candidate'.provider = "SUCCESS" /\ candidate'.patch = candidate.patch
        /\ candidate'.dependency = d /\ candidate'.compile = NotReached
        /\ candidate'.verification = NotReached
    BY <1>1, <1>2, <1>6, <1>8, SettledObserves
  <2>2. ~Earned(candidate') /\ Refused(candidate')
    BY <1>1, <1>5, <1>8, <2>1 DEF Earned, Refused
  <2>3. Judged(candidate')
    BY <2>1, <2>2 DEF Judged, OutcomeOf, Retryable, MustStop
  <2>4. QED BY <1>8, <2>1, <2>3, SettledIsEnough
<1>9. QED BY <1>3, <1>7, <1>8 DEF d, judged

LEMMA CompileGateJudges ==
    ASSUME TypeInv, GateFacts, JudgementFacts, CompileGate, UNCHANGED number
    PROVE  JudgementFacts'
<1>1. /\ candidate \in RepairAttempt /\ pc = "compile"
      /\ candidate.provider = "SUCCESS"
      /\ HasChanges(candidate.patch) /\ ~Fatal(candidate.patch)
  BY DEF TypeInv, TypeOK, CompileGate, GateFacts
<1>2. /\ GuardAccepts(candidate.dependency)
      /\ candidate.test = NotReached
      /\ candidate.verification = NotReached
  BY <1>1 DEF JudgementFacts, AtGates, Unproposed, GateFacts
<1>3. PICK s \in ExecutionStatus :
        LET judged == [candidate EXCEPT !.compile = s]
        IN  IF s = "PASS"
            THEN candidate' = judged /\ pc' = "test"
            ELSE /\ candidate' = Settled(judged, MavenFailure(s, "COMPILE_FAILED"))
                 /\ pc' = "record"
  BY DEF CompileGate
<1> DEFINE judged == [candidate EXCEPT !.compile = s]
           ends == MavenFailure(s, "COMPILE_FAILED")
<1>4. /\ judged \in RepairAttempt
      /\ judged.compile = s /\ judged.provider = candidate.provider
      /\ judged.patch = candidate.patch /\ judged.dependency = candidate.dependency
      /\ judged.test = candidate.test /\ judged.verification = candidate.verification
  BY <1>1 DEF RepairAttempt
<1> HIDE DEF judged
<1>5. CASE s = "PASS" /\ candidate' = judged /\ pc' = "test"
  BY <1>2, <1>4, <1>5 DEF JudgementFacts, AtGates, Unproposed, Evaluated
<1>6. CASE s # "PASS" /\ candidate' = Settled(judged, ends) /\ pc' = "record"
  <2>1. \/ s = "ERROR" /\ ends = "EXECUTION_ERROR"
        \/ s # "ERROR" /\ ends \in {"TIMEOUT", "COMPILE_FAILED"}
    BY <1>6 DEF MavenFailure
  <2> HIDE DEF ends
  <2>2. /\ candidate'.status = ends
        /\ candidate'.feedback = [number |-> number, status |-> ends]
        /\ candidate'.provider = "SUCCESS" /\ candidate'.patch = candidate.patch
        /\ candidate'.dependency = candidate.dependency
        /\ candidate'.compile = s /\ candidate'.test = NotReached
        /\ candidate'.verification = NotReached
    BY <1>1, <1>2, <1>4, <1>6, SettledObserves
  <2>3. ~Earned(candidate')
    BY <1>6, <2>2 DEF Earned
  <2>4. CASE s = "ERROR"
    <3>1. Refused(candidate')
      BY <1>1, <2>2, <2>4 DEF Refused
    <3>2. Judged(candidate')
      BY <2>1, <2>2, <2>3, <2>4, <3>1 DEF Judged, OutcomeOf, Retryable, MustStop
    <3>3. QED BY <1>6, <2>1, <2>2, <3>2, SettledIsEnough
  <2>5. CASE s # "ERROR"
    <3>1. ~Refused(candidate')
      BY <1>1, <1>2, <2>2, <2>5 DEF Refused
    <3>2. Judged(candidate')
      BY <1>6, <2>1, <2>2, <2>3, <2>5, <3>1
         DEF Judged, OutcomeOf, Unstartable, Retryable, MustStop
    <3>3. QED BY <1>6, <2>1, <2>2, <3>2, SettledIsEnough
  <2>6. QED BY <2>4, <2>5
<1>7. QED BY <1>3, <1>5, <1>6 DEF judged

LEMMA TestGateJudges ==
    ASSUME TypeInv, GateFacts, JudgementFacts, TestGate, UNCHANGED number
    PROVE  JudgementFacts'
<1>1. /\ candidate \in RepairAttempt /\ pc = "test"
      /\ candidate.provider = "SUCCESS"
      /\ HasChanges(candidate.patch) /\ ~Fatal(candidate.patch)
  BY DEF TypeInv, TypeOK, TestGate, GateFacts
<1>2. /\ GuardAccepts(candidate.dependency)
      /\ candidate.compile = "PASS"
      /\ candidate.verification = NotReached
  BY <1>1 DEF JudgementFacts, AtGates, Unproposed, GateFacts
<1>3. PICK s \in ExecutionStatus :
        LET judged == [candidate EXCEPT !.test = s]
        IN  IF s = "PASS"
            THEN candidate' = judged /\ pc' = "verify"
            ELSE /\ candidate' = Settled(judged, MavenFailure(s, "TEST_FAILED"))
                 /\ pc' = "record"
  BY DEF TestGate
<1> DEFINE judged == [candidate EXCEPT !.test = s]
           ends == MavenFailure(s, "TEST_FAILED")
<1>4. /\ judged \in RepairAttempt
      /\ judged.test = s /\ judged.provider = candidate.provider
      /\ judged.patch = candidate.patch /\ judged.dependency = candidate.dependency
      /\ judged.compile = candidate.compile /\ judged.verification = candidate.verification
  BY <1>1 DEF RepairAttempt
<1> HIDE DEF judged
<1>5. CASE s = "PASS" /\ candidate' = judged /\ pc' = "verify"
  BY <1>2, <1>4, <1>5 DEF JudgementFacts, AtGates, Unproposed, Evaluated
<1>6. CASE s # "PASS" /\ candidate' = Settled(judged, ends) /\ pc' = "record"
  <2>1. \/ s = "ERROR" /\ ends = "EXECUTION_ERROR"
        \/ s # "ERROR" /\ ends \in {"TIMEOUT", "TEST_FAILED"}
    BY <1>6 DEF MavenFailure
  <2> HIDE DEF ends
  <2>2. /\ candidate'.status = ends
        /\ candidate'.feedback = [number |-> number, status |-> ends]
        /\ candidate'.provider = "SUCCESS" /\ candidate'.patch = candidate.patch
        /\ candidate'.dependency = candidate.dependency
        /\ candidate'.test = s /\ candidate'.compile = "PASS"
        /\ candidate'.verification = NotReached
    BY <1>1, <1>2, <1>4, <1>6, SettledObserves
  <2>3. ~Earned(candidate')
    BY <1>6, <2>2 DEF Earned
  <2>4. CASE s = "ERROR"
    <3>1. Refused(candidate')
      BY <1>1, <2>2, <2>4 DEF Refused
    <3>2. Judged(candidate')
      BY <2>1, <2>2, <2>3, <2>4, <3>1 DEF Judged, OutcomeOf, Retryable, MustStop
    <3>3. QED BY <1>6, <2>1, <2>2, <3>2, SettledIsEnough
  <2>5. CASE s # "ERROR"
    <3>1. ~Refused(candidate')
      BY <1>1, <1>2, <2>2, <2>5 DEF Refused
    <3>2. Judged(candidate')
      BY <1>6, <2>1, <2>2, <2>3, <2>5, <3>1
         DEF Judged, OutcomeOf, Unstartable, Retryable, MustStop
    <3>3. QED BY <1>6, <2>1, <2>2, <3>2, SettledIsEnough
  <2>6. QED BY <2>4, <2>5
<1>7. QED BY <1>3, <1>5, <1>6 DEF judged

\* A patch that got as far as the verifier is verified or needs a human.
LEMMA VerifierGateJudges ==
    ASSUME TypeInv, GateFacts, JudgementFacts, VerifierGate, UNCHANGED number
    PROVE  JudgementFacts'
<1> DEFINE v == Verify(candidate.dependency, candidate.compile, candidate.test,
                       candidate.patch)
           judged == [candidate EXCEPT !.verification = v]
           winner == [judged EXCEPT !.status = "VERIFIED"]
<1>1. /\ candidate \in RepairAttempt /\ pc = "verify" /\ pc' = "record"
      /\ candidate.provider = "SUCCESS"
      /\ HasChanges(candidate.patch) /\ ~Fatal(candidate.patch)
      /\ candidate.dependency.execution = "PASS"
      /\ candidate.dependency.resolved_target_version = TargetVersion
      /\ CausalExpected => candidate.dependency.resolved_causal_version = CausalVersion
      /\ candidate.compile = "PASS" /\ candidate.test = "PASS"
  BY DEF TypeInv, TypeOK, VerifierGate, Goto, GateFacts
<1>2. GuardAccepts(candidate.dependency)
  BY <1>1 DEF JudgementFacts
<1>3. v = IF Suspicious(candidate.patch) THEN "NEEDS_HUMAN_REVIEW" ELSE "VERIFIED_MIGRATION"
  BY <1>1, <1>2 DEF Verify, AnyCheckFails, AnyCheckReviews, Fatal, Suspicious, GuardAccepts
<1>4. v \in VerificationStatus
  BY VerifyType
<1>5. candidate' = IF v = "VERIFIED_MIGRATION" THEN winner ELSE Settled(judged, "VERIFICATION_FAILED")
  BY DEF VerifierGate
<1> HIDE DEF v
<1>6. /\ judged \in RepairAttempt
      /\ judged.verification = v /\ judged.provider = candidate.provider
      /\ judged.patch = candidate.patch /\ judged.dependency = candidate.dependency
      /\ judged.compile = candidate.compile /\ judged.test = candidate.test
  BY <1>1, <1>4 DEF RepairAttempt
<1>7. /\ winner.status = "VERIFIED" /\ winner.verification = v
      /\ winner.provider = candidate.provider /\ winner.patch = candidate.patch
      /\ winner.dependency = candidate.dependency
      /\ winner.compile = candidate.compile /\ winner.test = candidate.test
  BY <1>1, <1>4 DEF RepairAttempt
<1> HIDE DEF judged, winner
<1>8. CASE ~Suspicious(candidate.patch)
  <2>1. candidate' = winner /\ v = "VERIFIED_MIGRATION"
    BY <1>3, <1>5, <1>8
  <2>2. Earned(candidate')
    BY <1>1, <1>7, <1>8, <2>1 DEF Earned
  <2>3. Judged(candidate')
    BY <1>7, <2>1, <2>2 DEF Judged, OutcomeOf
  <2>4. QED BY <1>1, <1>7, <2>1, <2>3, SettledIsEnough
<1>9. CASE Suspicious(candidate.patch)
  <2>1. candidate' = Settled(judged, "VERIFICATION_FAILED") /\ v = "NEEDS_HUMAN_REVIEW"
    BY <1>3, <1>5, <1>9
  <2>2. /\ candidate'.status = "VERIFICATION_FAILED"
        /\ candidate'.feedback = [number |-> number, status |-> "VERIFICATION_FAILED"]
        /\ candidate'.verification = "NEEDS_HUMAN_REVIEW"
        /\ candidate'.provider = "SUCCESS" /\ candidate'.patch = candidate.patch
        /\ candidate'.dependency = candidate.dependency
        /\ candidate'.compile = "PASS" /\ candidate'.test = "PASS"
    BY <1>1, <1>6, <2>1, SettledObserves
  <2>3. ~Earned(candidate') /\ ~Refused(candidate')
    BY <1>1, <1>2, <1>9, <2>2 DEF Earned, Refused
  <2>4. Judged(candidate')
    BY <2>2, <2>3 DEF Judged, OutcomeOf, Unstartable
  <2>5. QED BY <1>1, <2>2, <2>4, SettledIsEnough
<1>10. QED BY <1>8, <1>9

\* A new attempt has been through nothing.
LEMMA BlankObserves ==
    ASSUME NEW n, NEW used
    PROVE  /\ BlankAttempt(n, used).dependency = NotResolved
           /\ BlankAttempt(n, used).compile = NotReached
           /\ BlankAttempt(n, used).test = NotReached
           /\ BlankAttempt(n, used).verification = NotReached
           /\ BlankAttempt(n, used).feedbackUsed = used
BY DEF BlankAttempt

LEMMA ProposeObserves ==
    ASSUME TypeInv, Propose
    PROVE  /\ candidate'.dependency = candidate.dependency
           /\ candidate'.compile = candidate.compile
           /\ candidate'.test = candidate.test
           /\ candidate'.verification = candidate.verification
           /\ candidate'.feedbackUsed = candidate.feedbackUsed
           /\ pc' = "screen" \/ (pc' = "exit" /\ error' # "none")
<1>1. candidate \in RepairAttempt
  BY DEF TypeInv, TypeOK
<1>2. CASE \E s \in ProviderStatus, p \in Patches :
             /\ candidate' = [candidate EXCEPT !.provider = s, !.patch = p]
             /\ pc' = "screen"
  BY <1>1, <1>2 DEF RepairAttempt
<1>3. CASE (\E e \in Errors : RaiseInside(e)) /\ UNCHANGED candidate
  BY <1>3 DEF RaiseInside
<1>4. QED BY <1>2, <1>3 DEF Propose

LEMMA JudgementNext ==
    ASSUME VerdictInv, JudgementFacts, [Next]_vars
    PROVE  JudgementFacts'
<1> USE DEF VerdictInv
<1>1. CASE UNCHANGED vars
  BY <1>1 DEF vars, locals, JudgementFacts, Evaluated, Judged, Retryable, MustStop, OutcomeOf,
              Earned, Unstartable, Refused
<1>2. CASE Plan
  BY <1>2 DEF Plan, Goto, RaiseOut, JudgementFacts, Evaluated, Unproposed, AtGates
<1>3. CASE BeginAttempt
  BY <1>3, BlankObserves DEF BeginAttempt, RaiseOut, JudgementFacts, Evaluated, Unproposed, AtGates
<1>4. CASE CreateWorktree
  BY <1>4 DEF CreateWorktree, RaiseInside, JudgementFacts, Evaluated, Unproposed, AtGates
<1>5. CASE PrepareRequest
  BY <1>5 DEF PrepareRequest, RaiseInside, JudgementFacts, Evaluated, Unproposed, AtGates
<1>6. CASE Propose
  <2>1. pc = "propose"
    BY <1>6 DEF Propose
  <2>2. QED BY <1>6, <2>1, ProposeObserves DEF JudgementFacts, Evaluated, Unproposed, AtGates
<1>7. CASE EvaluateAttempt
  BY <1>7, ProviderGateJudges, PatchGateJudges, DependencyGateJudges, CompileGateJudges,
     TestGateJudges, VerifierGateJudges DEF EvaluateAttempt
<1>8. CASE RecordAttempt
  <2>1. /\ pc = "record" /\ pc' = "exit" /\ UNCHANGED <<number, candidate>>
    BY <1>8 DEF RecordAttempt, RaiseInside
  <2>2. Judged(candidate) /\ (candidate.status # "VERIFIED" =>
                candidate.feedback = [number |-> number, status |-> candidate.status])
    BY <2>1 DEF JudgementFacts, Evaluated
  <2>3. Judged(candidate)'
    BY <2>1, <2>2 DEF Judged, Retryable, MustStop, OutcomeOf, Earned, Unstartable, Refused
  <2>4. QED BY <2>1, <2>2, <2>3 DEF JudgementFacts, Evaluated, Unproposed, AtGates
<1>9. CASE LeaveWorkspace
  <2>1. /\ pc = "exit" /\ UNCHANGED <<number, candidate>>
        /\ \/ pc' = "raised"
           \/ pc' = "decide" /\ error = "none"
    BY <1>9 DEF LeaveWorkspace, RaiseOut
  <2>2. pc' = "decide" =>
          Judged(candidate) /\ (candidate.status # "VERIFIED" =>
                candidate.feedback = [number |-> number, status |-> candidate.status])
    BY <2>1 DEF JudgementFacts, Evaluated
  <2>3. Judged(candidate) => Judged(candidate)'
    BY <2>1 DEF Judged, Retryable, MustStop, OutcomeOf, Earned, Unstartable, Refused
  <2>4. QED BY <2>1, <2>2, <2>3 DEF JudgementFacts, Evaluated, Unproposed, AtGates
<1>10. CASE Decide
  <2>1. /\ pc = "decide" /\ UNCHANGED <<number, candidate>>
        /\ pc' \in {"export", "finish", "loop"}
    BY <1>10 DEF Decide
  <2>2. Judged(candidate) /\ (candidate.status # "VERIFIED" =>
                candidate.feedback = [number |-> number, status |-> candidate.status])
    BY <2>1 DEF JudgementFacts, Evaluated
  <2>3. Judged(candidate)'
    BY <2>1, <2>2 DEF Judged, Retryable, MustStop, OutcomeOf, Earned, Unstartable, Refused
  <2>4. QED BY <2>1, <2>2, <2>3 DEF JudgementFacts, Evaluated, Unproposed, AtGates
<1>11. CASE ExhaustAttempts \/ ExportFinalPatch \/ Finish \/ Kill
  <2>1. pc' \in {"finish", "done", "raised", "killed"}
    BY <1>11 DEF ExhaustAttempts, Goto, ExportFinalPatch, Finish, RaiseOut, Kill
  <2>2. QED BY <2>1 DEF JudgementFacts, Evaluated, Unproposed, AtGates
<1>12. CASE Terminated
  BY <1>1, <1>12 DEF Terminated
<1>13. QED
  BY <1>1, <1>2, <1>3, <1>4, <1>5, <1>6, <1>7, <1>8, <1>9, <1>10, <1>11, <1>12
     DEF Next, Attempt

\* No gate touches what the attempt was told.
LEMMA GateKeepsFeedbackUsed ==
    ASSUME TypeInv, EvaluateAttempt
    PROVE  candidate'.feedbackUsed = candidate.feedbackUsed
<1>1. candidate \in RepairAttempt
  BY DEF TypeInv, TypeOK
<1> DEFINE Kept(c) == c.feedbackUsed = candidate.feedbackUsed
<1>a. ASSUME NEW c \in RepairAttempt, NEW s, Kept(c) PROVE Kept(Settled(c, s))
  BY <1>a, SettledObserves
<1>2. CASE ProviderGate \/ PatchGate
  <2>1. \/ candidate' = candidate
        \/ \E s : candidate' = Settled(candidate, s)
    BY <1>2 DEF ProviderGate, PatchGate
  <2>2. QED BY <1>1, <1>a, <2>1
<1>3. CASE DependencyGate
  <2>1. PICK tree \in Trees :
          LET judged == [candidate EXCEPT !.dependency = Validate(tree)]
          IN  candidate' \in {judged, Settled(judged, "PATCH_REJECTED")}
    BY <1>3 DEF DependencyGate
  <2> DEFINE d == Validate(tree)
             judged == [candidate EXCEPT !.dependency = d]
  <2>2. d \in DependencyValidation
    BY ValidateSound, VersionAssumption, EngineAssumption DEF EngineAssumption
  <2> HIDE DEF d
  <2>3. judged \in RepairAttempt /\ judged.feedbackUsed = candidate.feedbackUsed
    BY <1>1, <2>2 DEF RepairAttempt
  <2> HIDE DEF judged
  <2>4. Settled(judged, "PATCH_REJECTED").feedbackUsed = judged.feedbackUsed
    BY <2>3, SettledObserves
  <2>5. QED BY <2>1, <2>3, <2>4 DEF d, judged
<1>4. CASE CompileGate
  <2>1. PICK s \in ExecutionStatus :
          LET judged == [candidate EXCEPT !.compile = s]
          IN  candidate' \in {judged, Settled(judged, MavenFailure(s, "COMPILE_FAILED"))}
    BY <1>4 DEF CompileGate
  <2> DEFINE judged == [candidate EXCEPT !.compile = s]
  <2>2. judged \in RepairAttempt /\ judged.feedbackUsed = candidate.feedbackUsed
    BY <1>1 DEF RepairAttempt
  <2> HIDE DEF judged
  <2>3. \A r : Kept(Settled(judged, r))
    BY <2>2, <1>a
  <2>4. candidate' = judged \/ \E r : candidate' = Settled(judged, r)
    BY <2>1 DEF judged
  <2>5. QED BY <2>2, <2>3, <2>4
<1>5. CASE TestGate
  <2>1. PICK s \in ExecutionStatus :
          LET judged == [candidate EXCEPT !.test = s]
          IN  candidate' \in {judged, Settled(judged, MavenFailure(s, "TEST_FAILED"))}
    BY <1>5 DEF TestGate
  <2> DEFINE judged == [candidate EXCEPT !.test = s]
  <2>2. judged \in RepairAttempt /\ judged.feedbackUsed = candidate.feedbackUsed
    BY <1>1 DEF RepairAttempt
  <2> HIDE DEF judged
  <2>3. \A r : Kept(Settled(judged, r))
    BY <2>2, <1>a
  <2>4. candidate' = judged \/ \E r : candidate' = Settled(judged, r)
    BY <2>1 DEF judged
  <2>5. QED BY <2>2, <2>3, <2>4
<1>6. CASE VerifierGate
  <2> DEFINE v == Verify(candidate.dependency, candidate.compile, candidate.test,
                         candidate.patch)
             judged == [candidate EXCEPT !.verification = v]
             winner == [judged EXCEPT !.status = "VERIFIED"]
  <2>1. candidate' \in {winner, Settled(judged, "VERIFICATION_FAILED")}
    BY <1>6 DEF VerifierGate
  <2>2. v \in VerificationStatus
    BY VerifyType
  <2> HIDE DEF v
  <2>3. judged \in RepairAttempt /\ judged.feedbackUsed = candidate.feedbackUsed
    BY <1>1, <2>2 DEF RepairAttempt
  <2> HIDE DEF judged
  <2>4. winner.feedbackUsed = candidate.feedbackUsed
    BY <2>3 DEF RepairAttempt
  <2> HIDE DEF winner
  <2>5. Kept(Settled(judged, "VERIFICATION_FAILED"))
    BY <2>3, <1>a
  <2>6. QED BY <2>1, <2>4, <2>5
<1>7. QED
  BY <1>2, <1>3, <1>4, <1>5, <1>6 DEF EvaluateAttempt

-----------------------------------------------------------------------------
(* From one attempt to the next, step by step.                             *)

LEMMA TypesOfLoop ==
    ASSUME TypeInv
    PROVE  /\ candidate \in RepairAttempt /\ attempts \in Seq(RepairAttempt) /\ disk \in Disk
           /\ number \in Nat /\ Len(attempts) \in Nat
BY EngineAssumption DEF TypeInv, TypeOK, EngineAssumption

\* What is said of the attempts made stays true as long as none is added.
LEMMA HistoryKept ==
    ASSUME FeedbackIsFromPreviousAttempt, OnlyRetryableIsRetried, UNCHANGED <<attempts, number>>
    PROVE  FeedbackIsFromPreviousAttempt' /\ OnlyRetryableIsRetried'
BY DEF FeedbackIsFromPreviousAttempt, OnlyRetryableIsRetried, Retryable

LEMMA LastKept ==
    ASSUME UNCHANGED attempts
    PROVE  /\ LastAttempt' = LastAttempt
           /\ Retryable(LastAttempt) => Retryable(LastAttempt)'
           /\ OutcomeOf(LastAttempt)' = OutcomeOf(LastAttempt)
           /\ Told(attempts)' = Told(attempts)
BY DEF LastAttempt, Retryable, OutcomeOf, Earned, Unstartable, Refused, Told

\* One more attempt that was told what it had to be told.
LEMMA HistoryExtended ==
    ASSUME TypeInv, FeedbackIsFromPreviousAttempt, OnlyRetryableIsRetried,
           candidate.feedbackUsed = Told(attempts), number = Len(attempts) + 1,
           attempts' = Append(attempts, candidate), UNCHANGED number
    PROVE  FeedbackIsFromPreviousAttempt' /\ OnlyRetryableIsRetried'
<1>1. /\ candidate \in RepairAttempt /\ attempts \in Seq(RepairAttempt)
      /\ Len(attempts) \in Nat
  BY TypesOfLoop
<1>2. /\ Len(attempts') = Len(attempts) + 1
      /\ attempts'[Len(attempts) + 1] = candidate
      /\ \A i \in 1..Len(attempts) : attempts'[i] = attempts[i]
  BY <1>1
<1>3. ASSUME NEW i \in 1..Len(attempts')
      PROVE  attempts'[i].feedbackUsed =
                 IF i = 1 THEN NoFeedback
                 ELSE [number |-> i - 1, status |-> attempts'[i - 1].status]
  <2>1. CASE i \in 1..Len(attempts)
    <3>1. attempts[i].feedbackUsed =
              IF i = 1 THEN NoFeedback
              ELSE [number |-> i - 1, status |-> attempts[i - 1].status]
      BY <2>1 DEF FeedbackIsFromPreviousAttempt
    <3>2. i # 1 => i - 1 \in 1..Len(attempts)
      BY <1>1, <2>1
    <3>3. QED BY <1>2, <2>1, <3>1, <3>2
  <2>2. CASE i = Len(attempts) + 1
    <3>1. attempts = <<>> <=> i = 1
      BY <1>1, <2>2
    <3>2. i # 1 => attempts'[i - 1] = attempts[Len(attempts)] /\ i - 1 = Len(attempts)
      BY <1>1, <1>2, <2>2
    <3>3. QED BY <1>2, <2>2, <3>1, <3>2 DEF Told
  <2>3. QED BY <1>1, <1>2, <2>1, <2>2
<1>4. ASSUME NEW i \in 1..Len(attempts'), i < number' PROVE Retryable(attempts'[i])
  <2>1. i \in 1..Len(attempts) /\ i < number
    BY <1>1, <1>2, <1>4
  <2>2. Retryable(attempts[i])
    BY <2>1 DEF OnlyRetryableIsRetried
  <2>3. QED BY <1>2, <2>1, <2>2
<1>5. QED
  BY <1>3, <1>4 DEF FeedbackIsFromPreviousAttempt, OnlyRetryableIsRetried, Retryable

\* The loop goes round only after an attempt that may be retried.
LEMMA BeginHistory ==
    ASSUME VerdictInv, RetryFacts, BeginAttempt
    PROVE  FeedbackIsFromPreviousAttempt' /\ OnlyRetryableIsRetried'
<1>1. /\ pc = "loop" /\ number = Len(attempts) /\ number' = number + 1 /\ UNCHANGED attempts
      /\ number \in Nat /\ attempts \in Seq(RepairAttempt)
  BY TypesOfLoop DEF BeginAttempt, VerdictInv, CountFacts
<1>2. FeedbackIsFromPreviousAttempt'
  BY <1>1 DEF RetryFacts, FeedbackIsFromPreviousAttempt
<1>3. ASSUME NEW i \in 1..Len(attempts) PROVE Retryable(attempts[i])
  <2>1. CASE i < number
    BY <2>1 DEF RetryFacts, OnlyRetryableIsRetried
  <2>2. CASE i = number
    <3>1. attempts # <<>>
      BY <1>1, <2>2
    <3>2. Retryable(LastAttempt)
      BY <1>1, <3>1 DEF RetryFacts
    <3>3. QED BY <1>1, <2>2, <3>2 DEF LastAttempt
  <2>3. QED BY <1>1, <2>1, <2>2
<1>4. QED
  BY <1>1, <1>2, <1>3 DEF OnlyRetryableIsRetried, Retryable

LEMMA RetryNext ==
    ASSUME VerdictInv, JudgementFacts, RetryFacts, [Next]_vars
    PROVE  RetryFacts'
<1> DEFINE Open == {"plan", "loop", "record"} \union Unproposed \union AtGates
<1> USE DEF VerdictInv
<1>a. FeedbackIsFromPreviousAttempt /\ OnlyRetryableIsRetried
  BY DEF RetryFacts
<1>b. TypeInv
  OBVIOUS
<1>1. CASE UNCHANGED vars
  <2>1. UNCHANGED <<pc, feedback, candidate, attempts, number>>
    BY <1>1 DEF vars, locals
  <2>2. QED BY <2>1, <1>a, HistoryKept, LastKept DEF RetryFacts
<1>2. CASE Plan
  <2>1. /\ pc = "plan" /\ pc' \in {"loop", "finish", "raised"}
        /\ UNCHANGED <<number, candidate, attempts, feedback>>
    BY <1>2 DEF Plan, Goto, RaiseOut
  <2>2. attempts = <<>> /\ feedback = NoFeedback
    BY <2>1 DEF RetryFacts
  <2>3. QED BY <2>1, <2>2, <1>a, HistoryKept DEF RetryFacts, Unproposed, AtGates, Told
<1>3. CASE BeginAttempt
  <2>1. /\ pc = "loop" /\ UNCHANGED <<attempts, feedback>>
        /\ \/ pc' = "raised"
           \/ pc' = "create" /\ candidate' = BlankAttempt(number + 1, feedback)
    BY <1>3 DEF BeginAttempt, RaiseOut
  <2>2. pc' = "create" => candidate'.feedbackUsed = Told(attempts)
    BY <2>1, BlankObserves DEF RetryFacts
  <2>3. QED
    BY <1>3, <2>1, <2>2, BeginHistory, LastKept DEF RetryFacts, Unproposed, AtGates
<1>4. CASE CreateWorktree \/ PrepareRequest
  <2>1. /\ pc \in {"create", "prepare"} /\ pc' \in {"prepare", "propose", "exit"}
        /\ UNCHANGED <<number, candidate, attempts, feedback>>
    BY <1>4 DEF CreateWorktree, PrepareRequest, RaiseInside
  <2>2. QED BY <2>1, <1>a, HistoryKept, LastKept DEF RetryFacts, Unproposed, AtGates
<1>5. CASE Propose
  <2>1. pc = "propose" /\ UNCHANGED <<number, attempts, feedback>>
    BY <1>5 DEF Propose
  <2>2. pc' \in {"screen", "exit"} /\ candidate'.feedbackUsed = candidate.feedbackUsed
    BY <1>5, ProposeObserves
  <2>3. QED BY <2>1, <2>2, <1>a, HistoryKept, LastKept DEF RetryFacts, Unproposed, AtGates
<1>6. CASE EvaluateAttempt
  <2>1. /\ pc \in AtGates /\ pc' \in AtGates \union {"record"}
        /\ UNCHANGED <<number, attempts, feedback>>
    BY <1>6, GateType, VersionAssumption, EngineAssumption DEF EvaluateAttempt, AtGates
  <2>2. candidate'.feedbackUsed = candidate.feedbackUsed
    BY <1>6, GateKeepsFeedbackUsed
  <2>3. QED BY <2>1, <2>2, <1>a, HistoryKept, LastKept DEF RetryFacts, Unproposed, AtGates
<1>7. CASE RecordAttempt
  <2>1. /\ pc = "record" /\ pc' = "exit" /\ attempts' = Append(attempts, candidate)
        /\ UNCHANGED number
    BY <1>7 DEF RecordAttempt, RaiseInside
  <2>2. candidate.feedbackUsed = Told(attempts) /\ number = Len(attempts) + 1
    BY <2>1 DEF RetryFacts, CountFacts
  <2>3. QED BY <2>1, <2>2, <1>a, HistoryExtended DEF RetryFacts, Unproposed, AtGates
<1>8. CASE Decide
  <2>1. /\ pc = "decide" /\ pc' \in {"export", "finish", "loop"}
        /\ UNCHANGED <<number, candidate, attempts>>
        /\ feedback' = candidate.feedback
        /\ pc' = "loop" => /\ candidate.status # "VERIFIED"
                          /\ candidate.verification # "NEEDS_HUMAN_REVIEW"
                          /\ ~MustStop(candidate)
    BY <1>8 DEF Decide
  <2>2. /\ number = Len(attempts) /\ attempts # <<>> /\ LastAttempt = candidate
    BY <2>1 DEF CountFacts
  <2>3. pc' = "loop" => /\ Retryable(LastAttempt) /\ OutcomeOf(LastAttempt) = "retryable"
                       /\ feedback' = Told(attempts)
    BY <2>1, <2>2 DEF JudgementFacts, Evaluated, Judged, Told, LastAttempt
  <2>4. QED BY <2>1, <2>3, <1>a, HistoryKept, LastKept DEF RetryFacts, Unproposed, AtGates
<1>9. CASE LeaveWorkspace \/ ExhaustAttempts \/ ExportFinalPatch \/ Finish \/ Kill
  <2>1. /\ pc' \in {"decide", "finish", "done", "raised", "killed"}
        /\ UNCHANGED <<number, attempts>>
    BY <1>9 DEF LeaveWorkspace, ExhaustAttempts, Goto, ExportFinalPatch, Finish, RaiseOut, Kill,
                locals
  <2>2. QED BY <2>1, <1>a, HistoryKept DEF RetryFacts, Unproposed, AtGates
<1>10. CASE Terminated
  BY <1>1, <1>10 DEF Terminated
<1>11. QED
  BY <1>1, <1>2, <1>3, <1>4, <1>5, <1>6, <1>7, <1>8, <1>9, <1>10 DEF Next, Attempt

-----------------------------------------------------------------------------
(* The verification that is published.                                     *)

LEMMA ReportNext ==
    ASSUME VerdictInv, JudgementFacts, RetryFacts, ReportFacts, [Next]_vars
    PROVE  ReportFacts'
<1> USE DEF ReportFacts, Published, InAttempt
<1>a. ASSUME Next, pc \in Running \ {"finish"} PROVE disk'.result = "ABSENT"
  BY <1>a, ResultKept DEF VerdictInv, VerdictFacts
<1>1. CASE UNCHANGED vars
  <2>1. UNCHANGED <<pc, finalVerification, attempts, disk>>
    BY <1>1 DEF vars, locals
  <2>2. QED BY <2>1, LastKept
<1>2. CASE Plan
  <2>1. /\ pc = "plan" /\ pc' \in {"loop", "finish", "raised"}
        /\ UNCHANGED <<attempts, finalVerification>>
    BY <1>2 DEF Plan, Goto, RaiseOut
  <2>2. attempts = <<>>
    BY <2>1 DEF RetryFacts
  <2>3. QED BY <1>2, <1>a, <2>1, <2>2 DEF Next
<1>3. CASE BeginAttempt \/ CreateWorktree \/ PrepareRequest \/ Propose \/ RecordAttempt
  <2>1. /\ pc \in {"loop", "create", "prepare", "propose", "record"}
        /\ pc' \in {"create", "prepare", "propose", "screen", "exit", "raised"}
        /\ UNCHANGED finalVerification
    BY <1>3 DEF BeginAttempt, CreateWorktree, PrepareRequest, Propose, RecordAttempt,
                RaiseInside, RaiseOut
  <2>2. QED BY <1>3, <1>a, <2>1 DEF Next, Attempt
<1>4. CASE EvaluateAttempt
  <2>1. /\ pc \in AtGates /\ pc' \in AtGates \union {"record"}
        /\ UNCHANGED finalVerification
    BY <1>4, GateType, VersionAssumption, EngineAssumption DEF EvaluateAttempt, AtGates, VerdictInv
  <2>2. QED BY <1>4, <1>a, <2>1 DEF AtGates, Next, Attempt
<1>5. CASE LeaveWorkspace
  <2>1. /\ pc = "exit" /\ pc' \in {"decide", "raised"} /\ UNCHANGED finalVerification
    BY <1>5 DEF LeaveWorkspace, RaiseOut
  <2>2. QED BY <1>5, <1>a, <2>1 DEF Next, Attempt
<1>6. CASE ExhaustAttempts
  <2>1. /\ pc = "loop" /\ pc' = "finish" /\ UNCHANGED <<attempts, finalVerification>>
    BY <1>6 DEF ExhaustAttempts, Goto, locals
  <2>2. attempts # <<>> => LastAttempt.verification = NotReached
    BY <2>1 DEF RetryFacts, Retryable
  <2>3. QED BY <1>6, <1>a, <2>1, <2>2, LastKept DEF Next
<1>7. CASE Decide
  <2>1. /\ pc = "decide" /\ pc' \in {"export", "finish", "loop"} /\ UNCHANGED attempts
        /\ finalVerification' = IF candidate.verification # NotReached
                                THEN candidate.verification ELSE finalVerification
        /\ pc' = "loop" => /\ candidate.status # "VERIFIED"
                          /\ candidate.verification # "NEEDS_HUMAN_REVIEW"
    BY <1>7 DEF Decide
  <2>2. attempts # <<>> /\ LastAttempt = candidate
    BY <2>1 DEF VerdictInv, CountFacts
  <2>3. pc' = "loop" => candidate.verification = NotReached
    BY <2>1 DEF JudgementFacts, Evaluated, Judged, Retryable
  <2>4. QED BY <1>7, <1>a, <2>1, <2>2, <2>3, LastKept DEF Next
<1>8. CASE ExportFinalPatch \/ Finish
  <2>1. /\ pc \in {"export", "finish"} /\ pc' \in {"finish", "done", "raised"}
        /\ UNCHANGED <<attempts, finalVerification>>
    BY <1>8 DEF ExportFinalPatch, Finish, RaiseOut
  <2>2. QED BY <2>1, LastKept
<1>9. CASE Kill
  <2>1. /\ pc \in Running /\ pc' = "killed" /\ UNCHANGED <<attempts, finalVerification>>
    BY <1>9 DEF Kill, locals
  <2>2. CASE pc = "finish"
    BY <2>1, <2>2, LastKept
  <2>3. CASE pc # "finish"
    BY <1>9, <1>a, <2>1, <2>3 DEF Next
  <2>4. QED BY <2>2, <2>3
<1>10. CASE Terminated
  BY <1>1, <1>10 DEF Terminated
<1>11. QED
  BY <1>1, <1>2, <1>3, <1>4, <1>5, <1>6, <1>7, <1>8, <1>9, <1>10 DEF Next, Attempt

-----------------------------------------------------------------------------
(* How the run ended.                                                      *)

LEMMA ExportNext ==
    ASSUME TypeInv, ExportFacts, [Next]_vars
    PROVE  ExportFacts'
<1> USE DEF ExportFacts
<1>1. CASE UNCHANGED vars
  BY <1>1 DEF vars, locals
<1>2. CASE Decide
  BY <1>2 DEF Decide
<1>3. CASE EvaluateAttempt
  BY <1>3, GateType, VersionAssumption, EngineAssumption
<1>4. CASE ~EvaluateAttempt /\ ~Decide /\ Next
  <2>1. pc' # "export" \/ UNCHANGED vars
    BY <1>4 DEF Next, Attempt, Plan, Goto, RaiseOut, RaiseInside, BeginAttempt, CreateWorktree,
                PrepareRequest, Propose, RecordAttempt, LeaveWorkspace, ExhaustAttempts,
                ExportFinalPatch, Finish, Kill, Terminated
  <2>2. QED BY <1>1, <2>1
<1>5. QED BY <1>1, <1>2, <1>3, <1>4

LEMMA EndNext ==
    ASSUME VerdictInv, JudgementFacts, RetryFacts, ExportFacts, EndFacts, [Next]_vars
    PROVE  EndFacts'
<1> USE DEF EndFacts
<1>1. CASE UNCHANGED vars
  <2>1. UNCHANGED <<pc, finalStatus, attempts>>
    BY <1>1 DEF vars, locals
  <2>2. QED BY <2>1, LastKept
<1>2. CASE Plan
  <2>1. /\ pc = "plan" /\ pc' \in {"loop", "finish", "raised"} /\ UNCHANGED attempts
        /\ pc' = "finish" => finalStatus' = "NEEDS_HUMAN_REVIEW"
    BY <1>2 DEF Plan, Goto, RaiseOut
  <2>2. attempts = <<>>
    BY <2>1 DEF RetryFacts
  <2>3. QED BY <2>1, <2>2
<1>3. CASE Attempt \/ Kill
  <2>1. pc' \notin {"finish", "done"}
    <3>1. CASE EvaluateAttempt
      BY <3>1, GateType, VersionAssumption, EngineAssumption DEF VerdictInv
    <3>2. CASE ~EvaluateAttempt
      BY <1>3, <3>2 DEF Attempt, BeginAttempt, CreateWorktree, PrepareRequest, Propose,
                        RecordAttempt, LeaveWorkspace, Kill, RaiseInside, RaiseOut
    <3>3. QED BY <3>1, <3>2
  <2>2. QED BY <2>1
<1>4. CASE ExhaustAttempts
  <2>1. /\ pc = "loop" /\ pc' = "finish" /\ UNCHANGED <<attempts, finalStatus>>
        /\ number = MaxRepairAttempts
    BY <1>4 DEF ExhaustAttempts, Goto, locals
  <2>2. number = Len(attempts) /\ finalStatus = "UNRESOLVED"
    BY <2>1 DEF VerdictInv, CountFacts, VerdictFacts
  <2>3. attempts # <<>>
    <3>1. attempts = <<>> => Len(attempts) = 0
      OBVIOUS
    <3>2. QED BY <2>1, <2>2, <3>1, EngineAssumption DEF EngineAssumption
  <2>4. OutcomeOf(LastAttempt) = "retryable"
    BY <2>1, <2>3 DEF RetryFacts
  <2>5. QED BY <2>1, <2>2, <2>3, <2>4, LastKept
<1>5. CASE Decide
  <2>1. /\ pc = "decide" /\ UNCHANGED <<attempts, candidate>>
        /\ \/ pc' \in {"export", "loop"}
           \/ /\ pc' = "finish" /\ candidate.status # "VERIFIED"
              /\ \/ candidate.verification = "NEEDS_HUMAN_REVIEW"
                       /\ finalStatus' = "NEEDS_HUMAN_REVIEW"
                 \/ candidate.verification # "NEEDS_HUMAN_REVIEW"
                       /\ MustStop(candidate) /\ finalStatus' = finalStatus
    BY <1>5 DEF Decide
  <2>2. attempts # <<>> /\ LastAttempt = candidate /\ finalStatus = "UNRESOLVED"
    BY <2>1 DEF VerdictInv, CountFacts, VerdictFacts, InAttempt
  <2>3. Judged(candidate)
    BY <2>1 DEF JudgementFacts, Evaluated
  <2>4. CASE pc' = "finish" /\ candidate.verification = "NEEDS_HUMAN_REVIEW"
    <3>1. OutcomeOf(LastAttempt) = "review" /\ finalStatus' = "NEEDS_HUMAN_REVIEW"
      BY <2>1, <2>2, <2>3, <2>4 DEF Judged, Retryable
    <3>2. QED BY <2>1, <2>2, <2>4, <3>1, LastKept
  <2>5. CASE pc' = "finish" /\ candidate.verification # "NEEDS_HUMAN_REVIEW"
    <3>1. OutcomeOf(LastAttempt) = "stopped" /\ finalStatus' = "UNRESOLVED"
      BY <2>1, <2>2, <2>3, <2>5 DEF Judged, Retryable
    <3>2. QED BY <2>1, <2>2, <2>5, <3>1, LastKept
  <2>6. QED BY <2>1, <2>4, <2>5
<1>6. CASE ExportFinalPatch
  <2>1. pc = "export" /\ pc' \in {"finish", "raised"} /\ UNCHANGED <<attempts, finalStatus, candidate>>
    BY <1>6 DEF ExportFinalPatch, RaiseOut
  <2>2. attempts # <<>> /\ LastAttempt = candidate
    BY <2>1 DEF VerdictInv, CountFacts
  <2>3. OutcomeOf(LastAttempt) = "accepted" /\ finalStatus = "VERIFIED_MIGRATION"
    BY <2>1, <2>2 DEF ExportFacts, JudgementFacts, Evaluated, Judged, Retryable
  <2>4. QED BY <2>1, <2>2, <2>3, LastKept
<1>7. CASE Finish
  <2>1. pc = "finish" /\ UNCHANGED <<attempts, finalStatus>>
    BY <1>7 DEF Finish
  <2>2. QED BY <2>1, LastKept
<1>8. CASE Terminated
  BY <1>1, <1>8 DEF Terminated
<1>9. QED
  BY <1>1, <1>2, <1>3, <1>4, <1>5, <1>6, <1>7, <1>8 DEF Next

-----------------------------------------------------------------------------
(* The run directory.                                                      *)

\* A truncated file changes nothing else in the run directory.
LEMMA TruncateLeaves ==
    ASSUME NEW d \in Disk, NEW left
    PROVE  /\ [d EXCEPT !.partial = @ \union left].directories = d.directories
           /\ [d EXCEPT !.partial = @ \union left].patches = d.patches
           /\ [d EXCEPT !.partial = @ \union left].records = d.records
           /\ [d EXCEPT !.partial = @ \union left].finalPatch = d.finalPatch
           /\ [d EXCEPT !.partial = @ \union left].result = d.result
           /\ [d EXCEPT !.partial = @ \union left].partial = d.partial \union left
BY DEF Disk

LEMMA TruncateFacts ==
    ASSUME TypeInv, NEW file, Truncate(file)
    PROVE  /\ disk'.directories = disk.directories
           /\ disk'.patches = disk.patches
           /\ disk'.records = disk.records
           /\ disk'.finalPatch = disk.finalPatch
           /\ disk'.result = disk.result
           /\ disk'.partial \subseteq disk.partial \union {file}
<1>1. disk \in Disk
  BY DEF TypeInv, TypeOK
<1>2. PICK left \in SUBSET {file} : disk' = [disk EXCEPT !.partial = @ \union left]
  BY DEF Truncate
<1>3. QED BY <1>1, <1>2, TruncateLeaves

LEMMA ArtifactNext ==
    ASSUME VerdictInv, JudgementFacts, ExportFacts, ArtifactFacts, [Next]_vars
    PROVE  ArtifactFacts'
<1> USE DEF ArtifactFacts, Evaluated, AtGates, InAttempt, Published
<1>a. /\ disk \in Disk /\ number \in Numbers \union {0} /\ TypeInv
      /\ pc \in InAttempt => number \in Numbers
  BY DEF VerdictInv, TypeInv, TypeOK
<1>b. number \in Nat
  BY <1>a, EngineAssumption DEF EngineAssumption
<1>c. ASSUME Next, pc \in Running \ {"finish"} PROVE disk'.result = "ABSENT"
  BY <1>c, ResultKept DEF VerdictInv, VerdictFacts
<1>1. CASE UNCHANGED vars
  BY <1>1 DEF vars, locals
<1>2. CASE Plan
  <2>1. /\ pc = "plan" /\ pc' \in {"loop", "finish", "raised"} /\ UNCHANGED <<number, disk>>
        /\ pc' = "finish" => finalStatus' = "NEEDS_HUMAN_REVIEW"
    BY <1>2 DEF Plan, Goto, RaiseOut
  <2>2. QED BY <1>2, <1>c, <2>1 DEF Next
<1>3. CASE BeginAttempt
  <2>1. /\ pc = "loop" /\ pc' \in {"create", "raised"} /\ number' = number + 1
        /\ \/ UNCHANGED disk
           \/ disk' = [disk EXCEPT !.directories = @ \union {number + 1}]
    BY <1>3 DEF BeginAttempt, RaiseOut
  <2>2. /\ disk'.directories \subseteq disk.directories \union {number + 1}
        /\ disk'.finalPatch = disk.finalPatch /\ disk'.partial = disk.partial
    BY <1>a, <2>1 DEF Disk
  <2>3. \A n \in disk'.directories : n <= number'
    <3>1. \A n \in disk.directories : n \in Nat
      BY <1>a, EngineAssumption DEF Disk, EngineAssumption
    <3>2. QED BY <1>b, <2>1, <2>2, <3>1
  <2>4. QED BY <1>3, <1>c, <2>1, <2>2, <2>3 DEF Next, Attempt
<1>4. CASE CreateWorktree \/ PrepareRequest
  <2>1. /\ pc \in {"create", "prepare"} /\ UNCHANGED <<number, disk>>
        /\ pc' \in {"prepare", "propose"} \/ (pc' = "exit" /\ error' # "none")
    BY <1>4 DEF CreateWorktree, PrepareRequest, RaiseInside
  <2>2. QED BY <1>4, <1>c, <2>1 DEF Next, Attempt
<1>5. CASE Propose
  <2>1. /\ pc = "propose" /\ UNCHANGED number
        /\ \/ pc' = "screen" /\ disk' = [disk EXCEPT !.patches = @ \union {number}]
           \/ pc' = "exit" /\ error' # "none" /\ UNCHANGED disk
    BY <1>5 DEF Propose, RaiseInside
  <2>2. /\ disk'.directories = disk.directories
        /\ disk'.finalPatch = disk.finalPatch /\ disk'.partial = disk.partial
        /\ pc' = "screen" => number \in disk'.patches
    BY <1>a, <2>1 DEF Disk
  <2>3. QED BY <1>5, <1>c, <2>1, <2>2 DEF Next, Attempt
<1>6. CASE EvaluateAttempt
  <2>1. /\ pc \in AtGates /\ pc' \in AtGates \union {"record"} /\ UNCHANGED <<number, disk>>
    BY <1>a, <1>6, GateType, VersionAssumption, EngineAssumption DEF EvaluateAttempt
  <2>2. QED BY <1>6, <1>c, <2>1 DEF Next, Attempt
<1>7. CASE RecordAttempt
  <2>1. /\ pc = "record" /\ pc' = "exit" /\ UNCHANGED <<number, candidate>>
        /\ \/ disk' = [disk EXCEPT !.records[number] = candidate.status]
           \/ Truncate("attempt.json") /\ error' # "none"
    BY <1>7 DEF RecordAttempt, RaiseInside
  <2>2. CASE disk' = [disk EXCEPT !.records[number] = candidate.status]
    <3>1. /\ disk'.directories = disk.directories /\ disk'.patches = disk.patches
          /\ disk'.finalPatch = disk.finalPatch /\ disk'.partial = disk.partial
          /\ disk'.records[number] = candidate.status
      BY <1>a, <2>1, <2>2 DEF Disk
    <3>2. QED BY <1>7, <1>c, <2>1, <3>1 DEF Next, Attempt
  <2>3. CASE Truncate("attempt.json") /\ error' # "none"
    BY <1>7, <1>a, <1>c, <2>1, <2>3, TruncateFacts DEF Next, Attempt
  <2>4. QED BY <2>1, <2>2, <2>3
<1>8. CASE LeaveWorkspace
  <2>1. /\ pc = "exit" /\ UNCHANGED <<number, candidate, disk>>
        /\ pc' = "raised" \/ (pc' = "decide" /\ error = "none")
    BY <1>8 DEF LeaveWorkspace, RaiseOut
  <2>2. QED BY <1>8, <1>c, <2>1 DEF Next, Attempt
<1>9. CASE ExhaustAttempts
  <2>1. pc = "loop" /\ pc' = "finish" /\ UNCHANGED <<number, disk, finalStatus>>
    BY <1>9 DEF ExhaustAttempts, Goto, locals
  <2>2. finalStatus = "UNRESOLVED"
    BY <2>1 DEF VerdictInv, VerdictFacts
  <2>3. QED BY <1>9, <1>c, <2>1, <2>2 DEF Next
<1>10. CASE Decide
  <2>1. /\ pc = "decide" /\ pc' \in {"export", "finish", "loop"}
        /\ UNCHANGED <<number, candidate, disk>>
        /\ pc' = "finish" => finalStatus' \in {"NEEDS_HUMAN_REVIEW", finalStatus}
    BY <1>10 DEF Decide
  <2>2. finalStatus = "UNRESOLVED"
    BY <2>1 DEF VerdictInv, VerdictFacts
  <2>3. QED BY <1>10, <1>c, <2>1, <2>2 DEF Next
<1>11. CASE ExportFinalPatch
  <2>1. /\ pc = "export" /\ UNCHANGED <<number, winningAttempt>>
        /\ \/ pc' = "finish" /\ disk' = [disk EXCEPT !.finalPatch = number]
           \/ pc' = "raised" /\ Truncate("final.patch")
    BY <1>11 DEF ExportFinalPatch, RaiseOut
  <2>2. CASE pc' = "finish" /\ disk' = [disk EXCEPT !.finalPatch = number]
    <3>1. /\ disk'.directories = disk.directories /\ disk'.patches = disk.patches
          /\ disk'.records = disk.records /\ disk'.partial = disk.partial
          /\ disk'.finalPatch = number
      BY <1>a, <2>2 DEF Disk
    <3>2. disk.records[number] = "VERIFIED" /\ winningAttempt = number
      BY <2>1 DEF ExportFacts
    <3>3. QED BY <1>11, <1>c, <2>1, <2>2, <3>1, <3>2 DEF Next
  <2>3. CASE pc' = "raised" /\ Truncate("final.patch")
    BY <1>11, <1>a, <1>c, <2>1, <2>3, TruncateFacts DEF Next
  <2>4. QED BY <2>1, <2>2, <2>3
<1>d. ASSUME pc = "finish", UNCHANGED <<number, finalStatus, winningAttempt>>,
             disk' = [disk EXCEPT !.result = finalStatus], pc' \in Stopped
      PROVE  ArtifactFacts'
  <2>1. /\ disk'.directories = disk.directories /\ disk'.patches = disk.patches
        /\ disk'.records = disk.records /\ disk'.partial = disk.partial
        /\ disk'.finalPatch = disk.finalPatch
    BY <1>a, <1>d DEF Disk
  <2>2. QED BY <1>d, <2>1
<1>e. ASSUME pc = "finish", UNCHANGED <<number, finalStatus, winningAttempt>>,
             Truncate("repair-result.json"), pc' \in {"raised", "killed"}
      PROVE  ArtifactFacts'
  BY <1>a, <1>e, TruncateFacts
<1>12. CASE Finish
  <2>1. /\ pc = "finish" /\ UNCHANGED <<number, finalStatus, winningAttempt>>
        /\ \/ pc' \in {"done", "raised"} /\ disk' = [disk EXCEPT !.result = finalStatus]
           \/ pc' = "raised" /\ Truncate("repair-result.json")
    BY <1>12 DEF Finish, WriteResult, RaiseOut
  <2>2. QED BY <2>1, <1>d, <1>e
<1>13. CASE Kill
  <2>1. /\ pc \in Running /\ pc' = "killed"
        /\ UNCHANGED <<number, finalStatus, winningAttempt>>
    BY <1>13 DEF Kill, locals
  <2>2. CASE pc = "finish"
    <3>1. \/ disk' = [disk EXCEPT !.result = finalStatus]
          \/ Truncate("repair-result.json")
      BY <1>13, <2>2 DEF Kill, WriteResult
    <3>2. QED BY <2>1, <2>2, <3>1, <1>d, <1>e
  <2>3. CASE pc # "finish"
    <3>1. UNCHANGED disk \/ \E file \in ArtifactFiles : Truncate(file)
      BY <1>13, <2>3 DEF Kill
    <3>2. /\ disk'.directories = disk.directories /\ disk'.patches = disk.patches
          /\ disk'.records = disk.records /\ disk'.finalPatch = disk.finalPatch
      BY <1>a, <3>1, TruncateFacts
    <3>3. QED BY <1>13, <1>c, <2>1, <2>3, <3>2 DEF Next
  <2>4. QED BY <2>2, <2>3
<1>14. CASE Terminated
  BY <1>1, <1>14 DEF Terminated
<1>15. QED
  BY <1>1, <1>2, <1>3, <1>4, <1>5, <1>6, <1>7, <1>8, <1>9, <1>10, <1>11, <1>12, <1>13, <1>14
     DEF Next, Attempt

-----------------------------------------------------------------------------
(* The invariant, and the properties it gives.                             *)

\* The parts hold together in every reachable state of repair().
THEOREM LoopInvariance == Spec => []LoopInv
<1>1. Init => LoopInv
  BY TypeInit, VerdictInit, LoopInit, VersionAssumption, EngineAssumption
     DEF LoopInv, VerdictInv
<1>2. LoopInv /\ [Next]_vars => LoopInv'
  <2> SUFFICES ASSUME LoopInv, [Next]_vars PROVE LoopInv'
    OBVIOUS
  <2>1. VerdictInv'
    BY TypeNext, VerdictNext, VersionAssumption, EngineAssumption DEF LoopInv, VerdictInv
  <2>2. TypeInv
    BY DEF LoopInv, VerdictInv
  <2>3. WorktreeFacts' /\ JudgementFacts' /\ ExportFacts'
    BY <2>2, WorktreeNext, JudgementNext, ExportNext DEF LoopInv, VerdictInv
  <2>4. RetryFacts' /\ ReportFacts' /\ ArtifactFacts' /\ EndFacts'
    BY RetryNext, ReportNext, ArtifactNext, EndNext DEF LoopInv
  <2>5. QED BY <2>1, <2>3, <2>4 DEF LoopInv
<1>3. QED BY <1>1, <1>2, PTL DEF Spec

\* The with block of repair() gives every attempt a worktree of its own and
\* takes it away again, whatever Git, the clean-up and the attempt itself do.
THEOREM WorktreesAreOwn == Spec => []WorktreesAreTheAttemptsOwn
<1>1. LoopInv => WorktreesAreTheAttemptsOwn
  BY DEF LoopInv, WorktreeFacts, WorktreesAreTheAttemptsOwn, AttemptIsIsolated,
         WorktreesAreRemoved, AtGates
<1>2. QED BY <1>1, LoopInvariance, PTL

\* Every attempt but the first follows one that may be retried and is told what
\* went wrong in it (_must_stop and feedback of repair_engine.py), for any
\* number of attempts.
THEOREM RetriesFollow == Spec => []RetriesFollowFromTheLast
<1>1. LoopInv => RetriesFollowFromTheLast
  BY DEF LoopInv, RetryFacts, RetriesFollowFromTheLast
<1>2. QED BY <1>1, LoopInvariance, PTL

\* The verification in repair-result.json is the last attempt's own, although
\* repair() carries final_verification from one attempt to the next.
THEOREM ReportIsCurrent == Spec => []ReportedVerificationIsCurrent
<1>1. LoopInv => ReportedVerificationIsCurrent
  BY DEF LoopInv, ReportFacts, Published, ReportedVerificationIsCurrent
<1>2. QED BY <1>1, LoopInvariance, PTL

\* Wherever repair() is stopped, by an exception or a kill, final.patch and
\* repair-result.json agree with the attempts on record in the run directory.
THEOREM ArtifactsAlwaysAgree == Spec => []ArtifactsAgree
<1>1. LoopInv => ArtifactsAgree
  BY DEF LoopInv, ArtifactFacts, Published, VerdictInv, VerdictFacts, ArtifactsAgree
<1>2. QED BY <1>1, LoopInvariance, PTL

-----------------------------------------------------------------------------
(* The loop implements RepairContract.                                     *)

\* The outcome and the verdict a caller sees, as Contract maps them.
LastOutcome == IF attempts = <<>> THEN "none" ELSE OutcomeOf(LastAttempt)
Verdict == IF pc = "done" THEN disk.result ELSE IF pc \in Stopped THEN "ABORTED" ELSE "PENDING"

LEMMA ContractStutters ==
    ASSUME UNCHANGED <<attempts, Verdict>>
    PROVE  UNCHANGED Contract!vars
<1>1. UNCHANGED LastOutcome
  BY LastKept DEF LastOutcome
<1>2. QED BY <1>1 DEF Contract!vars, LastOutcome, Verdict

LEMMA ContractAborts ==
    ASSUME UNCHANGED attempts, Verdict = "PENDING", Verdict' = "ABORTED"
    PROVE  Contract!Abort
<1>1. UNCHANGED LastOutcome
  BY LastKept DEF LastOutcome
<1>2. QED BY <1>1 DEF Contract!Abort, LastOutcome, Verdict

\* Before the result is written every step is an attempt, an abort or silent.
LEMMA ContractKeepsUp ==
    ASSUME UNCHANGED attempts, pc \in Running, pc' \in Running \union {"raised", "killed"}
    PROVE  Contract!Abort \/ UNCHANGED Contract!vars
BY ContractStutters, ContractAborts DEF Verdict

LEMMA ContractInit == ASSUME Init PROVE Contract!Init
<1>1. Len(attempts) = 0
  BY DEF Init
<1>2. QED BY <1>1 DEF Init, Contract!Init

\* Recording an attempt is the contract's Try.
LEMMA RecordTries ==
    ASSUME LoopInv, RecordAttempt
    PROVE  Contract!Try
<1>1. /\ pc = "record" /\ pc' = "exit" /\ attempts' = Append(attempts, candidate)
  BY DEF RecordAttempt, RaiseInside
<1>2. /\ attempts \in Seq(RepairAttempt) /\ candidate \in RepairAttempt
      /\ number \in Numbers
  BY <1>1 DEF LoopInv, VerdictInv, TypeInv, TypeOK, InAttempt
<1>3. /\ Len(attempts') = Len(attempts) + 1 /\ attempts' # <<>>
      /\ Len(attempts) < MaxRepairAttempts
  BY <1>1, <1>2, EngineAssumption DEF LoopInv, VerdictInv, CountFacts, EngineAssumption
<1>4. LastOutcome \in {"none", "retryable"}
  BY <1>1 DEF LoopInv, RetryFacts, LastOutcome
<1>5. LastOutcome' \in Contract!Outcomes
  BY <1>3 DEF LastOutcome, OutcomeOf, Contract!Outcomes
<1>6. QED
  BY <1>1, <1>3, <1>4, <1>5 DEF Contract!Try, LastOutcome

\* Writing the result gives the verdict the last outcome calls for.
LEMMA FinishAnswers ==
    ASSUME LoopInv, pc = "finish", pc' = "done", UNCHANGED attempts, disk'.result = finalStatus
    PROVE  Contract!Next
<1>1. Verdict = "PENDING" /\ Verdict' = finalStatus
  BY DEF Verdict
<1>2. UNCHANGED LastOutcome
  BY LastKept DEF LastOutcome
<1>3. attempts = <<>> => Len(attempts) = 0
  OBVIOUS
<1>4. \/ attempts = <<>> /\ finalStatus = "NEEDS_HUMAN_REVIEW"
      \/ attempts # <<>> /\ LastOutcome = "accepted" /\ finalStatus = "VERIFIED_MIGRATION"
      \/ attempts # <<>> /\ LastOutcome = "review" /\ finalStatus = "NEEDS_HUMAN_REVIEW"
      \/ attempts # <<>> /\ LastOutcome = "stopped" /\ finalStatus = "UNRESOLVED"
      \/ attempts # <<>> /\ LastOutcome = "retryable"
            /\ Len(attempts) = MaxRepairAttempts /\ finalStatus = "UNRESOLVED"
  BY DEF LoopInv, EndFacts, LastOutcome
<1>5. QED
  BY <1>1, <1>2, <1>3, <1>4
     DEF Contract!Next, Contract!Decline, Contract!Accept, Contract!HandOver, Contract!GiveUp,
         LastOutcome, Verdict

LEMMA ContractNext ==
    ASSUME LoopInv, [Next]_vars
    PROVE  Contract!Next \/ UNCHANGED Contract!vars
<1>a. TypeInv
  BY DEF LoopInv, VerdictInv
<1>1. CASE UNCHANGED vars
  BY <1>1, ContractStutters DEF vars, locals, Verdict
<1>2. CASE RecordAttempt
  BY <1>2, RecordTries DEF Contract!Next
<1>3. CASE Finish
  <2>1. /\ pc = "finish" /\ UNCHANGED attempts
        /\ \/ pc' = "raised"
           \/ pc' = "done" /\ disk' = [disk EXCEPT !.result = finalStatus]
    BY <1>3 DEF Finish, WriteResult, RaiseOut
  <2>2. CASE pc' = "raised"
    BY <2>1, <2>2, ContractKeepsUp DEF Contract!Next
  <2>3. CASE pc' = "done" /\ disk' = [disk EXCEPT !.result = finalStatus]
    <3>1. disk'.result = finalStatus
      BY <1>a, <2>3 DEF TypeInv, TypeOK, Disk
    <3>2. QED BY <2>1, <2>3, <3>1, FinishAnswers
  <2>4. QED BY <2>1, <2>2, <2>3
<1>4. CASE EvaluateAttempt
  <2>1. UNCHANGED attempts /\ pc \in Running /\ pc' \in Running
    BY <1>a, <1>4, GateType, VersionAssumption, EngineAssumption DEF EvaluateAttempt
  <2>2. QED BY <2>1, ContractKeepsUp DEF Contract!Next
<1>5. CASE Plan \/ BeginAttempt \/ CreateWorktree \/ PrepareRequest
  <2>1. /\ UNCHANGED attempts /\ pc \in Running
        /\ pc' \in Running \union {"raised", "killed"}
    BY <1>5 DEF Plan, Goto, RaiseOut, RaiseInside, BeginAttempt, CreateWorktree, PrepareRequest
  <2>2. QED BY <2>1, ContractKeepsUp DEF Contract!Next
<1>6. CASE Propose \/ LeaveWorkspace \/ ExhaustAttempts \/ Decide \/ ExportFinalPatch \/ Kill
  <2>1. /\ UNCHANGED attempts /\ pc \in Running
        /\ pc' \in Running \union {"raised", "killed"}
    BY <1>6 DEF Propose, LeaveWorkspace, ExhaustAttempts, Goto, locals, Decide,
                ExportFinalPatch, Kill, RaiseOut, RaiseInside
  <2>2. QED BY <2>1, ContractKeepsUp DEF Contract!Next
<1>7. CASE Terminated
  BY <1>1, <1>7 DEF Terminated
<1>8. QED
  BY <1>1, <1>2, <1>3, <1>4, <1>5, <1>6, <1>7 DEF Next, Attempt

\* repair() implements the contract of RepairContract: at most
\* max_repair_attempts attempts, one more only after a retryable one, and a
\* verdict that follows from what was observed in the last.
THEOREM Implements == Spec => ImplementsContract
<1>1. Init => Contract!Init
  BY ContractInit
<1>2. LoopInv /\ [Next]_vars => [Contract!Next]_(Contract!vars)
  BY ContractNext
<1>3. QED BY <1>1, <1>2, LoopInvariance, PTL DEF Spec, ImplementsContract, Contract!Spec
=============================================================================
