---------------------------- MODULE RepairEngine ----------------------------
(***************************************************************************)
(* RepairEngine.repair (agent/repair_engine.py): bounded repair attempts,  *)
(* each in a worktree of its own, judged by the operators of Verification. *)
(*                                                                         *)
(* The engine is one thread.  What makes it hard is everything it calls:   *)
(* the planner, Git, the provider, Maven and the file system answer in     *)
(* every way they can, and the process may be killed between two steps.    *)
(* An action is one stretch of repair() between two such calls.  `worktrees' *)
(* and `disk' are outside the process; the other variables are its locals. *)
(***************************************************************************)
EXTENDS Naturals, Sequences, Verification

CONSTANTS
    MaxRepairAttempts,  \* config.max_repair_attempts
    Patches,            \* what the provider may leave in the worktree
    Trees,              \* what dependency:tree may return
    Faults              \* the fault classes of the environment

FaultKinds == {"planning", "io", "git", "cleanup", "crash"}

ASSUME EngineAssumption ==
    /\ MaxRepairAttempts \in Nat \ {0}
    /\ Patches \subseteq PatchAnalysis
    /\ EmptyPatch \in Patches
    /\ Trees \subseteq DependencyTree
    /\ Faults \subseteq FaultKinds

VARIABLES
    pc,                 \* where repair() is
    plan,               \* planning.plan.status
    number,             \* the attempt being made
    candidate,          \* the attempt record being built, or the last one built
    attempts,           \* the attempts made so far
    feedback,           \* evidence for the next provider call
    finalVerification,  \* final_verification: a status, or NotReached
    winningAttempt,     \* 0 for None
    finalStatus,
    error,              \* the exception being raised
    worktrees,          \* the attempts whose worktree is on disk
    disk                \* the artifact directory of the run

locals == <<plan, number, candidate, attempts, feedback, finalVerification,
            winningAttempt, finalStatus, error>>
vars == <<pc, locals, worktrees, disk>>

-----------------------------------------------------------------------------
(* Values.                                                                 *)

Numbers == 1..MaxRepairAttempts

PlanStatus == {"PLAN_READY", "PLAN_PARTIAL", "NEEDS_HUMAN_REVIEW", "NO_ACTIONABLE_DIAGNOSIS"}
ProviderStatus == {"SUCCESS", "ERROR", "TIMEOUT", "UNAVAILABLE"}
MigrationStatus == {"UNRESOLVED", "NEEDS_HUMAN_REVIEW", "VERIFIED_MIGRATION"}
AttemptStatus ==
    {"NO_CHANGES", "PATCH_REJECTED", "COMPILE_FAILED", "TEST_FAILED", "VERIFICATION_FAILED",
     "VERIFIED", "PROVIDER_ERROR", "TIMEOUT", "EXECUTION_ERROR"}

NotReached == "NOT_REACHED"
NotResolved == [execution |-> NotReached]

\* RepairFeedback: the attempt it is about and that attempt's status.
NoFeedback == [number |-> 0, status |-> NotReached]
Feedback == [number : Numbers, status : AttemptStatus] \union {NoFeedback}

RepairAttempt ==
    [number       : Numbers,
     provider     : ProviderStatus \union {NotReached},
     patch        : Patches,
     dependency   : DependencyValidation \union {NotResolved},
     compile      : ExecutionStatus \union {NotReached},
     test         : ExecutionStatus \union {NotReached},
     verification : VerificationStatus \union {NotReached},
     status       : AttemptStatus \union {NotReached},
     feedbackUsed : Feedback,
     feedback     : Feedback]

BlankAttempt(n, used) ==
    [number |-> n, provider |-> NotReached, patch |-> EmptyPatch, dependency |-> NotResolved,
     compile |-> NotReached, test |-> NotReached, verification |-> NotReached,
     status |-> NotReached, feedbackUsed |-> used, feedback |-> NoFeedback]

\* The files of the run directory somebody reads.  `partial' names the ones a
\* failed or interrupted write_text left truncated.
ArtifactFiles == {"attempt.json", "final.patch", "repair-result.json"}
Disk ==
    [directories : SUBSET Numbers,                              \* attempts/<n>/
     patches     : SUBSET Numbers,                              \* attempts/<n>/patch.diff
     records     : [Numbers -> AttemptStatus \union {"ABSENT"}],  \* attempts/<n>/attempt.json
     finalPatch  : Numbers \union {0},                          \* whose patch final.patch is
     result      : MigrationStatus \union {"ABSENT"},           \* repair-result.json
     partial     : SUBSET ArtifactFiles]

Errors == {"RepairError", "GitRepositoryError", "CommandExecutionError", "OSError"}

Running == {"plan", "loop", "create", "prepare", "propose", "screen", "validate", "compile",
            "test", "verify", "record", "exit", "decide", "export", "finish"}
Stopped == {"done", "raised", "killed"}

TypeOK ==
    /\ pc \in Running \union Stopped
    /\ plan \in PlanStatus \union {NotReached}
    /\ number \in Numbers \union {0}
    /\ candidate \in RepairAttempt
    /\ attempts \in Seq(RepairAttempt)
    /\ feedback \in Feedback
    /\ finalVerification \in VerificationStatus \union {NotReached}
    /\ winningAttempt \in Numbers \union {0}
    /\ finalStatus \in MigrationStatus
    /\ error \in Errors \union {"none"}
    /\ worktrees \subseteq Numbers
    /\ disk \in Disk

-----------------------------------------------------------------------------
(* Control.                                                                *)

Init ==
    /\ pc = "plan"
    /\ plan = NotReached
    /\ number = 0
    /\ candidate = BlankAttempt(1, NoFeedback)
    /\ attempts = <<>>
    /\ feedback = NoFeedback
    /\ finalVerification = NotReached
    /\ winningAttempt = 0
    /\ finalStatus = "UNRESOLVED"
    /\ error = "none"
    /\ worktrees = {}
    /\ disk = [directories |-> {}, patches |-> {}, records |-> [n \in Numbers |-> "ABSENT"],
               finalPatch |-> 0, result |-> "ABSENT", partial |-> {}]

Goto(from, to) == pc = from /\ pc' = to

\* An exception inside the with block: the workspace manager's __exit__ runs
\* first.  WorkspaceError, PatchAnalysisError and OSError become RepairError.
RaiseInside(e) == error' = e /\ pc' = "exit"

\* An exception that leaves repair().
RaiseOut(e) == error' = e /\ pc' = "raised"

\* write_text failed: the file may be left truncated.
Truncate(file) ==
    \E left \in SUBSET {file} : disk' = [disk EXCEPT !.partial = @ \union left]

-----------------------------------------------------------------------------
(* Before the loop.                                                        *)

\* planning.plan, the external-path and repository checks, RepairArtifacts:
\* any of them may fail.  A plan that is not ready is never repaired.
Plan ==
    /\ \/ \E s \in PlanStatus :
            /\ plan' = s
            /\ IF s = "PLAN_READY"
               THEN Goto("plan", "loop") /\ UNCHANGED finalStatus
               ELSE Goto("plan", "finish") /\ finalStatus' = "NEEDS_HUMAN_REVIEW"
            /\ UNCHANGED error
       \/ /\ pc = "plan"
          /\ "planning" \in Faults
          /\ \E e \in {"RepairError", "OSError"} : RaiseOut(e)
          /\ UNCHANGED <<plan, finalStatus>>
    /\ UNCHANGED <<number, candidate, attempts, feedback, finalVerification, winningAttempt,
                   worktrees, disk>>

-----------------------------------------------------------------------------
(* One attempt.                                                            *)

\* The mutant that does not count the attempts.
BeginAttemptUnbounded ==
    /\ pc = "loop"
    /\ number' = number + 1
    /\ candidate' = BlankAttempt(number + 1, feedback)
    /\ disk' = [disk EXCEPT !.directories = @ \union {number + 1}]
    /\ pc' = "create"
    /\ UNCHANGED <<plan, attempts, feedback, finalVerification, winningAttempt, finalStatus,
                   error, worktrees>>

\* The head of the loop: attempts/<n>/ is made before the manager exists, so
\* its OSError is not converted; the manager's own one is.
BeginAttempt ==
    /\ pc = "loop"
    /\ number < MaxRepairAttempts
    /\ number' = number + 1
    /\ \/ /\ candidate' = BlankAttempt(number + 1, feedback)
          /\ disk' = [disk EXCEPT !.directories = @ \union {number + 1}]
          /\ pc' = "create"
          /\ UNCHANGED error
       \/ /\ "io" \in Faults
          /\ \/ RaiseOut("OSError") /\ UNCHANGED disk
             \/ /\ RaiseOut("RepairError")
                /\ disk' = [disk EXCEPT !.directories = @ \union {number + 1}]
          /\ UNCHANGED candidate
    /\ UNCHANGED <<plan, attempts, feedback, finalVerification, winningAttempt, finalStatus,
                   worktrees>>

ExhaustAttempts ==
    /\ Goto("loop", "finish")
    /\ number = MaxRepairAttempts
    /\ UNCHANGED <<locals, worktrees, disk>>

\* workspaces.create: Git may fail with the directory already there.
CreateWorktree ==
    /\ pc = "create"
    /\ \/ /\ pc' = "prepare"
          /\ worktrees' = worktrees \union {number}
          /\ UNCHANGED error
       \/ /\ "git" \in Faults
          /\ RaiseInside("RepairError")
          /\ \E left \in SUBSET {number} : worktrees' = worktrees \union left
    /\ UNCHANGED <<plan, number, candidate, attempts, feedback, finalVerification,
                   winningAttempt, finalStatus, disk>>

\* The mutant that tries again when Git fails, without a bound.
PrepareRequestRetrying ==
    /\ pc = "prepare"
    /\ \/ pc' = "propose" /\ UNCHANGED error
       \/ "git" \in Faults /\ pc' = "create" /\ UNCHANGED error
    /\ UNCHANGED <<plan, number, candidate, attempts, feedback, finalVerification,
                   winningAttempt, finalStatus, worktrees, disk>>

\* repository_status, capture_baseline, build and persist the request.  The
\* status call's GitRepositoryError, and the CommandExecutionError of a Git that
\* cannot be started, are none of the exceptions repair() catches.
PrepareRequest ==
    /\ pc = "prepare"
    /\ \/ pc' = "propose" /\ UNCHANGED error
       \/ "git" \in Faults /\ \E e \in {"RepairError", "GitRepositoryError", "CommandExecutionError"} :
             RaiseInside(e)
       \/ "io" \in Faults /\ RaiseInside("RepairError")
    /\ UNCHANGED <<plan, number, candidate, attempts, feedback, finalVerification,
                   winningAttempt, finalStatus, worktrees, disk>>

\* provider.repair and the capture of its patch.  An unavailable provider never
\* started; one that failed or timed out may have edited anything.
Propose ==
    /\ pc = "propose"
    /\ \/ \E s \in ProviderStatus, p \in Patches :
            /\ s = "UNAVAILABLE" => p = EmptyPatch
            /\ candidate' = [candidate EXCEPT !.provider = s, !.patch = p]
            /\ disk' = [disk EXCEPT !.patches = @ \union {number}]
            /\ pc' = "screen"
            /\ UNCHANGED error
       \/ /\ \/ "git" \in Faults /\ \E e \in {"RepairError", "CommandExecutionError"} : RaiseInside(e)
             \/ "io" \in Faults /\ RaiseInside("RepairError")
          /\ UNCHANGED <<candidate, disk>>
    /\ UNCHANGED <<plan, number, attempts, feedback, finalVerification, winningAttempt,
                   finalStatus, worktrees>>

-----------------------------------------------------------------------------
(* _evaluate_attempt: each gate either ends the attempt or lets it go on.  *)

\* The attempt ends with status s and feedback about it.
Settled(c, s) == [c EXCEPT !.status = s, !.feedback = [number |-> number, status |-> s]]

ProviderGate ==
    /\ Goto("screen", "record")
    /\ candidate.provider # "SUCCESS"
    /\ candidate' = Settled(candidate, IF candidate.provider = "TIMEOUT" THEN "TIMEOUT"
                                                                         ELSE "PROVIDER_ERROR")

PatchGate ==
    /\ pc = "screen"
    /\ candidate.provider = "SUCCESS"
    /\ \/ /\ ~HasChanges(candidate.patch)
          /\ candidate' = Settled(candidate, "NO_CHANGES")
          /\ pc' = "record"
       \/ /\ HasChanges(candidate.patch)
          /\ Fatal(candidate.patch)
          /\ candidate' = Settled(candidate, "PATCH_REJECTED")
          /\ pc' = "record"
       \/ /\ HasChanges(candidate.patch)
          /\ ~Fatal(candidate.patch)
          /\ pc' = "validate"
          /\ UNCHANGED candidate

DependencyGate ==
    /\ pc = "validate"
    /\ \E tree \in Trees :
         LET dependency == Validate(tree)
             judged     == [candidate EXCEPT !.dependency = dependency]
         IN  IF GuardAccepts(dependency)
             THEN candidate' = judged /\ pc' = "compile"
             ELSE candidate' = Settled(judged, "PATCH_REJECTED") /\ pc' = "record"

\* The mutant that takes a Maven that could not be run for a failed build.
MavenFailureWithoutError(s, failed) == IF s = "TIMEOUT" THEN "TIMEOUT" ELSE failed

\* The attempt status of a Maven goal that did not pass.
MavenFailure(s, failed) ==
    IF s = "TIMEOUT" THEN "TIMEOUT" ELSE IF s = "ERROR" THEN "EXECUTION_ERROR" ELSE failed

CompileGate ==
    /\ pc = "compile"
    /\ \E s \in ExecutionStatus :
         LET judged == [candidate EXCEPT !.compile = s]
         IN  IF s = "PASS"
             THEN candidate' = judged /\ pc' = "test"
             ELSE /\ candidate' = Settled(judged, MavenFailure(s, "COMPILE_FAILED"))
                  /\ pc' = "record"

TestGate ==
    /\ pc = "test"
    /\ \E s \in ExecutionStatus :
         LET judged == [candidate EXCEPT !.test = s]
         IN  IF s = "PASS"
             THEN candidate' = judged /\ pc' = "verify"
             ELSE /\ candidate' = Settled(judged, MavenFailure(s, "TEST_FAILED"))
                  /\ pc' = "record"

VerifierGate ==
    /\ Goto("verify", "record")
    /\ LET v      == Verify(candidate.dependency, candidate.compile, candidate.test,
                            candidate.patch)
           judged == [candidate EXCEPT !.verification = v]
       IN  candidate' = IF v = "VERIFIED_MIGRATION" THEN [judged EXCEPT !.status = "VERIFIED"]
                        ELSE Settled(judged, "VERIFICATION_FAILED")

EvaluateAttempt ==
    /\ ProviderGate \/ PatchGate \/ DependencyGate \/ CompileGate \/ TestGate \/ VerifierGate
    /\ UNCHANGED <<plan, number, attempts, feedback, finalVerification, winningAttempt,
                   finalStatus, error, worktrees, disk>>

\* attempts.append, then persist_attempt, whose last file is attempt.json.
RecordAttempt ==
    /\ pc = "record"
    /\ attempts' = Append(attempts, candidate)
    /\ \/ /\ disk' = [disk EXCEPT !.records[number] = candidate.status]
          /\ pc' = "exit"
          /\ UNCHANGED error
       \/ "io" \in Faults /\ Truncate("attempt.json") /\ RaiseInside("RepairError")
    /\ UNCHANGED <<plan, number, candidate, feedback, finalVerification, winningAttempt,
                   finalStatus, worktrees>>

\* The mutant that logs every clean-up error and goes on.
LeaveWorkspaceSwallowing ==
    /\ pc = "exit"
    /\ \E left \in SUBSET worktrees : worktrees' = left
    /\ pc' = IF error = "none" THEN "decide" ELSE "raised"
    /\ UNCHANGED <<plan, number, candidate, attempts, feedback, finalVerification,
                   winningAttempt, finalStatus, error, disk>>

\* WorkspaceManager.__exit__.  Failed clean-up is an error of its own only when
\* no other one is being raised; it may leave the worktree behind.
LeaveWorkspace ==
    /\ pc = "exit"
    /\ \/ /\ worktrees' = worktrees \ {number}
          /\ pc' = IF error = "none" THEN "decide" ELSE "raised"
          /\ UNCHANGED error
       \/ /\ "cleanup" \in Faults
          /\ \E left \in SUBSET {number} :
               worktrees' = (worktrees \ {number}) \union (left \intersect worktrees)
          /\ RaiseOut(IF error = "none" THEN "RepairError" ELSE error)
    /\ UNCHANGED <<plan, number, candidate, attempts, feedback, finalVerification,
                   winningAttempt, finalStatus, disk>>

-----------------------------------------------------------------------------
(* After an attempt.                                                       *)

MustStop(attempt) ==
    \/ attempt.provider = "UNAVAILABLE"
    \/ attempt.status \in {"PATCH_REJECTED", "EXECUTION_ERROR"}

\* The mutant that tries again after a review verdict.
DecideRetryingReview ==
    /\ pc = "decide"
    /\ feedback' = candidate.feedback
    /\ finalVerification' = IF candidate.verification # NotReached THEN candidate.verification
                            ELSE finalVerification
    /\ IF candidate.status = "VERIFIED"
       THEN winningAttempt' = number /\ finalStatus' = "VERIFIED_MIGRATION" /\ pc' = "export"
       ELSE /\ UNCHANGED <<winningAttempt, finalStatus>>
            /\ pc' = IF MustStop(candidate) THEN "finish" ELSE "loop"
    /\ UNCHANGED <<plan, number, candidate, attempts, error, worktrees, disk>>

\* The mutant that sends the first attempt's feedback to every later one.
DecideKeepingFeedback ==
    /\ pc = "decide"
    /\ feedback' = IF feedback = NoFeedback THEN candidate.feedback ELSE feedback
    /\ UNCHANGED finalVerification
    /\ IF candidate.status = "VERIFIED"
       THEN winningAttempt' = number /\ finalStatus' = "VERIFIED_MIGRATION" /\ pc' = "export"
       ELSE /\ UNCHANGED <<winningAttempt, finalStatus>>
            /\ pc' = IF MustStop(candidate) \/ candidate.verification # NotReached
                     THEN "finish" ELSE "loop"
    /\ UNCHANGED <<plan, number, candidate, attempts, error, worktrees, disk>>

\* The tail of the loop body: accept, hand over to a human, stop or retry.
Decide ==
    /\ pc = "decide"
    /\ feedback' = candidate.feedback
    /\ finalVerification' = IF candidate.verification # NotReached THEN candidate.verification
                            ELSE finalVerification
    /\ \/ /\ candidate.status = "VERIFIED"
          /\ winningAttempt' = number
          /\ finalStatus' = "VERIFIED_MIGRATION"
          /\ pc' = "export"
       \/ /\ candidate.status # "VERIFIED"
          /\ UNCHANGED winningAttempt
          /\ IF candidate.verification = "NEEDS_HUMAN_REVIEW"
             THEN finalStatus' = "NEEDS_HUMAN_REVIEW" /\ pc' = "finish"
             ELSE /\ UNCHANGED finalStatus
                  /\ pc' = IF MustStop(candidate) THEN "finish" ELSE "loop"
    /\ UNCHANGED <<plan, number, candidate, attempts, error, worktrees, disk>>

\* The mutant that ignores a failed write of final.patch.
ExportIgnoringFailure ==
    /\ pc = "export"
    /\ pc' = "finish"
    /\ \/ disk' = [disk EXCEPT !.finalPatch = number]
       \/ "io" \in Faults /\ Truncate("final.patch")
    /\ UNCHANGED <<plan, number, candidate, attempts, feedback, finalVerification,
                   winningAttempt, finalStatus, error, worktrees>>

\* persist_final_patch of the winner; an OSError here is not converted.
ExportFinalPatch ==
    /\ pc = "export"
    /\ \/ /\ disk' = [disk EXCEPT !.finalPatch = number]
          /\ pc' = "finish"
          /\ UNCHANGED error
       \/ "io" \in Faults /\ Truncate("final.patch") /\ RaiseOut("OSError")
    /\ UNCHANGED <<plan, number, candidate, attempts, feedback, finalVerification,
                   winningAttempt, finalStatus, worktrees>>

\* The first of the files of persist_result; verification.json and
\* migration-report.txt come after it and say the same.
WriteResult == disk' = [disk EXCEPT !.result = finalStatus]

\* _finish and persist_result: any of the files may fail to be written.
Finish ==
    /\ pc = "finish"
    /\ \/ WriteResult /\ pc' = "done" /\ UNCHANGED error
       \/ /\ "io" \in Faults
          /\ Truncate("repair-result.json") \/ WriteResult
          /\ RaiseOut("OSError")
    /\ UNCHANGED <<plan, number, candidate, attempts, feedback, finalVerification,
                   winningAttempt, finalStatus, worktrees>>

\* The process is killed; a file being written at that moment stays truncated.
Kill ==
    /\ "crash" \in Faults
    /\ pc \in Running
    /\ pc' = "killed"
    /\ CASE pc = "record" -> Truncate("attempt.json")
         [] pc = "export" -> Truncate("final.patch")
         [] pc = "finish" -> Truncate("repair-result.json") \/ WriteResult
         [] OTHER -> UNCHANGED disk
    /\ UNCHANGED <<locals, worktrees>>

\* repair() has returned or raised.
Terminated == pc \in Stopped /\ UNCHANGED vars

Attempt == BeginAttempt \/ CreateWorktree \/ PrepareRequest \/ Propose \/ EvaluateAttempt
           \/ RecordAttempt \/ LeaveWorkspace

Next ==
    \/ Plan
    \/ Attempt
    \/ ExhaustAttempts
    \/ Decide
    \/ ExportFinalPatch
    \/ Finish
    \/ Kill
    \/ Terminated

\* Every call repair() makes is bounded by a timeout, so it never waits for
\* ever: weak fairness of its own steps, none of Kill.
Spec == Init /\ [][Next]_vars
FairSpec == Spec /\ WF_vars(Plan \/ Attempt \/ ExhaustAttempts \/ Decide \/ ExportFinalPatch
                            \/ Finish)

-----------------------------------------------------------------------------
(* What the loop promises.                                                 *)

\* Every guarantee of a verified migration was observed in the attempt itself:
\* the provider ended well, Git saw a harmless patch inside the plan's scope,
\* the patched graph still resolves the upgraded versions, and Maven compiled
\* it and passed its tests.
Earned(attempt) ==
    /\ attempt.provider = "SUCCESS"
    /\ HasChanges(attempt.patch)
    /\ ~Fatal(attempt.patch)
    /\ ~Suspicious(attempt.patch)
    /\ attempt.dependency.execution = "PASS"
    /\ attempt.dependency.resolved_target_version = TargetVersion
    /\ CausalExpected => attempt.dependency.resolved_causal_version = CausalVersion
    /\ attempt.compile = "PASS"
    /\ attempt.test = "PASS"

LastAttempt == attempts[Len(attempts)]

\* A run is reported VERIFIED_MIGRATION, in memory or in repair-result.json,
\* only for the last attempt made and only if that attempt earned it
\* (repair_engine.py:186-190 through the gates of _evaluate_attempt).
VerdictIsEarned ==
    "VERIFIED_MIGRATION" \in {finalStatus, disk.result} =>
        /\ attempts # <<>>
        /\ winningAttempt = Len(attempts)
        /\ Earned(LastAttempt)

\* The verification published with the result is the last attempt's own: the
\* `attempt.verification or final_verification' of line 185 never carries an
\* earlier attempt's verdict into the result.
ReportedVerificationIsCurrent ==
    disk.result # "ABSENT" =>
        finalVerification = IF attempts = <<>> THEN NotReached ELSE LastAttempt.verification

\* What a reader finds in the run directory agrees, whenever the process
\* stopped: final.patch belongs to an attempt on record as VERIFIED, the last
\* one begun, and a result that says VERIFIED has a whole final.patch.
ArtifactsAgree ==
    /\ disk.finalPatch # 0 =>
         /\ disk.records[disk.finalPatch] = "VERIFIED"
         /\ disk.finalPatch \in disk.patches
         /\ \A n \in disk.directories : n <= disk.finalPatch
    /\ disk.result = "VERIFIED_MIGRATION" =>
         /\ disk.finalPatch = winningAttempt
         /\ "final.patch" \notin disk.partial

\* While an attempt is worked on its worktree is the only one of the run: no
\* edit of an earlier attempt can reach a later one.
AttemptIsIsolated ==
    pc \in {"prepare", "propose", "screen", "validate", "compile", "test", "verify", "record"}
        => worktrees = {number}

\* Each attempt is told exactly what went wrong in the one just before it.
FeedbackIsFromPreviousAttempt ==
    \A i \in 1..Len(attempts) :
        attempts[i].feedbackUsed =
            IF i = 1 THEN NoFeedback
            ELSE [number |-> i - 1, status |-> attempts[i - 1].status]

Retryable(attempt) ==
    /\ attempt.status \in {"NO_CHANGES", "COMPILE_FAILED", "TEST_FAILED", "PROVIDER_ERROR",
                           "TIMEOUT"}
    /\ attempt.provider # "UNAVAILABLE"
    /\ attempt.verification = NotReached

\* An attempt follows only one that may be retried: never a rejected patch, a
\* verdict of the verifier, or a provider or a Maven that could not be run.
OnlyRetryableIsRetried ==
    \A i \in 1..Len(attempts) : i < number => Retryable(attempts[i])

\* A repair that returns leaves no worktree behind, and one that raises at most
\* that of its last attempt: a failed clean-up is never passed over for another
\* attempt, and without one nothing is left (WorkspaceManager.__exit__).
WorktreesAreRemoved ==
    /\ pc = "done" => worktrees = {}
    /\ pc = "raised" => worktrees \subseteq IF "cleanup" \in Faults THEN {number} ELSE {}

\* No attempt works on what another one left, during the run (AttemptIsIsolated)
\* or after it (WorktreesAreRemoved): the with block of repair_engine.py:147-180.
WorktreesAreTheAttemptsOwn == AttemptIsIsolated /\ WorktreesAreRemoved

\* Whatever follows an attempt follows from it: a retry only where one is
\* allowed, and told what went wrong (repair_engine.py:184-199).
RetriesFollowFromTheLast == FeedbackIsFromPreviousAttempt /\ OnlyRetryableIsRetried

\* A repair comes to a result or an exception: the attempts are bounded and
\* nothing is tried again without one.
ResultOrError == <>(disk.result # "ABSENT" \/ error # "none" \/ pc = "killed")

\* README.md:74-76 promises that successful patches are exported "and removes
\* repair worktrees afterward": when repair() is over, an attempt on record as
\* VERIFIED has its final.patch.
VerifiedIsExported ==
    pc \in {"done", "raised"} =>
        \A n \in Numbers : disk.records[n] = "VERIFIED" => disk.finalPatch = n

-----------------------------------------------------------------------------
(* The abstract contract, with the outcome of an attempt read off what was *)
(* observed in it and not off the status the engine gave it.               *)

Unstartable(attempt) == attempt.provider = "UNAVAILABLE"

\* The candidate got past the provider and is unacceptable or unjudgeable.
Refused(attempt) ==
    /\ attempt.provider = "SUCCESS"
    /\ HasChanges(attempt.patch)
    /\ \/ Fatal(attempt.patch)
       \/ attempt.dependency # NotResolved /\ ~GuardAccepts(attempt.dependency)
       \/ "ERROR" \in {attempt.compile, attempt.test}

OutcomeOf(attempt) ==
    IF Earned(attempt) THEN "accepted"
    ELSE IF Unstartable(attempt) \/ Refused(attempt) THEN "stopped"
    ELSE IF attempt.test = "PASS" THEN "review"
    ELSE "retryable"

Contract == INSTANCE RepairContract WITH
    Max     <- MaxRepairAttempts,
    tried   <- Len(attempts),
    outcome <- IF attempts = <<>> THEN "none" ELSE OutcomeOf(LastAttempt),
    verdict <- IF pc = "done" THEN disk.result
               ELSE IF pc \in Stopped THEN "ABORTED" ELSE "PENDING"

\* repair() implements the contract.
ImplementsContract == Contract!Spec
=============================================================================
