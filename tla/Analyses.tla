------------------------------- MODULE Analyses -------------------------------
(***************************************************************************)
(* The read-only analyses: reproduce, dependencies, failures, diagnose     *)
(* (which begins with evidence) and plan.  Each call validates the         *)
(* repository, claims a run directory, works in detached worktrees of its  *)
(* own and appends artifacts.  Calls run in separate processes and share   *)
(* the Git repository and the directory of runs; two may be given one id.  *)
(*                                                                         *)
(* What a call does in order is data (Script); how a step may end, and     *)
(* what the workspace manager does about it, are the actions.              *)
(***************************************************************************)
EXTENDS Naturals, Sequences, SequencesExt

CONSTANTS
    Calls,
    RunIds,
    Services,   \* bound: the analysis and run id each call may be given
    MaxFaults   \* bound: steps that fail for an outside reason

Kinds == {"BASE", "UPDATED"}
Nobody == "nobody"

-----------------------------------------------------------------------------
(* What each analysis does, in order.                                      *)

Step(op, what) == [op |-> op, what |-> what, skip |-> 0]
\* An if statement: the next skip steps are taken only when what holds.
Branch(what, skip) == [op |-> "branch", what |-> what, skip |-> skip]
Writes(names) == [i \in DOMAIN names |-> Step("write", names[i])]

Steps == [op : STRING, what : STRING, skip : Nat]

Enter == <<Step("validate", ""), Step("claim", ""), Step("write", "task.json")>>

ReproductionSteps ==
    Enter \o
    <<Step("open", ""),
      Step("create", "BASE"), Step("test", "BASE"), Step("write", "base-build.log"),
      Branch("passed", 3),
      Step("create", "UPDATED"), Step("test", "UPDATED"), Step("write", "updated-build.log"),
      Step("close", ""),
      Step("write", "reproduction.json")>>

DependencySteps ==
    Enter \o
    <<Step("open", ""),
      Step("create", "BASE"), Step("collect", "tree"), Step("write", "dependencies-before.json"),
      Step("create", "UPDATED"), Step("collect", "tree"), Step("write", "dependencies-after.json"),
      Step("close", ""),
      Step("compare", ""),
      Step("write", "dependency-diff.json")>>

FailureSteps ==
    Enter \o
    <<Step("open", ""), Step("create", "UPDATED"), Step("test", "UPDATED")>> \o
    Writes(<<"updated-build.log", "failures.json", "source-contexts.json",
             "failure-analysis.json">>) \o
    <<Step("close", "")>>

\* ApiEvidenceArtifacts.persist
EvidenceArtifacts ==
    <<"dependencies-before.json", "dependencies-after.json", "dependency-diff.json",
      "updated-build.log", "failures.json", "source-contexts.json",
      "resolved-artifacts-before.json", "resolved-artifacts-after.json",
      "class-attribution.json", "api-evidence.json", "evidence-bundle.json">>

EvidenceSteps ==
    Enter \o
    <<Step("open", ""),
      Step("create", "BASE"), Step("collect", "tree"), Step("collect", "artifacts"),
      Step("create", "UPDATED"), Step("collect", "tree"), Step("collect", "artifacts"),
      Step("compare", ""),
      Step("test", "UPDATED"), Step("conclude", "UPDATED"),
      Step("attribute", ""),
      Step("close", "")>> \o
    Writes(EvidenceArtifacts)

DiagnosisArtifacts == <<"hypotheses.json", "causal-diagnosis.json", "diagnosis.txt">>

DiagnosisSteps == EvidenceSteps \o Writes(DiagnosisArtifacts)

PlanArtifacts == <<"migration-plan.json", "migration-plan.txt", "repair-context.json">>

\* The worktree of the diagnosis is gone: usages are searched in a new one.
PlanSteps ==
    DiagnosisSteps \o
    <<Branch("supported", 5),
      Step("validate", ""), Step("open", ""), Step("create", "UPDATED"),
      Step("usages", ""), Step("close", "")>> \o
    Writes(PlanArtifacts)

Script ==
    [reproduce    |-> ReproductionSteps,
     dependencies |-> DependencySteps,
     failures     |-> FailureSteps,
     diagnose     |-> DiagnosisSteps,
     plan         |-> PlanSteps]

\* The artifact that holds the answer: the last one written.
Answer(service) ==
    LET written == SelectSeq(Script[service], LAMBDA s : s.op = "write")
    IN Last(written).what

\* A manager is open from open to the end of its cleanup.
InsideAt(service, n) ==
    \E i \in 1..(n - 1) :
        /\ Script[service][i].op = "open"
        /\ \A j \in i..(n - 1) : Script[service][j].op # "close"

AnswersAt(service, n) ==
    Script[service][n].op = "write" /\ Script[service][n].what = Answer(service)

-----------------------------------------------------------------------------
(* What the scripts have in common.  They are data: TLC evaluates all of   *)
(* this on every run, and the proofs use nothing else of them.             *)

StartsWithItsDirectory(service) ==
    /\ Len(Script[service]) > 2
    /\ Script[service][1].op = "validate"
    /\ \A n \in DOMAIN Script[service] :
        /\ (Script[service][n].op = "claim") <=> (n = 2)
        /\ Script[service][n].op \in {"create", "test", "conclude"} =>
               Script[service][n].what \in Kinds
        /\ Script[service][n].op = "branch" =>
               Script[service][n].what \in {"passed", "supported"}
        /\ n + Script[service][n].skip \in DOMAIN Script[service]

\* Managers are opened one at a time, every worktree is added inside one, and
\* no if statement jumps into a with statement or out of it.
BracketsItsWorktrees(service) ==
    /\ ~InsideAt(service, Len(Script[service]) + 1)
    /\ \A n \in DOMAIN Script[service] :
        LET step == Script[service][n]
        IN /\ step.op = "open" => ~InsideAt(service, n)
           /\ step.op \in {"create", "close"} => InsideAt(service, n)
           /\ InsideAt(service, n + 1)
                  <=> \/ step.op = "open"
                      \/ InsideAt(service, n) /\ step.op # "close"
           /\ InsideAt(service, n + 1 + step.skip) <=> InsideAt(service, n + 1)

\* The answer is written on every path, and last but for the failure analysis.
EndsWithItsAnswer(service) ==
    /\ \E n \in DOMAIN Script[service] : AnswersAt(service, n)
    /\ \A n \in DOMAIN Script[service] :
        /\ AnswersAt(service, n) /\ service # "failures" => n = Len(Script[service])
        /\ \A m \in (n + 1)..(n + Script[service][n].skip) : ~AnswersAt(service, m)

TestsAt(service, n, kind) ==
    Script[service][n].op = "test" /\ Script[service][n].what = kind

\* The base is tested once, the update only after a base that passed.
TestsInOrder ==
    LET steps == Script["reproduce"]
    IN /\ Answer("reproduce") = "reproduction.json"
       /\ \A service \in DOMAIN Script : \A n \in DOMAIN Script[service] :
              Script[service][n].what = "reproduction.json" => service = "reproduce"
       /\ Len(steps) > 10
       /\ TestsAt("reproduce", 6, "BASE") /\ TestsAt("reproduce", 10, "UPDATED")
       /\ \A n \in DOMAIN steps :
              /\ TestsAt("reproduce", n, "BASE") => n = 6
              /\ steps[n].op = "branch" => n = 8 /\ steps[n].what = "passed"
       /\ Len(Script["failures"]) > 6 /\ TestsAt("failures", 6, "UPDATED")
       /\ \A n \in DOMAIN Script["failures"] : Script["failures"][n].op # "branch"

ASSUME ScriptsAreWellFormed ==
    /\ {"reproduce", "failures"} \subseteq DOMAIN Script
    /\ \A service \in DOMAIN Script :
           /\ Script[service] \in Seq(Steps)
           /\ StartsWithItsDirectory(service)
           /\ BracketsItsWorktrees(service)
           /\ EndsWithItsAnswer(service)
    /\ TestsInOrder

ASSUME AnalysesAssumption ==
    /\ Services \subseteq [Calls -> [service : DOMAIN Script, run : RunIds]]
    /\ Nobody \notin Calls
    /\ MaxFaults \in Nat

-----------------------------------------------------------------------------
VARIABLES
    builds,      \* what each revision's tests do when they finish
    call,        \* per call: where it is and what it has seen
    directory,   \* run directory -> the call that created it
    disk,        \* artifacts: <<run id, name, writer>>
    dirs,        \* worktree directories: <<call, manager, kind>>
    registered,  \* Git's worktree records: <<call, manager, kind>>
    faults

vars == <<builds, call, directory, disk, dirs, registered, faults>>

Worktrees == Calls \X Nat \X Kinds
Modes == {"run", "remove", "prune", "returned", "raised"}
Statuses == {"none", "PASS", "FAIL", "TIMEOUT", "ERROR"}

CallStates ==
    [service : DOMAIN Script, run : RunIds, at : Nat, mode : Modes,
     manager : Nat, tracked : Seq(Kinds), status : [Kinds -> Statuses],
     error : {"none", "step", "cleanup"}, failed : BOOLEAN, dirty : BOOLEAN]

TypeOK ==
    /\ builds \in [Kinds -> {"PASS", "FAIL"}]
    /\ call \in [Calls -> CallStates]
    /\ \A c \in Calls : call[c].at \in 1..(Len(Script[call[c].service]) + 1)
    /\ directory \in [RunIds -> Calls \union {Nobody}]
    /\ \A a \in disk : a[1] \in RunIds /\ a[3] \in Calls
    /\ dirs \subseteq Worktrees /\ registered \subseteq Worktrees
    /\ faults \in 0..MaxFaults

Init ==
    /\ builds \in [Kinds -> {"PASS", "FAIL"}]
    /\ \E assigned \in Services :
        call = [c \in Calls |->
            [service |-> assigned[c].service, run |-> assigned[c].run,
             at |-> 1, mode |-> "run",
             manager |-> 0, tracked |-> <<>>,
             status |-> [k \in Kinds |-> "none"],
             error  |-> "none",    \* what the caller is told
             failed |-> FALSE,     \* a step of the call failed
             dirty  |-> FALSE]]    \* a step of the cleanup failed
    /\ directory = [r \in RunIds |-> Nobody]
    /\ disk = {} /\ dirs = {} /\ registered = {}
    /\ faults = 0

ScriptLen(c) == Len(Script[call[c].service])
Current(c) == Script[call[c].service][call[c].at]
At(c, op) ==
    /\ call[c].mode = "run" /\ call[c].at <= ScriptLen(c)
    /\ Current(c).op = op

Fault == faults < MaxFaults /\ faults' = faults + 1
NoFault == faults' = faults

Inside(c) == InsideAt(call[c].service, call[c].at)

Update(c, state) == call' = [call EXCEPT ![c] = state]
GoOn(c) == Update(c, [call[c] EXCEPT !.at = @ + 1])

\* An exception inside the with statement runs __exit__ first.
Raise(c) ==
    IF Inside(c)
      THEN Update(c, [call[c] EXCEPT !.failed = TRUE, !.mode = "remove"])
      ELSE Update(c, [call[c] EXCEPT !.failed = TRUE, !.mode = "raised", !.error = "step"])

-----------------------------------------------------------------------------
(* The steps of the call.                                                  *)

\* validate_task_repository and require_external_path
Validate(c) ==
    /\ At(c, "validate")
    /\ \/ NoFault /\ GoOn(c)
       \/ Fault /\ Raise(c)
    /\ UNCHANGED <<builds, directory, disk, dirs, registered>>

\* A mutant: an existing directory is used.
ClaimAnyway(c) ==
    /\ At(c, "claim")
    /\ NoFault /\ GoOn(c)
    /\ directory' = [directory EXCEPT ![call[c].run] = c]
    /\ UNCHANGED <<builds, disk, dirs, registered>>

\* mkdir(exist_ok=False)
Claim(c) ==
    /\ At(c, "claim")
    /\ \/ /\ directory[call[c].run] = Nobody
          /\ NoFault /\ GoOn(c)
          /\ directory' = [directory EXCEPT ![call[c].run] = c]
       \/ /\ directory[call[c].run] # Nobody /\ NoFault
          /\ Raise(c) /\ UNCHANGED directory
       \/ Fault /\ Raise(c) /\ UNCHANGED directory
    /\ UNCHANGED <<builds, disk, dirs, registered>>

\* A write that fails may leave a truncated file: it is no artifact.
Write(c) ==
    /\ At(c, "write")
    /\ \/ /\ NoFault /\ GoOn(c)
          /\ disk' = disk \union {<<call[c].run, Current(c).what, c>>}
       \/ Fault /\ Raise(c) /\ UNCHANGED disk
    /\ UNCHANGED <<builds, directory, dirs, registered>>

Condition(c, what) ==
    CASE what = "passed" -> {call[c].status["BASE"] = "PASS"}
      [] what = "supported"   -> BOOLEAN  \* SUPPORTED_DIAGNOSIS with API evidence

Decide(c) ==
    /\ At(c, "branch")
    /\ \E holds \in Condition(c, Current(c).what) :
        Update(c, [call[c] EXCEPT !.at = @ + 1 + (IF holds THEN 0 ELSE Current(c).skip)])
    /\ UNCHANGED <<builds, directory, disk, dirs, registered, faults>>

\* ExecutionStatus of one Maven test run: the build's own result, a time-out,
\* or a command that could not be started.
RunTests(c) ==
    /\ At(c, "test")
    /\ \E s \in {builds[Current(c).what], "TIMEOUT", "ERROR"} :
        /\ IF s = builds[Current(c).what] THEN NoFault ELSE Fault
        /\ Update(c, [call[c] EXCEPT !.at = @ + 1, !.status[Current(c).what] = s])
    /\ UNCHANGED <<builds, directory, disk, dirs, registered>>

\* API evidence needs tests that finished.
Conclude(c) ==
    /\ At(c, "conclude")
    /\ IF call[c].status[Current(c).what] \in {"ERROR", "TIMEOUT"}
         THEN Raise(c)
         ELSE GoOn(c)
    /\ UNCHANGED <<builds, directory, disk, dirs, registered, faults>>

\* A Maven plugin's output file, parsed; an ambiguous tree; source, jar and
\* javap reads.  None of them changes what the call owns.
Collect(c) ==
    /\ \E op \in {"collect", "compare", "attribute", "usages"} : At(c, op)
    /\ \/ NoFault /\ GoOn(c)
       \/ Fault /\ Raise(c)
    /\ UNCHANGED <<builds, directory, disk, dirs, registered>>

-----------------------------------------------------------------------------
(* WorkspaceManager.                                                       *)

Open(c) ==
    /\ At(c, "open")
    /\ Update(c, [call[c] EXCEPT !.at = @ + 1, !.manager = @ + 1, !.tracked = <<>>])
    /\ UNCHANGED <<builds, directory, disk, dirs, registered, faults>>

\* git worktree add may fail or time out after it has made the directory or
\* the record; the manager tracks only worktrees whose add succeeded.
Create(c) ==
    /\ At(c, "create")
    /\ LET worktree == <<c, call[c].manager, Current(c).what>>
       IN \/ /\ NoFault
             /\ Update(c, [call[c] EXCEPT !.at = @ + 1,
                                          !.tracked = Append(@, Current(c).what)])
             /\ dirs' = dirs \union {worktree}
             /\ registered' = registered \union {worktree}
          \/ \E made, recorded \in SUBSET {worktree} :
             /\ Fault /\ Raise(c)
             /\ dirs' = dirs \union made
             /\ registered' = registered \union recorded
    /\ UNCHANGED <<builds, directory, disk>>

Close(c) ==
    /\ At(c, "close")
    /\ Update(c, [call[c] EXCEPT !.mode = "remove"])
    /\ UNCHANGED <<builds, directory, disk, dirs, registered, faults>>

\* cleanup: the last worktree first; an error is kept and the loop goes on.
RemoveWorktree(c) ==
    /\ call[c].mode = "remove" /\ call[c].tracked # <<>>
    /\ LET worktree == <<c, call[c].manager, Last(call[c].tracked)>>
       IN \/ /\ NoFault
             /\ Update(c, [call[c] EXCEPT !.tracked = Front(@)])
             /\ dirs' = dirs \ {worktree} /\ registered' = registered \ {worktree}
          \/ /\ Fault
             /\ Update(c, [call[c] EXCEPT !.tracked = Front(@), !.dirty = TRUE])
             /\ UNCHANGED <<dirs, registered>>
    /\ UNCHANGED <<builds, directory, disk>>

\* A mutant: the clean-up waits for the worktree it could not remove.
WaitForRemoval(c) ==
    /\ call[c].mode = "remove" /\ call[c].tracked = <<>> /\ ~call[c].dirty
    /\ NoFault /\ Update(c, [call[c] EXCEPT !.mode = "prune"])
    /\ dirs' = {w \in dirs : ~(w[1] = c /\ w[2] = call[c].manager)}
    /\ UNCHANGED <<builds, directory, disk, registered>>

\* TemporaryDirectory.cleanup removes everything below the manager's root.
RemoveRoot(c) ==
    /\ call[c].mode = "remove" /\ call[c].tracked = <<>>
    /\ \/ /\ NoFault /\ Update(c, [call[c] EXCEPT !.mode = "prune"])
          /\ dirs' = {w \in dirs : ~(w[1] = c /\ w[2] = call[c].manager)}
       \/ /\ Fault /\ Update(c, [call[c] EXCEPT !.mode = "prune", !.dirty = TRUE])
          /\ UNCHANGED dirs
    /\ UNCHANGED <<builds, directory, disk, registered>>

\* A mutant: the error of the cleanup hides that of the step.
LeaveLoudly(c, dirty) ==
    IF ~call[c].failed /\ ~dirty
      THEN Update(c, [call[c] EXCEPT !.mode = "run", !.at = @ + 1])
      ELSE Update(c, [call[c] EXCEPT !.mode = "raised", !.dirty = dirty,
                                     !.error = IF dirty THEN "cleanup" ELSE "step"])

\* __exit__: a failed cleanup is raised unless a step's own error is on its way.
Leave(c, dirty) ==
    IF ~call[c].failed /\ ~dirty
      THEN Update(c, [call[c] EXCEPT !.mode = "run", !.at = @ + 1])
      ELSE Update(c, [call[c] EXCEPT !.mode = "raised", !.dirty = dirty,
                                     !.error = IF call[c].failed THEN "step" ELSE "cleanup"])

\* A mutant: the manager does not prune.
NoPrune(c) ==
    /\ call[c].mode = "prune"
    /\ NoFault /\ Leave(c, call[c].dirty)
    /\ UNCHANGED <<builds, directory, disk, dirs, registered>>

\* git worktree prune drops every record whose directory is gone, whichever
\* call made it.
Prune(c) ==
    /\ call[c].mode = "prune"
    /\ \/ /\ NoFault /\ Leave(c, call[c].dirty)
          /\ registered' = registered \intersect dirs
       \/ /\ Fault /\ Leave(c, TRUE)
          /\ UNCHANGED registered
    /\ UNCHANGED <<builds, directory, disk, dirs>>

Return(c) ==
    /\ call[c].mode = "run"
    /\ call[c].at = ScriptLen(c) + 1
    /\ Update(c, [call[c] EXCEPT !.mode = "returned"])
    /\ UNCHANGED <<builds, directory, disk, dirs, registered, faults>>

-----------------------------------------------------------------------------
Act(c) ==
    \/ Validate(c) \/ Claim(c) \/ Write(c) \/ Decide(c) \/ RunTests(c)
    \/ Conclude(c) \/ Collect(c)
    \/ Open(c) \/ Create(c) \/ Close(c)
    \/ RemoveWorktree(c) \/ RemoveRoot(c) \/ Prune(c)
    \/ Return(c)

Next == \E c \in Calls : Act(c)

\* Every command a call waits for has a time-out and no call waits for another.
Fairness == \A c \in Calls : WF_vars(Act(c))

Spec == Init /\ [][Next]_vars
FairSpec == Spec /\ Fairness

-----------------------------------------------------------------------------
(* Properties.                                                             *)

Ended(c) == call[c].mode \in {"returned", "raised"}
Owned(c, worktrees) == {w \in worktrees : w[1] = c}
Wrote(c, name) == <<call[c].run, name, c>> \in disk

\* A mutant: a build that timed out counts as one that failed.
TimeoutIsFailure(base, updated) ==
    IF base \in {"TIMEOUT", "ERROR"} THEN "EXECUTION_ERROR"
    ELSE IF base = "FAIL" THEN "BASE_FAILED"
    ELSE IF updated = "PASS" THEN "UPDATED_PASSED"
    ELSE "CONFIRMED"

\* classify_reproduction
Classify(base, updated) ==
    IF base \in {"TIMEOUT", "ERROR"} THEN "EXECUTION_ERROR"
    ELSE IF base = "FAIL" THEN "BASE_FAILED"
    ELSE IF updated \in {"none", "TIMEOUT", "ERROR"} THEN "EXECUTION_ERROR"
    ELSE IF updated = "PASS" THEN "UPDATED_PASSED"
    ELSE "CONFIRMED"

\* reproduction_exit_code
ReproductionExit(verdict) ==
    CASE verdict = "CONFIRMED" -> {0}
      [] verdict \in {"BASE_FAILED", "UPDATED_PASSED"} -> {2}
      [] OTHER -> {1}

\* failure_exit_code: tests that passed, tests whose failures were or were
\* not all located, tests that did not finish.
FailureExit(status) ==
    CASE status = "PASS" -> {2}
      [] status = "FAIL" -> {0, 2}
      [] OTHER -> {1}

\* The exit codes of the command that makes this call.
ExitCodes(c) ==
    IF call[c].mode = "raised" THEN {1}
    ELSE CASE call[c].service = "reproduce" ->
                ReproductionExit(Classify(call[c].status["BASE"], call[c].status["UPDATED"]))
           [] call[c].service = "failures" -> FailureExit(call[c].status["UPDATED"])
           [] OTHER -> {0, 2}

\* No call that ends, in success or by the error of a step, leaves a worktree
\* directory or a Git record behind unless its cleanup said so: not even when
\* git worktree add was cut off half way, so that the manager does not know
\* the worktree exists (WorkspaceManager.cleanup).
NothingIsLeftBehind ==
    \A c \in Calls : Ended(c) /\ ~call[c].dirty =>
        Owned(c, dirs) = {} /\ Owned(c, registered) = {}

\* The artifacts of a run directory come from one call, also when two
\* processes are given one run id and start together.
OneWriterPerRun ==
    \A a, b \in disk : a[1] = b[1] => a[3] = b[3]

\* The answer of an analysis is on disk exactly when the caller got it or is
\* about to: a call that raised left no answer to be taken for a result.  The
\* failure analysis is left out: it writes its answer before it cleans up.
AnswerMeansSuccess ==
    \A c \in Calls : Ended(c) /\ call[c].service # "failures" =>
        (Wrote(c, Answer(call[c].service)) <=> call[c].mode = "returned")

\* A reproduction on disk is right about both revisions: it confirms a break,
\* or denies one, only for builds that do so, and it gives up only when a run
\* was cut off.
ReproductionIsTrue ==
    \A c \in Calls : Wrote(c, "reproduction.json") =>
        LET verdict == Classify(call[c].status["BASE"], call[c].status["UPDATED"])
        IN /\ verdict = "CONFIRMED" => builds = [BASE |-> "PASS", UPDATED |-> "FAIL"]
           /\ verdict = "UPDATED_PASSED" => builds = [k \in Kinds |-> "PASS"]
           /\ verdict = "BASE_FAILED" => builds["BASE"] = "FAIL"
           /\ verdict = "EXECUTION_ERROR" => faults > 0

\* What a script sees: 0 and 2 come with an answer on disk, 0 from reproduce
\* or failures only if the updated build does fail, and 1 only if something
\* went wrong outside or the run directory was taken (cli.main).
ExitCodeIsTrue ==
    \A c \in Calls : Ended(c) => \A code \in ExitCodes(c) :
        /\ code \in {0, 2} => Wrote(c, Answer(call[c].service))
        /\ code = 0 /\ call[c].service \in {"reproduce", "failures"} =>
               builds["UPDATED"] = "FAIL"
        /\ code = 1 => faults > 0 \/ directory[call[c].run] # c

\* The caller is told of the step that failed, and of a failed cleanup only
\* when nothing else went wrong; a cleanup that failed is never silent.
FirstErrorIsReported ==
    \A c \in Calls :
        /\ call[c].mode = "raised" =>
            call[c].error = IF call[c].failed THEN "step" ELSE "cleanup"
        /\ call[c].mode = "returned" => ~call[c].failed /\ ~call[c].dirty

\* What the caller learns, from the artifacts, the exception and the exit code,
\* is one story: AnswerMeansSuccess, ExitCodeIsTrue and FirstErrorIsReported.
CallerIsToldTheTruth == AnswerMeansSuccess /\ ExitCodeIsTrue /\ FirstErrorIsReported

\* Every worktree a call adds is gone in the end, or the cleanup failed: an
\* error in one step of the cleanup does not keep the others from running.
WorktreesAreRemovedInTheEnd ==
    \A c \in Calls :
        Owned(c, dirs \union registered) # {}
            ~> (\/ Owned(c, dirs \union registered) = {}
                \/ Ended(c) /\ call[c].dirty)
=============================================================================
