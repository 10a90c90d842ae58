# A verification of BumpShield

BumpShield repairs Java projects that a dependency upgrade broke. It reproduces
the failure in two worktrees, diffs the Maven dependency trees, compares the
APIs of the two jars, ranks root-cause hypotheses, plans a migration, and lets a
language model edit a throw-away worktree until an independent verifier accepts
the result or the attempts are used up. A benchmark runner compares this
pipeline with two simpler strategies on a data set of broken upgrades.

This directory holds TLA+ models of that program, the TLC configurations that
check them on small instances, and TLAPS proofs of the results that matter most.
Source paths are relative to the repository root.

## 1. Inventory

### Repair

| component | source | state | operations |
|---|---|---|---|
| Repair engine | `bumpshield/agent/repair_engine.py` | the locals of `repair` (attempts, feedback, the last verification, winner), the run's artifact directory | plan, then per attempt: create a worktree, capture a baseline, call the provider, analyse, validate, compile, test, verify, record, clean up; finally export and write the result |
| Verifier and dependency validator | `bumpshield/execution/verifier.py` | none | `validate`, `verify` (nine checks) |
| Patch analyser | `bumpshield/analysis/patch_analysis.py` | the baseline; Git's index of the worktree | `capture_baseline`, `analyze` |
| Workspace manager | `bumpshield/repo/workspace.py` | worktrees and the temporary directory it owns; Git's worktree records | `create`, `cleanup`, context manager |
| Provider | `bumpshield/agent/provider.py` | none | `repair`: run an external agent in the worktree |
| Git, Maven, javap | `bumpshield/repo/git.py`, `bumpshield/execution/*.py` | none | subprocesses with timeouts |

*Interaction.* Everything is a synchronous call of one thread. The analyser and
Maven look at the same worktree in two ways: Git's and the file system's. The
engine's loop is driven by the answers of the others and by the exceptions they
raise: three classes are turned into `RepairError`, others pass through the
`with` block of the workspace manager untouched.

*Hard.* Any call can fail at any attempt; locals survive from one iteration to
the next; clean-up failures arrive after the attempt has been judged and
recorded; a kill between two files of the artifact directory; what Git reports
of a worktree an arbitrary program edited.

*Correct when* a verified verdict rests on what the last attempt showed, on all
of it and on nothing older; attempts do not contaminate each other; only what
may be retried is retried, and finitely often; artifacts agree with each other;
the patch that is exported is the change that was verified, and stays in scope.

### Diagnosis and planning

| component | source | state | operations |
|---|---|---|---|
| Reproducer and the other analyses | `bumpshield/analysis/reproducer.py`, `bumpshield/run.py`, the services in `failure_parser.py`, `dependency_diff.py`, `api_diff.py`, `agent/*.py` | worktrees, the run directory | validate the repository, claim the run directory, build in worktrees, write artifacts, clean up |
| Failure parser | `bumpshield/analysis/failure_parser.py`, `source_locator.py` | the block being read | parse Maven output, localize, choose the primary failure |
| Dependency diff | `bumpshield/analysis/dependency_diff.py`, `artifact_parser.py` | the active parent of each depth | parse trees, classify changes, resolve the target |
| API evidence | `bumpshield/analysis/{api_diff,type_candidates,jar_inspector,source_usage}.py` | cached jar indexes | decide which artifact owns a class, compare members, locate uses |
| Investigator | `bumpshield/agent/investigator.py` | none | build, merge, score and rank hypotheses; diagnosis status |
| Planner | `bumpshield/agent/repairer.py` | none | plan status, allowed files, scope, bounded source context |

*Interaction.* A pipeline of functions over frozen records, fed by subprocess
output. Every analysis is a call of its own, in a process of its own, that
begins with the ones it builds on; two such processes share the Git repository
and the directory of runs.

*Hard.* Two calls with one run id; a `git worktree add` that is cut off half
way; a clean-up with several steps each of which may fail, on the way out of a
call that failed already; text of several reports in one output, cut off by
limits; jars that cannot be read; more than one owner of a class; a ranking that
must not promote weak evidence over strong.

*Correct when* an answer exists only if the call succeeded, and is true of both
builds; nothing is left in the repository; no failure is lost or mixed with
another; the tree that is kept is the one Maven printed; a supported diagnosis
is true of the archives, whatever could not be read; a plan is ready only for a
true cause, and then allows the failing file and nothing generated.

### Evaluation

| component | source | state | operations |
|---|---|---|---|
| Benchmark runner | `bumpshield/evaluation/runner.py` | the run directory: configuration, run state, one `result.json` per case, strategy and trial, reports | `run` (new, resumed, `--rerun`), `dry_run` |
| Schedule | `bumpshield/evaluation/schedule.py` | none | `counterbalanced_schedule` |
| Failure classification | `bumpshield/evaluation/failures.py` | none | classify provider output, name failure domains, open the circuit breaker |
| Strategies, metrics, reports | `bumpshield/evaluation/{strategies,metrics,report,final_report}.py` | none | run one strategy on one case; aggregate; render |
| Data set lock, freeze, loaders | `bumpshield/evaluation/{dataset,freeze,loader,models,serialization}.py` | lock and freeze files | load, validate, lock, verify, compute digests |

*Interaction.* Processes meet only through files: one writes the run directory,
a later one resumes it; people edit manifests and the frozen configuration while
commands that take hours are running. All files are written in place, none is
locked.

*Hard.* A kill between two writes or within one; a resume with a changed
configuration or data set; a rerun that is itself interrupted; a provider outage
that pauses the run and is read back on resume; the same manifest read twice in
one command; one trial under two headings of a report.

*Correct when* a row is written once, unless a rerun was asked for; the rows of
one run come from one configuration and one data set, and the report names it;
what is published is what is on disk; an outage stops the run at once but is
waited for only once; every prefix of the schedule treats the strategies evenly;
every trial counts once; an interrupted run can be finished.

### Around them

The demo UI (`demo_ui/`) runs its script from top to bottom for every click; its
state is what Streamlit keeps between two runs of it. Hard are clicks while a
script is still at work, and errors between two assignments to the session:
every assignment is a place where the script may stop. Correct when a result is
shown for the task it belongs to, a flag that disables a button is accounted for,
and a session is set right by the next load or investigation that gets through.

The command line and configuration (`bumpshield/cli.py`, `config.py`,
`task_io.py`, `report/generator.py`, `models.py`) parse, render and turn answers
into exit codes; `benchmark/` and `scripts/` hold one-off scripts.

The full list of what can go wrong, each at its line, and of the properties that
watch for it is under `hazards` in `PROJECT.json`; the status of every component
under `components`.

## 2. The modules

| module | models | kind |
|---|---|---|
| `Verification` | the judgement of one patch: analyser's findings, dependency validation, the verifier | operators |
| `RepairEngine` | `repair()` with its environment | state machine over `Verification` |
| `RepairContract` | what a caller of `repair()` relies on | abstract specification |
| `RepairEngineProofs` | | theorems |
| `PatchCapture` | one worktree from baseline to analysed patch, at the level of files | state machine |
| `Analyses` | the analysis calls, the workspace manager and the run directories, two processes at once | state machine |
| `AnalysesProofs` | | theorems |
| `FailureParser` | from a build's output to localized failures | state machine |
| `FailureAndPatchProofs` | | theorems about `FailureParser` and `PatchCapture` |
| `Dependencies` | trees, changes, the target, paths | operators |
| `DependencyTree` | the tree parser, line by line | state machine over `Dependencies` |
| `ApiEvidence` | owners, class and member comparison | operators over `Dependencies` |
| `Investigation` | hypotheses, score, status, ranking, causal chain | operators over `ApiEvidence` |
| `Planning` | usages and the migration plan | operators over `Investigation` |
| `Diagnosis` | one diagnosis and its plan, judged against the world | state machine over `Planning` |
| `DiagnosisProofs` | | theorems about `DependencyTree` and `Diagnosis` |
| `Schedule` | `counterbalanced_schedule` | operators |
| `BenchmarkRunner` | `run()` over the life of a run directory | state machine over `Schedule` |
| `BenchmarkLedger` | what the rows of a resumable run promise | abstract specification |
| `BenchmarkRunnerProofs` | | theorems |
| `TrialResults` | from attempts to rows to the figures of a report | state machine |
| `TrialResultsProofs` | | theorems |
| `DatasetLock` | manifests, lock, frozen configuration, run and final report | state machine |
| `DatasetLockProofs` | | theorems |
| `LiveSession` | the demo UI in live mode | state machine |
| `LiveSessionProofs` | | theorems |
| `MC*` | instances for TLC | |

### `Verification` and `RepairEngine`

An action is one stretch of `repair()` between two calls that may fail, and `pc`
names the next stretch. The locals of the function are variables of the same
names (`attempts`, `feedback`, `finalVerification`, `winningAttempt`,
`finalStatus`; `candidate` is the attempt under construction). `worktrees` is
the set of attempts whose worktree is on disk, `disk` the artifact directory:
per attempt whether `patch.diff` is there and which status `attempt.json` has,
whose patch `final.patch` is, and what `repair-result.json` says; `partial` are
files a failed write left truncated.

`Plan` is all that precedes the loop. `BeginAttempt` is the loop's head,
`CreateWorktree`, `PrepareRequest` and `Propose` are the calls of the `with`
block up to the analysed patch, the six gates of `EvaluateAttempt` are
`_evaluate_attempt`, `RecordAttempt` is `persist_attempt`, `LeaveWorkspace` is
`__exit__`, `Decide` the branch after the block, `ExportFinalPatch` and `Finish`
the end. Of the three files of `persist_result` the first is the one that says
how the run ended; `Finish` may raise, and `Kill` may come, before it is written
and after (`WriteResult`). Each has, beside the normal step, one for every way the calls in it can
raise: `RaiseInside` for an exception that still passes the clean-up, `RaiseOut`
for one that leaves the function. `Kill` may take the place of any step and may
truncate the file being written.

The gates do not decide themselves: they call `Validate`, `GuardAccepts` and
`Verify` of `Verification`. A patch is the sets of files each finding is about, a
dependency tree maps the keys to versions; so a target that resolves to two
nodes, a downgraded or vanished causal dependency and an unreadable tree are
there, and the provider may leave any patch behind whatever its status.

Left out: durations, command lines, texts, the embedded migration report, and
the early artifacts of an attempt nobody reads back.

### `PatchCapture`

`head` is the updated commit, `tree` the worktree, `index` what Git tracks. The
provider writes or deletes files one at a time, in any order (`Edit`). `Analyze`
is `analyze()` whole: untracked files by `git status`, less those with a part
named `target` or `.git`, are marked intent-to-add; the diff compares the index
with `head`; Git may pair any removed with any added files as renames, of which
the parser keeps the new path; then the findings. Contents matter through their
disabling and skipping markers only. What single lines say (dummy returns,
removed assertions) is a nondeterministic finding for review.

### `Analyses`

What a call does in order is data: `Script[service]` is a sequence of steps
(validate, claim, write, open a manager, create a worktree, collect, run,
decide, close) read off the service's code, with the analyses it begins with
inlined. How a step may end is the actions' business: every step that runs a
command may fail for an outside reason (at most `MaxFaults` per behaviour), a
`git worktree add` may be cut off after the directory, or the directory and the
record, exist. `__exit__` is three actions, because each of its steps may fail
while the others still run: `RemoveWorktree` per tracked worktree, `RemoveRoot`,
`Prune`. Which of the three is next, and how a call ends, is `Leave`. `dirs` and `registered` are the worktrees on disk and in Git; pruning
drops every record without a directory, whichever call made it. `builds` is what
the two commits really do; `status` of a call is what it saw of them.

### `FailureParser`

A build is a sequence of reports (compiler diagnostics, failing tests,
summaries, other lines); `Render` prints them, a line being its kind and the
values the parser's regular expressions would take from it. `ParseStream` is
`parse_text` of one stream: the places where a diagnostic, a test or a summary
is found (`Events`), the block of each with its limits, the signal read from it,
and the deduplication. `FinishParsing` is the deduplication over all streams,
`LocalizeNext` and `Conclude` are the locator, the third deduplication, the
contexts and the status. The parser sees lines only; the properties compare what
it makes of them with the reports. The specification is `FailureSpec`, so that
the proofs can speak of it and of `PatchCapture` in one module.

### `Dependencies` and `DependencyTree`

A tree is the sequence of nodes the parser keeps. `Read` takes one line: a
project root, an entry, an omitted entry of a verbose tree, or one that cannot
be used; `parents` is `parent_at_depth`. Nothing is assumed of the lines. The
parser's specification is `ParseSpec`, with `phase` for where it stands, so that
the proofs can speak of it and of `Diagnosis` in one module.
`Dependencies` has the operators the other modules share: the change of a key
between two trees, `FindTarget`, `DependencyPath`.

### `ApiEvidence`, `Investigation`, `Planning`, `Diagnosis`

`Diagnosis` runs the operators of the other three in the order of the services:
`AttributeNext` per candidate type, `CloseBundle` for the analysis status,
`Investigate` for the ranked hypotheses and the diagnosis status, `Plan` for the
usages (searched in a second, fresh checkout) and the plan. `world` is what the
trees, the archives and the project really are. A jar has a `status` (readable,
unlisted, listed twice, unsupported, unreadable), so the code's view and the
truth differ, and the properties judge the answer by the truth.

Names are model values; what matters of a member is its name, kind, parameters
and return type, and of a type in a signature its simple name, because nothing
else is compared. Files are numbered in path order.

### `Schedule` and `BenchmarkRunner`

`Schedule` computes entry `o` of the tuple that the three nested loops build.
`BenchmarkRunner` has one variable for the directory (`disk`) and the locals of
the one process at work. `Start` is a call of `run()`: it makes the directory or
finds it, and brings its own configuration digest and `--rerun`. `Work` is the
rest, one action per write or external call: the drift check, the configuration
file, the run state, then per entry `ResumeRow`, or `ValidateCase`,
`ExecuteStrategy` and `PersistCaseResult`; `RecordResult` with the circuit
breaker and the run state; the report; the final run state. `Interrupt` ends the
process anywhere; with the fault `"torn"` the write it was about to do is cut
short. A torn or missing file is what the code makes of it: no objection in the
drift check, an exception when a row is resumed. The report's files are one
file, and its rows, which the code sorts, keep the order of the schedule.

Validation and strategies answer in every way they can. A strategy that raises
becomes an `EXECUTION_ERROR` row, as in the code.

### `TrialResults`

The inside of what `BenchmarkRunner` leaves open: `TryRepair` is one attempt of
the loop as the strategies see it, `Finish` is `result_from_repair` with the
failure reason, the provider failure and the domain, `Metrics` and `Pair` are
what `metrics.py` and `final_report.py` compute from the rows. What a provider's
output says is the set of failure kinds its text mentions, from which
`ClassifyProviderFailure` picks by the code's precedence.

### `DatasetLock`

`files` are the manifests and the frozen configuration people edit, `lock`,
`run` and `report` what commands write; `pc` and the other variables are the
locals of the one command at work. `Edit` may happen at any moment, within a
command as well as between two (at most `MaxEdits` times), and `StartValidation`
locks the data set as often as anybody likes, runs or no runs. A digest is what
was digested, so equal digests are equal contents. A content's `sound` is what a
build of both commits would show; the text of a manifest is otherwise one value.
Two things are remembered for the properties: what the lock said of a case when
it was measured (`hash` of a row), and whether a file was saved between the looks
a command took at the files before it began to measure (`raced`).

### `LiveSession`

One action per assignment to the session, with the script's work up to it; `pc`
names the assignment that is next. So `reset_run_state` is seven steps
(`ResetRunState`, in the order of `NextReset`), a load is these, the fields and
the directory, and the two handlers are `Submit` or `Repair`, `ClearError`, then
the `try` (`DropRepair` comes before it), `KeepError` for its `except` and
`Finally`. `Interrupt` is a click: inside a `try` the `finally` is still carried
out, before it and in the `finally` itself nothing is. That widget values of a
page are forgotten when it is left, and that a rerun stops the script at its next
access, is Streamlit's behaviour and marked external. `cut` and `settled` are
remembered for the properties: on which page a click came where no `finally` was
left, and whether a load or an investigation has got through.

### Abstract specifications

`RepairContract` knows only how many attempts there were, how the last one came
out and the verdict. The outcome it is given is read off what was *observed* in
the attempt, not off the status the engine recorded, so that the refinement
(`ImplementsContract`) says the engine's statuses lead to the decisions the
observations call for.

`BenchmarkLedger` knows rows, whether the process at work may replace them,
whether it has seen an outage and what is published. `ImplementsLedger` says
that files, positions, resumes and reports amount to no more than that.

## 3. The runs

| run | instance | shows |
|---|---|---|
| `repair` | 3 attempts, 5 patches, 7 trees, all fault classes, fairness; 0.8 M states | the invariants of the repair loop, that it ends, and `ImplementsContract` |
| `verified_lost` | 2 attempts, clean-up faults | `VerifiedIsExported` fails (section 5) |
| `capture` | 6 files, one of each kind, 3 contents, 3 edits, a limit of 1 untracked file; 8.7 M states | an accepted patch stays in scope, and is exact outside `target` |
| `ledger` | 2 cases, 1 strategy, 2 trials, 2 configurations, reruns, an outage, kills; 1.0 M states | `PublishedReportIsOnDisk`, `NoMixedConfig` and `ImplementsLedger` |
| `resume_completes` | 3 cases, 2 strategies, a local failure and an outage, kills and torn writes, fairness; 1.7 M states | `ComparisonIsBalanced`; an interrupted run is completed unless a row is torn |
| `analyses` | 2 calls in 4 pairings, 3 faults, fairness; 0.1 M states | one writer per run, true answers, nothing left behind |
| `trials` | 4 trials: 2 strategies on a direct and a transitive case, 3 provider answers, 1 resume; 1.0 M states | the figures of a report add up; the circuit breaker |
| `dependency_tree` | every output of 4 lines over 3 keys, 2 versions, 3 levels | the parser keeps Maven's tree or refuses it |
| `diagnosis` | some 30000 situations in four families; 0.2 M states | supported diagnoses and ready plans are true |
| `failures` | every build of up to 3 of 18 reports on stdout, or 2 and 1 on stderr, in 6 workspaces; 0.5 M states | no failure is lost, mixed up or misplaced |
| `dataset` | 2 of 3 cases, 4 contents, 2 configurations, 2 edits at any moment, locked as often as one likes; 3.9 M states | a final report names what was measured |
| `session` | 2 upgrades, 2 directories, a click at any assignment; 0.06 M states | what the UI shows is of one upgrade, and which flags may be left up |

### Why the bounds are enough

*Repair.* Three attempts give an attempt with a predecessor and a successor that
both may differ from it, and two retries, so that anything carried over more
than one iteration shows. Every gate has a patch or a tree for each way it
decides; the sets of `MCRepairEngine` name them. In the capture a finding
involves at most two files and a rename two, so three edits leave one to hide
something with; two files may be new, one more than the limit.

*Analyses.* Calls interact through the run directory and Git's records only, two
at a time; the pairings put every analysis against another one, three times with
one run id. Three faults are a step that fails, and two of the clean-up's three.

*Diagnosis.* A situation of each family varies one thing to its full extent:
who owns one class with which declarations and which jars cannot be read; in
which order several classes and a package are named; where a removed class is
used. Each comes with trees in which the library is below the target, beside it,
unchanged, new and gone. Scores are sums of fixed weights per kind of evidence,
so nothing grows with the number of failures. In `failures` three reports give a
block with a predecessor and a successor, and the limits are set so low (3 lines
of a diagnostic, 5 of a test, 2 frames) that blocks are cut. Four lines are the
shortest output in which a level is left and entered again.

*Evaluation.* Two entries (`ledger`) give one before and one after the place a
process is interrupted at; six (`resume_completes`) every rotation of two
strategies over three cases. In `trials` the outage may come first, last or in
between, and a pair may be complete, half done or of invalid cases. The number
of processes is bounded in `trials` only (`MaxResumes`): elsewhere a run
directory may be resumed for ever. In `dataset` a report needs an edit to be
wrong, and a second one may take it back or change the other half of what was
locked; locking, running and resuming are not bounded. The code's 10 direct
and 10 transitive cases are `Direct = Transitive = 1` in `dataset`, and a third
case is there to be swapped in.

Deadlock is checked in `repair`, `capture`, `ledger`, `resume_completes`,
`dataset` and `session`. It is not in `analyses`, `trials`, `dependency_tree`,
`diagnosis` and `failures`, which model calls that return: their last states
have no successor.

Constants that are limits of the model and not of the code: `MaxEdits`,
`MaxFaults`, `MaxResumes`, `MaxDepth`, `MaxLines`, `Worlds`, `Streams`,
`Workspaces`, `Services`, and the finite sets of patches, trees, contents,
results, provider answers and configurations. `MaxRepairAttempts`, `BroadLimit`,
`MaxUntracked`, `MaxAllowedFiles`, `MaxDiagnosticLines`, `MaxTestBlockLines`,
`MaxStackFrames`, `Trials`, `Budget`, `Direct`, `Transitive` and the suites
stand for limits and inputs of the code.

### Fairness

`RepairEngine` under `FairSpec`: weak fairness of its own steps. Each of them is
straight-line Python around one subprocess, and every subprocess runs with a
timeout (`bumpshield/execution/command_runner.py`). `Kill` is not fair.

`Analyses` under `FairSpec`: weak fairness of the steps of each call, for the
same reason; no call waits for another. `WorktreesAreRemovedInTheEnd` is about
calls that are not killed.

`BenchmarkRunner` under `FairSpec`: weak fairness of `Work`, for the same reason,
and of `Start`, which says that somebody resumes a run that is not finished, as
`docs/evaluation-protocol.md:92-96` expects after an outage. `Interrupt` is not fair, and
`InterruptedRunCompletes` asks for completion only if interruptions end.

## 4. The theorems

All are checked by TLAPS, for every value of the constants that satisfies the
named assumptions: any number of attempts, cases, calls, lines or resumes, any
patches, trees, outputs, contents and faults. Every safety property that a
passing run checks is proved; section "What is only model-checked" has the rest.

Each proof has the same shape. The property speaks of the moments that matter
(the end, what is published, what is on record); an inductive invariant says what
has to be true in between, one named conjunct per fact; a lemma per action shows
that it is kept; the theorem reads the property off it.

### The repair loop (`RepairEngineProofs`)

`VerdictCorrect`: `Spec => []VerdictIsEarned`. Whatever the environment does, a
run is reported as verified, in memory or in `repair-result.json`, only if the
last attempt earned it. `VerdictIsEarned` speaks of the end and of the recorded
attempts, so the induction needs to know at every `pc` what the candidate has
shown so far: `VerdictInv` has one clause per gate (past the patch gate the patch
has changes and nothing fatal, past the dependency gate the guard accepted, ...),
that the verifier's verdict together with those implies `Earned`, that the
recorded last attempt is the candidate, and that the final status follows from
it. `TypeCorrect` supplies the types.

`LoopInv` adds what carries over from one attempt to the next: which worktree is
on disk at each `pc`; that a settled attempt's status, verification and
observations call for the same decision (`Judged`, the heart of it: the status
the gates give and the outcome the contract reads off the observations are
computed independently); what the next attempt has to be told; what the run
directory holds. From it follow `WorktreesAreOwn`, `RetriesFollow`,
`ReportIsCurrent`, `ArtifactsAlwaysAgree` and `Implements`:
`Spec => ImplementsContract`, the refinement of `RepairContract`. Under the
mapping `RecordAttempt` is `Try`, `Finish` is one of `Accept`, `HandOver`,
`GiveUp` and `Decline`, every way out by an exception or a kill is `Abort`, and
all other steps stutter.

### Patch capture (`FailureAndPatchProofs`)

`AcceptedPatchIsInScope` and `PatchCaptureIsExact` prove
`AcceptedPatchStaysInScope` and `PatchIsExactOutsideTarget` for any files,
contents, edits and limits. `CaptureInv` says that `head` never changes, that the
index is that of the commit until the analysis extends it, that the baseline is
about the commit although it is read from the worktree, and that the findings
are those of the files compared. The difficulty is renames: the findings are
about `changed`, from which the old paths of renames are missing, and the
property is about the patch. It goes through because an accepted analysis paired
none (`NoRenameAccepted`): Git pairs at most as many removed files as there are
added ones, and an added file is outside every plan's scope. `CaptureTypeCorrect` is the
type invariant. The skips are a sum over a set of files, a fold by a recursive
function; `SumExists` and `SumIsANumber` show by `SetInduction` (see "Trees and
diagnoses") on the size of the set that there is one and that it is a number.

### The benchmark (`BenchmarkRunnerProofs`)

`ScheduleNeverRepeats` and `ScheduleIsComplete`: the entries of
`counterbalanced_schedule` are a bijection with case, strategy and trial, for any
suite. An entry's ordinal is decomposed by division into round and place, and
the rotation of a round is undone modulo the number of strategies. The proofs
about the runner rest on it: a result path identifies an entry.

`ConfigurationIsNeverMixed`: if no write is cut short (`"torn" \notin Faults`),
`Spec => []NoMixedConfig`. `ConfigInv` says that the configuration file is whole
or absent, that no row exists before it, that every row carries its digest, and
that a process past the drift check has the digest of the file or finds none. The
assumption is needed (section 5).

`ReportStaysOnDisk`: `Spec => []PublishedReportIsOnDisk`, under every fault, torn
writes included. The run state says whether a report is published, so `ReportInv`
follows it: a process withdraws the report before it enters its loop
(`~IsPublished` there), what it has in memory is the rows on disk in schedule
order (`InOrder`), `pending` is on disk when it is recorded, and the report it
writes is what it has in memory. `RunnerIsWellTyped` is the type invariant.

`RunImplementsLedger`: `"torn" \notin Faults` implies
`Spec => ImplementsLedger`, step by step on top of `ReportInv` and `ConfigInv`.
A torn `result.json` is a row that is neither there nor absent, for which the
ledger has no name, so the refinement is about the other faults; the run `ledger`
has the same set.

`ComparisonStaysBalanced`: `Spec => []ComparisonIsBalanced`. In every prefix of
the schedule two strategies have been run equally often but for one, over all
and, per repetition, at each position. A round runs each strategy once, and so do
as many successive rounds at one position as there are strategies; a prefix of
`q` full rounds and a part of the next therefore holds `q` or `q + 1` of the
entries counted (an injection from them to the rounds and one back).

### Rows and figures (`TrialResultsProofs`)

`BreakerIsRight`: `Spec => []BreakerFollowsLastFailure`. The invariant says of
each row that the failure the breaker looks at is an outage exactly when the
last failed call was one (`OutageIsKnown`: what the output says and what the
classification makes of it are separate fields), and of the attempts made that
one of the failed calls is the last (`LastFailureInv`). That would be an
induction over the sequence; here it is one over the behaviour.

`FiguresAddUp` and `PairsAreFaithful` prove `EachTrialCountsOnce` and
`PairsAgreeWithTotals`. Every row is filed under exactly one heading
(`FiledOnce`, although status, reason and domain are computed apart), so the rows
selected are a disjoint union of those under each heading; and, as a schedule
does not repeat, the pairs are in bijection with the rows of either strategy.

### The analyses (`AnalysesProofs`)

`RunsHaveOneWriter`, `WorktreesGoAway`, `ReproductionsAreTrue` and
`TheCallerIsToldTheTruth` prove the safety properties of `analyses` for any
number of calls and faults. The scripts are data; what the proofs need of them
(a claim before the first write, worktrees made between `open` and `close`
only, every answer behind the tests it tells of) is `ScriptsAreWellFormed`, an
assumption without constants or variables: it is about the definition `Script`
alone, and TLC evaluates it in full.

`AnalysesInv` relates a call's place in its script to what it has done: the
directory is its own past the claim (`DirectoryInv`), each artifact comes from a
write step its writer has taken (`ArtifactInv`), a recorded status is the build's
or comes from a fault (`StatusInv`), the tests an answer needs were run
(`TestedInv`), an error that was met is never lost on the way through the
clean-up (`ErrorInv`), and unless its clean-up failed a call's worktrees are those
of its open manager (`WorktreeInv`). Every action is of one of five shapes
(`StepShapes`): a call advances, fails, cleans up, leaves the manager or returns;
each conjunct is kept by each shape.

### Trees and diagnoses (`DiagnosisProofs`)

*Induction over data.* `LeastNumber` (a set of numbers that is not empty has a
least one) is the library's theorem on well-founded relations for `<` on `Nat`,
and `SetInduction` (a set that has 0, and `n + 1` with every `n`, is `Nat`)
follows. With them `Walk` shows that a sequence of steps of any length exists, so
that the recursive function `Climb` is what its definition says
(`ClimbUnfolds`). `SetInduction` then takes a set where an induction theorem
would take an operator.

*The parser.* `TheParserIsWellTyped`; `WayUpIsFinite`:
`ParseSpec => []ParentsComeFirst`; `TheTreeIsMavens`:
`ParseSpec => []ParentsAreTheTreesOwn`, for outputs of any length and depth. The
first induction needs what `parent_at_depth` holds: at every depth up to the
current one a key that is among the nodes, and none below an omitted entry. The
second relates it to the text (`TreeInv`): an active parent is the last line
printed at its depth or above in its project, the key of every entry read is
kept, and so a node that is added comes from the first entry for its key.

`PathsReachTheProject`: `ParseSpec => []PathsAreComplete`. Going up one goes back
in the output by a line a step at least (`ChainGoesBack`), so no key is met twice,
and a climb of as many steps as there are nodes has reached a node without a
parent (`ClimbGoesOn`, `PathStartsAtTop`).

*The diagnosis.* `DiagnosisInv` says that every attribution is `Attribute` of the
world and a candidate, that an artifact that could not be read for one of them
left an issue, and that each phase has its result when it is over: the ranking
lists every hypothesis (`OrderListsAll`) in an order no later one beats. What the
operators return then carries the properties:

- `SupportedDiagnosesAreTrue`. A supported hypothesis lacks nothing
  (`SupportedMeans`); a transition is claimed only of jars that were read
  (`TransitionMeans`, `PresenceIsReal`), and a comparison of some overloads tells
  about all of the name (`ComparisonMeans`), so the claim is true (`ClaimIsTrue`).
  The target lies on the path, and every set that is closed under parents
  contains the path (`PathIsInEveryClosedSet`, by induction down from its end).
- `TheLeadIsTheBest`. The weights keep the kinds of hypotheses apart: 95 and more
  if supported, 40 to 80 if supported in part, 35 and less otherwise, for any
  combination of evidence that can occur (`HypothesisMarks`, `ScoresSeparate`).
- `TheChainHolds`. The facts of one attribution never contradict each other
  (`NothingIsInconsistent`, by the shape of the path), and an attribution that
  lacks nothing has every link (`CompleteChain`).
- `TheAnalysisLooksEverywhere`, from the issues alone.
- `ReadyPlansAllowTheFailingFile`. The failing file has priority 0 and no other
  has, so it comes first; and of the files that fewer than `MaxAllowedFiles`
  precede there are no more than that (`FewComeFirst`: counting who precedes is
  an injection).

`TheDiagnosisIsWellTyped` is the type invariant, with every score in `0..100`.

### The failure parser (`FailureAndPatchProofs`)

`NothingIsMixedUp`, `NoReportIsLost` and `PlacesCanBeReliedOn` prove
`FailuresAreNotMixedUp`, `EveryReportIsFound` and `PlacesAreSound` for outputs of
any length, any workspace and any limits; `FailureTypeCorrect` is the type
invariant. The argument follows the text through the passes.

*The text.* `FlattenSeq` is a recursive function; `FlattenHasLayout` shows, by
`SetInduction`, that its parts follow each other without a gap (`IsLayout`). So
there is a place in the text for every report, every line is of one report, and
no two overlap (`IsPrinting`, `TextIsPrinting`). `Render` tells the kinds of a
report's lines: only the first one can begin a block (`KindOfLine`).

*Blocks.* A block ends before the next line of a kind that ends it, at a limit,
or at the end of the text (`DiagnosticEndIs`, `TestEndIs`), and may well run into
reports of other kinds. `LineOfBlock` says what matters of it: a line of a block
is of a report that begins differently, or of the one the block is of. Only a
diagnostic prints a symbol, and only a test an exception or a frame; so whatever
is read from a block is of its own report (`CompilerSignalIs`, `TestSignalIs`).
The block may end in the middle of a trace. `KeepOfCopy` shows that what is kept
of a copy, moved and cut off, comes first in what is kept of the original, so the
frames of a signal are a prefix of the report's.

*Signals.* `IsSignalOf` is what a signal is before it is localized, in terms of
its report alone, and `IsPlaced` what it is after. The failure of a report may be
dropped for an earlier one with the same `Key`; `IsFoundBy` and `IsKnownBy` say
what has to be left in the place of it, before and after localization, and both
are closed under `Key`: if one of two signals with one key tells of a report, so
does the other (`FoundByKey`, `KnownByKey`). `Deduplicate` keeps for every signal
one with its key (`DeduplicateIs`), so no report is lost in any of the three
deduplications. After the third, what is left is `TellsOf` or `SameAsAnother`.
The proof of this step found that the property had been stated too strongly; see
`EveryTestIsPlacedByItsTrace` in section 5.

*The invariant.* `ParsingInv` is the type invariant; that what is unread is of
the build (`UnreadIsPrinted`); that streams are parsed before anything is
localized, and contexts taken at the end (`PhasesAreInOrder`); that every failure
is what some report said, before `next` as it is once localized and from there
on as it was parsed (`AreTold`); and that all that a stream says is found in the
same sense unless the stream is unread (`StreamsAreRead`). `PlacesCanBeReliedOn` reads its first half off `IsPlaced`:
where `Unique` answers at all, its set has that one element (`UniqueIs`).

### Data set and session

`DatasetLockProofs`: `TypeCorrect`; `ReportIsTrueToTheLock` and
`ReportIsTrueToTheFreeze` prove `ReportIsOfLockedDataset` and
`ReportIsOfFrozenConfiguration` without any assumption on when files are saved or
how often the data set is locked. The invariant follows a row from the suite a
process loaded, through the lock it was compared with, to the report. A process
that got past the check without a race has in memory what the lock said, so a row
it measures has that content and the lock's hash beside it, and no later edit or
lock changes either; the report's own check compares the files with the lock once
more. The two exceptions the properties name are the two ways out: a case locked
anew after it was measured, and a race.

`LiveSessionProofs`: `TypeCorrect`, `ResultIsShownForItsTask`,
`FlagsAreAccountedFor` and `SettledIsOfOnePiece` prove `ResultIsOfTheTask`,
`ButtonsComeBack` and `SettledSessionAgrees`, for any upgrades and directories.
The invariant ties the script's place to what it has put into the session so
far, which is what a click may leave behind: that a repair is of the task and the
plan beside it while there is a task, that `reset_run_state` takes the task away
first, and that a flag is up without its handler only where a click was `cut`.

### What is only model-checked

- *Liveness* (`InterruptedRunCompletes`, `WorktreesAreRemovedInTheEnd`, and that
  `repair` ends): it rests on fairness and `ENABLED`, which the provers do not
  handle.
- That nobody waits for ever: the absence of deadlocks, where it is checked, for
  the same reason.

Types: the type invariant of every state machine is proved, the one of `Analyses`
within `AnalysesInv`.

### Assumptions

`SuiteAssumption` and `ScheduleAssumption` are what
`BenchmarkSuite.__post_init__` enforces: there are cases and strategies, and
none twice. `CaptureAssumption` has that there are finitely many files,
`EngineAssumption` the empty patch among those a provider may leave,
`ScriptsAreWellFormed` is discussed above. `WorldsAssumption` says what the
earlier phases hand to a diagnosis: two sequences of nodes as the parser makes
them, a failing line that is localized or not, and a finite checkout; of the
trees not even that their parents come first, for `DependencyPath` copes with any.
`OutcomeAssumption` tells `None` from the outcomes. `StreamsAssumption` says that
a build prints reports, that a workspace has finitely many files, and that `None`,
a `Path` (the file of a signal) and a string (what was reported of it) are never
equal, as they are not in Python: `Key` compares one with the other. The others, `VersionAssumption`,
`RunnerAssumption`, `BudgetAssumption`, `ProviderAssumption`,
`ResumesAssumption`, `AnalysesAssumption`, `KeyAssumption`, `BoundAssumption`,
`ScopeAssumption`, `PlanningAssumption`, `LimitAssumption`, `SessionAssumption`
and `DatasetAssumption`, say what kind of value each constant is. TLC
evaluates all of them on every run of the module that states them.

## 5. Where code and documents disagree

One disagreement has a run of its own:

- `verified_lost`: `repair()` leaves the `with` block, and so removes the
  worktree, before it writes `final.patch`. If the removal fails after an
  attempt that was verified and recorded as `VERIFIED`, the run ends in a
  `RepairError` with neither `final.patch` nor `repair-result.json`, where
  `README.md:74-76` promises export and then removal. (`patch.diff` of the
  attempt is still there.)

The others are stated as definitions at the end of their modules. Adding one as
an INVARIANT to the configuration named shows the behaviour; the neighbouring
property that does hold is in the run.

| definition | configuration | what the code does |
|---|---|---|
| `PatchIsExact` | `MCPatchCapture.cfg` | `_is_generated` drops untracked paths with *any* part named `target`: a new source file of a package `...target...` is compiled and tested but is neither in the patch nor held against the plan's scope |
| `NoMixedConfig` | `MCBenchmarkRunner.cfg`, `Faults = {"crash", "torn"}` | an unreadable `benchmark-config.json` makes the drift check accept any configuration |
| `OutageEvidencePauses` | `MCTrialResults.cfg` | an outage in an earlier attempt of a trial does not pause the run if the last call failed otherwise |
| `AvailableIfEverythingRan`, `ProviderFailedMeansProvider` | `MCTrialResults.cfg` | a Maven time-out in compile or test is reported as `PROVIDER_FAILED` and leaves the secondary rate's denominator |
| `InvalidCasesAreExcluded` | `MCTrialResults.cfg` | after a resume a case may have valid and invalid rows, and the valid ones stay in the denominator |
| `ValidatorFindsTheTarget` | `MCDependencyTree.cfg` | the patch validator refuses a tree in which the target has a second artifact; the analysis takes the canonical one |
| `SupportedOwnerIsUnique` | `MCDiagnosis.cfg` | a changed dependency whose jar cannot be read does not count as an owner, and another one becomes the only one |
| `UnchangedMeansSameDeclaration` | `MCDiagnosis.cfg` | members are compared by the simple names of their types, so `javax.a.T` to `jakarta.a.T` is no change, and contradicts the hypothesis |
| `PackageRemovalIsSeen` | `MCDiagnosis.cfg` | classes of a sub-package keep a package alive |
| `EveryStepHasEvidence` | `MCDiagnosis.cfg` | the step of a failure without a symbol cites nothing |
| `PlanIsAboutTheLead` | `MCDiagnosis.cfg` | with two removed classes of one dependency the plan may be about the other one |
| `GeneratedFailureNeedsReview` | `MCDiagnosis.cfg` | usages are searched in a fresh checkout that has no `target`, so a failing generated file is not seen |
| `PrimaryIsNoWarning` | `MCFailureParser.cfg` | a javac warning with a position becomes a compilation error |
| `EveryTestIsPlacedByItsTrace` | `MCFailureParser.cfg` | two tests that throw the same at the same line of a library become one failure, localized by the trace of the first: no failure has the line where the second one calls it |
| `TestsArePlacedByTheirFrames` | `MCFailureParser.cfg` | a test failure is looked up by the bare file name of its first frame before any frame's class is |
| `LockedCasesAreValid` | `MCDatasetLock.cfg` | `dataset.py:120` "Write canonical lock only after every final case validates": `--write-lock` loads the suite again after hours of validation; what was saved meanwhile is locked |
| `ActionsAreRerunSafe` | `MCLiveSession.cfg` | a running flag is raised before the `try` (`app.py:406`, `667`), so a click right after it, or in the `finally`, leaves it up with nothing running: the button stays disabled until the next load |
| `ResultsAreCleared` | `MCLiveSession.cfg` | a click inside `reset_run_state` (`state.py:78-84`) leaves results of the task it has already taken away |
| `InvestigationComesFirst` | `MCLiveSession.cfg` | an investigation that fails leaves its task together with the plan of the previous one, and the repair page accepts both |
| `OneStateDirectory` | `MCLiveSession.cfg` | the directory entered for an investigation is forgotten when its page is left, and the repair works in the default one |

Six properties that are checked name the exception themselves:
`PatchIsExactOutsideTarget`; `ReportIsOfLockedDataset`, which excepts a case
that was locked anew after it was measured (a resume overwrites the run's
`dataset-lock.json` without comparing it, and keeps the rows) and a manifest
saved between loading and verification; `ReportIsOfFrozenConfiguration`, which
excepts a file saved between the two looks a process takes at it;
`ButtonsComeBack`, which excepts the clicks of `ActionsAreRerunSafe`;
`InterruptedRunCompletes`, which excepts a `result.json` that was cut short (every later resume raises "invalid resumed
result" until somebody deletes it or asks for a rerun); and `AnswerMeansSuccess`,
which excepts the failure analysis (it writes its answer before it cleans up, so
a call that raised may have left one).

## 6. Not modelled

*Text.* Argument parsing, JSON decoding, rendering, prompts, charts; the regular
expressions over Maven, `javap` and `javac` output and the tokenizer of Java
sources. They are sequential functions of one input that tests with recorded
outputs reach well; the models begin where their result is used. So a diagnostic
says what it is about on its first line, as javac prints it, though
`_compiler_signal` would find it on any line of the block; and of the lines in
which `source_usage.py` finds a use only their file and that they are not the
failing line count.

*Ranking of candidate replacement APIs and the bounded repair context.* Their
result is advice in a prompt: nothing is decided by it.

*Recorded walkthrough of the demo UI.* It reads bundles that do not change and
compares digests; `LiveSession` is about the live pages.

*One-off scripts* (`benchmark/`, `scripts/`): each runs once by hand, keeps no
state and stops at the first error.

*Two processes in one benchmark run directory at the same time.* Nothing in the
code prevents it and nothing promises that it works.

*Children of a command that timed out.* `command_runner.py` kills the command
and not what it started; a Maven whose JVM lives on can write into its
worktree only, and no worktree path is used twice.

*The provider* is assumed unable to commit, because the Git directory of a
linked worktree is outside its sandbox.

## 7. Plan

The order follows what a wrong answer costs: a wrong verdict first, then a wrong
measurement, then a wrong diagnosis.

1. *(done)* The repair loop and its judgement, the benchmark's run directory and
   schedule, patch capture.
2. *(done)* The analyses and the workspace manager; failure parser; dependency
   trees; API evidence, investigation and planning; trial results and figures;
   data set lock; live session of the demo UI.
3. *(done)* Proofs: the safety of the repair loop, patch capture, the benchmark
   runner with its schedule, the analyses, the failure parser, trial results, the
   dependency tree's parser and the diagnosis, the data set lock and the session;
   the refinements of `RepairContract` and `BenchmarkLedger`.
4. Next to model: the replay validator of the demo UI (`demo_ui/replay.py`), if
   recordings become something users make.
