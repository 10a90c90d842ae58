-------------------------- MODULE BenchmarkRunner ---------------------------
(***************************************************************************)
(* BenchmarkRunner.run (evaluation/runner.py): a benchmark run directory   *)
(* worked on by one process after another.  The first one creates it, the  *)
(* later ones resume it, with or without --rerun and with a configuration  *)
(* that may have changed; any of them may be killed between two steps or   *)
(* in the middle of a write.  `disk' is the directory, the other variables *)
(* are the locals of the process at work.                                  *)
(***************************************************************************)
EXTENDS Naturals, Sequences, FiniteSets, Schedule

CONSTANTS
    Configs,         \* configuration digests a process may compute
    Reruns,          \* values of --rerun a process may be given
    Results,         \* what a strategy returns: its status and failure kind
    Faults           \* "crash": a process may be killed; "torn": within a write

FinalStatus == {"VERIFIED_MIGRATION", "UNRESOLVED", "NEEDS_HUMAN_REVIEW"}
ProviderFailureKind ==
    {"PROVIDER_UNAVAILABLE", "PROVIDER_TIMEOUT", "PROVIDER_QUOTA_EXHAUSTED",
     "PROVIDER_AUTH_FAILURE", "PROVIDER_SERVICE_UNAVAILABLE", "PROVIDER_NONZERO_EXIT",
     "PROVIDER_UNKNOWN_ERROR"}
NoFailure == "none"

ASSUME RunnerAssumption ==
    /\ Configs # {} /\ Configs \subseteq STRING
    /\ Reruns # {} /\ Reruns \subseteq BOOLEAN
    /\ Results \subseteq [status : FinalStatus, failure : ProviderFailureKind \union {NoFailure}]
    /\ Faults \subseteq {"crash", "torn"}

VARIABLES
    pc,          \* where run() is; "idle" when no process is at work
    config,      \* config_hash
    rerun,
    ordinal,     \* the schedule entry at hand
    results,     \* the rows of the entries before it
    validations, \* per case, what this process found out about it
    pending,     \* the row of an executed entry
    status,      \* RUNNING, or PAUSED once the circuit breaker opened
    disk

locals == <<config, rerun, ordinal, results, validations, pending, status>>
vars == <<pc, locals, disk>>

-----------------------------------------------------------------------------
(* Values.                                                                 *)

Absent == [kind |-> "absent"]
Torn == [kind |-> "torn"]

RowStatus == FinalStatus \union {"INVALID_CASE", "EXECUTION_ERROR"}
Row == [kind : {"row"}, status : RowStatus, failure : ProviderFailureKind \union {NoFailure},
        hash : Configs]
MakeRow(s, f) == [kind |-> "row", status |-> s, failure |-> f, hash |-> config]

ConfigFile == [kind : {"config"}, hash : Configs] \union {Absent, Torn}
RunStatus == {"RUNNING", "PAUSED_PROVIDER_UNAVAILABLE", "COMPLETED"}
StateFile ==
    [kind : {"state"}, status : RunStatus, completed : 0..Planned, hash : Configs]
        \union {Absent, Torn}
ReportFile == [kind : {"report"}, rows : Seq(Row)] \union {Absent, Torn}
Disk ==
    [created : BOOLEAN,                               \* the run directory
     config  : ConfigFile,                            \* benchmark-config.json
     rows    : [Paths -> Row \union {Absent, Torn}],  \* each result.json
     state   : StateFile,                             \* benchmark-run.json
     report  : ReportFile]                            \* results.json and its summaries

Whole(file) == file \notin {Absent, Torn}

NoRow == Absent
NoConfig == ""
Unvalidated == [c \in CaseIds |-> "UNKNOWN"]

TypeOK ==
    /\ pc \in {"idle", "check", "configure", "open", "loop", "execute", "persist", "record",
               "report", "close"}
    /\ config \in Configs \union {NoConfig}
    /\ rerun \in BOOLEAN
    /\ ordinal \in 1..(Planned + 1)
    /\ results \in Seq(Row)
    /\ validations \in [CaseIds -> {"UNKNOWN", "VALID", "INVALID_CASE"}]
    /\ pending \in Row \union {NoRow}
    /\ status \in RunStatus
    /\ disk \in Disk

Init ==
    /\ pc = "idle"
    /\ config = NoConfig
    /\ rerun = FALSE
    /\ ordinal = 1
    /\ results = <<>>
    /\ validations = Unvalidated
    /\ pending = NoRow
    /\ status = "RUNNING"
    /\ disk = [created |-> FALSE, config |-> Absent, rows |-> [p \in Paths |-> Absent],
               state |-> Absent, report |-> Absent]

\* The process ends and its locals with it.
Gone ==
    /\ pc' = "idle"
    /\ config' = NoConfig
    /\ rerun' = FALSE
    /\ ordinal' = 1
    /\ results' = <<>>
    /\ validations' = Unvalidated
    /\ pending' = NoRow
    /\ status' = "RUNNING"

-----------------------------------------------------------------------------
(* Opening a run.                                                          *)

\* A new run makes its directory; a later one finds it.
Start ==
    /\ pc = "idle"
    /\ pc' = "check"
    /\ config' \in Configs
    /\ rerun' \in IF disk.created THEN Reruns ELSE {FALSE}
    /\ disk' = [disk EXCEPT !.created = TRUE]
    /\ UNCHANGED <<ordinal, results, validations, pending, status>>

\* The mutant that only warns about a changed configuration.
CheckResumeConfigurationWarning ==
    /\ pc = "check"
    /\ pc' = "configure"
    /\ UNCHANGED <<locals, disk>>

\* _check_resume_configuration.  A missing or unreadable file is no objection.
CheckResumeConfiguration ==
    /\ pc = "check"
    /\ IF Whole(disk.config) /\ disk.config.hash # config
       THEN Gone
       ELSE pc' = "configure" /\ UNCHANGED locals
    /\ UNCHANGED disk

\* _persist_configuration.
PersistConfiguration ==
    /\ pc = "configure"
    /\ pc' = "open"
    /\ disk' = [disk EXCEPT !.config = [kind |-> "config", hash |-> config]]
    /\ UNCHANGED locals

\* _persist_run_state.
RunState(s, completed) ==
    [kind |-> "state", status |-> s, completed |-> completed, hash |-> config]

\* The first _persist_run_state, before the loop.
OpenRun ==
    /\ pc = "open"
    /\ pc' = "loop"
    /\ disk' = [disk EXCEPT !.state = RunState(status, 0)]
    /\ UNCHANGED locals

-----------------------------------------------------------------------------
(* The loop over the schedule.                                             *)

Path == ResultPath(ordinal)
Existing == disk.rows[Path]

\* The mutant that leaves the rows of earlier processes out of the report.
ResumeRowForgetting ==
    /\ pc = "loop"
    /\ ordinal <= Planned
    /\ Existing # Absent /\ ~rerun
    /\ IF Existing = Torn
       THEN Gone /\ UNCHANGED disk
       ELSE /\ disk' = [disk EXCEPT !.state = RunState(status, ordinal)]
            /\ ordinal' = ordinal + 1
            /\ UNCHANGED <<pc, config, rerun, results, validations, pending, status>>

\* The mutant whose circuit breaker opens again for an outage of the past.
ResumeRowPausing ==
    /\ pc = "loop"
    /\ ordinal <= Planned
    /\ Existing # Absent /\ ~rerun
    /\ IF Existing = Torn
       THEN Gone /\ UNCHANGED disk
       ELSE /\ results' = Append(results, Existing)
            /\ disk' = [disk EXCEPT !.state = RunState(status, ordinal)]
            /\ ordinal' = ordinal + 1
            /\ IF Existing.failure = "PROVIDER_QUOTA_EXHAUSTED"
               THEN status' = "PAUSED_PROVIDER_UNAVAILABLE" /\ pc' = "report"
               ELSE UNCHANGED <<pc, status>>
            /\ UNCHANGED <<config, rerun, validations, pending>>

\* An entry with a row: it is loaded, or run() raises.
ResumeRow ==
    /\ pc = "loop"
    /\ ordinal <= Planned
    /\ Existing # Absent /\ ~rerun
    /\ IF Existing = Torn
       THEN Gone /\ UNCHANGED disk
       ELSE /\ results' = Append(results, Existing)
            /\ disk' = [disk EXCEPT !.state = RunState(status, ordinal)]
            /\ ordinal' = ordinal + 1
            /\ UNCHANGED <<pc, config, rerun, validations, pending, status>>

\* The case is validated once per process.
ValidateCase ==
    /\ pc = "loop"
    /\ ordinal <= Planned
    /\ Existing = Absent \/ rerun
    /\ LET case == schedule[ordinal].case
       IN  \E v \in IF validations[case] = "UNKNOWN" THEN {"VALID", "INVALID_CASE"}
                    ELSE {validations[case]} :
             /\ validations' = [validations EXCEPT ![case] = v]
             /\ IF v = "INVALID_CASE"
                THEN pending' = MakeRow("INVALID_CASE", NoFailure) /\ pc' = "persist"
                ELSE UNCHANGED pending /\ pc' = "execute"
    /\ UNCHANGED <<config, rerun, ordinal, results, status, disk>>

\* strategy.run returns a result or raises.
ExecuteStrategy ==
    /\ pc = "execute"
    /\ pc' = "persist"
    /\ \/ \E r \in Results : pending' = MakeRow(r.status, r.failure)
       \/ pending' = MakeRow("EXECUTION_ERROR", NoFailure)
    /\ UNCHANGED <<config, rerun, ordinal, results, validations, status, disk>>

\* _persist_case_result.
PersistCaseResult ==
    /\ pc = "persist"
    /\ pc' = "record"
    /\ disk' = [disk EXCEPT !.rows[Path] = pending]
    /\ UNCHANGED locals

GLOBAL_PROVIDER_FAILURES ==
    {"PROVIDER_UNAVAILABLE", "PROVIDER_QUOTA_EXHAUSTED", "PROVIDER_AUTH_FAILURE",
     "PROVIDER_SERVICE_UNAVAILABLE"}

\* is_global_provider_failure of a row.
IsGlobal(row) == row.failure \in GLOBAL_PROVIDER_FAILURES

\* The mutant that notes the outage and goes on.
RecordResultGoingOn ==
    /\ pc = "record"
    /\ results' = Append(results, pending)
    /\ disk' = [disk EXCEPT !.state = RunState(status, ordinal)]
    /\ ordinal' = ordinal + 1
    /\ pc' = "loop"
    /\ pending' = NoRow
    /\ UNCHANGED <<config, rerun, validations, status>>

\* The end of the loop body for an executed entry: append, run state, and the
\* circuit breaker.
RecordResult ==
    /\ pc = "record"
    /\ results' = Append(results, pending)
    /\ disk' = [disk EXCEPT !.state = RunState(status, ordinal)]
    /\ ordinal' = ordinal + 1
    /\ IF IsGlobal(pending)
       THEN status' = "PAUSED_PROVIDER_UNAVAILABLE" /\ pc' = "report"
       ELSE UNCHANGED status /\ pc' = "loop"
    /\ pending' = NoRow
    /\ UNCHANGED <<config, rerun, validations>>

-----------------------------------------------------------------------------
(* Closing a run.                                                          *)

LeaveLoop ==
    /\ pc = "loop"
    /\ ordinal > Planned
    /\ pc' = "report"
    /\ status' = "COMPLETED"
    /\ UNCHANGED <<config, rerun, ordinal, results, validations, pending, disk>>

\* reporter.persist: results.json, the summaries and the tables, one file here.
\* The code sorts the rows first; here they keep the order of the schedule, so
\* that a row is compared with the entry it was read for.
PersistReport ==
    /\ pc = "report"
    /\ pc' = "close"
    /\ disk' = [disk EXCEPT !.report = [kind |-> "report", rows |-> results]]
    /\ UNCHANGED locals

\* The last _persist_run_state; run() returns.
CloseRun ==
    /\ pc = "close"
    /\ disk' = [disk EXCEPT !.state = RunState(status, Len(results))]
    /\ Gone

\* An entry whose row is loaded: benchmark-run.json is written next.
Resuming == pc = "loop" /\ ordinal <= Planned /\ ~rerun /\ Whole(Existing)

\* A write that is cut short leaves an unreadable file.
TornWrite ==
    disk' = CASE pc = "configure" -> [disk EXCEPT !.config = Torn]
              [] pc = "persist" -> [disk EXCEPT !.rows[Path] = Torn]
              [] pc \in {"open", "record", "close"} \/ Resuming -> [disk EXCEPT !.state = Torn]
              [] pc = "report" -> [disk EXCEPT !.report = Torn]
              [] OTHER -> disk

\* The process is killed, or a write raises an OSError nobody catches.
Interrupt ==
    /\ pc # "idle"
    /\ Faults # {}
    /\ Gone
    /\ UNCHANGED disk \/ ("torn" \in Faults /\ TornWrite)

Work ==
    \/ CheckResumeConfiguration \/ PersistConfiguration \/ OpenRun
    \/ ResumeRow \/ ValidateCase \/ ExecuteStrategy \/ PersistCaseResult \/ RecordResult
    \/ LeaveLoop \/ PersistReport \/ CloseRun

Next == Start \/ Work \/ Interrupt

\* A process that is not killed goes on (every command it runs has a timeout),
\* and somebody resumes a run that is not complete.
Spec == Init /\ [][Next]_vars
FairSpec == Spec /\ WF_vars(Work) /\ WF_vars(Start)

-----------------------------------------------------------------------------
(* What a run promises.                                                    *)

\* docs/evaluation-protocol.md:114-115 "Resume rejects model, prompt, strategy,
\* attempt, or verification-policy drift through the configuration digest": all
\* the rows of a run were measured under one configuration, the one on file.
NoMixedConfig ==
    \A p \in Paths : Whole(disk.rows[p]) =>
        /\ Whole(disk.config) => disk.rows[p].hash = disk.config.hash
        /\ \A q \in Paths : Whole(disk.rows[q]) => disk.rows[q].hash = disk.rows[p].hash

IsPublished == Whole(disk.state) /\ disk.state.status # "RUNNING"

\* A run published as paused or completed has a report of exactly the rows on
\* disk for the entries it counts, in whatever order resumes, reruns and
\* interruptions got it there (runner.py:306-332).
PublishedReportIsOnDisk ==
    IsPublished =>
        /\ Whole(disk.report)
        /\ Len(disk.report.rows) = disk.state.completed
        /\ \A o \in 1..disk.state.completed : disk.report.rows[o] = disk.rows[ResultPath(o)]

\* How often strategy s has run, and how often in position p of trial t.
TimesRun(s) == Cardinality({o \in 1..Len(results) : schedule[o].strategy = s})
TimesAt(s, t, p) ==
    Cardinality({o \in 1..Len(results) :
        schedule[o].strategy = s /\ schedule[o].trial = t /\ schedule[o].position = p})

\* Wherever a run pauses it has compared the strategies evenly: none is more
\* than one trial ahead and, for a trial number, none has had a position more
\* than once more often than another ("each consecutive case rotates which
\* strategy runs first, middle, and last", docs/evaluation-protocol.md:37-39).
ComparisonIsBalanced ==
    \A s1, s2 \in StrategyIds :
        /\ TimesRun(s1) <= TimesRun(s2) + 1
        /\ \A t \in 1..Trials, p \in 1..Len(Strategies) :
               TimesAt(s1, t, p) <= TimesAt(s2, t, p) + 1

\* If from some time on nobody interrupts a process, the run is completed: a
\* resume never undoes what was done, a provider outage is waited for once, and
\* of all the files an interruption may leave cut short only a result.json can
\* keep later processes from going on (runner.py:198 "Persist each result
\* immediately so an interrupted run can resume").
InterruptedRunCompletes ==
    <>[][Start \/ Work]_vars =>
        <>(\/ Whole(disk.state) /\ disk.state.status = "COMPLETED"
           \/ \E p \in Paths : disk.rows[p] = Torn)

-----------------------------------------------------------------------------
(* The ledger.                                                             *)

\* The process at work has seen a global provider failure.
SawOutage == status = "PAUSED_PROVIDER_UNAVAILABLE" \/ (pc = "record" /\ IsGlobal(pending))

PublishedAs == IF IsPublished THEN disk.state.status ELSE "NOTHING"

Ledger == INSTANCE BenchmarkLedger WITH
    Rows      <- Row,
    Global    <- IsGlobal,
    rows      <- disk.rows,
    working   <- pc # "idle",
    outage    <- SawOutage,
    published <- PublishedAs

\* A run directory is such a ledger.
ImplementsLedger == Ledger!Spec
=============================================================================
