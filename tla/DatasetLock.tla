---------------------------- MODULE DatasetLock ------------------------------
(***************************************************************************)
(* The final data set between its files and the report about it            *)
(* (evaluation/dataset.py, freeze.py and the benchmark command of cli.py). *)
(* People edit the manifests and the frozen configuration whenever they    *)
(* like.  Commands run one after the other: one validates the cases, for   *)
(* hours, and locks them; others measure the strategies, in as many        *)
(* processes as it takes, and publish the result under the hashes of the   *)
(* lock; and the data set may be locked again in between.                  *)
(***************************************************************************)
EXTENDS Naturals, Sequences, FiniteSets

CONSTANTS
    Cases,           \* case manifests, also the ids in them
    Contents,        \* what a case manifest may say
    Lists,           \* what the suite manifest may list
    Configs,         \* configurations to freeze and to run with: the model, the
                     \* budgets, the prompts and the policies
    Direct,          \* 10 in the code
    Transitive,      \* 10 in the code
    MaxEdits         \* bound: how often a file is saved

Absent == [kind |-> "absent"]
Torn == [kind |-> "torn"]
NoConfig == ""

CaseType == {"DIRECT", "TRANSITIVE"}
\* `sound' is what a build of both commits would show, `text' all the rest.
Content == [type : CaseType, same : BOOLEAN, split : {"DEV", "FINAL"},
            provenance : BOOLEAN, sound : BOOLEAN, text : STRING]

ASSUME DatasetAssumption ==
    /\ Contents # {} /\ Contents \subseteq Content
    /\ Lists # {} /\ Lists \subseteq Seq(Cases)
    /\ \A l \in Lists : \A i, j \in DOMAIN l : l[i] = l[j] => i = j
    /\ Configs # {} /\ Configs \subseteq STRING \ {NoConfig}
    /\ Direct \in Nat /\ Transitive \in Nat /\ MaxEdits \in Nat

VARIABLES
    files,           \* the manifests and the frozen configuration
    edits,           \* how often one of them was saved
    lock,            \* the lock file
    pc,              \* where the command at work is; "idle" when there is none
    suite,           \* the suite it has loaded
    checked,         \* what it found out about the cases, in order
    effective,       \* the configuration it runs with
    results,         \* the rows of the run it has come past
    raced,           \* history: was a file saved between the looks the command took
                     \* at the files before it began to measure?
    run,             \* the run directory
    report           \* final-research-results.md

locals == <<suite, checked, effective, results, raced>>
vars == <<files, edits, lock, pc, locals, run, report>>

NoSuite == [list |-> <<>>, content |-> <<>>]

\* `hash' and `raced' are history: what the lock said of the case when it was
\* measured, and whether that was in a command with a race.
Row == [content : Contents, config : Configs, hash : Contents, raced : BOOLEAN]
Record == [case : Cases, manifest : Cases, hash : Contents, type : CaseType]
Evidence == [case : Cases, valid : BOOLEAN]
Lock == [kind : {"lock"}, config : Configs, records : Seq(Record), validation : Seq(Evidence)]
Report == [kind : {"report"}, config : Configs, records : Seq(Record), rows : Seq(Row),
           raced : BOOLEAN]

TypeOK ==
    /\ files \in [list : Lists, content : [Cases -> Contents],
                  config : Configs, declared : Configs]
    /\ edits \in 0..MaxEdits
    /\ lock \in Lock \union {Absent, Torn}
    /\ pc \in {"idle", "validate", "lock", "preview", "open", "run", "report"}
    /\ suite \in [list : Lists \union {<<>>}, content : Seq(Contents)]
    /\ checked \in Seq(Evidence)
    /\ effective \in Configs \union {NoConfig}
    /\ results \in Seq(Row)
    /\ raced \in BOOLEAN
    /\ run \in [config : Configs \union {NoConfig}, rows : [Cases -> Row \union {Absent}]]
    /\ report \in Report \union {Absent, Torn}

-----------------------------------------------------------------------------
(* Validation.                                                             *)

\* _relationship_valid: the culprit is the target exactly in a direct case.
RelationshipValid(c) == c.same = (c.type = "DIRECT")

\* DatasetValidationResult.valid for one case of FinalDatasetService.validate.
CaseValid(c) == c.sound /\ RelationshipValid(c) /\ c.split = "FINAL" /\ c.provenance

\* DatasetValidationResult.valid.
AllValid(evidence) == evidence # <<>> /\ \A i \in DOMAIN evidence : evidence[i].valid

-----------------------------------------------------------------------------
(* The lock.                                                               *)

\* load_benchmark_suite.
LoadedSuite == [list |-> files.list, content |-> [i \in DOMAIN files.list |-> files.content[files.list[i]]]]

\* load_frozen_config: the digest a file declares is that of its configuration.
FrozenConfigLoads == files.declared = files.config

\* _case_records: what the suite in memory says beside what the files say now.
\* A digest stands for what was digested.
CaseRecords(s) ==
    [i \in DOMAIN s.list |->
        [case |-> s.list[i], manifest |-> files.list[i],
         hash |-> files.content[files.list[i]], type |-> s.content[i].type]]

OfType(s, t) == Cardinality({i \in DOMAIN s.list : s.content[i].type = t})

\* _require_final_composition.
FinalComposition(s) ==
    /\ Len(s.list) = Direct + Transitive
    /\ OfType(s, "DIRECT") = Direct
    /\ OfType(s, "TRANSITIVE") = Transitive
    /\ \A i \in DOMAIN s.list : s.content[i].split = "FINAL"

\* What write_dataset_lock and verify_dataset_lock ask of a suite.
Lockable(s) == FrozenConfigLoads /\ Len(files.list) = Len(s.list) /\ FinalComposition(s)

\* The mutant that compares the commits and not the manifests.
VerifyByCommit(s) ==
    /\ lock \notin {Absent, Torn}
    /\ Lockable(s)
    /\ lock.config = files.config
    /\ AllValid(lock.validation)

\* verify_dataset_lock.
VerifyDatasetLock(s) ==
    /\ lock \notin {Absent, Torn}
    /\ Lockable(s)
    /\ lock.config = files.config
    /\ lock.records = CaseRecords(s)
    /\ AllValid(lock.validation)

-----------------------------------------------------------------------------

Init ==
    /\ files \in [list : Lists, content : [Cases -> Contents], config : Configs, declared : Configs]
    /\ edits = 0
    /\ lock = Absent
    /\ pc = "idle"
    /\ suite = NoSuite
    /\ checked = <<>>
    /\ effective = NoConfig
    /\ results = <<>>
    /\ raced = FALSE
    /\ run = [config |-> NoConfig, rows |-> [c \in Cases |-> Absent]]
    /\ report = Absent

\* Somebody saves one file, at any time.
Edit ==
    /\ edits < MaxEdits
    /\ edits' = edits + 1
    /\ \/ \E l \in Lists : files' = [files EXCEPT !.list = l]
       \/ \E c \in Cases, text \in Contents : files' = [files EXCEPT !.content[c] = text]
       \/ \E c, d \in Configs : files' = [files EXCEPT !.config = c, !.declared = d]
    /\ raced' = (raced \/ pc \in {"preview", "open"})
    /\ UNCHANGED <<lock, pc, suite, checked, effective, results, run, report>>

\* The command ends, and its locals with it.
Gone ==
    /\ pc' = "idle"
    /\ suite' = NoSuite
    /\ checked' = <<>>
    /\ effective' = NoConfig
    /\ results' = <<>>
    /\ raced' = FALSE

-----------------------------------------------------------------------------
(* benchmark --validate-only --write-lock                                  *)

StartValidation ==
    /\ pc = "idle"
    /\ pc' = "validate"
    /\ suite' = LoadedSuite
    /\ UNCHANGED <<files, edits, lock, checked, effective, results, raced, run, report>>

\* One case: two builds and two dependency trees.
ValidateCase ==
    /\ pc = "validate"
    /\ Len(checked) < Len(suite.list)
    /\ LET i == Len(checked) + 1
       IN  checked' = Append(checked, [case |-> suite.list[i], valid |-> CaseValid(suite.content[i])])
    /\ UNCHANGED <<files, edits, lock, pc, suite, effective, results, raced, run, report>>

FinishValidation ==
    /\ pc = "validate"
    /\ Len(checked) = Len(suite.list)
    /\ IF AllValid(checked)
       THEN pc' = "lock" /\ UNCHANGED locals
       ELSE Gone
    /\ UNCHANGED <<files, edits, lock, run, report>>

\* write_dataset_lock loads the suite anew.
WriteLock ==
    /\ pc = "lock"
    /\ lock' = IF Lockable(LoadedSuite)
               THEN [kind |-> "lock", config |-> files.config,
                     records |-> CaseRecords(LoadedSuite), validation |-> checked]
               ELSE lock
    /\ Gone
    /\ UNCHANGED <<files, edits, run, report>>

-----------------------------------------------------------------------------
(* benchmark [--resume]                                                    *)

StartRun ==
    /\ pc = "idle"
    /\ pc' = "preview"
    /\ suite' = LoadedSuite
    /\ UNCHANGED <<files, edits, lock, checked, effective, results, raced, run, report>>

\* dry_run refuses a suite that does not match its lock.
Preview ==
    /\ pc = "preview"
    /\ IF VerifyDatasetLock(suite)
       THEN pc' = "open" /\ UNCHANGED locals
       ELSE Gone
    /\ UNCHANGED <<files, edits, lock, run, report>>

\* The mutant whose frozen file need not be what the program runs with.
FrozenRuntimeAnyway(e) == FrozenConfigLoads

\* validate_frozen_runtime.
FrozenRuntime(e) == FrozenConfigLoads /\ files.config = e

\* The configuration is compared with the frozen one, then with that of the
\* run to be resumed.
OpenRun ==
    /\ pc = "open"
    /\ \E e \in Configs :
          IF FrozenRuntime(e) /\ run.config \in {NoConfig, files.config}
          THEN /\ pc' = "run"
               /\ effective' = e
               /\ run' = [run EXCEPT !.config = files.config]
               /\ UNCHANGED <<suite, checked, results, raced>>
          ELSE Gone /\ UNCHANGED run
    /\ UNCHANGED <<files, edits, lock, report>>

\* One case: the row on disk, or a new one.
RunCase ==
    /\ pc = "run"
    /\ Len(results) < Len(suite.list)
    /\ LET i == Len(results) + 1
           c == suite.list[i]
           row == IF run.rows[c] = Absent
                  THEN [content |-> suite.content[i], config |-> effective,
                        hash |-> lock.records[i].hash, raced |-> raced]
                  ELSE run.rows[c]
       IN  /\ results' = Append(results, row)
           /\ run' = [run EXCEPT !.rows[c] = row]
    /\ UNCHANGED <<files, edits, lock, pc, suite, checked, effective, raced, report>>

\* The schedule is done, or an outage of the provider pauses the run.
LeaveRun ==
    /\ pc = "run"
    /\ results # <<>>
    /\ pc' = "report"
    /\ UNCHANGED <<files, edits, lock, locals, run, report>>

\* The lock is verified again, and the final report written under its hashes.
PersistReport ==
    /\ pc = "report"
    /\ report' = IF VerifyDatasetLock(suite)
                 THEN [kind |-> "report", config |-> files.config,
                       records |-> CaseRecords(suite), rows |-> results, raced |-> raced]
                 ELSE report
    /\ Gone
    /\ UNCHANGED <<files, edits, lock, run>>

-----------------------------------------------------------------------------

\* A command is killed, perhaps in the middle of a write.
Kill ==
    /\ pc # "idle"
    /\ Gone
    /\ lock' \in {lock} \union (IF pc = "lock" THEN {Torn} ELSE {})
    /\ report' \in {report} \union (IF pc = "report" THEN {Torn} ELSE {})
    /\ UNCHANGED <<files, edits, run>>

Next ==
    \/ Edit
    \/ StartValidation \/ ValidateCase \/ FinishValidation \/ WriteLock
    \/ StartRun \/ Preview \/ OpenRun \/ RunCase \/ LeaveRun \/ PersistReport
    \/ Kill

Spec == Init /\ [][Next]_vars

-----------------------------------------------------------------------------
(* What the lock promises.                                                 *)

Whole(file) == file \notin {Absent, Torn}

\* dataset.py:158 "Reject manifest, composition, commit, or frozen-config
\* drift": whatever is edited, at any time, between and during the processes of a
\* run, and however often the data set is locked again, a row of a final report
\* was measured on the manifest that the data-set hash of the report names. There
\* are two exceptions: the case has been locked anew, with another manifest, after
\* it was measured, or the manifest was saved between the loading of the suite and
\* its verification, a moment later.
ReportIsOfLockedDataset ==
    Whole(report) =>
        \A i \in DOMAIN report.rows :
            LET row == report.rows[i]
            IN  /\ i \in DOMAIN report.records
                /\ \/ row.content = report.records[i].hash
                   \/ row.hash # report.records[i].hash
                   \/ row.raced

\* freeze.py:115 "Reject silent strategy, model, prompt, or policy drift": all
\* of them ran with the configuration the report names, whatever is edited and
\* locked again, unless the frozen file was saved within the moment between the
\* two looks that the process which writes the report takes at it.
ReportIsOfFrozenConfiguration ==
    Whole(report) =>
        \/ report.raced
        \/ \A i \in DOMAIN report.rows : report.rows[i].config = report.config

\* dataset.py:120 "Write canonical lock only after every final case validates":
\* what a lock has the hash of is a case that validates. The code breaks this: the
\* suite is loaded anew after hours of validation.
LockedCasesAreValid ==
    Whole(lock) => \A i \in DOMAIN lock.records : CaseValid(lock.records[i].hash)
=============================================================================
