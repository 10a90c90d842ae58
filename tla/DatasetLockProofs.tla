-------------------------- MODULE DatasetLockProofs ---------------------------
(***************************************************************************)
(* What the final report can be relied on for, for any suite, any number   *)
(* of cases, any edits of the files at any time, any number of processes,  *)
(* and however often the data set is locked again.  No lock need be the    *)
(* one the rows were measured under: each row is traced to the lock of its *)
(* own process.                                                            *)
(***************************************************************************)
EXTENDS DatasetLock, SequenceTheorems, TLAPS

\* A command has a suite, of as many contents as names, and no rows before it runs
\* a case; from the verification on there is a lock with as many records.
Shape ==
    /\ pc # "idle" => suite.list \in Lists /\ DOMAIN suite.content = DOMAIN suite.list
    /\ pc \in {"idle", "validate", "lock", "preview", "open"} => results = <<>>
    /\ pc \in {"run", "report"} => effective \in Configs
    /\ pc \in {"open", "run", "report"} => Whole(lock) /\ DOMAIN lock.records = DOMAIN suite.list

TypeInv == TypeOK /\ Shape

\* A function on the indices of a sequence is one.
LEMMA SameIndices ==
    ASSUME NEW S, NEW T, NEW s \in Seq(S), NEW f \in [DOMAIN s -> T]
    PROVE  f \in Seq(T) /\ DOMAIN f = DOMAIN s /\ Len(f) = Len(s)
  <1>1. DOMAIN s = 1..Len(s) /\ Len(s) \in Nat
    BY LenProperties
  <1>2. f \in [1..Len(s) -> T]
    BY <1>1
  <1>3. f \in Seq(T)
    BY <1>1, <1>2, SeqDef
  <1>4. QED
    BY <1>1, <1>2, <1>3, LenProperties

\* What load_benchmark_suite makes of the files.
LEMMA LoadedType ==
    ASSUME TypeOK
    PROVE  /\ LoadedSuite.list \in Lists
           /\ LoadedSuite.content \in Seq(Contents)
           /\ DOMAIN LoadedSuite.content = DOMAIN LoadedSuite.list
           /\ LoadedSuite \in [list : Lists \union {<<>>}, content : Seq(Contents)]
           /\ \A i \in DOMAIN LoadedSuite.list :
                 LoadedSuite.content[i] = files.content[files.list[i]]
  <1> DEFINE contents == [i \in DOMAIN files.list |-> files.content[files.list[i]]]
  <1>1. files.list \in Lists /\ files.list \in Seq(Cases) /\ files.content \in [Cases -> Contents]
    BY DatasetAssumption DEF TypeOK
  <1>2. \A i \in DOMAIN files.list : files.list[i] \in Cases
    BY <1>1, ElementOfSeq, LenProperties
  <1>3. contents \in [DOMAIN files.list -> Contents]
    BY <1>1, <1>2
  <1>4. contents \in Seq(Contents) /\ DOMAIN contents = DOMAIN files.list
    BY <1>1, <1>3, SameIndices
  <1>5. QED
    BY <1>1, <1>4 DEF LoadedSuite

\* What _case_records makes of a suite with as many names as the files list.
LEMMA RecordsType ==
    ASSUME TypeOK,
           NEW s, s.list \in Lists, s.content \in Seq(Contents),
           DOMAIN s.content = DOMAIN s.list, Len(files.list) = Len(s.list)
    PROVE  /\ CaseRecords(s) \in Seq(Record)
           /\ DOMAIN CaseRecords(s) = DOMAIN s.list
           /\ \A i \in DOMAIN s.list :
                 /\ CaseRecords(s)[i].case = s.list[i]
                 /\ CaseRecords(s)[i].hash = files.content[files.list[i]]
  <1>1. files.list \in Seq(Cases) /\ s.list \in Seq(Cases) /\ files.content \in [Cases -> Contents]
    BY DatasetAssumption DEF TypeOK
  <1>2. DOMAIN files.list = DOMAIN s.list
    BY <1>1, LenProperties
  <1>3. ASSUME NEW i \in DOMAIN s.list
        PROVE  [case |-> s.list[i], manifest |-> files.list[i],
                hash |-> files.content[files.list[i]], type |-> s.content[i].type] \in Record
    <2>1. s.list[i] \in Cases /\ files.list[i] \in Cases
      BY <1>1, <1>2, ElementOfSeq, LenProperties
    <2>2. s.content[i] \in Content
      BY DatasetAssumption, ElementOfSeq, LenProperties
    <2>3. s.content[i].type \in CaseType
      BY <2>2 DEF Content
    <2>4. QED
      BY <1>1, <2>1, <2>3 DEF Record
  <1>4. CaseRecords(s) \in [DOMAIN s.list -> Record]
    BY <1>3 DEF CaseRecords
  <1>5. CaseRecords(s) \in Seq(Record) /\ DOMAIN CaseRecords(s) = DOMAIN s.list
    BY <1>1, <1>4, SameIndices
  <1>6. QED
    BY <1>5 DEF CaseRecords

-----------------------------------------------------------------------------
(* Types.                                                                  *)

LEMMA TypeInit == Init => TypeInv
  <1> SUFFICES ASSUME Init PROVE TypeInv
    OBVIOUS
  <1>1. edits \in 0..MaxEdits
    <2>1. MaxEdits \in Nat /\ edits = 0
      BY DatasetAssumption, Zenon DEF Init
    <2>2. QED
      BY <2>1
  <1>2. /\ checked \in Seq(Evidence) /\ results \in Seq(Row)
        /\ suite \in [list : Lists \union {<<>>}, content : Seq(Contents)]
    BY EmptySeq DEF Init, NoSuite
  <1>3. run \in [config : Configs \union {NoConfig}, rows : [Cases -> Row \union {Absent}]]
    BY DEF Init
  <1>4. QED
    BY <1>1, <1>2, <1>3 DEF Init, TypeInv, TypeOK, Shape

\* The locals of a command that ended have their types.
LEMMA GoneType ==
    ASSUME TypeOK, Gone, edits' \in 0..MaxEdits,
           files' \in [list : Lists, content : [Cases -> Contents],
                       config : Configs, declared : Configs],
           lock' \in Lock \union {Absent, Torn}, report' \in Report \union {Absent, Torn},
           run' \in [config : Configs \union {NoConfig}, rows : [Cases -> Row \union {Absent}]]
    PROVE  TypeInv'
  BY EmptySeq DEF Gone, TypeInv, TypeOK, Shape, NoSuite

LEMMA EditType == ASSUME TypeInv, Edit PROVE TypeInv'
  <1>1. files' \in [list : Lists, content : [Cases -> Contents],
                    config : Configs, declared : Configs]
    <2>1. CASE \E l \in Lists : files' = [files EXCEPT !.list = l]
      BY <2>1 DEF TypeInv, TypeOK
    <2>2. CASE \E c \in Cases, text \in Contents : files' = [files EXCEPT !.content[c] = text]
      <3>1. PICK c \in Cases, text \in Contents : files' = [files EXCEPT !.content[c] = text]
        BY <2>2
      <3>2. [files.content EXCEPT ![c] = text] \in [Cases -> Contents]
        BY DEF TypeInv, TypeOK
      <3>3. QED
        BY <3>1, <3>2 DEF TypeInv, TypeOK
    <2>3. CASE \E c, d \in Configs : files' = [files EXCEPT !.config = c, !.declared = d]
      BY <2>3 DEF TypeInv, TypeOK
    <2>4. QED
      BY <2>1, <2>2, <2>3 DEF Edit
  <1>2. edits' \in 0..MaxEdits
    <2>1. MaxEdits \in Nat
      BY DatasetAssumption, Zenon
    <2>2. edits \in 0..MaxEdits /\ edits < MaxEdits /\ edits' = edits + 1
      BY DEF Edit, TypeInv, TypeOK
    <2>3. QED
      BY <2>1, <2>2
  <1>3. raced' \in BOOLEAN
    BY DEF Edit
  <1>4. QED
    BY <1>1, <1>2, <1>3 DEF Edit, TypeInv, TypeOK, Shape

LEMMA ValidationType ==
    ASSUME TypeInv, StartValidation \/ ValidateCase \/ FinishValidation \/ WriteLock
    PROVE  TypeInv'
  <1>1. CASE StartValidation
    BY <1>1, LoadedType DEF StartValidation, TypeInv, TypeOK, Shape
  <1>2. CASE ValidateCase
    <2> DEFINE i == Len(checked) + 1
               evidence == [case |-> suite.list[i], valid |-> CaseValid(suite.content[i])]
    <2>1. suite.list \in Seq(Cases) /\ checked \in Seq(Evidence)
      BY <1>2, DatasetAssumption DEF ValidateCase, TypeInv, TypeOK, Shape
    <2>2. suite.list[i] \in Cases
      BY <1>2, <2>1, ElementOfSeq, LenProperties DEF ValidateCase
    <2>3. CaseValid(suite.content[i]) \in BOOLEAN
      BY DEF CaseValid, RelationshipValid
    <2>4. evidence \in Evidence
      BY <2>2, <2>3 DEF Evidence
    <2>5. checked' \in Seq(Evidence)
      BY <1>2, <2>1, <2>4, AppendProperties DEF ValidateCase
    <2>6. QED
      BY <1>2, <2>5 DEF ValidateCase, TypeInv, TypeOK, Shape
  <1>3. CASE FinishValidation
    <2>1. CASE AllValid(checked)
      BY <1>3, <2>1 DEF FinishValidation, TypeInv, TypeOK, Shape, locals
    <2>2. CASE ~AllValid(checked)
      BY <1>3, <2>2, GoneType DEF FinishValidation, TypeInv, TypeOK
    <2>3. QED
      BY <2>1, <2>2
  <1>4. CASE WriteLock
    <2>1. CASE Lockable(LoadedSuite)
      <3>1. CaseRecords(LoadedSuite) \in Seq(Record)
        BY <2>1, LoadedType, RecordsType DEF TypeInv, Lockable
      <3>2. lock' \in Lock
        BY <1>4, <2>1, <3>1 DEF WriteLock, Lock, TypeInv, TypeOK
      <3>3. QED
        BY <1>4, <3>2, GoneType DEF WriteLock, TypeInv, TypeOK
    <2>2. CASE ~Lockable(LoadedSuite)
      BY <1>4, <2>2, GoneType DEF WriteLock, TypeInv, TypeOK
    <2>3. QED
      BY <2>1, <2>2
  <1>5. QED
    BY <1>1, <1>2, <1>3, <1>4

\* The row RunCase comes past.
RowOf(i) == IF run.rows[suite.list[i]] = Absent
            THEN [content |-> suite.content[i], config |-> effective,
                  hash |-> lock.records[i].hash, raced |-> raced]
            ELSE run.rows[suite.list[i]]

\* What RunCase does, with its row named.
LEMMA RunCaseRow ==
    ASSUME TypeInv, RunCase, NEW i, i = Len(results) + 1
    PROVE  /\ i \in DOMAIN suite.list /\ i \in DOMAIN suite.content
           /\ suite.list \in Seq(Cases) /\ suite.list[i] \in Cases
           /\ RowOf(i) \in Row
           /\ results' = Append(results, RowOf(i))
           /\ run' = [run EXCEPT !.rows[suite.list[i]] = RowOf(i)]
  <1>1. suite.list \in Seq(Cases) /\ suite.content \in Seq(Contents) /\ results \in Seq(Row)
    BY DatasetAssumption DEF RunCase, TypeInv, TypeOK, Shape
  <1>2. i \in DOMAIN suite.list /\ i \in DOMAIN suite.content
    BY <1>1, LenProperties DEF RunCase, TypeInv, Shape
  <1>3. suite.list[i] \in Cases /\ suite.content[i] \in Contents
    BY <1>1, <1>2, ElementOfSeq, LenProperties
  <1>4. /\ effective \in Configs /\ raced \in BOOLEAN
        /\ run.rows \in [Cases -> Row \union {Absent}]
        /\ lock.records[i].hash \in Contents
    <2>1. effective \in Configs /\ raced \in BOOLEAN /\ run.rows \in [Cases -> Row \union {Absent}]
      BY DEF RunCase, TypeInv, TypeOK, Shape
    <2>2. lock \in Lock /\ i \in DOMAIN lock.records
      BY <1>2 DEF RunCase, TypeInv, TypeOK, Shape, Whole
    <2>3. lock.records \in Seq(Record)
      BY <2>2 DEF Lock
    <2>4. lock.records[i] \in Record
      BY <2>2, <2>3, ElementOfSeq, LenProperties
    <2>5. QED
      BY <2>1, <2>4 DEF Record
  <1>5. RowOf(i) \in Row
    <2>1. CASE run.rows[suite.list[i]] = Absent
      BY <2>1, <1>3, <1>4 DEF RowOf, Row
    <2>2. CASE run.rows[suite.list[i]] # Absent
      BY <2>2, <1>3, <1>4 DEF RowOf
    <2>3. QED
      BY <2>1, <2>2
  <1>6. QED
    BY <1>1, <1>2, <1>3, <1>5 DEF RunCase, RowOf

LEMMA RunType ==
    ASSUME TypeInv, StartRun \/ Preview \/ OpenRun \/ RunCase \/ LeaveRun \/ PersistReport
    PROVE  TypeInv'
  <1>1. CASE StartRun
    BY <1>1, LoadedType DEF StartRun, TypeInv, TypeOK, Shape
  <1>2. CASE Preview
    <2>1. CASE VerifyDatasetLock(suite)
      <3>1. Whole(lock) /\ lock.records = CaseRecords(suite) /\ Len(files.list) = Len(suite.list)
        BY <2>1 DEF VerifyDatasetLock, Lockable, Whole
      <3>2. DOMAIN lock.records = DOMAIN suite.list
        BY <1>2, <3>1, RecordsType DEF Preview, TypeInv, TypeOK, Shape
      <3>3. QED
        BY <1>2, <2>1, <3>1, <3>2 DEF Preview, TypeInv, TypeOK, Shape, Whole, locals
    <2>2. CASE ~VerifyDatasetLock(suite)
      BY <1>2, <2>2, GoneType DEF Preview, TypeInv, TypeOK
    <2>3. QED
      BY <2>1, <2>2
  <1>3. CASE OpenRun
    <2>1. PICK e \in Configs :
            IF FrozenRuntime(e) /\ run.config \in {NoConfig, files.config}
            THEN /\ pc' = "run"
                 /\ effective' = e
                 /\ run' = [run EXCEPT !.config = files.config]
                 /\ UNCHANGED <<suite, checked, results, raced>>
            ELSE Gone /\ UNCHANGED run
      BY <1>3 DEF OpenRun
    <2>2. CASE FrozenRuntime(e) /\ run.config \in {NoConfig, files.config}
      BY <1>3, <2>1, <2>2 DEF OpenRun, TypeInv, TypeOK, Shape
    <2>3. CASE ~(FrozenRuntime(e) /\ run.config \in {NoConfig, files.config})
      BY <1>3, <2>1, <2>3, GoneType DEF OpenRun, TypeInv, TypeOK
    <2>4. QED
      BY <2>2, <2>3
  <1>4. CASE RunCase
    <2>1. PICK i : i = Len(results) + 1
      OBVIOUS
    <2>2. /\ suite.list[i] \in Cases /\ RowOf(i) \in Row
          /\ results' = Append(results, RowOf(i))
          /\ run' = [run EXCEPT !.rows[suite.list[i]] = RowOf(i)]
      BY <1>4, <2>1, RunCaseRow
    <2>3. results' \in Seq(Row)
      BY <2>2, AppendProperties DEF TypeInv, TypeOK
    <2>4. run' \in [config : Configs \union {NoConfig}, rows : [Cases -> Row \union {Absent}]]
      BY <2>2 DEF TypeInv, TypeOK
    <2>5. QED
      BY <1>4, <2>3, <2>4 DEF RunCase, TypeInv, TypeOK, Shape
  <1>5. CASE LeaveRun
    BY <1>5 DEF LeaveRun, TypeInv, TypeOK, Shape, locals
  <1>6. CASE PersistReport
    <2>1. CASE VerifyDatasetLock(suite)
      <3>1. CaseRecords(suite) \in Seq(Record)
        BY <1>6, <2>1, RecordsType
        DEF PersistReport, VerifyDatasetLock, Lockable, TypeInv, TypeOK, Shape
      <3>2. report' \in Report
        BY <1>6, <2>1, <3>1 DEF PersistReport, Report, TypeInv, TypeOK
      <3>3. QED
        BY <1>6, <3>2, GoneType DEF PersistReport, TypeInv, TypeOK
    <2>2. CASE ~VerifyDatasetLock(suite)
      BY <1>6, <2>2, GoneType DEF PersistReport, TypeInv, TypeOK
    <2>3. QED
      BY <2>1, <2>2
  <1>7. QED
    BY <1>1, <1>2, <1>3, <1>4, <1>5, <1>6

LEMMA TypeNext == TypeInv /\ [Next]_vars => TypeInv'
  <1>1. SUFFICES ASSUME TypeInv, [Next]_vars PROVE TypeInv'
    OBVIOUS
  <1>2. CASE Edit
    BY <1>1, <1>2, EditType
  <1>3. CASE StartValidation \/ ValidateCase \/ FinishValidation \/ WriteLock
    BY <1>1, <1>3, ValidationType
  <1>4. CASE StartRun \/ Preview \/ OpenRun \/ RunCase \/ LeaveRun \/ PersistReport
    BY <1>1, <1>4, RunType
  <1>5. CASE Kill
    BY <1>1, <1>5, GoneType DEF Kill, TypeInv, TypeOK
  <1>6. CASE UNCHANGED vars
    BY <1>1, <1>6 DEF vars, locals, TypeInv, TypeOK, Shape
  <1>7. QED
    BY <1>1, <1>2, <1>3, <1>4, <1>5, <1>6 DEF Next

LEMMA TypeInvariance == Spec => []TypeInv
  BY TypeInit, TypeNext, PTL DEF Spec

\* Files, lock, run directory and report keep their shape.
THEOREM TypeCorrect == Spec => []TypeOK
  <1>1. TypeInv => TypeOK
    BY DEF TypeInv
  <1>2. QED
    BY <1>1, TypeInvariance, PTL

-----------------------------------------------------------------------------
(* The report.                                                             *)

\* Without a race the suite is what the files said when it was verified: what the
\* lock says from then on. The configuration is that of the run, and without a
\* race that of the lock.
SuiteFacts ==
    /\ pc = "preview" /\ ~raced => suite = LoadedSuite
    /\ pc \in {"open", "run", "report"} /\ ~raced =>
          \A i \in DOMAIN suite.list : lock.records[i].hash = suite.content[i]
    /\ pc = "open" /\ ~raced => files.config = lock.config
    /\ pc \in {"run", "report"} => effective = run.config /\ (raced \/ run.config = lock.config)

\* A row has the configuration of its run, and what was measured is what the lock
\* said then.
Sound(row) ==
    /\ row.config = run.config
    /\ row.raced \/ row.content = row.hash

RunFacts ==
    \A c \in Cases : run.rows[c] # Absent => run.config # NoConfig /\ Sound(run.rows[c])

\* The rows a process has come past.
ResultFacts ==
    \A i \in DOMAIN results : i \in DOMAIN suite.list /\ Sound(results[i])

Reported == ReportIsOfLockedDataset /\ ReportIsOfFrozenConfiguration

\* The inductive invariant.
IInv == TypeInv /\ SuiteFacts /\ RunFacts /\ ResultFacts /\ Reported

LEMMA InitInvariant == Init => IInv
  <1>1. SUFFICES ASSUME Init PROVE IInv
    OBVIOUS
  <1>2. SuiteFacts /\ RunFacts /\ ResultFacts /\ Reported
    BY <1>1 DEF Init, SuiteFacts, RunFacts, ResultFacts, Reported, ReportIsOfLockedDataset,
                ReportIsOfFrozenConfiguration, Whole
  <1>3. QED
    BY <1>1, <1>2, TypeInit DEF IInv

\* A report that is left alone stays what it was.
LEMMA ReportKept ==
    ASSUME Reported, report' \in {report, Torn}
    PROVE  Reported'
  <1>1. CASE report' = report
    BY <1>1 DEF Reported, ReportIsOfLockedDataset, ReportIsOfFrozenConfiguration, Whole
  <1>2. CASE report' = Torn
    BY <1>2 DEF Reported, ReportIsOfLockedDataset, ReportIsOfFrozenConfiguration, Whole
  <1>3. QED
    BY <1>1, <1>2

\* So do the rows of a run.
LEMMA RowsKept ==
    ASSUME RunFacts, run' = run
    PROVE  RunFacts'
  BY DEF RunFacts, Sound

\* The end of a command that left the run and the report alone.
LEMMA GoneFacts ==
    ASSUME IInv, Gone, UNCHANGED <<run, report>>
    PROVE  SuiteFacts' /\ RunFacts' /\ ResultFacts' /\ Reported'
  <1>1. SuiteFacts' /\ ResultFacts'
    BY DEF Gone, SuiteFacts, ResultFacts
  <1>2. RunFacts' /\ Reported'
    BY RowsKept, ReportKept DEF IInv
  <1>3. QED
    BY <1>1, <1>2

\* An edit in the critical moments is a race; at any other time the command has
\* no use for the files, or verifies them anew.
LEMMA EditFacts ==
    ASSUME IInv, Edit
    PROVE  SuiteFacts' /\ RunFacts' /\ ResultFacts' /\ Reported'
  <1>1. UNCHANGED <<lock, pc, suite, effective, results, run, report>>
    BY DEF Edit
  <1>2. pc \in {"preview", "open"} => raced'
    BY DEF Edit
  <1>3. raced => raced'
    BY DEF Edit
  <1>4. SuiteFacts'
    BY <1>1, <1>2, <1>3 DEF IInv, SuiteFacts
  <1>5. ResultFacts'
    BY <1>1 DEF IInv, ResultFacts, Sound
  <1>6. QED
    BY <1>1, <1>4, <1>5, RowsKept, ReportKept DEF IInv

\* Locking, also when there are rows already.
LEMMA ValidationFacts ==
    ASSUME IInv, StartValidation \/ ValidateCase \/ FinishValidation \/ WriteLock
    PROVE  SuiteFacts' /\ RunFacts' /\ ResultFacts' /\ Reported'
  <1>1. UNCHANGED <<run, report>>
    BY DEF StartValidation, ValidateCase, FinishValidation, WriteLock
  <1>2. results' = <<>>
    BY DEF IInv, TypeInv, Shape, StartValidation, ValidateCase, FinishValidation, WriteLock,
           Gone, locals
  <1>3. pc' \in {"idle", "validate", "lock"}
    BY DEF StartValidation, ValidateCase, FinishValidation, WriteLock, Gone
  <1>4. SuiteFacts'
    BY <1>3 DEF SuiteFacts
  <1>5. ResultFacts'
    BY <1>2 DEF ResultFacts
  <1>6. QED
    BY <1>1, <1>4, <1>5, RowsKept, ReportKept DEF IInv

\* A suite that was verified while the files still said what it says is the
\* locked one.
LEMMA VerifiedMatches ==
    ASSUME TypeInv, suite = LoadedSuite, VerifyDatasetLock(suite)
    PROVE  \A i \in DOMAIN suite.list : lock.records[i].hash = suite.content[i]
  <1>1. /\ suite.list \in Lists /\ suite.content \in Seq(Contents)
        /\ DOMAIN suite.content = DOMAIN suite.list
        /\ \A i \in DOMAIN suite.list : suite.content[i] = files.content[files.list[i]]
    BY LoadedType DEF TypeInv
  <1>2. Len(files.list) = Len(suite.list) /\ lock.records = CaseRecords(suite)
    BY DEF VerifyDatasetLock, Lockable
  <1>3. \A i \in DOMAIN suite.list : CaseRecords(suite)[i].hash = files.content[files.list[i]]
    BY <1>1, <1>2, RecordsType DEF TypeInv
  <1>4. QED
    BY <1>1, <1>2, <1>3

\* The steps up to the loop.
LEMMA OpeningFacts ==
    ASSUME IInv, StartRun \/ Preview \/ OpenRun
    PROVE  SuiteFacts' /\ RunFacts' /\ ResultFacts' /\ Reported'
  <1>1. results' = <<>> /\ ResultFacts'
    <2>1. results' = <<>>
      BY DEF IInv, TypeInv, Shape, StartRun, Preview, OpenRun, Gone, locals
    <2>2. QED
      BY <2>1 DEF ResultFacts
  <1>2. Reported'
    BY ReportKept DEF IInv, StartRun, Preview, OpenRun
  <1>3. CASE StartRun
    <2>1. SuiteFacts'
      BY <1>3 DEF StartRun, SuiteFacts, LoadedSuite
    <2>2. RunFacts'
      BY <1>3, RowsKept DEF StartRun, IInv
    <2>3. QED
      BY <1>1, <1>2, <2>1, <2>2
  <1>4. CASE Preview
    <2>1. CASE VerifyDatasetLock(suite)
      <3>1. pc = "preview" /\ pc' = "open" /\ UNCHANGED <<suite, raced, files, lock, run>>
        BY <1>4, <2>1 DEF Preview, locals
      <3>2. ~raced => \A i \in DOMAIN suite.list : lock.records[i].hash = suite.content[i]
        BY <2>1, <3>1, VerifiedMatches DEF IInv, SuiteFacts
      <3>3. files.config = lock.config
        BY <2>1 DEF VerifyDatasetLock
      <3>4. SuiteFacts'
        BY <3>1, <3>2, <3>3 DEF SuiteFacts
      <3>5. RunFacts'
        BY <3>1, RowsKept DEF IInv
      <3>6. QED
        BY <1>1, <1>2, <3>4, <3>5
    <2>2. CASE ~VerifyDatasetLock(suite)
      BY <1>4, <2>2, GoneFacts DEF Preview
    <2>3. QED
      BY <2>1, <2>2
  <1>5. CASE OpenRun
    <2>1. PICK e \in Configs :
            IF FrozenRuntime(e) /\ run.config \in {NoConfig, files.config}
            THEN /\ pc' = "run"
                 /\ effective' = e
                 /\ run' = [run EXCEPT !.config = files.config]
                 /\ UNCHANGED <<suite, checked, results, raced>>
            ELSE Gone /\ UNCHANGED run
      BY <1>5 DEF OpenRun
    <2>2. CASE FrozenRuntime(e) /\ run.config \in {NoConfig, files.config}
      <3>1. e = files.config /\ pc = "open" /\ UNCHANGED <<files, lock, suite, raced>>
        BY <1>5, <2>1, <2>2 DEF OpenRun, FrozenRuntime
      <3>2. run'.config = files.config /\ run'.rows = run.rows
        BY <2>1, <2>2 DEF IInv, TypeInv, TypeOK
      <3>3. SuiteFacts'
        BY <2>1, <2>2, <3>1, <3>2 DEF IInv, SuiteFacts
      <3>4. RunFacts'
        <4>1. ASSUME NEW c \in Cases, run'.rows[c] # Absent
              PROVE  run'.config # NoConfig /\ run'.config = run.config /\ Sound(run.rows[c])
          BY <2>2, <3>2, <4>1 DEF IInv, RunFacts
        <4>2. QED
          BY <3>2, <4>1 DEF RunFacts, Sound
      <3>5. QED
        BY <1>1, <1>2, <3>3, <3>4
    <2>3. CASE ~(FrozenRuntime(e) /\ run.config \in {NoConfig, files.config})
      BY <1>5, <2>1, <2>3, GoneFacts DEF OpenRun
    <2>4. QED
      BY <2>2, <2>3
  <1>6. QED
    BY <1>3, <1>4, <1>5

\* A row from the disk was sound when it was measured, and a new one is.
LEMMA RunCaseFacts ==
    ASSUME IInv, RunCase
    PROVE  SuiteFacts' /\ RunFacts' /\ ResultFacts' /\ Reported'
  <1> DEFINE i == Len(results) + 1
             c == suite.list[i]
  <1>1. /\ i \in DOMAIN suite.list /\ c \in Cases
        /\ results' = Append(results, RowOf(i))
        /\ run' = [run EXCEPT !.rows[c] = RowOf(i)]
        /\ RowOf(i) \in Row
    BY RunCaseRow DEF IInv
  <1>2. /\ pc = "run" /\ pc' = "run"
        /\ UNCHANGED <<files, lock, suite, effective, raced, report>>
    BY DEF RunCase
  <1>3. run'.config = run.config /\ run'.rows = [run.rows EXCEPT ![c] = RowOf(i)]
    BY <1>1 DEF IInv, TypeInv, TypeOK
  <1>4. run.config # NoConfig
    BY <1>2, DatasetAssumption DEF IInv, TypeInv, Shape, SuiteFacts
  <1>5. Sound(RowOf(i))
    <2>1. CASE run.rows[c] = Absent
      <3>1. effective = run.config /\ (raced \/ lock.records[i].hash = suite.content[i])
        BY <1>1, <1>2 DEF IInv, SuiteFacts
      <3>2. QED
        BY <2>1, <3>1 DEF RowOf, Sound
    <2>2. CASE run.rows[c] # Absent
      BY <2>2, <1>1 DEF RowOf, IInv, RunFacts
    <2>3. QED
      BY <2>1, <2>2
  <1>6. SuiteFacts'
    BY <1>2, <1>3 DEF IInv, SuiteFacts
  <1>7. RunFacts'
    <2>1. ASSUME NEW d \in Cases, run'.rows[d] # Absent PROVE Sound(run'.rows[d])
      <3>1. run.rows \in [Cases -> Row \union {Absent}]
        BY DEF IInv, TypeInv, TypeOK
      <3>2. CASE d = c
        BY <1>1, <1>3, <1>5, <3>1, <3>2
      <3>3. CASE d # c
        BY <1>1, <1>3, <2>1, <3>1, <3>3 DEF IInv, RunFacts
      <3>4. QED
        BY <3>2, <3>3
    <2>2. QED
      BY <2>1, <1>3, <1>4 DEF RunFacts, Sound
  <1>8. ResultFacts'
    <2>1. results \in Seq(Row)
      BY DEF IInv, TypeInv, TypeOK
    <2>2. /\ \A j \in DOMAIN results' : j \in DOMAIN results \/ j = i
          /\ \A j \in DOMAIN results : results'[j] = results[j]
          /\ results'[i] = RowOf(i)
      BY <1>1, <2>1, AppendProperties, LenProperties
    <2>3. \A j \in DOMAIN results' : j \in DOMAIN suite.list /\ Sound(results'[j])
      BY <2>2, <1>1, <1>5 DEF IInv, ResultFacts
    <2>4. QED
      BY <2>3, <1>2, <1>3 DEF ResultFacts, Sound
  <1>9. Reported'
    BY <1>2, ReportKept DEF IInv
  <1>10. QED
    BY <1>6, <1>7, <1>8, <1>9

\* The lock is verified once more: the report has a record for each of its rows.
LEMMA PersistFacts ==
    ASSUME IInv, PersistReport
    PROVE  SuiteFacts' /\ RunFacts' /\ ResultFacts' /\ Reported'
  <1>1. CASE VerifyDatasetLock(suite)
    <2>1. Gone /\ UNCHANGED run /\ pc = "report"
      BY DEF PersistReport
    <2>2. SuiteFacts' /\ ResultFacts'
      BY <2>1 DEF Gone, SuiteFacts, ResultFacts
    <2>3. RunFacts'
      BY <2>1, RowsKept DEF IInv
    <2>4. /\ report'.rows = results /\ report'.records = CaseRecords(suite)
          /\ report'.config = files.config /\ report'.raced = raced
      BY <1>1 DEF PersistReport
    <2>5. files.config = lock.config /\ Len(files.list) = Len(suite.list)
      BY <1>1 DEF VerifyDatasetLock, Lockable
    <2>6. DOMAIN CaseRecords(suite) = DOMAIN suite.list
      BY <2>1, <2>5, RecordsType DEF IInv, TypeInv, TypeOK, Shape
    <2>7. \A i \in DOMAIN results : i \in DOMAIN suite.list /\ Sound(results[i])
      BY DEF IInv, ResultFacts
    <2>8. raced \/ run.config = lock.config
      BY <2>1 DEF IInv, SuiteFacts
    <2>9. ReportIsOfLockedDataset'
      BY <2>4, <2>6, <2>7 DEF ReportIsOfLockedDataset, Sound
    <2>10. ReportIsOfFrozenConfiguration'
      BY <2>4, <2>5, <2>7, <2>8 DEF ReportIsOfFrozenConfiguration, Sound
    <2>11. QED
      BY <2>2, <2>3, <2>9, <2>10 DEF Reported
  <1>2. CASE ~VerifyDatasetLock(suite)
    BY <1>2, GoneFacts DEF PersistReport
  <1>3. QED
    BY <1>1, <1>2

LEMMA KillFacts ==
    ASSUME IInv, Kill
    PROVE  SuiteFacts' /\ RunFacts' /\ ResultFacts' /\ Reported'
  <1>1. SuiteFacts' /\ ResultFacts'
    BY DEF Kill, Gone, SuiteFacts, ResultFacts
  <1>2. report' \in {report, Torn} /\ run' = run
    BY DEF Kill
  <1>3. QED
    BY <1>1, <1>2, RowsKept, ReportKept DEF IInv

LEMMA StepInvariant == IInv /\ [Next]_vars => IInv'
  <1>1. SUFFICES ASSUME IInv, [Next]_vars PROVE IInv'
    OBVIOUS
  <1>2. TypeInv'
    BY <1>1, TypeNext DEF IInv
  <1>3. CASE Edit
    BY <1>1, <1>2, <1>3, EditFacts DEF IInv
  <1>4. CASE StartValidation \/ ValidateCase \/ FinishValidation \/ WriteLock
    BY <1>1, <1>2, <1>4, ValidationFacts DEF IInv
  <1>5. CASE StartRun \/ Preview \/ OpenRun
    BY <1>1, <1>2, <1>5, OpeningFacts DEF IInv
  <1>6. CASE RunCase
    BY <1>1, <1>2, <1>6, RunCaseFacts DEF IInv
  <1>7. CASE LeaveRun
    <2>1. /\ pc = "run" /\ pc' = "report"
          /\ UNCHANGED <<files, lock, suite, effective, results, raced, run, report>>
      BY <1>7 DEF LeaveRun, locals
    <2>2. SuiteFacts' /\ ResultFacts'
      BY <1>1, <2>1 DEF IInv, SuiteFacts, ResultFacts, Sound
    <2>3. QED
      BY <1>1, <1>2, <2>1, <2>2, RowsKept, ReportKept DEF IInv
  <1>8. CASE PersistReport
    BY <1>1, <1>2, <1>8, PersistFacts DEF IInv
  <1>9. CASE Kill
    BY <1>1, <1>2, <1>9, KillFacts DEF IInv
  <1>10. CASE UNCHANGED vars
    <2>1. UNCHANGED <<files, lock, pc, suite, effective, results, raced, run, report>>
      BY <1>10 DEF vars, locals
    <2>2. SuiteFacts' /\ ResultFacts'
      BY <1>1, <2>1 DEF IInv, SuiteFacts, ResultFacts, Sound, LoadedSuite
    <2>3. QED
      BY <1>1, <1>2, <2>1, <2>2, RowsKept, ReportKept DEF IInv
  <1>11. QED
    BY <1>1, <1>3, <1>4, <1>5, <1>6, <1>7, <1>8, <1>9, <1>10 DEF Next

\* Whatever is edited and locked again, a row of the final report was measured on
\* the manifest its data-set hash names, if that is still the one the row was
\* measured under and no file was saved in the moment between two looks at it.
THEOREM ReportIsTrueToTheLock == Spec => []ReportIsOfLockedDataset
  <1>1. IInv => ReportIsOfLockedDataset
    BY DEF IInv, Reported
  <1>2. QED
    BY InitInvariant, StepInvariant, <1>1, PTL DEF Spec

\* And every row with the configuration its configuration hash names, unless the
\* frozen file was saved in such a moment of the process that wrote the report.
THEOREM ReportIsTrueToTheFreeze == Spec => []ReportIsOfFrozenConfiguration
  <1>1. IInv => ReportIsOfFrozenConfiguration
    BY DEF IInv, Reported
  <1>2. QED
    BY InitInvariant, StepInvariant, <1>1, PTL DEF Spec
=============================================================================
