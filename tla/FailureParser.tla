---------------------------- MODULE FailureParser ----------------------------
(***************************************************************************)
(* How the output of a failed build becomes failures in project files:     *)
(* analysis/failure_parser.py and analysis/source_locator.py.              *)
(*                                                                         *)
(* A build is a sequence of reports, what Maven has to say; Render is the  *)
(* text it says it with, a line being its kind and the values the parser   *)
(* reads from it.  The parser sees the text only, and what it makes of it  *)
(* is judged against the reports.                                          *)
(***************************************************************************)
EXTENDS Integers, SequencesExt

CONSTANTS
    SourceFiles,         \* the Java files a workspace may hold: module, source root,
                         \* package (the directories below the root) and name
    Classes,             \* the classes a frame may be of
    Words,               \* symbols, tests and exceptions
    Streams,             \* what the commands print: a bound of the model
    Workspaces,          \* the files there are in one: a bound of the model
    LineCount,           \* the lines every file has
    None,                \* Python's None
    MaxDiagnosticLines,  \* _MAX_DIAGNOSTIC_LINES
    MaxTestBlockLines,   \* _MAX_TEST_BLOCK_LINES
    MaxStackFrames       \* _MAX_STACK_FRAMES

ASSUME LimitAssumption ==
    /\ MaxDiagnosticLines \in Nat \ {0}
    /\ MaxTestBlockLines \in Nat \ {0}
    /\ MaxStackFrames \in Nat \ {0}

CompilerCategories == {"MISSING_SYMBOL", "METHOD_ARGUMENT_MISMATCH", "PACKAGE_NOT_FOUND",
                       "INCOMPATIBLE_TYPES", "COMPILATION_ERROR_OTHER"}

TestCategories == {"TEST_FAILURE", "ASSERTION_FAILURE", "TEST_EXCEPTION"}

Categories == CompilerCategories \union TestCategories

\* A frame of a trace.
FrameType == [class : Classes, line : Nat]

\* A file name is all a frame gives of its file.
NamedFile(name) == [from |-> "name", name |-> name]

\* How a build refers to a file: by a path in its workspace, by one in another
\* checkout, or by a name.
ReferenceType ==
    [from : {"here", "elsewhere"}, path : SourceFiles]
    \union {NamedFile(class.name) : class \in Classes}

\* What Maven has to say.
ReportType ==
    [kind : {"diagnostic"}, path : [from : {"here", "elsewhere"}, path : SourceFiles],
     line : Nat, category : CompilerCategories, symbol : Words \union {None}, details : Nat,
     warning : BOOLEAN]
    \union [kind : {"test"}, test : Words, exception : Words \union {None}, frames : Seq(FrameType)]
    \union [kind : {"summary"}, failing : BOOLEAN]
    \union [kind : {"stop", "results", "other"}]

\* A FailureSignal.
SignalType ==
    [category : Categories, file : SourceFiles \union {None},
     reported : ReferenceType \union {None}, line : Nat \union {None}, symbol : Words \union {None},
     message : Words \union CompilerCategories \union {"summary"}, frames : Seq(FrameType)]

\* The file of a signal is a Path and what was reported a string: the two are
\* never equal.
ASSUME StreamsAssumption ==
    /\ Streams \subseteq Seq(Seq(ReportType))
    /\ \A files \in Workspaces : files \subseteq SourceFiles /\ IsFiniteSet(files)
    /\ \A f \in SourceFiles : f \notin ReferenceType
    /\ None \notin SourceFiles /\ None \notin Words /\ None \notin Nat
    /\ None \notin ReferenceType

VARIABLES
    outcome,     \* ExecutionStatus of the build
    build,       \* what it printed, stream by stream; never changes
    workspace,   \* the Java files there are; never changes
    unread,      \* the streams still to be parsed
    failures,    \* the FailureSignals
    next,        \* the next of them to be localized
    contexts,    \* the SourceContexts: where each window is centred
    status       \* FailureAnalysisStatus, None before the end

failureVars == <<outcome, build, workspace, unread, failures, next, contexts, status>>

FailureTypeOK ==
    /\ outcome \in {"PASS", "FAIL", "TIMEOUT", "ERROR"}
    /\ build \in Seq(Seq(ReportType)) /\ workspace \in Workspaces
    /\ unread \in Seq(Seq(ReportType))
    /\ failures \in Seq(SignalType)
    /\ \A i \in DOMAIN failures :
          /\ failures[i].file \in workspace \union {None}
          /\ Len(failures[i].frames) <= MaxStackFrames
    /\ next \in 0..(Len(failures) + 1)
    /\ contexts \subseteq SourceFiles \X Nat
    /\ status \in {None, "NO_FAILURE", "TIMEOUT", "EXECUTION_ERROR", "FAILURES_LOCALIZED",
                   "FAILURES_PARSED_PARTIALLY", "FAILURE_UNLOCALIZED"}

-----------------------------------------------------------------------------
(* Sequences.                                                              *)

\* A set of numbers in ascending order.
InOrder(numbers) ==
    CHOOSE order \in [1..Cardinality(numbers) -> numbers] :
        \A m, n \in DOMAIN order : m < n => order[m] < order[n]

\* What is at some of the places of a sequence, in its order.
Keep(s, places) == LET order == InOrder(places) IN [n \in DOMAIN order |-> s[order[n]]]

-----------------------------------------------------------------------------
(* What Maven prints.                                                      *)

\* A diagnostic of the compiler, an error or a warning, with `details' lines
\* before the one that names the symbol; a failing test with its trace; a
\* summary of the tests; any other line that may end a block.
Render(report) ==
    CASE report.kind = "diagnostic" ->
            <<[kind |-> "compiler", path |-> report.path, line |-> report.line,
               category |-> report.category]>>
              \o [i \in 1..report.details |-> [kind |-> "other"]]
              \o (IF report.symbol = None THEN <<>>
                  ELSE <<[kind |-> "symbol", value |-> report.symbol]>>)
      [] report.kind = "test" ->
            <<[kind |-> "header", test |-> report.test]>>
              \o (IF report.exception = None THEN <<>>
                  ELSE <<[kind |-> "exception", type |-> report.exception]>>)
              \o [i \in DOMAIN report.frames |->
                    [kind |-> "frame", class |-> report.frames[i].class, line |-> report.frames[i].line]]
      [] report.kind = "summary" -> <<[kind |-> "summary", failing |-> report.failing]>>
      [] OTHER -> <<[kind |-> report.kind]>>

Text(reports) == FlattenSeq([i \in DOMAIN reports |-> Render(reports[i])])

-----------------------------------------------------------------------------
(* Parsing.                                                                *)

\* The mutant that reads on into the next diagnostic.
LongDiagnostic(lines, i) ==
    Min({Len(lines), i + MaxDiagnosticLines - 1}
          \union {j - 1 : j \in {k \in (i + 1)..Len(lines) : lines[k].kind = "stop"}})

\* _diagnostic_end: the last line that may belong to the diagnostic at i.
DiagnosticEnd(lines, i) ==
    Min({Len(lines), i + MaxDiagnosticLines - 1}
          \union {j - 1 : j \in {k \in (i + 1)..Len(lines) : lines[k].kind \in {"compiler", "stop"}}})

\* The last line of the block of the test whose header is at i.
TestEnd(lines, i) ==
    Min({Len(lines), i + MaxTestBlockLines - 1}
          \union {j - 1 : j \in {k \in (i + 1)..Len(lines) :
                                    lines[k].kind \in {"header", "compiler", "results"}}})

\* What the first line of a kind in a block says in a field, if there is one.
FirstOf(block, kind, field) ==
    LET found == {n \in DOMAIN block : block[n].kind = kind}
    IN  IF found = {} THEN None ELSE block[Min(found)][field]

\* The order in which _compiler_signal looks for what a block is about.
CategoryOrder == <<"MISSING_SYMBOL", "METHOD_ARGUMENT_MISMATCH", "PACKAGE_NOT_FOUND",
                   "INCOMPATIBLE_TYPES", "COMPILATION_ERROR_OTHER">>

\* The first category any line of the block speaks of: javac says it where the
\* diagnostic begins, the code looks for it in the whole block.
CategoryOf(block) ==
    LET spoken == {block[n].category : n \in {m \in DOMAIN block : block[m].kind = "compiler"}}
    IN  CategoryOrder[Min({n \in DOMAIN CategoryOrder : CategoryOrder[n] \in spoken})]

\* _compiler_signal.
CompilerSignal(lines, i) ==
    LET block    == SubSeq(lines, i, DiagnosticEnd(lines, i))
        category == CategoryOf(block)
        symbol   == FirstOf(block, "symbol", "value")
    IN  [category |-> category, file |-> None, reported |-> lines[i].path,
         line |-> lines[i].line, symbol |-> symbol, message |-> category, frames |-> <<>>]

Framework(class) == class.package = "framework"

\* The frames a signal keeps.
FirstFrames(traced) == SubSeq(traced, 1, Min({Len(traced), MaxStackFrames}))

\* _test_signal: frames of the JDK, JUnit and Maven are left out.
TestSignal(lines, i) ==
    LET block  == SubSeq(lines, i, TestEnd(lines, i))
        thrown == FirstOf(block, "exception", "type")
        traced == Keep(block, {n \in DOMAIN block : block[n].kind = "frame"
                                                   /\ ~Framework(block[n].class)})
        kept   == FirstFrames(traced)
        frames == [n \in DOMAIN kept |-> [class |-> kept[n].class, line |-> kept[n].line]]
    IN  [category |-> IF thrown = None THEN "TEST_FAILURE"
                      ELSE IF thrown = "assertion" THEN "ASSERTION_FAILURE" ELSE "TEST_EXCEPTION",
         file     |-> None,
         reported |-> IF frames = <<>> THEN None ELSE NamedFile(frames[1].class.name),
         line     |-> IF frames = <<>> THEN None ELSE frames[1].line,
         symbol   |-> None,
         message  |-> IF thrown = None THEN lines[i].test ELSE thrown,
         frames   |-> frames]

SummarySignal ==
    [category |-> "TEST_FAILURE", file |-> None, reported |-> None, line |-> None,
     symbol |-> None, message |-> "summary", frames |-> <<>>]

\* The mutant that does not look at the symbol.
LooseKey(failure) == <<failure.category, failure.line, failure.message>>

\* What two signals of one failure have in common.
Key(failure) ==
    <<failure.category, IF failure.file # None THEN failure.file ELSE failure.reported,
      failure.line, failure.symbol, failure.message>>

\* _deduplicate: the first of each.
Deduplicate(signals) ==
    Keep(signals, {i \in DOMAIN signals : \A j \in 1..(i - 1) : Key(signals[j]) # Key(signals[i])})

\* The lines that say some test failed.
SummaryLines(lines) == {i \in DOMAIN lines : lines[i].kind = "summary" /\ lines[i].failing}

\* Where the parser finds something: at diagnostics, at tests, and at the first
\* failing summary where no test is reported by itself.
Events(lines) ==
    LET tests == {i \in DOMAIN lines : lines[i].kind = "header"}
    IN  {i \in DOMAIN lines : lines[i].kind = "compiler"} \union tests
          \union (IF tests = {} /\ SummaryLines(lines) # {} THEN {Min(SummaryLines(lines))} ELSE {})

SignalAt(lines, i) ==
    IF lines[i].kind = "compiler" THEN CompilerSignal(lines, i)
    ELSE IF lines[i].kind = "header" THEN TestSignal(lines, i)
    ELSE SummarySignal

\* parse_text: in the order they appear.
ParseText(lines) ==
    LET order == InOrder(Events(lines))
    IN  Deduplicate([n \in DOMAIN order |-> SignalAt(lines, order[n])])

-----------------------------------------------------------------------------
(* Localization.                                                           *)

\* The mutant that takes any of them.
AnyOf(files) == IF files # {} THEN CHOOSE f \in files : TRUE ELSE None

\* _unique_relative.
Unique(files) == IF Cardinality(files) = 1 THEN CHOOSE f \in files : TRUE ELSE None

\* _find_unique_suffix: the path from the source root on, in any module.
FindUniqueSuffix(suffix) ==
    Unique({f \in workspace : /\ f.root = suffix.root
                              /\ f.package = suffix.package
                              /\ f.name = suffix.name})

\* _find_unique_name: below the source roots of the workspace itself.
FindUniqueName(name) == Unique({f \in workspace : f.module = "top" /\ f.name = name})

\* _localize_reported: a path of this workspace, of another one, or a name.
LocalizeReported(reported) ==
    IF reported.from = "name" THEN FindUniqueName(reported.name)
    ELSE IF reported.from = "here" /\ reported.path \in workspace THEN reported.path
    ELSE FindUniqueSuffix(reported.path)

\* _localize_frame: directly below a source root, where the class has to be; a
\* file that a generator put below a directory of its own is not there.  By name
\* only if the class has no package.
LocalizeFrame(frame) ==
    LET exact == Unique({f \in workspace : /\ f.module = "top"
                                           /\ f.package = frame.class.package
                                           /\ f.name = frame.class.name})
    IN  IF exact # None THEN exact
        ELSE IF frame.class.package = None THEN FindUniqueName(frame.class.name)
        ELSE None

\* SourceLocator.localize: as reported, or by the first frame that can be found.
Localize(failure) ==
    LET direct == IF failure.reported = None THEN None ELSE LocalizeReported(failure.reported)
        found  == {i \in DOMAIN failure.frames : LocalizeFrame(failure.frames[i]) # None}
    IN  IF direct # None THEN [failure EXCEPT !.file = direct]
        ELSE IF found = {} THEN [failure EXCEPT !.file = None]
        ELSE LET frame == failure.frames[Min(found)]
             IN  [failure EXCEPT !.file = LocalizeFrame(frame),
                                 !.line = frame.line,
                                 !.reported = NamedFile(frame.class.name)]

\* context_for: no window for a line the file does not have.
HasContext(failure) ==
    failure.file # None /\ failure.line # None /\ failure.line <= LineCount

Focus(failure) == <<failure.file, failure.line>>

\* analyze_workspace: one window for each place.
ContextsOf(localized) ==
    {Focus(localized[i]) : i \in {j \in DOMAIN localized : HasContext(localized[j])}}

\* classify_failure_analysis of a build that failed.
ClassifyFailures(localized) ==
    LET found == {i \in DOMAIN localized : localized[i].file # None}
    IN  IF localized # <<>> /\ found = DOMAIN localized THEN "FAILURES_LOCALIZED"
        ELSE IF found # {} THEN "FAILURES_PARSED_PARTIALLY"
        ELSE "FAILURE_UNLOCALIZED"

\* FailureAnalysisResult.primary_failure.
PrimaryFailure ==
    LET Localized(categories) ==
            {i \in DOMAIN failures : failures[i].file # None /\ failures[i].category \in categories}
    IN  IF Localized(CompilerCategories) # {} THEN failures[Min(Localized(CompilerCategories))]
        ELSE IF Localized(TestCategories) # {} THEN failures[Min(Localized(TestCategories))]
        ELSE IF failures # <<>> THEN failures[1]
        ELSE None

-----------------------------------------------------------------------------
(* The analysis of one build.                                              *)

Reports == UNION {{build[s][i] : i \in DOMAIN build[s]} : s \in DOMAIN build}

\* The compiler reads the files it complains of.
FailureInit ==
    /\ outcome \in {"PASS", "FAIL", "TIMEOUT", "ERROR"}
    /\ build \in Streams
    /\ workspace \in Workspaces
    /\ \A report \in Reports :
          report.kind = "diagnostic" /\ report.path.from = "here" => report.path.path \in workspace
    /\ unread = build
    /\ failures = <<>>
    /\ next = 0
    /\ contexts = {}
    /\ status = None

\* Only a build that failed is parsed.
NothingToParse ==
    /\ outcome # "FAIL" /\ status = None
    /\ status' = CASE outcome = "PASS" -> "NO_FAILURE"
                   [] outcome = "TIMEOUT" -> "TIMEOUT"
                   [] outcome = "ERROR" -> "EXECUTION_ERROR"
    /\ UNCHANGED <<outcome, build, workspace, unread, failures, next, contexts>>

ParseStream ==
    /\ outcome = "FAIL" /\ unread # <<>>
    /\ failures' = failures \o ParseText(Text(Head(unread)))
    /\ unread' = Tail(unread)
    /\ UNCHANGED <<outcome, build, workspace, next, contexts, status>>

FinishParsing ==
    /\ outcome = "FAIL" /\ unread = <<>> /\ next = 0
    /\ failures' = Deduplicate(failures)
    /\ next' = 1
    /\ UNCHANGED <<outcome, build, workspace, unread, contexts, status>>

LocalizeNext ==
    /\ next \in DOMAIN failures /\ status = None
    /\ failures' = [failures EXCEPT ![next] = Localize(@)]
    /\ next' = next + 1
    /\ UNCHANGED <<outcome, build, workspace, unread, contexts, status>>

Conclude ==
    /\ outcome = "FAIL" /\ next = Len(failures) + 1 /\ status = None
    /\ LET localized == Deduplicate(failures)
       IN  /\ failures' = localized
           /\ next' = Len(localized) + 1
           /\ contexts' = ContextsOf(localized)
           /\ status' = ClassifyFailures(localized)
    /\ UNCHANGED <<outcome, build, workspace, unread>>

FailureNext == NothingToParse \/ ParseStream \/ FinishParsing \/ LocalizeNext \/ Conclude

FailureSpec == FailureInit /\ [][FailureNext]_failureVars

-----------------------------------------------------------------------------

Traced(report) ==
    Keep(report.frames, {n \in DOMAIN report.frames : ~Framework(report.frames[n].class)})

\* The failure is what the parser knows of this report: nothing another report
\* said is mixed into it, whatever was cut off.
TellsOf(failure, report) ==
    CASE report.kind = "diagnostic" ->
            /\ failure.category = report.category
            /\ failure.reported = report.path /\ failure.line = report.line
            /\ failure.symbol \in {report.symbol, None}
      [] report.kind = "test" ->
            /\ failure.category \in TestCategories
            /\ failure.message \in {report.test, report.exception}
            /\ IsPrefix(failure.frames, Traced(report))
      [] report.kind = "summary" -> report.failing /\ failure.message = "summary"
      [] OTHER -> FALSE

\* Every failure is about one thing the build reported, and has the symbol, the
\* exception and the frames of that report and of no other.
FailuresAreNotMixedUp ==
    \A i \in DOMAIN failures : \E report \in Reports : TellsOf(failures[i], report)

\* What a failing test is known by.
Said(report) == IF report.exception = None THEN report.test ELSE report.exception

\* Two tests that say the same from the same point on.
SameThrow(report, other) ==
    /\ report.kind = "test" /\ other.kind = "test"
    /\ Said(report) = Said(other)
    /\ Traced(report) # <<>> /\ Traced(other) # <<>>
    /\ Traced(report)[1].class.name = Traced(other)[1].class.name
    /\ Traced(report)[1].line = Traced(other)[1].line

\* The error is known from another path to the same place; what the test said is
\* known, at a line of its trace or of a test that failed at the same point.
SameAsAnother(failure, report) ==
    CASE report.kind = "diagnostic" ->
            /\ failure.category = report.category /\ failure.line = report.line
            /\ failure.symbol \in {report.symbol, None}
            /\ failure.file # None /\ failure.file = LocalizeReported(report.path)
      [] report.kind = "test" ->
            /\ failure.category \in TestCategories
            /\ \E other \in Reports :
                  /\ SameThrow(report, other) /\ failure.message = Said(other)
                  /\ \E n \in DOMAIN Traced(other) : Traced(other)[n].line = failure.line
      [] OTHER -> FALSE

\* Every error and every failing test the build reported is among the failures,
\* unless another failure, at the same place or thrown at the same point, says
\* the same.
EveryReportIsFound ==
    status # None /\ outcome = "FAIL" =>
        /\ \A report \in Reports :
              report.kind \in {"diagnostic", "test"} =>
                  \E i \in DOMAIN failures :
                      TellsOf(failures[i], report) \/ SameAsAnother(failures[i], report)
        /\ (\E report \in Reports : report.kind = "summary" /\ report.failing) => failures # <<>>

\* A failure of the compiler is placed in the file it was reported in, or in the
\* only file of the workspace that can be that one.
PlacesAreCertain ==
    \A i \in DOMAIN failures :
        failures[i].file # None /\ failures[i].category \in CompilerCategories =>
            LET path == failures[i].reported.path
            IN  IF path \in workspace /\ failures[i].reported.from = "here"
                THEN failures[i].file = path
                ELSE \A f \in workspace :
                        f.root = path.root /\ f.package = path.package /\ f.name = path.name
                            => failures[i].file = f

\* Whatever is localized in a line its file has can be looked at: the planner
\* and the investigator find the window of the primary failure by place.
EveryPlaceHasItsContext ==
    status # None =>
        /\ \A i \in DOMAIN failures : HasContext(failures[i]) => Focus(failures[i]) \in contexts
        /\ \A c \in contexts : \E i \in DOMAIN failures : c = Focus(failures[i])

\* What later phases find at the place of a failure is that failure: both of
\* the above.
PlacesAreSound == PlacesAreCertain /\ EveryPlaceHasItsContext

-----------------------------------------------------------------------------
(* What the documents and tests say and the code does not do.              *)

\* "Classifies common Javac and Surefire failures": what is taken for the
\* primary failure of a build is not one of its warnings.
PrimaryIsNoWarning ==
    status # None /\ PrimaryFailure # None
        /\ (\E report \in Reports : report.kind = "test" \/ (report.kind = "diagnostic" /\ ~report.warning))
        => \E report \in Reports :
               /\ TellsOf(PrimaryFailure, report)
               /\ report.kind = "diagnostic" => ~report.warning

\* "dependency_stack_frame_does_not_map_by_basename": a test failure is placed
\* in the source of the class of one of its frames.
TestsArePlacedByTheirFrames ==
    \A i \in DOMAIN failures :
        failures[i].file # None /\ failures[i].category \in TestCategories =>
            \E n \in DOMAIN failures[i].frames :
                LET frame == failures[i].frames[n]
                IN  /\ frame.class.name = failures[i].file.name
                    /\ frame.class.package \in {failures[i].file.package, None}
                    /\ frame.line = failures[i].line

\* Two tests that fail at the same line of a library are one failure: that of
\* the first, so the place where the second one calls it is in no failure.
EveryTestIsPlacedByItsTrace ==
    status # None /\ outcome = "FAIL" =>
        \A report \in Reports :
            report.kind = "test" =>
                \E i \in DOMAIN failures :
                    \/ TellsOf(failures[i], report)
                    \/ /\ failures[i].message = Said(report)
                       /\ \E n \in DOMAIN Traced(report) : Traced(report)[n].line = failures[i].line
=============================================================================
