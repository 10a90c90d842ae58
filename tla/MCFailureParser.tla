-------------------------- MODULE MCFailureParser ---------------------------
(***************************************************************************)
(* Builds of up to three reports on stdout and one on stderr, in a         *)
(* workspace with two modules, with limits so low that blocks are cut.     *)
(***************************************************************************)
EXTENDS FailureParser

File(module, root, package, name) ==
    [module |-> module, root |-> root, package |-> package, name |-> name]

AppA == File("top", "main", "app", "A")
SubA == File("sub", "main", "app", "A")
TestA == File("top", "test", "app", "A")
OtherA == File("top", "main", "other", "A")
AppB == File("top", "main", "app", "B")
PlainB == File("top", "test", None, "B")
\* target/generated-sources/annotations/app/A.java
GeneratedA == File("top", "generated", "annotations.app", "A")

MCSourceFiles == {AppA, SubA, TestA, OtherA, AppB, PlainB, GeneratedA}

MCWords == {"m", "n", "t1", "t2", "t3", "assertion", "exception"}

MCWorkspaces ==
    {{AppA, AppB}, {AppA, SubA}, {TestA, AppA}, {SubA, OtherA, AppB}, {OtherA, PlainB},
     {GeneratedA, AppB}}

Class(package, name) == [package |-> package, name |-> name]

MCClasses ==
    {Class("framework", "X"), Class("library", "A"), Class("library", "L"), Class("app", "A"),
     Class("app", "B"), Class(None, "B")}

Frame(class, line) == [class |-> class, line |-> line]

Here(file) == [from |-> "here", path |-> file]
Elsewhere(file) == [from |-> "elsewhere", path |-> file]

Diagnostic(path, line, category, symbol, details, warning) ==
    [kind |-> "diagnostic", path |-> path, line |-> line, category |-> category,
     symbol |-> symbol, details |-> details, warning |-> warning]

Test(test, exception, frames) ==
    [kind |-> "test", test |-> test, exception |-> exception, frames |-> frames]

Diagnostics ==
    {Diagnostic(Here(AppA), 1, "MISSING_SYMBOL", "m", 0, FALSE),
     Diagnostic(Here(AppA), 1, "MISSING_SYMBOL", "n", 0, FALSE),
     Diagnostic(Here(AppA), 2, "MISSING_SYMBOL", "m", 1, FALSE),
     Diagnostic(Here(SubA), 3, "COMPILATION_ERROR_OTHER", None, 0, FALSE),
     Diagnostic(Elsewhere(AppA), 1, "INCOMPATIBLE_TYPES", None, 2, FALSE),
     Diagnostic(Here(AppA), 1, "INCOMPATIBLE_TYPES", None, 0, FALSE),
     Diagnostic(Here(AppA), 2, "COMPILATION_ERROR_OTHER", None, 0, TRUE)}

Tests ==
    {Test("t1", "assertion", <<Frame(Class("framework", "X"), 9), Frame(Class("app", "A"), 1)>>),
     Test("t1", "exception", <<Frame(Class("library", "A"), 2), Frame(Class("app", "B"), 1)>>),
     Test("t2", "exception", <<Frame(Class(None, "B"), 1), Frame(Class("app", "A"), 2),
                               Frame(Class("app", "A"), 1), Frame(Class("library", "A"), 2)>>),
     Test("t2", "exception", <<Frame(Class("library", "L"), 2), Frame(Class("app", "B"), 1)>>),
     Test("t3", "exception", <<Frame(Class("library", "L"), 2), Frame(Class("app", "A"), 2)>>),
     Test("t2", None, <<>>)}

Others == {[kind |-> "summary", failing |-> TRUE], [kind |-> "summary", failing |-> FALSE],
           [kind |-> "stop"], [kind |-> "results"], [kind |-> "other"]}

AllReports == Diagnostics \union Tests \union Others

MCStreams ==
    {<<stdout, stderr>> :
        stdout \in UNION {[1..n -> AllReports] : n \in 0..2}, stderr \in {<<>>} \union [1..1 -> AllReports]}
    \union {<<stdout, <<>>>> : stdout \in [1..3 -> AllReports \ {[kind |-> "other"]}]}
=============================================================================
