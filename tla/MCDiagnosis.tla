---------------------------- MODULE MCDiagnosis -----------------------------
(***************************************************************************)
(* Small worlds: the target and a library below it, two classes, a package *)
(* with a sub-package, an overloaded method, and four source files.        *)
(***************************************************************************)
EXTENDS Diagnosis

CONSTANTS target, tests, sources, library, C, D, P, javaxT, jakartaT

\* The target is a jar, and may come with two other artifacts of its own.
MCKeys == {target, tests, sources, library}
MCTargetKeys == {target, tests, sources}
MCClasses == {C, D}
MCPackages == {P}

\* C lies in the package, D in a package below it.
MCUnder == [p \in {P} |-> {C, D}]
MCDirectly == [p \in {P} |-> {C}]

MCSimpleName == [t \in {"int", "String", javaxT, jakartaT} |->
                    IF t \in {javaxT, jakartaT} THEN "T" ELSE t]

Method(parameters) ==
    [name |-> "m", kind |-> "METHOD", parameters |-> parameters, returns |-> "int",
     is_static |-> FALSE]

Static(method) == [method EXCEPT !.is_static = TRUE]

MCMembers == {Method(<<>>), Method(<<"int">>), Method(<<javaxT>>), Method(<<jakartaT>>),
              Static(Method(<<"int">>))}

MCSourceKind == [f \in 1..4 |-> IF f = 3 THEN "GENERATED_SOURCE"
                                ELSE IF f = 4 THEN "TEST_SOURCE" ELSE "PRODUCTION_SOURCE"]

MCClassOrder == [n \in {C, D, P} |-> IF n = C THEN 1 ELSE IF n = D THEN 2 ELSE 3]

-----------------------------------------------------------------------------

AtTop(key, version) == [key |-> key, version |-> version, depth |-> 1, parent |-> None]
Below(key, version, parent) == [key |-> key, version |-> version, depth |-> 2, parent |-> parent]

\* The trees before and after: the library comes with the target, by itself,
\* with another version, or not at all.
Trees ==
    {<<<<AtTop(target, 1), Below(library, 1, target)>>, after>> :
        after \in {<<AtTop(target, 2), Below(library, 2, target)>>, <<AtTop(target, 2)>>,
                   <<AtTop(target, 2), Below(library, 1, target)>>,
                   <<AtTop(target, 2), AtTop(library, 2)>>}}
    \union {<<<<AtTop(library, 1), AtTop(target, 1)>>, <<AtTop(library, 2), AtTop(target, 2)>>>>,
            <<<<AtTop(target, 1)>>, <<AtTop(target, 2), Below(library, 1, target)>>>>}

JarOf(jarStatus, contents, members, inspectable) ==
    [status |-> jarStatus, classes |-> contents, api |-> [c \in MCClasses |-> members],
     inspectable |-> inspectable]

NoJar == JarOf("readable", {}, {}, TRUE)

Symbol(parameters) == [name |-> "m", parameters |-> parameters]

FailureOf(category, symbol, found) ==
    [category |-> category, symbol |-> symbol, found |-> found, traced |-> FALSE]

MemberFailures ==
    {FailureOf("MISSING_SYMBOL", Symbol(<<"int">>), None),
     FailureOf("METHOD_ARGUMENT_MISMATCH", Symbol(None), <<javaxT>>),
     FailureOf("METHOD_ARGUMENT_MISMATCH", Symbol(None), None),
     FailureOf("INCOMPATIBLE_TYPES", None, None)}

Mentioned(name) == [name |-> name, platform |-> FALSE, project_owned |-> FALSE]

At(file) == [file |-> file, localized |-> TRUE, call_site |-> TRUE, line_exists |-> TRUE]

\* A line the file does not have: the failure has no window.
Beyond(file) == [file |-> file, localized |-> FALSE, call_site |-> FALSE, line_exists |-> FALSE]

Nowhere == [file |-> None, localized |-> FALSE, call_site |-> FALSE, line_exists |-> FALSE]

Use(file, class, use) == [file |-> file, class |-> class, use |-> use]

World(trees, jars, failure, mentions, source, checkout, uses) ==
    [base |-> trees[1], updated |-> trees[2], jars |-> jars, failure |-> failure,
     mentions |-> mentions, source |-> source, checkout |-> checkout, uses |-> uses]

JarsOf(t1, l1, t2, l2) ==
    [base |-> [k \in MCKeys |-> IF k = library THEN l1 ELSE t1],
     updated |-> [k \in MCKeys |-> IF k = library THEN l2 ELSE t2]]

\* One class, in the jars of one owner or two, with any pair of declarations.
Apis == {{}, {Method(<<"int">>)}, {Method(<<>>), Method(<<"int">>)}, {Method(<<javaxT>>)},
         {Method(<<jakartaT>>)}, {Static(Method(<<"int">>))}}

OwnerJars ==
    {NoJar, JarOf("unreadable", {}, {}, TRUE), JarOf("unlisted", {C}, {Method(<<>>)}, TRUE)}
        \union {JarOf("readable", {C}, members, TRUE) : members \in Apis}
        \union {JarOf("readable", {C}, {Method(<<"int">>)}, FALSE)}

OwnershipWorlds ==
    {World(trees, JarsOf(t1, l1, t2, l2), failure, <<Mentioned(C)>>, source, {1, 2, 4}, {}) :
        trees \in Trees, t1 \in {NoJar, JarOf("unreadable", {C}, {}, TRUE)},
        t2 \in {NoJar, JarOf("readable", {C}, {}, TRUE)},
        l1 \in OwnerJars, l2 \in OwnerJars, failure \in MemberFailures, source \in {At(1), Nowhere}}

\* Two classes and a package in the library, named in any order.
MentionLists ==
    {<<Mentioned(C), Mentioned(D)>>, <<Mentioned(D), Mentioned(C), Mentioned(D)>>,
     <<Mentioned(P)>>, <<Mentioned(P), Mentioned(D)>>,
     <<[name |-> C, platform |-> TRUE, project_owned |-> FALSE],
       [name |-> D, platform |-> FALSE, project_owned |-> TRUE]>>}

SeveralJars ==
    {JarOf("readable", contents, members, TRUE) :
        contents \in SUBSET MCClasses, members \in {{}, {Method(<<"int">>)}}}
        \union {JarOf("listed_twice", {C}, {}, TRUE)}

PackageFailure == FailureOf("PACKAGE_NOT_FOUND", [name |-> "P", parameters |-> None], None)

TestFailure == [category |-> "TEST_EXCEPTION", symbol |-> None, found |-> None, traced |-> TRUE]

SeveralWorlds ==
    {World(trees, JarsOf(t, l1, t, l2), failure, mentions, At(1), {1, 2, 4}, {}) :
        trees \in Trees, t \in {NoJar, JarOf("readable", {D}, {}, TRUE)},
        l1 \in SeveralJars, l2 \in SeveralJars, mentions \in MentionLists,
        failure \in {FailureOf("MISSING_SYMBOL", Symbol(<<"int">>), None), PackageFailure, TestFailure}}

\* A class that is gone, used here and there: what the plan makes of it.
Uses == {Use(1, C, "import"), Use(2, C, "mention"), Use(4, C, "import"), Use(4, C, "call"),
         Use(2, C, "call")}

PlanningWorlds ==
    {World(CHOOSE t \in Trees : Len(t[2]) = 2 /\ t[2][2] = Below(library, 2, target),
           JarsOf(NoJar, JarOf("readable", {C}, {Method(<<>>)}, TRUE), NoJar, l2),
           FailureOf("MISSING_SYMBOL", Symbol(None), None), <<Mentioned(C)>>,
           source, checkout, uses) :
        l2 \in {NoJar, JarOf("readable", {C}, {}, TRUE)},
        source \in {At(file) : file \in 1..4} \union {Beyond(1)},
        checkout \in {{1, 2, 4}, {1, 2, 3, 4}}, uses \in SUBSET Uses}

\* No failure was recognised, or the target is two artifacts and neither its jar.
EmptyWorlds ==
    {World(trees, JarsOf(NoJar, NoJar, NoJar, NoJar), None, <<>>, Nowhere, {1}, {}) :
        trees \in Trees \union {<<<<AtTop(target, 1)>>, <<AtTop(tests, 2), AtTop(sources, 2)>>>>}}

MCWorlds == <<OwnershipWorlds, SeveralWorlds, PlanningWorlds, EmptyWorlds>>
=============================================================================
