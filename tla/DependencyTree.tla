--------------------------- MODULE DependencyTree ---------------------------
(***************************************************************************)
(* DependencyTreeParser.parse (analysis/dependency_diff.py): one pass over *)
(* the lines of a dependency:tree, with the active parent of each depth.   *)
(* Maven prints a tree depth first; in a verbose tree, entries that lost a *)
(* conflict or repeat another are printed and marked omitted.              *)
(*                                                                         *)
(* `text' is what has been read.  Nothing is assumed of the lines: the     *)
(* parser has to refuse what it cannot represent.                          *)
(***************************************************************************)
EXTENDS Dependencies, FiniteSetsExt

CONSTANTS
    MaxDepth,    \* how deep a line may be indented: a bound of the model
    MaxLines     \* how many lines are read: a bound of the model

ASSUME BoundAssumption == MaxDepth \in Nat \ {0} /\ MaxLines \in Nat

VARIABLES
    text,        \* the lines read so far
    nodes,       \* the nodes kept so far
    parents,     \* parent_at_depth: the active key of each depth, or None
    projects,    \* how many project roots were read
    phase       \* "reading", "parsed" or "rejected"

parserVars == <<text, nodes, parents, projects, phase>>

Depths == 1..MaxDepth

\* A line that is neither a project nor an entry is skipped without a trace.
Line ==
    [form : {"project"}]
        \union [form : {"entry"}, depth : Depths, key : Keys, version : Versions]
        \union [form : {"omitted"}, depth : Depths]
        \union [form : {"malformed"}]

ParserTypeOK ==
    /\ text \in Seq(Line)
    /\ nodes \in Seq(Node)
    /\ parents \in [Depths -> Keys \union {None}]
    /\ projects \in Nat
    /\ phase \in {"reading", "parsed", "rejected"}

-----------------------------------------------------------------------------

NoParents == [d \in Depths |-> None]

ParseInit ==
    /\ text = <<>>
    /\ nodes = <<>>
    /\ parents = NoParents
    /\ projects = 0
    /\ phase = "reading"

\* The mutant of a parser that skips an omitted entry altogether.
OmittedIgnored(line) == parents

\* An omitted entry ends what was active at its depth and below.
AfterOmitted(line) == [d \in Depths |-> IF d < line.depth THEN parents[d] ELSE None]

\* An entry becomes the active parent of its depth; deeper ones are stale.
AfterEntry(line) ==
    [d \in Depths |-> IF d < line.depth THEN parents[d]
                      ELSE IF d = line.depth THEN line.key ELSE None]

Reject(line) ==
    /\ text' = Append(text, line)
    /\ phase' = "rejected"
    /\ UNCHANGED <<nodes, parents, projects>>

ReadProject(line) ==
    /\ line.form = "project"
    /\ text' = Append(text, line)
    /\ projects' = projects + 1
    /\ parents' = NoParents
    /\ UNCHANGED <<nodes, phase>>

ReadOmitted(line) ==
    /\ line.form = "omitted"
    /\ text' = Append(text, line)
    /\ parents' = AfterOmitted(line)
    /\ UNCHANGED <<nodes, projects, phase>>

ActiveParent(line) == IF line.depth = 1 THEN None ELSE parents[line.depth - 1]

\* The mutant of a parser that takes any entry for a root of the tree.
NeverOrphan(line) == FALSE

\* An entry below a line that cannot have children.
Orphan(line) == line.depth > 1 /\ ActiveParent(line) = None

\* An entry for a key that is already active with another version or scope.
Conflict(line) == VersionAt(nodes, line.key) \notin {None, line.version}

\* A repeated entry is not kept but does become the active parent.
ReadEntry(line) ==
    /\ line.form = "entry" /\ ~Orphan(line) /\ ~Conflict(line)
    /\ text' = Append(text, line)
    /\ nodes' = IF line.key \in KeysOf(nodes) THEN nodes
                ELSE Append(nodes, [key |-> line.key, version |-> line.version,
                                    depth |-> line.depth, parent |-> ActiveParent(line)])
    /\ parents' = AfterEntry(line)
    /\ UNCHANGED <<projects, phase>>

ReadUnusable(line) ==
    /\ \/ line.form = "malformed"
       \/ line.form = "entry" /\ (Orphan(line) \/ Conflict(line))
    /\ Reject(line)

Read ==
    /\ phase = "reading"
    /\ Len(text) < MaxLines
    /\ \E line \in Line :
          ReadProject(line) \/ ReadOmitted(line) \/ ReadEntry(line) \/ ReadUnusable(line)

\* The end of the output: there must have been exactly one project.
Finish ==
    /\ phase = "reading"
    /\ phase' = IF projects = 1 THEN "parsed" ELSE "rejected"
    /\ UNCHANGED <<text, nodes, parents, projects>>

ParseNext == Read \/ Finish

ParseSpec == ParseInit /\ [][ParseNext]_parserVars

-----------------------------------------------------------------------------

\* The parents of the nodes are nodes Maven printed earlier, so the way up
\* from any node ends at a dependency of the project: the `seen' set and the
\* bound of reconstruct_dependency_path are never what stops it.
ParentsComeFirst ==
    \A i \in DOMAIN nodes :
        /\ nodes[i].depth = 1 <=> nodes[i].parent = None
        /\ nodes[i].parent # None => \E j \in 1..(i - 1) : nodes[j].key = nodes[i].parent

\* Every path the analysis reports runs from a node without a parent down to
\* the node it was asked for, each node the parent of the next.
PathsAreComplete ==
    \A k \in KeysOf(nodes) :
        LET path == DependencyPath(nodes, k)
        IN  /\ path # <<>> /\ path[Len(path)] = k
            /\ NodeAt(nodes, path[1]).parent = None
            /\ \A i \in 2..Len(path) : NodeAt(nodes, path[i]).parent = path[i - 1]

\* The line that the tree Maven printed has above line l: the last shallower one.
LineAbove(l) == {m \in 1..(l - 1) : text[m].form \in {"entry", "omitted"} /\ text[m].depth < text[l].depth
                                       /\ \A n \in (m + 1)..(l - 1) : text[n].form # "project"}

\* The parent of a node is the entry above the line it was read from, one
\* level up, and never an entry that Maven marked omitted.
ParentsAreTheTreesOwn ==
    \A i \in DOMAIN nodes :
        LET l == Min({m \in DOMAIN text : text[m].form = "entry" /\ text[m].key = nodes[i].key})
        IN  nodes[i].parent # None =>
                LET above == text[Max(LineAbove(l))]
                IN  above.form = "entry" /\ above.depth = text[l].depth - 1
                        /\ above.key = nodes[i].parent

\* The validator of a patched tree: its lookups are those of Verification.
Validator == INSTANCE Verification WITH
    Files <- {}, TargetVersion <- CHOOSE v \in Versions : TRUE, CausalExpected <- FALSE,
    CausalKey <- CanonicalKey, CausalVersion <- CHOOSE v \in Versions : TRUE

\* A target the analysis finds in a tree is found in the same tree by the
\* validator of a patch, which otherwise reports it as not found.
ValidatorFindsTheTarget ==
    phase = "parsed" /\ FindTarget(nodes) # None =>
        LET tree == [execution |-> "PASS", parsed |-> TRUE,
                     nodes |-> [k \in Keys |-> VersionAt(nodes, k)]]
        IN  Validator!FindTarget(tree) = VersionAt(nodes, FindTarget(nodes))
=============================================================================
