------------------------------ MODULE Schedule ------------------------------
(***************************************************************************)
(* counterbalanced_schedule (evaluation/schedule.py): the order in which a *)
(* benchmark executes its cases, trials and strategies.  Entry o of the    *)
(* tuple the three nested loops build is computed from o.                  *)
(***************************************************************************)
EXTENDS Naturals, Sequences

CONSTANTS
    Cases,       \* the sequence suite.cases, by id
    Strategies,  \* the sequence suite.strategies
    Trials       \* suite.trials

\* What BenchmarkSuite.__post_init__ enforces.
ASSUME SuiteAssumption ==
    /\ Cases \in Seq(STRING) /\ Cases # <<>>
    /\ Strategies \in Seq(STRING) /\ Strategies # <<>>
    /\ Trials \in Nat \ {0}
    /\ \A i, j \in 1..Len(Cases) : Cases[i] = Cases[j] => i = j
    /\ \A i, j \in 1..Len(Strategies) : Strategies[i] = Strategies[j] => i = j

CaseIds == {Cases[i] : i \in 1..Len(Cases)}
StrategyIds == {Strategies[i] : i \in 1..Len(Strategies)}

Planned == Len(Cases) * Trials * Len(Strategies)
Ordinals == 1..Planned

\* The mutant that starts every case and trial with the same strategy.
RotatedNever(offset) == Strategies

\* strategies[offset:] + strategies[:offset]
Rotated(offset) ==
    SubSeq(Strategies, offset + 1, Len(Strategies)) \o SubSeq(Strategies, 1, offset)

Entry(o) ==
    LET block    == (o - 1) \div Len(Strategies)  \* one pass of the trial loop
        case     == block \div Trials             \* case_index, from 0
        trial    == (block % Trials) + 1
        position == ((o - 1) % Len(Strategies)) + 1
    IN  [case     |-> Cases[case + 1],
         trial    |-> trial,
         strategy |-> Rotated((case + trial - 1) % Len(Strategies))[position],
         position |-> position]

\* The schedule, each entry computed once.
schedule == [o \in Ordinals |-> Entry(o)]

\* cases/<case>/<strategy>/<trial>/result.json
Paths == CaseIds \X StrategyIds \X (1..Trials)
ResultPath(o) == <<schedule[o].case, schedule[o].strategy, schedule[o].trial>>
=============================================================================
