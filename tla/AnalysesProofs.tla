---------------------------- MODULE AnalysesProofs ----------------------------
(***************************************************************************)
(* The safety properties of the analyses, for any calls, run directories   *)
(* and number of faults.                                                   *)
(***************************************************************************)
EXTENDS Analyses, Integers, TLAPS

\* A call has claimed its directory when it is past the second step, and a
\* directory has the call that claimed it for good.
DirectoryInv ==
    \A c \in Calls : call[c].at > 2 <=> directory[call[c].run] = c

AnswerIsWritten(c) ==
    \A n \in 1..(call[c].at - 1) :
        AnswersAt(call[c].service, n) => Wrote(c, Answer(call[c].service))

\* Every artifact was written by a step its writer has taken, and the answer
\* is there once its step has been taken.
ArtifactInv ==
    /\ \A a \in disk :
        /\ a[3] \in Calls /\ a[1] = call[a[3]].run
        /\ \E n \in 1..(call[a[3]].at - 1) :
            /\ Script[call[a[3]].service][n].op = "write"
            /\ Script[call[a[3]].service][n].what = a[2]
    /\ \A c \in Calls : AnswerIsWritten(c)

\* A test run tells the truth about its build unless it was cut off.
StatusInv ==
    \A c \in Calls : \A k \in Kinds :
        /\ call[c].status[k] \in {"none", builds[k], "TIMEOUT", "ERROR"}
        /\ call[c].status[k] \in {"TIMEOUT", "ERROR"} => faults > 0

\* What a call has tested by the time it judges.
TestsOf(c) ==
    /\ call[c].service = "reproduce" =>
        /\ call[c].at > 6 => call[c].status["BASE"] # "none"
        /\ call[c].at > 10 /\ call[c].status["BASE"] = "PASS" =>
               call[c].status["UPDATED"] # "none"
    /\ call[c].service = "failures" /\ call[c].at > 6 =>
           call[c].status["UPDATED"] # "none"
TestedInv == \A c \in Calls : TestsOf(c)

\* A call ends by itself behind its last step and by an exception before that.
PlaceInv ==
    \A c \in Calls :
        /\ call[c].mode = "returned" => call[c].at = ScriptLen(c) + 1
        /\ call[c].mode \in {"remove", "prune", "raised"} => call[c].at <= ScriptLen(c)

\* A call that cleans up is inside a manager, and no error it met is forgotten.
ErrorsOf(c) ==
    /\ call[c].mode \in {"run", "returned"} => ~call[c].failed /\ ~call[c].dirty
    /\ call[c].mode \in {"remove", "prune"} =>
        /\ Inside(c)
        /\ ~call[c].failed => Current(c).op = "close"
    /\ call[c].mode = "raised" =>
        /\ call[c].failed \/ call[c].dirty
        /\ call[c].error = IF call[c].failed THEN "step" ELSE "cleanup"
    /\ call[c].failed \/ call[c].dirty =>
        faults > 0 \/ directory[call[c].run] \notin {c, Nobody}
ErrorInv == \A c \in Calls : ErrorsOf(c)

\* Unless its cleanup failed, a call's worktrees are those of its open manager.
WorktreesOf(c) ==
    ~call[c].dirty =>
        /\ \A w \in Owned(c, dirs) \union Owned(c, registered) :
            /\ w[2] = call[c].manager
            /\ Inside(c)
            /\ call[c].mode \in {"run", "remove", "prune"}
        /\ call[c].mode = "prune" => Owned(c, dirs) = {}
WorktreeInv == \A c \in Calls : WorktreesOf(c)

AnalysesInv ==
    /\ TypeOK /\ PlaceInv /\ DirectoryInv /\ ArtifactInv
    /\ StatusInv /\ TestedInv /\ ErrorInv /\ WorktreeInv

-----------------------------------------------------------------------------
(* The scripts, step by step.                                              *)

LEMMA ScriptFacts ==
    ASSUME NEW s \in DOMAIN Script
    PROVE  /\ Len(Script[s]) \in Nat /\ Len(Script[s]) > 2
           /\ Script[s][1].op = "validate" /\ Script[s][2].op = "claim"
           /\ ~InsideAt(s, Len(Script[s]) + 1)
           /\ \A n \in 1..Len(Script[s]) :
                /\ Script[s][n].op = "claim" => n = 2
                /\ Script[s][n].op \in {"create", "test", "conclude"} =>
                       Script[s][n].what \in Kinds
                /\ Script[s][n].op = "branch" =>
                       Script[s][n].what \in {"passed", "supported"}
                /\ Script[s][n].skip \in Nat
                /\ n + Script[s][n].skip \in 1..Len(Script[s])
                /\ Script[s][n].op = "open" => ~InsideAt(s, n)
                /\ Script[s][n].op \in {"create", "close"} => InsideAt(s, n)
                /\ InsideAt(s, n) /\ Script[s][n].op # "close" => InsideAt(s, n + 1)
                /\ Script[s][n].op = "open" => InsideAt(s, n + 1)
                /\ InsideAt(s, n + 1 + Script[s][n].skip) <=> InsideAt(s, n + 1)
<1>1. /\ Script[s] \in Seq(Steps)
      /\ StartsWithItsDirectory(s) /\ BracketsItsWorktrees(s)
  BY ScriptsAreWellFormed
<1>2. DOMAIN Script[s] = 1..Len(Script[s]) /\ Len(Script[s]) \in Nat
  BY <1>1
<1>3. \A n \in 1..Len(Script[s]) : Script[s][n] \in Steps
  BY <1>1
<1>4. Len(Script[s]) > 2 /\ Script[s][1].op = "validate"
  BY <1>1 DEF StartsWithItsDirectory
<1>8. Script[s][2].op = "claim"
  <2>1. 2 \in DOMAIN Script[s]
    BY <1>2, <1>4
  <2> QED
    BY <1>1, <2>1 DEF StartsWithItsDirectory
<1>5. ~InsideAt(s, Len(Script[s]) + 1)
  BY <1>1 DEF BracketsItsWorktrees
<1>6. ASSUME NEW n \in 1..Len(Script[s])
      PROVE  /\ Script[s][n].op = "claim" => n = 2
             /\ Script[s][n].op \in {"create", "test", "conclude"} =>
                    Script[s][n].what \in Kinds
             /\ Script[s][n].op = "branch" =>
                    Script[s][n].what \in {"passed", "supported"}
             /\ n + Script[s][n].skip \in 1..Len(Script[s])
  BY <1>1, <1>2 DEF StartsWithItsDirectory
<1>7. ASSUME NEW n \in 1..Len(Script[s])
      PROVE  /\ Script[s][n].op = "open" => ~InsideAt(s, n)
             /\ Script[s][n].op \in {"create", "close"} => InsideAt(s, n)
             /\ InsideAt(s, n) /\ Script[s][n].op # "close" => InsideAt(s, n + 1)
             /\ Script[s][n].op = "open" => InsideAt(s, n + 1)
             /\ InsideAt(s, n + 1 + Script[s][n].skip) <=> InsideAt(s, n + 1)
  BY <1>1, <1>2 DEF BracketsItsWorktrees
<1> QED
  BY <1>2, <1>3, <1>4, <1>5, <1>6, <1>7, <1>8 DEF Steps

LEMMA ScriptLength == \A s \in DOMAIN Script : Len(Script[s]) \in Nat /\ Len(Script[s]) > 2
BY ScriptFacts

LEMMA AnswerFacts ==
    ASSUME NEW s \in DOMAIN Script
    PROVE  /\ \E n \in 1..Len(Script[s]) : AnswersAt(s, n)
           /\ \A n \in 1..Len(Script[s]) :
                /\ AnswersAt(s, n) /\ s # "failures" => n = Len(Script[s])
                /\ \A m \in (n + 1)..(n + Script[s][n].skip) : ~AnswersAt(s, m)
<1>1. /\ Script[s] \in Seq(Steps)
      /\ EndsWithItsAnswer(s)
  BY ScriptsAreWellFormed
<1>2. DOMAIN Script[s] = 1..Len(Script[s])
  BY <1>1
<1> QED
  BY <1>1, <1>2 DEF EndsWithItsAnswer

-----------------------------------------------------------------------------
(* Types.                                                                  *)

LEMMA InitTypes == Init => TypeOK
<1> SUFFICES ASSUME Init PROVE TypeOK
  OBVIOUS
<1>1. PICK assigned \in Services :
        call = [c \in Calls |->
            [service |-> assigned[c].service, run |-> assigned[c].run,
             at |-> 1, mode |-> "run", manager |-> 0, tracked |-> <<>>,
             status |-> [k \in Kinds |-> "none"],
             error  |-> "none", failed |-> FALSE, dirty  |-> FALSE]]
  BY DEF Init
<1>2. assigned \in [Calls -> [service : DOMAIN Script, run : RunIds]]
  BY AnalysesAssumption
<1>3. call \in [Calls -> CallStates]
  BY <1>1, <1>2 DEF CallStates, Modes, Statuses
<1>4. ASSUME NEW c \in Calls PROVE call[c].at \in 1..(Len(Script[call[c].service]) + 1)
  <2>1. call[c].service \in DOMAIN Script /\ call[c].at = 1
    BY <1>1, <1>2
  <2> QED
    BY <2>1, ScriptLength
<1> QED
  BY <1>3, <1>4, AnalysesAssumption DEF Init, TypeOK

\* What the step a call is at may be.
LEMMA StepFacts ==
    ASSUME TypeOK, NEW c \in Calls, call[c].at <= ScriptLen(c)
    PROVE  /\ call[c].service \in DOMAIN Script /\ call[c].at \in 1..ScriptLen(c)
           /\ ScriptLen(c) \in Nat
           /\ (Current(c).op = "claim") <=> (call[c].at = 2)
           /\ call[c].at = 1 => Current(c).op = "validate"
           /\ Current(c).op \in {"create", "test", "conclude"} => Current(c).what \in Kinds
           /\ Current(c).op = "branch" => Current(c).what \in {"passed", "supported"}
           /\ Current(c).skip \in Nat
           /\ call[c].at + Current(c).skip \in 1..ScriptLen(c)
           /\ Current(c).op = "open" => ~Inside(c)
           /\ Current(c).op \in {"create", "close"} => Inside(c)
<1>1. call[c] \in CallStates /\ call[c].at \in 1..(ScriptLen(c) + 1)
  BY DEF TypeOK, ScriptLen
<1>2. call[c].service \in DOMAIN Script /\ ScriptLen(c) \in Nat
  BY <1>1, ScriptLength DEF CallStates, ScriptLen
<1>3. call[c].at \in 1..ScriptLen(c)
  BY <1>1, <1>2
<1>4. /\ Script[call[c].service][1].op = "validate"
      /\ Script[call[c].service][2].op = "claim"
  BY <1>2, ScriptFacts
<1> DEFINE n == call[c].at  s == call[c].service
<1>5. /\ Script[s][n].op = "claim" => n = 2
      /\ Script[s][n].op \in {"create", "test", "conclude"} => Script[s][n].what \in Kinds
      /\ Script[s][n].op = "branch" => Script[s][n].what \in {"passed", "supported"}
      /\ Script[s][n].skip \in Nat
      /\ n + Script[s][n].skip \in 1..Len(Script[s])
      /\ Script[s][n].op = "open" => ~InsideAt(s, n)
      /\ Script[s][n].op \in {"create", "close"} => InsideAt(s, n)
  BY <1>2, <1>3, ScriptFacts DEF ScriptLen
<1>6. (Current(c).op = "claim") <=> (call[c].at = 2)
  BY <1>4, <1>5 DEF Current
<1>7. call[c].at = 1 => Current(c).op = "validate"
  BY <1>4, <1>5 DEF Current
<1>8. /\ Current(c).op \in {"create", "test", "conclude"} => Current(c).what \in Kinds
      /\ Current(c).op = "branch" => Current(c).what \in {"passed", "supported"}
  BY <1>5 DEF Current
<1>9. /\ Current(c).skip \in Nat
      /\ call[c].at + Current(c).skip \in 1..ScriptLen(c)
  BY <1>5 DEF Current, ScriptLen
<1>10. /\ Current(c).op = "open" => ~Inside(c)
       /\ Current(c).op \in {"create", "close"} => Inside(c)
  BY <1>5 DEF Current, Inside
<1> QED
  BY <1>2, <1>3, <1>6, <1>7, <1>8, <1>9, <1>10

\* A step of a call changes its own record only, and the record stays one.
LEMMA OneRecord ==
    ASSUME TypeOK, PlaceInv, NEW c \in Calls, Act(c)
    PROVE  \E state \in CallStates :
              /\ Update(c, state) /\ state.at \in 1..(ScriptLen(c) + 1)
              /\ state.service = call[c].service /\ state.run = call[c].run
<1>1. /\ call \in [Calls -> CallStates] /\ call[c] \in CallStates
      /\ call[c].at \in 1..(ScriptLen(c) + 1)
  BY DEF TypeOK, ScriptLen
<1>2. ScriptLen(c) \in Nat
  BY <1>1, ScriptLength DEF CallStates, ScriptLen
<1>3. call[c].at <= ScriptLen(c) =>
         /\ Current(c).skip \in Nat /\ call[c].at + Current(c).skip \in 1..ScriptLen(c)
         /\ Current(c).op \in {"create", "test", "conclude"} => Current(c).what \in Kinds
  BY StepFacts
<1>4. call[c].at \in Nat /\ call[c].at + 1 \in Nat
  BY <1>1
<1>5. call[c].at <= ScriptLen(c) =>
         /\ call[c].at + 1 \in 1..(ScriptLen(c) + 1)
         /\ call[c].at + 1 + Current(c).skip \in 1..(ScriptLen(c) + 1)
  BY <1>1, <1>2, <1>3, <1>4
<1> DEFINE Fine(state) ==
        /\ state \in CallStates
        /\ state.at \in 1..(ScriptLen(c) + 1)
        /\ state.service = call[c].service /\ state.run = call[c].run
<1> SUFFICES \E state : Fine(state) /\ Update(c, state)
  OBVIOUS
<1>6. ASSUME NEW m \in Modes
      PROVE  /\ Fine([call[c] EXCEPT !.mode = m])
             /\ Fine([call[c] EXCEPT !.failed = TRUE, !.mode = m])
  BY <1>1 DEF CallStates
<1>7. ASSUME NEW n \in 1..(ScriptLen(c) + 1)
      PROVE  Fine([call[c] EXCEPT !.at = n]) /\ Fine([call[c] EXCEPT !.mode = "run", !.at = n])
  <2>1. n \in Nat
    BY <1>2
  <2> QED
    BY <1>1, <2>1 DEF CallStates, Modes
<1>8. Fine([call[c] EXCEPT !.failed = TRUE, !.mode = "raised", !.error = "step"])
  BY <1>1 DEF CallStates, Modes
<1>9. "run" \in Modes /\ "remove" \in Modes /\ "prune" \in Modes /\ "returned" \in Modes
      /\ "raised" \in Modes
  BY DEF Modes
<1> DEFINE Goal == \E state : Fine(state) /\ Update(c, state)
<1> SUFFICES Goal
  OBVIOUS
<1> HIDE DEF Fine
<1>10. ASSUME NEW state, Fine(state), Update(c, state) PROVE Goal
  BY <1>10
<1> HIDE DEF Goal
<1>11. CASE Raise(c)
  BY <1>6, <1>8, <1>9, <1>10, <1>11 DEF Raise
<1>12. CASE GoOn(c) /\ call[c].at <= ScriptLen(c)
  BY <1>5, <1>7, <1>10, <1>12 DEF GoOn
<1>13. CASE Validate(c)
  BY <1>11, <1>12, <1>13 DEF Validate, At
<1>14. CASE Claim(c)
  BY <1>11, <1>12, <1>14 DEF Claim, At
<1>15. CASE Write(c)
  BY <1>11, <1>12, <1>15 DEF Write, At
<1>16. CASE Decide(c)
  <2>1. call[c].at <= ScriptLen(c)
    BY <1>16 DEF Decide, At
  <2>2. PICK holds \in Condition(c, Current(c).what) :
          Update(c, [call[c] EXCEPT !.at = @ + 1 + (IF holds THEN 0 ELSE Current(c).skip)])
    BY <1>16 DEF Decide
  <2>3. call[c].at + 1 + (IF holds THEN 0 ELSE Current(c).skip) \in 1..(ScriptLen(c) + 1)
    BY <1>3, <1>4, <1>5, <2>1
  <2> QED
    BY <1>7, <1>10, <2>2, <2>3
<1>17. CASE RunTests(c)
  <2>1. call[c].at <= ScriptLen(c) /\ Current(c).op = "test"
    BY <1>17 DEF RunTests, At
  <2>2. PICK s \in {builds[Current(c).what], "TIMEOUT", "ERROR"} :
          Update(c, [call[c] EXCEPT !.at = @ + 1, !.status[Current(c).what] = s])
    BY <1>17 DEF RunTests
  <2>3. s \in Statuses /\ Current(c).what \in Kinds
    BY <1>3, <2>1 DEF TypeOK, Statuses
  <2>4. Fine([call[c] EXCEPT !.at = @ + 1, !.status[Current(c).what] = s])
    BY <1>1, <1>4, <1>5, <2>1, <2>3 DEF Fine, CallStates
  <2> QED
    BY <1>10, <2>2, <2>4
<1>18. CASE Conclude(c)
  BY <1>11, <1>12, <1>18 DEF Conclude, At
<1>19. CASE Collect(c)
  BY <1>11, <1>12, <1>19 DEF Collect, At
<1>20. CASE Open(c)
  <2>1. call[c].at <= ScriptLen(c)
    BY <1>20 DEF Open, At
  <2>2. Fine([call[c] EXCEPT !.at = @ + 1, !.manager = @ + 1, !.tracked = <<>>])
    <3>1. call[c].manager + 1 \in Nat /\ <<>> \in Seq(Kinds)
      BY <1>1 DEF CallStates
    <3> QED
      BY <1>1, <1>4, <1>5, <2>1, <3>1 DEF Fine, CallStates
  <2> QED
    BY <1>10, <1>20, <2>2 DEF Open
<1>21. CASE Create(c)
  <2>1. call[c].at <= ScriptLen(c) /\ Current(c).op = "create"
    BY <1>21 DEF Create, At
  <2>2. Append(call[c].tracked, Current(c).what) \in Seq(Kinds)
    BY <1>1, <1>3, <2>1 DEF CallStates
  <2>3. Fine([call[c] EXCEPT !.at = @ + 1, !.tracked = Append(@, Current(c).what)])
    BY <1>1, <1>4, <1>5, <2>1, <2>2 DEF Fine, CallStates
  <2> QED
    BY <1>10, <1>11, <1>21, <2>3 DEF Create
<1>22. CASE Close(c)
  BY <1>6, <1>9, <1>10, <1>22 DEF Close
<1>23. CASE RemoveWorktree(c)
  <2>1. Front(call[c].tracked) \in Seq(Kinds)
    BY <1>1, <1>23 DEF CallStates, Front, RemoveWorktree
  <2>2. /\ Fine([call[c] EXCEPT !.tracked = Front(@)])
        /\ Fine([call[c] EXCEPT !.tracked = Front(@), !.dirty = TRUE])
    BY <1>1, <2>1 DEF Fine, CallStates
  <2> QED
    BY <1>10, <1>23, <2>2 DEF RemoveWorktree
<1>24. CASE RemoveRoot(c)
  <2>1. Fine([call[c] EXCEPT !.mode = "prune", !.dirty = TRUE])
    BY <1>1, <1>9 DEF Fine, CallStates
  <2> QED
    BY <1>6, <1>9, <1>10, <1>24, <2>1 DEF RemoveRoot
<1>25. CASE Prune(c)
  <2>1. call[c].at <= ScriptLen(c)
    BY <1>25 DEF Prune, PlaceInv
  <2>2. ASSUME NEW d \in BOOLEAN, Leave(c, d) PROVE Goal
    <3>1. Fine([call[c] EXCEPT !.mode = "raised", !.dirty = d,
                               !.error = IF call[c].failed THEN "step" ELSE "cleanup"])
      BY <1>1, <1>9 DEF Fine, CallStates
    <3> QED
      BY <1>5, <1>7, <1>10, <2>1, <2>2, <3>1 DEF Leave
  <2> QED
    BY <1>1, <1>25, <2>2 DEF Prune, CallStates
<1>26. CASE Return(c)
  BY <1>6, <1>9, <1>10, <1>26 DEF Return
<1> QED
  BY <1>13, <1>14, <1>15, <1>16, <1>17, <1>18, <1>19, <1>20, <1>21, <1>22, <1>23, <1>24, <1>25,
     <1>26 DEF Act

\* Which actions touch what the calls share.
LEMMA SharedState ==
    ASSUME NEW c \in Calls, Act(c)
    PROVE  /\ builds' = builds
           /\ NoFault \/ Fault
           /\ ~Claim(c) => directory' = directory
           /\ ~Write(c) => disk' = disk
           /\ Write(c) => disk' \in {disk, disk \union {<<call[c].run, Current(c).what, c>>}}
           /\ ~Create(c) => dirs' \subseteq dirs /\ registered' \subseteq registered
<1>1. builds' = builds
  BY DEF Act, Validate, Claim, Write, Decide, RunTests, Conclude, Collect, Open, Create,
         Close, RemoveWorktree, RemoveRoot, Prune, Return
<1>2. NoFault \/ Fault
  BY DEF Act, Validate, Claim, Write, Decide, RunTests, Conclude, Collect, Open, Create,
         Close, RemoveWorktree, RemoveRoot, Prune, Return, NoFault
<1>3. ~Claim(c) => directory' = directory
  BY DEF Act, Validate, Write, Decide, RunTests, Conclude, Collect, Open, Create,
         Close, RemoveWorktree, RemoveRoot, Prune, Return
<1>4. ~Write(c) => disk' = disk
  BY DEF Act, Validate, Claim, Decide, RunTests, Conclude, Collect, Open, Create,
         Close, RemoveWorktree, RemoveRoot, Prune, Return
<1>5. Write(c) => disk' \in {disk, disk \union {<<call[c].run, Current(c).what, c>>}}
  BY DEF Write
<1>6. ~Create(c) => dirs' \subseteq dirs /\ registered' \subseteq registered
  BY DEF Act, Validate, Claim, Write, Decide, RunTests, Conclude, Collect, Open,
         Close, RemoveWorktree, RemoveRoot, Prune, Return
<1> QED
  BY <1>1, <1>2, <1>3, <1>4, <1>5, <1>6

LEMMA TypesAreKept == TypeOK /\ PlaceInv /\ [Next]_vars => TypeOK'
<1> SUFFICES ASSUME TypeOK, PlaceInv, [Next]_vars PROVE TypeOK'
  OBVIOUS
<1>1. CASE UNCHANGED vars
  BY <1>1 DEF vars, TypeOK
<1>2. ASSUME NEW c \in Calls, Act(c) PROVE TypeOK'
  <2>1. PICK state \in CallStates :
           /\ Update(c, state) /\ state.at \in 1..(ScriptLen(c) + 1)
           /\ state.service = call[c].service
    BY <1>2, OneRecord
  <2>2. call' \in [Calls -> CallStates]
    BY <2>1 DEF Update, TypeOK
  <2>3. (\A d \in Calls : call[d].at \in 1..(Len(Script[call[d].service]) + 1))'
    BY <2>1 DEF Update, TypeOK, ScriptLen
  <2>4. (builds \in [Kinds -> {"PASS", "FAIL"}])'
    BY <1>2, SharedState DEF TypeOK
  <2>5. (faults \in 0..MaxFaults)'
    <3>1. faults \in 0..MaxFaults /\ (NoFault \/ Fault)
      BY <1>2, SharedState DEF TypeOK
    <3> QED
      BY <3>1, AnalysesAssumption DEF NoFault, Fault
  <2>6. (directory \in [RunIds -> Calls \union {Nobody}])'
    <3>1. CASE Claim(c)
      BY <3>1 DEF Claim, TypeOK
    <3>2. CASE ~Claim(c)
      BY <1>2, <3>2, SharedState DEF TypeOK
    <3> QED
      BY <3>1, <3>2
  <2>7. (\A a \in disk : a[1] \in RunIds /\ a[3] \in Calls)'
    <3>1. call[c].run \in RunIds
      BY DEF TypeOK, CallStates
    <3>2. disk' \in {disk, disk \union {<<call[c].run, Current(c).what, c>>}}
      BY <1>2, SharedState
    <3> QED
      BY <3>1, <3>2 DEF TypeOK
  <2>8. (dirs \subseteq Worktrees /\ registered \subseteq Worktrees)'
    <3>1. CASE Create(c)
      <4>1. Current(c).what \in Kinds /\ call[c].manager \in Nat
        BY <3>1, StepFacts DEF Create, At, TypeOK, CallStates
      <4> QED
        BY <3>1, <4>1 DEF Create, TypeOK, Worktrees
    <3>2. CASE ~Create(c)
      BY <1>2, <3>2, SharedState DEF TypeOK
    <3> QED
      BY <3>1, <3>2
  <2> QED
    BY <2>2, <2>3, <2>4, <2>5, <2>6, <2>7, <2>8 DEF TypeOK
<1> QED
  BY <1>1, <1>2 DEF Next

-----------------------------------------------------------------------------
(* What a step does to the record of its call, whichever action it is: it  *)
(* goes on, fails, begins to clean up, goes on cleaning up, leaves the     *)
(* manager or returns.                                                     *)

AtStep(c) == call[c].mode = "run" /\ call[c].at <= ScriptLen(c)

Advances(c) ==
    /\ AtStep(c) /\ Current(c).op # "close" /\ call'[c].mode = "run"
    /\ \/ call'[c].at = call[c].at + 1
       \/ Decide(c) /\ call'[c].at = call[c].at + 1 + Current(c).skip
    /\ call'[c].failed = call[c].failed /\ call'[c].dirty = call[c].dirty
    /\ call'[c].error = call[c].error
    /\ ~Open(c) => call'[c].manager = call[c].manager
    /\ ~RunTests(c) => call'[c].status = call[c].status

Fails(c) ==
    /\ AtStep(c) /\ call'[c].at = call[c].at /\ call'[c].failed
    /\ call'[c].mode = IF Inside(c) THEN "remove" ELSE "raised"
    /\ call'[c].error = IF Inside(c) THEN call[c].error ELSE "step"
    /\ call'[c].dirty = call[c].dirty
    /\ call'[c].manager = call[c].manager /\ call'[c].status = call[c].status
    /\ \/ Fault
       \/ Claim(c) /\ directory[call[c].run] # Nobody
       \/ Conclude(c) /\ call[c].status[Current(c).what] \in {"ERROR", "TIMEOUT"}

CleansUp(c) ==
    /\ \/ Close(c) /\ call'[c].mode = "remove"
       \/ RemoveWorktree(c) /\ call'[c].mode = "remove"
       \/ RemoveRoot(c) /\ call'[c].mode = "prune"
    /\ call'[c].at = call[c].at
    /\ call'[c].failed = call[c].failed /\ call'[c].error = call[c].error
    /\ call'[c].dirty = call[c].dirty \/ (Fault /\ call'[c].dirty)
    /\ call'[c].manager = call[c].manager /\ call'[c].status = call[c].status

Leaves(c) ==
    /\ Prune(c)
    /\ call'[c].failed = call[c].failed
    /\ call'[c].dirty = call[c].dirty \/ (Fault /\ call'[c].dirty)
    /\ IF call[c].failed \/ call'[c].dirty
         THEN /\ call'[c].mode = "raised" /\ call'[c].at = call[c].at
              /\ call'[c].error = IF call[c].failed THEN "step" ELSE "cleanup"
         ELSE call'[c].mode = "run" /\ call'[c].at = call[c].at + 1
    /\ call'[c].manager = call[c].manager /\ call'[c].status = call[c].status

Returns(c) == Return(c) /\ call'[c] = [call[c] EXCEPT !.mode = "returned"]

LEMMA RaisedRecord ==
    ASSUME TypeOK, NEW c \in Calls, Raise(c)
    PROVE  /\ call'[c].at = call[c].at /\ call'[c].failed
           /\ call'[c].mode = IF Inside(c) THEN "remove" ELSE "raised"
           /\ call'[c].error = IF Inside(c) THEN call[c].error ELSE "step"
           /\ call'[c].dirty = call[c].dirty
           /\ call'[c].manager = call[c].manager /\ call'[c].status = call[c].status
<1>1. /\ call \in [Calls -> CallStates] /\ call[c] \in CallStates
      /\ \A state : Update(c, state) => call'[c] = state
  BY DEF TypeOK, Update
<1> QED
  BY <1>1 DEF Raise, CallStates

LEMMA StepShapes ==
    ASSUME TypeOK, NEW c \in Calls, Act(c)
    PROVE  \/ Advances(c) \/ Fails(c) \/ CleansUp(c) \/ Leaves(c) \/ Returns(c)
<1>1. /\ call \in [Calls -> CallStates] /\ call[c] \in CallStates
      /\ \A state : Update(c, state) => call'[c] = state
  BY DEF TypeOK, Update
<1>2. AtStep(c) /\ GoOn(c) => call'[c] = [call[c] EXCEPT !.at = @ + 1]
  BY <1>1 DEF GoOn
<1>4. ASSUME AtStep(c), GoOn(c), Current(c).op # "close" PROVE Advances(c)
  BY <1>1, <1>2, <1>4 DEF Advances, AtStep, CallStates
<1>13. CASE Validate(c)
  BY RaisedRecord, <1>4, <1>13 DEF Validate, At, AtStep, Fails
<1>14. CASE Claim(c)
  BY RaisedRecord, <1>4, <1>14 DEF Claim, At, AtStep, Fails
<1>15. CASE Write(c)
  BY RaisedRecord, <1>4, <1>15 DEF Write, At, AtStep, Fails
<1>16. CASE Decide(c)
  <2>1. PICK holds \in Condition(c, Current(c).what) :
          call'[c] = [call[c] EXCEPT !.at = @ + 1 + (IF holds THEN 0 ELSE Current(c).skip)]
    BY <1>1, <1>16 DEF Decide
  <2>2. /\ AtStep(c) /\ Current(c).op # "close" /\ ~Open(c) /\ ~RunTests(c)
        /\ call[c].at \in Nat
    BY <1>1, <1>16 DEF Decide, At, AtStep, Open, RunTests, CallStates
  <2>3. \/ call'[c].at = call[c].at + 1
        \/ call'[c].at = call[c].at + 1 + Current(c).skip
    BY <1>1, <2>1, <2>2 DEF CallStates
  <2> QED
    BY <1>1, <1>16, <2>1, <2>2, <2>3 DEF Advances, AtStep, CallStates
<1>17. CASE RunTests(c)
  BY <1>1, <1>17 DEF RunTests, At, AtStep, Advances, CallStates
<1>18. CASE Conclude(c)
  BY RaisedRecord, <1>4, <1>18 DEF Conclude, At, AtStep, Fails
<1>19. CASE Collect(c)
  BY RaisedRecord, <1>4, <1>19 DEF Collect, At, AtStep, Fails
<1>20. CASE Open(c)
  BY <1>1, <1>20 DEF Open, At, AtStep, Advances, CallStates
<1>21. CASE Create(c)
  <2>1. AtStep(c) /\ Current(c).op = "create"
    BY <1>21 DEF Create, At, AtStep
  <2>2. CASE call'[c] = [call[c] EXCEPT !.at = @ + 1,
                                       !.tracked = Append(@, Current(c).what)]
    BY <1>1, <2>1, <2>2 DEF Advances, AtStep, CallStates
  <2>3. CASE Fault /\ Raise(c)
    BY RaisedRecord, <2>1, <2>3 DEF Fails
  <2>4. \/ call'[c] = [call[c] EXCEPT !.at = @ + 1, !.tracked = Append(@, Current(c).what)]
        \/ Fault /\ Raise(c)
    BY <1>1, <1>21 DEF Create
  <2> QED
    BY <2>2, <2>3, <2>4
<1>22. CASE Close(c)
  <2>1. call'[c] = [call[c] EXCEPT !.mode = "remove"]
    BY <1>1, <1>22 DEF Close
  <2> QED
    BY <1>1, <1>22, <2>1 DEF CleansUp, CallStates
<1>23. CASE RemoveWorktree(c)
  <2>1. \/ call'[c] = [call[c] EXCEPT !.tracked = Front(@)]
        \/ Fault /\ call'[c] = [call[c] EXCEPT !.tracked = Front(@), !.dirty = TRUE]
    BY <1>1, <1>23 DEF RemoveWorktree
  <2>2. call[c].mode = "remove"
    BY <1>23 DEF RemoveWorktree
  <2> QED
    BY <1>1, <1>23, <2>1, <2>2 DEF CleansUp, CallStates
<1>24. CASE RemoveRoot(c)
  <2>1. \/ call'[c] = [call[c] EXCEPT !.mode = "prune"]
        \/ Fault /\ call'[c] = [call[c] EXCEPT !.mode = "prune", !.dirty = TRUE]
    BY <1>1, <1>24 DEF RemoveRoot
  <2> QED
    BY <1>1, <1>24, <2>1 DEF CleansUp, CallStates
<1>25. CASE Prune(c)
  <2>1. PICK d \in BOOLEAN : Leave(c, d) /\ (d = call[c].dirty \/ (Fault /\ d))
    BY <1>1, <1>25 DEF Prune, CallStates
  <2>2. CASE ~call[c].failed /\ ~d
    <3>1. call'[c] = [call[c] EXCEPT !.mode = "run", !.at = @ + 1]
      BY <1>1, <2>1, <2>2 DEF Leave
    <3> QED
      BY <1>1, <1>25, <2>1, <2>2, <3>1 DEF Leaves, CallStates
  <2>3. CASE call[c].failed \/ d
    <3>1. call'[c] = [call[c] EXCEPT !.mode = "raised", !.dirty = d,
                         !.error = IF call[c].failed THEN "step" ELSE "cleanup"]
      BY <1>1, <2>1, <2>3 DEF Leave
    <3> QED
      BY <1>1, <1>25, <2>1, <2>3, <3>1 DEF Leaves, CallStates
  <2> QED
    BY <2>2, <2>3
<1>26. CASE Return(c)
  BY <1>1, <1>26 DEF Return, Returns
<1> QED
  BY <1>13, <1>14, <1>15, <1>16, <1>17, <1>18, <1>19, <1>20, <1>21, <1>22, <1>23, <1>24, <1>25,
     <1>26 DEF Act

\* A step of one call leaves the records of the others alone.
LEMMA OthersKept ==
    ASSUME TypeOK, PlaceInv, NEW c \in Calls, Act(c)
    PROVE  /\ \A d \in Calls \ {c} : call'[d] = call[d]
           /\ call'[c] \in CallStates
           /\ call'[c].service = call[c].service /\ call'[c].run = call[c].run
<1>1. PICK state \in CallStates :
         Update(c, state) /\ state.service = call[c].service /\ state.run = call[c].run
  BY OneRecord
<1> QED
  BY <1>1 DEF Update, TypeOK

LEMMA StepNumbers ==
    ASSUME TypeOK, NEW c \in Calls
    PROVE  /\ call[c] \in CallStates /\ call[c].at \in Nat /\ ScriptLen(c) \in Nat
           /\ call[c].at >= 1 /\ call[c].at <= ScriptLen(c) + 1
           /\ call[c].service \in DOMAIN Script
<1>1. call[c] \in CallStates /\ call[c].at \in 1..(ScriptLen(c) + 1)
  BY DEF TypeOK, ScriptLen
<1>2. ScriptLen(c) \in Nat
  BY <1>1, ScriptLength DEF CallStates, ScriptLen
<1> QED
  BY <1>1, <1>2 DEF CallStates

LEMMA PlacesAreKept == TypeOK /\ PlaceInv /\ [Next]_vars => PlaceInv'
<1> SUFFICES ASSUME TypeOK, PlaceInv, [Next]_vars PROVE PlaceInv'
  OBVIOUS
<1>1. CASE UNCHANGED vars
  BY <1>1 DEF vars, PlaceInv, ScriptLen
<1>2. ASSUME NEW c \in Calls, Act(c) PROVE PlaceInv'
  <2>1. /\ ScriptLen(c) \in Nat /\ call[c].at \in Nat
        /\ \A d \in Calls : ScriptLen(d)' = ScriptLen(d)
    BY <1>2, StepNumbers, OthersKept DEF ScriptLen
  <2>2. /\ call'[c].mode = "returned" => call'[c].at = ScriptLen(c) + 1
        /\ call'[c].mode \in {"remove", "prune", "raised"} => call'[c].at <= ScriptLen(c)
    <3>1. CASE Advances(c)
      BY <3>1 DEF Advances
    <3>2. CASE Fails(c)
      BY <3>2 DEF Fails, AtStep
    <3>3. CASE CleansUp(c)
      BY <3>3 DEF CleansUp, PlaceInv, Close, At, RemoveWorktree, RemoveRoot
    <3>4. CASE Leaves(c)
      BY <3>4 DEF Leaves, PlaceInv, Prune
    <3>5. CASE Returns(c)
      BY <3>5, StepNumbers DEF Returns, Return, CallStates
    <3> QED
      BY <1>2, StepShapes, <3>1, <3>2, <3>3, <3>4, <3>5
  <2> QED
    BY <1>2, <2>1, <2>2, OthersKept DEF PlaceInv
<1> QED
  BY <1>1, <1>2 DEF Next

-----------------------------------------------------------------------------
(* Run directories and artifacts.                                          *)

LEMMA DirectoriesAreKept ==
    TypeOK /\ PlaceInv /\ ErrorInv /\ DirectoryInv /\ [Next]_vars => DirectoryInv'
<1> SUFFICES ASSUME TypeOK, PlaceInv, ErrorInv, DirectoryInv, [Next]_vars PROVE DirectoryInv'
  OBVIOUS
<1>1. CASE UNCHANGED vars
  BY <1>1 DEF vars, DirectoryInv
<1>2. ASSUME NEW c \in Calls, Act(c) PROVE DirectoryInv'
  <2>1. call[c].at \in Nat /\ call[c].at >= 1 /\ ScriptLen(c) \in Nat
    BY StepNumbers
  <2>2. CASE Claim(c) /\ directory' # directory
    <3>1. /\ directory[call[c].run] = Nobody /\ GoOn(c) /\ At(c, "claim")
          /\ directory' = [directory EXCEPT ![call[c].run] = c]
      BY <2>2 DEF Claim
    <3>2. call[c].at = 2 /\ call'[c].at = 3
      <4>1. call[c].at = 2
        BY <3>1, StepFacts DEF At
      <4> QED
        BY <3>1, <4>1 DEF GoOn, Update, TypeOK, CallStates
    <3>3. \A d \in Calls : directory \in [RunIds -> Calls \union {Nobody}] /\ call[d].run \in RunIds
      BY DEF TypeOK, CallStates
    <3> QED
      BY <1>2, <3>1, <3>2, <3>3, OthersKept, AnalysesAssumption DEF DirectoryInv
  <2>3. CASE directory' = directory
    <3>1. call'[c].at > 2 <=> call[c].at > 2
      <4>1. CASE Advances(c)
        <5>1. ~Claim(c)
          <6> SUFFICES ASSUME Claim(c) PROVE FALSE
            OBVIOUS
          <6>1. CASE Raise(c)
            <7>1. call'[c].mode \in {"remove", "raised"}
              BY <6>1, RaisedRecord
            <7> QED
              BY <4>1, <7>1 DEF Advances
          <6>2. CASE directory' = [directory EXCEPT ![call[c].run] = c]
                     /\ directory[call[c].run] = Nobody
            BY <2>3, <6>2, AnalysesAssumption DEF TypeOK, CallStates
          <6> QED
            BY <6>1, <6>2 DEF Claim
        <5>2. Current(c).op # "claim"
          BY <1>2, <2>1, <4>1, <5>1 DEF Advances, AtStep, Act, Validate, Write, Decide, RunTests,
             Conclude, Collect, Open, Create, Close, RemoveWorktree, RemoveRoot, Prune,
             Return, At
        <5>3. call[c].at # 2 /\ (Decide(c) => call[c].at # 1) /\ Current(c).skip \in Nat
          BY <4>1, <5>2, StepFacts DEF Advances, AtStep, Decide, At
        <5> QED
          BY <2>1, <4>1, <5>3 DEF Advances
      <4>2. CASE Fails(c) \/ CleansUp(c) \/ Returns(c)
        BY <4>2, StepNumbers DEF Fails, CleansUp, Returns, CallStates
      <4>3. CASE Leaves(c)
        <5>1. call[c].at <= ScriptLen(c) /\ (~call[c].failed => Current(c).op = "close")
          BY <4>3 DEF Leaves, Prune, PlaceInv, ErrorInv, ErrorsOf
        <5>2. /\ (Current(c).op = "claim") <=> (call[c].at = 2)
              /\ call[c].at = 1 => Current(c).op = "validate"
          BY <5>1, StepFacts
        <5>3. ~call[c].failed => call[c].at > 2
          BY <2>1, <5>1, <5>2
        <5> QED
          BY <2>1, <4>3, <5>3 DEF Leaves
      <4> QED
        BY <1>2, StepShapes, <4>1, <4>2, <4>3
    <3> QED
      BY <1>2, <2>3, <3>1, OthersKept DEF DirectoryInv
  <2> QED
    BY <1>2, <2>2, <2>3, SharedState
<1> QED
  BY <1>1, <1>2 DEF Next

\* A run directory is claimed once.
LEMMA ClaimedOnce ==
    ASSUME TypeOK, NEW c \in Calls, Act(c), NEW r \in RunIds, directory[r] # Nobody
    PROVE  directory'[r] = directory[r]
<1>1. CASE Claim(c)
  <2>1. \/ directory' = directory
        \/ /\ directory[call[c].run] = Nobody
           /\ directory' = [directory EXCEPT ![call[c].run] = c]
    BY <1>1 DEF Claim
  <2> QED
    BY <2>1 DEF TypeOK
<1>2. CASE ~Claim(c)
  BY <1>2, SharedState
<1> QED
  BY <1>1, <1>2

LEMMA FaultsOnlyGrow ==
    ASSUME TypeOK, NEW c \in Calls, Act(c)
    PROVE  /\ faults \in Nat /\ faults' \in Nat /\ faults' >= faults
           /\ Fault => faults' > 0
<1>1. faults \in 0..MaxFaults /\ (NoFault \/ Fault)
  BY SharedState DEF TypeOK
<1>2. faults \in Nat
  BY <1>1, AnalysesAssumption
<1> QED
  BY <1>1, <1>2 DEF NoFault, Fault

LEMMA ErrorsAreKept ==
    TypeOK /\ PlaceInv /\ DirectoryInv /\ StatusInv /\ ErrorInv /\ [Next]_vars => ErrorInv'
<1> SUFFICES ASSUME TypeOK, PlaceInv, DirectoryInv, StatusInv, ErrorInv, [Next]_vars
             PROVE  ErrorInv'
  OBVIOUS
<1>1. CASE UNCHANGED vars
  BY <1>1 DEF vars, ErrorInv, ErrorsOf, Inside, Current
<1>2. ASSUME NEW c \in Calls, Act(c) PROVE ErrorInv'
  <2>1. \A d \in Calls : call[d].run \in RunIds
    BY DEF TypeOK, CallStates
  <2>2. ASSUME NEW d \in Calls \ {c} PROVE ErrorsOf(d)'
    <3>1. call'[d] = call[d] /\ ErrorsOf(d)
      BY <1>2, OthersKept DEF ErrorInv
    <3>2. faults > 0 => faults' > 0
      BY <1>2, FaultsOnlyGrow
    <3>3. directory[call[d].run] \notin {d, Nobody} => directory'[call[d].run] \notin {d, Nobody}
      BY <1>2, <2>1, ClaimedOnce
    <3> QED
      BY <3>1, <3>2, <3>3 DEF ErrorsOf, Inside, Current
  <2>3. ErrorsOf(c)'
    <3>1. /\ call'[c].service = call[c].service /\ call'[c].run = call[c].run
          /\ ErrorsOf(c)
      BY <1>2, OthersKept DEF ErrorInv
    <3>2. (faults > 0 => faults' > 0) /\ (Fault => faults' > 0)
      BY <1>2, FaultsOnlyGrow
    <3>3. directory[call[c].run] \notin {c, Nobody} => directory'[call[c].run] \notin {c, Nobody}
      BY <1>2, <2>1, ClaimedOnce
    <3>4. CASE Advances(c)
      BY <3>1, <3>4 DEF ErrorsOf, Advances, AtStep
    <3>5. CASE Fails(c)
      <4>1. faults' > 0 \/ directory'[call[c].run] \notin {c, Nobody}
        <5>1. CASE Fault
          BY <3>2, <5>1
        <5>2. CASE Claim(c) /\ directory[call[c].run] # Nobody
          <6>1. call[c].at = 2
            BY <3>5, <5>2, StepFacts DEF Fails, AtStep, Claim, At
          <6> QED
            BY <3>3, <5>2, <6>1 DEF DirectoryInv
        <5>3. CASE Conclude(c) /\ call[c].status[Current(c).what] \in {"ERROR", "TIMEOUT"}
          <6>1. Current(c).what \in Kinds
            BY <3>5, <5>3, StepFacts DEF Fails, AtStep, Conclude, At
          <6> QED
            BY <3>2, <5>3, <6>1 DEF StatusInv
        <5> QED
          BY <3>5, <5>1, <5>2, <5>3 DEF Fails
      <4>2. ~call[c].dirty /\ call'[c].failed
        BY <3>1, <3>5 DEF ErrorsOf, Fails, AtStep
      <4>3. Inside(c)' = Inside(c)
        BY <3>1, <3>5 DEF Fails, Inside
      <4> QED
        BY <3>1, <3>5, <4>1, <4>2, <4>3 DEF ErrorsOf, Fails
    <3>6. CASE CleansUp(c)
      <4>1. Inside(c)' = Inside(c) /\ Current(c)' = Current(c)
        BY <3>1, <3>6 DEF CleansUp, Inside, Current
      <4>2. Inside(c) /\ (~call[c].failed => Current(c).op = "close")
        <5>1. CASE Close(c)
          BY <5>1, StepFacts DEF Close, At
        <5>2. CASE RemoveWorktree(c) \/ RemoveRoot(c)
          BY <3>1, <5>2 DEF ErrorsOf, RemoveWorktree, RemoveRoot
        <5> QED
          BY <3>6, <5>1, <5>2 DEF CleansUp
      <4> QED
        BY <3>1, <3>2, <3>3, <3>6, <4>1, <4>2 DEF ErrorsOf, CleansUp
    <3>7. CASE Leaves(c)
      BY <3>1, <3>2, <3>3, <3>7 DEF ErrorsOf, Leaves
    <3>8. CASE Returns(c)
      <4>1. /\ call'[c].mode = "returned" /\ call'[c].failed = call[c].failed
            /\ call'[c].dirty = call[c].dirty /\ call[c].mode = "run"
        BY <3>8, StepNumbers DEF Returns, Return, CallStates
      <4> QED
        BY <3>1, <4>1 DEF ErrorsOf
    <3> QED
      BY <1>2, StepShapes, <3>4, <3>5, <3>6, <3>7, <3>8
  <2> QED
    BY <2>2, <2>3 DEF ErrorInv
<1> QED
  BY <1>1, <1>2 DEF Next

-----------------------------------------------------------------------------
(* What the tests told.                                                    *)

LEMMA StatusesAreKept == TypeOK /\ PlaceInv /\ StatusInv /\ [Next]_vars => StatusInv'
<1> SUFFICES ASSUME TypeOK, PlaceInv, StatusInv, [Next]_vars PROVE StatusInv'
  OBVIOUS
<1>1. CASE UNCHANGED vars
  BY <1>1 DEF vars, StatusInv
<1>2. ASSUME NEW c \in Calls, Act(c) PROVE StatusInv'
  <2>1. builds' = builds /\ (faults > 0 => faults' > 0)
    BY <1>2, SharedState, FaultsOnlyGrow
  <2>2. CASE call'[c].status = call[c].status
    BY <1>2, <2>1, <2>2, OthersKept DEF StatusInv
  <2>3. CASE RunTests(c)
    <3>1. PICK s \in {builds[Current(c).what], "TIMEOUT", "ERROR"} :
            /\ s # builds[Current(c).what] => Fault
            /\ Update(c, [call[c] EXCEPT !.at = @ + 1, !.status[Current(c).what] = s])
      BY <2>3 DEF RunTests
    <3>2. call'[c].status = [call[c].status EXCEPT ![Current(c).what] = s]
      BY <3>1, StepNumbers DEF Update, TypeOK, CallStates
    <3>3. s \in {"TIMEOUT", "ERROR"} => faults' > 0
      <4>1. Current(c).what \in Kinds
        BY <2>3, StepFacts DEF RunTests, At
      <4>2. builds[Current(c).what] \in {"PASS", "FAIL"}
        BY <4>1 DEF TypeOK
      <4> QED
        BY <1>2, <3>1, <4>2, FaultsOnlyGrow
    <3>4. call[c].status \in [Kinds -> Statuses]
      BY DEF TypeOK, CallStates
    <3> QED
      BY <1>2, <2>1, <3>1, <3>2, <3>3, <3>4, OthersKept DEF StatusInv
  <2> QED
    <3>1. \/ call'[c].status = call[c].status
          \/ RunTests(c)
      BY <1>2, StepShapes, StepNumbers
         DEF Advances, Fails, CleansUp, Leaves, Returns, CallStates
    <3> QED
      BY <2>2, <2>3, <3>1
<1> QED
  BY <1>1, <1>2 DEF Next

LEMMA TestFacts ==
    /\ {"reproduce", "failures"} \subseteq DOMAIN Script
    /\ Len(Script["reproduce"]) > 10 /\ Len(Script["failures"]) > 6
    /\ Script["reproduce"][6].op = "test" /\ Script["reproduce"][6].what = "BASE"
    /\ Script["reproduce"][10].op = "test" /\ Script["reproduce"][10].what = "UPDATED"
    /\ Script["failures"][6].op = "test" /\ Script["failures"][6].what = "UPDATED"
    /\ \A n \in 1..Len(Script["reproduce"]) :
        /\ Script["reproduce"][n].op = "test" /\ Script["reproduce"][n].what = "BASE" => n = 6
        /\ Script["reproduce"][n].op = "branch" =>
               n = 8 /\ Script["reproduce"][n].what = "passed"
    /\ \A n \in 1..Len(Script["failures"]) : Script["failures"][n].op # "branch"
<1>1. \A s \in DOMAIN Script : DOMAIN Script[s] = 1..Len(Script[s])
  BY ScriptsAreWellFormed
<1>2. {"reproduce", "failures"} \subseteq DOMAIN Script /\ TestsInOrder
  BY ScriptsAreWellFormed
<1>3. /\ Len(Script["reproduce"]) > 10 /\ Len(Script["failures"]) > 6
      /\ Script["reproduce"][6].op = "test" /\ Script["reproduce"][6].what = "BASE"
      /\ Script["reproduce"][10].op = "test" /\ Script["reproduce"][10].what = "UPDATED"
  BY <1>2 DEF TestsInOrder, TestsAt
<1>4. Script["failures"][6].op = "test" /\ Script["failures"][6].what = "UPDATED"
  BY <1>2 DEF TestsInOrder, TestsAt
<1>5. ASSUME NEW n \in 1..Len(Script["reproduce"])
      PROVE  /\ Script["reproduce"][n].op = "test" /\ Script["reproduce"][n].what = "BASE"
                    => n = 6
             /\ Script["reproduce"][n].op = "branch" =>
                    n = 8 /\ Script["reproduce"][n].what = "passed"
  BY <1>1, <1>2 DEF TestsInOrder, TestsAt
<1>6. \A n \in 1..Len(Script["failures"]) : Script["failures"][n].op # "branch"
  BY <1>1, <1>2 DEF TestsInOrder
<1> QED
  BY <1>2, <1>3, <1>4, <1>5, <1>6

LEMMA TestStatus ==
    ASSUME TypeOK, NEW c \in Calls, RunTests(c)
    PROVE  /\ Current(c).what \in Kinds
           /\ call'[c].status[Current(c).what] # "none"
           /\ \A k \in Kinds \ {Current(c).what} : call'[c].status[k] = call[c].status[k]
<1>1. Current(c).what \in Kinds
  BY StepFacts DEF RunTests, At
<1>2. PICK s \in {builds[Current(c).what], "TIMEOUT", "ERROR"} :
        Update(c, [call[c] EXCEPT !.at = @ + 1, !.status[Current(c).what] = s])
  BY DEF RunTests
<1>3. call'[c].status = [call[c].status EXCEPT ![Current(c).what] = s]
  BY <1>2, StepNumbers DEF Update, TypeOK, CallStates
<1>4. s # "none" /\ call[c].status \in [Kinds -> Statuses]
  BY <1>1, <1>2 DEF TypeOK, CallStates
<1> QED
  BY <1>1, <1>3, <1>4

LEMMA TestsAreKept == TypeOK /\ PlaceInv /\ ErrorInv /\ TestedInv /\ [Next]_vars => TestedInv'
<1> SUFFICES ASSUME TypeOK, PlaceInv, ErrorInv, TestedInv, [Next]_vars PROVE TestedInv'
  OBVIOUS
<1>1. CASE UNCHANGED vars
  BY <1>1 DEF vars, TestedInv, TestsOf
<1>2. ASSUME NEW c \in Calls, Act(c) PROVE TestedInv'
  <2>1. /\ call'[c].service = call[c].service /\ TestsOf(c)
        /\ call[c].at \in Nat
    BY <1>2, OthersKept, StepNumbers DEF TestedInv
  <2>2. ASSUME NEW d \in Calls \ {c} PROVE TestsOf(d)'
    BY <1>2, <2>2, OthersKept DEF TestsOf, TestedInv
  <2> SUFFICES TestsOf(c)'
    BY <2>2 DEF TestedInv
  <2>3. CASE Advances(c) /\ ~Decide(c)
    <3>1. call'[c].at = call[c].at + 1 /\ AtStep(c)
      BY <2>3 DEF Advances
    <3>2. CASE RunTests(c)
      <4>1. Current(c).op = "test"
        BY <3>2 DEF RunTests, At
      <4>2. /\ Current(c).what \in Kinds
            /\ call'[c].status[Current(c).what] # "none"
            /\ \A k \in Kinds \ {Current(c).what} : call'[c].status[k] = call[c].status[k]
        BY <3>2, TestStatus
      <4>3. call[c].service = "reproduce" =>
              /\ Current(c).what = "BASE" => call[c].at = 6
              /\ call[c].at = 6 => Current(c).what = "BASE"
              /\ call[c].at = 10 => Current(c).what = "UPDATED"
        BY <3>1, <4>1, StepFacts, TestFacts DEF AtStep, Current, ScriptLen
      <4>4. call[c].service = "failures" /\ call[c].at = 6 => Current(c).what = "UPDATED"
        BY TestFacts DEF Current
      <4> QED
        BY <2>1, <3>1, <4>2, <4>3, <4>4 DEF TestsOf, Kinds
    <3>3. CASE ~RunTests(c)
      <4>1. Current(c).op # "test"
        BY <1>2, <2>3, <3>3, StepNumbers
           DEF Advances, AtStep, Act, Validate, Claim, Write, Conclude, Collect,
               Open, Create, Close, RemoveWorktree, RemoveRoot, Prune, Return, At
      <4>2. /\ call[c].service = "reproduce" => call[c].at \notin {6, 10}
            /\ call[c].service = "failures" => call[c].at # 6
        BY <4>1, TestFacts DEF Current
      <4>3. call'[c].status = call[c].status
        BY <2>3, <3>3 DEF Advances
      <4> QED
        BY <2>1, <3>1, <4>2, <4>3 DEF TestsOf
    <3> QED
      BY <3>2, <3>3
  <2>4. CASE Advances(c) /\ Decide(c)
    <3>1. AtStep(c) /\ Current(c).op = "branch" /\ call'[c].status = call[c].status
      BY <2>4 DEF Advances, Decide, At, RunTests
    <3>2. call[c].service # "failures"
      BY <3>1, StepFacts, TestFacts DEF AtStep, Current, ScriptLen
    <3>3. CASE call[c].service = "reproduce"
      <4>1. call[c].at = 8 /\ Current(c).what = "passed"
        BY <3>1, <3>3, StepFacts, TestFacts DEF AtStep, Current, ScriptLen
      <4>6. call[c].status["BASE"] # "none"
        BY <2>1, <3>3, <4>1 DEF TestsOf
      <4>2. Condition(c, Current(c).what) = {call[c].status["BASE"] = "PASS"}
        BY <4>1 DEF Condition
      <4>3. PICK holds \in Condition(c, Current(c).what) :
              Update(c, [call[c] EXCEPT !.at = @ + 1 + (IF holds THEN 0 ELSE Current(c).skip)])
        BY <2>4 DEF Decide
      <4>4. call'[c].at = call[c].at + 1 + (IF holds THEN 0 ELSE Current(c).skip)
        BY <4>3, StepNumbers DEF Update, TypeOK, CallStates
      <4>5. ASSUME call[c].status["BASE"] = "PASS" PROVE call'[c].at = call[c].at + 1
        <5>1. (call[c].status["BASE"] = "PASS") = TRUE
          BY <4>5
        <5>2. holds = TRUE
          BY <4>2, <4>3, <5>1
        <5>3. call'[c].at = call[c].at + 1 + 0
          BY <4>4, <5>2
        <5> QED
          BY <2>1, <5>3
      <4> QED
        BY <2>1, <3>1, <3>3, <4>1, <4>5, <4>6 DEF TestsOf
    <3> QED
      BY <2>1, <3>2, <3>3 DEF TestsOf
  <2>5. CASE Fails(c) \/ CleansUp(c) \/ Returns(c)
    <3>1. call'[c].at = call[c].at /\ call'[c].status = call[c].status
      BY <2>5, StepNumbers DEF Fails, CleansUp, Returns, CallStates
    <3> QED
      BY <2>1, <3>1 DEF TestsOf
  <2>6. CASE Leaves(c)
    <3>1. call'[c].status = call[c].status
      BY <2>6 DEF Leaves
    <3>2. CASE call'[c].at = call[c].at
      BY <2>1, <3>1, <3>2 DEF TestsOf
    <3>3. CASE call'[c].at = call[c].at + 1 /\ ~call[c].failed
      <4>1. Current(c).op = "close"
        BY <2>6, <3>3 DEF Leaves, Prune, ErrorInv, ErrorsOf
      <4>2. /\ call[c].service = "reproduce" => call[c].at \notin {6, 10}
            /\ call[c].service = "failures" => call[c].at # 6
        BY <4>1, TestFacts DEF Current
      <4> QED
        BY <2>1, <3>1, <3>3, <4>2 DEF TestsOf
    <3> QED
      BY <2>6, <3>2, <3>3 DEF Leaves
  <2> QED
    BY <1>2, StepShapes, <2>3, <2>4, <2>5, <2>6
<1> QED
  BY <1>1, <1>2 DEF Next

-----------------------------------------------------------------------------
(* Artifacts.                                                              *)

LEMMA AtNeverFalls ==
    ASSUME TypeOK, PlaceInv, NEW c \in Calls, Act(c)
    PROVE  call'[c].at \in Nat /\ call'[c].at >= call[c].at
<1>1. call[c].at \in Nat /\ call'[c].at \in Nat
  BY StepNumbers, OthersKept DEF CallStates
<1>2. CASE Advances(c)
  <2>1. Current(c).skip \in Nat
    BY <1>2, StepFacts DEF Advances, AtStep
  <2> QED
    BY <1>1, <1>2, <2>1 DEF Advances
<1>3. CASE Fails(c) \/ CleansUp(c) \/ Leaves(c)
  BY <1>1, <1>3 DEF Fails, CleansUp, Leaves
<1>4. CASE Returns(c)
  BY <1>1, <1>4, StepNumbers DEF Returns, CallStates
<1> QED
  BY StepShapes, <1>2, <1>3, <1>4

LEMMA ArtifactsAreKept ==
    TypeOK /\ PlaceInv /\ ErrorInv /\ ArtifactInv /\ [Next]_vars => ArtifactInv'
<1> SUFFICES ASSUME TypeOK, PlaceInv, ErrorInv, ArtifactInv, [Next]_vars PROVE ArtifactInv'
  OBVIOUS
<1>1. CASE UNCHANGED vars
  BY <1>1 DEF vars, ArtifactInv, AnswerIsWritten, Wrote
<1>2. ASSUME NEW c \in Calls, Act(c) PROVE ArtifactInv'
  <2>1. /\ call'[c].service = call[c].service /\ call'[c].run = call[c].run
        /\ \A d \in Calls \ {c} : call'[d] = call[d]
    BY <1>2, OthersKept
  <2>2. /\ call[c].at \in Nat /\ call[c].at >= 1
        /\ call'[c].at \in Nat /\ call'[c].at >= call[c].at
    BY <1>2, StepNumbers, AtNeverFalls
  <2>3. /\ disk \subseteq disk'
        /\ disk' \in {disk, disk \union {<<call[c].run, Current(c).what, c>>}}
    BY <1>2, SharedState
  <2>4. \A d \in Calls : call[d].at \in Nat
    BY StepNumbers
  <2>5. ASSUME NEW a \in disk'
        PROVE  /\ a[3] \in Calls /\ a[1] = call'[a[3]].run
               /\ \E n \in 1..(call'[a[3]].at - 1) :
                    /\ Script[call'[a[3]].service][n].op = "write"
                    /\ Script[call'[a[3]].service][n].what = a[2]
    <3>1. CASE a \in disk
      <4>1. /\ a[3] \in Calls /\ a[1] = call[a[3]].run
            /\ \E n \in 1..(call[a[3]].at - 1) :
                 /\ Script[call[a[3]].service][n].op = "write"
                 /\ Script[call[a[3]].service][n].what = a[2]
        BY <3>1 DEF ArtifactInv
      <4>2. /\ call'[a[3]].service = call[a[3]].service /\ call'[a[3]].run = call[a[3]].run
            /\ call'[a[3]].at \in Nat /\ call'[a[3]].at >= call[a[3]].at
        BY <2>1, <2>2, <2>4, <4>1
      <4> QED
        BY <2>4, <4>1, <4>2
    <3>2. CASE a \notin disk
      <4>1. a = <<call[c].run, Current(c).what, c>>
        BY <2>3, <3>2
      <4>2. Write(c) /\ GoOn(c)
        BY <1>2, <3>2, SharedState DEF Write
      <4>3. call'[c].at = call[c].at + 1 /\ Current(c).op = "write"
        BY <4>2, StepNumbers DEF GoOn, Update, TypeOK, CallStates, Write, At
      <4> QED
        BY <2>1, <2>2, <4>1, <4>3 DEF Current
    <3> QED
      BY <3>1, <3>2
  <2>6. ASSUME NEW d \in Calls \ {c} PROVE AnswerIsWritten(d)'
    <3>1. AnswerIsWritten(d) /\ call'[d] = call[d]
      BY <2>1 DEF ArtifactInv
    <3> QED
      BY <2>3, <3>1 DEF AnswerIsWritten, Wrote
  <2>7. ASSUME NEW n \in 1..(call'[c].at - 1), AnswersAt(call[c].service, n)
        PROVE  Wrote(c, Answer(call[c].service))'
    <3>1. CASE n < call[c].at
      <4>1. n \in 1..(call[c].at - 1)
        BY <2>2, <3>1
      <4> QED
        BY <2>1, <2>3, <2>7, <4>1 DEF ArtifactInv, AnswerIsWritten, Wrote
    <3>2. CASE n = call[c].at
      <4>1. Current(c).op = "write" /\ Current(c).what = Answer(call[c].service)
        BY <2>7, <3>2 DEF AnswersAt, Current
      <4>2. CASE Advances(c)
        <5>1. Write(c)
          BY <1>2, <4>1, <4>2, StepNumbers
             DEF Advances, AtStep, Act, Validate, Claim, Decide, RunTests, Conclude, Collect,
                 Open, Create, Close, RemoveWorktree, RemoveRoot, Prune, Return, At
        <5>2. ~Raise(c)
          <6> SUFFICES ASSUME Raise(c) PROVE FALSE
            OBVIOUS
          <6> QED
            BY <4>2, RaisedRecord DEF Advances
        <5> QED
          BY <2>1, <4>1, <5>1, <5>2 DEF Write, Wrote
      <4>3. CASE Fails(c) \/ CleansUp(c) \/ Returns(c)
        <5>1. call'[c].at = call[c].at
          BY <4>3, StepNumbers DEF Fails, CleansUp, Returns, CallStates
        <5> QED
          BY <2>2, <3>2, <5>1
      <4>4. CASE Leaves(c)
        <5>1. call[c].failed
          BY <4>1, <4>4 DEF Leaves, Prune, ErrorInv, ErrorsOf
        <5>2. call'[c].at = call[c].at
          BY <4>4, <5>1 DEF Leaves
        <5> QED
          BY <2>2, <3>2, <5>2
      <4> QED
        BY <1>2, StepShapes, <4>2, <4>3, <4>4
    <3>3. CASE n > call[c].at
      <4>1. AtStep(c) /\ call'[c].at = call[c].at + 1 + Current(c).skip
        <5>1. CASE Advances(c)
          BY <2>2, <3>3, <5>1 DEF Advances
        <5>2. CASE Fails(c) \/ CleansUp(c) \/ Leaves(c)
          BY <2>2, <3>3, <5>2 DEF Fails, CleansUp, Leaves
        <5>3. CASE Returns(c)
          <6>1. call'[c].at = call[c].at
            BY <5>3, StepNumbers DEF Returns, CallStates
          <6> QED
            BY <2>2, <3>3, <6>1
        <5> QED
          BY <1>2, StepShapes, <5>1, <5>2, <5>3
      <4>2. /\ call[c].service \in DOMAIN Script
            /\ call[c].at \in 1..Len(Script[call[c].service]) /\ Current(c).skip \in Nat
        BY <4>1, StepFacts DEF AtStep, ScriptLen
      <4>3. n \in (call[c].at + 1)..(call[c].at + Current(c).skip)
        BY <2>2, <3>3, <4>1, <4>2
      <4> QED
        BY <2>7, <4>2, <4>3, AnswerFacts DEF Current
    <3> QED
      BY <2>2, <3>1, <3>2, <3>3
  <2>8. AnswerIsWritten(c)'
    BY <2>1, <2>7 DEF AnswerIsWritten
  <2> QED
    BY <2>5, <2>6, <2>8 DEF ArtifactInv
<1> QED
  BY <1>1, <1>2 DEF Next

-----------------------------------------------------------------------------
(* Worktrees.                                                              *)

\* A step that is no close does not leave the manager, whichever way it goes.
LEMMA StaysInside ==
    ASSUME TypeOK, PlaceInv, NEW c \in Calls, Act(c), Advances(c)
    PROVE  (Inside(c) \/ Open(c)) => Inside(c)'
<1>1. /\ call[c].service \in DOMAIN Script
      /\ call[c].at \in 1..Len(Script[call[c].service])
  BY StepFacts DEF Advances, AtStep, ScriptLen
<1>2. Inside(c) \/ Open(c) => InsideAt(call[c].service, call[c].at + 1)
  BY <1>1, ScriptFacts DEF Advances, Inside, Current, Open, At
<1>3. InsideAt(call[c].service, call[c].at + 1 + Current(c).skip)
         <=> InsideAt(call[c].service, call[c].at + 1)
  BY <1>1, ScriptFacts DEF Current
<1>4. call'[c].service = call[c].service
  BY OthersKept
<1> QED
  BY <1>2, <1>3, <1>4 DEF Advances, Inside

LEMMA OwnWorktreesOnly ==
    ASSUME NEW c \in Calls, Act(c), NEW d \in Calls \ {c}
    PROVE  /\ Owned(d, dirs') \subseteq Owned(d, dirs)
           /\ Owned(d, registered') \subseteq Owned(d, registered)
<1>1. CASE Create(c)
  BY <1>1 DEF Create, Owned
<1>2. CASE ~Create(c)
  BY <1>2, SharedState DEF Owned
<1> QED
  BY <1>1, <1>2

LEMMA WorktreesAreKept ==
    TypeOK /\ PlaceInv /\ ErrorInv /\ WorktreeInv /\ [Next]_vars => WorktreeInv'
<1> SUFFICES ASSUME TypeOK, PlaceInv, ErrorInv, WorktreeInv, [Next]_vars PROVE WorktreeInv'
  OBVIOUS
<1>1. CASE UNCHANGED vars
  BY <1>1 DEF vars, WorktreeInv, WorktreesOf, Owned, Inside
<1>2. ASSUME NEW c \in Calls, Act(c) PROVE WorktreeInv'
  <2>1. ASSUME NEW d \in Calls \ {c} PROVE WorktreesOf(d)'
    <3>1. call'[d] = call[d] /\ WorktreesOf(d)
      BY <1>2, OthersKept DEF WorktreeInv
    <3>2. /\ Owned(d, dirs)' \subseteq Owned(d, dirs)
          /\ Owned(d, registered)' \subseteq Owned(d, registered)
      BY <1>2, OwnWorktreesOnly DEF Owned
    <3> QED
      BY <3>1, <3>2 DEF WorktreesOf, Inside
  <2> SUFFICES ASSUME ~call'[c].dirty PROVE WorktreesOf(c)'
    BY <2>1 DEF WorktreeInv, WorktreesOf
  <2>2. /\ call'[c].service = call[c].service /\ WorktreesOf(c)
    BY <1>2, OthersKept DEF WorktreeInv
  <2>3. ~Create(c) => /\ Owned(c, dirs)' \subseteq Owned(c, dirs)
                      /\ Owned(c, registered)' \subseteq Owned(c, registered)
    BY <1>2, SharedState DEF Owned
  <2>4. Create(c) => \A w \in Owned(c, dirs)' \union Owned(c, registered)' :
            \/ w \in Owned(c, dirs) \union Owned(c, registered)
            \/ w[2] = call[c].manager
    BY DEF Create, Owned
  <2>5. CASE Advances(c)
    <3>1. /\ call'[c].mode = "run" /\ ~call[c].dirty /\ AtStep(c)
          /\ ~Open(c) => call'[c].manager = call[c].manager
      BY <2>5 DEF Advances
    <3>2. CASE Open(c)
      <4>1. ~Inside(c) /\ ~Create(c)
        BY <3>1, <3>2, StepFacts DEF AtStep, Open, Create, At
      <4> QED
        BY <2>2, <2>3, <3>1, <4>1 DEF WorktreesOf
    <3>3. CASE Create(c)
      <4>1. Inside(c) /\ ~Open(c)
        BY <3>1, <3>3, StepFacts DEF AtStep, Open, Create, At
      <4>2. Inside(c)'
        BY <1>2, <2>5, <4>1, StaysInside
      <4> QED
        BY <2>2, <2>4, <3>1, <3>3, <4>1, <4>2 DEF WorktreesOf
    <3>4. CASE ~Open(c) /\ ~Create(c)
      <4>1. Inside(c) => Inside(c)'
        BY <1>2, <2>5, StaysInside
      <4> QED
        BY <2>2, <2>3, <3>1, <3>4, <4>1 DEF WorktreesOf
    <3> QED
      BY <3>2, <3>3, <3>4
  <2>6. CASE Fails(c)
    <3>1. /\ ~call[c].dirty /\ AtStep(c) /\ Inside(c)' = Inside(c)
          /\ call'[c].manager = call[c].manager
          /\ call'[c].mode = IF Inside(c) THEN "remove" ELSE "raised"
      BY <2>2, <2>6 DEF Fails, Inside
    <3>2. CASE Create(c)
      <4>1. Inside(c)
        BY <3>1, <3>2, StepFacts DEF AtStep, Create, At
      <4> QED
        BY <2>2, <2>4, <3>1, <3>2, <4>1 DEF WorktreesOf
    <3>3. CASE ~Create(c)
      BY <2>2, <2>3, <3>1, <3>3 DEF WorktreesOf
    <3> QED
      BY <3>2, <3>3
  <2>7. CASE CleansUp(c)
    <3>1. /\ ~call[c].dirty /\ Inside(c)' = Inside(c) /\ ~Create(c)
          /\ call'[c].manager = call[c].manager
      BY <2>2, <2>7
         DEF CleansUp, Inside, Create, Close, RemoveWorktree, RemoveRoot, At
    <3>2. CASE Close(c) \/ RemoveWorktree(c)
      <4>1. call'[c].mode = "remove"
        BY <2>7, <3>2 DEF CleansUp, Close, RemoveWorktree, RemoveRoot, At
      <4> QED
        BY <2>2, <2>3, <3>1, <4>1 DEF WorktreesOf
    <3>3. CASE RemoveRoot(c)
      <4>1. call'[c].mode = "prune"
        BY <2>7, <3>3 DEF CleansUp, Close, RemoveWorktree, RemoveRoot, At
      <4>2. dirs' = {w \in dirs : ~(w[1] = c /\ w[2] = call[c].manager)}
        <5>1. ~Update(c, [call[c] EXCEPT !.mode = "prune", !.dirty = TRUE])
          <6> SUFFICES ASSUME Update(c, [call[c] EXCEPT !.mode = "prune", !.dirty = TRUE])
                       PROVE  FALSE
            OBVIOUS
          <6>1. call'[c] = [call[c] EXCEPT !.mode = "prune", !.dirty = TRUE]
            BY DEF Update, TypeOK
          <6>2. call'[c].dirty = TRUE
            BY <6>1, StepNumbers DEF CallStates
          <6> QED
            BY <6>2
        <5> QED
          BY <3>3, <5>1 DEF RemoveRoot
      <4>3. Owned(c, dirs)' = {}
        BY <2>2, <3>1, <4>2 DEF WorktreesOf, Owned
      <4> QED
        BY <2>2, <2>3, <3>1, <4>1, <4>3 DEF WorktreesOf
    <3> QED
      BY <2>7, <3>2, <3>3 DEF CleansUp
  <2>8. CASE Leaves(c)
    <3>1. ~call[c].dirty /\ call[c].mode = "prune" /\ Owned(c, dirs) = {}
      BY <2>2, <2>8 DEF Leaves, Prune, WorktreesOf
    <3>2. ~Leave(c, TRUE)
      <4> SUFFICES ASSUME Leave(c, TRUE) PROVE FALSE
        OBVIOUS
      <4>1. call'[c] = [call[c] EXCEPT !.mode = "raised", !.dirty = TRUE,
                           !.error = IF call[c].failed THEN "step" ELSE "cleanup"]
        BY DEF Leave, Update, TypeOK
      <4>2. call'[c].dirty = TRUE
        BY <4>1, StepNumbers DEF CallStates
      <4> QED
        BY <4>2
    <3>3. registered' = registered \intersect dirs /\ dirs' = dirs
      BY <2>8, <3>2 DEF Leaves, Prune
    <3> QED
      BY <2>8, <3>1, <3>3 DEF WorktreesOf, Owned, Leaves
  <2>9. CASE Returns(c)
    <3>1. /\ ~call[c].dirty /\ call'[c].mode = "returned" /\ ~Create(c)
          /\ call[c].at = ScriptLen(c) + 1
      BY <2>9, StepNumbers DEF Returns, Return, CallStates, Create, At
    <3>2. ~Inside(c)
      BY <3>1, StepNumbers, ScriptFacts DEF Inside, ScriptLen
    <3> QED
      BY <2>2, <2>3, <3>1, <3>2 DEF WorktreesOf
  <2> QED
    BY <1>2, StepShapes, <2>5, <2>6, <2>7, <2>8, <2>9
<1> QED
  BY <1>1, <1>2 DEF Next

-----------------------------------------------------------------------------
(* The invariant and the properties.                                       *)

LEMMA InvariantInitially == Init => AnalysesInv
<1> SUFFICES ASSUME Init PROVE AnalysesInv
  OBVIOUS
<1>1. TypeOK
  BY InitTypes
<1>2. /\ \A c \in Calls :
          /\ call[c].at = 1 /\ call[c].mode = "run" /\ ~call[c].failed /\ ~call[c].dirty
          /\ call[c].status = [k \in Kinds |-> "none"]
      /\ directory = [r \in RunIds |-> Nobody]
      /\ disk = {} /\ dirs = {} /\ registered = {}
  BY DEF Init
<1>3. PlaceInv
  BY <1>2 DEF PlaceInv
<1>4. DirectoryInv
  <2>1. \A c \in Calls : call[c].run \in RunIds
    BY <1>1 DEF TypeOK, CallStates
  <2> QED
    BY <1>2, <2>1, AnalysesAssumption DEF DirectoryInv
<1>5. ArtifactInv
  BY <1>2 DEF ArtifactInv, AnswerIsWritten
<1>6. StatusInv /\ TestedInv
  BY <1>2 DEF StatusInv, TestedInv, TestsOf
<1>7. ErrorInv
  BY <1>2 DEF ErrorInv, ErrorsOf
<1>8. WorktreeInv
  BY <1>2 DEF WorktreeInv, WorktreesOf, Owned
<1> QED
  BY <1>1, <1>3, <1>4, <1>5, <1>6, <1>7, <1>8 DEF AnalysesInv

\* In every reachable state: the types, and what the other theorems rest on.
THEOREM AnalysesInvariance == Spec => []AnalysesInv
<1>1. Init => AnalysesInv
  BY InvariantInitially
<1>2. AnalysesInv /\ [Next]_vars => AnalysesInv'
  BY TypesAreKept, PlacesAreKept, DirectoriesAreKept, ArtifactsAreKept, StatusesAreKept,
     TestsAreKept, ErrorsAreKept, WorktreesAreKept DEF AnalysesInv
<1> QED
  BY <1>1, <1>2, PTL DEF Spec

\* OneWriterPerRun, for any number of calls that are given one run id: the
\* writer of an artifact is past its claim, and a directory is claimed once.
THEOREM RunsHaveOneWriter == Spec => []OneWriterPerRun
<1>1. AnalysesInv => OneWriterPerRun
  <2> SUFFICES ASSUME AnalysesInv PROVE OneWriterPerRun
    OBVIOUS
  <2>1. ASSUME NEW a \in disk PROVE a[3] \in Calls /\ directory[a[1]] = a[3]
    <3>1. a[3] \in Calls /\ a[1] = call[a[3]].run
      BY DEF AnalysesInv, ArtifactInv
    <3>2. PICK n \in 1..(call[a[3]].at - 1) : Script[call[a[3]].service][n].op = "write"
      BY DEF AnalysesInv, ArtifactInv
    <3>3. /\ call[a[3]].service \in DOMAIN Script /\ call[a[3]].at \in Nat
      BY <3>1, StepNumbers DEF AnalysesInv
    <3>4. n # 1 /\ n # 2
      BY <3>2, <3>3, ScriptFacts
    <3>5. call[a[3]].at > 2
      BY <3>3, <3>4
    <3> QED
      BY <3>1, <3>5 DEF AnalysesInv, DirectoryInv
  <2> QED
    BY <2>1 DEF OneWriterPerRun
<1> QED
  BY <1>1, AnalysesInvariance, PTL

\* NothingIsLeftBehind, wherever git worktree add or a step of the cleanup is
\* cut off.
THEOREM WorktreesGoAway == Spec => []NothingIsLeftBehind
<1>1. AnalysesInv => NothingIsLeftBehind
  BY DEF AnalysesInv, WorktreeInv, WorktreesOf, NothingIsLeftBehind, Ended, Owned
<1> QED
  BY <1>1, AnalysesInvariance, PTL

LEMMA StatusOf ==
    ASSUME AnalysesInv, NEW c \in Calls
    PROVE  /\ builds["BASE"] \in {"PASS", "FAIL"} /\ builds["UPDATED"] \in {"PASS", "FAIL"}
           /\ \A k \in {"BASE", "UPDATED"} :
                /\ call[c].status[k] \in {"none", builds[k], "TIMEOUT", "ERROR"}
                /\ call[c].status[k] \in {"TIMEOUT", "ERROR"} => faults > 0
BY DEF AnalysesInv, StatusInv, TypeOK, Kinds

LEMMA AnswerFile ==
    \A s \in DOMAIN Script : \A n \in 1..Len(Script[s]) :
        /\ Script[s][n].op = "write" /\ Script[s][n].what = "reproduction.json" =>
              s = "reproduce" /\ n = Len(Script[s])
<1> SUFFICES ASSUME NEW s \in DOMAIN Script, NEW n \in 1..Len(Script[s]),
                    Script[s][n].op = "write", Script[s][n].what = "reproduction.json"
             PROVE  s = "reproduce" /\ n = Len(Script[s])
  OBVIOUS
<1>1. DOMAIN Script[s] = 1..Len(Script[s]) /\ TestsInOrder
  BY ScriptsAreWellFormed
<1>2. s = "reproduce" /\ Answer("reproduce") = "reproduction.json"
  BY <1>1 DEF TestsInOrder
<1> QED
  BY <1>2, AnswerFacts DEF AnswersAt

LEMMA WrittenBehind ==
    ASSUME AnalysesInv, NEW c \in Calls, NEW name, Wrote(c, name)
    PROVE  \E n \in 1..(call[c].at - 1) :
              /\ Script[call[c].service][n].op = "write"
              /\ Script[call[c].service][n].what = name
<1> DEFINE a == <<call[c].run, name, c>>
<1>1. a \in disk /\ a[3] = c /\ a[2] = name
  BY DEF Wrote
<1> HIDE DEF a
<1> QED
  BY <1>1 DEF AnalysesInv, ArtifactInv

\* ReproductionIsTrue: the base was tested, a base that passed had the update
\* tested too, and what was not cut off is what the build does.
THEOREM ReproductionsAreTrue == Spec => []ReproductionIsTrue
<1>1. AnalysesInv => ReproductionIsTrue
  <2> SUFFICES ASSUME AnalysesInv, NEW c \in Calls, Wrote(c, "reproduction.json")
               PROVE  LET verdict == Classify(call[c].status["BASE"], call[c].status["UPDATED"])
                      IN /\ verdict = "CONFIRMED" => builds = [BASE |-> "PASS", UPDATED |-> "FAIL"]
                         /\ verdict = "UPDATED_PASSED" => builds = [k \in Kinds |-> "PASS"]
                         /\ verdict = "BASE_FAILED" => builds["BASE"] = "FAIL"
                         /\ verdict = "EXECUTION_ERROR" => faults > 0
    BY DEF ReproductionIsTrue
  <2>1. PICK n \in 1..(call[c].at - 1) :
           /\ Script[call[c].service][n].op = "write"
           /\ Script[call[c].service][n].what = "reproduction.json"
    BY WrittenBehind
  <2>2. /\ call[c].at \in Nat /\ call[c].at <= ScriptLen(c) + 1 /\ ScriptLen(c) \in Nat
        /\ call[c].service \in DOMAIN Script
    BY StepNumbers DEF AnalysesInv
  <2>3. n \in 1..Len(Script[call[c].service])
    BY <2>2 DEF ScriptLen
  <2>4. call[c].service = "reproduce" /\ n = Len(Script["reproduce"])
    BY <2>1, <2>2, <2>3, AnswerFile DEF AnswersAt
  <2>5. call[c].at > 10
    BY <2>2, <2>4, TestFacts
  <2>6. /\ call[c].status["BASE"] # "none"
        /\ call[c].status["BASE"] = "PASS" => call[c].status["UPDATED"] # "none"
    BY <2>2, <2>4, <2>5 DEF AnalysesInv, TestedInv, TestsOf
  <2>7. builds \in [Kinds -> {"PASS", "FAIL"}]
    BY DEF AnalysesInv, TypeOK
  <2> QED
    BY <2>6, <2>7, StatusOf DEF Classify, Kinds
<1> QED
  BY <1>1, AnalysesInvariance, PTL

\* What CallerIsToldTheTruth says of one call that has ended.
LEMMA AnswerOnReturn ==
    ASSUME AnalysesInv, NEW c \in Calls, call[c].mode = "returned"
    PROVE  Wrote(c, Answer(call[c].service))
<1>1. /\ call[c].at = ScriptLen(c) + 1 /\ ScriptLen(c) \in Nat
      /\ call[c].service \in DOMAIN Script
  BY StepNumbers DEF AnalysesInv, PlaceInv
<1>2. PICK n \in 1..ScriptLen(c) : AnswersAt(call[c].service, n)
  BY <1>1, AnswerFacts DEF ScriptLen
<1> QED
  BY <1>1, <1>2 DEF AnalysesInv, ArtifactInv, AnswerIsWritten

LEMMA NoAnswerOnError ==
    ASSUME AnalysesInv, NEW c \in Calls, call[c].mode = "raised", call[c].service # "failures"
    PROVE  ~Wrote(c, Answer(call[c].service))
<1> SUFFICES ASSUME Wrote(c, Answer(call[c].service)) PROVE FALSE
  OBVIOUS
<1>1. /\ call[c].at <= ScriptLen(c) /\ call[c].at \in Nat /\ ScriptLen(c) \in Nat
      /\ call[c].service \in DOMAIN Script
  BY StepNumbers DEF AnalysesInv, PlaceInv
<1>2. PICK n \in 1..(call[c].at - 1) : AnswersAt(call[c].service, n)
  BY WrittenBehind DEF AnswersAt
<1>3. n = Len(Script[call[c].service])
  BY <1>1, <1>2, AnswerFacts DEF ScriptLen
<1> QED
  BY <1>1, <1>2, <1>3 DEF ScriptLen

\* CallerIsToldTheTruth: the answer on disk, the exception and the exit code
\* agree with each other and with the builds.
THEOREM TheCallerIsToldTheTruth == Spec => []CallerIsToldTheTruth
<1>1. AnalysesInv => AnswerMeansSuccess
  <2> SUFFICES ASSUME AnalysesInv, NEW c \in Calls, Ended(c), call[c].service # "failures"
               PROVE  Wrote(c, Answer(call[c].service)) <=> call[c].mode = "returned"
    BY DEF AnswerMeansSuccess
  <2> QED
    BY AnswerOnReturn, NoAnswerOnError DEF Ended
<1>2. AnalysesInv => FirstErrorIsReported
  BY DEF AnalysesInv, ErrorInv, ErrorsOf, FirstErrorIsReported
<1>3. AnalysesInv => ExitCodeIsTrue
  <2> SUFFICES ASSUME AnalysesInv, NEW c \in Calls, Ended(c), NEW code \in ExitCodes(c)
               PROVE  /\ code \in {0, 2} => Wrote(c, Answer(call[c].service))
                      /\ code = 0 /\ call[c].service \in {"reproduce", "failures"} =>
                             builds["UPDATED"] = "FAIL"
                      /\ code = 1 => faults > 0 \/ directory[call[c].run] # c
    BY DEF ExitCodeIsTrue
  <2>1. CASE call[c].mode = "raised"
    <3>1. code = 1
      BY <2>1 DEF ExitCodes
    <3>2. faults > 0 \/ directory[call[c].run] # c
      BY <2>1 DEF AnalysesInv, ErrorInv, ErrorsOf
    <3> QED
      BY <3>1, <3>2
  <2>2. CASE call[c].mode = "returned"
    <3>1. Wrote(c, Answer(call[c].service))
      BY <2>2, AnswerOnReturn
    <3>2. /\ call[c].at = Len(Script[call[c].service]) + 1 /\ TestsOf(c)
          /\ Len(Script[call[c].service]) \in Nat
      BY <2>2, StepNumbers DEF AnalysesInv, PlaceInv, TestedInv, ScriptLen
    <3>3. CASE call[c].service = "reproduce"
      <4>1. code \in ReproductionExit(Classify(call[c].status["BASE"], call[c].status["UPDATED"]))
        BY <2>2, <3>3 DEF ExitCodes
      <4>2. /\ call[c].status["BASE"] # "none"
            /\ call[c].status["BASE"] = "PASS" => call[c].status["UPDATED"] # "none"
        BY <3>2, <3>3, TestFacts DEF TestsOf
      <4> QED
        BY <3>1, <4>1, <4>2, StatusOf DEF ReproductionExit, Classify
    <3>4. CASE call[c].service = "failures"
      <4>1. code \in FailureExit(call[c].status["UPDATED"])
        BY <2>2, <3>4 DEF ExitCodes
      <4>2. call[c].status["UPDATED"] # "none"
        BY <3>2, <3>4, TestFacts DEF TestsOf
      <4> QED
        BY <3>1, <4>1, <4>2, StatusOf DEF FailureExit
    <3>5. CASE call[c].service \notin {"reproduce", "failures"}
      <4>1. code \in {0, 2}
        BY <2>2, <3>5 DEF ExitCodes
      <4> QED
        BY <3>1, <3>5, <4>1
    <3> QED
      BY <3>3, <3>4, <3>5
  <2> QED
    BY <2>1, <2>2 DEF Ended
<1>4. AnalysesInv => CallerIsToldTheTruth
  BY <1>1, <1>2, <1>3 DEF CallerIsToldTheTruth
<1> QED
  BY <1>4, AnalysesInvariance, PTL
=============================================================================
