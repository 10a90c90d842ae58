-------------------------- MODULE LiveSessionProofs --------------------------
(***************************************************************************)
(* What the session of the demo UI shows, for any tasks and directories,   *)
(* any clicks and any errors.  SessionInv is inductive: the three          *)
(* properties need what each point of the script can rely on, which is     *)
(* what the assignments before it have done, since a click before one of   *)
(* them ends the run there.                                                *)
(***************************************************************************)
EXTENDS LiveSession, TLAPS

\* The four results are gone in the order in which they are reset.
ResetInv ==
    /\ pc \in DOMAIN NextReset \ {"task"} => task = NoTask /\ ~settled
    /\ pc \in DOMAIN NextReset \ {"task", "reproduction_result"} => reproduction_result = None
    /\ pc \in {"repair_result", "last_error", "investigation_running", "repair_running"} =>
          planning_result = None
    /\ pc \in {"last_error", "investigation_running", "repair_running"} => repair_result = None
    /\ pc = "repair_running" => ~investigation_running

\* What the handlers know of the page, the task and the results.
HandlerInv ==
    /\ pc \in {"drop repair", "build", "investigate", "plan"} => page = "migration"
    /\ pc = "repair" => page = "repair"
    /\ pc \in Handler => page \in {"migration", "repair"}
    /\ pc \in {"clear error", "repair"} /\ page = "repair" => task # NoTask /\ planning_result # None
    /\ pc \in {"build", "investigate", "plan"} => repair_result = None
    /\ pc \in {"investigate", "plan", "repair"} => adapter \in Job /\ task = adapter.task
    /\ pc \in {"investigate", "plan"} => ~settled
    /\ pc = "plan" => reproduction_result = [task |-> adapter.task, confirmed |-> TRUE]

ScriptInv == ResetInv /\ HandlerInv

SessionInv ==
    /\ TypeOK
    /\ ScriptInv
    /\ ResultIsOfTheTask
    /\ ButtonsComeBack
    /\ SettledSessionAgrees

-----------------------------------------------------------------------------

LEMMA InitSession == Init => SessionInv
<1> SUFFICES ASSUME Init PROVE SessionInv
    OBVIOUS
<1> USE SessionAssumption DEF Init, EmptyForm, NextReset, Handler, Guarded, Unguarded, None
<1>1. TypeOK
    BY DEF TypeOK, PC
<1>2. ScriptInv
    BY DEF ScriptInv, ResetInv, HandlerInv
<1>3. ResultIsOfTheTask /\ ButtonsComeBack /\ SettledSessionAgrees
    BY DEF ResultIsOfTheTask, ButtonsComeBack, SettledSessionAgrees, session
<1> QED
    BY <1>1, <1>2, <1>3 DEF SessionInv

\* reset_run_state in a form without a record.
LEMMA ResetKeys ==
    /\ DOMAIN NextReset = {"task", "reproduction_result", "planning_result", "repair_result",
                           "last_error", "investigation_running", "repair_running"}
    /\ NextReset["task"] = "reproduction_result"
    /\ NextReset["reproduction_result"] = "planning_result"
    /\ NextReset["planning_result"] = "repair_result"
    /\ NextReset["repair_result"] = "last_error"
    /\ NextReset["last_error"] = "investigation_running"
    /\ NextReset["investigation_running"] = "repair_running"
    /\ NextReset["repair_running"] = "fields"
BY DEF NextReset

LEMMA StepSession == SessionInv /\ [Next]_vars => SessionInv'
<1> SUFFICES ASSUME SessionInv, [Next]_vars PROVE SessionInv'
    OBVIOUS
<1> USE SessionAssumption, ResetKeys
    DEF SessionInv, ResetInv, HandlerInv, Handler, Guarded, Unguarded, None, session, running
<1>1. ASSUME NEW p \in {"migration", "repair", "other"}, OpenPage(p) PROVE SessionInv'
  <2>1. TypeOK'
    <3>1. pc' \in PC
        BY <1>1 DEF OpenPage, EmptyForm, Drawn, TypeOK, PC
    <3> QED
        BY <1>1, <3>1 DEF OpenPage, EmptyForm, Drawn, TypeOK
  <2>2. ScriptInv'
    BY <1>1 DEF OpenPage, EmptyForm, Drawn, TypeOK, ScriptInv, Job, Reproduction
  <2>3. ResultIsOfTheTask'
    BY <1>1 DEF OpenPage, EmptyForm, Drawn, TypeOK, ScriptInv, ResultIsOfTheTask, Job
  <2>4. ButtonsComeBack'
    BY <1>1 DEF OpenPage, EmptyForm, Drawn, TypeOK, ScriptInv, ButtonsComeBack
  <2>5. SettledSessionAgrees'
    BY <1>1 DEF OpenPage, EmptyForm, Drawn, TypeOK, ScriptInv, SettledSessionAgrees, Job
  <2> QED
    BY <2>1, <2>2, <2>3, <2>4, <2>5
<1>2. ASSUME NEW t \in Tasks \union {NoTask}, NEW directory \in Directories,
             FillIn(t, directory)
      PROVE  SessionInv'
  <2>1. TypeOK'
    <3>1. pc' \in PC
        BY <1>2 DEF FillIn, TypeOK, PC
    <3> QED
        BY <1>2, <3>1 DEF FillIn, TypeOK
  <2>2. ScriptInv'
    BY <1>2 DEF FillIn, TypeOK, ScriptInv, Job, Reproduction
  <2>3. ResultIsOfTheTask'
    BY <1>2 DEF FillIn, TypeOK, ScriptInv, ResultIsOfTheTask, Job
  <2>4. ButtonsComeBack'
    BY <1>2 DEF FillIn, TypeOK, ScriptInv, ButtonsComeBack
  <2>5. SettledSessionAgrees'
    BY <1>2 DEF FillIn, TypeOK, ScriptInv, SettledSessionAgrees, Job
  <2> QED
    BY <2>1, <2>2, <2>3, <2>4, <2>5
<1>3. CASE Load
  <2>1. TypeOK'
    <3>1. pc' \in PC
        BY <1>3 DEF Load, TypeOK, PC
    <3> QED
        BY <1>3, <3>1 DEF Load, TypeOK
  <2>2. ScriptInv'
    BY <1>3 DEF Load, TypeOK, ScriptInv, Job, Reproduction
  <2>3. ResultIsOfTheTask'
    BY <1>3 DEF Load, TypeOK, ScriptInv, ResultIsOfTheTask, Job
  <2>4. ButtonsComeBack'
    BY <1>3 DEF Load, TypeOK, ScriptInv, ButtonsComeBack
  <2>5. SettledSessionAgrees'
    BY <1>3 DEF Load, TypeOK, ScriptInv, SettledSessionAgrees, Job
  <2> QED
    BY <2>1, <2>2, <2>3, <2>4, <2>5
<1>4. CASE ResetRunState
  <2>1. TypeOK'
    <3>1. pc' \in PC
        BY <1>4 DEF ResetRunState, TypeOK, PC
    <3> QED
        BY <1>4, <3>1 DEF ResetRunState, TypeOK
  <2>2. ScriptInv'
    BY <1>4 DEF ResetRunState, TypeOK, ScriptInv, Job, Reproduction
  <2>3. ResultIsOfTheTask'
    BY <1>4 DEF ResetRunState, TypeOK, ScriptInv, ResultIsOfTheTask, Job
  <2>4. ButtonsComeBack'
    BY <1>4 DEF ResetRunState, TypeOK, ScriptInv, ButtonsComeBack
  <2>5. SettledSessionAgrees'
    BY <1>4 DEF ResetRunState, TypeOK, ScriptInv, SettledSessionAgrees, Job
  <2> QED
    BY <2>1, <2>2, <2>3, <2>4, <2>5
<1>5. CASE SetFormValues
  <2>1. TypeOK'
    <3>1. pc' \in PC
        BY <1>5 DEF SetFormValues, TypeOK, PC
    <3>2. form' \in [task : Tasks \union {NoTask}, directory : Directories]
        BY <1>5 DEF SetFormValues, TypeOK
    <3> QED
        BY <1>5, <3>1, <3>2, ZenonT(60) DEF SetFormValues, TypeOK
  <2>2. ScriptInv'
    BY <1>5 DEF SetFormValues, TypeOK, ScriptInv, Job, Reproduction
  <2>3. ResultIsOfTheTask'
    BY <1>5 DEF SetFormValues, TypeOK, ScriptInv, ResultIsOfTheTask, Job
  <2>4. ButtonsComeBack'
    BY <1>5 DEF SetFormValues, TypeOK, ScriptInv, ButtonsComeBack
  <2>5. SettledSessionAgrees'
    BY <1>5 DEF SetFormValues, TypeOK, ScriptInv, SettledSessionAgrees, Job
  <2> QED
    BY <2>1, <2>2, <2>3, <2>4, <2>5
<1>6. CASE FinishLoad
  <2>1. TypeOK'
    <3>1. pc' \in PC
        BY <1>6 DEF FinishLoad, Drawn, TypeOK, PC
    <3>2. form' \in [task : Tasks \union {NoTask}, directory : Directories]
        BY <1>6 DEF FinishLoad, TypeOK
    <3> QED
        BY <1>6, <3>1, <3>2 DEF FinishLoad, Drawn, TypeOK
  <2>2. ScriptInv'
    BY <1>6 DEF FinishLoad, Drawn, TypeOK, ScriptInv, Job, Reproduction
  <2>3. ResultIsOfTheTask'
    BY <1>6 DEF FinishLoad, Drawn, TypeOK, ScriptInv, ResultIsOfTheTask, Job
  <2>4. ButtonsComeBack'
    BY <1>6 DEF FinishLoad, Drawn, TypeOK, ScriptInv, ButtonsComeBack
  <2>5. SettledSessionAgrees'
    BY <1>6 DEF FinishLoad, Drawn, TypeOK, ScriptInv, SettledSessionAgrees, Job
  <2> QED
    BY <2>1, <2>2, <2>3, <2>4, <2>5
<1>7. CASE Submit
  <2>1. TypeOK'
    <3>1. pc' \in PC
        BY <1>7 DEF Submit, Drawn, TypeOK, PC
    <3> QED
        BY <1>7, <3>1 DEF Submit, Drawn, TypeOK
  <2>2. ScriptInv'
    BY <1>7 DEF Submit, Drawn, TypeOK, ScriptInv, Job, Reproduction
  <2>3. ResultIsOfTheTask'
    BY <1>7 DEF Submit, Drawn, TypeOK, ScriptInv, ResultIsOfTheTask, Job
  <2>4. ButtonsComeBack'
    BY <1>7 DEF Submit, Drawn, TypeOK, ScriptInv, ButtonsComeBack
  <2>5. SettledSessionAgrees'
    BY <1>7 DEF Submit, Drawn, TypeOK, ScriptInv, SettledSessionAgrees, Job
  <2> QED
    BY <2>1, <2>2, <2>3, <2>4, <2>5
<1>8. CASE DropRepair
  <2>1. TypeOK'
    <3>1. pc' \in PC
        BY <1>8 DEF DropRepair, TypeOK, PC
    <3> QED
        BY <1>8, <3>1, ZenonT(60) DEF DropRepair, TypeOK
  <2>2. ScriptInv'
    BY <1>8 DEF DropRepair, TypeOK, ScriptInv, Job, Reproduction
  <2>3. ResultIsOfTheTask'
    BY <1>8 DEF DropRepair, TypeOK, ScriptInv, ResultIsOfTheTask, Job
  <2>4. ButtonsComeBack'
    BY <1>8 DEF DropRepair, TypeOK, ScriptInv, ButtonsComeBack
  <2>5. SettledSessionAgrees'
    BY <1>8 DEF DropRepair, TypeOK, ScriptInv, SettledSessionAgrees, Job
  <2> QED
    BY <2>1, <2>2, <2>3, <2>4, <2>5
<1>9. CASE BuildTask
  <2>1. TypeOK'
    <3>1. pc' \in PC
        BY <1>9 DEF BuildTask, TypeOK, PC
    <3>2. adapter' \in Job \union {None}
        BY <1>9 DEF BuildTask, TypeOK, ScriptInv, Job
    <3> QED
        BY <1>9, <3>1, <3>2, ZenonT(60) DEF BuildTask, TypeOK
  <2>2. ScriptInv'
    BY <1>9 DEF BuildTask, TypeOK, ScriptInv, Job, Reproduction
  <2>3. ResultIsOfTheTask'
    BY <1>9 DEF BuildTask, TypeOK, ScriptInv, ResultIsOfTheTask, Job
  <2>4. ButtonsComeBack'
    BY <1>9 DEF BuildTask, TypeOK, ScriptInv, ButtonsComeBack
  <2>5. SettledSessionAgrees'
    BY <1>9 DEF BuildTask, TypeOK, ScriptInv, SettledSessionAgrees, Job
  <2> QED
    BY <2>1, <2>2, <2>3, <2>4, <2>5
<1>10. CASE Investigate
  <2>1. TypeOK'
    <3>1. pc' \in PC
        BY <1>10 DEF Investigate, TypeOK, PC
    <3> QED
        BY <1>10, <3>1 DEF Investigate, TypeOK, ScriptInv, Job, Reproduction
  <2>2. ScriptInv'
    BY <1>10 DEF Investigate, TypeOK, ScriptInv, Job, Reproduction
  <2>3. ResultIsOfTheTask'
    BY <1>10 DEF Investigate, TypeOK, ScriptInv, ResultIsOfTheTask, Job
  <2>4. ButtonsComeBack'
    BY <1>10 DEF Investigate, TypeOK, ScriptInv, ButtonsComeBack
  <2>5. SettledSessionAgrees'
    BY <1>10 DEF Investigate, TypeOK, ScriptInv, SettledSessionAgrees, Job
  <2> QED
    BY <2>1, <2>2, <2>3, <2>4, <2>5
<1>11. CASE KeepPlan
  <2>1. TypeOK'
    <3>1. pc' \in PC
        BY <1>11 DEF KeepPlan, TypeOK, PC
    <3> QED
        BY <1>11, <3>1 DEF KeepPlan, TypeOK, ScriptInv
  <2>2. ScriptInv'
    BY <1>11 DEF KeepPlan, TypeOK, ScriptInv, Job, Reproduction
  <2>3. ResultIsOfTheTask'
    BY <1>11 DEF KeepPlan, TypeOK, ScriptInv, ResultIsOfTheTask, Job
  <2>4. ButtonsComeBack'
    BY <1>11 DEF KeepPlan, TypeOK, ScriptInv, ButtonsComeBack
  <2>5. SettledSessionAgrees'
    BY <1>11 DEF KeepPlan, TypeOK, ScriptInv, SettledSessionAgrees, Job
  <2> QED
    BY <2>1, <2>2, <2>3, <2>4, <2>5
<1>12. CASE Repair
  <2>1. TypeOK'
    <3>1. pc' \in PC
        BY <1>12 DEF Repair, Drawn, TypeOK, PC
    <3> QED
        BY <1>12, <3>1 DEF Repair, Drawn, TypeOK
  <2>2. ScriptInv'
    BY <1>12 DEF Repair, Drawn, TypeOK, ScriptInv, Job, Reproduction
  <2>3. ResultIsOfTheTask'
    BY <1>12 DEF Repair, Drawn, TypeOK, ScriptInv, ResultIsOfTheTask, Job
  <2>4. ButtonsComeBack'
    BY <1>12 DEF Repair, Drawn, TypeOK, ScriptInv, ButtonsComeBack
  <2>5. SettledSessionAgrees'
    BY <1>12 DEF Repair, Drawn, TypeOK, ScriptInv, SettledSessionAgrees, Job
  <2> QED
    BY <2>1, <2>2, <2>3, <2>4, <2>5
<1>13. CASE RepairReturns
  <2>1. TypeOK'
    <3>1. pc' \in PC
        BY <1>13 DEF RepairReturns, TypeOK, PC
    <3> QED
        BY <1>13, <3>1 DEF RepairReturns, TypeOK, ScriptInv
  <2>2. ScriptInv'
    BY <1>13 DEF RepairReturns, TypeOK, ScriptInv, Job, Reproduction
  <2>3. ResultIsOfTheTask'
    BY <1>13 DEF RepairReturns, TypeOK, ScriptInv, ResultIsOfTheTask, Job
  <2>4. ButtonsComeBack'
    BY <1>13 DEF RepairReturns, TypeOK, ScriptInv, ButtonsComeBack
  <2>5. SettledSessionAgrees'
    BY <1>13 DEF RepairReturns, TypeOK, ScriptInv, SettledSessionAgrees, Job
  <2> QED
    BY <2>1, <2>2, <2>3, <2>4, <2>5
<1>14. CASE ClearError
  <2>0. page = "repair" => adapter' \in Job /\ adapter'.task = task
    <3> SUFFICES ASSUME page = "repair" PROVE adapter' \in Job /\ adapter'.task = task
        OBVIOUS
    <3>1. task \in Tasks /\ form.directory \in Directories
        BY <1>14 DEF ClearError, TypeOK, ScriptInv
    <3>2. adapter' = [task |-> task, directory |-> form.directory]
        BY <1>14 DEF ClearError
    <3> QED
        BY <3>1, <3>2 DEF Job
  <2>1. TypeOK'
    <3>1. pc' \in PC
        BY <1>14 DEF ClearError, TypeOK, PC
    <3>2. adapter' \in Job \union {None}
        BY <1>14, <2>0 DEF ClearError, TypeOK, ScriptInv, Job
    <3> QED
        BY <1>14, <3>1, <3>2 DEF ClearError, TypeOK
  <2>2. ScriptInv'
    <3>1. CASE page = "migration"
        BY <1>14, <3>1 DEF ClearError, ScriptInv
    <3>2. CASE page = "repair"
        BY <1>14, <2>0, <3>2 DEF ClearError, ScriptInv
    <3> QED
        BY <1>14, <3>1, <3>2 DEF ClearError, ScriptInv
  <2>3. ResultIsOfTheTask'
    BY <1>14 DEF ClearError, TypeOK, ScriptInv, ResultIsOfTheTask, Job
  <2>4. ButtonsComeBack'
    BY <1>14 DEF ClearError, TypeOK, ScriptInv, ButtonsComeBack
  <2>5. SettledSessionAgrees'
    BY <1>14 DEF ClearError, TypeOK, ScriptInv, SettledSessionAgrees, Job
  <2> QED
    BY <2>1, <2>2, <2>3, <2>4, <2>5
<1>15. CASE KeepError
  <2>1. TypeOK'
    <3>1. pc' \in PC
        BY <1>15 DEF KeepError, TypeOK, PC
    <3> QED
        BY <1>15, <3>1 DEF KeepError, TypeOK
  <2>2. ScriptInv'
    BY <1>15 DEF KeepError, TypeOK, ScriptInv, Job, Reproduction
  <2>3. ResultIsOfTheTask'
    BY <1>15 DEF KeepError, TypeOK, ScriptInv, ResultIsOfTheTask, Job
  <2>4. ButtonsComeBack'
    BY <1>15 DEF KeepError, TypeOK, ScriptInv, ButtonsComeBack
  <2>5. SettledSessionAgrees'
    BY <1>15 DEF KeepError, TypeOK, ScriptInv, SettledSessionAgrees, Job
  <2> QED
    BY <2>1, <2>2, <2>3, <2>4, <2>5
<1>16. CASE Finally
  <2>1. TypeOK'
    <3>1. pc' \in PC
        BY <1>16 DEF Finally, TypeOK, PC
    <3> QED
        BY <1>16, <3>1 DEF Finally, TypeOK
  <2>2. ScriptInv'
    BY <1>16 DEF Finally, TypeOK, ScriptInv, Job, Reproduction
  <2>3. ResultIsOfTheTask'
    BY <1>16 DEF Finally, TypeOK, ScriptInv, ResultIsOfTheTask, Job
  <2>4. ButtonsComeBack'
    BY <1>16 DEF Finally, TypeOK, ScriptInv, ButtonsComeBack
  <2>5. SettledSessionAgrees'
    BY <1>16 DEF Finally, TypeOK, ScriptInv, SettledSessionAgrees, Job
  <2> QED
    BY <2>1, <2>2, <2>3, <2>4, <2>5
<1>17. CASE Interrupt
  <2>1. TypeOK'
    <3>1. pc' \in PC
        BY <1>17 DEF Interrupt, TypeOK, PC
    <3>2. cut' \in SUBSET {"migration", "repair"}
        BY <1>17 DEF Interrupt, TypeOK, ScriptInv
    <3> QED
        BY <1>17, <3>1, <3>2, ZenonT(60) DEF Interrupt, TypeOK
  <2>2. ScriptInv'
    BY <1>17 DEF Interrupt, TypeOK, ScriptInv, Job, Reproduction
  <2>3. ResultIsOfTheTask'
    BY <1>17 DEF Interrupt, TypeOK, ScriptInv, ResultIsOfTheTask, Job
  <2>4. ButtonsComeBack'
    BY <1>17 DEF Interrupt, TypeOK, ScriptInv, ButtonsComeBack
  <2>5. SettledSessionAgrees'
    BY <1>17 DEF Interrupt, TypeOK, ScriptInv, SettledSessionAgrees, Job
  <2> QED
    BY <2>1, <2>2, <2>3, <2>4, <2>5
<1>18. CASE UNCHANGED vars
  <2>1. TypeOK'
    <3>1. pc' \in PC
        BY <1>18 DEF vars, TypeOK, PC
    <3> QED
        BY <1>18, <3>1 DEF vars, TypeOK
  <2>2. ScriptInv'
    BY <1>18 DEF vars, TypeOK, ScriptInv, Job, Reproduction
  <2>3. ResultIsOfTheTask'
    BY <1>18 DEF vars, TypeOK, ScriptInv, ResultIsOfTheTask, Job
  <2>4. ButtonsComeBack'
    BY <1>18 DEF vars, TypeOK, ScriptInv, ButtonsComeBack
  <2>5. SettledSessionAgrees'
    BY <1>18 DEF vars, TypeOK, ScriptInv, SettledSessionAgrees, Job
  <2> QED
    BY <2>1, <2>2, <2>3, <2>4, <2>5
<1> QED
    BY <1>1, <1>2, <1>3, <1>4, <1>5, <1>6, <1>7, <1>8, <1>9, <1>10, <1>11, <1>12, <1>13, <1>14, <1>15, <1>16, <1>17, <1>18 DEF Next

LEMMA SessionHolds == Spec => []SessionInv
BY InitSession, StepSession, PTL DEF Spec

(* Every reachable session is well-typed.                                   *)
THEOREM TypeCorrect == Spec => []TypeOK
<1>1. SessionInv => TypeOK
    BY DEF SessionInv
<1> QED
    BY <1>1, SessionHolds, PTL

(* The page never shows the repair of one upgrade under the name of another, *)
(* wherever a click has stopped the script.                                  *)
THEOREM ResultIsShownForItsTask == Spec => []ResultIsOfTheTask
<1>1. SessionInv => ResultIsOfTheTask
    BY DEF SessionInv
<1> QED
    BY <1>1, SessionHolds, PTL

(* The flag of a button is up while its work goes on, and afterwards only if *)
(* a click came where no `finally' was left to lower it.                     *)
THEOREM FlagsAreAccountedFor == Spec => []ButtonsComeBack
<1>1. SessionInv => ButtonsComeBack
    BY DEF SessionInv
<1> QED
    BY <1>1, SessionHolds, PTL

(* A completed load or investigation leaves a session about one upgrade,     *)
(* whatever was left half done before it.                                    *)
THEOREM SettledIsOfOnePiece == Spec => []SettledSessionAgrees
<1>1. SessionInv => SettledSessionAgrees
    BY DEF SessionInv
<1> QED
    BY <1>1, SessionHolds, PTL
=============================================================================
