----------------------------- MODULE LiveSession -----------------------------
(***************************************************************************)
(* The session of the demo UI in live mode (demo_ui/app.py, state.py and   *)
(* the live adapter).  The script runs from top to bottom for every click; *)
(* what outlives a run of it is the session.  A click while it still runs  *)
(* stops it where it next touches the session or the page, past its        *)
(* `except': inside a `try' the `finally' is still carried out, unless the *)
(* next click stops that as well.  So an action is what the script does up *)
(* to and including one assignment to the session, and pc names the next.  *)
(***************************************************************************)
CONSTANTS
    Tasks,           \* what a filled-in form may ask for
    NoTask,          \* a form with an empty field; no task in the session
    Directories,     \* state directories
    Default          \* an empty field: the default directory

ASSUME SessionAssumption == NoTask \notin Tasks /\ Default \in Directories

VARIABLES
    page,            \* the page that is open
    form,            \* the fields of the New Migration page
    task,            \* the task, and what became of it, as st.session_state
    reproduction_result,  \* keeps them
    planning_result,
    repair_result,
    last_error,      \* is an error shown?
    investigation_running,
    repair_running,
    enabled,         \* was the button of the page enabled when it was drawn?
    pc,              \* where the script is; "idle" between its runs
    adapter,         \* the task and the directory it works with
    settled,         \* history: was the session loaded, or its last investigation
                     \* completed, since something was last left half done?
    cut              \* history: the pages on which a click came when no `finally'
                     \* was there to lower the flag, and nothing has lowered it since

session == <<task, reproduction_result, planning_result, repair_result>>
running == <<investigation_running, repair_running>>
vars == <<page, form, session, last_error, running, enabled, pc, adapter, settled, cut>>

None == [task |-> NoTask]

Job == [task : Tasks, directory : Directories]
Reproduction == [task : Tasks, confirmed : BOOLEAN]

\* The assignments of reset_run_state in their order, and what follows them:
\* the fields of the form.
NextReset ==
    [task |-> "reproduction_result", reproduction_result |-> "planning_result",
     planning_result |-> "repair_result", repair_result |-> "last_error",
     last_error |-> "investigation_running", investigation_running |-> "repair_running",
     repair_running |-> "fields"]

\* Where the `try' of a handler reaches, the assignment of its `except' included.
Guarded == {"build", "investigate", "plan", "repair", "except"}

\* And where none of it is left to lower the flag if a click comes.
Unguarded == {"clear error", "drop repair", "finally"}

\* Where a handler has its flag up.
Handler == Guarded \union Unguarded

PC == DOMAIN NextReset \union Handler \union {"idle", "fields", "directory", "load error"}

TypeOK ==
    /\ page \in {"migration", "repair", "other"}
    /\ form \in [task : Tasks \union {NoTask}, directory : Directories]
    /\ task \in Tasks \union {NoTask}
    /\ reproduction_result \in Reproduction \union {None}
    /\ planning_result \in Job \union {None}
    /\ repair_result \in Job \union {None}
    /\ last_error \in BOOLEAN
    /\ investigation_running \in BOOLEAN
    /\ repair_running \in BOOLEAN
    /\ enabled \in BOOLEAN
    /\ pc \in PC
    /\ adapter \in Job \union {None}
    /\ settled \in BOOLEAN
    /\ cut \in SUBSET {"migration", "repair"}

EmptyForm == [task |-> NoTask, directory |-> Default]

\* initialize_state.
Init ==
    /\ page = "other"
    /\ form = EmptyForm
    /\ task = NoTask
    /\ reproduction_result = None
    /\ planning_result = None
    /\ repair_result = None
    /\ last_error = FALSE
    /\ investigation_running = FALSE
    /\ repair_running = FALSE
    /\ enabled = FALSE
    /\ pc = "idle"
    /\ adapter = None
    /\ settled = TRUE
    /\ cut = {}

-----------------------------------------------------------------------------
(* Between two runs of the script.                                         *)

\* render_repair draws no button without a task and a plan.
Drawn(p) ==
    \/ p = "migration" /\ ~investigation_running
    \/ p = "repair" /\ task # NoTask /\ planning_result # None /\ ~repair_running

\* A run in which neither button was clicked. A field that it does not draw is
\* forgotten, and initialize_state fills it in again with nothing.
OpenPage(p) ==
    /\ pc = "idle"
    /\ page' = p
    /\ form' = IF p = "migration" THEN form ELSE EmptyForm
    /\ enabled' = Drawn(p)
    /\ UNCHANGED <<session, last_error, running, pc, adapter, settled, cut>>

FillIn(t, directory) ==
    /\ pc = "idle"
    /\ page = "migration"
    /\ form' = [task |-> t, directory |-> directory]
    /\ UNCHANGED <<page, session, last_error, running, enabled, pc, adapter, settled, cut>>

-----------------------------------------------------------------------------
(* Load Demo Fixture, Load task.json.                                      *)

\* The first thing that is assigned is the task.
Load ==
    /\ pc = "idle"
    /\ page = "migration"
    /\ pc' = "task"
    /\ UNCHANGED <<page, form, session, last_error, running, enabled, adapter, settled, cut>>

\* The mutant of reset_run_state that forgets one key.
ResetKeepingPlan ==
    /\ pc \in DOMAIN NextReset
    /\ pc' = NextReset[pc]
    /\ task' = IF pc = "task" THEN NoTask ELSE task
    /\ reproduction_result' = IF pc = "reproduction_result" THEN None ELSE reproduction_result
    /\ repair_result' = IF pc = "repair_result" THEN None ELSE repair_result
    /\ last_error' = (pc # "last_error" /\ last_error)
    /\ investigation_running' = (pc # "investigation_running" /\ investigation_running)
    /\ repair_running' = (pc # "repair_running" /\ repair_running)
    /\ settled' = (pc = "repair_running")
    /\ cut' = CASE pc = "investigation_running" -> cut \ {"migration"}
                [] pc = "repair_running" -> cut \ {"repair"}
                [] OTHER -> cut
    /\ UNCHANGED <<page, form, planning_result, enabled, adapter>>

\* One assignment of reset_run_state.
ResetRunState ==
    /\ pc \in DOMAIN NextReset
    /\ pc' = NextReset[pc]
    /\ task' = IF pc = "task" THEN NoTask ELSE task
    /\ reproduction_result' = IF pc = "reproduction_result" THEN None ELSE reproduction_result
    /\ planning_result' = IF pc = "planning_result" THEN None ELSE planning_result
    /\ repair_result' = IF pc = "repair_result" THEN None ELSE repair_result
    /\ last_error' = (pc # "last_error" /\ last_error)
    /\ investigation_running' = (pc # "investigation_running" /\ investigation_running)
    /\ repair_running' = (pc # "repair_running" /\ repair_running)
    /\ settled' = (pc = "repair_running")
    /\ cut' = CASE pc = "investigation_running" -> cut \ {"migration"}
                [] pc = "repair_running" -> cut \ {"repair"}
                [] OTHER -> cut
    /\ UNCHANGED <<page, form, enabled, adapter>>

\* The fields of the task are assigned one by one, the directory after them: in
\* between the form asks for something or other. There may be no task to load.
SetFormValues ==
    /\ pc = "fields"
    /\ \/ \E t \in Tasks \union {NoTask} : form' = [form EXCEPT !.task = t] /\ UNCHANGED pc
       \/ \E t \in Tasks : form' = [form EXCEPT !.task = t] /\ pc' = "directory"
       \/ pc' = "load error" /\ UNCHANGED form
    /\ UNCHANGED <<page, session, last_error, running, enabled, adapter, settled, cut>>

\* The script is run again after a load, and goes on to the form after an error.
FinishLoad ==
    /\ pc \in {"directory", "load error"}
    /\ form' = IF pc = "directory" THEN [form EXCEPT !.directory = Default] ELSE form
    /\ last_error' = (pc = "load error")
    /\ enabled' = Drawn(page)
    /\ pc' = "idle"
    /\ UNCHANGED <<page, session, running, adapter, settled, cut>>

-----------------------------------------------------------------------------
(* The two handlers. Each draws its button, raises its flag, clears the     *)
(* error, and only then comes to its `try'.                                 *)

\* Investigate Upgrade.
Submit ==
    /\ pc = "idle"
    /\ page = "migration"
    /\ enabled
    /\ enabled' = Drawn(page)
    /\ investigation_running' = TRUE
    /\ pc' = "clear error"
    /\ UNCHANGED <<page, form, session, last_error, repair_running, adapter, settled, cut>>

\* Repair in Isolated Workspace.
Repair ==
    /\ pc = "idle"
    /\ page = "repair"
    /\ enabled
    /\ task # NoTask
    /\ planning_result # None
    /\ enabled' = Drawn(page)
    /\ repair_running' = TRUE
    /\ pc' = "clear error"
    /\ UNCHANGED <<page, form, session, last_error, investigation_running, adapter, settled, cut>>

\* The adapter of a repair is made of the session.
ClearError ==
    /\ pc = "clear error"
    /\ last_error' = FALSE
    /\ IF page = "migration"
       THEN pc' = "drop repair" /\ UNCHANGED adapter
       ELSE pc' = "repair" /\ adapter' = [task |-> task, directory |-> form.directory]
    /\ UNCHANGED <<page, form, session, running, enabled, settled, cut>>

\* The mutant that leaves the result of an earlier repair.
KeepRepair ==
    /\ pc = "drop repair"
    /\ pc' = "build"
    /\ UNCHANGED <<page, form, session, last_error, running, enabled, adapter, settled, cut>>

DropRepair ==
    /\ pc = "drop repair"
    /\ repair_result' = None
    /\ pc' = "build"
    /\ UNCHANGED <<page, form, task, reproduction_result, planning_result, last_error, running,
                   enabled, adapter, settled, cut>>

\* build_task_spec, and the task becomes that of the session.
BuildTask ==
    /\ pc = "build"
    /\ IF form.task = NoTask
       THEN pc' = "except" /\ UNCHANGED <<task, adapter, settled>>
       ELSE /\ task' = form.task
            /\ adapter' = form
            /\ settled' = FALSE
            /\ pc' = "investigate"
    /\ UNCHANGED <<page, form, reproduction_result, planning_result, repair_result, last_error,
                   running, enabled, cut>>

\* LiveBumpShieldAdapter.investigate: reproduction, and planning if it is
\* confirmed. An error of either loses both.
Investigate ==
    /\ pc = "investigate"
    /\ \/ pc' = "except" /\ UNCHANGED reproduction_result
       \/ \E confirmed \in BOOLEAN :
             /\ reproduction_result' = [task |-> adapter.task, confirmed |-> confirmed]
             /\ pc' = IF confirmed THEN "plan" ELSE "except"
    /\ UNCHANGED <<page, form, task, planning_result, repair_result, last_error, running, enabled,
                   adapter, settled, cut>>

\* The view of the result is drawn before the result is kept.
KeepPlan ==
    /\ pc = "plan"
    /\ \/ pc' = "except" /\ UNCHANGED <<planning_result, settled>>
       \/ planning_result' = adapter /\ settled' = TRUE /\ pc' = "finally"
    /\ UNCHANGED <<page, form, task, reproduction_result, repair_result, last_error, running,
                   enabled, adapter, cut>>

\* The result is kept before its view is drawn.
RepairReturns ==
    /\ pc = "repair"
    /\ \/ pc' = "except" /\ UNCHANGED repair_result
       \/ repair_result' = adapter /\ pc' \in {"except", "finally"}
    /\ UNCHANGED <<page, form, task, reproduction_result, planning_result, last_error, running,
                   enabled, adapter, settled, cut>>

KeepError ==
    /\ pc = "except"
    /\ last_error' = TRUE
    /\ pc' = "finally"
    /\ UNCHANGED <<page, form, session, running, enabled, adapter, settled, cut>>

\* Each `finally' lowers the flag of its own handler.
Finally ==
    /\ pc = "finally"
    /\ investigation_running' = (page # "migration" /\ investigation_running)
    /\ repair_running' = (page # "repair" /\ repair_running)
    /\ cut' = cut \ {page}
    /\ adapter' = None
    /\ pc' = "idle"
    /\ UNCHANGED <<page, form, session, last_error, enabled, settled>>

-----------------------------------------------------------------------------

\* The mutant that lowers its flag only at the end of a run that gets there.
InterruptWithoutFinally ==
    /\ pc # "idle"
    /\ pc' = "idle"
    /\ cut' = IF pc \in Unguarded THEN cut \union {page} ELSE cut
    /\ adapter' = None
    /\ UNCHANGED <<page, form, session, last_error, running, enabled, settled>>

\* Another click.
Interrupt ==
    /\ pc # "idle"
    /\ pc' = IF pc \in Guarded THEN "finally" ELSE "idle"
    /\ cut' = IF pc \in Unguarded THEN cut \union {page} ELSE cut
    /\ adapter' = None
    /\ UNCHANGED <<page, form, session, last_error, running, enabled, settled>>

Next ==
    \/ \E p \in {"migration", "repair", "other"} : OpenPage(p)
    \/ \E t \in Tasks \union {NoTask}, directory \in Directories : FillIn(t, directory)
    \/ Load \/ ResetRunState \/ SetFormValues \/ FinishLoad
    \/ Submit \/ DropRepair \/ BuildTask \/ Investigate \/ KeepPlan
    \/ Repair \/ RepairReturns
    \/ ClearError \/ KeepError \/ Finally
    \/ Interrupt

Spec == Init /\ [][Next]_vars

-----------------------------------------------------------------------------
(* Properties.                                                             *)

(* A repair result and a task that are on the page together belong together, *)
(* however often tasks are loaded, investigated, repaired and clicked away   *)
(* at any point, and the repair page has the plan it was made on             *)
(* (app.py:186-190, 649, 686).                                               *)
ResultIsOfTheTask ==
    repair_result # None /\ task # NoTask =>
        repair_result.task = task /\ planning_result # None

(* The flag that disables a button is up while its work goes on, and down   *)
(* when it has ended with whatever error or click: the only clicks that     *)
(* leave it up come before the `try' or in the `finally', and the next load *)
(* or the next end of that work takes it down (app.py:393, 406, 431, 664,   *)
(* 667, 683, state.py:83-84).                                               *)
ButtonsComeBack ==
    /\ pc \in Handler /\ page = "migration" => investigation_running
    /\ pc \in Handler /\ page = "repair" => repair_running
    /\ investigation_running => "migration" \in cut \/ (pc \in Handler /\ page = "migration")
    /\ repair_running => "repair" \in cut \/ (pc \in Handler /\ page = "repair")

(* Whatever was left half done by clicks and errors, one load or one        *)
(* investigation that is completed sets the session right: it is empty, or  *)
(* plan, reproduction, task and repair are of one upgrade whose regression  *)
(* was confirmed (app.py:405-431, state.py:76).                             *)
SettledSessionAgrees ==
    settled =>
        \/ session = <<NoTask, None, None, None>>
        \/ /\ task # NoTask
           /\ planning_result.task = task
           /\ reproduction_result = [task |-> task, confirmed |-> TRUE]
           /\ repair_result # None => repair_result.task = task

-----------------------------------------------------------------------------
(* What the program says of itself and does not keep.                      *)

(* "rerun-safe live actions" (state.py:1): between two runs of the script   *)
(* no button is disabled.                                                   *)
ActionsAreRerunSafe == pc = "idle" => ~investigation_running /\ ~repair_running

(* "Clear results when a user deliberately loads another task."             *)
(* (state.py:77): there is no result without its task.                      *)
ResultsAreCleared ==
    task = NoTask /\ pc = "idle" =>
        reproduction_result = None /\ planning_result = None /\ repair_result = None

(* "Complete Investigation before repair." (app.py:650): the upgrade that is *)
(* repaired is one whose investigation was completed.                        *)
InvestigationComesFirst == pc = "repair" => planning_result.task = adapter.task

(* "Initialize missing keys without overwriting a live session." (state.py:51): *)
(* the repair of an investigated task works in the directory that was entered   *)
(* for its investigation.                                                       *)
OneStateDirectory ==
    pc = "repair" /\ settled => planning_result.directory = adapter.directory
=============================================================================
