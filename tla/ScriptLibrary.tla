--------------------------- MODULE ScriptLibrary ---------------------------
(***************************************************************************)
(* Tasks and the scripts they run (task_service.py, script_service.py).    *)
(* A script is meant to be a task's own: a task that is created from, or   *)
(* changed to, a script that others use gets a clone, and an edit made     *)
(* from a task clones a script that is shared.  Each request looks first   *)
(* and writes later, in sessions that see what is committed.               *)
(*                                                                         *)
(* A script's content is the number of the write that made it.  Its hash,  *)
(* size and version, and the task's version records, are left out.         *)
(***************************************************************************)
EXTENDS Integers, FiniteSets

CONSTANTS
    ScriptTasks,    \* tasks that exist or may be created
    Scripts,        \* scripts that exist or may be created
    Users,          \* requests that may be at work at the same time
    MaxWrites       \* bounds the edits

\* Rows of two tables; the first script is there from the beginning.
ASSUME LibraryAssumption ==
    /\ IsFiniteSet(ScriptTasks) /\ MaxWrites \in Nat
    /\ Scripts # {} /\ {"none", "gone"} \cap Scripts = {}

VARIABLES
    uses,       \* per task: its script, "none" before it exists, "gone" afterwards
    content,    \* per script: 0 if it does not exist, else the write that made it
    edits,      \* writes made
    doing       \* per user: the request

scriptVars == <<uses, content, edits, doing>>

Live == {t \in ScriptTasks : uses[t] \in Scripts}
Stored == {s \in Scripts : content[s] > 0}
Unused == Scripts \ Stored
UsersOf(s) == {t \in ScriptTasks : uses[t] = s}

Nobody == [step |-> "idle", task |-> "none", script |-> "none", joined |-> FALSE]
Doing(step, t, s) == [step |-> step, task |-> t, script |-> s, joined |-> FALSE]
At(u, step) == doing[u].step = step
-----------------------------------------------------------------------------
(* create_task, copy_task, update_task: _clone_script_for_task *)

\* What follows the count of the tasks that have the script.
CloneOrShare(s) == IF UsersOf(s) = {} THEN "insert" ELSE "clone"

Begin(u, step, t, s) ==
    /\ doing' = [doing EXCEPT ![u] = Doing(step, t, s)]
    /\ UNCHANGED <<uses, content, edits>>
CreateLooks(u, t, s) ==
    At(u, "idle") /\ uses[t] = "none" /\ s \in Stored /\ Begin(u, CloneOrShare(s), t, s)
CopyLooks(u, t, from) ==
    At(u, "idle") /\ uses[t] = "none" /\ from \in Live /\ Begin(u, CloneOrShare(uses[from]), t, uses[from])
UpdateLooks(u, t, s) ==
    At(u, "idle") /\ t \in Live /\ s \in Stored \ {uses[t]} /\ Begin(u, CloneOrShare(s), t, s)

\* The copy is stored and its row committed before the task's row is.
Clone(u) ==
    /\ At(u, "clone") /\ Unused # {}
    /\ LET c == CHOOSE c \in Unused : TRUE
       IN /\ content' = [content EXCEPT ![c] = content[doing[u].script]]
          /\ doing' = [doing EXCEPT ![u] = Doing("insert", @.task, c)]
    /\ UNCHANGED <<uses, edits>>

\* The task's row; an update finds no row if the task has been deleted.
TaskWritten(u) ==
    /\ At(u, "insert")
    /\ uses' = IF uses[doing[u].task] # "gone" THEN [uses EXCEPT ![doing[u].task] = doing[u].script] ELSE uses
    /\ doing' = [v \in Users |->
          IF v = u THEN Nobody
          ELSE [doing[v] EXCEPT !.joined = @ \/ doing[v].script = doing[u].script]]
    /\ UNCHANGED <<content, edits>>
-----------------------------------------------------------------------------
(* update_script_content *)

\* Mutant: a script counts as shared from three tasks on.
EditStepLate(t, s) ==
    IF uses[t] = s /\ Cardinality(UsersOf(s)) > 2 THEN "private" ELSE "write"
\* _ensure_task_private_script: the task's own script is cloned if others have it; a script
\* that is not (any longer) the task's is written as it is.
EditStep(t, s) ==
    IF uses[t] = s /\ Cardinality(UsersOf(s)) > 1 THEN "private" ELSE "write"

\* t is the task whose page is open, s the script that the page had loaded.
EditLooks(u, t, s) ==
    At(u, "idle") /\ t \in Live /\ s \in Stored /\ Begin(u, EditStep(t, s), t, s)

MakePrivate(u) ==
    /\ At(u, "private") /\ Unused # {}
    /\ LET c == CHOOSE c \in Unused : TRUE
       IN /\ content' = [content EXCEPT ![c] = content[doing[u].script]]
          /\ uses' = [uses EXCEPT ![doing[u].task] = IF @ = "gone" THEN @ ELSE c]
          /\ doing' = [doing EXCEPT ![u] = Doing("write", @.task, c)]
    /\ UNCHANGED edits

WriteContent(u) ==
    /\ At(u, "write") /\ edits < MaxWrites /\ edits' = edits + 1
    /\ content' = [content EXCEPT ![doing[u].script] = edits + 2]
    /\ doing' = [doing EXCEPT ![u] = Nobody]
    /\ UNCHANGED uses

DeleteTaskRow(t) ==
    /\ t \in Live /\ uses' = [uses EXCEPT ![t] = "gone"]
    /\ UNCHANGED <<content, edits, doing>>
-----------------------------------------------------------------------------
\* The database may hold tasks that share a script, from before scripts were cloned.
ScriptInit ==
    /\ content = [s \in Scripts |-> IF s = CHOOSE x \in Scripts : TRUE THEN 1 ELSE 0]
    /\ uses \in [ScriptTasks -> Stored \cup {"none"}]
    /\ edits = 0 /\ doing = [u \in Users |-> Nobody]

ScriptNext ==
    \/ \E u \in Users :
          \/ Clone(u) \/ TaskWritten(u) \/ MakePrivate(u) \/ WriteContent(u)
          \/ \E t \in ScriptTasks :
                \/ \E from \in ScriptTasks : CopyLooks(u, t, from)
                \/ \E s \in Scripts :
                      CreateLooks(u, t, s) \/ UpdateLooks(u, t, s) \/ EditLooks(u, t, s)
    \/ \E t \in ScriptTasks : DeleteTaskRow(t)
ScriptSpec == ScriptInit /\ [][ScriptNext]_scriptVars
-----------------------------------------------------------------------------
(* Properties *)

ScriptTypeOK ==
    /\ \A t \in ScriptTasks : uses[t] \in Stored \cup {"none", "gone"}
    /\ content \in [Scripts -> 0..MaxWrites + 1] /\ edits \in 0..MaxWrites
    /\ \A u \in Users : doing[u].step \in {"idle", "insert", "clone", "private", "write"}

\* An edit made from a task's page does not change what another task runs, as long as the
\* page shows the task's script and no task takes the script up between the look and the
\* write.
EditStaysPrivate ==
    [][\A u \in Users :
          LET t == doing[u].task
              s == doing[u].script
          IN At(u, "write") /\ doing'[u] = Nobody /\ uses[t] = s /\ ~doing[u].joined =>
                \A v \in Live \ {t} : content'[uses[v]] = content[uses[v]]]_scriptVars
=============================================================================
