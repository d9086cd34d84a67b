------------------------------ MODULE TaskStage ------------------------------
(***************************************************************************)
(* handle_scheduled_tasks (actions.rs): the tasks are listed through the   *)
(* scheduler's COM interface, or by schtasks.exe if that gives none, and   *)
(* deleted or disabled by one schtasks.exe each, which is a ToolCall.      *)
(***************************************************************************)
EXTENDS ToolCall

CONSTANT Tasks

VARIABLES
  task,     \* of each scheduled task: as it is in the task folder
  tpc,      \* the place in handle_scheduled_tasks
  tTodo,    \* tasks of the listing not yet looked at
  tNow      \* the task schtasks.exe is called for

taskVars == <<task, tpc, tTodo, tNow, toolVars>>

ASSUME TaskAssumption == Tasks \subseteq Targets

TaskTypeOK ==
  /\ task \in [Tasks -> {"ready", "disabled", "gone"}]
  /\ tpc \in {"start", "query", "querying", "next", "changing", "done"}
  /\ tTodo \subseteq Tasks
  /\ tNow \in Tasks \cup {"none"}
  /\ tpc = "changing" => tNow \in Tasks
  /\ call # "idle" => tpc \in {"querying", "changing"}
  /\ ToolTypeOK

TaskInit ==
  /\ task = [t \in Tasks |-> IF t \in given.present THEN "ready" ELSE "gone"]
  /\ tpc = "start"
  /\ tTodo = {}
  /\ tNow = "none"
  /\ ToolInit

Registered == {t \in Tasks : task[t] # "gone"}
TaskOption == Option("disableTasks") \/ Option("deleteTasks")

SkipTasks ==
  /\ tpc = "start"
  /\ ~TaskOption
  /\ tpc' = "done"
  /\ UNCHANGED <<task, tTodo, tNow, toolVars, runVars>>

\* No task and no session are the same to the caller, and a folder that
\* cannot be listed is left out.
EnumerateTasks ==
  /\ tpc = "start"
  /\ TaskOption
  /\ \/ Registered # {} /\ tTodo' = Registered /\ tpc' = "next"
     \/ /\ Fault("enumerate")
        /\ tTodo' \in SUBSET Registered \ {{}, Registered}
        /\ tpc' = "next"
     \/ /\ Registered = {} \/ Fault("enumerate")
        /\ tTodo' = {}
        /\ tpc' = "query"
  /\ UNCHANGED <<task, tNow, toolVars, runVars>>

\* schtasks /Query.
QueryTasks ==
  /\ tpc = "query"
  /\ \/ /\ ~Fault("schtasks")
        /\ StartTool
        /\ tpc' = "querying"
        /\ rows' = rows
     \/ /\ Fault("schtasks")
        /\ Warn
        /\ tpc' = "done"
        /\ UNCHANGED toolVars
  /\ UNCHANGED <<task, tTodo, tNow, given, abort, cut>>

\* Its output counts only with exit code 0.
TasksQueried ==
  /\ tpc = "querying"
  /\ call = "result"
  /\ call' = "idle"
  /\ IF tool = "ok"
     THEN /\ tTodo' = output
          /\ tpc' = "next"
          /\ rows' = rows \cup KilledNote
          /\ cut' = cut
     ELSE /\ Warn
          /\ tpc' = "done"
          /\ tTodo' = tTodo
          /\ cut' = IF killedFor = "abort" THEN cut \cup Registered ELSE cut
  /\ UNCHANGED <<task, tNow, tool, turns, pipe, output, killedFor, given, abort>>

LeaveTaskAlone(t) ==
  /\ tpc = "next"
  /\ t \in tTodo
  /\ tTodo' = tTodo \ {t}
  /\ \/ /\ t \notin Anchored \/ ActionDecision(t) = "NotMatched"
        /\ rows' = rows
     \/ /\ t \in Anchored
        /\ ActionDecision(t) = "ComponentDisabled"
        /\ Log("ScheduledTask", t, "SKIP")
  /\ UNCHANGED <<task, tpc, tNow, toolVars, given, abort, cut>>

\* Deleting comes before disabling when both are asked for.
TaskKind == IF Option("deleteTasks") THEN "DeleteTask" ELSE "DisableTask"
TaskGoal == IF Option("deleteTasks") THEN "gone" ELSE "disabled"

DryRunTask(t) ==
  /\ tpc = "next"
  /\ t \in tTodo
  /\ t \in Anchored /\ ActionDecision(t) = "Allowed" /\ ~Execute
  /\ tTodo' = tTodo \ {t}
  /\ Log(TaskKind, t, "DRYRUN")
  /\ UNCHANGED <<task, tpc, tNow, toolVars, given, abort, cut>>

\* Without a path to schtasks.exe nothing is done and nothing is said.
ChangeTask(t) ==
  /\ tpc = "next"
  /\ t \in tTodo
  /\ Chosen(t)
  /\ tTodo' = tTodo \ {t}
  /\ IF Fault("schtasks")
     THEN UNCHANGED <<tpc, tNow, toolVars>>
     ELSE StartTool /\ tpc' = "changing" /\ tNow' = t
  /\ UNCHANGED <<task, runVars>>

\* Exit code 0 means it did its work; one that was killed or failed may have
\* done it.
TaskChanged ==
  /\ tpc = "changing"
  /\ call = "result"
  /\ call' = "idle"
  /\ rows' = rows \cup {Row(TaskKind, tNow, IF tool = "ok" THEN "INFO" ELSE "WARN")}
                 \cup KilledNote
  /\ cut' = IF tool # "ok" /\ killedFor = "abort" THEN cut \cup {tNow} ELSE cut
  /\ tpc' = "next"
  /\ UNCHANGED <<task, tTodo, tNow, tool, turns, pipe, output, killedFor, given, abort>>

TasksDone ==
  /\ tpc = "next"
  /\ tTodo = {}
  /\ tpc' = "done"
  /\ UNCHANGED <<task, tTodo, tNow, toolVars, runVars>>

TaskStep ==
  \/ SkipTasks \/ EnumerateTasks \/ QueryTasks \/ TasksQueried \/ TaskChanged \/ TasksDone
  \/ \E t \in tTodo : LeaveTaskAlone(t) \/ DryRunTask(t) \/ ChangeTask(t)
  \/ ToolStep /\ UNCHANGED <<task, tpc, tTodo, tNow>>

(***************************************************************************)
(* schtasks.exe: it lists the tasks one by one, or changes one.            *)
(***************************************************************************)
SchtasksLists ==
  /\ tpc = "querying"
  /\ \/ \E t \in Registered : ToolWrites(t)
     \/ Registered \subseteq pipe \cup output /\ ToolBecomes("running", "ok")
  /\ task' = task

SchtasksChanges ==
  /\ tpc = "changing"
  /\ \/ ToolBecomes("running", "worked") /\ task' = [task EXCEPT ![tNow] = TaskGoal]
     \/ ToolBecomes("worked", "ok") /\ task' = task

ToolGoesOn ==
  /\ SchtasksLists \/ SchtasksChanges \/ (ToolFails /\ task' = task)
  /\ UNCHANGED <<tpc, tTodo, tNow, runVars>>

TaskSettled(t) == task[t] \in {TaskGoal, "gone"} \/ Warned(TaskKind, t)
=============================================================================
