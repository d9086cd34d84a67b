---------------------------- MODULE CleanupState ----------------------------
(***************************************************************************)
(* What the stages of a cleanup run share (app.rs, logging.rs,             *)
(* matching.rs): the options and the component selection, the action rows  *)
(* and warnings it records, and the abort request.                         *)
(*                                                                         *)
(* A world is what a run finds around it: its options, the components that *)
(* are selected, the targets that exist and the calls that may fail or the *)
(* interference there may be.  A behaviour starts in one of Worlds.        *)
(***************************************************************************)
CONSTANTS
  Targets,      \* names: of services, tasks, candidates and executables
  Anchored,     \* those with a strong NVIDIA anchor
  Processes,    \* process objects, see ProcessKill
  Components,   \* the catalog of components.rs
  Owner,        \* the component a target belongs to, or "none"
  AllOptions,   \* the options a world may set
  Worlds        \* records [options, enabled, present, faults]

VARIABLES
  given,        \* the world of this run, which does not change
  rows,         \* RunState.actions and the warnings of log_line
  abort,        \* ABORT_REQUESTED
  cut           \* what an abort kept the run from doing (for the properties)

runVars == <<given, rows, abort, cut>>

AllFaults ==
  {"scm", "open", "control", "query", "config", "remove", "hang", "restart",
   "crash", "snapshot", "process", "verify", "terminate", "linger", "reuse",
   "enumerate", "schtasks", "capture", "disk", "queue", "close", "holders",
   "log", "abort"}

Statuses == {"INFO", "WARN", "SKIP", "DRYRUN"}

ASSUME CleanupAssumption ==
  /\ Anchored \subseteq Targets
  /\ Owner \in [Targets -> Components \cup {"none"}]
  /\ "none" \notin Targets
  /\ Worlds \subseteq [options : SUBSET AllOptions, enabled : SUBSET Components,
                       present : SUBSET (Targets \cup Processes),
                       faults : SUBSET AllFaults]

Kinds == {"Service", "StopService", "DisableService", "DeleteService",
          "KillProcess", "ScheduledTask", "DisableTask", "DeleteTask",
          "DeletePath", "ScheduleDelete", "log"}

RowType == [kind : Kinds, target : Targets \cup {"none"}, status : Statuses]

RunTypeOK ==
  /\ given \in Worlds
  /\ rows \subseteq RowType
  /\ abort \in BOOLEAN
  /\ cut \subseteq Targets \cup {"discovery"}

RunInit ==
  /\ given \in Worlds
  /\ rows = {}
  /\ abort = FALSE
  /\ cut = {}

Option(o) == o \in given.options
Fault(f) == f \in given.faults
Execute == Option("execute")

\* ActionDecision::resolve: an unowned target is never changed, one of a
\* component that is not selected is only reported.
ActionDecision(t) ==
  IF Owner[t] = "none" THEN "NotMatched"
  ELSE IF Owner[t] \in given.enabled THEN "Allowed" ELSE "ComponentDisabled"

Row(kind, target, status) == [kind |-> kind, target |-> target, status |-> status]
Log(kind, target, status) == rows' = rows \cup {Row(kind, target, status)}
Warn == Log("log", "none", "WARN")
Warned(kind, target) == Row(kind, target, "WARN") \in rows

\* Of a target that would be changed if the options say so.
Chosen(t) == Execute /\ t \in Anchored /\ ActionDecision(t) = "Allowed"

\* logging::problems_logged() > 0; ERROR lines are among the warnings here.
Problems == \E r \in rows : r.status = "WARN"
=============================================================================
