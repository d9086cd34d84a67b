------------------------------- MODULE UacRelay -------------------------------
(***************************************************************************)
(* The UAC handoff of the wizard (main.rs, app.rs, ffi.rs, ffi_process.rs).*)
(* A launcher without rights starts the program again through the UAC      *)
(* prompt and waits for it; that child hands the work to the scheduled     *)
(* worker, which RunHandoff has in full.  Ctrl+C reaches the worker        *)
(* through both: the launcher signals a named event, the child looks the   *)
(* event up by its name in every turn of its own wait.  The event is gone  *)
(* with the last handle on it.  Both processes may end in a console window *)
(* that waits for Enter: the child always, the launcher as it was called.  *)
(***************************************************************************)
CONSTANT Faults   \* what may go wrong, a subset of AllFaults

AllFaults ==
  {"create", "decline", "handle", "deny", "start", "stop", "crash", "close"}

ASSUME FaultsAssumption == Faults \subseteq AllFaults

VARIABLES
  lpc,        \* the place of the launcher
  pauses,     \* whether it waits for Enter at its end
  flag,       \* its ABORT_REQUESTED
  code,       \* the exit code it has or is going to have
  event,      \* the named abort event
  readable,   \* whether the child's account may open the event
  cpc,        \* the place of the elevated child
  childFlag,  \* its own ABORT_REQUESTED
  ends,       \* how its wait for the worker ended
  childCode,  \* the exit code it has or is going to have
  worker,
  spared      \* not in the code: a Stop failed and the worker went on

launcherVars == <<lpc, pauses, flag, code>>
childVars == <<cpc, childFlag, ends, childCode, worker, spared>>
vars == <<launcherVars, event, readable, childVars>>

Codes == {"none", "ok", "aborted", "failed", "killed"}

TypeOK ==
  /\ lpc \in {"start", "prompt", "waiting", "alone", "enter", "exited", "killed"}
  /\ pauses \in BOOLEAN /\ spared \in BOOLEAN
  /\ flag \in BOOLEAN /\ childFlag \in BOOLEAN /\ readable \in BOOLEAN
  /\ code \in Codes /\ childCode \in Codes
  /\ event \in {"none", "clear", "set"}
  /\ cpc \in {"none", "starting", "waiting", "looking", "turn", "stopping", "enter",
              "exited"}
  /\ ends \in {"none", "ok", "aborted", "failed"}
  /\ worker \in {"none", "running", "ok", "failed", "stopped"}
  /\ lpc \in {"prompt", "waiting"} \/ cpc = "looking" <=> event # "none"

Init ==
  /\ lpc = "start"
  /\ pauses \in BOOLEAN
  /\ flag = FALSE
  /\ code = "none"
  /\ event = "none"
  /\ readable \in BOOLEAN
  /\ readable \/ "deny" \in Faults
  /\ cpc = "none"
  /\ childFlag = FALSE
  /\ ends = "none"
  /\ childCode = "none"
  /\ worker = "none"
  /\ spared = FALSE

\* The launcher closes its handle; a child that looks at the event holds one.
EventAfterClose == IF cpc = "looking" THEN event ELSE "none"

(***************************************************************************)
(* The launcher.                                                           *)
(***************************************************************************)
\* Faulty: would pass the initial state where "manual reset" belongs.
PrepareSignaled ==
  /\ lpc = "start"
  /\ lpc' = "prompt" /\ event' = "set"
  /\ UNCHANGED <<pauses, flag, code, readable, childVars>>

PrepareRelay ==
  /\ lpc = "start"
  /\ \/ lpc' = "prompt" /\ event' = "clear"
     \/ "create" \in Faults /\ lpc' = "alone" /\ event' = event
  /\ UNCHANGED <<pauses, flag, code, readable, childVars>>

\* The user accepts the prompt.
ChildStarted ==
  /\ lpc = "prompt"
  /\ lpc' = "waiting"
  /\ cpc' = "starting"
  /\ UNCHANGED <<pauses, flag, code, event, readable, childFlag, ends, childCode, worker,
                 spared>>

\* Faulty: would keep the event when there is nobody to relay to.
LeaveEventBehind ==
  /\ lpc = "prompt"
  /\ lpc' = "alone"
  /\ "decline" \in Faults
  /\ UNCHANGED <<pauses, flag, code, event, readable, childVars>>

\* Declined, or a child was started to which ShellExecuteEx gives no handle:
\* the launcher goes on alone, without the event.
NoHandoff ==
  /\ lpc = "prompt"
  /\ lpc' = "alone"
  /\ event' = "none"
  /\ \/ "decline" \in Faults /\ cpc' = cpc
     \/ "handle" \in Faults /\ cpc' = "starting"
  /\ UNCHANGED <<pauses, flag, code, readable, childFlag, ends, childCode, worker, spared>>

\* Faulty: would give the child up once the request was passed on.
AbandonOnAbort ==
  /\ lpc = "waiting"
  /\ cpc # "exited"
  /\ IF flag
     THEN lpc' = "exited" /\ code' = "aborted" /\ event' = EventAfterClose
     ELSE UNCHANGED <<lpc, code, event>>
  /\ UNCHANGED <<pauses, flag, readable, childVars>>

\* Faulty: would leave the request to the child's own console.
WatchChildOnly ==
  /\ lpc = "waiting"
  /\ cpc # "exited"
  /\ UNCHANGED vars

\* A turn of wait_exit_code_aborting: the callback signals the event and
\* never gives the child up.
RelayTurn ==
  /\ lpc = "waiting"
  /\ cpc # "exited"
  /\ event' = IF flag THEN "set" ELSE event
  /\ UNCHANGED <<launcherVars, readable, childVars>>

\* The child has exited: the event is closed, and the launcher goes on to its
\* own prompt or ends.
LauncherReturns ==
  /\ lpc = "waiting"
  /\ cpc = "exited"
  /\ lpc' = IF pauses THEN "enter" ELSE "exited"
  /\ code' = childCode
  /\ event' = EventAfterClose
  /\ UNCHANGED <<pauses, flag, readable, childVars>>

LauncherStep == PrepareRelay \/ RelayTurn \/ LauncherReturns

(***************************************************************************)
(* The elevated child: attempt_trusted_installer_relaunch, whose abort     *)
(* check opens the event, reads it and closes it.                          *)
(***************************************************************************)
ChildBegins ==
  /\ cpc = "starting"
  /\ \/ cpc' = "waiting" /\ worker' = "running" /\ childCode' = childCode
     \/ /\ "start" \in Faults
        /\ cpc' = "enter" /\ childCode' = "failed" /\ worker' = worker
  /\ UNCHANGED <<launcherVars, event, readable, childFlag, ends, spared>>

\* AbortFlag::load: the flag first, then the event if there is one to open.
Observe ==
  /\ cpc = "waiting"
  /\ IF childFlag THEN cpc' = "stopping" /\ ends' = "aborted"
     ELSE /\ cpc' = IF event # "none" /\ readable THEN "looking" ELSE "turn"
          /\ ends' = ends
  /\ UNCHANGED <<launcherVars, event, readable, childFlag, childCode, worker, spared>>

ReadEvent ==
  /\ cpc = "looking"
  /\ IF event = "set" THEN cpc' = "stopping" /\ ends' = "aborted"
                      ELSE cpc' = "turn" /\ ends' = ends
  /\ event' = IF lpc \in {"prompt", "waiting"} THEN event ELSE "none"
  /\ UNCHANGED <<launcherVars, readable, childFlag, childCode, worker, spared>>

\* The rest of a turn: the worker has ended, the wait has lasted long enough,
\* or it goes on.
WaitTurn ==
  /\ cpc = "turn"
  /\ \/ worker = "running" /\ cpc' = "waiting" /\ ends' = ends
     \/ worker # "running" /\ cpc' = "stopping" /\ ends' = worker
     \/ worker = "running" /\ cpc' = "stopping" /\ ends' = "failed"
  /\ UNCHANGED <<launcherVars, event, readable, childFlag, childCode, worker, spared>>

\* finish_task, then the exit code of wmain_try and the prompt.  The worker is
\* stopped, if it still runs, or Stop(0) fails: nobody looks at its error, and
\* the task is deleted without its worker.
FinishTask ==
  /\ cpc = "stopping"
  /\ \/ /\ worker' = IF worker = "running" THEN "stopped" ELSE worker
        /\ spared' = spared
     \/ /\ "stop" \in Faults /\ worker = "running"
        /\ worker' = worker
        /\ spared' = TRUE
  /\ cpc' = "enter"
  /\ childCode' = ends
  /\ UNCHANGED <<launcherVars, event, readable, childFlag, ends>>

ChildStep == ChildBegins \/ Observe \/ ReadEvent \/ WaitTurn \/ FinishTask

(***************************************************************************)
(* The worker, the user and the system.                                    *)
(***************************************************************************)
WorkerEnds ==
  /\ worker = "running"
  /\ worker' \in {"ok", "failed"}
  /\ UNCHANGED <<launcherVars, event, readable, cpc, childFlag, ends, childCode, spared>>

CtrlC ==
  /\ \/ lpc \notin {"exited", "killed"} /\ flag' = TRUE /\ childFlag' = childFlag
     \/ cpc \notin {"none", "exited"} /\ childFlag' = TRUE /\ flag' = flag
  /\ UNCHANGED <<lpc, pauses, code, event, readable, cpc, ends, childCode, worker, spared>>

\* Enter in one of the two windows, or the end of its input.
PressEnter ==
  /\ \/ lpc = "enter" /\ lpc' = "exited" /\ cpc' = cpc
     \/ cpc = "enter" /\ cpc' = "exited" /\ lpc' = lpc
  /\ UNCHANGED <<pauses, flag, code, event, readable, childFlag, ends, childCode, worker,
                 spared>>

\* A console is closed: the handler stores the request, then the system ends
\* the process, at once or some turns later.
CloseLauncher ==
  /\ "close" \in Faults
  /\ lpc \in {"prompt", "waiting", "enter"} /\ flag
  /\ lpc' = "killed"
  /\ code' = "killed"
  /\ event' = EventAfterClose
  /\ UNCHANGED <<pauses, flag, readable, childVars>>

ChildKilled ==
  /\ "crash" \in Faults
  /\ cpc \notin {"none", "exited"}
  /\ cpc' = "exited"
  /\ childCode' = "killed"
  /\ event' = IF lpc \in {"prompt", "waiting"} THEN event ELSE "none"
  /\ UNCHANGED <<launcherVars, readable, childFlag, ends, worker, spared>>

Next ==
  \/ LauncherStep \/ ChildStarted \/ NoHandoff \/ ChildStep
  \/ WorkerEnds \/ CtrlC \/ PressEnter \/ CloseLauncher \/ ChildKilled

Spec == Init /\ [][Next]_vars

\* Both processes are scheduled; nothing is assumed of the worker, or of the
\* user at any of the prompts.
LiveSpec == Spec /\ WF_vars(LauncherStep) /\ WF_vars(ChildStep)

-----------------------------------------------------------------------------
(* Properties.                                                             *)

\* The launcher stays attached until the elevated process has exited and ends
\* with that process's code.  That code says "ok" only when the worker itself
\* succeeded, and "aborted" only when no worker is at work any more, two
\* processes away (README, Safety notes), except for a worker that went on
\* because Stop failed: finish_task ignores that, and the code is "aborted".
ReportIsTheChilds ==
  lpc \in {"enter", "exited"} =>
    /\ cpc = "exited" /\ code = childCode
    /\ code = "ok" => worker = "ok"
    /\ code = "aborted" => worker # "running" \/ spared

\* The event aborts nothing by itself: a child that ends as aborted was asked
\* to by one of the two consoles, whatever event it found under that name and
\* whenever it looked.
NoAbortUnasked == childCode = "aborted" => flag \/ childFlag

\* Ctrl+C in the launcher ends the worker, however long that would have gone
\* on: through the event, the child's wait and the task, unless one of the two
\* processes is killed before, the child may not open the event, or the child
\* stops the task and the call fails.  It takes no Enter in either window.
RelayReaches ==
  flag /\ lpc = "waiting" /\ readable /\ worker = "running"
    ~> worker # "running" \/ spared \/ code = "killed" \/ childCode = "killed"
===============================================================================
