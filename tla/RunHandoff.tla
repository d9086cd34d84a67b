----------------------------- MODULE RunHandoff -----------------------------
(***************************************************************************)
(* Execute-mode runs of the program and the one-time scheduled task each   *)
(* of them may hand its work to: wmain_try (main.rs), the wait for the     *)
(* privileged worker (tasksched.rs) and the task-scheduler session it uses *)
(* (ffi_tasksched.rs).                                                     *)
(*                                                                         *)
(* A run is one process a user started with --execute.  It takes the       *)
(* single-instance mutex, then either cleans up itself (--allow-admin-     *)
(* fallback, or already TrustedInstaller) or registers a task, waits for   *)
(* the worker process the task starts, and stops and deletes the task.     *)
(* A run started from the menu or with --pause then waits for Enter.       *)
(* Worker processes take no mutex.  The task service and the kernel mutex  *)
(* are external and are modelled as the calls in src/ use them.            *)
(*                                                                         *)
(* A definition marked "Faulty" is a wrong version of the one after it:    *)
(* with it in place of that one, a property at the end of the module fails. *)
(***************************************************************************)
EXTENDS Naturals, FiniteSets

CONSTANTS
  Runs,     \* the execute-mode processes a user starts
  Modes,    \* the modes of run that occur, a subset of AllModes
  Pauses,   \* whether a run waits for Enter at its end: the cases that occur
  Faults,   \* the external calls that may fail, a subset of AllFaults
  TiWait,   \* opts.ti_wait_seconds, counted in turns of the wait loop
  Grace     \* start_grace, counted in turns of the wait loop

AllModes == {"relaunch", "direct", "norelaunch"}

AllFaults == {"mutex", "connect", "sweep", "register", "run", "poll", "stop",
              "delete", "crash"}

ASSUME RunHandoffAssumption ==
  /\ Modes \subseteq AllModes
  /\ Pauses \subseteq BOOLEAN
  /\ Faults \subseteq AllFaults
  /\ TiWait \in Nat
  /\ Grace \in Nat

VARIABLES
  pc,          \* where each run is in wmain_try
  mode,        \* what its options ask for after the mutex
  pauses,      \* whether its options make it wait for Enter at its end
  outcome,     \* what wmain_try has decided to report
  exit,        \* the exit code of a process that has ended
  handles,     \* runs whose process has a handle of the mutex open
  abort,       \* ABORT_REQUESTED of each run
  waited,      \* turns of the wait loop so far
  polled,      \* what the last State() call of a run returned
  sawRunning,  \* whether any State() call of a run returned Running
  todo,        \* tasks the sweep of a run has still to visit
  registered,  \* runs whose task is in the task folder
  worker       \* the process started by the task of each run

runVars  == <<pc, mode, pauses, outcome, exit, handles, abort>>
waitVars == <<waited, polled, sawRunning>>
taskVars == <<todo, registered, worker>>
vars == <<runVars, waitVars, taskVars>>

-----------------------------------------------------------------------------
(* The exit codes and the decision core.                                   *)

EXIT_OK == 0
EXIT_FATAL_EXCEPTION == 1
EXIT_FATAL_UNKNOWN == 2
EXIT_ABORTED == 3
EXIT_TI_RELAUNCH_FAILED == 10
EXIT_TI_CHILD_FAILED == 11
EXIT_ALREADY_RUNNING == 12
EXIT_BAD_ARGS == 13

NoExit == 99    \* the process has not ended

ExitCodes == {EXIT_OK, EXIT_FATAL_EXCEPTION, EXIT_FATAL_UNKNOWN, EXIT_ABORTED,
              EXIT_TI_RELAUNCH_FAILED, EXIT_TI_CHILD_FAILED,
              EXIT_ALREADY_RUNNING, EXIT_BAD_ARGS}

\* The exit code wmain_try and main give each outcome.
ExitCode ==
  [ none           |-> NoExit,
    badArgs        |-> EXIT_BAD_ARGS,
    refused        |-> EXIT_ALREADY_RUNNING,
    relaunchFailed |-> EXIT_TI_RELAUNCH_FAILED,
    neverStarted   |-> EXIT_TI_RELAUNCH_FAILED,
    timedOut       |-> EXIT_TI_RELAUNCH_FAILED,
    childSucceeded |-> EXIT_OK,
    childFailed    |-> EXIT_TI_CHILD_FAILED,
    aborted        |-> EXIT_ABORTED,
    completed      |-> EXIT_OK,
    fatal          |-> EXIT_FATAL_EXCEPTION,
    panicked       |-> EXIT_FATAL_UNKNOWN ]

Outcomes == DOMAIN ExitCode

\* What the scheduler may answer to State() for a worker in state w.  A
\* started task is not Running at once; a failed call is read as "other".
States(w) ==
  {s \in {"queued", "running"} : s = w}
    \cup (IF w # "running" \/ "poll" \in Faults THEN {"other"} ELSE {})

\* What the scheduler may answer to LastTaskResult.  While an instance runs
\* the service holds the status code SCHED_S_TASK_RUNNING there.
LastTaskResults(w) ==
  {IF w \in {"none", "queued"} THEN "hasNotRun" ELSE w}
    \cup (IF "poll" \in Faults THEN {"unreadable"} ELSE {})

Results == {"hasNotRun", "running", "ok", "failed", "stopped", "unreadable"}

\* ti_poll_decision; its first argument, saw_running_before, is not used.
TiPollDecision(state, last, turns) ==
  IF state \in {"running", "queued"} THEN "keepWaiting"
  ELSE IF last \notin {"hasNotRun", "unreadable"} THEN "finished"
  ELSE IF turns >= Grace THEN "neverStarted" ELSE "keepWaiting"

-----------------------------------------------------------------------------
(* States.                                                                 *)

Waiting == {"wait", "state", "result"}         \* the wait loop
Relaunching == {"connect", "sweep", "run"} \cup Waiting \cup {"stop", "delete"}
Admitted == {"preflight", "cleanup"} \cup Relaunching
Ended == {"exited", "crashed"}
Places == {"start", "returning", "paused"} \cup Admitted \cup Ended

Live == {"queued", "running"}                  \* a worker that may still act
Workers == {"none", "ok", "failed", "stopped"} \cup Live

TypeOK ==
  /\ pc \in [Runs -> Places]
  /\ mode \in [Runs -> Modes]
  /\ pauses \in [Runs -> Pauses]
  /\ outcome \in [Runs -> Outcomes]
  /\ exit \in [Runs -> ExitCodes \cup {NoExit}]
  /\ handles \subseteq Runs
  /\ abort \in [Runs -> BOOLEAN]
  /\ waited \in [Runs -> 0..TiWait]
  /\ polled \in [Runs -> {"running", "queued", "other"}]
  /\ sawRunning \in [Runs -> BOOLEAN]
  /\ todo \in [Runs -> SUBSET Runs]
  /\ registered \subseteq Runs
  /\ worker \in [Runs -> Workers]

Init ==
  /\ pc = [r \in Runs |-> "start"]
  /\ mode \in [Runs -> Modes]
  /\ pauses \in [Runs -> Pauses]
  /\ outcome = [r \in Runs |-> "none"]
  /\ exit = [r \in Runs |-> NoExit]
  /\ handles = {}
  /\ abort = [r \in Runs |-> FALSE]
  /\ waited = [r \in Runs |-> 0]
  /\ polled = [r \in Runs |-> "other"]
  /\ sawRunning = [r \in Runs |-> FALSE]
  /\ todo = [r \in Runs |-> {}]
  /\ registered = {}
  /\ worker = [r \in Runs |-> "none"]

Goto(r, from, to) ==
  /\ pc[r] = from
  /\ pc' = [pc EXCEPT ![r] = to]

\* r moves from its place to another and has decided what to report.
Decide(r, from, to, o) ==
  /\ Goto(r, from, to)
  /\ outcome' = [outcome EXCEPT ![r] = o]
  /\ UNCHANGED <<mode, pauses, exit, handles, abort>>

\* The worker of t after Stop(0), in a world where the call did its work.
StopWorker(t) ==
  [worker EXCEPT ![t] = IF @ \in Live THEN "stopped" ELSE @]

\* task.Stop(0) on the task of t; its error is ignored everywhere.
StopTask(t) ==
  \/ worker' = StopWorker(t)
  \/ "stop" \in Faults /\ UNCHANGED worker

\* DeleteTask on the task of t; its error is ignored everywhere.
DeleteTask(t) ==
  \/ registered' = registered \ {t}
  \/ "delete" \in Faults /\ UNCHANGED registered

-----------------------------------------------------------------------------
(* wmain_try up to the mutex.                                              *)

\* Unknown arguments end an execute-mode run before it touches anything.
BadArgs(r) ==
  /\ Decide(r, "start", "returning", "badArgs")
  /\ UNCHANGED <<waitVars, taskVars>>

\* Faulty: the guard is dropped at once, the handle closed.
HandlesGuardDropped(r) == handles
\* The guard keeps the handle until wmain_try returns.
HandlesAfterAcquire(r) == handles \cup {r}

\* CreateMutexW opens the named object or creates it, so the caller has a
\* handle either way and learns whether the object existed.  It exists as
\* long as any process has a handle of it open.
AcquireMutex(r) ==
  /\ pc[r] = "start"
  /\ handles' = HandlesAfterAcquire(r)
  /\ IF handles = {}
       THEN /\ pc' = [pc EXCEPT ![r] = "preflight"]
            /\ UNCHANGED outcome
       ELSE /\ pc' = [pc EXCEPT ![r] = "returning"]
            /\ outcome' = [outcome EXCEPT ![r] = "refused"]
  /\ UNCHANGED <<mode, pauses, exit, abort, waitVars, taskVars>>

\* No handle at all is refused like a second instance.
MutexUnavailable(r) ==
  /\ "mutex" \in Faults
  /\ Decide(r, "start", "returning", "refused")
  /\ UNCHANGED <<waitVars, taskVars>>

-----------------------------------------------------------------------------
(* The choice after the mutex, and a cleanup in this process.              *)

Preflight(r) ==
  /\ \/ /\ mode[r] = "relaunch"
        /\ Goto(r, "preflight", "connect")
        /\ UNCHANGED outcome
     \/ /\ mode[r] = "direct"
        /\ Goto(r, "preflight", "cleanup")
        /\ UNCHANGED outcome
     \/ /\ mode[r] = "norelaunch"
        /\ Goto(r, "preflight", "returning")
        /\ outcome' = [outcome EXCEPT ![r] = "relaunchFailed"]
  /\ UNCHANGED <<mode, pauses, exit, handles, abort, waitVars, taskVars>>

\* run_cleanup in this process, as a whole.  A stage after the last look at
\* the abort flag lets an aborted run end as completed.
CleanupEnds(r) ==
  /\ \E o \in {"completed", "fatal", "panicked"}
             \cup (IF abort[r] THEN {"aborted"} ELSE {}) :
       Decide(r, "cleanup", "returning", o)
  /\ UNCHANGED <<waitVars, taskVars>>

-----------------------------------------------------------------------------
(* attempt_trusted_installer_relaunch: up to the running task.             *)

\* Not elevated, no COM, no service or no root folder: nothing is registered.
ConnectFails(r) ==
  /\ "connect" \in Faults
  /\ Decide(r, "connect", "returning", "relaunchFailed")
  /\ UNCHANGED <<waitVars, taskVars>>

\* Faulty: leftovers of killed runs are not looked for.
ConnectWithoutSweep(r) ==
  /\ Goto(r, "connect", "sweep")
  /\ UNCHANGED <<mode, pauses, outcome, exit, handles, abort, waitVars, taskVars>>

\* TiSession::connect, and the list of tasks the sweep is going to visit.  A
\* sweep that cannot list the tasks visits none and says nothing.
Connect(r) ==
  /\ Goto(r, "connect", "sweep")
  /\ \/ todo' = [todo EXCEPT ![r] = registered]
     \/ "sweep" \in Faults /\ UNCHANGED todo
  /\ UNCHANGED <<mode, pauses, outcome, exit, handles, abort, waitVars, registered,
                 worker>>

\* Faulty: leftovers are deleted, their workers go on.
SweepWithoutStop(r) ==
  /\ pc[r] = "sweep"
  /\ \E t \in todo[r] :
       /\ todo' = [todo EXCEPT ![r] = @ \ {t}]
       /\ DeleteTask(t)
  /\ UNCHANGED <<runVars, waitVars, worker>>

\* sweep_stale_tasks, one task: stopped, then deleted.
SweepStaleTask(r) ==
  /\ pc[r] = "sweep"
  /\ \E t \in todo[r] :
       /\ todo' = [todo EXCEPT ![r] = @ \ {t}]
       /\ StopTask(t)
       /\ DeleteTask(t)
  /\ UNCHANGED <<runVars, waitVars>>

\* RegisterTaskDefinition.  Task names hold the process id, so
\* delete_task_if_exists finds no task of this name after the sweep.
RegisterTask(r) ==
  /\ todo[r] = {}
  /\ Goto(r, "sweep", "run")
  /\ registered' = registered \cup {r}
  /\ UNCHANGED <<mode, pauses, outcome, exit, handles, abort, waitVars, todo,
                 worker>>

RegisterFails(r) ==
  /\ "register" \in Faults
  /\ todo[r] = {}
  /\ Decide(r, "sweep", "returning", "relaunchFailed")
  /\ UNCHANGED <<waitVars, taskVars>>

\* IRegisteredTask::Run.
RunTask(r) ==
  /\ Goto(r, "run", "wait")
  /\ worker' = [worker EXCEPT ![r] = "queued"]
  /\ UNCHANGED <<mode, pauses, outcome, exit, handles, abort, waitVars, todo,
                 registered>>

\* The error of Run returns at once: the task stays registered.
RunFails(r) ==
  /\ "run" \in Faults
  /\ Decide(r, "run", "returning", "relaunchFailed")
  /\ UNCHANGED <<waitVars, taskVars>>

-----------------------------------------------------------------------------
(* The wait loop.                                                          *)

\* Faulty: the timeout skips finish_task.
WaitTimesOutReturning(r) ==
  /\ waited[r] >= TiWait
  /\ Decide(r, "wait", "returning", "timedOut")
  /\ UNCHANGED <<waitVars, taskVars>>

WaitTimesOut(r) ==
  /\ waited[r] >= TiWait
  /\ Decide(r, "wait", "stop", "timedOut")
  /\ UNCHANGED <<waitVars, taskVars>>

\* Faulty: the abort skips finish_task.
WaitAbortsReturning(r) ==
  /\ waited[r] < TiWait
  /\ abort[r]
  /\ Decide(r, "wait", "returning", "aborted")
  /\ UNCHANGED <<waitVars, taskVars>>

WaitAborts(r) ==
  /\ waited[r] < TiWait
  /\ abort[r]
  /\ Decide(r, "wait", "stop", "aborted")
  /\ UNCHANGED <<waitVars, taskVars>>

\* Faulty: the loop has no time limit.
WaitGoesOnForever(r) ==
  /\ ~abort[r]
  /\ Goto(r, "wait", "state")
  /\ UNCHANGED <<mode, pauses, outcome, exit, handles, abort, waitVars, taskVars>>

WaitGoesOn(r) ==
  /\ waited[r] < TiWait
  /\ ~abort[r]
  /\ Goto(r, "wait", "state")
  /\ UNCHANGED <<mode, pauses, outcome, exit, handles, abort, waitVars, taskVars>>

\* registered.poll_state().
PollState(r) ==
  /\ Goto(r, "state", "result")
  /\ \E s \in States(worker[r]) :
       /\ polled' = [polled EXCEPT ![r] = s]
       /\ sawRunning' = [sawRunning EXCEPT ![r] = @ \/ s = "running"]
  /\ UNCHANGED <<mode, pauses, outcome, exit, handles, abort, waited, taskVars>>

\* Faulty: a worker seen running restarts the clock.
ClockRestartedByRunning(r) == IF polled[r] = "running" THEN 0 ELSE waited[r] + 1
\* The clock of the loop runs from its start, whatever the worker does.  A
\* turn takes time: it ends in a pause.
ClockAfterTurn(r) == waited[r] + 1

\* Faulty: any status but a failure counts as success.
SuccessUnlessFailed(d, last) ==
  IF d = "neverStarted" THEN d
  ELSE IF last # "failed" THEN "childSucceeded" ELSE "childFailed"
\* What a decision to stop waiting makes of the wait.
WaitOutcome(d, last) ==
  IF d = "neverStarted" THEN d
  ELSE IF last = "ok" THEN "childSucceeded" ELSE "childFailed"

\* registered.last_result(), a second call to the service, and the decision.
PollResult(r) ==
  /\ pc[r] = "result"
  /\ \E last \in LastTaskResults(worker[r]) :
       LET d == TiPollDecision(polled[r], last, waited[r])
       IN  \/ /\ d = "keepWaiting"
              /\ Goto(r, "result", "wait")
              /\ waited' = [waited EXCEPT ![r] = ClockAfterTurn(r)]
              /\ UNCHANGED outcome
           \/ /\ d # "keepWaiting"
              /\ Goto(r, "result", "stop")
              /\ outcome' = [outcome EXCEPT ![r] = WaitOutcome(d, last)]
              /\ UNCHANGED waited
  /\ UNCHANGED <<mode, pauses, exit, handles, abort, polled, sawRunning, taskVars>>

\* finish_task: task.stop().
FinishStop(r) ==
  /\ Goto(r, "stop", "delete")
  /\ StopTask(r)
  /\ UNCHANGED <<mode, pauses, outcome, exit, handles, abort, waitVars, todo,
                 registered>>

\* finish_task: delete_task_if_exists stops the task again and deletes it.
FinishDelete(r) ==
  /\ Goto(r, "delete", "returning")
  /\ StopTask(r)
  /\ DeleteTask(r)
  /\ UNCHANGED <<mode, pauses, outcome, exit, handles, abort, waitVars, todo>>

-----------------------------------------------------------------------------
(* The end of a run, the user, and the worker process.                     *)

\* wmain_try returns: the guard of the mutex closes its handle.  The process
\* ends at once, or after the prompt of maybe_pause_on_exit.
Return(r) ==
  /\ Goto(r, "returning", IF pauses[r] THEN "paused" ELSE "exited")
  /\ exit' = IF pauses[r] THEN exit
             ELSE [exit EXCEPT ![r] = ExitCode[outcome[r]]]
  /\ handles' = handles \ {r}
  /\ UNCHANGED <<mode, pauses, outcome, abort, waitVars, taskVars>>

\* read_line of maybe_pause_on_exit comes back, with a line or the end of the
\* input, and the process ends with the exit code of the outcome.
PressEnter(r) ==
  /\ Goto(r, "paused", "exited")
  /\ exit' = [exit EXCEPT ![r] = ExitCode[outcome[r]]]
  /\ UNCHANGED <<mode, pauses, outcome, handles, abort, waitVars, taskVars>>

\* The process is gone without an exit of its own: killed, or its console
\* closed.  The system closes its handles; its task lives on.
Crash(r) ==
  /\ "crash" \in Faults
  /\ pc[r] \notin Ended
  /\ pc' = [pc EXCEPT ![r] = "crashed"]
  /\ handles' = handles \ {r}
  /\ UNCHANGED <<mode, pauses, outcome, exit, abort, waitVars, taskVars>>

\* Ctrl+C in the console of r: console_ctrl_handler stores the flag.
CtrlC(r) ==
  /\ pc[r] \notin Ended
  /\ ~abort[r]
  /\ abort' = [abort EXCEPT ![r] = TRUE]
  /\ UNCHANGED <<pc, mode, pauses, outcome, exit, handles, waitVars, taskVars>>

WorkerStarts(r) ==
  /\ worker[r] = "queued"
  /\ worker' = [worker EXCEPT ![r] = "running"]
  /\ UNCHANGED <<runVars, waitVars, todo, registered>>

\* The worker leaves main with exit code 0, or with another one.
WorkerEnds(r) ==
  /\ worker[r] = "running"
  /\ \E w \in {"ok", "failed"} : worker' = [worker EXCEPT ![r] = w]
  /\ UNCHANGED <<runVars, waitVars, todo, registered>>

-----------------------------------------------------------------------------
(* The specification.                                                      *)

\* The steps of the process of r itself.
RunStep(r) ==
  \/ BadArgs(r) \/ AcquireMutex(r) \/ MutexUnavailable(r)
  \/ Preflight(r) \/ CleanupEnds(r)
  \/ ConnectFails(r) \/ Connect(r) \/ SweepStaleTask(r)
  \/ RegisterTask(r) \/ RegisterFails(r) \/ RunTask(r) \/ RunFails(r)
  \/ WaitTimesOut(r) \/ WaitAborts(r) \/ WaitGoesOn(r)
  \/ PollState(r) \/ PollResult(r)
  \/ FinishStop(r) \/ FinishDelete(r) \/ Return(r)

WorkerStep(r) == WorkerStarts(r) \/ WorkerEnds(r)

\* Every run has ended and no worker is left.
AllEnded ==
  /\ \A r \in Runs : pc[r] \in Ended /\ worker[r] \notin Live
  /\ UNCHANGED vars

Next ==
  \/ \E r \in Runs : RunStep(r) \/ Crash(r) \/ CtrlC(r) \/ PressEnter(r)
                     \/ WorkerStep(r)
  \/ AllEnded

Spec == Init /\ [][Next]_vars

\* A process that has started is scheduled until it ends, and so are the
\* synchronous calls it makes.  Nothing is assumed of the worker, and nothing
\* of the user: nobody has to press Enter, so PressEnter has no fairness.
Fairness == \A r \in Runs : WF_vars(pc[r] # "start" /\ RunStep(r))

LiveSpec == Spec /\ Fairness

-----------------------------------------------------------------------------
(* Properties.                                                             *)

\* The single-instance mutex of main.rs lets at most one run at a time past
\* it, whatever fails and whoever is killed: neither a refused run's handle
\* nor a killed holder's may admit a second one.
ExclusiveAdmission ==
  \A r, s \in Runs : pc[r] \in Admitted /\ pc[s] \in Admitted => r = s

\* Exit code 0 of a run that hands its work over is the worker's own success
\* and no status code, unreadable result or stopped worker passes for it.
SuccessIsTheWorkers ==
  \A r \in Runs :
    mode[r] = "relaunch" /\ exit[r] = EXIT_OK => worker[r] = "ok"

\* The sweep of leftovers and the end of a wait stop only a worker its own
\* run no longer waits for: never the worker of a run that is still waiting.
ServedWorkersAreLeftAlone ==
  [][\A s \in Runs : worker[s] \in Live /\ worker'[s] = "stopped"
                      => pc[s] \notin Waiting]_vars

\* A run that returns has no worker left behind, on any path through the
\* wait: success, failure, abort, timeout or a worker that never started.
\* It has none while it waits for Enter either.  Needs: Stop works.
ExitLeavesNoWorker ==
  \A r \in Runs : pc[r] \in {"paused", "exited"} => worker[r] \notin Live

\* A task that is still in the task folder belongs to a run that is at work
\* on it, was killed, or could not start it.  Needs: DeleteTask works.
LeftoverTasksAreExplained ==
  \A r \in registered :
    \/ pc[r] \in Relaunching \cup {"crashed"}
    \/ pc[r] \in {"returning", "paused", "exited"} /\ outcome[r] = "relaunchFailed"

\* Two workers never work at the same time, although a worker outlives the
\* killed run it belongs to and takes no mutex: a later run sweeps first.
\* Needs: listing the tasks and Stop work.
WorkersNeverOverlap ==
  \A r, s \in Runs : worker[r] \in Live /\ worker[s] \in Live => r = s

\* While a run waits, the task folder holds no other task of the program.
\* Needs: listing the tasks and DeleteTask work.
OneTaskWhileWaiting ==
  \A r \in Runs : pc[r] \in Waiting => registered = {r}

\* As long as no run was killed, at most one process changes the machine at a
\* time, runs and workers taken together.  Needs: Stop works.
OneMutator ==
  (\A r \in Runs : pc[r] # "crashed") =>
  /\ WorkersNeverOverlap
  /\ \A r, s \in Runs : ~(pc[r] = "cleanup" /\ worker[s] \in Live)
  /\ \A r, s \in Runs : pc[r] = "cleanup" /\ pc[s] = "cleanup" => r = s

\* Every run that starts ends, also when its worker hangs, never starts or
\* cannot be observed.  One whose options make it wait for Enter may stay at
\* that prompt for ever, but it gets there and has let go of the mutex, so that
\* nobody is refused on its account.
RunsEnd ==
  \A r \in Runs :
    pc[r] # "start"
      ~> \/ pc[r] \in Ended
         \/ pauses[r] /\ pc[r] = "paused" /\ r \notin handles

-----------------------------------------------------------------------------
(* What the README says and the code does not keep.                        *)

\* README.md, Safety notes: "Destructive runs hold a single-instance mutex;
\* overlapping execute-mode runs are refused with exit code 12."
OverlapIsRefused ==
  \A r, s \in Runs : pc[r] = "cleanup" => worker[s] \notin Live
=============================================================================
