# rusty-butter-knife in TLA+

The program is a Windows command-line tool that removes NVIDIA telemetry and
bloat. It discovers candidate paths, kills the processes that hold them,
stops and deletes services and scheduled tasks, deletes the candidates, and
queues what it cannot delete for the next restart. For rights an administrator
does not have it hands its work to a second process of itself that the task
scheduler starts as TrustedInstaller. This directory holds a model of the parts
of it that can go wrong in ways its unit tests hardly reach, the TLC
configurations that check the model, and proofs of what matters most.

Contents: [Inventory](#inventory), [Modules](#modules),
[RunHandoff](#runhandoff), [UacRelay](#uacrelay), [LogStream](#logstream),
[SelectedRun](#selectedrun), [CleanupRun](#cleanuprun),
[CandidateRemoval](#candidateremoval), [Runs and bounds](#runs-and-bounds), [Fairness](#fairness), [Proofs](#proofs),
[Where code and comments disagree](#where-code-and-comments-disagree),
[Not modelled](#not-modelled), [Plan](#plan).

To check it: `tlc -config <cfg> <module>` for each run of PROJECT.json and `tlapm <Module>_proofs.tla` for each module of proofs.

## Inventory

All paths are below `src/src/`.

| component | state | operations | what has to hold |
|---|---|---|---|
| execute-mode run (`main.rs` wmain_try) | the named mutex, ABORT_REQUESTED, the outcome | argument check, mutex, choice of mode, cleanup or relaunch, exit code | one run at a time; an exit code says what happened; a run ends |
| privileged worker (`tasksched.rs`, `ffi_tasksched.rs`) | the task folder, the worker process, the clock of the wait | sweep, register, Run, State and LastTaskResult, Stop, Delete | no worker outlives its run, two never overlap, success is never guessed |
| removal of a candidate (`deletion.rs`, `fsutil.rs`) | the disk, the failures of a pass, the walk, the restart queue | probes, ownership, two passes, retry, queueing | nothing outside the tree goes, nothing is left unreported, children are queued before parents |
| lock diagnosis (`lockinfo.rs`, `ffi_filelocks.rs`) | budget of look-ups, cache of listings | blame a failure on containers or on others | INFO only for what will be handled |
| cleanup run (`report.rs`) | RunState: actions, candidates, `aborted` | stages in order, post-run check, result lines | an abort is reported as one; the exit code and the rows agree |
| UAC handoff of the wizard (`main.rs`, `ffi.rs`, `ffi_process.rs`) | the named abort event, the elevated child's handle | relaunch, relay of Ctrl+C, wait | an abort reaches the child; the child outlives no promise to stop it |
| process killing (`actions.rs`, `ffi_process.rs`, `procs.rs`) | a snapshot of process ids | snapshot, open and verify, terminate | only a verified process is terminated although ids are reused |
| services and scheduled tasks (`actions.rs`, `ffi_services.rs`) | service state, start type, task list | stop, wait, disable, delete | one step failing does not hide another |
| subprocess capture (`ffi_capture.rs`) | pipe contents, timer, job of descendants | drain, poll, kill | bounded in time; output complete when the process ended |
| discovery (`discovery.rs`, `matching.rs`, `components.rs`) | candidate list | walk, match, exclude, collapse | nothing excluded is listed; collapsing loses nothing |
| logs (`tasksched.rs`, `logging.rs`) | log file, cursor of the streaming parent | append, stream, heartbeat | no line skipped, blocks not interleaved |
| options and menu (`options.rs`, `menu.rs`) | Options | parse, forward to a child | the child has the options the parent settled on |
| utilities (`util.rs`) | none | quoting, wildcards | a quoted argument parses back to itself |
| console, formatting, system facts, Windows bindings | none of interest | output and one-shot queries | - |

How they interact. A user's process runs `wmain_try`. It either does the
cleanup run itself or starts a worker through the scheduler, another process
with the same code and `--ti-child`, and watches it through two scheduler calls
and the log file both write. Within a cleanup run, the removal of each
candidate calls the diagnosis for what it could not delete and asks Windows to
delete it at the restart; the post-run check looks at every candidate again.
All of it shares the disk with other programs, which open, close, create and
delete entries at any time, and the flag a Ctrl+C sets. A bare launch shows the
wizard; what is chosen there goes to an elevated copy of the program and from it to
the worker, each time as a command line, and the launcher that stays behind can
reach them only through a named event.

What is hard: processes that are killed and leave a task, a worker, or half a
tree behind; two calls that are taken for one observation (State and
LastTaskResult, the three probes of a path, symlink_metadata and read_dir);
calls that fail one by one; an abort or a timeout that races with the end of a
worker; an abstract promise (the restart deletes the rest) made before the calls
it depends on. The full list, each at its line, is under "hazards" in
PROJECT.json.

## Modules

| module | role |
|---|---|
| `RunHandoff` | runs, mutex, scheduler session, worker processes |
| `MCRunHandoff` | values for its constants; four configurations `RunHandoff_*.cfg` |
| `RunHandoff_proofs` | theorems about it |
| `UacRelay` | launcher, elevated child, named abort event; `UacRelay_relay.cfg` |
| `UacRelay_proofs` | theorems about it |
| `LogStream` | the worker's log and the parent that streams it |
| `MCLogStream` | three lines, two heartbeats; `LogStream_stream.cfg` |
| `LogStream_proofs` | theorems about it |
| `Options` | what a command line means, and the switches for a child, as operators |
| `Matching` | which component claims a path, what is excluded or pruned, as operators |
| `Discovery` | search roots, walk, collapse of nested candidates; extends `Matching` |
| `SelectedRun` | wizard, elevation, worker, scan; composes `Options` and `Discovery` |
| `MCSelectedRun` | small disks and command lines; `SelectedRun_*.cfg` |
| `SelectedRun_proofs` | theorems about it and about the operators of the three modules it is made of |
| `CleanupState` | options, selection, action rows, abort request: what the stages share |
| `ServiceStage` | `handle_services` and the service control manager |
| `ProcessKill` | `kill_locker_processes`, process objects and their ids |
| `ToolCall` | one call of an external program and its pipe |
| `TaskStage` | `handle_scheduled_tasks`; uses `ToolCall` for schtasks.exe |
| `CleanupRun` | `run_cleanup`; composes the three stages with scan, removal and report |
| `MCCleanupRun` | a small machine and its worlds; `CleanupRun_worlds.cfg` |
| `CleanupRun_proofs` | theorems about the whole run |
| `CandidateTree` | the constant forest of entries the modules below share |
| `TreeDeletion` | abstract specification: what a removal may do to disk and queue |
| `TreeDeletion_proofs` | what the abstract specification implies |
| `CandidateRemoval` | the removal of one candidate, implements `TreeDeletion` |
| `CandidateRemoval_proofs` | its invariants, and that it implements `TreeDeletion` |
| `RemovalReasons_proofs` | that what stays has a failure and a reason, that what is protected is skipped, that what is scheduled goes at the restart |
| `MCCandidateRemoval` | a small forest and its worlds; three configurations `Removal_*.cfg` |

How they fit: `UacRelay` is the launcher around a run of `RunHandoff`, whose worker
it reduces to "running, ended or stopped". `LogStream` is one wait of `RunHandoff` seen
from the log file. A worker's work, one step in `RunHandoff`, is `CleanupRun`; its
scan, one step for each path there, is `Discovery`; its removal of a candidate,
three steps there, is `CandidateRemoval`. `SelectedRun` follows one selection from
the command line to the scan.

A *world* is what a behaviour finds around it: options, what exists, which calls
may fail and who may interfere. It is chosen in the initial state and does not
change, so one configuration covers many surroundings with only the faults of
each, and a property that needs a call to work says so by a condition on the
faults of the world.

In the models a definition with the comment "Faulty" is a wrong version of the
definition after it. It is never used by the specification: it documents the
mistake that the property named in PROJECT.json "mutants" would detect.

## RunHandoff

State and code:

| variable | in the code |
|---|---|
| `pc[r]` | the place of process r in `wmain_try` (main.rs) and `attempt_trusted_installer_relaunch` (tasksched.rs) |
| `mode[r]` | options and token: hand over, clean up in process, or `--no-ti-relaunch` |
| `pauses[r]` | whether `maybe_pause_on_exit` will ask for Enter (main.rs): `--menu` and `--pause`, without `--no-pause` and `--ti-child`, and not after a quit from the menu |
| `outcome[r]`, `exit[r]` | what the function returns, and the process exit code |
| `handles` | open handles of the single-instance mutex (ffi.rs try_acquire_named_mutex): the object exists while one is open |
| `abort[r]` | ABORT_REQUESTED (app.rs) |
| `waited[r]` | turns of the wait loop, for `started.elapsed()` |
| `polled[r]`, `sawRunning[r]` | last State, `saw_running` |
| `todo[r]` | the collection of tasks `sweep_stale_tasks` iterates over |
| `registered`, `worker` | the task folder and the worker processes (the scheduler is external: modelled as its calls are used) |

Each call that another process can see is a step: the mutex, the listing of the
tasks, each task of the sweep, RegisterTaskDefinition, Run, State,
LastTaskResult, Stop, DeleteTask. State and LastTaskResult are two
steps because a worker may start or end between them. `CleanupEnds` stands for a
whole `run_cleanup` in the process; its inside is the other component. A worker
is started by the scheduler some time after Run (`queued`), may run, end or hang.
`Crash` kills a run at any place: its handles close, its task and worker live on.
`wmain_try` releases the mutex when it returns; after that a run with the menu or
`--pause` is at the prompt of `maybe_pause_on_exit` (main.rs:386-401, 429) until
`PressEnter`, a step of the user, and only then has it exited. The elevated child of
the wizard always gets `--pause` (main.rs:356).
Wall-clock times are counted in turns of the loop; `TiWait` and `Grace` are the
option `--ti-wait-seconds` and `start_grace`.

Faults are a constant: each call that may fail is a member of `AllFaults`, so a
theorem can say which calls it needs. Stop or Delete failing is ignored by the
code, so here as well.

Properties. `ExclusiveAdmission` (one run past the mutex, although a refused
run's handle keeps the object alive and a killed holder's disappears),
`SuccessIsTheWorkers` (exit code 0 is the worker's own, over two-call polling and
stops), `ServedWorkersAreLeftAlone` (the sweep never stops a worker someone still
waits for: an action property whose truth depends on the mutex),
`ExitLeavesNoWorker`, `LeftoverTasksAreExplained`, `WorkersNeverOverlap`,
`OneTaskWhileWaiting`, `OneMutator`, and `RunsEnd` (a run ends, or stands at its prompt
with the mutex released). Each says in its comment which calls it needs to work. A run at
its prompt is in handoff_faults and handoff_ends; that it has no worker behind it then is
proved (`ReturnLeavesNoWorker`), since three runs with prompts are too many states.

## UacRelay

| variable | in the code |
|---|---|
| `lpc`, `flag`, `code` | the launcher in `relaunch_elevated_for_wizard` (main.rs), its ABORT_REQUESTED, its exit code |
| `event` | the kernel object behind `create_named_abort_event`: it is gone with its last handle |
| `readable` | whether the account of the child may open it |
| `cpc`, `childFlag`, `ends`, `childCode` | the elevated child in its wait for the worker (tasksched.rs), its own flag, the outcome, its exit code |
| `worker`, `spared` | the worker's process; not in the code: a Stop failed and the worker went on |
| `pauses` | whether the launcher asks for Enter at its end |

`AbortFlag::load` of the child is two steps, its own flag and then the event by its
name (open, look, close), because the launcher may close the event in between. The
prompt may be declined, the event not created, the child killed, the launcher's
console closed. A worker that could not be started leaves the child to end. A Stop
that fails is ignored by `finish_task`: the worker goes on (`spared`, for the
properties) and the child reports as if it had not. At their ends the child always, and the
launcher if `pauses`, wait for Enter; the launcher goes on waiting for its child
meanwhile.

`ReportIsTheChilds` (the launcher stays attached and reports what the child did,
never success of a worker that did not succeed, and an abort while a worker is at work
only if Stop failed), `NoAbortUnasked` (the event
aborts nothing nobody asked for) and `RelayReaches` (Ctrl+C in the first console
ends the worker two processes away, unless the child cannot open the event, Stop fails, or
a process is killed). That an abort leaves no worker without that exception is what a
comment says (tasksched.rs:279-280) and the code does not keep.

## LogStream

| variable | in the code |
|---|---|
| `log` | the file, in units of text: a line is one or more |
| `worker`, `written`, `rest` | the worker, the lines it has begun, what a short write has still to write |
| `pc`, `turn`, `seen`, `ending` | the wait loop of `attempt_trusted_installer_relaunch` |
| `cursor`, `silent` | `log_cursor`, `silence_start` |
| `shown` | what `stream_child_log_lines` has printed |
| `mark`, `drift` | not in the code: where the cursor started, and whether it was moved off its place |

`StreamIsFaithful`: as long as no heartbeat fell behind unread lines and no call failed
the parent has shown a prefix of the worker's records, in order, each once.
`LastWordsAreShown`: when the worker's end was seen its last lines have been shown
before the outcome is announced. `OnlyTheLastIsTorn` and `NothingTornIsShown`: a line
that is still being written waits for its line break, and a cursor off its place
shows no half of a line as a record.

`drift` is where the code falls short (see
[below](#where-code-and-comments-disagree)): the properties say what holds until
then, and `NothingTornIsShown` what holds also after.

## SelectedRun

| variable | in the code |
|---|---|
| `who`, `args` | the process, launcher, elevated or worker, and its command line |
| `opt`, `enabled` | Options (types.rs), the component map |
| `place`, `exit` | the place in `wmain_try` and `interactive_menu`, the exit code |
| `disk`, `dpc`, `roots`, `stack`, `found`, `unread`, `aborted` | `discover_candidates`: the walk as an explicit stack, RunState.candidates |
| `handed`, `confirmed`, `missed` | not in the code: the parent's selection, the one on the screen when EXECUTE was typed, and what the scan left out without a word |

A path is a sequence of names; the order of names in a path's text, its length and
which name continues another one are tables, since the collapse of candidates compares texts. The
catalog is a table as well: which component claims a name. Links have targets, so
canonical paths are computed and two profiles may share a folder. `Texts` is
what the words of a command line are taken from; the switches, the names of the
components and the text of a wait's seconds are among them (`TextsAssumption`).

A scan loses things in two ways. A folder below a root that cannot be listed gives a warning
(`unread`). Silent are: a root whose probe fails, a listing of FileRepository or
Users that fails, an entry that `flatten` drops there or in the walk, and the second
probe of a root (discovery.rs:30-33, 54-55, 76-77, 105-108, 222-227, 316). With the fault
"silent" any subset of the roots is left out and any entry may be (`missed`).

`SelectionSurvives` (defaults, switches, component arguments and toggles reach the
worker over two command lines), `ConfirmedIsWhatRuns`, `ExecuteIsStrict` (against a
reading of the command line that is independent of the parser), `ScanIsWhole`
(what a reference definition of a match says must go is a candidate or inside one,
unless the scan was aborted, or the path, its root or a folder on the way to it was
unreadable or left out in silence, or a link hides it) and
`StaysInRoots` (no link leads the scan out of its roots).

`ScanIsWhole` promises no more than the code does. The scan tells of an unreadable
folder and of an abort, not of what it leaves out in silence; the property says that
nothing else is lost along with that. And a link hides more than itself
(`LinkHidesIt`): its key is the canonical path of its target, so while a link is
listed, any candidate at or below its target may have been dropped by
`seen` or by the collapse, and a link may have been dropped for a candidate above
its target.

## CleanupRun

| variable | in the code |
|---|---|
| `given`, `rows`, `abort`, `cut` | options and surroundings; RunState.actions and warnings; ABORT_REQUESTED; what an abort kept the run from (for the properties) |
| `service`, `spc`, `sTodo`, `sNow` | the service manager's records and the place in `handle_services` |
| `life`, `kpc`, `kTodo`, `targets`, `kAt` | process objects and the place in `kill_locker_processes`; a handle in `targets` keeps its id from being given out again |
| `task`, `tpc`, `tTodo`, `tNow` | the task folder and the place in `handle_scheduled_tasks` |
| `call`, `tool`, `turns`, `pipe`, `output`, `killedFor` | `capture_process`: the program it started, its pipe, the result |
| `stage`, `exit`, `aborted` | the place in `run_cleanup`, the exit code, RunState.aborted |
| `path`, `held`, `scan`, `found`, `todo`, `now`, `last`, `loaded`, `looked`, `queued` | the candidates: which exist, who holds them, which were found, what became of each, the budget of look-ups |
| `lines` | `result_lines` |

Each call to the service manager, to a process, to schtasks.exe and to the disk is a
step. Between any two a service may stop, crash or come back, a process end and another
one start with its id, a tool write or end, a program open or close a candidate, and
Ctrl+C may come. The stages call the shared operators `Log` and `ActionDecision`, and
`run_cleanup` runs them one after the other.

`CompletedIsWhole` (exit code 0 means that no abort kept the run from anything,
although only some stages look at the request), `QuietRunIsClean` (a run that ended
well without a warning or a skip has done everything, in all stages),
`CaptureIsWhole`, `BlameIsGrounded` (a lock is put down to an NVIDIA container only
if one was seen, within the budget, and never as the last word of a completed
run), `ResultIsTrue`, `TouchesAreAllowed` (selection, gate and live image for
everything that is changed) and `RunEnds`.

## CandidateRemoval

State and code:

| variable | in the code |
|---|---|
| `present` | which entries of the tree exist |
| `hold` | what keeps an entry from being deleted: attribute, access list, an NVIDIA container, another program |
| `queue` | Windows' PendingFileRenameOperations |
| `given` | what does not change: the options `execute`, `schedule_locked_for_reboot`, `take_ownership`, and the world |
| `pc` | the place in `delete_candidate` |
| `pass`, `stack`, `failures` | `remove_tree_with_retry`, the active calls of `remove_tree_best_effort`, TreeRemoval::failures |
| `verdict`, `status`, `aborted` | outcome of the DeletePath action, the last action status of the candidate, RunState.aborted |
| `work`, `listed` | the explicit stack of `for_each_postorder` (fsutil.rs), the listing it is in the middle of |
| `row` | the row of `verify_candidate_removal` (report.rs) |

Every call that reads or changes the disk is a step, other programs act between
any two (`Vanish`, `Appear`, `Close`, `Open`), and a Ctrl+C may come at any time
up to the report. The recursion of `remove_tree_best_effort` is an explicit stack
of frames; a frame is the directory, the rest of its listing and the failures
there were at its start. The tree, its kinds and what lies behind its links are
constants of `CandidateTree`: which entries exist is state, what kind of
entry a name is does not change. A world is the candidate of the forest to be removed,
whether it has a protected DriverStore path, what may hold its entries, and which
calls may fail.

`TreeDeletion` says what a removal may do to the disk and the queue: an entry of
the candidate's tree goes, a directory only when empty; nothing is queued after a
directory above it; the restart carries out deletions in order. Its own
properties are `OutsideIsUntouched` and `QueueIsPostorder`. `CandidateRemoval`
implements it (`ImplementsTreeDeletion`) with the world's candidate for `root`
and the identity on `present` and `queue`; steps of other programs are steps of
it too.

The other properties: `ScheduledGoesAtRestart` (a row that promises the restart
is kept by the restart, over what the passes cleared and what the walk queued, in
worlds where probes, listings and MoveFileExW work and nothing new appears: a
candidate whose kind cannot be probed is queued by itself, fsutil.rs:79, and the
restart finds it not empty),
`LeftoversAreExplained` (the bookkeeping of failures that leaves out a directory
whose entry failed never leaves out everything), `NoReasonOnlyIfAborted`,
`ProtectedIsSkipped` (probes fail closed) and `RemovalEnds`.

## Runs and bounds

| run | what it shows | bound |
|---|---|---|
| handoff_faults | admission, success and served workers with every fault at once | two runs, wait of two turns, grace one |
| handoff_killed | orphaned workers, leftover tasks, sweep; what a run leaves behind; one process at work until a run is killed | three runs, hand-over and in-process: one killed, one sweeping, one refused; wait one, grace zero |
| handoff_ends | every run ends or stands at its prompt, with Stop failing and workers hanging | two runs, wait one, grace zero |
| handoff_overlap | what the README says and the code does not keep | two runs, one killed |
| relay | the way of an abort, reports of the launcher, life of the event | one launcher, child and worker, all faults |
| log_stream | lines of three lengths, one in a block, whole or in two writes, against reads and heartbeats | three lines, two heartbeats, five turns, three worlds of faults |
| selected_scans | selections through three processes; scans of disks with nesting, pruning, links, shared profiles, unreadable folders and silent losses | all disks with some of four folders and their files; four disks more; 16 command lines; two wizards |
| selected_kept | what the README says and the code does not keep | a bare launch and one folder |
| cleanup_worlds | every property of a whole run | three services, five processes under two ids, three tasks, four candidates, one look-up, in thirteen worlds |
| removal_worlds | types, refinement of TreeDeletion, and every safety property of the removal | four candidates in six worlds |
| removal_ends | the removal ends while entries come, go and are closed | the nested directory |
| removal_surface | a comment the code does not keep | the nested directory, MoveFileExW failing |

The four candidates are a directory with a file and a subdirectory with a file in
it, a directory with a file and a link to a file elsewhere, a link, and a file.
Their worlds: everything works while other programs close what they hold; calls
fail one by one; entries appear as well; a protected directory with failing
probes; the link and the file with every hold.

Why these are enough. Interactions of runs go through the mutex (one
holder), the task folder (tasks of earlier runs) and the workers. Three runs give
a killed one that leaves a worker, one that sweeps, and one that meets the mutex
held. Two turns with a grace of one give a turn in the grace and one past it,
and a poll between. A tree of two levels has a directory whose entry fails, a
directory that fails for itself, siblings before and after a directory in the
walk, and a parent whose blame depends on a child's; a link at the root and one
below it are different cases in the code and both are there. `MaxListed = 1` has
the listing limit both met and passed. Symmetry over runs is used only for
invariants and for one action property, which treats all runs alike, never for liveness. In `CleanupRun` stages meet only through the rows, the abort and
the exit code, so each stage has worlds of its own with every call failing, and one
world has one of everything. Three process objects under one id give a
snapshot's process, a stranger that takes the id, and a second target that takes it;
one look-up has the budget met and exceeded by two held candidates. In `LogStream` a line
shorter than a heartbeat, one as long and one longer put a cursor that was moved too far
beyond a line, at its end and in it. `SelectedRun` enumerates every disk in which
folders with names that begin alike are nested or beside each other. The constants of the modules are the only bounds;
the proofs are for all values of them.

A property of RunHandoff that needs a call to work is checked with that fault left
out of `Faults`, one of CandidateRemoval has the condition on the world's faults in
its statement, and the comment above it says so in both. For example
`WorkersNeverOverlap` needs Stop and the listing of tasks to work, since the code
ignores when they do not; in UacRelay, where Stop may fail, the exception is `spared` in
the statement; `LeftoversAreExplained` needs that nothing appears,
since a new entry in a directory already gone through is nobody's failure.

## Fairness

`RunsEnd` assumes weak fairness of the steps of each started run and nothing of
its worker or of the scheduler beyond that its synchronous calls return: a thread
is scheduled, and the loop of the wait has no condition to block on (it sleeps in
slices). A worker that hangs and a service that fails every call are included. The one
place where the code blocks on the user is the prompt of `maybe_pause_on_exit`:
nothing is assumed of `PressEnter`, and `RunsEnd` promises of such a run that it
gets to the prompt, the mutex released, not that its process ends.
`RemovalEnds` assumes weak fairness of the removing thread as a whole, one
thread that is never blocked, and none of other programs, so that an entry which
is opened and closed for ever is included. `RunEnds` assumes weak fairness of
`RunStep`, the one thread of a run: its waits are bounded by deadlines (10 s for a
service, the shared window of 3 s for processes, the timeout of a tool), which
the models have as a step that may always be taken or a count of turns. Services that hang,
processes that linger, tools that never end and users that never press anything are
included. `RelayReaches` assumes weak fairness of the launcher and of the child, two
threads that sleep in slices, and nothing of the worker or of the user at either prompt. The trees are finite by their
constant, so a program that creates new names without end is not.

## Proofs

`RunHandoff_proofs` proves, for every set of runs, modes and faults and every
limit:

- `TypeCorrect`: the type invariant. Inductive with `ClockInTurn` (in the middle
  of a turn the clock has not reached the limit), without which the clock could
  leave its range.
- `AdmissionIsExclusive`: by `MutexInv`, "a run past the mutex has a handle open"
  together with exclusion itself. Without the first part a handle count of zero
  would say nothing of the runs past it.
- `SweepLeavesServedWorkersAlone`: no step stops a worker whose run is in its
  wait loop, since a run that stops a task is past the mutex and so is a
  waiting one.
- `SuccessIsReal`: `SuccessInv` carries the outcome `childSucceeded` from the
  poll to the exit code; a worker that ended with success is never changed again.
- `ReturnLeavesNoWorker` (needs Stop to work): `LiveInv`, a live worker's run is
  between Run and the end of finish_task, or killed.
- `OneProcessMutates` (needs Stop to work): as long as no run was killed one
  process is at work, from `LiveInv` and `MutexInv`.
- `OneWorkerAtATime` (needs Stop and the listing of tasks): `SweepInv`, a live
  worker has its task registered, and a run that is past its sweep has no other
  live worker beside it. This is what makes killing runs harmless: an
  orphaned worker is stopped before the next is started.
- `LeftoversHaveAReason` (needs DeleteTask): a task in the folder is that of a run at work
  on it, of a killed one, or of one that could not start it. Inductive by itself.
- `WaitsAlone` (needs DeleteTask and the listing): `FolderInv`, what a sweeping run has
  in the folder is still to visit, and from registration to the end of the wait the
  folder holds the run's own task only. `MutexInv` keeps other runs out of the folder
  meanwhile.

`TreeDeletion_proofs` proves `PromisesKept`: for every forest, whatever order an
implementation deletes and queues in, what lies outside the candidate's tree stays
and is never queued, and no directory is queued before an entry below it. The
inductive invariant `TreeInv` adds the types and that the queue holds entries of
the tree only, so that the restart cannot reach outside it either.

`CandidateRemoval_proofs` proves, for every forest, every set of worlds and every
limit, with every program interfering at every step:

- `TypeCorrect`: the type invariant. It is inductive only with `TypeInv`: active
  calls of `remove_tree_best_effort` are on real directories of the candidate
  (`FramesOf`), the frames and the listing of the walk are entries of the
  candidate (`WorksOf`), and what is going to be listed is no link
  (`ExpandsNoLink`). Without these the listing of a link would bring entries from
  elsewhere into the frames.
- `RemovalKeepsPromises`: the removal implements `TreeDeletion`. The passes need
  `TypeInv` and the emptiness that `remove_dir` asks for. That children are queued
  before parents needs `WalkInv`: nothing in the queue is above what the walk has
  still to visit and nothing to be listed is above what is queued (`QueueBehind`),
  and the stack of the walk is itself in order (`FramesInOrder`: no frame is above
  one under it). The second part is what an emitted frame needs for the first.

Both assume `LinksStayAway`: in a world whose candidate is a link no entry
appears. The walk expands a root that was absent at its probe; a link that came up
at that moment would be listed.

`RemovalReasons_proofs` continues it, with the same generality and without that
assumption (each property speaks of worlds in which nothing appears):

- `LeftoversHaveAFailure`: after a pass every entry left stands at, above or below a
  recorded failure. `PassInv` has three parts: the directories of the active calls lie
  below one another (`FramesNest`), what failed since a call began lies below its
  directory (`BlameBelow`, the ground on which `remove_tree_best_effort` leaves out a
  directory whose entry failed), and every entry that exists has failed or is still to be
  met by an active call (`AllMet`). The last needs `DiskGrown`: what exists lies in
  directories that exist, whatever other programs take away.
- `WhatStaysHasAReason`: the row of a candidate that stays is left without a reason by
  aborted runs only. `ReportInv` follows the candidate to the check: its frame is at the
  bottom of the walk until it is queued or the failure to queue it is recorded. That a
  pass without a failure has left nothing is the theorem before.
- `ProtectedStays`: a protected directory never gets past the second probe, whatever the
  probes answer.
- `ScheduledGoes`: what the row promises the restart is gone after it. `RestartInv`
  is the complement of `WalkInv`: every entry that exists is in the queue or still to be
  visited by the walk (`AllVisited`), the candidate itself comes last
  (`RootIsLast`), no entry is read-only any more when the walk starts
  (`NoneReadOnly`, which the first pass and its retry provide), and the queue names no
  entry after a directory above it. So "scheduled" means that all of the candidate
  is queued, in an order in which the restart finds each directory empty.

The first two and the last rest on a part of `TreeAssumption`: between an entry and a
directory above it there is a child of that directory. It is true of every finite forest
and stated rather than derived from the parents of the entries.

`UacRelay_proofs` proves, for every set of faults, `RelayTypeCorrect` (with the life of
the event: it exists while the launcher waits or the child is looking at it),
`LauncherStaysAttached` and `AbortsAreAsked`. The second needs `CodeInv` (a child whose
code is "ok" has a worker that succeeded, and one whose code is "aborted" has no
running worker unless Stop failed), `EndsInv` and `WorkerInv`, the third `RequestInv`
(the event is set only after a Ctrl+C in the launcher, and a wait ends as aborted only
after a request).

`CleanupRun_proofs` proves all the safety properties of a whole run, for every set of
services, processes, tasks, candidates and components, every world and every
limit: `TypeCorrect`, `NothingIsCutShort`, `CaptureIsComplete`, `BlameHasGround`,
`ResultLinesAreTrue`, `QuietMeansClean` and the action property `TouchesOnlyAllowed`. The
inductive invariant `IInv` has four parts, one for each stage and one for the run:

- No target is lost between a listing and the end of its stage, in a run that has not
  warned of anything: `NoServiceLost`, `NoProcessLost`, `NoTaskLost` and
  `NoCandidateLost` say that a chosen target is still to do, is in hand, or is settled.
  Without them nothing follows at the end from a list that has become empty.
- What is in hand may be touched: `TargetsApproved` (an open handle is that of an
  approved process, whatever its id has been before), `GateInv`, `StageInv`.
- What an abort kept from being done is known: `CutInv`, `ScanInv`.
- A tool that is over was read to its end: `ToolIsOver`; one that reports success has done
  its work: `ToolDoesItsWork`.
- `BlameInv` ties the last word on a candidate to what was seen and to the place of
  the loop.

It assumes the constants' assumptions, and `IdAssumption`: two processes that exist
when a run begins have different ids.

`LogStream_proofs` proves, for any number of lines, of heartbeats and of turns, any
lengths of lines and every set of faults: `StreamTypeCorrect`, `StreamingIsFaithful`,
`TheLastLinesAreShown`, `ShownRecordsAreWhole` and `TornRecordsComeLast`. The
inductive invariant `IInv`:

- `PlaceInv`: as long as nothing moved the cursor off its place, beyond it there is
  nothing but lines of the worker, each begun after the end of the one before, and at
  most the last of them is not all there. It is what makes "read up to the last line
  break" leave nothing out and the skipping of the heartbeat pass over nothing else.
- `ShownInv`: what was shown are the stamped records that begin before the cursor, in the
  order of the file (`LinesAt`, `Begun`). `StreamIsFaithful` follows since the worker
  begins its lines in order.
- `EndInv`: after the end was seen nothing is written, and after the read with flush
  the cursor is at the end of the file.
- `WholeInv`: without short writes the file is made of whole lines, whoever wrote them
  and wherever the cursor is. `NothingTornIsShown` holds by it also after a drift.
- `RestInv`, `TurnInv`: what a short write has left is the end of its line; a turn
  begins before the time is over.

`SelectedRun_proofs` proves, for every catalog, every command line, every disk that is
`WellFormed` and every fault:

- `StrictInExecuteMode`, `SelectionsSurvive`, `ConfirmedRuns`, by `RunInvariant`: `RunInv`
  says what is known of the line the user gave at each place (`Strict`), that a child
  about to start has a line some parent made and that, once read, it has the
  parent's selection (`Child`), and that what the screen showed is what goes on
  (`Confirmed`). Under it lies the round trip of `effective_child_switches` and
  `parse_args`: the parser is unrolled over the child's line (`ParseUnfolds`), each option
  is decided by the last word that turns it on or off, and the line says every word a
  parent's selection needs and none against it, for any set of components.
- `RemovalsStayInRoots` and `TypeCorrect`, by `ScanInvariant`: a folder on the stack was
  reached through real directories only, so each candidate is an entry of a real folder of
  a root, and what goes with it lies below that. `TypeCorrect` uses both invariants.
- `NothingIsLost`, by `WholeInvariant`: a path that is due is a candidate, or its root is
  still to be walked, or an entry on the way to it is on the stack; at the end a
  candidate that is left is at it or above it. What is left out in silence is no longer due,
  so the invariant holds over those steps as well. The last step is about
  the collapse: every canonical path that goes into it lies in one that comes out
  (`CollapseCovers`), in whatever order the lengths of the texts put the paths.

Where data is folded over, the induction is over a set: the set of the places up to
which the statement holds contains 0 and, with a place, the next, and a well-founded order
has no least place outside of it (`CountUp`). A fold is unrolled to a sequence of its
intermediate results once (`IterUnrolls`), and what it computes is proved over that
sequence.

The assumptions are those of the modules: `ComponentsAssumption` (finitely many
components), `TextsAssumption`, `SizeAssumption` (names have a length), `PlacesAssumption` (roots
are paths), `WorldsAssumption` (a command line is a sequence of words; on a disk an
entry is a directory, a file or a link, files hold nothing, and an entry's path goes
through directories only), `StreamAssumption` (a line has a length above zero; heartbeats
have one length and are stamped).

What stays with TLC: liveness (`RunsEnd`, `RemovalEnds`, `RunEnds`,
`RelayReaches`), which rests on fairness. Every safety property of the passing runs has a
theorem. What the parts of `describe_delete_failure` may say,
and the counts of look-ups, are data no property depends on yet.

## Where code and comments disagree

Three are runs that TLC finds violated; "findings" in PROJECT.json quotes the line.

1. The worker of a killed run holds no mutex, so a later in-process run overlaps
   with it (handoff_overlap).
2. A failed MoveFileExW for an entry below a queued directory still gives the
   row "scheduled for deletion at next reboot" (removal_surface).
3. A folder claimed by a deselected component is taken as another component's whose
   pattern fits as well: `NvBackend` in every bare launch (selected_kept).

These were met as well and are not kept as runs.

- `ti_poll_decision` (tasksched.rs:157) reports "never started" for a worker it saw
  running when the calls fail after the grace.
- A worker that starts between State and LastTaskResult makes the loop take a
  running task's status code for an exit code (tasksched.rs:309).
- If Run fails after RegisterTaskDefinition the task is not deleted
  (ffi_tasksched.rs:331), where sysinfo.rs:55 says that it always is; the next run's
  sweep does it.
- A heartbeat appended after lines that were not yet read makes the parent skip as much
  of them as the heartbeat is long and show its own heartbeat as the worker's; if the
  append fails the cursor is beyond the file, which is then shown from its
  beginning; what the worker writes before the cursor is first taken is not shown
  (tasksched.rs:265, 354-358).
- When the launcher's console is closed the event goes with it, and the elevated
  child can only be aborted in its own console.
- A link and its target have one canonical path, so whichever of the two the scan
  meets first is the candidate (discovery.rs:195-205).
- "A junction surface is recorded as its own entry without claiming directory semantics of
  its TARGET" (discovery.rs:191-192), but the collapse takes what lies at or below
  the target, and comes after the junction, for nested in it (discovery.rs:157-165).
- "finish_task() below stops and deletes the task, so an aborted wait leaves no running
  worker" (tasksched.rs:279-280), but the error of Stop is dropped
  (ffi_tasksched.rs:108-111): the worker then goes on, and an abort is reported.
- What the scan cannot probe or list on the way to its roots, and an entry that a listing
  reports an error for, is left out without a warning (see SelectedRun).
- A selected directory goes with all it holds, files a deselected component claims
  included.
- In three places something is left undone without a row: the convergence window
  passes before the last process was looked at (actions.rs:343), schtasks.exe is not
  found (actions.rs:696, 718), a task folder cannot be read (ffi_tasksched.rs:234).
- A candidate directory whose kind cannot be probed when it is to be queued is queued
  alone (fsutil.rs:79); the row says "scheduled" and the restart finds the
  directory not empty. This is why `ScheduledGoesAtRestart` needs that probes work.
- "see the WARNING lines above" (report.rs:599) may follow rows of status SKIP only.
- The verdict "will be deleted at the next restart" is given before anything is
  queued, so an abort in between makes it untrue; a directory that vanishes
  between symlink_metadata and read_dir counts as a failure; a protected
  directory that is absent at the second probe and back at the third is removed
  recursively, which is why `ProtectedIsSkipped` needs that it does not come or go.

## Not modelled

- Within RunHandoff: dry runs and the status file. Process ids in task names are
  unique here; the stale task of an earlier process with the same id is what
  `delete_task_if_exists` before registering is for.
- Within UacRelay: what the child does before its wait for the worker; a child that
  runs the cleanup in its own process.
- Within LogStream: bytes that are not UTF-8, a file that another process truncates,
  the mutex around report blocks (each block is appended by one call), the choice of
  the log's path.
- Within Options, Matching and Discovery: wildcards and the text of names, the
  text of the menu, disks that change during a scan, a canonical path that cannot be
  had (the text of the path is then the key).
- Within CleanupRun: the inside of a removal (CandidateRemoval), the JSON report and
  the layout of the lines, descendants of a tool that keep its pipe open and write
  without end (a drain is one step), probes whose answer changes only the wording.
- Within CandidateRemoval: an entry that changes its kind in place; errors in
  the middle of a directory iteration; takeown following links; long paths.
- Worlds in which a link appears at the candidate's own path (`LinksStayAway`,
  see Proofs).
- String utilities (util.rs): operators on characters with no state; what they
  decide is a table in the modules. Console, formatting and system facts, Windows
  bindings, build files and documents: output, one-shot queries and thin wrappers.

## Plan

Done, in this order: RunHandoff with its theorems (the protocol of several
processes that everything else runs inside), CandidateRemoval with TreeDeletion
(the part that destroys data), CleanupRun with its stages and theorems, UacRelay,
SelectedRun with its scan, LogStream.

Next, most important first:

1. The refinement of `CleanupRun`'s three steps of a removal by `CandidateRemoval`, and of
   `UacRelay`'s worker by `RunHandoff`.
2. A drain of `ToolCall` as steps of its own, against descendants that keep writing.
3. Quoting, wildcards and the parser of the pending-rename value as operators over
   bounded strings.
