------------------------------ MODULE CleanupRun ------------------------------
(***************************************************************************)
(* run_cleanup (report.rs): the stages of one run in their order, from the *)
(* probe of the audit log to the exit code.  The stages for services,      *)
(* processes and tasks are modules of their own; the removal of one        *)
(* candidate, which CandidateRemoval has in full, is what the rest of the  *)
(* run sees of it: three steps (delete, blame, queue) on one entry.  An    *)
(* abort may be requested between any two steps.                           *)
(***************************************************************************)
EXTENDS ServiceStage, ProcessKill, TaskStage, FiniteSets, Integers

CONSTANTS
  Candidates,   \* paths in the search roots
  Protected,    \* unsafe_recursive_directory_target
  MaxLookups    \* MAX_LOCK_QUERIES_PER_RUN

VARIABLES
  stage,        \* the place in run_cleanup
  exit,         \* exit code of wmain_try, or -1
  aborted,      \* RunState.aborted
  path,         \* does the candidate exist
  held,         \* by whom it is kept from being deleted
  scan,         \* paths the walk has still to visit
  found,        \* RunState.candidates
  todo,         \* candidates the loop has still to remove
  now,          \* the candidate being removed
  last,         \* last DeletePath/ScheduleDelete status of each candidate
  loaded,       \* RunState.container_loaded_modules
  looked,       \* candidates a lock look-up was spent on (lock_queries)
  queued,       \* RunState.reboot_scheduled_paths
  lines         \* the closing result lines

candidateVars ==
  <<aborted, path, held, scan, found, todo, now, last, loaded, looked, queued, lines>>
stageVars == <<serviceVars, processVars, taskVars>>
vars == <<runVars, stageVars, stage, exit, candidateVars>>

ASSUME RunAssumption ==
  /\ Candidates \subseteq Targets
  /\ Protected \subseteq Candidates
  /\ MaxLookups \in Nat

Stages == {"log", "gate", "services", "processes", "tasks", "inspect",
           "scan", "remove", "blame", "queue", "reinspect", "report", "exited"}

CandidateTypeOK ==
  /\ stage \in Stages
  /\ exit \in {-1, 0, 1, 3}
  /\ aborted \in BOOLEAN
  /\ path \in [Candidates -> BOOLEAN]
  /\ held \in [Candidates -> {"free", "container", "other"}]
  /\ scan \subseteq Candidates /\ found \subseteq Candidates /\ todo \subseteq found
  /\ now \in Candidates \cup {"none"}
  /\ last \in [Candidates -> {"none", "SKIP", "DRYRUN", "deleted", "deferred",
                              "WARN", "scheduled"}]
  /\ loaded \subseteq Candidates /\ looked \subseteq Candidates /\ queued \subseteq Candidates
  /\ lines \subseteq {"stoppedEarly", "clean", "dryRun", "removedAll", "removedSome",
                      "restart", "failed"}

TypeOK ==
  RunTypeOK /\ ServiceTypeOK /\ ProcessTypeOK /\ TaskTypeOK /\ CandidateTypeOK

Init ==
  /\ RunInit /\ ServiceInit /\ ProcessInit /\ TaskInit
  /\ stage = "log"
  /\ exit = -1
  /\ aborted = FALSE
  /\ path = [c \in Candidates |-> c \in given.present]
  /\ held \in [Candidates -> {"free", "container", "other"}]
  /\ \A c \in Candidates : held[c] # "free" => path[c] /\ Fault("holders")
  /\ scan = {} /\ found = {} /\ todo = {}
  /\ now = "none"
  /\ last = [c \in Candidates |-> "none"]
  /\ loaded = {} /\ looked = {} /\ queued = {}
  /\ lines = {}

(***************************************************************************)
(* Before the first change.                                                *)
(***************************************************************************)
ProbeLog ==
  /\ stage = "log"
  /\ \/ stage' = "gate" /\ exit' = exit
     \/ Fault("log") /\ stage' = "exited" /\ exit' = 1
  /\ UNCHANGED <<runVars, stageVars, candidateVars>>

\* Destructive execution requires TrustedInstaller, the worker or a waiver.
MayExecute == ~Execute \/ Option("tiChild") \/ Option("trusted") \/ Option("fallback")

Gate ==
  /\ stage = "gate"
  /\ IF MayExecute THEN stage' = "services" /\ exit' = exit
                   ELSE stage' = "exited" /\ exit' = 1
  /\ UNCHANGED <<runVars, stageVars, candidateVars>>

(***************************************************************************)
(* The stages of the other modules.                                        *)
(***************************************************************************)
Services_ ==
  /\ stage = "services"
  /\ ServiceStep
  /\ stage' = IF spc' = "done" THEN "processes" ELSE stage
  /\ UNCHANGED <<processVars, taskVars, exit, candidateVars>>

Processes_ ==
  /\ stage = "processes"
  /\ KillStep
  /\ stage' = IF kpc' = "done" THEN "tasks" ELSE stage
  /\ UNCHANGED <<serviceVars, taskVars, exit, candidateVars>>

Tasks_ ==
  /\ stage = "tasks"
  /\ TaskStep
  /\ stage' = IF tpc' = "done" THEN "inspect" ELSE stage
  /\ UNCHANGED <<serviceVars, processVars, exit, candidateVars>>

\* inspect_nv_container_modules: what the containers have loaded is kept for
\* the whole run.
Inspect ==
  /\ stage \in {"inspect", "reinspect"}
  /\ \/ /\ loaded' = loaded \cup {c \in Candidates : path[c] /\ held[c] = "container"}
        /\ rows' = rows
     \/ /\ Fault("snapshot")
        /\ loaded' = loaded
        /\ Warn
  /\ IF stage = "inspect"
     THEN stage' = "scan" /\ scan' = {c \in Candidates : path[c]}
     ELSE stage' = "report" /\ scan' = scan
  /\ UNCHANGED <<given, abort, cut, stageVars, exit, aborted, path, held, found, todo,
                 now, last, looked, queued, lines>>

(***************************************************************************)
(* Discovery: every path of the search roots, an abort looked at for each. *)
(***************************************************************************)
Visit(c) ==
  /\ stage = "scan"
  /\ c \in scan
  /\ ~abort
  /\ scan' = scan \ {c}
  /\ found' = IF ActionDecision(c) = "Allowed" /\ path[c] THEN found \cup {c} ELSE found
  /\ UNCHANGED <<runVars, stageVars, stage, exit, aborted, path, held, todo, now, last,
                 loaded, looked, queued, lines>>

ScanAborts ==
  /\ stage = "scan"
  /\ scan # {}
  /\ abort
  /\ scan' = {}
  /\ aborted' = TRUE
  /\ cut' = cut \cup {"discovery"}
  /\ Warn
  /\ UNCHANGED <<given, abort, stageVars, stage, exit, path, held, found, todo, now, last,
                 loaded, looked, queued, lines>>

\* Faulty: would remove whatever the search roots hold.
ScannedEverything ==
  /\ stage = "scan"
  /\ scan = {}
  /\ todo' = {c \in Candidates : path[c]}
  /\ stage' = "remove"
  /\ UNCHANGED <<runVars, stageVars, exit, aborted, path, held, scan, found, now, last,
                 loaded, looked, queued, lines>>

Scanned ==
  /\ stage = "scan"
  /\ scan = {}
  /\ todo' = found
  /\ stage' = "remove"
  /\ UNCHANGED <<runVars, stageVars, exit, aborted, path, held, scan, found, now, last,
                 loaded, looked, queued, lines>>

(***************************************************************************)
(* The removal of the candidates, one after the other.                     *)
(***************************************************************************)
\* Faulty: would leave the loop on an abort without a note of it.
RemovalStopsQuietly ==
  /\ stage = "remove"
  /\ todo # {}
  /\ abort
  /\ cut' = cut \cup todo
  /\ todo' = {}
  /\ UNCHANGED <<given, rows, abort, aborted, stageVars, stage, exit, path, held, scan,
                 found, now, last, loaded, looked, queued, lines>>

RemovalAborts ==
  /\ stage = "remove"
  /\ todo # {}
  /\ abort
  /\ aborted' = TRUE
  /\ cut' = cut \cup todo
  /\ todo' = {}
  /\ UNCHANGED <<given, rows, abort, stageVars, stage, exit, path, held, scan, found, now,
                 last, loaded, looked, queued, lines>>

Passed(c, status) ==
  /\ Log("DeletePath", c, status)
  /\ last' = [last EXCEPT ![c] = status]
  /\ UNCHANGED <<path, now, stage>>

\* delete_candidate up to the outcome of the deletion.
Remove(c) ==
  /\ stage = "remove"
  /\ c \in todo
  /\ ~abort
  /\ todo' = todo \ {c}
  /\ \/ /\ ~path[c] \/ c \in Protected
        /\ Passed(c, "SKIP")
     \/ /\ path[c] /\ c \notin Protected /\ ~Execute
        /\ Passed(c, "DRYRUN")
     \/ /\ path[c] /\ c \notin Protected /\ Execute
        /\ held[c] = "free"
        /\ path' = [path EXCEPT ![c] = FALSE]
        /\ Log("DeletePath", c, "INFO")
        /\ last' = [last EXCEPT ![c] = "deleted"]
        /\ UNCHANGED <<now, stage>>
     \/ /\ path[c] /\ c \notin Protected /\ Execute
        /\ held[c] # "free" \/ Fault("disk")
        /\ now' = c
        /\ stage' = "blame"
        /\ UNCHANGED <<path, rows, last>>
  /\ UNCHANGED <<given, abort, cut, stageVars, exit, aborted, held, scan, found, loaded,
                 looked, queued, lines>>

\* Faulty: would spend one look-up more than there are.
WithinBudgetPlusOne == Cardinality(looked) <= MaxLookups

WithinBudget == Cardinality(looked) < MaxLookups

\* analyze_entry, failure_level: a container is blamed because it was seen
\* to have the entry loaded, or by a look-up while there is budget; every
\* doubt makes it a warning.
Blame ==
  /\ stage = "blame"
  /\ LET seen == now \in loaded
         asked == ~seen /\ WithinBudget /\ held[now] # "free"
         level(l) == /\ Log("DeletePath", now, IF l = "deferred" THEN "INFO" ELSE "WARN")
                     /\ last' = [last EXCEPT ![now] = l]
     IN /\ looked' = IF asked THEN looked \cup {now} ELSE looked
        /\ \/ /\ Option("schedule")
              /\ seen \/ (asked /\ held[now] = "container")
              /\ level("deferred")
           \/ /\ \/ ~Option("schedule") \/ Fault("disk")
                 \/ ~seen /\ ~(asked /\ held[now] = "container")
              /\ level("WARN")
  /\ stage' = IF Option("schedule") THEN "queue" ELSE "remove"
  /\ UNCHANGED <<given, abort, cut, stageVars, exit, aborted, path, held, scan, found, todo,
                 now, loaded, queued, lines>>

\* schedule_delete_tree and schedule_delete_one.
Queue ==
  /\ stage = "queue"
  /\ \/ /\ abort
        /\ aborted' = TRUE
        /\ cut' = cut \cup {now}
        /\ UNCHANGED <<rows, last, queued>>
     \/ /\ ~abort
        /\ queued' = queued \cup {now}
        /\ Log("ScheduleDelete", now, "INFO")
        /\ last' = [last EXCEPT ![now] = "scheduled"]
        /\ UNCHANGED <<aborted, cut>>
     \/ /\ ~abort /\ Fault("queue")
        /\ Log("ScheduleDelete", now, "WARN")
        /\ last' = [last EXCEPT ![now] = "WARN"]
        /\ UNCHANGED <<aborted, cut, queued>>
  /\ stage' = "remove"
  /\ UNCHANGED <<given, abort, stageVars, exit, path, held, scan, found, todo, now, loaded,
                 looked, lines>>

Removed ==
  /\ stage = "remove"
  /\ todo = {}
  /\ stage' = IF Execute /\ found # {} THEN "reinspect" ELSE "report"
  /\ UNCHANGED <<runVars, stageVars, exit, candidateVars>>

(***************************************************************************)
(* The end: what still exists, what the user is told, the exit code.       *)
(***************************************************************************)
\* Faulty: would take a candidate for gone that was not warned of.
RemainingByStatus == {c \in found : last[c] \in {"WARN", "deferred", "scheduled"}}

Remaining == {c \in found : path[c]}
PendingReboot == {c \in Remaining : c \in queued /\ last[c] \notin {"WARN", "SKIP"}}

ResultLines ==
  (IF aborted THEN {"stoppedEarly"} ELSE {}) \cup
  (IF found = {} THEN {"clean"}
   ELSE IF ~Execute THEN {"dryRun"}
   ELSE {IF Remaining = {} THEN "removedAll" ELSE "removedSome"} \cup
        (IF queued # {} THEN {"restart"} ELSE {}) \cup
        (IF Remaining # PendingReboot THEN {"failed"} ELSE {}))

Report ==
  /\ stage = "report"
  /\ lines' = ResultLines
  /\ exit' = IF aborted THEN 3 ELSE 0
  /\ stage' = "exited"
  /\ UNCHANGED <<runVars, stageVars, aborted, path, held, scan, found, todo, now, last,
                 loaded, looked, queued>>

RunStep ==
  \/ ProbeLog \/ Gate \/ Services_ \/ Processes_ \/ Tasks_ \/ Inspect
  \/ \E c \in Candidates : Visit(c) \/ Remove(c)
  \/ ScanAborts \/ Scanned \/ RemovalAborts \/ Blame \/ Queue \/ Removed \/ Report

(***************************************************************************)
(* The user and the other programs.                                        *)
(***************************************************************************)
CtrlC ==
  /\ Fault("abort")
  /\ ~abort /\ stage # "exited"
  /\ abort' = TRUE
  /\ UNCHANGED <<given, rows, cut, stageVars, stage, exit, candidateVars>>

\* A program opens or closes a candidate, or a container loads it.
HolderChanges(c) ==
  /\ Fault("holders")
  /\ path[c] /\ stage # "exited"
  /\ \E h \in {"free", "container", "other"} \ {held[c]} :
       held' = [held EXCEPT ![c] = h]
  /\ UNCHANGED <<runVars, stageVars, stage, exit, aborted, path, scan, found, todo, now,
                 last, loaded, looked, queued, lines>>

Environment ==
  \/ CtrlC
  \/ \E c \in Candidates : HolderChanges(c)
  \/ ServicesGoOn /\ UNCHANGED <<processVars, taskVars, stage, exit, candidateVars>>
  \/ ToolGoesOn /\ UNCHANGED <<serviceVars, processVars, stage, exit, candidateVars>>
  \/ ProcessesGoOn /\ UNCHANGED <<serviceVars, taskVars, stage, exit, candidateVars>>

Next == RunStep \/ Environment

Spec == Init /\ [][Next]_vars
LiveSpec == Spec /\ WF_vars(RunStep)

(***************************************************************************)
(* Properties.                                                             *)
(***************************************************************************)
\* A run changes a service, terminates a process, changes a task or deletes
\* or queues a path only if it executes, was let through the gate, and the
\* target belongs to a selected component; a process in addition only if its
\* live image is an approved one, however ids were reused since the snapshot
\* (README "Safety": a deselected component prevents all of its actions).
Allowed(t) == Execute /\ MayExecute /\ ActionDecision(t) = "Allowed"

TouchesAreAllowed ==
  [][/\ \A s \in Services :
          \/ service'[s].start # service[s].start
          \/ service'[s].registered # service[s].registered
          \/ service'[s].status = "stopping" /\ service[s].status # "stopping"
          => Allowed(s) /\ s \in Anchored
     /\ \A p \in Processes :
          life'[p] = "exiting" /\ life[p] # "exiting" => MayExecute /\ Approved(p)
     /\ \A t \in Tasks : task'[t] # task[t] => Allowed(t) /\ t \in Anchored
     /\ \A c \in Candidates :
          path'[c] # path[c] \/ (c \in queued' \ queued) => Allowed(c) /\ c \notin Protected
    ]_vars

\* A run that ends with exit code 0 was not cut short: whatever an abort kept
\* it from doing shows in the exit code, although the abort is looked at
\* only in some of the stages (README "Exit codes": 3, partial results).
\* Needs a search root, since without one nothing looks after the tasks.
CompletedIsWhole ==
  exit = 0 /\ (\E c \in Candidates : c \in given.present) => cut = {}

\* A run that executed, ended with exit code 0 and neither warned nor skipped
\* anything has done its work: over all stages and every call that failed in
\* one of them, each thing of a selected component is stopped, disabled,
\* deleted or queued as the options say.  Needs that nothing comes back
\* behind it, that the COM listing of tasks is complete and that schtasks.exe
\* can be located, since the code says nothing when it is not.
Undisturbed == given.faults \cap {"restart", "reuse", "enumerate", "schtasks"} = {}
Skipped == \E r \in rows : r.status = "SKIP" /\ ActionDecision(r.target) = "Allowed"

QuietRunIsClean ==
  exit = 0 /\ Execute /\ Undisturbed /\ ~Problems /\ ~Skipped =>
    /\ \A s \in Services \cap given.present : Chosen(s) => ServiceSettled(s)
    /\ Option("kill") =>
         \A p \in Processes \cap given.present : Approved(p) => ProcessSettled(p)
    /\ TaskOption => \A t \in Tasks \cap given.present : Chosen(t) => TaskSettled(t)
    /\ \A c \in Candidates \cap given.present :
         Allowed(c) => ~path[c] \/ c \in queued

\* A call of a tool that is over was read to its end: all that it wrote is
\* in the output, however its writing, its exit and the turns of the wait
\* fell together, so exit code 0 of a listing means the whole list.
CaptureIsWhole ==
  call = "result" =>
    /\ pipe = {} /\ ~ToolAlive
    /\ tpc = "querying" /\ tool = "ok" => output = Registered

\* "In use - will be deleted at the next restart" is never the last word on a
\* candidate of a completed run, and is said only of an entry a container was
\* seen to have; look-ups stay within the budget all candidates share.
BlameIsGrounded ==
  /\ Cardinality(looked) <= MaxLookups
  /\ \A c \in Candidates : last[c] = "deferred" => c \in looked \cup loaded
  /\ exit = 0 => \A c \in Candidates : last[c] # "deferred"

\* The closing lines tell the truth: "already clean" from a run that was not
\* cut short only when no selected path existed, and "removed all" only when
\* each one that was found is gone, not merely dealt with.
ResultIsTrue ==
  exit \in {0, 3} =>
    /\ "clean" \in lines /\ exit = 0 =>
         \A c \in Candidates \cap given.present : ActionDecision(c) # "Allowed"
    /\ "removedAll" \in lines => \A c \in found : ~path[c]

\* Every run ends: its waits are bounded although services hang, processes
\* linger and other programs never stop.
RunEnds == <>(stage = "exited")
=============================================================================
