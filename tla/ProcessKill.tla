----------------------------- MODULE ProcessKill -----------------------------
(***************************************************************************)
(* kill_locker_processes (actions.rs): processes are found by name in a    *)
(* snapshot, opened by their process id, verified through the handle,      *)
(* terminated through it and waited for.  Between the snapshot and the     *)
(* opening a process may quit and another one get its id.  A process is an *)
(* object here, with an id and an image that never change; an id belongs   *)
(* to one object at a time and stays taken while a handle is open.         *)
(***************************************************************************)
EXTENDS CleanupState, Sequences, Naturals

CONSTANTS
  Pid,          \* the id of a process object
  Image,        \* the full path of its image
  Images,
  Leaf,         \* the file name of an image, an executable name in Targets
  NvidiaOwned,  \* images under NVIDIA's own installation directories
  Killable      \* KNOWN_KILLABLE_PROCESS_NAMES

VARIABLES
  life,         \* of each process object
  kpc,          \* the place in kill_locker_processes
  kTodo,        \* entries of the snapshot not yet looked at
  targets,      \* verified handles, in the order they were opened
  kAt           \* position of the loops over targets

processVars == <<life, kpc, kTodo, targets, kAt>>

ASSUME ProcessAssumption ==
  /\ Image \in [Processes -> Images]
  /\ Leaf \in [Images -> Targets]
  /\ NvidiaOwned \subseteq Images
  /\ Killable \subseteq Targets

\* The system gives an id to one process at a time.
ASSUME IdAssumption ==
  \A w \in Worlds : \A p, q \in Processes \cap w.present : Pid[p] = Pid[q] => p = q

Pids == {Pid[p] : p \in Processes}
Alive(p) == life[p] \in {"running", "exiting"}
NameOf(p) == Leaf[Image[p]]

ProcessTypeOK ==
  /\ life \in [Processes -> {"unborn", "running", "exiting", "exited"}]
  /\ kpc \in {"start", "next", "terminate", "converge", "done"}
  /\ kTodo \subseteq [pid : Pids, exe : Targets]
  /\ targets \in Seq([process : Processes, exe : Targets])
  /\ kAt \in Nat

ProcessInit ==
  /\ life = [p \in Processes |-> IF p \in given.present THEN "running" ELSE "unborn"]
  /\ kpc = "start"
  /\ kTodo = {}
  /\ targets = <<>>
  /\ kAt = 0

SkipKill ==
  /\ kpc = "start"
  /\ ~Option("kill")
  /\ kpc' = "done"
  /\ UNCHANGED <<life, kTodo, targets, kAt, runVars>>

SnapshotFails ==
  /\ kpc = "start"
  /\ Option("kill")
  /\ Fault("snapshot")
  /\ Warn
  /\ kpc' = "done"
  /\ UNCHANGED <<life, kTodo, targets, kAt, given, abort, cut>>

Snapshot ==
  /\ kpc = "start"
  /\ Option("kill")
  /\ kTodo' = {[pid |-> Pid[p], exe |-> NameOf(p)] : p \in {q \in Processes : Alive(q)}}
  /\ kpc' = "next"
  /\ UNCHANGED <<life, targets, kAt, runVars>>

LeaveProcessAlone(e) ==
  /\ kpc = "next"
  /\ e \in kTodo
  /\ kTodo' = kTodo \ {e}
  /\ \/ /\ e.exe \notin Killable \/ ActionDecision(e.exe) = "NotMatched"
        /\ rows' = rows
     \/ /\ e.exe \in Killable
        /\ ActionDecision(e.exe) = "ComponentDisabled"
        /\ Log("KillProcess", e.exe, "SKIP")
  /\ UNCHANGED <<life, kpc, targets, kAt, given, abort, cut>>

\* What the name alone decides.
NamedTarget(exe) == exe \in Killable /\ ActionDecision(exe) = "Allowed"

\* Faulty: the name in the snapshot would stand for the process behind the id.
TrustSnapshot(p, exe) == exe \in Killable

\* process_image_is_nvidia_owned: the image seen through the handle.
ImageVerified(p, exe) == NameOf(p) = exe /\ Image[p] \in NvidiaOwned

\* open_and_verify: the handle fixes the process object, whatever the id
\* names later.  The process may be gone or be somebody else by now.
OpenAndVerify(e) ==
  /\ kpc = "next"
  /\ e \in kTodo
  /\ NamedTarget(e.exe)
  /\ kTodo' = kTodo \ {e}
  /\ \/ \E p \in Processes :
          /\ Alive(p) /\ Pid[p] = e.pid
          /\ ImageVerified(p, e.exe)
          /\ IF Execute
             THEN /\ targets' = Append(targets, [process |-> p, exe |-> e.exe])
                  /\ rows' = rows
             ELSE Log("KillProcess", e.exe, "DRYRUN") /\ targets' = targets
     \/ /\ \/ \A p \in Processes :
                Alive(p) /\ Pid[p] = e.pid => ~ImageVerified(p, e.exe)
           \/ Fault("process")
        /\ Log("KillProcess", e.exe, "SKIP")
        /\ targets' = targets
  /\ UNCHANGED <<life, kpc, kAt, given, abort, cut>>

AllOpened ==
  /\ kpc = "next"
  /\ kTodo = {}
  /\ IF Execute THEN kpc' = "terminate" /\ kAt' = 1 ELSE kpc' = "done" /\ kAt' = kAt
  /\ UNCHANGED <<life, kTodo, targets, runVars>>

\* TerminateProcess fails for a process that ended already.
Terminate ==
  /\ kpc = "terminate"
  /\ kAt <= Len(targets)
  /\ \/ /\ life[targets[kAt].process] = "running"
        /\ life' = [life EXCEPT ![targets[kAt].process] = "exiting"]
        /\ Log("KillProcess", targets[kAt].exe, "INFO")
     \/ /\ life[targets[kAt].process] # "running" \/ Fault("terminate")
        /\ Log("KillProcess", targets[kAt].exe, "WARN")
        /\ life' = life
  /\ kAt' = kAt + 1
  /\ UNCHANGED <<kpc, kTodo, targets, given, abort, cut>>

AllTerminated ==
  /\ kpc = "terminate"
  /\ kAt > Len(targets)
  /\ kpc' = "converge"
  /\ kAt' = 1
  /\ UNCHANGED <<life, kTodo, targets, runVars>>

\* Faulty: would wait for every target to be gone.
ConvergeFully ==
  /\ kpc = "converge"
  /\ kAt <= Len(targets)
  /\ life[targets[kAt].process] = "exited"
  /\ kAt' = kAt + 1
  /\ UNCHANGED <<life, kpc, kTodo, targets, runVars>>

\* The waits share one window: once it has passed the loop is left, at a
\* target that still exits with a row for it, else without one.
Converge ==
  /\ kpc = "converge"
  /\ kAt <= Len(targets)
  /\ \/ /\ life[targets[kAt].process] = "exited"
        /\ kAt' = kAt + 1
        /\ UNCHANGED <<kpc, rows>>
     \/ /\ life[targets[kAt].process] # "exited"
        /\ Log("KillProcess", targets[kAt].exe, "WARN")
        /\ kpc' = "done"
        /\ kAt' = kAt
     \/ /\ kAt > 1
        /\ kpc' = "done"
        /\ UNCHANGED <<kAt, rows>>
  /\ UNCHANGED <<life, kTodo, targets, given, abort, cut>>

AllConverged ==
  /\ kpc = "converge"
  /\ kAt > Len(targets)
  /\ kpc' = "done"
  /\ UNCHANGED <<life, kTodo, targets, kAt, runVars>>

KillStep ==
  \/ SkipKill \/ SnapshotFails \/ Snapshot \/ AllOpened
  \/ \E e \in kTodo : LeaveProcessAlone(e) \/ OpenAndVerify(e)
  \/ Terminate \/ AllTerminated \/ Converge \/ AllConverged

(***************************************************************************)
(* The processes themselves.                                               *)
(***************************************************************************)
HandleOpen(pid) ==
  kpc # "done" /\ \E i \in DOMAIN targets : Pid[targets[i].process] = pid

ProcessExits(p) ==
  /\ \/ life[p] = "exiting" /\ ~Fault("linger")
     \/ life[p] = "running" /\ Fault("close")
  /\ life' = [life EXCEPT ![p] = "exited"]

ProcessStarts(p) ==
  /\ Fault("reuse")
  /\ life[p] = "unborn"
  /\ ~HandleOpen(Pid[p])
  /\ \A q \in Processes : Pid[q] = Pid[p] => ~Alive(q)
  /\ life' = [life EXCEPT ![p] = "running"]

ProcessesGoOn ==
  /\ \E p \in Processes : ProcessExits(p) \/ ProcessStarts(p)
  /\ UNCHANGED <<kpc, kTodo, targets, kAt, runVars>>

\* What may be terminated.
Approved(p) ==
  Execute /\ NamedTarget(NameOf(p)) /\ Image[p] \in NvidiaOwned

ProcessSettled(p) ==
  life[p] \in {"exiting", "exited"} \/ Warned("KillProcess", NameOf(p))
=============================================================================
