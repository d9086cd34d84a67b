-------------------------- MODULE CleanupRun_proofs --------------------------
(***************************************************************************)
(* What a cleanup run keeps, for every machine it may find: all services,  *)
(* processes, tasks, candidates and owners, every world of options and     *)
(* failing calls, and every behaviour of what goes on beside it.           *)
(***************************************************************************)
EXTENDS CleanupRun, TLAPS, FiniteSetTheorems

USE CleanupAssumption, ProcessAssumption, ToolAssumption, ServiceAssumption,
    TaskAssumption, RunAssumption

LEMMA RowsStayTyped ==
  ASSUME rows \subseteq RowType,
         NEW k \in Kinds, NEW t \in Targets \cup {"none"}, NEW s \in Statuses,
         Log(k, t, s)
  PROVE  rows' \subseteq RowType
BY DEF Log, Row, RowType

\* What has been logged stays logged, a warning is a problem.
LEMMA LoggedIsKept ==
  ASSUME NEW k, NEW t, NEW s, Log(k, t, s)
  PROVE  /\ rows \subseteq rows'
         /\ s = "WARN" => Problems'
<1> DEFINE r == Row(k, t, s)
<1>1. rows' = rows \cup {r} /\ r.status = s
  BY DEF Log, Row
<1> HIDE DEF r
<1>2. QED
  BY <1>1 DEF Problems

LEMMA ProblemsStay ==
  ASSUME rows \subseteq rows', Problems
  PROVE  Problems'
BY DEF Problems

(***************************************************************************)
(* The services.                                                           *)
(***************************************************************************)
ServiceType == [status : {"running", "stopping", "stopped"},
                start : {"enabled", "disabled"}, registered : BOOLEAN]

LEMMA StatusSet ==
  ASSUME service \in [Services -> ServiceType],
         NEW s \in Services, NEW v \in {"running", "stopping", "stopped"},
         service' = [service EXCEPT ![s].status = v]
  PROVE  /\ service' \in [Services -> ServiceType]
         /\ \A q \in Services :
              /\ service'[q].status = IF q = s THEN v ELSE service[q].status
              /\ service'[q].start = service[q].start
              /\ service'[q].registered = service[q].registered
<1> DEFINE r == [service[s] EXCEPT !.status = v]
<1>1. service[s] \in ServiceType
  OBVIOUS
<1>2. /\ r \in ServiceType
      /\ r.status = v /\ r.start = service[s].start /\ r.registered = service[s].registered
  BY <1>1 DEF ServiceType
<1>3. service' = [service EXCEPT ![s] = r]
  OBVIOUS
<1> HIDE DEF r
<1>4. QED
  BY <1>2, <1>3

LEMMA StartSet ==
  ASSUME service \in [Services -> ServiceType],
         NEW s \in Services, NEW v \in {"enabled", "disabled"},
         service' = [service EXCEPT ![s].start = v]
  PROVE  /\ service' \in [Services -> ServiceType]
         /\ \A q \in Services :
              /\ service'[q].start = IF q = s THEN v ELSE service[q].start
              /\ service'[q].status = service[q].status
              /\ service'[q].registered = service[q].registered
<1> DEFINE r == [service[s] EXCEPT !.start = v]
<1>1. service[s] \in ServiceType
  OBVIOUS
<1>2. /\ r \in ServiceType
      /\ r.start = v /\ r.status = service[s].status /\ r.registered = service[s].registered
  BY <1>1 DEF ServiceType
<1>3. service' = [service EXCEPT ![s] = r]
  OBVIOUS
<1> HIDE DEF r
<1>4. QED
  BY <1>2, <1>3

LEMMA RegisteredSet ==
  ASSUME service \in [Services -> ServiceType],
         NEW s \in Services, NEW v \in BOOLEAN,
         service' = [service EXCEPT ![s].registered = v]
  PROVE  /\ service' \in [Services -> ServiceType]
         /\ \A q \in Services :
              /\ service'[q].registered = IF q = s THEN v ELSE service[q].registered
              /\ service'[q].status = service[q].status
              /\ service'[q].start = service[q].start
<1> DEFINE r == [service[s] EXCEPT !.registered = v]
<1>1. service[s] \in ServiceType
  OBVIOUS
<1>2. /\ r \in ServiceType
      /\ r.registered = v /\ r.status = service[s].status /\ r.start = service[s].start
  BY <1>1 DEF ServiceType
<1>3. service' = [service EXCEPT ![s] = r]
  OBVIOUS
<1> HIDE DEF r
<1>4. QED
  BY <1>2, <1>3

ServiceBusy == {"open", "observe", "control", "await", "disable", "delete"}

\* Nobody starts services behind the run, and nothing was warned of.
ServicesQuiet == ~Fault("restart") /\ ~Problems

\* What the calls before the present one have achieved.
HalfSettled(s) ==
  /\ spc \in {"disable", "delete"} /\ Option("kill") => service[s].status = "stopped"
  /\ spc = "delete" /\ Option("disable") => service[s].start = "disabled"

\* The service that is open may be changed, and a service that was there is
\* still to be looked at, open, or done with.
OpenIsChosen == spc \in ServiceBusy => Chosen(sNow)
NoServiceLost ==
  ServicesQuiet =>
    \A s \in Services \cap given.present : Chosen(s) =>
      \/ spc = "start" /\ service[s].registered
      \/ spc \notin {"start", "done"} /\ s \in sTodo
      \/ spc \in ServiceBusy /\ sNow = s /\ HalfSettled(s)
      \/ ServiceSettled(s)

ServiceInv == ServiceTypeOK /\ OpenIsChosen /\ NoServiceLost

LEMMA ServiceInvStep ==
  ASSUME RunTypeOK, ServiceInv, ServiceStep
  PROVE  RunTypeOK' /\ ServiceInv'
<1> USE DEF RunTypeOK, ServiceInv, ServiceTypeOK, ServicePcs, Kinds, Statuses, runVars,
            OpenIsChosen, NoServiceLost, ServicesQuiet, HalfSettled, ServiceSettled,
            ServiceBusy, AfterStop, AfterDisable, Fault, Option, Chosen, Execute,
            ActionDecision, Warned
<1>1. CASE SkipServices
  BY <1>1 DEF SkipServices, ServiceOptions, Problems
<1>2. CASE ServicesUnavailable
  BY <1>2, RowsStayTyped, LoggedIsKept DEF ServicesUnavailable, Warn
<1>3. CASE ListServices
  BY <1>3 DEF ListServices, Problems
<1>4. ASSUME NEW s \in Services, LeaveServiceAlone(s)
      PROVE  RunTypeOK' /\ ServiceInv'
  <2>1. RunTypeOK'
    BY <1>4, RowsStayTyped DEF LeaveServiceAlone
  <2>2. rows \subseteq rows'
    BY <1>4, LoggedIsKept DEF LeaveServiceAlone
  <2>3. QED
    BY <1>4, <2>1, <2>2, ProblemsStay DEF LeaveServiceAlone
<1>5. ASSUME NEW s \in Services, DryRunService(s)
      PROVE  RunTypeOK' /\ ServiceInv'
  <2>1. RunTypeOK' /\ rows \subseteq rows'
    BY <1>5 DEF DryRunService, Row, RowType
  <2>2. QED
    BY <1>5, <2>1, ProblemsStay DEF DryRunService
<1>6. ASSUME NEW s \in Services, TakeService(s)
      PROVE  RunTypeOK' /\ ServiceInv'
  BY <1>6 DEF TakeService, Problems
<1>7. CASE OpenService
  <2>1. RunTypeOK' /\ rows \subseteq rows'
    BY <1>7, RowsStayTyped, LoggedIsKept DEF OpenService
  <2>2. QED
    BY <1>7, <2>1, LoggedIsKept, ProblemsStay DEF OpenService
<1>8. CASE ObserveService
  <2>1. RunTypeOK' /\ rows \subseteq rows'
    BY <1>8, RowsStayTyped, LoggedIsKept DEF ObserveService
  <2>2. QED
    BY <1>8, <2>1, ProblemsStay DEF ObserveService
<1>9. CASE ControlService
  <2>1. RunTypeOK' /\ rows \subseteq rows'
    BY <1>9, RowsStayTyped, LoggedIsKept DEF ControlService
  <2>2. CASE service' = service
    BY <1>9, <2>1, <2>2, LoggedIsKept, ProblemsStay DEF ControlService
  <2>3. CASE /\ service' = [service EXCEPT ![sNow].status = "stopping"]
             /\ rows' = rows
             /\ spc' = "await"
    <3>1. /\ sNow \in Services /\ spc = "control" /\ spc' = "await"
          /\ UNCHANGED <<sTodo, sNow, given, rows>>
      BY <1>9, <2>3 DEF ControlService
    <3>2. /\ service' \in [Services -> ServiceType]
          /\ \A q \in Services :
               /\ service'[q].status = IF q = sNow THEN "stopping" ELSE service[q].status
               /\ service'[q].start = service[q].start
               /\ service'[q].registered = service[q].registered
      BY <2>3, <3>1, StatusSet DEF ServiceType
    <3>3. ServiceTypeOK' /\ OpenIsChosen'
      BY <3>1, <3>2 DEF ServiceType
    <3>4. NoServiceLost'
      BY <3>1, <3>2 DEF Problems
    <3>5. QED
      BY <2>1, <3>3, <3>4
  <2>4. QED
    BY <1>9, <2>2, <2>3 DEF ControlService
<1>10. CASE AwaitStopped
  <2>1. RunTypeOK' /\ rows \subseteq rows'
    BY <1>10, RowsStayTyped, LoggedIsKept DEF AwaitStopped
  <2>2. QED
    BY <1>10, <2>1, LoggedIsKept, ProblemsStay DEF AwaitStopped
<1>11. CASE DisableService
  <2>1. RunTypeOK' /\ rows \subseteq rows'
    BY <1>11, RowsStayTyped, LoggedIsKept DEF DisableService
  <2>2. CASE service' = service /\ Problems'
    BY <1>11, <2>1, <2>2 DEF DisableService
  <2>3. CASE service' = [service EXCEPT ![sNow].start = "disabled"]
    BY <1>11, <2>1, <2>3, StartSet, ProblemsStay DEF DisableService, ServiceType
  <2>4. QED
    BY <1>11, <2>2, <2>3, LoggedIsKept DEF DisableService
<1>12. CASE DeleteService
  <2>1. RunTypeOK' /\ rows \subseteq rows'
    BY <1>12, RowsStayTyped, LoggedIsKept DEF DeleteService
  <2>2. CASE service' = service /\ Problems'
    BY <1>12, <2>1, <2>2 DEF DeleteService
  <2>3. CASE service' = [service EXCEPT ![sNow].registered = FALSE]
    <3>1. /\ sNow \in Services /\ spc = "delete" /\ spc' = "next"
          /\ UNCHANGED <<sTodo, sNow, given>>
      BY <1>12 DEF DeleteService
    <3>2. /\ service' \in [Services -> ServiceType]
          /\ \A q \in Services :
               /\ service'[q].registered = IF q = sNow THEN FALSE ELSE service[q].registered
               /\ service'[q].status = service[q].status
               /\ service'[q].start = service[q].start
      BY <2>3, <3>1, RegisteredSet DEF ServiceType
    <3>3. ServiceTypeOK' /\ OpenIsChosen'
      BY <3>1, <3>2 DEF ServiceType
    <3>4. NoServiceLost'
      BY <2>1, <3>1, <3>2, ProblemsStay
    <3>5. QED
      BY <2>1, <3>3, <3>4
  <2>4. QED
    BY <1>12, <2>2, <2>3, LoggedIsKept DEF DeleteService
<1>13. CASE ServicesDone
  BY <1>13 DEF ServicesDone, Problems
<1>14. QED
  BY <1>1, <1>2, <1>3, <1>4, <1>5, <1>6, <1>7, <1>8, <1>9, <1>10, <1>11, <1>12, <1>13
  DEF ServiceStep

LEMMA ServiceInvBeside ==
  ASSUME ServiceInv, ServicesGoOn
  PROVE  ServiceInv'
<1> USE DEF ServiceInv, ServiceTypeOK, runVars, ServicesGoOn, OpenIsChosen, NoServiceLost,
            ServicesQuiet, HalfSettled, ServiceSettled, ServiceBusy, Fault, Option, Chosen,
            Execute, ActionDecision, Warned, Problems
<1>1. ASSUME NEW s \in Services, ServiceStops(s) \/ ServiceCrashes(s)
      PROVE  ServiceInv'
  BY <1>1, StatusSet DEF ServiceStops, ServiceCrashes, ServiceType
<1>2. ASSUME NEW s \in Services, ServiceRestarts(s)
      PROVE  ServiceInv'
  BY <1>2, StatusSet DEF ServiceRestarts, ServiceType
<1>3. QED
  BY <1>1, <1>2

(***************************************************************************)
(* The processes.                                                          *)
(***************************************************************************)
\* Every handle that may be terminated was verified.
TargetsApproved ==
  \A i \in 1 .. Len(targets) :
    /\ Execute
    /\ NamedTarget(targets[i].exe)
    /\ ImageVerified(targets[i].process, targets[i].exe)

AtTarget == kpc \in {"terminate", "converge"} => kAt >= 1

\* Which processes exist, if no new ones start.
OnlyOldProcesses ==
  \A p \in Processes :
    /\ p \in given.present => life[p] # "unborn"
    /\ ~Fault("reuse") /\ life[p] # "unborn" => p \in given.present

EntryOf(p) == [pid |-> Pid[p], exe |-> NameOf(p)]
ProcessesQuiet == ~Fault("reuse") /\ ~Problems /\ ~Skipped /\ Option("kill")

\* A process that should go is still to be opened, still to be terminated, or
\* was terminated.
NoProcessLost ==
  ProcessesQuiet =>
    \A p \in Processes \cap given.present : Approved(p) =>
      \/ kpc = "start"
      \/ life[p] \in {"exiting", "exited"}
      \/ kpc = "next" /\ EntryOf(p) \in kTodo
      \/ /\ kpc \in {"next", "terminate"}
         /\ \E i \in 1 .. Len(targets) :
              targets[i].process = p /\ (kpc = "terminate" => i >= kAt)

ProcessInv ==
  ProcessTypeOK /\ TargetsApproved /\ AtTarget /\ OnlyOldProcesses /\ NoProcessLost

LEMMA SkippedStays ==
  ASSUME rows \subseteq rows', given' = given, Skipped
  PROVE  Skipped'
BY DEF Skipped, ActionDecision

\* A skipped target of a selected component shows.
LEMMA SkipShows ==
  ASSUME NEW k, NEW t, ActionDecision(t) = "Allowed", given' = given, Log(k, t, "SKIP")
  PROVE  Skipped'
<1> DEFINE r == Row(k, t, "SKIP")
<1>1. rows' = rows \cup {r} /\ r.status = "SKIP" /\ r.target = t
  BY DEF Log, Row
<1> HIDE DEF r
<1>2. QED
  BY <1>1 DEF Skipped, ActionDecision

\* The handle the loops are at.
LEMMA TargetAt ==
  ASSUME ProcessInv, kpc \in {"terminate", "converge"}, kAt <= Len(targets)
  PROVE  /\ kAt \in 1 .. Len(targets)
         /\ targets[kAt].process \in Processes /\ targets[kAt].exe \in Targets
<1>1. kAt \in 1 .. Len(targets)
  BY DEF ProcessInv, ProcessTypeOK, AtTarget
<1> DEFINE Verified == [process : Processes, exe : Targets]
<1>2. targets \in Seq(Verified)
  BY DEF ProcessInv, ProcessTypeOK
<1> HIDE DEF Verified
<1>3. targets[kAt] \in Verified
  BY <1>1, <1>2
<1>4. QED
  BY <1>1, <1>3 DEF Verified

LEMMA ProcessInvStep ==
  ASSUME RunTypeOK, ProcessInv, KillStep
  PROVE  RunTypeOK' /\ ProcessInv'
<1> USE DEF RunTypeOK, ProcessInv, ProcessTypeOK, Kinds, Statuses, runVars,
            TargetsApproved, AtTarget, OnlyOldProcesses, NoProcessLost, ProcessesQuiet,
            Fault, Option, Execute, ActionDecision, Approved, NamedTarget, ImageVerified
<1>1. CASE SkipKill
  BY <1>1 DEF SkipKill, Problems, Skipped
<1>2. CASE SnapshotFails
  <2>1. RunTypeOK' /\ Problems'
    BY <1>2, RowsStayTyped, LoggedIsKept DEF SnapshotFails, Warn
  <2>2. QED
    BY <1>2, <2>1 DEF SnapshotFails
<1>3. CASE Snapshot
  <2>1. ProcessTypeOK' /\ RunTypeOK'
    BY <1>3 DEF Snapshot, Pids, NameOf
  <2>2. \A p \in Processes : Alive(p) => EntryOf(p) \in kTodo'
    BY <1>3 DEF Snapshot, EntryOf
  <2>3. NoProcessLost'
    BY <1>3, <2>2 DEF Snapshot, EntryOf, Alive, NameOf
  <2>4. QED
    BY <1>3, <2>1, <2>3 DEF Snapshot
<1>4. ASSUME NEW e \in kTodo, LeaveProcessAlone(e)
      PROVE  RunTypeOK' /\ ProcessInv'
  <2>1. RunTypeOK' /\ rows \subseteq rows' /\ given' = given
    BY <1>4, RowsStayTyped, LoggedIsKept DEF LeaveProcessAlone
  <2>2. \A p \in Processes : Approved(p) => EntryOf(p) # e
    BY <1>4 DEF LeaveProcessAlone, EntryOf
  <2>3. NoProcessLost'
    BY <1>4, <2>1, <2>2, ProblemsStay, SkippedStays DEF LeaveProcessAlone, EntryOf, NameOf
  <2>4. QED
    BY <1>4, <2>1, <2>3 DEF LeaveProcessAlone
<1>5. ASSUME NEW e \in kTodo, OpenAndVerify(e)
      PROVE  RunTypeOK' /\ ProcessInv'
  <2> USE DEF NameOf
  <2>1. /\ e.exe \in Targets
        /\ RunTypeOK' /\ rows \subseteq rows' /\ given' = given
        /\ NamedTarget(e.exe) /\ kTodo' = kTodo \ {e}
        /\ UNCHANGED <<life, kpc, kAt>> /\ kpc = "next"
    BY <1>5, RowsStayTyped, LoggedIsKept DEF OpenAndVerify
  <2>2. CASE targets' = targets /\ (Skipped' \/ ~Execute)
    BY <2>1, <2>2
  <2>3. ASSUME NEW p \in Processes, Alive(p), Pid[p] = e.pid, ImageVerified(p, e.exe),
               Execute, targets' = Append(targets, [process |-> p, exe |-> e.exe])
        PROVE  RunTypeOK' /\ ProcessInv'
    <3> DEFINE new == [process |-> p, exe |-> e.exe]
    <3>1. new \in [process : Processes, exe : Targets] /\ new.process = p /\ new.exe = e.exe
      BY <2>1
    <3> HIDE DEF new
    <3>2. targets' = Append(targets, new)
      BY <2>3 DEF new
    <3>3. /\ targets' \in Seq([process : Processes, exe : Targets])
          /\ Len(targets') = Len(targets) + 1
          /\ \A i \in 1 .. Len(targets) : targets'[i] = targets[i]
          /\ targets'[Len(targets) + 1] = new
      BY <3>1, <3>2
    <3>4. ProcessTypeOK'
      BY <2>1, <3>3
    <3>5. TargetsApproved'
      BY <2>1, <2>3, <3>1, <3>3
    <3>6. ASSUME ProcessesQuiet', NEW q \in Processes \cap given.present, Approved(q)
          PROVE  \/ life[q] \in {"exiting", "exited"}
                 \/ EntryOf(q) \in kTodo'
                 \/ \E i \in 1 .. Len(targets') : targets'[i].process = q
      <4>1. ~Fault("reuse") /\ p \in given.present
        BY <2>1, <2>3, <3>6 DEF Alive
      <4>2. CASE EntryOf(q) = e
        <5>1. Pid[p] = Pid[q]
          BY <2>3, <4>2 DEF EntryOf
        <5>2. p = q
          BY <4>1, <5>1, <3>6, IdAssumption
        <5>3. QED
          BY <3>1, <3>3, <5>2
      <4>3. CASE EntryOf(q) # e
        <5>1. ~Problems /\ ~Skipped /\ Option("kill")
          BY <2>1, <3>6, ProblemsStay, SkippedStays
        <5>2. \/ life[q] \in {"exiting", "exited"}
              \/ EntryOf(q) \in kTodo
              \/ \E i \in 1 .. Len(targets) : targets[i].process = q
          BY <2>1, <3>6, <4>1, <5>1
        <5>3. QED
          BY <2>1, <3>3, <4>3, <5>2
      <4>4. QED
        BY <4>2, <4>3
    <3>7. NoProcessLost'
      BY <2>1, <3>6 DEF EntryOf
    <3>8. QED
      BY <2>1, <3>4, <3>5, <3>7
  <2>4. \/ targets' = targets /\ Log("KillProcess", e.exe, "SKIP")
        \/ targets' = targets /\ ~Execute
        \/ \E p \in Processes :
             /\ Alive(p) /\ Pid[p] = e.pid /\ ImageVerified(p, e.exe) /\ Execute
             /\ targets' = Append(targets, [process |-> p, exe |-> e.exe])
    BY <1>5 DEF OpenAndVerify
  <2>5. Log("KillProcess", e.exe, "SKIP") => Skipped'
    BY <2>1, SkipShows
  <2>6. QED
    BY <2>2, <2>3, <2>4, <2>5
<1>6. CASE AllOpened
  BY <1>6 DEF AllOpened, Problems, Skipped, EntryOf, NameOf
<1>7. CASE Terminate
  <2>1. /\ kAt \in 1 .. Len(targets)
        /\ targets[kAt].process \in Processes /\ targets[kAt].exe \in Targets
    BY <1>7, TargetAt DEF Terminate
  <2>2. RunTypeOK' /\ rows \subseteq rows' /\ given' = given
    BY <1>7, <2>1, RowsStayTyped, LoggedIsKept DEF Terminate
  <2>3. ProcessTypeOK' /\ TargetsApproved' /\ AtTarget' /\ OnlyOldProcesses'
    BY <1>7, <2>1, <2>2 DEF Terminate, NameOf
  <2>4. NoProcessLost'
    BY <1>7, <2>1, <2>2, LoggedIsKept, ProblemsStay, SkippedStays DEF Terminate, NameOf
  <2>5. QED
    BY <2>2, <2>3, <2>4
<1>8. CASE AllTerminated
  BY <1>8 DEF AllTerminated, Problems, Skipped, EntryOf, NameOf
<1>9. CASE Converge
  <2>1. /\ kAt \in 1 .. Len(targets)
        /\ targets[kAt].process \in Processes /\ targets[kAt].exe \in Targets
    BY <1>9, TargetAt DEF Converge
  <2>2. RunTypeOK' /\ rows \subseteq rows' /\ given' = given
    BY <1>9, <2>1, RowsStayTyped, LoggedIsKept DEF Converge
  <2>3. ProcessTypeOK' /\ TargetsApproved' /\ AtTarget' /\ OnlyOldProcesses'
    BY <1>9, <2>1, <2>2 DEF Converge, NameOf
  <2>4. NoProcessLost'
    BY <1>9, <2>2, ProblemsStay, SkippedStays DEF Converge, NameOf
  <2>5. QED
    BY <2>2, <2>3, <2>4
<1>10. CASE AllConverged
  BY <1>10 DEF AllConverged, Problems, Skipped, EntryOf, NameOf
<1>11. QED
  BY <1>1, <1>2, <1>3, <1>4, <1>5, <1>6, <1>7, <1>8, <1>9, <1>10 DEF KillStep

LEMMA ProcessInvBeside ==
  ASSUME ProcessInv, ProcessesGoOn
  PROVE  ProcessInv'
<1> USE DEF ProcessInv, ProcessTypeOK, runVars, ProcessesGoOn, TargetsApproved, AtTarget,
            OnlyOldProcesses, NoProcessLost, ProcessesQuiet, Fault, Option, Execute,
            ActionDecision, Approved, NamedTarget, ImageVerified, EntryOf, NameOf,
            Problems, Skipped
<1>1. ASSUME NEW p \in Processes, ProcessExits(p)
      PROVE  ProcessInv'
  BY <1>1 DEF ProcessExits
<1>2. ASSUME NEW p \in Processes, ProcessStarts(p)
      PROVE  ProcessInv'
  BY <1>2 DEF ProcessStarts
<1>3. QED
  BY <1>1, <1>2

(***************************************************************************)
(* The scheduled tasks and the tool that is called for them.               *)
(***************************************************************************)
\* Once the end of the tool was seen it is over, and its pipe is read out.
ToolIsOver ==
  /\ call \in {"final", "result", "idle"} => ~ToolAlive
  /\ call = "result" => pipe = {}

\* What exit code 0 means of a listing and of a change.
ToolDoesItsWork ==
  /\ tpc = "querying" =>
       /\ pipe \cup output \subseteq Registered
       /\ tool = "ok" => Registered \subseteq pipe \cup output
  /\ tpc = "changing" /\ tool \in {"worked", "ok"} => task[tNow] = TaskGoal

\* What was cut off was cut off by an abort.
AbortIsNoted == killedFor = "abort" \/ cut # {} => abort

ChangedIsChosen == tpc = "changing" => Chosen(tNow)

TasksQuiet == ~Fault("enumerate") /\ ~Fault("schtasks") /\ ~Problems /\ TaskOption

\* A task that should be changed is still to be looked at, being changed, or
\* done with.
NoTaskLost ==
  TasksQuiet =>
    \A t \in Tasks \cap given.present : Chosen(t) =>
      \/ tpc = "start" /\ task[t] = "ready"
      \/ tpc \in {"next", "changing"} /\ t \in tTodo
      \/ tpc = "changing" /\ tNow = t
      \/ TaskSettled(t)

TaskInv ==
  /\ TaskTypeOK /\ ToolIsOver /\ ToolDoesItsWork /\ AbortIsNoted
  /\ ChangedIsChosen /\ NoTaskLost

LEMMA ToolInvStep ==
  ASSUME RunTypeOK, TaskInv, ToolStep, UNCHANGED <<task, tpc, tTodo, tNow>>
  PROVE  RunTypeOK' /\ TaskInv'
<1> USE DEF RunTypeOK, TaskInv, TaskTypeOK, ToolTypeOK, ToolIsOver, ToolDoesItsWork,
            AbortIsNoted, ChangedIsChosen, NoTaskLost, TasksQuiet, TaskSettled, TaskGoal,
            TaskKind, TaskOption, Registered, ToolAlive, runVars, Chosen, Execute, Option,
            Fault, ActionDecision, Warned, Problems
<1>1. CASE Drain
  BY <1>1 DEF Drain, ReadPipe
<1>2. CASE CheckAbort
  BY <1>2 DEF CheckAbort, Kill
<1>3. CASE Wait
  BY <1>3 DEF Wait, Kill
<1>4. CASE FinalDrain
  BY <1>4 DEF FinalDrain, ReadPipe
<1>5. QED
  BY <1>1, <1>2, <1>3, <1>4 DEF ToolStep

LEMMA NoteIsTyped ==
  KilledNote \subseteq RowType
BY DEF KilledNote, Row, RowType, Kinds, Statuses

LEMMA TaskInvStep ==
  ASSUME RunTypeOK, TaskInv, TaskStep
  PROVE  RunTypeOK' /\ TaskInv'
<1> USE DEF RunTypeOK, TaskInv, TaskTypeOK, ToolTypeOK, ToolIsOver, ToolDoesItsWork,
            AbortIsNoted, ChangedIsChosen, NoTaskLost, TasksQuiet, TaskSettled, TaskGoal,
            TaskKind, TaskOption, Registered, ToolAlive, runVars, toolVars, Chosen,
            Execute, Option, Fault, ActionDecision, Warned, Kinds, Statuses
<1>1. CASE SkipTasks
  BY <1>1 DEF SkipTasks, Problems
<1>2. CASE EnumerateTasks
  BY <1>2 DEF EnumerateTasks, Problems
<1>3. CASE QueryTasks
  <2>1. RunTypeOK' /\ rows \subseteq rows'
    BY <1>3, RowsStayTyped, LoggedIsKept DEF QueryTasks, Warn
  <2>2. QED
    BY <1>3, <2>1, ProblemsStay DEF QueryTasks, StartTool
<1>4. CASE TasksQueried
  <2>1. RunTypeOK' /\ rows \subseteq rows'
    BY <1>4, NoteIsTyped, RowsStayTyped, LoggedIsKept DEF TasksQueried, Warn
  <2>2. QED
    BY <1>4, <2>1, ProblemsStay DEF TasksQueried
<1>5. CASE TaskChanged
  <2>1. /\ call = "result" /\ call' = "idle" /\ tpc = "changing" /\ tpc' = "next"
        /\ UNCHANGED <<task, tTodo, tNow, tool, turns, pipe, output, killedFor, given, abort>>
    BY <1>5 DEF TaskChanged
  <2> DEFINE r == Row(TaskKind, tNow, IF tool = "ok" THEN "INFO" ELSE "WARN")
  <2>2. r \in RowType /\ (tool # "ok" => r.status = "WARN")
    BY <2>1 DEF Row, RowType
  <2>3. rows' = rows \cup {r} \cup KilledNote
    BY <1>5 DEF TaskChanged
  <2> HIDE DEF r
  <2>4. RunTypeOK' /\ rows \subseteq rows' /\ (tool # "ok" => Problems')
    <3>1. cut' \subseteq Targets \cup {"discovery"}
      BY <1>5 DEF TaskChanged
    <3>2. rows' \subseteq RowType /\ rows \subseteq rows' /\ r \in rows'
      BY <2>2, <2>3, NoteIsTyped
    <3>3. QED
      BY <2>1, <2>2, <3>1, <3>2 DEF Problems
  <2>5. AbortIsNoted'
    BY <1>5 DEF TaskChanged
  <2>6. QED
    BY <2>1, <2>4, <2>5, ProblemsStay
<1>6. CASE TasksDone
  BY <1>6 DEF TasksDone, Problems
<1>7. ASSUME NEW t \in tTodo, LeaveTaskAlone(t)
      PROVE  RunTypeOK' /\ TaskInv'
  <2>1. RunTypeOK' /\ rows \subseteq rows'
    BY <1>7, RowsStayTyped, LoggedIsKept DEF LeaveTaskAlone
  <2>2. QED
    BY <1>7, <2>1, ProblemsStay DEF LeaveTaskAlone
<1>8. ASSUME NEW t \in tTodo, DryRunTask(t)
      PROVE  RunTypeOK' /\ TaskInv'
  <2>1. RunTypeOK' /\ rows \subseteq rows'
    BY <1>8, RowsStayTyped, LoggedIsKept DEF DryRunTask
  <2>2. QED
    BY <1>8, <2>1, ProblemsStay DEF DryRunTask
<1>9. ASSUME NEW t \in tTodo, ChangeTask(t)
      PROVE  RunTypeOK' /\ TaskInv'
  BY <1>9 DEF ChangeTask, StartTool, Problems
<1>10. QED
  BY <1>1, <1>2, <1>3, <1>4, <1>5, <1>6, <1>7, <1>8, <1>9, ToolInvStep DEF TaskStep

LEMMA TaskInvBeside ==
  ASSUME RunTypeOK, TaskInv, ToolGoesOn
  PROVE  TaskInv'
<1> USE DEF RunTypeOK, TaskInv, TaskTypeOK, ToolTypeOK, ToolIsOver, ToolDoesItsWork,
            AbortIsNoted, ChangedIsChosen, NoTaskLost, TasksQuiet, TaskSettled, TaskGoal,
            TaskKind, TaskOption, Registered, ToolAlive, runVars, Chosen, Execute, Option,
            Fault, ActionDecision, Warned, Problems, ToolGoesOn
<1>1. CASE SchtasksLists
  BY <1>1 DEF SchtasksLists, ToolWrites, ToolBecomes
<1>2. CASE SchtasksChanges
  BY <1>2 DEF SchtasksChanges, ToolBecomes
<1>3. CASE ToolFails /\ task' = task
  BY <1>3 DEF ToolFails, ToolBecomes
<1>4. QED
  BY <1>1, <1>2, <1>3

(***************************************************************************)
(* What a step of one stage leaves of the others: rows are only added, and *)
(* the invariants of a stage outlive the stage.                            *)
(***************************************************************************)
Grows ==
  /\ rows \subseteq rows'
  /\ given' = given /\ abort' = abort
  /\ cut' # {} => cut # {} \/ abort'

LEMMA ServiceStepGrows ==
  ASSUME ServiceStep
  PROVE  Grows /\ cut' = cut
BY
DEF Grows, Log, Warn, runVars, ServiceStep, SkipServices, ServicesUnavailable, ListServices,
       ServicesDone, LeaveServiceAlone, DryRunService, TakeService, OpenService,
       ObserveService, ControlService, AwaitStopped, DisableService, DeleteService

LEMMA KillStepGrows ==
  ASSUME KillStep
  PROVE  Grows /\ cut' = cut
BY DEF Grows, Log, Warn, runVars, KillStep, SkipKill, SnapshotFails, Snapshot, AllOpened,
       LeaveProcessAlone, OpenAndVerify, Terminate, AllTerminated, Converge, AllConverged

LEMMA TaskStepGrows ==
  ASSUME AbortIsNoted, TaskStep
  PROVE  Grows
BY DEF AbortIsNoted, Grows, Log, Warn, runVars, TaskStep, SkipTasks, EnumerateTasks,
       QueryTasks, TasksQueried, TaskChanged, TasksDone, LeaveTaskAlone, DryRunTask,
       ChangeTask, ToolStep, Drain, CheckAbort, Wait, FinalDrain

LEMMA ServiceInvKept ==
  ASSUME ServiceInv, UNCHANGED serviceVars, rows \subseteq rows', given' = given
  PROVE  ServiceInv'
BY ProblemsStay
DEF ServiceInv, serviceVars, ServiceTypeOK, OpenIsChosen, NoServiceLost, ServicesQuiet,
    HalfSettled, ServiceSettled, Fault, Option, Chosen, Execute, ActionDecision, Warned

LEMMA ProcessInvKept ==
  ASSUME ProcessInv, UNCHANGED processVars, rows \subseteq rows', given' = given
  PROVE  ProcessInv'
BY ProblemsStay, SkippedStays
DEF ProcessInv, processVars, ProcessTypeOK, TargetsApproved, AtTarget, OnlyOldProcesses,
    NoProcessLost, ProcessesQuiet, Fault, Option, Execute, ActionDecision, Approved,
    NamedTarget, ImageVerified

LEMMA TaskInvKept ==
  ASSUME TaskInv, UNCHANGED taskVars, rows \subseteq rows', given' = given,
         abort => abort', cut' # {} => cut # {} \/ abort'
  PROVE  TaskInv'
BY ProblemsStay
DEF TaskInv, taskVars, toolVars, TaskTypeOK, ToolTypeOK, ToolIsOver, ToolDoesItsWork,
    AbortIsNoted, ChangedIsChosen, NoTaskLost, TasksQuiet, TaskSettled, TaskGoal, TaskKind,
    TaskOption, Registered, ToolAlive, Chosen, Execute, Option, Fault, ActionDecision, Warned

(***************************************************************************)
(* The run.                                                                *)
(***************************************************************************)
\* A run that may not execute gets no further than the gate.
GateInv ==
  ~MayExecute =>
    /\ stage \in {"log", "gate", "exited"}
    /\ spc = "start" /\ kpc = "start" /\ tpc = "start"
    /\ exit \in {-1, 1}

\* The stages follow each other.
Unrefused == stage \notin {"log", "gate"} /\ exit # 1
StageInv ==
  /\ stage = "exited" <=> exit # -1
  /\ Unrefused /\ stage # "services" => spc = "done"
  /\ Unrefused /\ stage \notin {"services", "processes"} => kpc = "done"
  /\ Unrefused /\ stage \notin {"services", "processes", "tasks"} => tpc = "done"
  /\ stage # "exited" => lines = {}

BeforeScan == {"log", "gate", "services", "processes", "tasks", "inspect"}

\* Candidates go only while they are removed.
PathInv ==
  stage \in BeforeScan \cup {"scan"} => \A c \in Candidates : path[c] <=> c \in given.present

ChoiceInv ==
  /\ \A c \in found : ActionDecision(c) = "Allowed"
  /\ stage \in {"blame", "queue"} => Execute /\ now \in found /\ now \notin Protected
  /\ stage = "queue" => Option("schedule")

\* An abort that kept the run from something is still to be met by the scan
\* or is in the flag.
CutInv ==
  cut # {} /\ Candidates \cap given.present # {} =>
    \/ aborted
    \/ abort /\ stage \in {"tasks", "inspect"}
    \/ abort /\ stage = "scan" /\ scan # {}

ScanInv ==
  Unrefused /\ stage \notin BeforeScan =>
    \A c \in Candidates \cap given.present : ActionDecision(c) = "Allowed" =>
      aborted \/ c \in found \/ (stage = "scan" /\ c \in scan)

BlameInv ==
  /\ IsFiniteSet(looked) /\ Cardinality(looked) <= MaxLookups
  /\ \A c \in Candidates : last[c] = "deferred" =>
       c \in looked \cup loaded /\ (aborted \/ (stage = "queue" /\ now = c))

ExitInv == exit = 0 => ~aborted

\* A candidate that should go is still to be removed, gone, or queued.
NoCandidateLost ==
  Execute /\ ~Problems /\ ~Skipped /\ Unrefused /\ stage \notin BeforeScan \cup {"scan"} =>
    \A c \in found :
      \/ aborted
      \/ c \in todo /\ stage \in {"remove", "blame", "queue"}
      \/ c = now /\ stage \in {"blame", "queue"}
      \/ ~path[c]
      \/ c \in queued

RunInv ==
  /\ TypeOK /\ GateInv /\ StageInv /\ PathInv /\ ChoiceInv /\ CutInv /\ ScanInv
  /\ BlameInv /\ ExitInv /\ NoCandidateLost /\ ResultIsTrue

IInv == RunInv /\ ServiceInv /\ ProcessInv /\ TaskInv

LEMMA InitHolds == Init => IInv
<1> SUFFICES ASSUME Init
             PROVE  IInv
  OBVIOUS
<1> USE DEF Init, RunInit, ServiceInit, ProcessInit, TaskInit, ToolInit
<1>1. TypeOK
  <2>1. RunTypeOK
    BY DEF RunTypeOK
  <2>2. ServiceTypeOK
    BY DEF ServiceTypeOK, ServicePcs
  <2>3. ProcessTypeOK
    BY DEF ProcessTypeOK
  <2>4. TaskTypeOK
    BY DEF TaskTypeOK, ToolTypeOK
  <2>5. path \in [Candidates -> BOOLEAN] /\ exit \in {-1, 0, 1, 3} /\ lines = {}
    OBVIOUS
  <2>6. QED
    BY <2>1, <2>2, <2>3, <2>4, <2>5 DEF TypeOK, CandidateTypeOK, Stages
<1>2. ServiceInv
  BY <1>1 DEF ServiceInv, TypeOK, OpenIsChosen, ServiceBusy, NoServiceLost
<1>3. ProcessInv
  BY <1>1 DEF ProcessInv, TypeOK, TargetsApproved, AtTarget, OnlyOldProcesses, NoProcessLost
<1>4. TaskInv
  BY <1>1 DEF TaskInv, TypeOK, ToolIsOver, ToolAlive, ToolDoesItsWork, AbortIsNoted,
              ChangedIsChosen, NoTaskLost
<1>5. BlameInv
  BY FS_EmptySet DEF BlameInv
<1>6. GateInv /\ StageInv /\ PathInv /\ ChoiceInv /\ CutInv /\ ScanInv /\ ExitInv
      /\ NoCandidateLost /\ ResultIsTrue
  BY DEF GateInv, StageInv, PathInv, ChoiceInv, CutInv, ScanInv, ExitInv, Unrefused,
         BeforeScan, NoCandidateLost, ResultIsTrue
<1>7. QED
  BY <1>1, <1>2, <1>3, <1>4, <1>5, <1>6 DEF IInv, RunInv

\* The invariants of the stages are kept by a step of none of them.
LEMMA StagesKept ==
  ASSUME IInv, UNCHANGED stageVars, rows \subseteq rows', given' = given,
         abort => abort', cut' # {} => cut # {} \/ abort'
  PROVE  ServiceInv' /\ ProcessInv' /\ TaskInv'
BY ServiceInvKept, ProcessInvKept, TaskInvKept DEF IInv, stageVars

LEMMA ServicesKeep ==
  ASSUME IInv, Services_
  PROVE  IInv'
<1>1. RunTypeOK' /\ ServiceInv' /\ Grows /\ cut' = cut
  BY ServiceInvStep, ServiceStepGrows DEF IInv, RunInv, TypeOK, Services_
<1>2. ProcessInv' /\ TaskInv'
  BY <1>1, ProcessInvKept, TaskInvKept DEF Services_, Grows, IInv
<1>3. TypeOK'
  BY <1>1, <1>2
  DEF IInv, RunInv, TypeOK, Services_, ServiceInv, ProcessInv, TaskInv, CandidateTypeOK, candidateVars, Stages
<1>4. GateInv' /\ StageInv'
  BY <1>1
  DEF IInv, RunInv, Services_, GateInv, StageInv, Unrefused, Grows, processVars, taskVars,
      candidateVars, MayExecute, Execute, Option
<1>5. PathInv' /\ ChoiceInv' /\ CutInv' /\ ScanInv' /\ BlameInv' /\ ExitInv' /\ NoCandidateLost'
      /\ ResultIsTrue'
  BY <1>1
  DEF IInv, RunInv, Services_, PathInv, ChoiceInv, CutInv, ScanInv, BlameInv, ExitInv,
      NoCandidateLost, ResultIsTrue, StageInv, Unrefused, BeforeScan, Grows, candidateVars,
      ActionDecision, Execute, Option
<1>6. QED
  BY <1>1, <1>2, <1>3, <1>4, <1>5 DEF IInv, RunInv

LEMMA ProcessesKeep ==
  ASSUME IInv, Processes_
  PROVE  IInv'
<1>1. RunTypeOK' /\ ProcessInv' /\ Grows /\ cut' = cut
  BY ProcessInvStep, KillStepGrows DEF IInv, RunInv, TypeOK, Processes_
<1>2. ServiceInv' /\ TaskInv'
  BY <1>1, ServiceInvKept, TaskInvKept DEF Processes_, Grows, IInv
<1>3. TypeOK'
  BY <1>1, <1>2
  DEF IInv, RunInv, TypeOK, Processes_, ServiceInv, ProcessInv, TaskInv, CandidateTypeOK, candidateVars, Stages
<1>4. GateInv' /\ StageInv'
  BY <1>1
  DEF IInv, RunInv, Processes_, GateInv, StageInv, Unrefused, Grows, serviceVars, taskVars,
      candidateVars, MayExecute, Execute, Option
<1>5. PathInv' /\ ChoiceInv' /\ CutInv' /\ ScanInv' /\ BlameInv' /\ ExitInv' /\ NoCandidateLost'
      /\ ResultIsTrue'
  BY <1>1
  DEF IInv, RunInv, Processes_, PathInv, ChoiceInv, CutInv, ScanInv, BlameInv, ExitInv,
      NoCandidateLost, ResultIsTrue, StageInv, Unrefused, BeforeScan, Grows, candidateVars,
      ActionDecision, Execute, Option
<1>6. QED
  BY <1>1, <1>2, <1>3, <1>4, <1>5 DEF IInv, RunInv

LEMMA TasksKeep ==
  ASSUME IInv, Tasks_
  PROVE  IInv'
<1>1. RunTypeOK' /\ TaskInv' /\ Grows
  BY TaskInvStep, TaskStepGrows DEF IInv, RunInv, TypeOK, Tasks_, TaskInv
<1>2. ServiceInv' /\ ProcessInv'
  BY <1>1, ServiceInvKept, ProcessInvKept DEF Tasks_, Grows, IInv
<1>3. TypeOK'
  BY <1>1, <1>2
  DEF IInv, RunInv, TypeOK, Tasks_, ServiceInv, ProcessInv, TaskInv, CandidateTypeOK, candidateVars, Stages
<1>4. GateInv' /\ StageInv'
  BY <1>1
  DEF IInv, RunInv, Tasks_, GateInv, StageInv, Unrefused, Grows, serviceVars, processVars,
      candidateVars, MayExecute, Execute, Option
<1>5. CutInv'
  BY <1>1 DEF Tasks_, CutInv, TaskInv, AbortIsNoted
<1>6. PathInv' /\ ChoiceInv' /\ ScanInv' /\ BlameInv' /\ ExitInv' /\ NoCandidateLost'
      /\ ResultIsTrue'
  BY <1>1
  DEF IInv, RunInv, Tasks_, PathInv, ChoiceInv, ScanInv, BlameInv, ExitInv,
      NoCandidateLost, ResultIsTrue, StageInv, Unrefused, BeforeScan, Grows, candidateVars,
      ActionDecision, Execute, Option
<1>7. QED
  BY <1>1, <1>2, <1>3, <1>4, <1>5, <1>6 DEF IInv, RunInv

\* The steps between and after the stages, and the removal of the candidates.
LEMMA RunStepKeeps ==
  ASSUME IInv,
         \/ ProbeLog \/ Gate \/ Inspect \/ ScanAborts \/ Scanned \/ RemovalAborts
         \/ \E c \in Candidates : Visit(c) \/ Remove(c)
         \/ Blame \/ Queue \/ Removed \/ Report
  PROVE  IInv'
<1> USE DEF IInv, RunInv, TypeOK, RunTypeOK, CandidateTypeOK
<1> DEFINE Kept == UNCHANGED stageVars /\ rows \subseteq rows' /\ given' = given
                   /\ abort' = abort /\ (cut' # {} => cut # {} \/ abort')
           Typed == RunTypeOK' /\ CandidateTypeOK'
           OnCourse == GateInv' /\ StageInv' /\ ExitInv'
           ByChoice == PathInv' /\ ChoiceInv'
           Whole == CutInv' /\ ScanInv'
<1>0. ASSUME Kept, Typed, OnCourse, ByChoice, Whole, BlameInv', NoCandidateLost', ResultIsTrue'
      PROVE  IInv'
  BY <1>0, StagesKept DEF ServiceInv, ProcessInv, TaskInv
<1>1. CASE ProbeLog
  <2>1. Kept
    BY <1>1 DEF ProbeLog, Log, runVars, stageVars, candidateVars
  <2>2. Typed
    BY <1>1, RowsStayTyped DEF ProbeLog, Kinds, Statuses, Stages, runVars, candidateVars
  <2>3. OnCourse
    BY <1>1
    DEF ProbeLog, GateInv, StageInv, ExitInv, Unrefused, MayExecute, Execute, Option,
        runVars, stageVars, serviceVars, processVars, taskVars, candidateVars
  <2>4. ByChoice
    BY <1>1
    DEF ProbeLog, PathInv, ChoiceInv, BeforeScan, ActionDecision, Execute, Option, runVars,
        candidateVars
  <2>5. Whole
    BY <1>1
    DEF ProbeLog, CutInv, ScanInv, StageInv, PathInv, Unrefused, BeforeScan, ActionDecision,
        runVars, candidateVars
  <2>6. BlameInv'
    BY <1>1, FS_AddElement DEF ProbeLog, BlameInv, candidateVars
  <2>7. NoCandidateLost'
    BY <1>1, <2>1, ProblemsStay, SkippedStays
    DEF ProbeLog, NoCandidateLost, Unrefused, StageInv, BeforeScan, Execute, Option,
        candidateVars
  <2>8. ResultIsTrue'
    BY <1>1
    DEF ProbeLog, ResultIsTrue, StageInv, ExitInv, ScanInv, Unrefused, BeforeScan,
        candidateVars
  <2>9. QED
    BY <1>0, <2>1, <2>2, <2>3, <2>4, <2>5, <2>6, <2>7, <2>8
<1>2. CASE Gate
  <2>1. Kept
    BY <1>2 DEF Gate, Log, runVars, stageVars, candidateVars
  <2>2. Typed
    BY <1>2, RowsStayTyped DEF Gate, Kinds, Statuses, Stages, runVars, candidateVars
  <2>3. OnCourse
    BY <1>2
    DEF Gate, GateInv, StageInv, ExitInv, Unrefused, MayExecute, Execute, Option, runVars,
        stageVars, serviceVars, processVars, taskVars, candidateVars
  <2>4. ByChoice
    BY <1>2
    DEF Gate, PathInv, ChoiceInv, BeforeScan, ActionDecision, Execute, Option, runVars,
        candidateVars
  <2>5. Whole
    BY <1>2
    DEF Gate, CutInv, ScanInv, StageInv, PathInv, Unrefused, BeforeScan, ActionDecision,
        runVars, candidateVars
  <2>6. BlameInv'
    BY <1>2, FS_AddElement DEF Gate, BlameInv, candidateVars
  <2>7. NoCandidateLost'
    BY <1>2, <2>1, ProblemsStay, SkippedStays
    DEF Gate, NoCandidateLost, Unrefused, StageInv, BeforeScan, Execute, Option,
        candidateVars
  <2>8. ResultIsTrue'
    BY <1>2
    DEF Gate, ResultIsTrue, StageInv, ExitInv, ScanInv, Unrefused, BeforeScan, candidateVars
  <2>9. QED
    BY <1>0, <2>1, <2>2, <2>3, <2>4, <2>5, <2>6, <2>7, <2>8
<1>3. CASE Inspect
  <2>1. Kept
    BY <1>3 DEF Inspect, Warn, Log, runVars, stageVars, candidateVars
  <2>2. Typed
    BY <1>3, RowsStayTyped
    DEF Inspect, Warn, Kinds, Statuses, Stages, runVars, candidateVars
  <2>3. OnCourse
    BY <1>3
    DEF Inspect, Warn, GateInv, StageInv, ExitInv, Unrefused, MayExecute, Execute, Option,
        runVars, stageVars, serviceVars, processVars, taskVars, candidateVars
  <2>4. ByChoice
    BY <1>3
    DEF Inspect, Warn, PathInv, ChoiceInv, BeforeScan, ActionDecision, Execute, Option,
        runVars, candidateVars
  <2>5. Whole
    BY <1>3
    DEF Inspect, Warn, CutInv, ScanInv, StageInv, PathInv, Unrefused, BeforeScan,
        ActionDecision, runVars, candidateVars
  <2>6. BlameInv'
    BY <1>3, FS_AddElement DEF Inspect, Warn, BlameInv, candidateVars
  <2>7. NoCandidateLost'
    BY <1>3, <2>1, ProblemsStay, SkippedStays
    DEF Inspect, Warn, NoCandidateLost, Unrefused, StageInv, BeforeScan, Execute, Option,
        candidateVars
  <2>8. ResultIsTrue'
    BY <1>3
    DEF Inspect, Warn, ResultIsTrue, StageInv, ExitInv, ScanInv, Unrefused, BeforeScan,
        candidateVars
  <2>9. QED
    BY <1>0, <2>1, <2>2, <2>3, <2>4, <2>5, <2>6, <2>7, <2>8
<1>4. ASSUME NEW c \in Candidates, Visit(c)
      PROVE  IInv'
  <2>1. Kept
    BY <1>4 DEF Visit, Log, runVars, stageVars, candidateVars
  <2>2. Typed
    BY <1>4, RowsStayTyped DEF Visit, Kinds, Statuses, Stages, runVars, candidateVars
  <2>3. OnCourse
    BY <1>4
    DEF Visit, GateInv, StageInv, ExitInv, Unrefused, MayExecute, Execute, Option, runVars,
        stageVars, serviceVars, processVars, taskVars, candidateVars
  <2>4. ByChoice
    BY <1>4
    DEF Visit, PathInv, ChoiceInv, BeforeScan, ActionDecision, Execute, Option, runVars,
        candidateVars
  <2>5. Whole
    BY <1>4
    DEF Visit, CutInv, ScanInv, StageInv, PathInv, Unrefused, BeforeScan, ActionDecision,
        runVars, candidateVars
  <2>6. BlameInv'
    BY <1>4, FS_AddElement DEF Visit, BlameInv, candidateVars
  <2>7. NoCandidateLost'
    BY <1>4, <2>1, ProblemsStay, SkippedStays
    DEF Visit, NoCandidateLost, Unrefused, StageInv, BeforeScan, Execute, Option,
        candidateVars
  <2>8. ResultIsTrue'
    BY <1>4
    DEF Visit, ResultIsTrue, StageInv, ExitInv, ScanInv, Unrefused, BeforeScan,
        candidateVars
  <2>9. QED
    BY <1>0, <2>1, <2>2, <2>3, <2>4, <2>5, <2>6, <2>7, <2>8
<1>5. CASE ScanAborts
  <2>1. Kept
    BY <1>5 DEF ScanAborts, Warn, Log, runVars, stageVars, candidateVars
  <2>2. Typed
    BY <1>5, RowsStayTyped
    DEF ScanAborts, Warn, Kinds, Statuses, Stages, runVars, candidateVars
  <2>3. OnCourse
    BY <1>5
    DEF ScanAborts, Warn, GateInv, StageInv, ExitInv, Unrefused, MayExecute, Execute,
        Option, runVars, stageVars, serviceVars, processVars, taskVars, candidateVars
  <2>4. ByChoice
    BY <1>5
    DEF ScanAborts, Warn, PathInv, ChoiceInv, BeforeScan, ActionDecision, Execute, Option,
        runVars, candidateVars
  <2>5. Whole
    BY <1>5
    DEF ScanAborts, Warn, CutInv, ScanInv, StageInv, PathInv, Unrefused, BeforeScan,
        ActionDecision, runVars, candidateVars
  <2>6. BlameInv'
    BY <1>5, FS_AddElement DEF ScanAborts, Warn, BlameInv, candidateVars
  <2>7. NoCandidateLost'
    BY <1>5, <2>1, ProblemsStay, SkippedStays
    DEF ScanAborts, Warn, NoCandidateLost, Unrefused, StageInv, BeforeScan, Execute, Option,
        candidateVars
  <2>8. ResultIsTrue'
    BY <1>5
    DEF ScanAborts, Warn, ResultIsTrue, StageInv, ExitInv, ScanInv, Unrefused, BeforeScan,
        candidateVars
  <2>9. QED
    BY <1>0, <2>1, <2>2, <2>3, <2>4, <2>5, <2>6, <2>7, <2>8
<1>6. CASE Scanned
  <2>1. Kept
    BY <1>6 DEF Scanned, Log, runVars, stageVars, candidateVars
  <2>2. Typed
    BY <1>6, RowsStayTyped DEF Scanned, Kinds, Statuses, Stages, runVars, candidateVars
  <2>3. OnCourse
    BY <1>6
    DEF Scanned, GateInv, StageInv, ExitInv, Unrefused, MayExecute, Execute, Option,
        runVars, stageVars, serviceVars, processVars, taskVars, candidateVars
  <2>4. ByChoice
    BY <1>6
    DEF Scanned, PathInv, ChoiceInv, BeforeScan, ActionDecision, Execute, Option, runVars,
        candidateVars
  <2>5. Whole
    BY <1>6
    DEF Scanned, CutInv, ScanInv, StageInv, PathInv, Unrefused, BeforeScan, ActionDecision,
        runVars, candidateVars
  <2>6. BlameInv'
    BY <1>6, FS_AddElement DEF Scanned, BlameInv, candidateVars
  <2>7. NoCandidateLost'
    BY <1>6, <2>1, ProblemsStay, SkippedStays
    DEF Scanned, NoCandidateLost, Unrefused, StageInv, BeforeScan, Execute, Option,
        candidateVars
  <2>8. ResultIsTrue'
    BY <1>6
    DEF Scanned, ResultIsTrue, StageInv, ExitInv, ScanInv, Unrefused, BeforeScan,
        candidateVars
  <2>9. QED
    BY <1>0, <2>1, <2>2, <2>3, <2>4, <2>5, <2>6, <2>7, <2>8
<1>7. CASE RemovalAborts
  <2>1. Kept
    BY <1>7 DEF RemovalAborts, Log, runVars, stageVars, candidateVars
  <2>2. Typed
    BY <1>7, RowsStayTyped
    DEF RemovalAborts, Kinds, Statuses, Stages, runVars, candidateVars
  <2>3. OnCourse
    BY <1>7
    DEF RemovalAborts, GateInv, StageInv, ExitInv, Unrefused, MayExecute, Execute, Option,
        runVars, stageVars, serviceVars, processVars, taskVars, candidateVars
  <2>4. ByChoice
    BY <1>7
    DEF RemovalAborts, PathInv, ChoiceInv, BeforeScan, ActionDecision, Execute, Option,
        runVars, candidateVars
  <2>5. Whole
    BY <1>7
    DEF RemovalAborts, CutInv, ScanInv, StageInv, PathInv, Unrefused, BeforeScan,
        ActionDecision, runVars, candidateVars
  <2>6. BlameInv'
    BY <1>7, FS_AddElement DEF RemovalAborts, BlameInv, candidateVars
  <2>7. NoCandidateLost'
    BY <1>7, <2>1, ProblemsStay, SkippedStays
    DEF RemovalAborts, NoCandidateLost, Unrefused, StageInv, BeforeScan, Execute, Option,
        candidateVars
  <2>8. ResultIsTrue'
    BY <1>7
    DEF RemovalAborts, ResultIsTrue, StageInv, ExitInv, ScanInv, Unrefused, BeforeScan,
        candidateVars
  <2>9. QED
    BY <1>0, <2>1, <2>2, <2>3, <2>4, <2>5, <2>6, <2>7, <2>8
<1>8. ASSUME NEW c \in Candidates, Remove(c)
      PROVE  IInv'
  <2>1. Kept
    BY <1>8 DEF Remove, Passed, Log, runVars, stageVars, candidateVars
  <2>2. Typed
    <3>1. RunTypeOK'
      BY <1>8, RowsStayTyped DEF Remove, Passed, Kinds, Statuses
    <3>2. \/ last' = last
          \/ \E status \in {"SKIP", "DRYRUN", "deleted"} : last' = [last EXCEPT ![c] = status]
      BY <1>8 DEF Remove, Passed
    <3>3. last' \in [Candidates -> {"none", "SKIP", "DRYRUN", "deleted", "deferred",
                                   "WARN", "scheduled"}]
      BY <3>2
    <3>4. path' \in [Candidates -> BOOLEAN] /\ now' \in Candidates \cup {"none"}
          /\ stage' \in Stages
      BY <1>8, ZenonT(30) DEF Remove, Passed, Stages
    <3>5. QED
      BY <1>8, <3>1, <3>3, <3>4 DEF Remove
  <2>3. OnCourse
    BY <1>8
    DEF Remove, Passed, GateInv, StageInv, ExitInv, Unrefused, MayExecute, Execute, Option,
        runVars, stageVars, serviceVars, processVars, taskVars, candidateVars
  <2>4. ByChoice
    BY <1>8
    DEF Remove, Passed, PathInv, ChoiceInv, BeforeScan, ActionDecision, Execute, Option,
        runVars, candidateVars
  <2>5. Whole
    BY <1>8
    DEF Remove, Passed, CutInv, ScanInv, StageInv, PathInv, Unrefused, BeforeScan,
        ActionDecision, runVars, candidateVars
  <2>6. BlameInv'
    BY <1>8, FS_AddElement DEF Remove, Passed, BlameInv, candidateVars
  <2>7. NoCandidateLost'
    <3>1. c \in found
      BY <1>8 DEF Remove
    <3>2. \/ ~path'[c]
          \/ stage' = "blame" /\ now' = c
          \/ ~Execute
          \/ Skipped'
      <4>1. ActionDecision(c) = "Allowed"
        BY <3>1 DEF ChoiceInv
      <4>2. Log("DeletePath", c, "SKIP") => Skipped'
        BY <2>1, <4>1, SkipShows
      <4>3. \/ Log("DeletePath", c, "SKIP")
            \/ ~Execute
            \/ path' = [path EXCEPT ![c] = FALSE]
            \/ stage' = "blame" /\ now' = c
        BY <1>8 DEF Remove, Passed
      <4>4. path' = [path EXCEPT ![c] = FALSE] => ~path'[c]
        OBVIOUS
      <4>5. QED
        BY <4>2, <4>3, <4>4
    <3>3. QED
      BY <1>8, <2>1, <3>1, <3>2, ProblemsStay, SkippedStays
      DEF Remove, Passed, NoCandidateLost, Unrefused, StageInv, BeforeScan, Execute, Option
  <2>8. ResultIsTrue'
    BY <1>8
    DEF Remove, Passed, ResultIsTrue, StageInv, ExitInv, ScanInv, Unrefused, BeforeScan,
        candidateVars
  <2>9. QED
    BY <1>0, <2>1, <2>2, <2>3, <2>4, <2>5, <2>6, <2>7, <2>8
<1>9. CASE Blame
  <2>1. Kept
    BY <1>9 DEF Blame, WithinBudget, Log, runVars, stageVars, candidateVars
  <2>2. Typed
    <3>1. now \in Candidates
      BY <1>9 DEF Blame, ChoiceInv
    <3>2. Log("DeletePath", now, "INFO") \/ Log("DeletePath", now, "WARN")
      BY <1>9 DEF Blame
    <3>3. rows' \subseteq RowType
      BY <3>1, <3>2, RowsStayTyped DEF Kinds, Statuses
    <3>4. CandidateTypeOK'
      BY <1>9, <3>1 DEF Blame, Stages
    <3>5. QED
      BY <1>9, <3>3, <3>4 DEF Blame
  <2>3. OnCourse
    BY <1>9
    DEF Blame, WithinBudget, GateInv, StageInv, ExitInv, Unrefused, MayExecute, Execute,
        Option, runVars, stageVars, serviceVars, processVars, taskVars, candidateVars
  <2>4. ByChoice
    BY <1>9
    DEF Blame, WithinBudget, PathInv, ChoiceInv, BeforeScan, ActionDecision, Execute,
        Option, runVars, candidateVars
  <2>5. Whole
    BY <1>9
    DEF Blame, WithinBudget, CutInv, ScanInv, StageInv, PathInv, Unrefused, BeforeScan,
        ActionDecision, runVars, candidateVars
  <2>6. BlameInv'
    <3>1. now \in Candidates
      BY <1>9 DEF Blame, ChoiceInv
    <3>2. /\ \/ looked' = looked
             \/ looked' = looked \cup {now} /\ WithinBudget
          /\ aborted' = aborted /\ loaded' = loaded
          /\ \/ /\ last' = [last EXCEPT ![now] = "deferred"]
                /\ Option("schedule") /\ now \in looked' \cup loaded
             \/ last' = [last EXCEPT ![now] = "WARN"]
          /\ stage = "blame" /\ now' = now /\ (Option("schedule") => stage' = "queue")
      BY <1>9 DEF Blame
    <3>3. IsFiniteSet(looked') /\ Cardinality(looked') <= MaxLookups
      <4>1. CASE looked' = looked
        BY <4>1 DEF BlameInv
      <4>2. CASE looked' = looked \cup {now} /\ WithinBudget
        <5>1. /\ IsFiniteSet(looked \cup {now})
              /\ \/ Cardinality(looked \cup {now}) = Cardinality(looked)
                 \/ Cardinality(looked \cup {now}) = Cardinality(looked) + 1
          BY FS_AddElement DEF BlameInv
        <5>2. Cardinality(looked) \in Nat /\ Cardinality(looked) < MaxLookups
          BY <4>2, FS_CardinalityType DEF BlameInv, WithinBudget
        <5>3. QED
          BY <4>2, <5>1, <5>2
      <4>3. QED
        BY <3>2, <4>1, <4>2
    <3>4. looked \subseteq looked'
      BY <3>2
    <3>5. QED
      BY <3>1, <3>2, <3>3, <3>4 DEF BlameInv
  <2>7. NoCandidateLost'
    <3>1. stage' = "queue" \/ Problems'
      BY <1>9, LoggedIsKept DEF Blame
    <3>2. QED
      BY <1>9, <2>1, <3>1, ProblemsStay, SkippedStays
      DEF Blame, NoCandidateLost, Unrefused, StageInv, BeforeScan, Execute, Option
  <2>8. ResultIsTrue'
    BY <1>9
    DEF Blame, WithinBudget, ResultIsTrue, StageInv, ExitInv, ScanInv, Unrefused,
        BeforeScan, candidateVars
  <2>9. QED
    BY <1>0, <2>1, <2>2, <2>3, <2>4, <2>5, <2>6, <2>7, <2>8
<1>10. CASE Queue
  <2>1. Kept
    BY <1>10 DEF Queue, Log, runVars, stageVars, candidateVars
  <2>2. Typed
    <3>1. now \in Candidates
      BY <1>10 DEF Queue, ChoiceInv
    <3>2. RunTypeOK'
      BY <1>10, <3>1, RowsStayTyped DEF Queue, Kinds, Statuses
    <3>3. \/ last' = last
          \/ \E status \in {"scheduled", "WARN"} : last' = [last EXCEPT ![now] = status]
      BY <1>10 DEF Queue
    <3>4. last' \in [Candidates -> {"none", "SKIP", "DRYRUN", "deleted", "deferred",
                                   "WARN", "scheduled"}]
      BY <3>1, <3>3
    <3>5. queued' \subseteq Candidates /\ aborted' \in BOOLEAN /\ stage' \in Stages
      BY <1>10, <3>1, ZenonT(30) DEF Queue, Stages
    <3>6. QED
      BY <1>10, <3>2, <3>4, <3>5 DEF Queue
  <2>3. OnCourse
    BY <1>10
    DEF Queue, GateInv, StageInv, ExitInv, Unrefused, MayExecute, Execute, Option, runVars,
        stageVars, serviceVars, processVars, taskVars, candidateVars
  <2>4. ByChoice
    BY <1>10
    DEF Queue, PathInv, ChoiceInv, BeforeScan, ActionDecision, Execute, Option, runVars,
        candidateVars
  <2>5. Whole
    BY <1>10
    DEF Queue, CutInv, ScanInv, StageInv, PathInv, Unrefused, BeforeScan, ActionDecision,
        runVars, candidateVars
  <2>6. BlameInv'
    BY <1>10, FS_AddElement DEF Queue, BlameInv, candidateVars
  <2>7. NoCandidateLost'
    <3>1. aborted' \/ now \in queued' \/ Problems'
      BY <1>10, LoggedIsKept DEF Queue
    <3>2. QED
      BY <1>10, <2>1, <3>1, ProblemsStay, SkippedStays
      DEF Queue, NoCandidateLost, Unrefused, BeforeScan, Execute, Option
  <2>8. ResultIsTrue'
    BY <1>10
    DEF Queue, ResultIsTrue, StageInv, ExitInv, ScanInv, Unrefused, BeforeScan,
        candidateVars
  <2>9. QED
    BY <1>0, <2>1, <2>2, <2>3, <2>4, <2>5, <2>6, <2>7, <2>8
<1>11. CASE Removed
  <2>1. Kept
    BY <1>11 DEF Removed, Log, runVars, stageVars, candidateVars
  <2>2. Typed
    BY <1>11, RowsStayTyped DEF Removed, Kinds, Statuses, Stages, runVars, candidateVars
  <2>3. OnCourse
    BY <1>11
    DEF Removed, GateInv, StageInv, ExitInv, Unrefused, MayExecute, Execute, Option,
        runVars, stageVars, serviceVars, processVars, taskVars, candidateVars
  <2>4. ByChoice
    BY <1>11
    DEF Removed, PathInv, ChoiceInv, BeforeScan, ActionDecision, Execute, Option, runVars,
        candidateVars
  <2>5. Whole
    BY <1>11
    DEF Removed, CutInv, ScanInv, StageInv, PathInv, Unrefused, BeforeScan, ActionDecision,
        runVars, candidateVars
  <2>6. BlameInv'
    BY <1>11, FS_AddElement DEF Removed, BlameInv, candidateVars
  <2>7. NoCandidateLost'
    BY <1>11, <2>1, ProblemsStay, SkippedStays
    DEF Removed, NoCandidateLost, Unrefused, StageInv, BeforeScan, Execute, Option,
        candidateVars
  <2>8. ResultIsTrue'
    BY <1>11
    DEF Removed, ResultIsTrue, StageInv, ExitInv, ScanInv, Unrefused, BeforeScan,
        candidateVars
  <2>9. QED
    BY <1>0, <2>1, <2>2, <2>3, <2>4, <2>5, <2>6, <2>7, <2>8
<1>12. CASE Report
  <2>1. Kept
    BY <1>12
    DEF Report, ResultLines, Remaining, PendingReboot, Log, runVars, stageVars,
        candidateVars
  <2>2. Typed
    BY <1>12, RowsStayTyped
    DEF Report, ResultLines, Remaining, PendingReboot, Kinds, Statuses, Stages, runVars,
        candidateVars
  <2>3. OnCourse
    BY <1>12
    DEF Report, ResultLines, Remaining, PendingReboot, GateInv, StageInv, ExitInv,
        Unrefused, MayExecute, Execute, Option, runVars, stageVars, serviceVars,
        processVars, taskVars, candidateVars
  <2>4. ByChoice
    BY <1>12
    DEF Report, ResultLines, Remaining, PendingReboot, PathInv, ChoiceInv, BeforeScan,
        ActionDecision, Execute, Option, runVars, candidateVars
  <2>5. Whole
    BY <1>12
    DEF Report, ResultLines, Remaining, PendingReboot, CutInv, ScanInv, StageInv, PathInv,
        Unrefused, BeforeScan, ActionDecision, runVars, candidateVars
  <2>6. BlameInv'
    BY <1>12, FS_AddElement
    DEF Report, ResultLines, Remaining, PendingReboot, BlameInv, candidateVars
  <2>7. NoCandidateLost'
    BY <1>12, <2>1, ProblemsStay, SkippedStays
    DEF Report, ResultLines, Remaining, PendingReboot, NoCandidateLost, Unrefused, StageInv,
        BeforeScan, Execute, Option, candidateVars
  <2>8. ResultIsTrue'
    <3>1. stage = "report" /\ found' = found /\ path' = path /\ aborted' = aborted
          /\ given' = given /\ lines' = ResultLines /\ exit' = (IF aborted THEN 3 ELSE 0)
      BY <1>12 DEF Report, runVars
    <3>2. "clean" \in lines' => found = {}
      BY <3>1 DEF ResultLines
    <3>3. "removedAll" \in lines' => \A c \in found : ~path[c]
      BY <3>1 DEF ResultLines, Remaining
    <3>4. ~aborted => \A c \in Candidates \cap given.present :
                        ActionDecision(c) = "Allowed" => c \in found
      BY <3>1 DEF ScanInv, StageInv, Unrefused, BeforeScan
    <3>5. QED
      BY <3>1, <3>2, <3>3, <3>4 DEF ResultIsTrue, ActionDecision
  <2>9. QED
    BY <1>0, <2>1, <2>2, <2>3, <2>4, <2>5, <2>6, <2>7, <2>8
<1>13. QED
  BY <1>1, <1>2, <1>3, <1>4, <1>5, <1>6, <1>7, <1>8, <1>9, <1>10, <1>11, <1>12

LEMMA BesideKeeps ==
  ASSUME IInv, Environment
  PROVE  IInv'
<1> USE DEF IInv, RunInv, TypeOK, RunTypeOK, CandidateTypeOK, runVars, candidateVars
<1>1. CASE CtrlC
  <2>1. ServiceInv' /\ ProcessInv' /\ TaskInv'
    BY <1>1, StagesKept DEF CtrlC
  <2>2. GateInv' /\ StageInv' /\ ExitInv' /\ PathInv' /\ ChoiceInv' /\ CutInv' /\ ScanInv'
        /\ BlameInv' /\ ResultIsTrue'
    BY <1>1
    DEF CtrlC, stageVars, serviceVars, processVars, taskVars, GateInv, StageInv, ExitInv,
        PathInv, ChoiceInv, CutInv, ScanInv, BlameInv, ResultIsTrue, Unrefused, BeforeScan,
        MayExecute, ActionDecision, Execute, Option
  <2>3. NoCandidateLost'
    BY <1>1
    DEF CtrlC, NoCandidateLost, Unrefused, BeforeScan, Problems, Skipped, ActionDecision,
        Execute, Option
  <2>4. CandidateTypeOK' /\ RunTypeOK'
    BY <1>1 DEF CtrlC
  <2>5. QED
    BY <2>1, <2>2, <2>3, <2>4 DEF ServiceInv, ProcessInv, TaskInv
<1>2. ASSUME NEW c \in Candidates, HolderChanges(c)
      PROVE  IInv'
  <2>1. ServiceInv' /\ ProcessInv' /\ TaskInv'
    BY <1>2, StagesKept DEF HolderChanges
  <2>2. GateInv' /\ StageInv' /\ ExitInv' /\ PathInv' /\ ChoiceInv' /\ CutInv' /\ ScanInv'
        /\ BlameInv' /\ ResultIsTrue'
    BY <1>2
    DEF HolderChanges, stageVars, serviceVars, processVars, taskVars, GateInv, StageInv,
        ExitInv, PathInv, ChoiceInv, CutInv, ScanInv, BlameInv, ResultIsTrue, Unrefused,
        BeforeScan, MayExecute, ActionDecision, Execute, Option
  <2>3. NoCandidateLost'
    BY <1>2
    DEF HolderChanges, NoCandidateLost, Unrefused, BeforeScan, Problems, Skipped,
        ActionDecision, Execute, Option
  <2>4. CandidateTypeOK' /\ RunTypeOK'
    BY <1>2 DEF HolderChanges
  <2>5. QED
    BY <2>1, <2>2, <2>3, <2>4 DEF ServiceInv, ProcessInv, TaskInv
<1>3. ASSUME UNCHANGED <<runVars, stage, exit, candidateVars, spc, kpc, tpc>>,
             ServiceInv', ProcessInv', TaskInv'
      PROVE  IInv'
  <2>1. GateInv' /\ StageInv' /\ ExitInv' /\ PathInv' /\ ChoiceInv' /\ CutInv' /\ ScanInv'
        /\ BlameInv' /\ ResultIsTrue'
    BY <1>3
    DEF GateInv, StageInv, ExitInv, PathInv, ChoiceInv, CutInv, ScanInv, BlameInv,
        ResultIsTrue, Unrefused, BeforeScan, MayExecute, ActionDecision, Execute, Option
  <2>2. NoCandidateLost'
    BY <1>3
    DEF NoCandidateLost, Unrefused, BeforeScan, Problems, Skipped, ActionDecision, Execute,
        Option
  <2>3. CandidateTypeOK' /\ RunTypeOK'
    BY <1>3
  <2>4. QED
    BY <1>3, <2>1, <2>2, <2>3 DEF ServiceInv, ProcessInv, TaskInv
<1>4. CASE ServicesGoOn /\ UNCHANGED <<processVars, taskVars, stage, exit, candidateVars>>
  <2>1. ServiceInv' /\ UNCHANGED <<runVars, spc>>
    BY <1>4, ServiceInvBeside DEF ServicesGoOn
  <2>2. ProcessInv' /\ TaskInv'
    BY <1>4, <2>1, ProcessInvKept, TaskInvKept
  <2>3. QED
    BY <1>3, <1>4, <2>1, <2>2 DEF processVars, taskVars
<1>5. CASE ToolGoesOn /\ UNCHANGED <<serviceVars, processVars, stage, exit, candidateVars>>
  <2>1. TaskInv' /\ UNCHANGED <<runVars, tpc>>
    BY <1>5, TaskInvBeside DEF ToolGoesOn
  <2>2. ServiceInv' /\ ProcessInv'
    BY <1>5, <2>1, ServiceInvKept, ProcessInvKept
  <2>3. QED
    BY <1>3, <1>5, <2>1, <2>2 DEF serviceVars, processVars
<1>6. CASE ProcessesGoOn /\ UNCHANGED <<serviceVars, taskVars, stage, exit, candidateVars>>
  <2>1. ProcessInv' /\ UNCHANGED <<runVars, kpc>>
    BY <1>6, ProcessInvBeside DEF ProcessesGoOn
  <2>2. ServiceInv' /\ TaskInv'
    BY <1>6, <2>1, ServiceInvKept, TaskInvKept
  <2>3. QED
    BY <1>3, <1>6, <2>1, <2>2 DEF serviceVars, taskVars
<1>7. QED
  BY <1>1, <1>2, <1>4, <1>5, <1>6 DEF Environment

LEMMA StutterKeeps ==
  ASSUME IInv, UNCHANGED vars
  PROVE  IInv'
<1> USE DEF vars, runVars, candidateVars
<1>1. ServiceInv' /\ ProcessInv' /\ TaskInv'
  BY StagesKept
<1>2. GateInv' /\ StageInv' /\ ExitInv' /\ PathInv' /\ ChoiceInv' /\ CutInv' /\ ScanInv'
      /\ BlameInv' /\ ResultIsTrue'
  BY DEF IInv, RunInv, stageVars, serviceVars, processVars, taskVars, GateInv, StageInv,
         ExitInv, PathInv, ChoiceInv, CutInv, ScanInv, BlameInv, ResultIsTrue, Unrefused,
         BeforeScan, MayExecute, ActionDecision, Execute, Option
<1>3. NoCandidateLost' /\ CandidateTypeOK' /\ RunTypeOK'
  BY DEF IInv, RunInv, TypeOK, RunTypeOK, CandidateTypeOK, NoCandidateLost, Unrefused,
         BeforeScan, Problems, Skipped, ActionDecision, Execute, Option
<1>4. QED
  BY <1>1, <1>2, <1>3 DEF IInv, RunInv, TypeOK, ServiceInv, ProcessInv, TaskInv

LEMMA NextKeeps == IInv /\ [Next]_vars => IInv'
<1> SUFFICES ASSUME IInv, [Next]_vars
             PROVE  IInv'
  OBVIOUS
<1>1. CASE Services_ \/ Processes_ \/ Tasks_
  BY <1>1, ServicesKeep, ProcessesKeep, TasksKeep
<1>2. CASE Environment
  BY <1>2, BesideKeeps
<1>3. CASE UNCHANGED vars
  BY <1>3, StutterKeeps
<1>4. QED
  BY <1>1, <1>2, <1>3, RunStepKeeps DEF Next, RunStep

LEMMA Inductive == Spec => []IInv
BY InitHolds, NextKeeps, PTL DEF Spec

(***************************************************************************)
(* What follows.                                                           *)
(***************************************************************************)
\* The type invariant holds in every run on every machine.
THEOREM TypeCorrect == Spec => []TypeOK
<1>1. IInv => TypeOK
  BY DEF IInv, RunInv
<1>2. QED
  BY <1>1, Inductive, PTL

\* A run with a search root whose exit code is 0 was kept from nothing by an
\* abort (run_cleanup looks at the request only in some of its stages).
THEOREM NothingIsCutShort == Spec => []CompletedIsWhole
<1>1. IInv => CompletedIsWhole
  <2> SUFFICES ASSUME IInv, exit = 0, NEW c \in Candidates, c \in given.present
               PROVE  cut = {}
    BY DEF CompletedIsWhole
  <2>1. stage = "exited" /\ ~aborted
    BY DEF IInv, RunInv, StageInv, ExitInv
  <2>2. QED
    BY <2>1 DEF IInv, RunInv, CutInv
<1>2. QED
  BY <1>1, Inductive, PTL

\* capture_process returns nothing but the whole output of a tool that ended
\* by itself, however the turns of its wait fall.
THEOREM CaptureIsComplete == Spec => []CaptureIsWhole
<1>1. IInv => CaptureIsWhole
  BY DEF IInv, TaskInv, ToolIsOver, ToolDoesItsWork, CaptureIsWhole
<1>2. QED
  BY <1>1, Inductive, PTL

\* The verdict "will be deleted at the next restart" is no completed run's
\* last word on a candidate, and look-ups stay within their budget.
THEOREM BlameHasGround == Spec => []BlameIsGrounded
<1>1. IInv => BlameIsGrounded
  <2> SUFFICES ASSUME IInv
               PROVE  BlameIsGrounded
    OBVIOUS
  <2>1. exit = 0 => stage = "exited" /\ ~aborted
    BY DEF IInv, RunInv, StageInv, ExitInv
  <2>2. QED
    BY <2>1 DEF IInv, RunInv, BlameInv, BlameIsGrounded
<1>2. QED
  BY <1>1, Inductive, PTL

\* result_lines says "already clean" and "removed all" only when it is so.
THEOREM ResultLinesAreTrue == Spec => []ResultIsTrue
<1>1. IInv => ResultIsTrue
  BY DEF IInv, RunInv
<1>2. QED
  BY <1>1, Inductive, PTL

\* A run that ends with exit code 0 without a warning and without a skipped
\* target has done all its work, in all its stages.
THEOREM QuietMeansClean == Spec => []QuietRunIsClean
<1>1. IInv => QuietRunIsClean
  <2> SUFFICES ASSUME IInv, exit = 0, Execute, Undisturbed, ~Problems, ~Skipped
               PROVE  /\ \A s \in Services \cap given.present : Chosen(s) => ServiceSettled(s)
                      /\ Option("kill") =>
                           \A p \in Processes \cap given.present : Approved(p) => ProcessSettled(p)
                      /\ TaskOption =>
                           \A t \in Tasks \cap given.present : Chosen(t) => TaskSettled(t)
                      /\ \A c \in Candidates \cap given.present :
                           Allowed(c) => ~path[c] \/ c \in queued
    BY DEF QuietRunIsClean
  <2>1. stage = "exited" /\ Unrefused /\ ~aborted
    BY DEF IInv, RunInv, StageInv, Unrefused, ExitInv
  <2>2. spc = "done" /\ kpc = "done" /\ tpc = "done"
    BY <2>1 DEF IInv, RunInv, StageInv
  <2>3. ~Fault("restart") /\ ~Fault("reuse") /\ ~Fault("enumerate") /\ ~Fault("schtasks")
    BY DEF Undisturbed, Fault
  <2>4. \A s \in Services \cap given.present : Chosen(s) => ServiceSettled(s)
    BY <2>2, <2>3 DEF IInv, ServiceInv, NoServiceLost, ServicesQuiet, ServiceBusy
  <2>5. Option("kill") =>
          \A p \in Processes \cap given.present : Approved(p) => ProcessSettled(p)
    BY <2>2, <2>3 DEF IInv, ProcessInv, NoProcessLost, ProcessesQuiet, ProcessSettled
  <2>6. TaskOption => \A t \in Tasks \cap given.present : Chosen(t) => TaskSettled(t)
    BY <2>2, <2>3 DEF IInv, TaskInv, NoTaskLost, TasksQuiet
  <2>7. ASSUME NEW c \in Candidates \cap given.present, Allowed(c)
        PROVE  ~path[c] \/ c \in queued
    <3>1. c \in found
      BY <2>1, <2>7 DEF IInv, RunInv, ScanInv, BeforeScan, Allowed
    <3>2. QED
      BY <2>1, <3>1 DEF IInv, RunInv, NoCandidateLost, BeforeScan
  <2>8. QED
    BY <2>4, <2>5, <2>6, <2>7
<1>2. QED
  BY <1>1, Inductive, PTL

(***************************************************************************)
(* What is touched.                                                        *)
(***************************************************************************)
TouchedService(s) ==
  \/ service'[s].start # service[s].start
  \/ service'[s].registered # service[s].registered
  \/ service'[s].status = "stopping" /\ service[s].status # "stopping"

LEMMA ServiceTouches ==
  ASSUME ServiceInv, ServiceStep, NEW s \in Services, TouchedService(s)
  PROVE  Chosen(s)
<1>1. service # service'
  BY DEF TouchedService
<1>2. ServiceStep => \/ service' = service
                     \/ /\ spc \in {"control", "disable", "delete"}
                        /\ \/ service' = [service EXCEPT ![sNow].status = "stopping"]
                           \/ service' = [service EXCEPT ![sNow].start = "disabled"]
                           \/ service' = [service EXCEPT ![sNow].registered = FALSE]
  BY DEF ServiceStep, SkipServices, ServicesUnavailable, ListServices, ServicesDone,
         LeaveServiceAlone, DryRunService, TakeService, OpenService, ObserveService,
         ControlService, AwaitStopped, DisableService, DeleteService
<1>3. sNow \in Services /\ Chosen(sNow)
  BY <1>1, <1>2 DEF ServiceInv, ServiceTypeOK, OpenIsChosen, ServiceBusy
<1>4. service \in [Services -> ServiceType]
  BY DEF ServiceInv, ServiceTypeOK, ServiceType
<1>5. \A q \in Services : q # sNow => ~TouchedService(q)
  BY <1>1, <1>2, <1>3, <1>4, StatusSet, StartSet, RegisteredSet DEF TouchedService
<1>6. QED
  BY <1>3, <1>5

LEMMA ServicesTouchNothing ==
  ASSUME ServiceInv, ServicesGoOn, NEW s \in Services
  PROVE  ~TouchedService(s)
<1>1. service \in [Services -> ServiceType]
  BY DEF ServiceInv, ServiceTypeOK, ServiceType
<1>2. PICK q \in Services : \E v \in {"stopped", "running"} :
        service' = [service EXCEPT ![q].status = v]
  BY DEF ServicesGoOn, ServiceStops, ServiceCrashes, ServiceRestarts
<1>3. QED
  BY <1>1, <1>2, StatusSet DEF TouchedService

LEMMA ProcessTouches ==
  ASSUME ProcessInv, KillStep, NEW p \in Processes, life'[p] = "exiting", life[p] # "exiting"
  PROVE  Approved(p)
<1>1. CASE Terminate
  <2>1. kAt \in 1 .. Len(targets) /\ targets[kAt].process \in Processes
    BY <1>1, TargetAt DEF Terminate
  <2>2. p = targets[kAt].process
    BY <1>1, <2>1 DEF Terminate, ProcessInv, ProcessTypeOK
  <2>3. QED
    BY <2>1, <2>2 DEF ProcessInv, TargetsApproved, Approved, NamedTarget, ImageVerified
<1>2. CASE ~Terminate
  BY <1>2
  DEF KillStep, SkipKill, SnapshotFails, Snapshot, AllOpened, LeaveProcessAlone,
      OpenAndVerify, AllTerminated, Converge, AllConverged
<1>3. QED
  BY <1>1, <1>2

LEMMA CandidateTouches ==
  ASSUME IInv, RunStep \/ Environment, NEW c \in Candidates,
         path'[c] # path[c] \/ (c \in queued' \ queued)
  PROVE  Allowed(c) /\ c \notin Protected
<1> USE DEF IInv, RunInv, TypeOK, CandidateTypeOK
<1>1. \/ \E d \in Candidates : Remove(d) /\ path' # path /\ queued' = queued
      \/ Queue /\ path' = path /\ queued' # queued
  BY
  DEF RunStep, ProbeLog, Gate, Services_, Processes_, Tasks_, Inspect, Visit, Remove,
      Passed,
         ScanAborts, Scanned, RemovalAborts, Blame, Queue, Removed, Report, Environment,
         CtrlC, HolderChanges, candidateVars
<1>2. MayExecute /\ c \in found
  BY <1>1 DEF Remove, Passed, Queue, GateInv, ChoiceInv
<1>3. Execute /\ c \notin Protected
  BY <1>1 DEF Remove, Passed, Queue, ChoiceInv
<1>4. QED
  BY <1>2, <1>3 DEF Allowed, ChoiceInv

\* Whatever a run changes, terminates, deletes or queues belongs to a selected
\* component, in a run that executes and was let through the gate.
THEOREM TouchesOnlyAllowed == Spec => TouchesAreAllowed
<1> DEFINE Touches ==
      /\ \A s \in Services : TouchedService(s) => Allowed(s) /\ s \in Anchored
      /\ \A p \in Processes :
           life'[p] = "exiting" /\ life[p] # "exiting" => MayExecute /\ Approved(p)
      /\ \A t \in Tasks : task'[t] # task[t] => Allowed(t) /\ t \in Anchored
      /\ \A c \in Candidates :
           path'[c] # path[c] \/ (c \in queued' \ queued) => Allowed(c) /\ c \notin Protected
<1>1. ASSUME IInv, [Next]_vars
      PROVE  Touches
  <2>1. \A s \in Services : TouchedService(s) => Allowed(s) /\ s \in Anchored
    <3> SUFFICES ASSUME NEW s \in Services, TouchedService(s)
                 PROVE  Allowed(s) /\ s \in Anchored
      OBVIOUS
    <3>1. service' # service
      BY DEF TouchedService
    <3>2. Services_ \/ ServicesGoOn
      BY <1>1, <3>1
      DEF Next, RunStep, ProbeLog, Gate, Processes_, Tasks_, Inspect, Visit, Remove, ScanAborts,
          Scanned, RemovalAborts, Blame, Queue, Removed, Report, Environment, CtrlC,
          HolderChanges, vars, stageVars, serviceVars
    <3>3. Services_
      BY <1>1, <3>2, ServicesTouchNothing DEF IInv
    <3>4. Chosen(s) /\ MayExecute
      BY <1>1, <3>3, ServiceTouches DEF IInv, RunInv, GateInv, Services_
    <3>5. QED
      BY <3>4 DEF Chosen, Allowed
  <2>2. \A p \in Processes :
          life'[p] = "exiting" /\ life[p] # "exiting" => MayExecute /\ Approved(p)
    <3> SUFFICES ASSUME NEW p \in Processes, life'[p] = "exiting", life[p] # "exiting"
                 PROVE  MayExecute /\ Approved(p)
      OBVIOUS
    <3>1. Processes_ \/ ProcessesGoOn
      BY <1>1
      DEF Next, RunStep, ProbeLog, Gate, Services_, Tasks_, Inspect, Visit, Remove, ScanAborts,
          Scanned, RemovalAborts, Blame, Queue, Removed, Report, Environment, CtrlC,
          HolderChanges, vars, stageVars, processVars
    <3>2. ~ProcessesGoOn
      BY <1>1
      DEF ProcessesGoOn, ProcessExits, ProcessStarts, IInv, ProcessInv, ProcessTypeOK
    <3>3. QED
      BY <1>1, <3>1, <3>2, ProcessTouches DEF IInv, RunInv, GateInv, Processes_
  <2>3. \A t \in Tasks : task'[t] # task[t] => Allowed(t) /\ t \in Anchored
    <3> SUFFICES ASSUME NEW t \in Tasks, task'[t] # task[t]
                 PROVE  Allowed(t) /\ t \in Anchored
      OBVIOUS
    <3>1. ToolGoesOn
      BY <1>1
      DEF Next, RunStep, ProbeLog, Gate, Services_, Processes_, Tasks_, Inspect, Visit, Remove,
          ScanAborts, Scanned, RemovalAborts, Blame, Queue, Removed, Report, Environment,
          CtrlC, HolderChanges, vars, stageVars, taskVars, TaskStep, SkipTasks,
          EnumerateTasks, QueryTasks, TasksQueried, TaskChanged, TasksDone, LeaveTaskAlone,
          DryRunTask, ChangeTask
    <3>2. tpc = "changing" /\ t = tNow
      BY <1>1, <3>1
      DEF ToolGoesOn, SchtasksLists, SchtasksChanges, ToolFails, IInv, TaskInv, TaskTypeOK
    <3>3. Chosen(t) /\ MayExecute
      BY <1>1, <3>2 DEF IInv, RunInv, GateInv, TaskInv, ChangedIsChosen
    <3>4. QED
      BY <3>3 DEF Chosen, Allowed
  <2>4. \A c \in Candidates :
          path'[c] # path[c] \/ (c \in queued' \ queued) => Allowed(c) /\ c \notin Protected
    BY <1>1, CandidateTouches DEF Next, vars, candidateVars
  <2>5. QED
    BY <2>1, <2>2, <2>3, <2>4
<1>2. QED
  BY <1>1, Inductive, PTL DEF Spec, TouchesAreAllowed, TouchedService
=============================================================================
