---------------------------- MODULE ServiceStage ----------------------------
(***************************************************************************)
(* handle_services (actions.rs): every service of an enabled component is  *)
(* stopped, disabled and deleted, as the options say, one call after the   *)
(* other, each of which may fail for itself.  The service control manager  *)
(* and the services go on by themselves: a service that was told to stop   *)
(* stops some time later or never, may crash, and may be started again.    *)
(***************************************************************************)
EXTENDS CleanupState

CONSTANT Services   \* names of the Win32 services

VARIABLES
  service,    \* what the service control manager knows of each service
  spc,        \* the place in handle_services
  sTodo,      \* services of the listing not yet looked at
  sNow        \* the service that is open

serviceVars == <<service, spc, sTodo, sNow>>

ASSUME ServiceAssumption == Services \subseteq Targets

ServicePcs == {"start", "next", "open", "observe", "control", "await",
               "disable", "delete", "done"}

ServiceTypeOK ==
  /\ service \in [Services -> [status : {"running", "stopping", "stopped"},
                               start : {"enabled", "disabled"},
                               registered : BOOLEAN]]
  /\ spc \in ServicePcs
  /\ sTodo \subseteq Services
  /\ sNow \in Services \cup {"none"}
  /\ spc \in {"open", "observe", "control", "await", "disable", "delete"} => sNow \in Services

ServiceInit ==
  /\ service \in [Services -> [status : {"running", "stopped"}, start : {"enabled"},
                               registered : BOOLEAN]]
  /\ \A s \in Services :
       /\ service[s].registered <=> s \in given.present
       /\ service[s].status = "running" => service[s].registered
  /\ spc = "start"
  /\ sTodo = {}
  /\ sNow = "none"

ServiceOptions == {"kill", "disable", "delete"}

(***************************************************************************)
(* The listing.                                                            *)
(***************************************************************************)
SkipServices ==
  /\ spc = "start"
  /\ given.options \cap ServiceOptions = {}
  /\ spc' = "done"
  /\ UNCHANGED <<service, sTodo, sNow, runVars>>

\* OpenSCManager or EnumServicesStatusEx fails.
ServicesUnavailable ==
  /\ spc = "start"
  /\ given.options \cap ServiceOptions # {}
  /\ Fault("scm")
  /\ Warn
  /\ spc' = "done"
  /\ UNCHANGED <<service, sTodo, sNow, given, abort, cut>>

ListServices ==
  /\ spc = "start"
  /\ given.options \cap ServiceOptions # {}
  /\ sTodo' = {s \in Services : service[s].registered}
  /\ spc' = "next"
  /\ UNCHANGED <<service, sNow, runVars>>

LeaveServiceAlone(s) ==
  /\ spc = "next"
  /\ s \in sTodo
  /\ sTodo' = sTodo \ {s}
  /\ \/ /\ s \notin Anchored \/ ActionDecision(s) = "NotMatched"
        /\ rows' = rows
     \/ /\ s \in Anchored
        /\ ActionDecision(s) = "ComponentDisabled"
        /\ Log("Service", s, "SKIP")
  /\ UNCHANGED <<service, spc, sNow, given, abort, cut>>

DryRunService(s) ==
  /\ spc = "next"
  /\ s \in sTodo
  /\ s \in Anchored /\ ActionDecision(s) = "Allowed" /\ ~Execute
  /\ sTodo' = sTodo \ {s}
  /\ rows' = rows \cup
       {r \in {Row("StopService", s, "DRYRUN"), Row("DisableService", s, "DRYRUN"),
               Row("DeleteService", s, "DRYRUN")} :
          \/ (r.kind = "StopService" /\ Option("kill"))
          \/ (r.kind = "DisableService" /\ Option("disable"))
          \/ (r.kind = "DeleteService" /\ Option("delete"))}
  /\ UNCHANGED <<service, spc, sNow, given, abort, cut>>

TakeService(s) ==
  /\ spc = "next"
  /\ s \in sTodo
  /\ Chosen(s)
  /\ sTodo' = sTodo \ {s}
  /\ sNow' = s
  /\ spc' = "open"
  /\ UNCHANGED <<service, runVars>>

(***************************************************************************)
(* One service.  Each call can fail for itself and the next one is made    *)
(* all the same.                                                           *)
(***************************************************************************)
AfterStop ==
  IF Option("disable") THEN "disable" ELSE IF Option("delete") THEN "delete" ELSE "next"
AfterDisable == IF Option("delete") THEN "delete" ELSE "next"

OpenService ==
  /\ spc = "open"
  /\ \/ /\ Fault("open")
        /\ Log("Service", sNow, "WARN")
        /\ spc' = "next"
     \/ /\ rows' = rows
        /\ spc' = IF Option("kill") THEN "observe" ELSE AfterStop
  /\ UNCHANGED <<service, sTodo, sNow, given, abort, cut>>

\* ServiceHandle::stop observes first; a failed query counts as not stopped.
ObserveService ==
  /\ spc = "observe"
  /\ \/ /\ service[sNow].status = "stopped"
        /\ Log("StopService", sNow, "INFO")
        /\ spc' = AfterStop
     \/ /\ service[sNow].status # "stopped" \/ Fault("query")
        /\ rows' = rows
        /\ spc' = "control"
  /\ UNCHANGED <<service, sTodo, sNow, given, abort, cut>>

\* ControlService: a service that stopped since the look is
\* ERROR_SERVICE_NOT_ACTIVE, one that is stopping takes no further control.
ControlService ==
  /\ spc = "control"
  /\ \/ /\ service[sNow].status = "running"
        /\ service' = [service EXCEPT ![sNow].status = "stopping"]
        /\ rows' = rows
        /\ spc' = "await"
     \/ /\ service[sNow].status = "stopped"
        /\ Log("StopService", sNow, "INFO")
        /\ spc' = AfterStop
        /\ service' = service
     \/ /\ service[sNow].status = "stopping" \/ Fault("control")
        /\ Log("StopService", sNow, "WARN")
        /\ spc' = AfterStop
        /\ service' = service
  /\ UNCHANGED <<sTodo, sNow, given, abort, cut>>

\* Faulty: would take a stop that was asked for as one that happened.
AwaitNothing ==
  /\ spc = "await"
  /\ Log("StopService", sNow, "INFO")
  /\ spc' = AfterStop
  /\ UNCHANGED <<service, sTodo, sNow, given, abort, cut>>

\* wait_until_stopped: the status is read before the deadline is looked at.
AwaitStopped ==
  /\ spc = "await"
  /\ \/ /\ service[sNow].status = "stopped"
        /\ Log("StopService", sNow, "INFO")
     \/ /\ service[sNow].status # "stopped" \/ Fault("query")
        /\ Log("StopService", sNow, "WARN")
  /\ spc' = AfterStop
  /\ UNCHANGED <<service, sTodo, sNow, given, abort, cut>>

DisableService ==
  /\ spc = "disable"
  /\ \/ /\ service' = [service EXCEPT ![sNow].start = "disabled"]
        /\ Log("DisableService", sNow, "INFO")
     \/ /\ Fault("config")
        /\ Log("DisableService", sNow, "WARN")
        /\ service' = service
  /\ spc' = AfterDisable
  /\ UNCHANGED <<sTodo, sNow, given, abort, cut>>

DeleteService ==
  /\ spc = "delete"
  /\ \/ /\ service' = [service EXCEPT ![sNow].registered = FALSE]
        /\ Log("DeleteService", sNow, "INFO")
     \/ /\ Fault("remove")
        /\ Log("DeleteService", sNow, "WARN")
        /\ service' = service
  /\ spc' = "next"
  /\ UNCHANGED <<sTodo, sNow, given, abort, cut>>

ServicesDone ==
  /\ spc = "next"
  /\ sTodo = {}
  /\ spc' = "done"
  /\ UNCHANGED <<service, sTodo, sNow, runVars>>

ServiceStep ==
  \/ SkipServices \/ ServicesUnavailable \/ ListServices \/ ServicesDone
  \/ \E s \in Services : LeaveServiceAlone(s) \/ DryRunService(s) \/ TakeService(s)
  \/ OpenService \/ ObserveService \/ ControlService \/ AwaitStopped
  \/ DisableService \/ DeleteService

(***************************************************************************)
(* The services themselves.                                                *)
(***************************************************************************)
ServiceStops(s) ==
  /\ service[s].status = "stopping"
  /\ ~Fault("hang")
  /\ service' = [service EXCEPT ![s].status = "stopped"]

ServiceCrashes(s) ==
  /\ Fault("crash")
  /\ service[s].status = "running"
  /\ service' = [service EXCEPT ![s].status = "stopped"]

ServiceRestarts(s) ==
  /\ Fault("restart")
  /\ service[s].status = "stopped" /\ service[s].start = "enabled" /\ service[s].registered
  /\ service' = [service EXCEPT ![s].status = "running"]

ServicesGoOn ==
  /\ \E s \in Services : ServiceStops(s) \/ ServiceCrashes(s) \/ ServiceRestarts(s)
  /\ UNCHANGED <<spc, sTodo, sNow, runVars>>

(***************************************************************************)
(* What is left of a service that should go was warned of, call by call.   *)
(***************************************************************************)
ServiceSettled(s) ==
  \/ Warned("Service", s)
  \/ /\ Option("kill") => service[s].status = "stopped" \/ Warned("StopService", s)
     /\ Option("disable") => service[s].start = "disabled" \/ Warned("DisableService", s)
     /\ Option("delete") => ~service[s].registered \/ Warned("DeleteService", s)
=============================================================================
