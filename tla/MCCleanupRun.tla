---------------------------- MODULE MCCleanupRun ----------------------------
(* CleanupRun on a small machine: values for its constants.                *)
EXTENDS CleanupRun

\* A service of a selected and of another component, and the display
\* container, which no component owns.
MCServices == {"NvTelemetryService", "NvShareService", "NvContainer"}
MCTasks == {"NvTelemetryTask", "NvTelemetryOnLogon", "OtherTask"}
MCCandidates == {"telemetry dir", "telemetry file", "package", "share dir"}
BloatNames == {"telemetry.exe", "share.exe"}
ExeNames == BloatNames \cup {"other.exe"}
MCTargets == MCServices \cup MCTasks \cup MCCandidates \cup ExeNames
MCAnchored == MCServices \cup {"NvTelemetryTask", "NvTelemetryOnLogon"}
MCProtected == {"package"}
MCComponents == {"Telemetry", "ShadowPlayShare"}

MCOwner ==
  [t \in MCTargets |->
     IF t \in {"NvShareService", "share.exe", "share dir"} THEN "ShadowPlayShare"
     ELSE IF t \in {"OtherTask", "NvContainer", "other.exe"} THEN "none"
     ELSE "Telemetry"]

MCImages == {"nvidia telemetry", "foreign telemetry", "nvidia share", "other"}
MCLeaf ==
  [i \in MCImages |->
     IF i = "nvidia share" THEN "share.exe"
     ELSE IF i = "other" THEN "other.exe" ELSE "telemetry.exe"]
MCNvidiaOwned == {"nvidia telemetry", "nvidia share"}

\* Three processes that can follow each other under one id, and one beside.
MCProcesses == {"first", "impostor", "sibling", "second", "bystander"}
MCPid == [p \in MCProcesses |-> IF p \in {"second", "bystander"} THEN 2 ELSE 1]
MCImage ==
  [p \in MCProcesses |->
     IF p = "impostor" THEN "foreign telemetry"
     ELSE IF p = "sibling" THEN "nvidia share"
     ELSE IF p = "bystander" THEN "other" ELSE "nvidia telemetry"]

MCOptions == {"execute", "kill", "disable", "delete", "disableTasks",
              "deleteTasks", "schedule", "tiChild", "trusted", "fallback"}
AllOn == {"execute", "kill", "disable", "delete", "deleteTasks", "schedule",
          "tiChild"}

World(options, present, faults) ==
  [options |-> options, enabled |-> {"Telemetry"}, present |-> present,
   faults |-> faults]

MCWorlds ==
  {\* Services, every call failing; then services that come back.
   World(AllOn, MCServices, {"scm", "open", "control", "query", "config",
                             "remove", "hang", "crash"}),
   World({"execute", "disable", "fallback"}, {"NvTelemetryService"}, {"config", "restart"}),
   World({"execute", "kill", "trusted"}, {"NvTelemetryService"}, {"restart", "crash"}),
   \* Processes that will not go; then ids that are reused.
   World(AllOn, {"first", "second"},
         {"snapshot", "process", "terminate", "linger", "close"}),
   World({"execute", "kill", "fallback"}, {"first", "second"},
         {"terminate", "close", "reuse"}),
   World({"execute", "kill", "fallback"}, {"sibling", "bystander"},
         {"reuse", "close"}),
   \* Tasks, with and without an abort; without a search root.
   World(AllOn, MCTasks \cup {"telemetry file"},
         {"enumerate", "capture", "abort"}),
   World({"execute", "disableTasks", "fallback"}, MCTasks,
         {"schtasks", "enumerate", "capture", "abort"}),
   \* Candidates that are held, and an abort.
   World({"execute", "schedule", "tiChild"},
         {"telemetry dir", "telemetry file", "share dir"},
         {"holders", "queue", "snapshot", "abort"}),
   World({"execute", "tiChild"}, {"telemetry dir", "package"},
         {"disk", "holders", "abort"}),
   \* One of everything.
   World(AllOn, {"NvTelemetryService", "first", "NvTelemetryTask",
                 "telemetry dir", "share dir"},
         {"open", "capture", "hang", "abort", "log"}),
   \* Nothing may be changed: a dry run, and a run without the rights.
   World({"kill", "disable", "delete", "disableTasks"},
         {"NvTelemetryService", "first", "NvTelemetryTask", "telemetry dir"},
         {"scm", "close", "reuse", "abort"}),
   World(AllOn \ {"tiChild"}, {"NvTelemetryService", "first", "telemetry dir"}, {})}
=============================================================================
