------------------------------- MODULE ToolCall -------------------------------
(***************************************************************************)
(* One call of an external tool: run_process_capture (procs.rs) and        *)
(* capture_process (ffi_capture.rs).  The tool writes to a pipe while the  *)
(* caller empties it in turns, looks for an abort and for the end of the   *)
(* tool, and kills it when its time is over.  What the tool does to the    *)
(* system is the caller's module's business.                               *)
(***************************************************************************)
EXTENDS CleanupState, Naturals

CONSTANT ToolWait   \* the timeout, counted in turns of the wait

ASSUME ToolAssumption == ToolWait \in Nat

VARIABLES
  call,      \* the place in capture_process
  tool,      \* the process that was started
  turns,     \* of the wait so far
  pipe,      \* what the tool has written and nobody has read
  output,    \* what was read
  killedFor  \* CaptureResult.aborted, timed_out

toolVars == <<call, tool, turns, pipe, output, killedFor>>

ToolTypeOK ==
  /\ call \in {"idle", "drain", "check", "wait", "final", "result"}
  /\ tool \in {"none", "running", "worked", "ok", "failed", "killed"}
  /\ turns \in 0 .. ToolWait
  /\ pipe \subseteq Targets /\ output \subseteq Targets
  /\ killedFor \in {"none", "abort", "timeout"}

ToolInit ==
  /\ call = "idle"
  /\ tool = "none"
  /\ turns = 0
  /\ pipe = {} /\ output = {}
  /\ killedFor = "none"

ToolAlive == tool \in {"running", "worked"}

\* A pipe, attribute list or process that cannot be created leaves the exit
\* code at 0xFFFFFFFF.
StartTool ==
  /\ call = "idle"
  /\ \/ call' = "drain" /\ tool' = "running"
     \/ Fault("capture") /\ call' = "result" /\ tool' = "failed"
  /\ turns' = 0
  /\ pipe' = {} /\ output' = {}
  /\ killedFor' = "none"

\* drain_available, until the pipe is empty.
ReadPipe == output' = output \cup pipe /\ pipe' = {}

Drain ==
  /\ call = "drain"
  /\ ReadPipe
  /\ call' = "check"
  /\ UNCHANGED <<tool, turns, killedFor, runVars>>

\* TerminateProcess changes nothing of a process that has exited.
Kill(why) ==
  /\ killedFor' = why
  /\ tool' = IF ToolAlive THEN "killed" ELSE tool
  /\ call' = "final"

CheckAbort ==
  /\ call = "check"
  /\ IF abort THEN Kill("abort")
              ELSE call' = "wait" /\ UNCHANGED <<tool, killedFor>>
  /\ UNCHANGED <<turns, pipe, output, runVars>>

\* Faulty: would take the exit of the tool for the end of its output.
WaitWithoutDrain ==
  /\ call = "wait"
  /\ \/ ~ToolAlive /\ call' = "result" /\ UNCHANGED <<tool, turns, killedFor>>
     \/ ToolAlive /\ turns = ToolWait /\ Kill("timeout") /\ turns' = turns
     \/ /\ ToolAlive /\ turns < ToolWait
        /\ turns' = turns + 1 /\ call' = "drain"
        /\ UNCHANGED <<tool, killedFor>>
  /\ UNCHANGED <<pipe, output, runVars>>

\* The end of the tool counts before the deadline does.
Wait ==
  /\ call = "wait"
  /\ \/ ~ToolAlive /\ call' = "final" /\ UNCHANGED <<tool, turns, killedFor>>
     \/ ToolAlive /\ turns = ToolWait /\ Kill("timeout") /\ turns' = turns
     \/ /\ ToolAlive /\ turns < ToolWait
        /\ turns' = turns + 1 /\ call' = "drain"
        /\ UNCHANGED <<tool, killedFor>>
  /\ UNCHANGED <<pipe, output, runVars>>

FinalDrain ==
  /\ call = "final"
  /\ ReadPipe
  /\ call' = "result"
  /\ UNCHANGED <<tool, turns, killedFor, runVars>>

ToolStep == Drain \/ CheckAbort \/ Wait \/ FinalDrain

\* What run_process_capture logs of an abort, though the tool may have ended.
KilledNote == IF killedFor = "abort" THEN {Row("log", "none", "WARN")} ELSE {}

(***************************************************************************)
(* The tool.                                                               *)
(***************************************************************************)
ToolWrites(line) ==
  /\ tool = "running"
  /\ line \notin pipe \cup output
  /\ pipe' = pipe \cup {line}
  /\ UNCHANGED <<call, tool, turns, output, killedFor>>

ToolBecomes(from, to) ==
  /\ tool = from
  /\ tool' = to
  /\ UNCHANGED <<call, turns, pipe, output, killedFor>>

ToolFails ==
  /\ Fault("capture")
  /\ \/ ToolBecomes("running", "failed")
     \/ ToolBecomes("worked", "failed")
===============================================================================
