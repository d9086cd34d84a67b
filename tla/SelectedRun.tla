---------------------------- MODULE SelectedRun ----------------------------
(***************************************************************************)
(* How a selection gets from the user to the scan (wmain_try, menu.rs):    *)
(* the command line, the wizard, the checks before a run, the elevated     *)
(* child and the worker, each of which reads a command line of its own,    *)
(* and the scan in the process that does the work.  The waiting of one     *)
(* process for another, with all that may happen meanwhile, is in          *)
(* RunHandoff and UacRelay; here the parent hands over and is gone.        *)
(***************************************************************************)
EXTENDS Options, Discovery

CONSTANT Worlds   \* records [args, disk, admin, inputs, faults]

ASSUME WorldsAssumption ==
  \A w \in Worlds : w.args \in Seq(Words) /\ WellFormed(w.disk)

VARIABLES
  world,      \* what the run finds and what its user may type
  who,        \* the process: "launcher", "elevated" or "worker"
  args,       \* its command line
  opt,        \* its options
  place,      \* the place in wmain_try
  exit,       \* the exit code, or -1
  handed,     \* what the last parent had selected (for the properties)
  confirmed   \* what was selected when EXECUTE was typed (for the properties)

runVars == <<world, who, args, opt, place, exit, handed, confirmed>>
vars == <<runVars, disk, faults, enabled, scanVars>>

Nothing == [on |-> {}, wait |-> 0, enabled |-> {}]
Selection(o, en) == [on |-> Effective(o).on, wait |-> Effective(o).wait, enabled |-> en]

TypeOK ==
  /\ world \in Worlds
  /\ who \in {"launcher", "elevated", "worker"}
  /\ opt \in OptionsType
  /\ enabled \subseteq Components
  /\ place \in {"start", "menu", "gate", "elevate", "admit", "scan", "exited"}
  /\ exit \in {-1, 0, 10, 13}
  /\ (exit # -1) => place = "exited"
  /\ dpc \in {"off", "scan", "done"}
  /\ found \subseteq Paths
  /\ \A i \in DOMAIN stack : KindOf(disk, stack[i].dir) = "dir" /\ stack[i].rest \subseteq Paths

Init ==
  /\ world \in Worlds
  /\ disk = world.disk /\ faults = world.faults /\ args = world.args
  /\ who = "launcher"
  /\ opt = DefaultOptions /\ enabled = {}
  /\ place = "start" /\ exit = -1
  /\ handed = Nothing /\ confirmed = Nothing
  /\ DiscoveryInit

On(o) == o \in opt.on
Unchanged == UNCHANGED <<world, disk, faults, scanVars>>

Exit(code) == place' = "exited" /\ exit' = code

ReadCommandLine ==
  /\ place = "start"
  /\ LET me == Configured(args)
     IN /\ opt' = me.opt
        /\ enabled' = me.enabled
        /\ IF me.opt.on \cap {"help", "version", "list"} # {}
           THEN Exit(0)
           ELSE /\ place' = IF "menu" \in me.opt.on /\ "tiChild" \notin me.opt.on
                            THEN "menu" ELSE "gate"
                /\ UNCHANGED exit
  /\ UNCHANGED <<who, args, handed, confirmed>>
  /\ Unchanged

(***************************************************************************)
(* interactive_menu: one input per turn.                                   *)
(***************************************************************************)
MenuOptions == {"execute", "kill", "disableServices", "disableTasks", "deleteTasks",
                "schedule", "preserve"}
Toggled(S, x) == IF x \in S THEN S \ {x} ELSE S \cup {x}

ToggleOption(o) ==
  /\ place = "menu"
  /\ o \in world.inputs
  /\ opt' = [opt EXCEPT !.on = Toggled(@, o)]
  /\ UNCHANGED <<who, args, place, exit, enabled, handed, confirmed>>
  /\ Unchanged

ToggleComponent(c) ==
  /\ place = "menu"
  /\ c \in world.inputs
  /\ enabled' = Toggled(enabled, c)
  /\ UNCHANGED <<who, args, opt, place, exit, handed, confirmed>>
  /\ Unchanged

\* "q", or the input has ended.
Quit ==
  /\ place = "menu"
  /\ Exit(0)
  /\ UNCHANGED <<who, args, opt, enabled, handed, confirmed>>
  /\ Unchanged

\* Faulty: would start whatever was typed in answer to the question.
StartUnconfirmed ==
  /\ place = "menu"
  /\ place' = "gate"
  /\ \/ confirmed' = Selection(opt, enabled)
     \/ confirmed' = confirmed
  /\ UNCHANGED <<who, args, opt, enabled, exit, handed>>
  /\ Unchanged

\* "y": in execute mode EXECUTE must follow, or the menu goes on.
Start ==
  /\ place = "menu"
  /\ place' = "gate"
  /\ confirmed' = IF On("execute") THEN Selection(opt, enabled) ELSE confirmed
  /\ UNCHANGED <<who, args, opt, enabled, exit, handed>>
  /\ Unchanged

(***************************************************************************)
(* The checks before a run, and the processes it may be handed to.         *)
(***************************************************************************)
CheckArgs ==
  /\ place = "gate"
  /\ IF opt.bad /\ On("execute") THEN Exit(13)
                                 ELSE place' = "elevate" /\ UNCHANGED exit
  /\ UNCHANGED <<who, args, opt, enabled, handed, confirmed>>
  /\ Unchanged

IsAdmin == world.admin \/ who # "launcher"
Option(flag, value) == <<Flag(flag), Text(value)>>

HandOver(child, switches) ==
  /\ who' = child
  /\ args' = EffectiveChildSwitches(opt, enabled) \o switches
             \o Option("--log-file", "run log")
             \o (IF child = "elevated" THEN Option("--abort-event", "event") ELSE <<>>)
  /\ place' = "start"
  /\ handed' = Selection(opt, enabled)
  /\ UNCHANGED exit

NeedsElevation == On("wizard") /\ On("execute") /\ ~On("tiChild") /\ ~IsAdmin

\* relaunch_elevated_for_wizard: a wizard has no --status-file to pass on.
Elevate ==
  /\ place = "elevate"
  /\ NeedsElevation
  /\ HandOver("elevated", <<Flag("--no-menu"), Flag("--pause")>>)
  /\ UNCHANGED <<opt, enabled, confirmed>>
  /\ Unchanged

\* No prompt is needed, or it is declined.
GoOnAsIs ==
  /\ place = "elevate"
  /\ NeedsElevation => "declined" \in world.faults
  /\ place' = "admit"
  /\ UNCHANGED <<who, args, opt, enabled, exit, handed, confirmed>>
  /\ Unchanged

NeedsWorker == On("execute") /\ ~On("tiChild") /\ ~On("fallback")

StartWorker ==
  /\ place = "admit"
  /\ NeedsWorker /\ On("relaunch") /\ IsAdmin
  /\ HandOver("worker", <<Flag("--ti-child"), Flag("--no-menu")>>)
  /\ UNCHANGED <<opt, enabled, confirmed>>
  /\ Unchanged

NoWorker ==
  /\ place = "admit"
  /\ NeedsWorker
  /\ ~On("relaunch") \/ ~IsAdmin \/ "worker" \in world.faults
  /\ Exit(10)
  /\ UNCHANGED <<who, args, opt, enabled, handed, confirmed>>
  /\ Unchanged

BeginScan ==
  /\ place = "admit"
  /\ ~NeedsWorker
  /\ place' = "scan"
  /\ StartScan
  /\ UNCHANGED <<world, disk, faults, enabled, who, args, opt, exit, handed, confirmed>>

Scan ==
  /\ place = "scan"
  /\ ScanStep
  /\ place' = IF dpc' = "done" THEN "exited" ELSE place
  /\ UNCHANGED <<world, disk, faults, enabled, who, args, opt, exit, handed, confirmed>>

Next ==
  \/ ReadCommandLine
  \/ \E o \in MenuOptions : ToggleOption(o)
  \/ \E c \in Components : ToggleComponent(c)
  \/ Quit \/ Start
  \/ CheckArgs
  \/ Elevate \/ GoOnAsIs
  \/ StartWorker \/ NoWorker
  \/ BeginScan \/ Scan

Spec == Init /\ [][Next]_vars

(***************************************************************************)
(* What the user is promised.                                              *)
(***************************************************************************)
\* README.md, Interactive wizard: "Component selections and effective switches
\* are always forwarded".  Whatever defaults, switches, component arguments
\* and toggles a selection comes from, the child reads the same one from its
\* command line, understands every word of it, and writes to the same log.
SelectionSurvives ==
  who # "launcher" /\ place # "start" =>
    /\ ~opt.bad
    /\ Selection(opt, enabled) = handed
    /\ opt.text["--log-file"] = "run log"

\* README.md: "nothing runs until you press y and type EXECUTE to confirm".
\* What a wizard's run scans for in execute mode, two processes later, is what
\* was on the screen when EXECUTE was typed (interactive_menu).
ConfirmedIsWhatRuns ==
  LET first == Configured(world.args).opt.on IN
  place = "scan" /\ On("execute") /\ "menu" \in first /\ "tiChild" \notin first =>
    Selection(opt, enabled) = confirmed

\* README.md, Exit codes, 13: execute mode is strict.  A reading of the command
\* line without the parser: each argument is a switch, a value after a switch
\* that takes one, or a component the catalog has, and no value is missing.
Understood(line) ==
  \A i \in DOMAIN line :
    LET taken == i > 1 /\ line[i - 1].flag \in TextFlags IN
    /\ taken <=> line[i].flag = "text"
    /\ line[i].flag \in TextFlags => i < Len(line)
    /\ line[i].flag = "--component" =>
         line[i].key \in Components /\ line[i].value \in {"on", "off"}
    /\ line[i].flag = "--ti-wait-seconds=" => line[i].value = "integer"
    /\ line[i].flag \in DOMAIN TurnsOn \cup DOMAIN TurnsOff \cup TextFlags
                        \cup {"text", "--component", "--ti-wait-seconds="}

\* No scan in execute mode follows a command line with a word in it that was
\* not understood, in whichever process it was read (parse_args, wmain_try).
ExecuteIsStrict ==
  place = "scan" /\ On("execute") => Understood(world.args)

-----------------------------------------------------------------------------
(* What the README says and the code does not keep.                        *)

\* README.md: the component UpdateAndProfileUpdater is deselected in a wizard,
\* "so the NVIDIA driver-update/profile-updater stack is kept", and in Safety
\* notes: "a deselected component prevents ALL of its associated actions".
DeselectedIsKept ==
  dpc = "done" => \A e \in Goes(found) : LeafClaims[Last(e)] \subseteq enabled
=============================================================================
