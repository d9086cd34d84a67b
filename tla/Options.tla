------------------------------ MODULE Options ------------------------------
(***************************************************************************)
(* The command line (options.rs), the switches a process hands to the one  *)
(* it starts (tasksched.rs) and the component selection: pure operators.   *)
(*                                                                         *)
(* An argument is a record: the switch it spells, the component key, the   *)
(* value and the number it carries.  Two spellings of one thing (case,     *)
(* true/yes/1, "--x=v" or "--x v" with a value that is there) are one      *)
(* argument; "text" is one that begins with no dash.  The Boolean options  *)
(* are the set of those that are on.                                       *)
(***************************************************************************)
EXTENDS Integers, FiniteSets, SequencesExt

CONSTANTS
  Components,       \* keys of the catalog, components.rs
  DefaultEnabled,   \* those that are not optional
  Texts             \* what a word of a command line may be

Word(flag, key, value, number) ==
  [flag |-> flag, key |-> key, value |-> value, number |-> number]
Flag(f) == Word(f, "none", "none", 0)
Text(v) == Word("text", "none", v, 0)
ComponentArg(key, value) == Word("--component", key, value, 0)
WaitArg(n) == Word("--ti-wait-seconds=", "none", "integer", n)
Words == [flag : Texts, key : Texts, value : Texts, number : Int]

\* Components a switch of their own selects, and that switch's option.
Included ==
  [NGX |-> "ngx", HDAudio |-> "hdAudio", PhysX |-> "physX",
   NotebookOptimus |-> "optimus", VirtualAudio |-> "virtualAudio",
   NvWMI |-> "nvwmi", CaptureSDK |-> "captureSdk", AnselCamera |-> "ansel"]

\* What a switch turns on, and what one turns off.
OnSwitches ==
  {<<"--help", "help">>, <<"--version", "version">>, <<"--list-components", "list">>,
   <<"--menu", "menu">>, <<"--execute", "execute">>,
   <<"--allow-admin-fallback", "fallback">>, <<"--ti-child", "tiChild">>,
   <<"--kill-lockers", "kill">>, <<"--disable-services", "disableServices">>,
   <<"--delete-services", "deleteServices">>,
   <<"--disable-scheduled-tasks", "disableTasks">>,
   <<"--delete-scheduled-tasks", "deleteTasks">>,
   <<"--schedule-reboot-delete", "schedule">>, <<"--take-ownership", "ownership">>,
   <<"--include-ngx", "ngx">>, <<"--include-hdaudio", "hdAudio">>,
   <<"--include-physx", "physX">>, <<"--include-notebook-optimus", "optimus">>,
   <<"--include-virtual-audio", "virtualAudio">>, <<"--include-nvwmi", "nvwmi">>,
   <<"--include-capture-sdk", "captureSdk">>, <<"--include-ansel", "ansel">>,
   <<"--no-pause", "noPause">>, <<"--pause", "pause">>, <<"--no-color", "noColor">>,
   <<"--preserve-nvcontainers=on", "preserve">>}
OffSwitches ==
  {<<"--no-menu", "menu">>, <<"--dry-run", "execute">>, <<"--no-ti-relaunch", "relaunch">>,
   <<"--no-disable-scheduled-tasks", "disableTasks">>,
   <<"--preserve-nvcontainers=off", "preserve">>}
Table(rows) == [f \in {r[1] : r \in rows} |-> (CHOOSE r \in rows : r[1] = f)[2]]
TurnsOn == Table(OnSwitches)
TurnsOff == Table(OffSwitches)

\* Switches whose value is the next argument.
TextFlags == {"--status-file", "--log-dir", "--log-file", "--abort-event"}

ASSUME ComponentsAssumption == IsFiniteSet(Components)
ASSUME TextsAssumption ==
  /\ Components \cup DOMAIN TurnsOn \cup DOMAIN TurnsOff \cup TextFlags \subseteq Texts
  /\ {"text", "--component", "--ti-wait-seconds=", "none", "on", "off", "integer",
      "run log", "event"} \subseteq Texts

OptionNames == {TurnsOn[f] : f \in DOMAIN TurnsOn} \cup {"relaunch", "wizard"}

OptionsType ==
  [on : SUBSET OptionNames, wait : Int, text : [TextFlags -> Texts], bad : BOOLEAN]

DefaultOptions ==
  [on |-> {"relaunch", "preserve", "disableTasks"}, wait |-> 600,
   text |-> [f \in TextFlags |-> "none"], bad |-> FALSE]

\* A bare launch: the wizard, with the recommended cleanup selected.
WizardOptions ==
  [DefaultOptions EXCEPT !.on = @ \cup {"menu", "execute", "kill", "disableServices",
                                        "deleteTasks", "schedule", "wizard"}]

TiWaitMin == 15
TiWaitMax == 7200
Clamp(n) == IF n < TiWaitMin THEN TiWaitMin ELSE IF n > TiWaitMax THEN TiWaitMax ELSE n

\* One turn of the loop of parse_args: "awaits" is a switch whose value comes
\* next.  A value that looks like a switch is read as neither.
ReadSwitch(s, a) ==
  LET opt == s.opt IN
  CASE a.flag \in DOMAIN TurnsOn -> [s EXCEPT !.opt.on = @ \cup {TurnsOn[a.flag]}]
    [] a.flag \in DOMAIN TurnsOff -> [s EXCEPT !.opt.on = @ \ {TurnsOff[a.flag]}]
    [] a.flag \in TextFlags -> [s EXCEPT !.awaits = a.flag]
    [] a.flag = "--ti-wait-seconds=" /\ a.value = "integer" ->
         [s EXCEPT !.opt.wait = Clamp(a.number)]
    [] a.flag = "--component" -> s
    [] OTHER -> [s EXCEPT !.opt.bad = TRUE]

ReadValue(s, a) ==
  LET opt == IF a.flag = "text" THEN [s.opt EXCEPT !.text[s.awaits] = a.value]
                                ELSE [s.opt EXCEPT !.bad = TRUE]
  IN [opt |-> opt, awaits |-> "none"]

ReadArg(s, a) == IF s.awaits = "none" THEN ReadSwitch(s, a) ELSE ReadValue(s, a)

\* Faulty: would lose the switch that stands where a value is missing.
LenientParse(args) ==
  LET Skip(s, a) == IF s.awaits = "none" THEN ReadSwitch(s, a)
                                         ELSE [s EXCEPT !.awaits = "none"]
      start == IF args = <<>> THEN WizardOptions ELSE DefaultOptions
  IN FoldLeft(Skip, [opt |-> start, awaits |-> "none"], args).opt

ParseArgs(args) ==
  LET start == IF args = <<>> THEN WizardOptions ELSE DefaultOptions
      end == FoldLeft(ReadArg, [opt |-> start, awaits |-> "none"], args)
  IN [end.opt EXCEPT !.bad = @ \/ end.awaits # "none"]

(***************************************************************************)
(* The component selection.                                                *)
(***************************************************************************)
InitialSelection(opt) ==
  {c \in Components : IF c \in DOMAIN Included THEN Included[c] \in opt.on
                                               ELSE c \in DefaultEnabled}

\* apply_component_args reads every argument, whatever parse_args took it for.
IsComponentArg(a) == a.flag = "--component"
BadComponentArg(a) ==
  IsComponentArg(a) /\ (a.value \notin {"on", "off"} \/ a.key \notin Components)

ApplyComponentArg(enabled, a) ==
  IF ~IsComponentArg(a) \/ BadComponentArg(a) THEN enabled
  ELSE IF a.value = "on" THEN enabled \cup {a.key} ELSE enabled \ {a.key}

ApplyComponentArgs(args, enabled) == FoldLeft(ApplyComponentArg, enabled, args)

\* A process as it stands after the command line is read (wmain_try).
Configured(args) ==
  LET opt == ParseArgs(args)
      enabled == ApplyComponentArgs(args, InitialSelection(opt))
  IN [opt |-> [opt EXCEPT !.bad = @ \/ \E i \in DOMAIN args : BadComponentArg(args[i])],
      enabled |-> IF "wizard" \in opt.on THEN enabled \ {"UpdateAndProfileUpdater"}
                                         ELSE enabled]

(***************************************************************************)
(* effective_child_switches.                                               *)
(***************************************************************************)
Forwarded ==
  <<"--kill-lockers", "--preserve-nvcontainers=off", "--disable-services",
    "--delete-services", "--delete-scheduled-tasks", "--no-disable-scheduled-tasks",
    "--schedule-reboot-delete", "--take-ownership", "--include-ngx",
    "--include-hdaudio", "--include-physx", "--include-notebook-optimus",
    "--include-virtual-audio", "--include-nvwmi", "--include-capture-sdk",
    "--include-ansel", "--allow-admin-fallback">>
Decides(f) == IF f \in DOMAIN TurnsOn THEN TurnsOn[f] ELSE TurnsOff[f]
Says(f, opt) == (f \in DOMAIN TurnsOn) = (Decides(f) \in opt.on)

\* What a child runs with: not where it shows or pauses, nor how it elevates.
Effective(opt) ==
  [on |-> opt.on \cap ({Decides(f) : f \in ToSet(Forwarded)} \cup {"execute"}),
   wait |-> opt.wait]

OptionSwitches(opt) ==
  LET mode == Flag(IF "execute" \in opt.on THEN "--execute" ELSE "--dry-run")
      Say(line, f) == IF Says(f, opt) THEN Append(line, Flag(f)) ELSE line
  IN Append(FoldLeft(Say, <<mode>>, Forwarded), WaitArg(opt.wait))

Stated(keys, enabled) ==
  LET State(c) == IF c \in enabled THEN "on" ELSE "off"
  IN [i \in DOMAIN keys |-> ComponentArg(keys[i], State(keys[i]))]

\* Faulty: would forward only the components that are selected.
OnlySelected(opt, enabled) ==
  OptionSwitches(opt) \o Stated(SetToSeq(enabled), enabled)

\* The components in the order of their keys: some order.
EffectiveChildSwitches(opt, enabled) ==
  OptionSwitches(opt) \o Stated(SetToSeq(Components), enabled)
=============================================================================
