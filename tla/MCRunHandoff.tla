---------------------------- MODULE MCRunHandoff ----------------------------
(* RunHandoff on small instances: values for its constants.                *)
EXTENDS RunHandoff, TLC

AnyMode == AllModes
Handing == {"relaunch"}
HandingOrDirect == {"relaunch", "direct"}

AnyFault == AllFaults
\* A world in which the task folder obeys and processes may be killed.
Killed == {"run", "poll", "crash"}
\* Faults that change how long a wait or a sweep takes.
Slowing == {"run", "poll", "stop", "crash"}
OnlyCrash == {"crash"}

Symmetry == Permutations(Runs)
=============================================================================
