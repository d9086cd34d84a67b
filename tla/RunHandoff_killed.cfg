SPECIFICATION Spec
CONSTANTS
  Runs = {r1, r2, r3}
  r1 = r1
  r2 = r2
  r3 = r3
  Modes <- HandingOrDirect
  Faults <- Killed
  Pauses = {FALSE}
  TiWait = 1
  Grace = 0
SYMMETRY Symmetry
INVARIANT WorkersNeverOverlap
INVARIANT OneTaskWhileWaiting
INVARIANT OneMutator
INVARIANT ExitLeavesNoWorker
INVARIANT LeftoverTasksAreExplained
