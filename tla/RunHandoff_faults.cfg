SPECIFICATION Spec
CONSTANTS
  Runs = {r1, r2}
  r1 = r1
  r2 = r2
  Modes <- AnyMode
  Faults <- AnyFault
  Pauses = {FALSE, TRUE}
  TiWait = 2
  Grace = 1
SYMMETRY Symmetry
INVARIANT TypeOK
INVARIANT ExclusiveAdmission
INVARIANT SuccessIsTheWorkers
PROPERTY ServedWorkersAreLeftAlone
