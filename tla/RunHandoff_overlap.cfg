SPECIFICATION Spec
CONSTANTS
  Runs = {r1, r2}
  r1 = r1
  r2 = r2
  Modes <- HandingOrDirect
  Faults <- OnlyCrash
  Pauses = {FALSE}
  TiWait = 1
  Grace = 1
SYMMETRY Symmetry
INVARIANT OverlapIsRefused
