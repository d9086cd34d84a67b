SPECIFICATION LiveSpec
CONSTANTS
  Runs = {r1, r2}
  r1 = r1
  r2 = r2
  Modes <- Handing
  Faults <- Slowing
  Pauses = {FALSE, TRUE}
  TiWait = 1
  Grace = 0
PROPERTY RunsEnd
