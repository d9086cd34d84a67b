SPECIFICATION LiveSpec
CONSTANTS
  Targets <- MCTargets
  Anchored <- MCAnchored
  Processes <- MCProcesses
  Components <- MCComponents
  Owner <- MCOwner
  AllOptions <- MCOptions
  Worlds <- MCWorlds
  Services <- MCServices
  Pid <- MCPid
  Image <- MCImage
  Images <- MCImages
  Leaf <- MCLeaf
  NvidiaOwned <- MCNvidiaOwned
  Killable <- BloatNames
  Tasks <- MCTasks
  Candidates <- MCCandidates
  Protected <- MCProtected
  MaxLookups = 1
  ToolWait = 1
INVARIANT TypeOK
 
INVARIANT QuietRunIsClean
INVARIANT CaptureIsWhole
INVARIANT BlameIsGrounded
INVARIANT ResultIsTrue
PROPERTY TouchesAreAllowed
PROPERTY RunEnds
CHECK_DEADLOCK FALSE
