SPECIFICATION Spec
CONSTANTS
  Tree <- AllTrees
  Outside <- Targets
  Roots <- Candidates
  Kind <- Kinds
  Parent <- Parents
  Ancestors <- Above
  Worlds <- UnqueuedWorlds
  Loaded = {"a", "b", "file", "exe"}
  MaxListed = 1
INVARIANT FailedSchedulesSurface
