SPECIFICATION Spec
CONSTANTS
  Tree <- AllTrees
  Outside <- Targets
  Roots <- Candidates
  Kind <- Kinds
  Parent <- Parents
  Ancestors <- Above
  Worlds <- SafetyWorlds
  Loaded = {"a", "b", "file", "exe"}
  MaxListed = 1
INVARIANT TypeOK
INVARIANT ProtectedIsSkipped
INVARIANT LeftoversAreExplained
INVARIANT ScheduledGoesAtRestart
INVARIANT NoReasonOnlyIfAborted
PROPERTY ImplementsTreeDeletion
