SPECIFICATION LiveSpec
CONSTANTS
  Tree <- AllTrees
  Outside <- Targets
  Roots <- Candidates
  Kind <- Kinds
  Parent <- Parents
  Ancestors <- Above
  Worlds <- RestlessWorlds
  Loaded = {"a", "b", "file", "exe"}
  MaxListed = 1
PROPERTY RemovalEnds
