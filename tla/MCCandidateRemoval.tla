------------------------- MODULE MCCandidateRemoval -------------------------
(* CandidateRemoval on four small candidates: values for its constants.    *)
EXTENDS CandidateRemoval

\* A directory with a file and a directory in it, which holds a file.
NestedTree == {"top", "a", "sub", "b"}
\* A directory with a file and a link in it, which leads to another file.
LinkedTree == {"dir", "file", "link"}
\* A link with a file behind it, and a file.
SmallTree == {"mount", "exe"}

AllTrees == NestedTree \cup LinkedTree \cup SmallTree
Targets == {"elsewhere", "beyond"}
Candidates == {"top", "dir", "mount", "exe"}

Kinds ==
  [top |-> "dir", a |-> "file", sub |-> "dir", b |-> "file",
   dir |-> "dir", file |-> "file", link |-> "link", elsewhere |-> "file",
   mount |-> "link", beyond |-> "file", exe |-> "file"]

Parents ==
  [a |-> "top", sub |-> "top", b |-> "sub", file |-> "dir", link |-> "dir",
   elsewhere |-> "link", beyond |-> "mount"]

Above ==
  [top |-> {}, a |-> {"top"}, sub |-> {"top"}, b |-> {"sub", "top"},
   dir |-> {}, file |-> {"dir"}, link |-> {"dir"}, elsewhere |-> {"link", "dir"},
   mount |-> {}, beyond |-> {"mount"}, exe |-> {}]

World(root, package, holds, faults) ==
  [root |-> root, package |-> package, holds |-> holds, faults |-> faults]

Disturbed == AllFaults \ {"appear"}

\* The worlds the safety properties are checked in: calls that all work while
\* other programs close what they hold; calls that fail; entries that appear;
\* a protected directory; a link and a file as candidates.
SafetyWorlds ==
  {World("top", FALSE, AllHolds \ {"denied"}, {"vanish", "close", "abort"}),
   World("top", FALSE, {"free", "other"}, Disturbed),
   World("dir", FALSE, {"free", "container"}, AllFaults),
   World("dir", TRUE, {"free", "other"}, Disturbed \ {"vanish"}),
   World("mount", FALSE, AllHolds, Disturbed),
   World("exe", FALSE, AllHolds, Disturbed \ {"stat", "list", "queue"})}

\* Entries come, go and are closed without end.
RestlessWorlds ==
  {World("top", FALSE, {"free", "other"}, {"vanish", "appear", "close"})}

\* Calls of MoveFileExW fail and nothing else does.
UnqueuedWorlds == {World("top", FALSE, {"free", "container"}, {"queue"})}
=============================================================================
