SPECIFICATION Spec
CONSTANTS
  Lines = 3
  Beats = 2
  Length <- MCLength
  Stamped <- MCStamped
  Turns = 5
  Grace = 1
  Worlds <- MCWorlds
INVARIANT TypeOK
INVARIANT StreamIsFaithful
INVARIANT LastWordsAreShown
INVARIANT NothingTornIsShown
INVARIANT OnlyTheLastIsTorn
CHECK_DEADLOCK FALSE
