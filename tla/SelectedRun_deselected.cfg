SPECIFICATION Spec
CONSTANTS
  Components <- MCComponents
  DefaultEnabled <- MCDefaults
  Texts <- MCTexts
  LeafClaims <- MCClaims
  Size <- MCSize
  Nsight <- MCNsight
  ArchMarked <- MCArchMarked
  CoreLeaves <- MCCoreLeaves
  Continues <- MCContinues
  FixedPlaces <- MCPlaces
  ProfileSuffixes <- MCSuffixes
  SharedProfiles <- MCShared
  Packages <- MCPackages
  Worlds <- BareWorlds
INVARIANT DeselectedIsKept
CHECK_DEADLOCK FALSE
