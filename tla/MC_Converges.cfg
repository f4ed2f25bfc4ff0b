SPECIFICATION FairSpec
CONSTANTS
  Name <- MCName
  VideoName = {"v", "w"}
  Facts = {1}
  CaseFold <- MCNoCaseFold
  Dir <- SiblingTree
  Roots <- SiblingRoots
  PartNames = {}
  MaxChanges = 2
  MaxGeneration = 2
  PathReuse = FALSE
  RootsMayVanish = FALSE
  DbMayFail = FALSE
  ReadMayFail = FALSE
  JunkGeneration = FALSE
INVARIANT IInv
PROPERTIES EventuallyMirrors
CHECK_DEADLOCK FALSE
