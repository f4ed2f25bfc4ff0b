SPECIFICATION FairSpec
CONSTANTS
  Name <- MCName
  VideoName = {"v", "w"}
  Facts = {1}
  CaseFold <- MCNoCaseFold
  Dir <- FlatTree
  Roots <- OneRoot
  PartNames = {}
  MaxChanges = 2
  MaxGeneration = 2
  PathReuse = TRUE
  RootsMayVanish = TRUE
  DbMayFail = TRUE
  ReadMayFail = TRUE
  JunkGeneration = TRUE
PROPERTIES NeverStalls ListsSnapshots
CHECK_DEADLOCK FALSE
