SPECIFICATION Spec
CONSTANTS
  Name <- MCName
  VideoName = {"v"}
  Facts = {1, 2}
  CaseFold <- MCNoCaseFold
  Dir <- DeepTree
  Roots <- OneRoot
  PartNames = {}
  MaxChanges = 2
  MaxGeneration = 2
  PathReuse = FALSE
  RootsMayVanish = FALSE
  DbMayFail = FALSE
  ReadMayFail = FALSE
  JunkGeneration = FALSE
INVARIANTS TypeOK IndexMirrorsDisk NothingFallsIntoAGap StaleReadIsSignalled
PROPERTIES SweepIsProvisional SweepRemovesVanished RemovesWholeTree
CHECK_DEADLOCK FALSE
