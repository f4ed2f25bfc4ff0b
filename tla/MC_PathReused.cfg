SPECIFICATION Spec
CONSTANTS
  Name <- MCName
  VideoName = {"v"}
  Facts = {1}
  CaseFold <- MCNoCaseFold
  Dir <- DeepTree
  Roots <- OneRoot
  PartNames = {}
  MaxChanges = 2
  MaxGeneration = 2
  PathReuse = TRUE
  RootsMayVanish = FALSE
  DbMayFail = FALSE
  ReadMayFail = FALSE
  JunkGeneration = FALSE
INVARIANTS IndexMirrorsDisk
CHECK_DEADLOCK FALSE
