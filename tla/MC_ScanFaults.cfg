SPECIFICATION Spec
CONSTANTS
  Name <- MCName
  VideoName = {"v"}
  Facts = {1}
  CaseFold <- MCCaseFold
  Dir <- CaseTree
  Roots <- OneRoot
  PartNames = {}
  MaxChanges = 2
  MaxGeneration = 2
  PathReuse = FALSE
  RootsMayVanish = TRUE
  DbMayFail = TRUE
  ReadMayFail = FALSE
  JunkGeneration = FALSE
PROPERTIES HealthAfterFullScan RemovalIsProvisional
CHECK_DEADLOCK FALSE
