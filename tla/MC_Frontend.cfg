SPECIFICATION FairTabSpec
CONSTANTS
  Name = {"a"}
  VideoName <- Titles
  Facts = {}
  CaseFold <- NoFold
  Size = {1, 2}
  NfoText = {}
  LibraryName = {"discs", "downloads"}
  UrlSafe = {"discs", "downloads"}
  LibraryPath = {"r"}
  Directory <- FlatTree
  Rank <- TitleOrder
  Setups <- OneLibrary
  Binaries = {1}
  InitialDisks <- OneDisc
  Requests = {}
  MaxChanges = 0
  MaxStarts = 2
  MaxCalls = 2
  DbMayFail = TRUE
  Routes <- AllRoutes
  MaxVisits = 3
  MaxPicks = 2
INVARIANTS TabTypeOK LoadingIsAwaited
  QuietPageIsOfTheUrl QuietStarIsThePick
PROPERTIES LoadingEnds
CHECK_DEADLOCK FALSE
