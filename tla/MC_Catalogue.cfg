SPECIFICATION Spec
CONSTANTS
  Name = {"a", "b"}
  VideoName <- SetAndMovie
  Facts = {}
  CaseFold <- NoFold
  Size = {1, 2}
  NfoText <- Texts
  LibraryName = {"discs", "downloads"}
  UrlSafe = {"discs", "downloads"}
  LibraryPath = {"r"}
  Directory <- NestedTree
  Rank <- NameOrder
  Setups <- AllSetups
  Binaries = {b1, b2}
  InitialDisks <- Disks
  Requests <- AllRequests
  MaxChanges = 1
  MaxStarts = 2
  MaxCalls = 1
  DbMayFail = FALSE
INVARIANTS TypeOK EveryVideoReachable BorrowedTitleIsAlone PicksStayInTheirSet
PROPERTY PickOutlivesChanges
SYMMETRY AnyBinary
