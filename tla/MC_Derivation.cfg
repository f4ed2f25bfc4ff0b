SPECIFICATION Spec
CONSTANTS
  Master <- OneMaster
  Stem <- OneStem
  StemOf <- StemOfMaster
  ContainerOf <- ContainerOfMaster
  Content <- Three
  StampOf <- StampOfContent
  ProbeOf <- ProbeOfContent
  Info <- SomeInfo
  Muxers <- Staging
  MaxChanges = 2
  MaxStarts = 2
  MayReturn = FALSE
  SidecarsMayGo = FALSE
  ProbeMayFail = FALSE
  DeriveMayFail = TRUE
  DbMayFail = FALSE
INVARIANTS
  TypeOK
  FinishedIsWhole
  RowsMirrorSidecars
  PendingIsServed
  FactsAreOfTheMaster
CHECK_DEADLOCK FALSE
