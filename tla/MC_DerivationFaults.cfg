SPECIFICATION Spec
CONSTANTS
  Master <- OneMaster
  Stem <- OneStem
  StemOf <- StemOfMaster
  ContainerOf <- ContainerOfMaster
  Content <- Films
  StampOf <- StampOfContent
  ProbeOf <- ProbeOfContent
  Info <- NoInfo
  Muxers <- Staging
  MaxChanges = 2
  MaxStarts = 1
  MayReturn = TRUE
  SidecarsMayGo = TRUE
  ProbeMayFail = TRUE
  DeriveMayFail = TRUE
  DbMayFail = TRUE
INVARIANTS
  ProbedFactsKeyed
  IInv
PROPERTY ConvertsAsPromised
CHECK_DEADLOCK FALSE
