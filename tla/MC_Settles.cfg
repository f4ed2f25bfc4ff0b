SPECIFICATION FairSpec
CONSTANTS
  Master <- TwoMasters
  Stem <- Stems
  StemOf <- StemOfMaster
  ContainerOf <- ContainerOfMaster
  Content <- OneTake
  StampOf <- StampOfContent
  ProbeOf <- ProbeOfContent
  Info <- NoInfo
  Muxers <- Staging
  MaxChanges = 1
  MaxStarts = 1
  MayReturn = FALSE
  SidecarsMayGo = FALSE
  ProbeMayFail = FALSE
  DeriveMayFail = TRUE
  DbMayFail = FALSE
INVARIANT NoIdleWork
PROPERTY EventuallySettled
CHECK_DEADLOCK FALSE
