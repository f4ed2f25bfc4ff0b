SPECIFICATION Spec
CONSTANTS
  Master <- OneMaster
  Stem <- OneStem
  StemOf <- StemOfMaster
  ContainerOf <- ContainerOfMaster
  Content <- Takes
  StampOf <- StampOfContent
  ProbeOf <- ProbeOfContent
  Info <- NoInfo
  Muxers <- KnownFormats
  MaxChanges = 0
  MaxStarts = 1
  MayReturn = FALSE
  SidecarsMayGo = FALSE
  ProbeMayFail = FALSE
  DeriveMayFail = FALSE
  DbMayFail = FALSE
INVARIANT CopyIsGuaranteed
CHECK_DEADLOCK FALSE
