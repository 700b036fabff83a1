SPECIFICATION WatchSpec
CONSTANTS
  RamBytes = 4
  Windows = 2
  PageBytes = 2
  Byte = {0, 1}
  ProtectCount = 2
  WatchCount = 1
  Accesses <- MCAccesses
  WatchInputs <- MCWatchInputs
  TrainInputs <- MCTrainInputs
  ProtectInputs <- MCProtectInputs
  None = None
INVARIANTS WatchTypeOK PagesCurrent HidesOnlyWhenRaced
PROPERTIES ProtectionHolds HitTellsTruth IgnoredRunsOn
