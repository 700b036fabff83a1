SPECIFICATION SpecLive
CONSTANTS
  LevelCount = 3
  MaxBytes = 24
  States <- MCStates
  BlockBytes = 3
  DiffHeaderBytes = 1
  DiffEntryBytes = 4
  PromoteMaxFrames = 4
  MaxFrameNo = 5
INVARIANTS TypeOK ReconstructsCapture BytesAccounted TimelineOrdered ThinnedEvenly WithinBudget
PROPERTIES ImplementsHistory TrimEnds
