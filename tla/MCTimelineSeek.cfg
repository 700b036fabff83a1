SPECIFICATION SeekSpec
CONSTANTS
  LevelCount = 2
  MaxBytes = 18
  States <- MCTwoStates
  LateStates <- MCTwoLate
  BlockBytes = 3
  DiffHeaderBytes = 3
  DiffEntryBytes = 2
  PromoteMaxFrames = 4
  MaxFrameNo = 4
  MaxMultiplier = 2
  FrameNoModulus = 8
  SeekSteps = 4
INVARIANTS LabelsInOrder SeekMonotone SeekNearest SeekEnds
PROPERTIES ReleaseTrimsAhead
