SPECIFICATION TimelineSpec
CONSTANTS
  LevelCount = 1
  MaxBytes = 6
  States <- MCTwoStates
  LateStates <- MCTwoLate
  BlockBytes = 3
  DiffHeaderBytes = 3
  DiffEntryBytes = 2
  PromoteMaxFrames = 4
  MaxFrameNo = 1
  MaxMultiplier = 2
  FrameNoModulus = 4
  SeekSteps = 1
INVARIANTS PausedWhileSeeking
PROPERTIES SeekingRecordsNothing
