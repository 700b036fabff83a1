SPECIFICATION SeekSpec
CONSTANTS
  LevelCount = 2
  MaxBytes = 40
  States <- MCStates
  LateStates <- MCNone
  BlockBytes = 3
  DiffHeaderBytes = 3
  DiffEntryBytes = 2
  PromoteMaxFrames = 4
  MaxFrameNo = 3
  MaxMultiplier = 2
  FrameNoModulus = 8
  SeekSteps = 2
INVARIANTS ReconstructsCapture
