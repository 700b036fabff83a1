SPECIFICATION StepSpec
CONSTANTS
  LevelCount = 2
  MaxBytes = 12
  States <- MCTwoStates
  LateStates <- MCTwoLate
  BlockBytes = 3
  DiffHeaderBytes = 3
  DiffEntryBytes = 2
  PromoteMaxFrames = 4
  MaxFrameNo = 2
  MaxMultiplier = 1
  FrameNoModulus = 6
  SeekSteps = 2
INVARIANTS TimelineTypeOK OldestReconstructable
PROPERTIES FrameEnds
