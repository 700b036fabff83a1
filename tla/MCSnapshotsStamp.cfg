SPECIFICATION SnapshotsSpec
CONSTANTS
  LevelCount = 2
  MaxBytes = 24
  States <- MCStates
  BlockBytes = 3
  DiffHeaderBytes = 1
  DiffEntryBytes = 4
  PromoteMaxFrames = 4
  MaxFrameNo = 1
  Roms = {"built", "rebuilt"}
INVARIANTS OffersOwnStates
