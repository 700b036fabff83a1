SPECIFICATION BasesSpec
CONSTANTS
  AddrSpace = 16
  StackCap = 2
  Unsized = Unsized
  BaseInputs = {0, 4}
  HunkInputs <- MCHunkInputs
  BreakInputs = {5, 9}
  MaxBreakpoints = 2
  MaxFrames = 1
INVARIANTS CoreFollowsList
PROPERTIES MapComesBack OffsetsKept SeekMovesNothing
