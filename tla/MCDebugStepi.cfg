SPECIFICATION DebugSpecLive
CONSTANTS
  PC = {1, 2, 3, 4, 5, 6, 7}
  Entry = 1
  Op <- MCOp
  Line <- MCLine
  Follows <- MCFollows
  Callee <- MCCallee
  Handler = 6
  Watched = {4}
  Z80Stops = TRUE
  BpMax = 2
  StackMax = 2
  MaxDepth = 2
  BpAddrs = {4}
  Ignored = {}
  Commands = {"pause", "continue", "step", "stepi"}
  None = None
INVARIANT StepInstrRunsOne
PROPERTY StepInstrReturns
PROPERTY PausedStandsStill
