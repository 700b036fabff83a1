SPECIFICATION DebugSpec
CONSTANTS
  PC = {1, 2, 3, 4, 5, 6, 7, 8}
  Entry = 1
  Op <- RecOp
  Line <- RecLine
  Follows <- RecFollows
  Callee <- RecCallee
  Handler = None
  Watched = {}
  Z80Stops = FALSE
  BpMax = 2
  StackMax = 4
  MaxDepth = 3
  BpAddrs = {}
  Ignored = {}
  Commands = {"pause", "step", "finish"}
  None = None
PROPERTY FinishLeaves
