SPECIFICATION DebugSpec
CONSTANTS
  PC = {1, 2, 3, 4, 5, 6, 7, 8}
  Entry = 1
  Op <- RecOp
  Line <- RecLine
  Follows <- RecFollows
  Callee <- RecCallee
  Handler = None
  Watched = {4}
  Z80Stops = FALSE
  BpMax = 2
  StackMax = 4
  MaxDepth = 3
  BpAddrs = {4, 6}
  Ignored = {4}
  Commands = {"pause", "continue", "step", "next", "stepi", "finish"}
  None = None
INVARIANT DebugTypeOK
INVARIANT EnabledReachCore
INVARIANT ShownWhenStopped
PROPERTY SuppressesWhereItStands
PROPERTY NextSameDepth
