SPECIFICATION Spec
CONSTANTS
  Nil = Nil
  p1 = p1
  p2 = p2
  c1 = c1
  c2 = c2
  g1 = g1
  g2 = g2
  eng = eng
  ops = ops
  Parsers <- MCParsers
  Callers <- MCCallers
  GroupIds <- MCGroupIds
  Attributes <- MCAttributes
  GroupMaps <- MCGroupMaps
  CallerData <- MCCallerData
  Supplied <- OwnRegistries
  AllowLists <- MCAllowLists
  Limits <- MCLimits
INVARIANTS Isolated
PROPERTIES SettledOnceBuilt
