SPECIFICATION Spec
CONSTANTS
  IntBits = 11
  Depth = 5
  ParseFloat <- MCParseFloat
  Sprint <- MCSprint
  Unfit <- MCUnfit
  Table <- MCTable
  ToLower <- Lower
  Leaves <- LogicLeaves
  Pads <- LogicLeaves
  Shapes <- LogicShapes
  Programs <- MCPrograms
  Contexts <- MCContexts
  Accessors <- BoolOnly
  Equal <- EqualOperands
  CallClass <- MCCallClass
  BadPatterns <- MCBadPatterns
  FirstMatch <- MCFirstMatch
CHECK_DEADLOCK FALSE
INVARIANTS ValueIsLazy NoErrorLost FirstErrorWins IInv RulesAreBool
