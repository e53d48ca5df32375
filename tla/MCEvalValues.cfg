SPECIFICATION Spec
CONSTANTS
  IntBits = 11
  Depth = 5
  ParseFloat <- MCParseFloat
  Sprint <- MCSprint
  Unfit <- MCUnfit
  Table <- MCTable
  ToLower <- Lower
  Leaves <- ValueLeaves
  Pads <- ValuePads
  Shapes <- ValueShapes
  Programs <- MCPrograms
  Contexts <- Lenient
  Accessors <- AnyOnly
  Equal <- EqualOperands
  CallClass <- MCCallClass
  BadPatterns <- MCBadPatterns
  FirstMatch <- MCFirstMatch
CHECK_DEADLOCK FALSE
INVARIANTS ValueIsLazy TuplesFlat SumsRegroup
PROPERTIES Termination
