SPECIFICATION Spec
CONSTANTS
  IntBits = 11
  ParseFloat <- MCParseFloat
  Sprint <- MCSprint
  Unfit <- MCUnfit
  Table <- MCTable
  ToLower <- Lower
  Pieces <- MCPieces
  MaxPieces = 3
  Whole <- MCWhole
  Inputs <- MCInputs
  Keywords <- MCKeywords
  Contexts <- MCContexts
  Accessors <- MCAccessors
  Equal <- EqualOperands
  CallClass <- MCCallClass
  BadPatterns <- MCBadPatterns
  FirstMatch <- MCFirstMatch
  Code <- MCCode
CHECK_DEADLOCK FALSE
INVARIANTS HandedOn TextsNeverPanic ErrorsPointAtTheirText
PROPERTIES Termination
