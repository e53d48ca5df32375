SPECIFICATION Spec
CONSTANTS
  IntBits = 11
  Equal <- EqualOperands
  ParseFloat <- MCParseFloat
  Sprint <- MCSprint
  Unfit <- MCUnfit
  Table <- MCTable
  ToLower <- Lower
  Sources <- MCSources
  Arguments <- MCArguments
  MaxLength = 2
CHECK_DEADLOCK FALSE
INVARIANTS TypeOK SlicesLikePython SearchesAgree ReplaceUndone MembersAgree IndexedTwice
           NumbersKept SameCountry
