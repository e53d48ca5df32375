SPECIFICATION Spec
CONSTANTS
  Pieces <- PrintPieces
  MaxPieces = 4
  MaxLogic = 0
  Seeds <- PrintSeeds
  Streams <- MCStreams
INVARIANTS StringIsValid
