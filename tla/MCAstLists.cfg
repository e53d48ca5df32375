SPECIFICATION Spec
CONSTANTS
  Pieces <- ListPieces
  MaxPieces = 4
  MaxLogic = 0
  Seeds <- LongSeeds
  Streams <- MCStreams
INVARIANTS IInv HeldOnce StackBound MatchesGrammar
PROPERTIES NoBacktracking Termination
