SPECIFICATION Spec
CONSTANTS
  Pieces <- PrintPieces
  MaxPieces = 4
  MaxLogic = 5
  Seeds <- PrintSeeds
  Streams <- MCStreams
INVARIANTS WellTyped CondTracksNode MatchesGrammar StringFaithful FormatFaithful
