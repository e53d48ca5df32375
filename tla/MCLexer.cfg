SPECIFICATION Spec
CONSTANTS
  Inputs <- MCInputs
  Keywords <- MCKeywords
INVARIANTS Tiling EofLast LiteralsReread
PROPERTIES ScansLongestMatch LinearTime
