SPECIFICATION FairSpec
CONSTANTS
  Id = {0, 1, 2}
  MaxSize <- MCMaxSize
INVARIANTS Balanced FinishedIsReference
PROPERTIES FillEnds
