SPECIFICATION Spec
CONSTANTS
  Flow = {"f1", "f2", "f3"}
  BackendId = {0, 1}
  MaxFlows = 2
  Hash <- PairHash
  Timeout <- MixedTimeout
  MaxNow = 3
  NULL = NULL
INVARIANTS SlabPartitioned ReapedInOneTurn
PROPERTY ImplementsFlowTable
