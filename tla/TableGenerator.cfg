SPECIFICATION FairSpec
CONSTANTS
  BACKEND_MAX = 2
  NBackends = 1
  Addr = {a1, a2, a3}
  NULL = NULL
  InitialCap = 1
  MaxGen = 3
INVARIANTS NoUseAfterFree NewFlowResolves ActiveIsCurrent
PROPERTIES ImplementsRoutingTable RetiredIsFreed
