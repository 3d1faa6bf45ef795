SPECIFICATION rcFairSpec
CONSTANTS
  Slot = {1, 2}
  MaxId = 1
  Null = Null
  Kind = {"crash", "slow", "partition", "restart", "drain", "undrain"}
  MayExit = TRUE
  MaxRestarts = 1
  MaxFifo = 2
INVARIANTS SlotIsAsMeant OneSlotEach
PROPERTY RemovedIsFreed
