SPECIFICATION svFairSpec
CONSTANTS
  ConnId = {k1, k2}
  MaxCapacity = 2
  MaxLimit = 1
  MaxReqs = 3
  MaxBatch = 2
INVARIANTS WorkConserving Accounted
PROPERTY AdmittedIsServed
