SPECIFICATION Spec
CONSTANTS
  p1 = p1
  p2 = p2
  c1 = c1
  c2 = c2
  k1 = k1
  Id = {p1, p2}
  Config = {c1, c2}
  Key = {k1}
  KeyOf <- MCKeyOf
  SavedId <- MCSavedId
  Batch <- MCBatch
  Request = {r1}
  CacheSize = 1
  Decision <- MCDecision
  MaxPrepared = 2
  MaxOutdated = 1
  None = None
  Corrupt = Corrupt
SYMMETRY MCSymmetry
INVARIANTS
  BenchmarkedWasMeasured
  EvictedIsOld
  RefusedSaveLeavesNothing
PROPERTIES
  ZeroMeansAll
CHECK_DEADLOCK FALSE
