SPECIFICATION Spec
CONSTANTS
  b1 = b1
  b2 = b2
  Bench <- MCBench
  Models = 2
  Copies <- MCCopies
  Samples = 2
  SharedRuntime = TRUE
  Stale = Stale
INVARIANTS
  CompletedMeansMeasured
  PreloadedSurvive
  RestoreIsExact
SYMMETRY MCSymmetry
CHECK_DEADLOCK FALSE
