SPECIFICATION Spec
CONSTANTS
  r1 = r1
  r2 = r2
  Run <- MCRun
  Models = 2
  Copies <- MCCopies
  Requests <- MCRequests
  MaxLate = 1
  NoCall = NoCall
  Begun = Begun
  NoRequest = NoRequest
  Stale = Stale
INVARIANT RecoveredMeansRestored
CHECK_DEADLOCK FALSE
