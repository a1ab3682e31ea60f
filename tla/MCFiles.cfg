SPECIFICATION FilesSpec
CONSTANTS
  s1 = s1
  s2 = s2
  c1 = c1
  sA = sA
  sB = sB
  sC = sC
  cA = cA
  NoLease = NoLease
  Blank = Blank
  Garbled = Garbled
  Run <- MCRun
  Owner <- MCOwner
  OwnerOf <- MCOwnerOf
  Prober <- MCProber
  LeaseMs = 2
  MaxClock = 3
  Unreliable <- MCUnreliable
  p1 = p1
  p2 = p2
  Proc <- MCProc
  MaxVersion = 6
  BackupCount = 2
  Overlap = FALSE
  Absent = Absent
  Torn = Torn
INVARIANTS
  MutualExclusion
  MainIsLastWrite
  BackupCoversUpdate
PROPERTIES
  BusyMeansHeld
  ImplementsMutex
  OnlyOutsideTears
  RecoverySavesNewest
CHECK_DEADLOCK FALSE
