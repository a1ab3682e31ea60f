SPECIFICATION TraySpec
CONSTANTS
  p1 = p1
  m1 = m1
  Profile <- MCProfile
  Model = {m1}
  ModelOf <- MCModelOf
  NoId = NoId
  HostLine <- MCHostLine
  None = None
  RecentLimit = 1
  ApplyTask = {a1, a2}
  Refresh = {r1, r2}
  MaxTasks = 3
INVARIANTS
  OneApplyAwaited
PROPERTIES
  BusyEnds
