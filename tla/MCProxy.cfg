SPECIFICATION Spec
CONSTANTS
  v = v
  p1 = p1
  p2 = p2
  m1 = m1
  m2 = m2
  Request = {r1, r2}
  VirtualModel = {v}
  Session = {s}
  NoSession = NoSession
  Profile = {p1, p2}
  ModelKey = {m1, m2}
  NoModel = NoModel
  ModelOf <- MCModelOf
  Document <- MCDocument
  Nothing = Nothing
  NoTask = NoTask
  DefaultTtl = 1
  OldAge = 2
INVARIANTS
  OneProfilePerLease
  ForwardedWasActive
PROPERTIES
  SwitchesByOptIn
  EveryRequestEnds
