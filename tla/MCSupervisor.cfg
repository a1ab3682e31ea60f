SPECIFICATION Spec
CONSTANTS
  Call = {c1, c2}
  NoAnswer = NoAnswer
  Error = Error
  Canceled = Canceled
  Capacity = 1
  MaxFailures = 3
PROPERTIES
  RemoteCallSpec
  ReconnectsOrGivesUp
  NoOrphan
CHECK_DEADLOCK FALSE
