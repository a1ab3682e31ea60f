SPECIFICATION Spec
CONSTANTS
  p1 = p1
  p2 = p2
  Profile <- MCProfile
  None = None
  Safe = Safe
  Error = Error
  MaxJobs = 2
SYMMETRY MCSymmetry
INVARIANTS
  PreviewOfBaseline
  DeletedGone
CHECK_DEADLOCK FALSE
