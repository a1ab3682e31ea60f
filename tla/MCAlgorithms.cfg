SPECIFICATION Spec
CONSTANTS
  Nothing = Nothing
  Estimator <- Footprints
  Ids <- StoredIds
  InvalidIds = {"?"}
  Timeouts = {"500"}
  Generations = {"{seed}"}
  Trim <- WithoutBlanks
  LanguageTag <- LanguageTags
  None = None
  NoTask = NoTask
  Broken = Broken
  NonConforming = NonConforming
INVARIANTS
  RecommendationSound
  BiggerThanVramIsOffered
  FiguresAreMeasured
  OtherMachineIsShown
  RefusedLeavesWorld
  DoneAsSaid
  ContentKept
  CancelReachesCall
CHECK_DEADLOCK FALSE
