SPECIFICATION FairSpec
CONSTANTS
  SnapshotSize = 2
  MaxId = 3
  High = 2
  Low = 0
  Burst = 0
  Runs <- EndingRuns
  RemoveMayFail = FALSE
PROPERTIES RunEnds CancelIsHonoured ImplementsJob
CHECK_DEADLOCK FALSE
