SPECIFICATION Spec
CONSTANTS
  SnapshotSize = 2
  MaxId = 3
  High = 2
  Low = 0
  Burst = 1
  Runs <- SafetyRuns
  RemoveMayFail = TRUE
INVARIANTS MoveNeverLoses NeverStuck CompletedDeliversSnapshot MaxConsumedIsTrue Backpressure
CHECK_DEADLOCK FALSE
