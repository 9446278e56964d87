SPECIFICATION Spec
CONSTANTS
  q1 = q1  q2 = q2
  Queues <- TwoQueues
  MaxProbes = 2
  MaxRuns = 2
  None = None
INVARIANTS StartIsGated PoliteSnapshot RunWasAllowed
PROPERTY RefreshComesBack
CHECK_DEADLOCK FALSE
