SPECIFICATION Spec
CONSTANTS
  b1 = b1  b2 = b2  v1 = v1  v2 = v2
  Brokers <- TwoBrokers
  Vpns <- TwoVpns
  Blank = Blank  None = None
  MaxSessions = 1
  MaxProbes = 0
INVARIANT PublishesViaDestination
CHECK_DEADLOCK FALSE
