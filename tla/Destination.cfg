SPECIFICATION Spec
CONSTANTS
  b1 = b1  b2 = b2  v1 = v1  v2 = v2
  Brokers <- TwoBrokers
  Vpns <- TwoVpns
  Blank = Blank  None = None
  MaxSessions = 2
  MaxProbes = 1
INVARIANTS PublishesWhereShown ButtonsAreBacked GatesAreFresh
SYMMETRY Symmetry
CHECK_DEADLOCK FALSE
