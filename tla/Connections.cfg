SPECIFICATION Spec
CONSTANTS
  v1 = v1  v2 = v2
  Vpns <- TwoVpns
  Blank = Blank
  MaxSessions = 4
  None = None
INVARIANTS NoStraySession ModulesFollow PoliteHandoff
PROPERTY RequestEnds
CHECK_DEADLOCK FALSE
