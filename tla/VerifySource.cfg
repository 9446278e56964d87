SPECIFICATION Spec
CONSTANTS
  IdleTicks <- IdleUnits
  BindTicks <- BindUnits
  MaxId = 4
  None = None
INVARIANTS CancelledIsNotOk VerifiedExists CountLiesBetween
PROPERTY BrowseEnds
CHECK_DEADLOCK FALSE
