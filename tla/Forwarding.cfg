SPECIFICATION Spec
CONSTANTS
  a = a  b = b  c = c
  Items = {a, b, c}
  Dialogs <- TwoDialogs
  MaxClicks = 3
  NoDest = {b}
  None = None
INVARIANTS SuccessIsAccepted SpinnerIsBacked
PROPERTIES SuccessIsFinal SendingEnds
VIEW Seen
CHECK_DEADLOCK FALSE
