SPECIFICATION FairSpec
CONSTANTS
  Sessions = {s1, s2}
  None = None
  MaxErrors = 1
  LateBeats = TRUE
PROPERTY WaiterReturns
CHECK_DEADLOCK FALSE
