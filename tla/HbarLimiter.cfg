SPECIFICATION Spec
CONSTANTS
  a = a
  b = b
  x = x
  y = y
  Relays = {"r1", "r2"}
  Senders = {a, b}
  Calls = {x, y}
  Operator = Operator
  Workloads <- MCWorkloads
  Configured <- MCConfigured
  TierLimit <- MCTierLimit
  Duration = 2
  MaxTime = 3
  MaxFaults = 1
INVARIANTS AmountCoversCharges
PROPERTIES AdmittedWithinLimit LimitedForThisWindow
CHECK_DEADLOCK FALSE
