SPECIFICATION Spec
CONSTANTS
  Slots = {s1, s2}
  Incoming <- MCIncoming
  Outcomes <- MCOutcomes
  Addresses = {"a", "b"}
  Tiers <- MCTiers
  Duration = 1
  MaxTime = 2
  MaxRequests = 3
  RateLimitDisabled = FALSE
  RequestIdIsOptional = FALSE
  BatchEnabled = TRUE
  BatchMax = 3
  Disallowed = {"debug_traceTransaction"}
  AdminDisabled = TRUE
  ValidStatus = 400
  Inherited = {"toString"}
INVARIANTS AdmittedWithinLimits RefusedHasCause RepliesAreComplete
CHECK_DEADLOCK FALSE
SYMMETRY MCSlots
