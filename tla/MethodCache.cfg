SPECIFICATION CacheSpec
CONSTANTS
  Callers = {c1, c2}
  Calls <- MCCalls
  MaxHead = 2
  MaxCalls = 3
  Failures = {"Error", "FAIL_INVALID"}
  MaxBlockRange = 0
  FeeHistoryFixed = FALSE
  Price <- MCPrice
  Received <- MCReceived
INVARIANTS  ErrorsStayErrors
CHECK_DEADLOCK FALSE
