SPECIFICATION Spec
CONSTANTS
  long = long
  short = short
  Calls = {long, short}
  CallData <- MCCallData
  ChunkSize = 2
  MaxChunks = 2
  JumboEnabled = FALSE
  TransactionReset = 2
  ErrorReset = {"BUSY"}
  DurationReset = TRUE
  Statuses = {"BUSY", "FAIL"}
  MaxFaults = 2
  MaxOverdue = 1
INVARIANTS ClientsAreRenewed FilesHaveCause UnrecordedHasCause
CHECK_DEADLOCK FALSE
