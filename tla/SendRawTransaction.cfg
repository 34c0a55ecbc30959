SPECIFICATION FairSpec
CONSTANTS
  t1 = t1
  t2 = t2
  Txs = {t1, t2}
  None = None
  Workloads <- MCWorkloads
  MaxFaults = 1
INVARIANTS WrongNonceHasCause HashMeansOutcome EndedCallsLeaveNothing
PROPERTIES SubmittedInOrder TooLowHasCause EveryCallEnds
CHECK_DEADLOCK FALSE
