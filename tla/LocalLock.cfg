SPECIFICATION FairSpec
CONSTANTS
  s1 = s1
  s2 = s2
  s3 = s3
  s4 = s4
  Sessions = {s1, s2, s3, s4}
  None = None
  Addresses = {"a", "b"}
  AddressOf <- MCAddressOf
  MaxEntries = 1
  Watched = s1
INVARIANTS OneHolderPerMutex
PROPERTIES ImplementsFifoLease WaiterReturns
CHECK_DEADLOCK FALSE
