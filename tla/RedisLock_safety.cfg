SPECIFICATION Spec
CONSTANTS
  Sessions = {s1, s2, s3}
  None = None
  MaxErrors = 1
  LateBeats = TRUE
INVARIANTS MutualExclusion
PROPERTIES FifoGrants OnlyOwnerReleases ImplementsFifoLease
SYMMETRY SessionSymmetry
CHECK_DEADLOCK FALSE
