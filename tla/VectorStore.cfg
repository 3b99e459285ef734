SPECIFICATION StoreSpec
SYMMETRY MCSymmetry
CONSTANTS
  c1 = c1
  c2 = c2
  None = None
  Callers <- MCCallers
  FailureThreshold = 1
  RecoveryTimeout = 1
  HalfOpenMaxCalls = 1
  MaxPoints = 2
  MaxAttempts = 2
INVARIANTS NothingStoredIsLost OrphansComeFromClears
