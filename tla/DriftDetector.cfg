SPECIFICATION DetectorSpec
CONSTANTS
  c1 = c1
  c2 = c2
  Callers <- MCCallers
  Embeddings <- MCEmbeddings
  Window = 5
  CosNum = 19
  CosDen = 20
  MaxPhase = 4
  MaxRun = 8
  Unset = Unset
SYMMETRY CallerSymmetry
INVARIANTS DetectorTypeOK
PROPERTIES SettlesInTime ImplementsPhaseClock
CHECK_DEADLOCK FALSE
