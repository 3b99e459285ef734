SPECIFICATION Spec
CONSTANTS
  a = a
  b = b
  w1 = w1
  w2 = w2
  None = None
  Columns <- MCColumns
  NumTasks = 2
  Draws = 2
  Templates <- MCTemplates
  Workers <- MCWorkers
  Configs <- MCConfigs
  MinStates = 1
  KeepPhases = 2
  MaxBatch = 2
  MaxSteps = 3
  MaxEnvs = 2
INVARIANTS WorkerIsTheOne WhatIfLeavesNoTrace WithinBudget MemoryKeepsMostRecent PauseIsHeeded
CONSTRAINT NobodyAbandoned
SYMMETRY Symmetry
