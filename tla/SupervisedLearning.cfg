SPECIFICATION LearningSpec
CONSTANTS
  x1 = x1
  x2 = x2
  x3 = x3
  k1 = k1
  k2 = k2
  Inputs <- MCInputs
  PhaseInputs <- MCPhaseInputs
  Phases = {2, 3, 4}
  CacheSizes = {2, 1000}
  TrainEpochs = 2
  BufferSize = 5
  Labels = 2
  Tasks <- MCTasks
  Losses = {1, 2, 4}
  NaN = NaN
  Infinity = 9
  None = None
  Epochs = 3
  Patience = 2
  MinDelta = 1
  MaxCheckpoints = 2
  Samples = {4, 9}
  MaxFits = 3
  MaxWeights = 2
SYMMETRY Symmetric
INVARIANTS LearningTypeOK StalenessIsExplained CheckpointsKeepTheBest
CHECK_DEADLOCK FALSE
