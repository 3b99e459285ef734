SPECIFICATION Spec
CONSTANTS
  KEEP = KEEP
  CREATE_INDEX = CREATE_INDEX
  DROP_INDEX = DROP_INDEX
  trainer = trainer
  NoFile = NoFile
  Actions <- MCActions
  Impacts = {1, 2}
  Capacity = 2
  BatchSize = 1
  MinToTrain = 2
  Trainers <- MCTrainers
SYMMETRY Symmetric
INVARIANTS CountsMatchBuffer PrioritiesAreSane
