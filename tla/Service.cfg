SPECIFICATION FairServiceSpec
CONSTANTS
  l1 = l1
  l2 = l2
  t1 = t1
  t2 = t2
  h1 = h1
  Loops <- MCLoops
  Trainers <- MCTrainers
  Handlers <- MCHandlers
  MinQueries = 1
  MaxBatch = 1
  MaxSignals = 2
  None = None
CHECK_DEADLOCK FALSE
INVARIANTS SlotSafe DiesStopped
PROPERTIES NothingHangs ShutdownCompletes
