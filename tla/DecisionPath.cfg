SPECIFICATION Spec
CONSTANTS
  c1 = c1
  c2 = c2
  t1 = t1
  t2 = t2
  a = a
  b = b
  Clients <- MCClients
  Tables <- MCTables
  Columns <- MCColumns
  Unknown = Unknown
  Catalogs <- MCCatalogs
  Queries <- MCQueries
  Latencies <- MCLatencies
  NoJob = NoJob
  Rate = 1
  Capacity = 1
  Timeout = 1
  MaxTime = 1
  MaxIndexes = 1
  LatencyWeight = 1
  RegressionWeight = 2
  ResourcePenalty = 10
  Significant = 10
  MaxCalls = 2
  MaxRestarts = 1
SYMMETRY ClientSymmetry
INVARIANTS BurstIsBounded DecisionsAreAccountedFor HistoryIsGrounded OneIndexPerProcess RanIsDelisted
CHECK_DEADLOCK FALSE
