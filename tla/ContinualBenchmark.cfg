SPECIFICATION Spec
CONSTANTS
  a = a
  b = b
  Columns <- MCColumns
  NumTasks = 2
  Draws = 2
  Templates <- MCTemplates
  Selective <- MCSelective
  Expensive = 10
  Cheap = 1
  ResourceCost = 2
  BuildCost = 5
  Coupled = Coupled
  Budget = 1
  TaskOrder <- MCTaskOrder
  EpisodesPerTask = 2
  PreEpisodes = 2
  AdaptEpisodes = 3
  Steps = 2
  EnvHorizon = 3
  Pairs <- MCPairs
  EvalEpisodes = 2
  None = None
INVARIANTS TypeOK WhatIfComesTrue RankingFollowsSelectivity EveryPhaseIsConsolidated EvaluationsLeaveNoTrace
CHECK_DEADLOCK FALSE
