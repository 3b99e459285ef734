SPECIFICATION FairReportSpec
CONSTANTS
  c1 = c1
  c2 = c2
  None = None
  Callers <- MCCallers
  FailureThreshold = 2
  RecoveryTimeout = 2
  HalfOpenMaxCalls = 2
  Configurations <- MCConfigurations
INVARIANTS BreakerSafe
PROPERTIES RecoveryIsEarned FollowsTheDependency
