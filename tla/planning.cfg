CONSTANTS
  Names <- MCNames
  Empty <- MCEmpty
  MaxSegments = 2
  Scopes <- MCScopes
  Paths <- MCPaths
  MaxScopes = 3
  Graphs <- MCGraphs
  Candidates <- MCCandidates
  MaxCandidates = 2
  RoutedTasks <- MCTasks
  Policies <- MCPolicies
  Unlimited = Unlimited
  NoEstimate = NoEstimate
  BadEstimate = BadEstimate
  NoQuota = NoQuota
  Never = Never
  NoRatio = NoRatio
  NoRoute = NoRoute
SPECIFICATION PlanningSpec
INVARIANTS TypeOK VerdictIsRight OrderIsRunnable AlignedOverlapConflicts ConflictIsSymmetric StaleQuotaIgnored
CHECK_DEADLOCK FALSE
