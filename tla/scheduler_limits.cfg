CONSTANTS
  Names <- MCNames
  Empty = Empty
  NumProjects = 2
  Tasks <- ClashTasks
  ProjectOf <- ClashProject
  Effort <- ClashEffort
  Rank <- ClashRank
  ScopesOf <- ClashScopes
  Weight <- ClashWeight
  NotFinite = NotFinite
  Lanes <- MCLanes
  Routes <- TwoRoutes
  NoRoute = NoRoute
  GlobalMaxRuns = 3
  PerProjectMaxRuns = 2
  LaneMaxRuns <- CodexOnce
  UnknownConflicts = TRUE
  Revocable = {1}
SPECIFICATION Spec
INVARIANTS TypeOK LimitsRespected NoConflictingRuns EveryTaskAnswered WorkConserving
