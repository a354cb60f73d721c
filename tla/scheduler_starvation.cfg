CONSTANTS
  Names <- MCNames
  Empty = Empty
  NumProjects = 2
  Tasks <- BusyTasks
  ProjectOf <- BusyProject
  Effort <- MixedEffort
  Rank <- BusyRank
  ScopesOf <- BusyScopes
  Weight <- BusyWeight
  NotFinite = NotFinite
  Lanes <- MCLanes
  Routes <- OneRoute
  NoRoute = NoRoute
  GlobalMaxRuns = 1
  PerProjectMaxRuns = 1
  LaneMaxRuns <- CodexOnce
  UnknownConflicts = TRUE
  Revocable = {}
SPECIFICATION FairSpec
PROPERTY EveryProjectServed
