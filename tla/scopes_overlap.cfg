CONSTANTS
  Names <- MCNames
  Empty <- MCEmpty
  MaxSegments = 2
  Scopes <- MCScopes
  Paths <- MCPaths
  MaxScopes = 2
SPECIFICATION ScopesSpec
INVARIANT OverlapConflicts
CHECK_DEADLOCK FALSE
