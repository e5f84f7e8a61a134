SPECIFICATION Spec
CONSTANTS
  Methods = {"GET", "PUT"}
  Patterns <- MCPatterns
  Paths <- MCPaths
  Queries <- MCQueries
  MaxRoutes = 2
INVARIANTS TypeOK FindsTheRoute ParamsAreTheRequests OnlyCallbacksLeaveUnanswered
