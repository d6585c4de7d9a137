\* Two goroutines log concurrently with a slow-query limit of 1.
CONSTANTS
  h1 = h1
  h2 = h2
  Handlers = {h1, h2}
  Logs <- MCSlowLogs
  SlowLimit = 1
  MetricsLimit = 1
  MaxCalls = 2
  MaxClears = 0
SPECIFICATION Spec
INVARIANT SlowQueriesWithinLimit
\* Handle is called a bounded number of times
CHECK_DEADLOCK FALSE
