\* One goroutine logs four queries; the tree keeps the 2 slowest, the
\* metrics at most 1 entry.
CONSTANTS
  h1 = h1
  h2 = h2
  Handlers = {h1}
  Logs <- MCSlowLogs
  SlowLimit = 2
  MetricsLimit = 1
  MaxCalls = 4
  MaxClears = 0
SPECIFICATION Spec
INVARIANT TypeOK SlowQueriesAreSlowest MetricsWithinLimit
\* Handle is called a bounded number of times
CHECK_DEADLOCK FALSE
