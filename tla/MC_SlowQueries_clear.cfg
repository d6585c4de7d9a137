\* One goroutine logs two queries while ClearMySQLSlowQueries runs once.
CONSTANTS
  h1 = h1
  h2 = h2
  Handlers = {h1}
  Logs <- MCSlowLogs
  SlowLimit = 2
  MetricsLimit = 1
  MaxCalls = 2
  MaxClears = 1
SPECIFICATION Spec
INVARIANT ClearedQueriesStayCleared
\* Handle is called a bounded number of times
CHECK_DEADLOCK FALSE
