\* Two goroutines share the handler, with a clear; SHOW TABLES is among the logs.
CONSTANTS
  h1 = h1
  h2 = h2
  Handlers = {h1, h2}
  Logs <- MCMixedLogs
  SlowLimit = 2
  MetricsLimit = 1
  MaxCalls = 3
  MaxClears = 1
SPECIFICATION Spec
INVARIANT   MetricsWithinBound
\* Handle is called a bounded number of times
CHECK_DEADLOCK FALSE
