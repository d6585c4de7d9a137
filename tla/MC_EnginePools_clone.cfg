\* The caller's engine and one lazy consumer's clone, two pool codes, the
\* request cache and one metadata key.
CONSTANTS
  main = main
  cons = cons
  d = d
  c2 = c2
  rc = rc
  k1 = k1
  Main = main
  Consumers = {cons}
  Codes = {d, c2}
  Registered <- MCRegistered
  RequestCacheKey = rc
  UserKeys = {k1}
  MaxCalls = 4
SPECIFICATION Spec
INVARIANT AtMostOneClientPerPool 
\* every goroutine makes a bounded number of calls
CHECK_DEADLOCK FALSE
