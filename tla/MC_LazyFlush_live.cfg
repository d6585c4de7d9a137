\* One or two entities per lazy flush, every MySQL error resolvable.
CONSTANTS
  r1 = r1
  r2 = r2
  e1 = e1
  e2 = e2
  NoError = NoError
  Records <- MCRecords
  Payloads <- MCMixedPayloads
  CanFail <- MCRecords
  Errors <- MCErrors
  ErrCode <- MCErrCode
  Resolvers <- MCResolversAll
  BatchSize = 500
  MaxEvents = 3
  MaxKills = 1
SPECIFICATION Spec
INVARIANT AckedInStreamOrder
PROPERTY EventuallyAcked
\* the producers stop at MaxEvents; the consumer then blocks on an empty stream
CHECK_DEADLOCK FALSE
