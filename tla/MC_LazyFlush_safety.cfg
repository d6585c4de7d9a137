\* One entity per lazy flush; both records may be rejected, only e1 resolvable.
CONSTANTS
  r1 = r1
  r2 = r2
  e1 = e1
  e2 = e2
  NoError = NoError
  Records <- MCRecords
  Payloads <- MCSinglePayloads
  CanFail <- MCRecords
  Errors <- MCErrors
  ErrCode <- MCErrCode
  Resolvers <- MCResolversE1
  BatchSize = 500
  MaxEvents = 3
  MaxKills = 1
SPECIFICATION Spec
INVARIANT TypeOK NoAckedWriteLost AckedInStreamOrder
  
\* the producers stop at MaxEvents; the consumer then blocks on an empty stream
CHECK_DEADLOCK FALSE
