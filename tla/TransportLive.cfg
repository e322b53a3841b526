SPECIFICATION FairSpec
CONSTANTS
  a1 = a1
  a2 = a2
  c1 = c1
  c2 = c2
  NoThread = NoThread
  Callers <- TwoCallers
  CbThreads <- OneCb
  NestingThreads <- OneCb
  MaxCalls = 3
  MaxIndications = 2
  QueueCap = 2
  Faults <- NoFaults
INVARIANT CallbackFifo
PROPERTY CallReturns IndicationDelivered
