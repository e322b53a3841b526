SPECIFICATION FairSpec
CONSTANTS
  a1 = a1
  a2 = a2
  c1 = c1
  c2 = c2
  NoThread = NoThread
  Callers <- TwoCallers
  CbThreads <- OneCb
  NestingThreads <- Nobody
  MaxCalls = 4
  MaxIndications = 0
  QueueCap = 1
  Faults <- NoFaults
INVARIANT OwnResponse
PROPERTY ImplementsCommandApi
