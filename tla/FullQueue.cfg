SPECIFICATION FairSpec
CONSTANTS
  a1 = a1
  a2 = a2
  c1 = c1
  c2 = c2
  NoThread = NoThread
  Callers <- OneCaller
  CbThreads <- OneCb
  NestingThreads <- OneCb
  MaxCalls = 1
  MaxIndications = 3
  QueueCap = 1
  Faults <- NoFaults
PROPERTY FullQueueDropsCallback
CHECK_DEADLOCK FALSE
