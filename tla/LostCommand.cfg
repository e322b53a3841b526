SPECIFICATION FairSpec
CONSTANTS
  a1 = a1
  a2 = a2
  c1 = c1
  c2 = c2
  NoThread = NoThread
  Callers <- OneCaller
  CbThreads <- OneCb
  NestingThreads <- Nobody
  MaxCalls = 1
  MaxIndications = 0
  QueueCap = 1
  Faults <- LostOnly
PROPERTY TimeoutIsFatal
CHECK_DEADLOCK FALSE
