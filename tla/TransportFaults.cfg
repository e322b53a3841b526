SPECIFICATION Spec
CONSTANTS
  a1 = a1
  a2 = a2
  c1 = c1
  c2 = c2
  NoThread = NoThread
  Callers <- TwoCallers
  CbThreads <- TwoCb
  NestingThreads <- OneCb
  MaxCalls = 2
  MaxIndications = 2
  QueueCap = 1
  Faults <- AllFaults
INVARIANT TypeOK NoStaleExchange NeverAnothersResponse ExactlyOnce
CHECK_DEADLOCK FALSE
