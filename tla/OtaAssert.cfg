SPECIFICATION Spec
CONSTANTS
  MaxStackErrors = 2
  MaxUnicastErrors = 2
  TxIntervalMs = 100
  ResponseTimeoutMs = 250
  PayloadLength = 2
  ImageSize = 3
  Processes <- AnyProcess
  MaxStarts = 1
  MaxAborts = 1
  Races <- DuringHandler
  TargetCap = 1
  ConformingTarget = TRUE
INVARIANT NoAssertFails
CHECK_DEADLOCK FALSE
