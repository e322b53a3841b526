SPECIFICATION FairSpec
CONSTANTS
  MaxStackErrors = 2
  MaxUnicastErrors = 2
  TxIntervalMs = 1000
  ResponseTimeoutMs = 250
  PayloadLength = 2
  ImageSize = 3
  Processes <- AnyProcess
  MaxStarts = 1
  MaxAborts = 0
  Races <- NoRaces
  TargetCap = 1
  ConformingTarget = TRUE
PROPERTY ProcessCompletes
CHECK_DEADLOCK FALSE
