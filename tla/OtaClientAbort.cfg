SPECIFICATION FairSpec
CONSTANTS
  MaxStackErrors = 2
  MaxUnicastErrors = 2
  TxIntervalMs = 100
  ResponseTimeoutMs = 250
  PayloadLength = 2
  ImageSize = 3
  Processes <- ImageOnly
  MaxStarts = 1
  MaxAborts = 0
  Races <- NoRaces
  TargetCap = 1
  ConformingTarget = TRUE
PROPERTY AbortByClientCompletes
