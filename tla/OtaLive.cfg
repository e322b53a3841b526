SPECIFICATION SinkFairSpec
CONSTANTS
  MaxStackErrors = 1
  MaxUnicastErrors = 2
  TxIntervalMs = 100
  ResponseTimeoutMs = 250
  PayloadLength = 2
  ImageSize = 3
  Processes <- AnyProcess
  MaxStarts = 1
  MaxAborts = 0
  Races <- NoRaces
  TargetCap = 1
  ConformingTarget = TRUE
  Images <- OneImage
  LoadAnyTime = FALSE
INVARIANT TypeOK NoSegmentSkipped ErrorsBounded NeverForgotten NoAssertFails OnlySegmentsOfTheImage DeliveredImage
PROPERTY ImplementsOtaProcess ProcessCompletes
