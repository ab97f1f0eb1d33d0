SPECIFICATION Spec
CONSTANTS
  NumChunks = 3
  Torrents <- TwoChunkFile
  PreviewChunks = 1
  Offered = {40, 20, 10}
  MaxSets = 2
  MaxFaults = 2
  MaxEvents = 4

INVARIANT TodoExact
CHECK_DEADLOCK FALSE
