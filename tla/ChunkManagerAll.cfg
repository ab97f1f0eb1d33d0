SPECIFICATION FairSpec
CONSTANTS
  NumChunks = 3
  Torrents <- FilmsAndShared
  PreviewChunks = 1
  Offered = {40, 20, 10}
  MaxSets = 2
  MaxFaults = 2
  MaxEvents = 3
INVARIANTS TypeOK TodoExact HadIndexed HaveIsReal PriorityHighest
PROPERTIES NeededKept RunsToCompletion
CHECK_DEADLOCK FALSE
