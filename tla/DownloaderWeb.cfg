SPECIFICATION Spec
CONSTANTS
  p1 = p1
  p2 = p2
  NumChunks = 2
  NumPieces = 2
  Peers <- TwoPeers
  Has <- HasFirst
  FastPeers = {p2}
  BadPeers = {p2}
  MaxReqs = 1
  MaxWait = 2
  MaxGrab = 1
  WebSeeds = TRUE
  WebRange = 2
  WebIsRight = TRUE
  MaxFaults = 3
INVARIANTS TypeOK RequestsTracked InnocentNotBanned
PROPERTY TransferPromise
CHECK_DEADLOCK FALSE
