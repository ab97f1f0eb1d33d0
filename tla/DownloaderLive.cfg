SPECIFICATION FairSpec
CONSTANTS
  p1 = p1
  p2 = p2
  NumChunks = 2
  NumPieces = 2
  Peers <- TwoPeers
  Has <- HasFirst
  FastPeers = {p2}
  BadPeers = {p2}
  MaxReqs = 1
  MaxWait = 2
  MaxGrab = 1
  WebSeeds = FALSE
  WebRange = 1
  WebIsRight = TRUE
  MaxFaults = 3
INVARIANT GrabsExact
PROPERTY AllDownloaded
CHECK_DEADLOCK FALSE
