SPECIFICATION Spec
CONSTANTS
  t1 = t1
  t2 = t2
  Torrents = {t1, t2}
  MaxDownloads = 1
  MaxSeeds = 1
  KeepSeeding = FALSE
  Forced = FALSE
  MaxEvents = 7
INVARIANTS TypeOK QueueInOrder
PROPERTY StartedAsAllowed
SYMMETRY Symmetry
CHECK_DEADLOCK FALSE
