SPECIFICATION FairSpec
CONSTANTS
    Files = {1, 2, 3}
    Folders = {1}
    Covers <- NestedCovers
    Starters = {s1, s2}
    MaxSwitches = 3
    MaxLaunches = 2
    MaxFaults = 2
INVARIANTS TypeOK PartialsBounded
PROPERTIES WholeKept AllFetched
