SPECIFICATION FairSpec
CONSTANTS
    Worlds <- MCWorlds
    Samples <- MCSamples
    MaxLate = 1
INVARIANTS ProfileServed ConnectedMeansRead OutputsFromOneScan
PROPERTIES ReadBack ScanReturns OutputsArrive
CHECK_DEADLOCK FALSE
