\* Up to eight cluster writes with flushes, closes and reopens, no power loss.
CONSTANTS
    NumClusters <- MCNumClusters
    L2Size <- MCL2Size
    PointersPerCluster <- MCPointersPerCluster
    Values <- MCValues
    PointerCacheSize = 1
    RefcountBlockEntries <- MCRefcountBlockEntries
    RefcountCacheSize = 3
    MaxWrites = 8
    MaxCrashes = 0
    CrashInSync = FALSE
SPECIFICATION Spec
INVARIANTS TypeOK NoAliasing Readback RefcountsCover
