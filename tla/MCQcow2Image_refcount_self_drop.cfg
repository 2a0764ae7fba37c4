\* A refcount cache of one block: a block evicted clean is read back and copied.
CONSTANTS
    NumClusters <- MCNumClusters
    L2Size <- MCL2Size
    PointersPerCluster <- MCPointersPerCluster
    Values <- MCValues
    PointerCacheSize = 1
    RefcountBlockEntries <- MCRefcountBlockEntries
    RefcountCacheSize = 1
    MaxWrites = 8
    MaxCrashes = 0
    CrashInSync = FALSE
SPECIFICATION Spec
INVARIANTS NoAliasing
