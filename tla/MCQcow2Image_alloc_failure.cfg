\* Four refcounts per block: writes fill what the refcount table can count.
CONSTANTS
    NumClusters <- MCNumClusters
    L2Size <- MCL2Size
    PointersPerCluster <- MCPointersPerCluster
    Values <- MCValues
    PointerCacheSize = 1
    RefcountBlockEntries <- MCRefcountBlockEntriesSmall
    RefcountCacheSize = 3
    MaxWrites = 8
    MaxCrashes = 0
    CrashInSync = FALSE
SPECIFICATION Spec
INVARIANTS RefcountsCover
