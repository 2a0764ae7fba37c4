\* Up to four cluster writes and one power loss outside syncCache, the first open included.
CONSTANTS
    NumClusters <- MCNumClusters
    L2Size <- MCL2Size
    PointersPerCluster <- MCPointersPerCluster
    Values <- MCValues
    PointerCacheSize = 1
    RefcountBlockEntries <- MCRefcountBlockEntries
    RefcountCacheSize = 3
    MaxWrites = 4
    MaxCrashes = 1
    CrashInSync = FALSE
SPECIFICATION Spec
INVARIANTS TypeOK NoAliasing Readback RefcountsCover
PROPERTY ImplementsVirtualDisk
