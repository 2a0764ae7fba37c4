\* Up to five cluster writes and one power loss at any point, during syncCache included.
CONSTANTS
    NumClusters <- MCNumClusters
    L2Size <- MCL2Size
    PointersPerCluster <- MCPointersPerCluster
    Values <- MCValues
    PointerCacheSize = 1
    RefcountBlockEntries <- MCRefcountBlockEntries
    RefcountCacheSize = 3
    MaxWrites = 5
    MaxCrashes = 1
    CrashInSync = TRUE
SPECIFICATION Spec
INVARIANT Readback
