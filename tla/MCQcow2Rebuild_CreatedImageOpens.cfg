CONSTANTS
    NumClusters <- MCNumClusters
    L2Size <- MCL2Size
    RefcountBlockEntries <- MCRefcountBlockEntries
    PointersPerCluster <- MCPointersPerCluster
    ChildSizes <- MCChildSizesAligned
SPECIFICATION Spec
INVARIANT CreatedImageOpens
