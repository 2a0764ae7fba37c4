\* Rebuilt refcounts of every image with one refcount block.
CONSTANTS
    NumClusters <- MCNumClusters
    L2Size <- MCL2Size
    RefcountBlockEntries <- MCRefcountBlockEntries
    PointersPerCluster <- MCPointersPerCluster
    ChildSizes <- MCChildSizesAligned
SPECIFICATION Spec
INVARIANTS RebuiltRefcountsExact HeaderIdempotent ChildReadback DataInCoversData DataInBurstBound
