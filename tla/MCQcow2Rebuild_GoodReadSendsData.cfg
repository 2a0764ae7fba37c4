\* The SCSI handler results of MCQcow2Rebuild and the responses built for them.
CONSTANTS
    NumClusters <- MCNumClusters
    L2Size <- MCL2Size
    RefcountBlockEntries <- MCRefcountBlockEntries
    PointersPerCluster <- MCPointersPerCluster
    ChildSizes <- MCChildSizesAligned
SPECIFICATION Spec
INVARIANT GoodReadSendsData
