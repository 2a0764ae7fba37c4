\* The SCSI handler results of MCQcow2Rebuild, MODE SENSE(10) included.
CONSTANTS
    NumClusters <- MCNumClusters
    L2Size <- MCL2Size
    RefcountBlockEntries <- MCRefcountBlockEntries
    PointersPerCluster <- MCPointersPerCluster
    ChildSizes <- MCChildSizesAligned
SPECIFICATION Spec
INVARIANT HandlerReturns
