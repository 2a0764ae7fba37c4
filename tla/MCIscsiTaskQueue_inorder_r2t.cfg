SPECIFICATION Spec
CONSTANTS
    Cmd <- MCCmd
    SNBits = 2
    FirstCmdSNs <- MCFirstAny
    CmdShapes <- ShapesInOrder
    InOrder = TRUE
    MaxBurst = 1
    TmfFunctions <- TmfAbortTask
    MaxAborts = 1
INVARIANT TypeOK
INVARIANT WriteDataComplete
PROPERTY EveryCommandAnswered
