SPECIFICATION Spec
CONSTANTS
    Cmd <- MCCmd
    SNBits = 2
    FirstCmdSNs <- MCFirstNoWrap
    CmdShapes <- ShapesR2T
    InOrder = FALSE
    MaxBurst = 1
    TmfFunctions <- TmfAbortTask
    MaxAborts = 0
INVARIANT WriteDataComplete
