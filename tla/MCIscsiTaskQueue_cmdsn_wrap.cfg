SPECIFICATION Spec
CONSTANTS
    Cmd <- MCCmd
    SNBits = 2
    FirstCmdSNs <- MCFirstWrap
    CmdShapes <- ShapesReads
    InOrder = FALSE
    MaxBurst = 1
    TmfFunctions <- TmfAbortTask
    MaxAborts = 0
INVARIANT NoCommandDropped
