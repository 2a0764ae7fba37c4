SPECIFICATION Spec
CONSTANTS
    Cmd <- MCCmd
    SNBits = 2
    FirstCmdSNs <- MCFirstNoWrap
    CmdShapes <- ShapesImmediateWrite
    InOrder = TRUE
    MaxBurst = 1
    TmfFunctions <- TmfAbortTask
    MaxAborts = 0
INVARIANT NoCommandDropped
