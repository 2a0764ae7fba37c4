SPECIFICATION Spec
CONSTANTS
    Cmd <- MCCmd
    SNBits = 2
    FirstCmdSNs <- MCFirstAny
    CmdShapes <- ShapesNoR2T
    InOrder = FALSE
    MaxBurst = 1
    TmfFunctions <- TmfAbortTask
    MaxAborts = 1
INVARIANT CmdSNOrder
INVARIANT AbortCompleteIsFinal
