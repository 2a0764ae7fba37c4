SPECIFICATION Spec
CONSTANTS
    Cmd <- MCCmd
    SNBits = 2
    FirstCmdSNs <- MCFirstAny
    CmdShapes <- ShapesNoR2T
    InOrder = FALSE
    MaxBurst = 1
    TmfFunctions <- TmfAbortTaskSet
    MaxAborts = 1
INVARIANT AbortCompleteIsFinal
