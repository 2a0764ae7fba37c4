SPECIFICATION Spec
CONSTANTS
    Cmd <- MCCmd
    SNBits = 2
    FirstCmdSNs <- MCFirstAny
    CmdShapes <- ShapesR2T
    InOrder = FALSE
    MaxBurst = 1
    TmfFunctions <- TmfAll
    MaxAborts = 1
INVARIANT ExecutedAtMostOnce
