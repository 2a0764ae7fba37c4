SPECIFICATION Spec
CONSTANTS
    Cmd <- MCCmd
    SNBits = 2
    FirstCmdSNs <- MCFirstNoWrap
    CmdShapes <- ShapesReads
    InOrder = FALSE
    MaxBurst = 1
    TmfFunctions <- TmfAbortTask
    MaxAborts = 0
PROPERTY ExecutedCommandAnswered
