\* One connection, its ping worker watched after the socket is closed.
SPECIFICATION Spec
CONSTANTS
    Conns = {c1}
    Targets = {t1}
    NoTarget = none
    ISIDs = {i1}
    CIDs = {1}
    ReqTSIHs <- MCNewSessionTSIHs
    MaxTSIH <- MCMaxTSIH
    LoginKeySets <- MCLoginKeySets
PROPERTY WorkerEnds
CHECK_DEADLOCK FALSE
