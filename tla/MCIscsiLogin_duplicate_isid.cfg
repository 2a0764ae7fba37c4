\* Two connections of one initiator (one ISID) opening sessions with TSIH 0.
SPECIFICATION Spec
CONSTANTS
    Conns = {c1, c2}
    Targets = {t1}
    NoTarget = none
    ISIDs = {i1}
    CIDs = {1}
    ReqTSIHs <- MCNewSessionTSIHs
    MaxTSIH <- MCMaxTSIH
    LoginKeySets <- MCLoginKeySets
INVARIANT OneSessionPerISID
CHECK_DEADLOCK FALSE
