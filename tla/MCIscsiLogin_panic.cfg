\* Initiators that also send a login with TSIH 1: one that names no
\* session, or the session another connection holds.
SPECIFICATION Spec
CONSTANTS
    Conns = {c1, c2}
    Targets = {t1}
    NoTarget = none
    ISIDs = {i1}
    CIDs = {1}
    ReqTSIHs <- MCAnyTSIHs
    MaxTSIH <- MCMaxTSIH
    LoginKeySets <- MCLoginKeySets
INVARIANT NoPanic
CHECK_DEADLOCK FALSE
