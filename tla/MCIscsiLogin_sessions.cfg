\* Login, bind, heartbeat and close of three connections whose initiators
\* open new sessions.  The server may stop: after the last connection is
\* done it waits in accept for ever, and the ping workers sleep.
SPECIFICATION Spec
CONSTANTS
    Conns = {c1, c2, c3}
    Targets = {t1}
    NoTarget = none
    ISIDs = {i1}
    CIDs = {1}
    ReqTSIHs <- MCNewSessionTSIHs
    MaxTSIH <- MCMaxTSIH
    LoginKeySets <- MCLoginKeySets
INVARIANT SessionHeldOnce
INVARIANT ScsiSessionBound
PROPERTY CloseLeadsToCleanup
CHECK_DEADLOCK FALSE
