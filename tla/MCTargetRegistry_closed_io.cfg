\* One admin client and one session; images close cleanly.
CONSTANTS
    Names = {n1}
    Admins = {a1}
    Initiators = {i1}
    LunIds <- MCSmallLunIds
    MaxRequests <- MCRaceRequests
    CloseMayFail = FALSE
    AnyDetachId = FALSE
    LuBlocks <- MCLuBlocks
    AddrBits <- MCAddrBits
    LenBits <- MCLenBits
    Cdbs <- MCCdbs
SPECIFICATION Spec
INVARIANT NoIoOnClosedLu
CHECK_DEADLOCK FALSE
