\* One admin client and one session sending a write with a Data-Out buffer
\* longer than its transfer length.
CONSTANTS
    Names = {n1}
    Admins = {a1}
    Initiators = {i1}
    LunIds <- MCSmallLunIds
    MaxRequests <- MCRaceRequests
    CloseMayFail = FALSE
    AnyDetachId = FALSE
    LuBlocks <- MCLuBlocks
    AddrBits <- MCAddrBits
    LenBits <- MCLenBits
    Cdbs <- MCOverlongCdbs
SPECIFICATION Spec
INVARIANT IoWithinCommand
CHECK_DEADLOCK FALSE
