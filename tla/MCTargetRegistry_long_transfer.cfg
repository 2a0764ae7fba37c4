\* One admin client and one session; READ(16) and WRITE SAME(16) of the whole disk.
CONSTANTS
    Names = {n1, n2}
    Admins = {a1}
    Initiators = {i1}
    LunIds <- MCLunIds
    MaxRequests <- MCMaxRequests
    CloseMayFail = FALSE
    AnyDetachId = FALSE
    LuBlocks <- MCLuBlocks
    AddrBits <- MCAddrBits
    LenBits <- MCLenBits
    Cdbs <- MCCdbs
SPECIFICATION Spec
INVARIANT IoCoversCommand
CHECK_DEADLOCK FALSE
