\* One admin client that names only attached LUNs, images that close cleanly.
CONSTANTS
    Names = {n1, n2}
    Admins = {a1}
    Initiators = {i1}
    LunIds <- MCLunIds
    MaxRequests <- MCMaxRequests
    CloseMayFail = FALSE
    AnyDetachId = FALSE
    LuBlocks <- MCLuBlocks
    AddrBits <- MCAddrBits
    LenBits <- MCLenBits
    Cdbs <- MCCdbs
SPECIFICATION Spec
INVARIANT TypeOK
INVARIANT CommandReachesOwnTarget
INVARIANT LunTableConsistent
INVARIANT IoWithinCommand
CHECK_DEADLOCK FALSE
