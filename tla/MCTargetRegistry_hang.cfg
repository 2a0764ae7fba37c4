\* Two admin clients, each naming a LUN that is attached when it sends its
\* DETACHLUN; images close cleanly.
CONSTANTS
    Names = {n1}
    Admins = {a1, a2}
    Initiators = {}
    LunIds <- MCLunIds
    MaxRequests <- MCRaceRequests
    CloseMayFail = FALSE
    AnyDetachId = FALSE
    LuBlocks <- MCLuBlocks
    AddrBits <- MCAddrBits
    LenBits <- MCLenBits
    Cdbs <- MCCdbs
SPECIFICATION Spec
PROPERTY RequestsAnswered
CHECK_DEADLOCK FALSE
