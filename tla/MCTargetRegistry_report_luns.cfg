\* One admin client attaching and detaching LUNs; REPORT LUNS read after each step.
CONSTANTS
    Names = {n1, n2}
    Admins = {a1}
    Initiators = {i1}
    LunIds <- MCLunIds
    MaxRequests <- MCMaxRequests
    CloseMayFail = FALSE
    AnyDetachId = FALSE
    LuBlocks <- MCLuBlocks
    AddrBits <- MCAddrBits
    LenBits <- MCLenBits
    Cdbs <- MCCdbs
SPECIFICATION Spec
INVARIANT ReportLunsListsDevices
CHECK_DEADLOCK FALSE
