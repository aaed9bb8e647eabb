CONSTANTS
    p1 = p1
    p2 = p2
    w1 = w1
    w2 = w2
    Procs <- MCProcs
    Wasms <- MCWasms
    RcWasms <- MCRcWasms
    PublicNetwork = TRUE
    RpcReturnsArchived = TRUE
    CacheMayFail = FALSE
    Requests <- MCRequests
    MaxSeq <- MCMaxSeq
SPECIFICATION Spec
SYMMETRY MCSymmetry
INVARIANT ResImpliesLive
