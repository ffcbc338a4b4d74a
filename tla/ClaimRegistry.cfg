\* Two claimers of one contract, explicit and default lease, one kill.
SPECIFICATION FairSpec
CONSTANTS
    p1 = p1
    p2 = p2
    A = A
    B = B
    c1 = c1
    c2 = c2
    Procs = {p1, p2}
    Contracts = {c1}
    Owners = {A, B}
    NoClaim = NoClaim
    Asked = {0, 1}
    DefaultLease = 2
    NoProc = NoProc
    TornWrites = FALSE
    MaxTime = 3
    MaxCrashes = 1
PROPERTIES ImplementsLeaseTable EveryClaimEnds
CHECK_DEADLOCK FALSE
