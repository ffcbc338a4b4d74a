\* Two processes on one contract: overlaid writes, a lease that expires, one kill.
SPECIFICATION Spec
CONSTANTS
    p1 = p1
    p2 = p2
    c1 = c1
    c2 = c2
    A = A
    B = B
    K = K
    L = L
    Procs = {p1, p2}
    Contracts = {c1}
    Owners = {A, B}
    Checks = {K}
    CompletionChecks <- Referenced
    Leases = {1}
    MaxTime = 1
    MaxJobs = 5
    MaxKills = 1
    Operator = Operator
    NoClaim = NoClaim
    NoFile = NoFile
    EmptyFile = EmptyFile
    CorruptFile = CorruptFile
SYMMETRY Symmetric
INVARIANTS Exclusive HistoryStartsWithOpening ClaimsAreGranted CompletesOnlyLiveTasks ReportedChangesStay
CHECK_DEADLOCK FALSE
