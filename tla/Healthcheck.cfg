\* The timer's service and a run by hand, one after the other or overlapping; one may be killed.
SPECIFICATION Spec
CONSTANTS
    svc = svc
    hand = hand
    X = X
    Y = Y
    Z = Z
    Checks = {X, Y, Z}
    OnFail <- Mixed
    Results <- Audits
    Procs = {svc, hand}
    Services = {svc}
    Cap = 2
    MaxTime = 2
    MaxRuns = 2
    MaxKills = 1
INVARIANTS AlertsAreCapped NoAlertTwice FailuresAreTold LedgerExplainsLatest
CHECK_DEADLOCK FALSE
