\* Two checks that escalate fail in one second.
SPECIFICATION Spec
CONSTANTS
    svc = svc
    hand = hand
    X = X
    Y = Y
    Z = Z
    Checks = {X, Y}
    OnFail <- Escalating
    Results <- Failing
    Procs = {hand}
    Services = {}
    Cap = 3
    MaxTime = 0
    MaxRuns = 1
    MaxKills = 0
PROPERTY AlertsStay
CHECK_DEADLOCK FALSE
