\* One task, two movers, three kills and a failure; the inboxes on one device or on two.
SPECIFICATION Spec
CONSTANTS
    t1 = t1
    m1 = m1
    m2 = m2
    Tasks = {t1}
    Attributed = {t1}
    Movers = {m1, m2}
    Nobody = Nobody
    MaxKills = 3
    MaxFailures = 1
SYMMETRY Symmetric
INVARIANTS EachFileIsInOnePlace  NothingDisappears
PROPERTY KeepsOrder
CHECK_DEADLOCK FALSE
