\* Three bootstraps, two edits between them, two faults, one thing done by hand.
SPECIFICATION Spec
CONSTANTS
    a = a
    b = b
    Agents = {a, b}
    Undeclared = Undeclared
    Configs <- Tomls
    NoKey = NoKey
    EmptyKey = EmptyKey
    Sidecar = FALSE
    MaxRuns = 3
    MaxEdits = 2
    MaxFaults = 2
    MaxHands = 1
INVARIANTS CompletedConverges NothingStaleIsEnabled PruneLeavesNothing DoctorPassesInboxes
PROPERTIES RerunsAreSafe
CHECK_DEADLOCK FALSE
