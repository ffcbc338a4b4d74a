\* A continuous agent and a run by hand on one inbox; two tasks, two forwards, one
\* second boundary, a budget of two charges.
SPECIFICATION Spec
CONSTANTS
    concierge = concierge
    worker = worker
    sysadmin = sysadmin
    unitA = unitA
    unitB = unitB
    hand = hand
    Agents = {concierge, worker}
    Sysadmin = worker
    Routers = {concierge}
    NoAgent = NoAgent
    Runs = {unitA, hand}
    AgentOf <- RunsOf
    Units = {unitA}
    Mode <- Half
    Cost = 2
    Budget = 5
    MaxDrops = 2
    MaxTime = 1
    MaxForwards = 2
    MaxFaults = 0
    MaxCharges = 3
INVARIANTS TypeOK DropIsKept ForwardsAreDelivered AnswersWithinBudget
CHECK_DEADLOCK FALSE
