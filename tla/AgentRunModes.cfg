\* An on-demand agent and a cron agent: what systemd makes them do in the end.
SPECIFICATION TimerSpec
CONSTANTS
    concierge = concierge
    worker = worker
    sysadmin = sysadmin
    unitA = unitA
    unitB = unitB
    hand = hand
    Agents = {concierge, worker}
    Sysadmin = worker
    Routers = {concierge}
    NoAgent = NoAgent
    Runs = {unitA, unitB}
    AgentOf <- RunsOf
    Units = {unitA, unitB}
    Mode <- Mixed
    Cost = 0
    Budget = 0
    MaxDrops = 2
    MaxTime = 0
    MaxForwards = 1
    MaxFaults = 1
    MaxCharges = 1
INVARIANT AnsweredBeforeFiled
PROPERTIES RunDrainsInbox TimerServesEveryTask
CHECK_DEADLOCK FALSE
