\* Two runs on one thread, an unlimited and a limited brief, one kill.
SPECIFICATION Spec
CONSTANTS
    p1 = p1
    p2 = p2
    curl = curl
    jq = jq
    Parts = {"thread"}
    web = web
    batch = batch
    human = human
    Absent = Absent
    Names = {"a", "c"}
    Undeclared = Undeclared
    Tomls <- UsualTomls
    Environments <- UsualEnvironments
    NotCaptured = NotCaptured
    MaxCalls = 2
    Agents = {web, batch}
    Others = {human}
    Ports = {53, 80, 443}
    Dns = 53
    Filters <- UsualFilters
    NoRules = NoRules
    Cut = Cut
    Sidecar = FALSE
    MaxBootstraps = 4
    MaxEdits = 2
    MaxFaults = 2
    MaxBoots = 2
    Modes = {"on-demand", "continuous", "cron"}
    MaxTasks = 3
    MaxTimes = 2
    MaxKills = 2
    MaxHands = 1
    Candidates <- UsualCandidates
    Frame <- UsualFrame
    Intro = 110
    MaxFile = 4096
    MaxTotal = 16384
    Sizes = {3878, 3879, 9000}
    MaxWrites = 1
    MaxRuns = 1
    Procs = {p1, p2}
    Garbled = Garbled
    MaxCrashes = 1
    Pkgs = {curl, jq}
    Nobody = Nobody
    Layouts <- UsualLayouts
    MaxCommands = 3
    RecentTurns = 3
    BriefLimits = {0, 2}
    MaxServed = 3
SYMMETRY Symmetric
INVARIANTS EachTurnIsToldOnce LatestIsSummarised
CHECK_DEADLOCK FALSE
