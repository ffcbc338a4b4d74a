-------------------------------- MODULE Host --------------------------------
(***************************************************************************)
(* Six parts of a host that share no state: the runtime of a run           *)
(* (AgentRuntime), the outbound filter (Firewall), the units of an agent   *)
(* (AgentUnits), the standing policy of a prompt (PolicyContext), the      *)
(* package commands (PackageConfig) and the memory of a conversation       *)
(* (ThreadContext).  What all of them do beside each other shows nothing   *)
(* of one of them that it does not do alone: in each behaviour one of them *)
(* moves, and the variables of the others are absent.                      *)
(***************************************************************************)
EXTENDS Naturals, Sequences

CONSTANTS
    Parts,                                            \* the parts that may move
    Absent,                                           \* the value of what does not move
    Names, Undeclared, Tomls, Environments,           \* AgentRuntime
    NotCaptured, MaxCalls,
    Agents, Others, Ports, Dns, Filters,              \* Firewall
    NoRules, Cut, Sidecar,
    MaxBootstraps, MaxEdits, MaxFaults, MaxBoots,
    Modes, MaxTasks, MaxTimes, MaxKills, MaxHands,    \* AgentUnits
    Candidates, Frame, Intro, MaxFile, MaxTotal,      \* PolicyContext
    Sizes, MaxWrites, MaxRuns,
    Procs, Garbled, MaxCrashes,                       \* PackageConfig and ThreadContext
    Pkgs, Nobody, Layouts, MaxCommands,
    RecentTurns, BriefLimits, MaxServed

VARIABLES
    part,                                                     \* the one that moves
    file, agent, env, started, rt, pc, calls, ledger,         \* AgentRuntime
    config, cfg, phase, users, rules, table, atBoot, clean,   \* Firewall
    inForce, torn, bootstraps, edits, faults, boots,
    mode, active, service, todo, failed, killed,              \* AgentUnits
    tasks, times, kills, hands,
    size, writing, next, adding, got, prompt, steady,         \* PolicyContext
    writes, runs,
    conf, immutable, installed, place, job, given, aborted,   \* PackageConfig
    original, asked, intended, apart,
    recent, brief, facts, briefMax, step, mem, served,        \* ThreadContext
    broken, alone

runtimeVars == <<file, agent, env, started, rt, pc, calls, ledger>>
filterVars == <<config, cfg, phase, users, rules, table, atBoot, clean, inForce, torn,
                bootstraps, edits, faults, boots>>
unitVars == <<mode, active, service, todo, failed, killed, tasks, times, kills, hands>>
policyVars == <<size, writing, next, adding, got, prompt, steady, writes, runs>>
packageVars == <<conf, immutable, installed, place, job, given, aborted, original, asked,
                 intended, apart>>
threadVars == <<recent, brief, facts, briefMax, step, mem, served, broken, alone>>
vars == <<part, runtimeVars, filterVars, unitVars, policyVars, packageVars, threadVars>>

Runtime == INSTANCE AgentRuntime WITH Files <- Tomls, MaxTasks <- MaxCalls

Filter == INSTANCE Firewall WITH
    Configs <- Filters, Nothing <- NoRules, MaxRuns <- MaxBootstraps,
    pc <- phase, file <- rules, runs <- bootstraps

Units == INSTANCE AgentUnits

Policy == INSTANCE PolicyContext

Package == INSTANCE PackageConfig WITH
    pc <- place, kills <- aborted, first <- original, alone <- apart, MaxKills <- MaxCrashes

Thread == INSTANCE ThreadContext WITH
    pc <- step, kills <- broken, MaxKills <- MaxCrashes

\* What the constants must be.
ASSUME HostAssumption ==
    /\ Runtime!RuntimeAssumption /\ Filter!FirewallAssumption
    /\ Units!AgentUnitsAssumption /\ Policy!PolicyContextAssumption
    /\ Package!PackageAssumption /\ Thread!ThreadAssumption

\* conos.toml is at first as the documentation writes it.
ASSUME LayoutAssumption == \A lines \in Layouts : Package!AsDocumented(lines)

-----------------------------------------------------------------------------

RuntimeAbsent ==
    /\ file = Absent /\ agent = Absent /\ env = Absent /\ started = Absent
    /\ rt = Absent /\ pc = Absent /\ calls = Absent /\ ledger = Absent

FilterAbsent ==
    /\ config = Absent /\ cfg = Absent /\ phase = Absent /\ users = Absent
    /\ rules = Absent /\ table = Absent /\ atBoot = Absent /\ clean = Absent
    /\ inForce = Absent /\ torn = Absent
    /\ bootstraps = Absent /\ edits = Absent /\ faults = Absent /\ boots = Absent

UnitsAbsent ==
    /\ mode = Absent /\ active = Absent /\ service = Absent
    /\ todo = Absent /\ failed = Absent /\ killed = Absent
    /\ tasks = Absent /\ times = Absent /\ kills = Absent /\ hands = Absent

PolicyAbsent ==
    /\ size = Absent /\ writing = Absent /\ next = Absent /\ adding = Absent
    /\ got = Absent /\ prompt = Absent /\ steady = Absent /\ writes = Absent /\ runs = Absent

PackageAbsent ==
    /\ conf = Absent /\ immutable = Absent /\ installed = Absent /\ place = Absent
    /\ job = Absent /\ given = Absent /\ aborted = Absent /\ original = Absent
    /\ asked = Absent /\ intended = Absent /\ apart = Absent

ThreadAbsent ==
    /\ recent = Absent /\ brief = Absent /\ facts = Absent /\ briefMax = Absent
    /\ step = Absent /\ mem = Absent /\ served = Absent /\ broken = Absent
    /\ alone = Absent

Init ==
    /\ part \in Parts
    /\ IF part = "runtime" THEN Runtime!Init ELSE RuntimeAbsent
    /\ IF part = "filter" THEN Filter!Init ELSE FilterAbsent
    /\ IF part = "units" THEN Units!Init ELSE UnitsAbsent
    /\ IF part = "policy" THEN Policy!Init ELSE PolicyAbsent
    /\ IF part = "package" THEN Package!Init ELSE PackageAbsent
    /\ IF part = "thread" THEN Thread!Init ELSE ThreadAbsent

Next ==
    /\ UNCHANGED part
    /\ \/ part = "runtime" /\ Runtime!Next
          /\ UNCHANGED <<filterVars, unitVars, policyVars, packageVars, threadVars>>
       \/ part = "filter" /\ Filter!Next
          /\ UNCHANGED <<runtimeVars, unitVars, policyVars, packageVars, threadVars>>
       \/ part = "units" /\ Units!Next
          /\ UNCHANGED <<runtimeVars, filterVars, policyVars, packageVars, threadVars>>
       \/ part = "policy" /\ Policy!Next
          /\ UNCHANGED <<runtimeVars, filterVars, unitVars, packageVars, threadVars>>
       \/ part = "package" /\ Package!Next
          /\ UNCHANGED <<runtimeVars, filterVars, unitVars, policyVars, threadVars>>
       \/ part = "thread" /\ Thread!Next
          /\ UNCHANGED <<runtimeVars, filterVars, unitVars, policyVars, packageVars>>

Spec == Init /\ [][Next]_vars

-----------------------------------------------------------------------------
(* Each property, stated and explained in its own module, where it moves.   *)

\* A run's model calls use one key, and the key reaches no one else (exec.go:90,
\* secret_env.go:19).
KeysReachTheirModel == part = "runtime" => Runtime!TypeOK /\ Runtime!KeysReachTheirModel

\* What conos.toml is resolved to at three points of a run is the same (types.go:122).
ResolutionsAgree == part = "runtime" => Runtime!ResolutionsAgree

\* The outbound filter is the allowlist of a strict conos.toml, and stays in force
\* (manifest.go:383-411).
FilterHolds == part = "filter" => Filter!TypeOK /\ Filter!FilterHolds

\* After `conctl kill` the agent is stopped (ops.go:387).
KilledIsStopped == part = "units" => Units!TypeOK /\ Units!KilledIsStopped

\* The standing policy in a prompt is within its limit, the most general files first
\* (policy_context.go:31-59).
PolicyHolds == part = "policy" => Policy!TypeOK /\ Policy!PolicyHolds

\* conos.toml has the packages that the commands add up to, and nothing else changes
\* (package.go:162-293).
OnlyIntendedChanges ==
    part = "package" => Package!TypeOK /\ Package!OnlyIntendedChanges

\* conos.toml is immutable again when all commands have ended (immutable.go:10).
ImmutableAtRest == part = "package" => Package!ImmutableAtRest

\* A turn of the conversation is in the window or summarised, once, and the model is
\* told of all of them (thread_context.go:119).
EachTurnIsToldOnce ==
    part = "thread" => Thread!TypeOK /\ Thread!EachTurnIsToldOnce

\* The brief has a line of the latest exchange (thread_context.go:149).
LatestIsSummarised == part = "thread" => Thread!LatestIsSummarised
=============================================================================
