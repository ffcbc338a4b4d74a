----------------------------- MODULE HostProofs -----------------------------
(***************************************************************************)
(* Proofs about the parts of Host, each about one part, for every value of *)
(* its constants.  A part that does not move is absent, so that an         *)
(* invariant of a part says nothing while another one moves.               *)
(***************************************************************************)
EXTENDS Host, TLAPS, WellFoundedInduction, FiniteSetTheorems

-----------------------------------------------------------------------------
(* AgentUnits: what `conctl kill` stops, for any number of tasks, timers    *)
(* and kills.                                                               *)

\* What is behind the kill in its list is stopped: the path unit first, so that no task
\* starts the service again, and only then the service.  A cron agent's timer is last.
KillInv ==
    /\ mode \in Modes /\ mode \in {"on-demand", "continuous", "cron"}
    /\ service \in {"off", "run", "wait"}
    /\ active \subseteq Units!Watchers(mode)
    /\ todo \in {<< >>, <<"path", "service", "timer">>, <<"service", "timer">>, <<"timer">>}
    /\ service = "wait" => mode = "continuous"
    /\ todo \in {<<"service", "timer">>, <<"timer">>} => "path" \notin active
    /\ todo = <<"timer">> /\ mode # "cron" => service = "off"
    /\ killed => todo = << >> /\ active = {} /\ (mode # "cron" => service = "off")

LEMMA KillInit ==
  ASSUME Units!AgentUnitsAssumption
  PROVE  Units!Init => KillInv
BY DEF Units!AgentUnitsAssumption, Units!Init, KillInv

\* The stages of the kill differ.
LEMMA Stages ==
  /\ <<"path", "service", "timer">> # << >> /\ <<"service", "timer">> # << >>
  /\ <<"timer">> # << >>
  /\ <<"path", "service", "timer">> # <<"service", "timer">>
  /\ <<"path", "service", "timer">> # <<"timer">> /\ <<"service", "timer">> # <<"timer">>
<1>1. Len(<<"path", "service", "timer">>) = 3 /\ Len(<<"service", "timer">>) = 2
  OBVIOUS
<1>2. Len(<<"timer">>) = 1 /\ Len(<< >>) = 0
  OBVIOUS
<1> QED
  BY <1>1, <1>2

LEMMA WatchersOf ==
  /\ Units!Watchers("on-demand") = {"path"} /\ Units!Watchers("cron") = {"path", "timer"}
  /\ Units!Watchers("continuous") = {}
BY DEF Units!Watchers, Units!UnitsOf

LEMMA KillStep ==
  ASSUME KillInv, [Units!Next]_unitVars
  PROVE  KillInv'
<1>1. CASE Units!Deliver
  BY <1>1 DEF KillInv, Units!Deliver, Units!Started, Units!Watchers, Units!UnitsOf
<1>2. CASE Units!Elapse
  BY <1>2 DEF KillInv, Units!Elapse, Units!Started, Units!Watchers, Units!UnitsOf
<1>3. CASE Units!RunEnds
  BY <1>3 DEF KillInv, Units!RunEnds, Units!Watchers, Units!UnitsOf, Units!bounds
<1>4. CASE Units!Restart
  BY <1>4 DEF KillInv, Units!Restart, Units!Watchers, Units!UnitsOf, Units!bounds
<1>5. CASE Units!StartByHand
  <2>1. PICK some \in SUBSET Units!UnitsOf(mode) \ {{}} :
          /\ active' = active \cup (some \ {"service"})
          /\ service' = IF "service" \in some THEN Units!Started(service) ELSE service
    BY <1>5 DEF Units!StartByHand
  <2>2. todo = << >> /\ ~killed' /\ UNCHANGED <<mode, todo>>
    BY <1>5 DEF Units!StartByHand
  <2> QED
    BY <2>1, <2>2 DEF KillInv, Units!Watchers, Units!Started
<1>6. CASE Units!Begin
  BY <1>6 DEF KillInv, Units!Begin, Units!KillOrder, Units!Watchers, Units!UnitsOf
<1>7. CASE Units!Stop
  <2> DEFINE unit == Head(todo)
  <2>1. /\ todo # << >> /\ todo' = Tail(todo) /\ killed' = (Tail(todo) = << >>)
        /\ active' = active \ {unit}
        /\ service' = IF unit = "service" THEN "off" ELSE service
        /\ UNCHANGED mode
    BY <1>7 DEF Units!Stop
  <2>2. CASE todo = <<"path", "service", "timer">>
    <3>1. unit = "path" /\ Tail(todo) = <<"service", "timer">>
      BY <2>2
    <3>2. active' = active \ {"path"} /\ UNCHANGED <<mode, service>> /\ ~killed'
      BY <2>1, <3>1, Stages
    <3> QED
      BY <2>1, <3>1, <3>2, Stages DEF KillInv
  <2>3. CASE todo = <<"service", "timer">>
    <3>1. unit = "service" /\ Tail(todo) = <<"timer">>
      BY <2>3
    <3>2. /\ service' = "off" /\ active' \subseteq active /\ "path" \notin active
          /\ UNCHANGED mode /\ ~killed'
      BY <2>1, <2>3, <3>1, Stages DEF KillInv
    <3> QED
      BY <2>1, <3>1, <3>2, Stages DEF KillInv
  <2>4. CASE todo = <<"timer">>
    <3>1. unit = "timer" /\ Tail(todo) = << >>
      BY <2>4
    <3>2. active' = {}
      BY <2>1, <2>4, <3>1, WatchersOf DEF KillInv
    <3>3. UNCHANGED <<mode, service>> /\ (mode # "cron" => service = "off")
      BY <2>1, <2>4, <3>1 DEF KillInv
    <3> QED
      BY <2>1, <3>1, <3>2, <3>3, Stages DEF KillInv
  <2> QED
    BY <2>1, <2>2, <2>3, <2>4 DEF KillInv
<1>8. CASE UNCHANGED unitVars
  BY <1>8 DEF KillInv, unitVars, Units!Watchers, Units!UnitsOf
<1> QED
  BY <1>1, <1>2, <1>3, <1>4, <1>5, <1>6, <1>7, <1>8 DEF Units!Next

\* A completed kill leaves nothing that could start the agent's service, and unless the
\* agent has a timer, no run.
THEOREM Killed == Spec => []KilledIsStopped
<1> DEFINE Flags == failed \in BOOLEAN /\ killed \in BOOLEAN
           Inv == part = "units" => KillInv /\ Flags
<1>1. Init => Inv
  <2>1. Init /\ part = "units" => KillInv
    BY KillInit, HostAssumption DEF Init
  <2>2. Init /\ part = "units" => Flags
    BY DEF Init, Units!Init
  <2> QED
    BY <2>1, <2>2
<1>2. Inv /\ [Next]_vars => Inv'
  <2> SUFFICES ASSUME Inv, [Next]_vars, part' = "units"
               PROVE  KillInv' /\ Flags'
    OBVIOUS
  <2>1. part = "units" /\ [Units!Next]_unitVars
    BY DEF Next, vars
  <2>2. Flags'
    BY <2>1, Zenon DEF Units!Next, Units!Deliver, Units!Elapse, Units!RunEnds, Units!Restart,
                Units!StartByHand, Units!Begin, Units!Stop, unitVars
  <2> QED
    BY <2>1, <2>2, KillStep
<1>3. KillInv /\ Flags => Units!TypeOK /\ Units!KilledIsStopped
  BY DEF KillInv, Units!TypeOK, Units!KilledIsStopped, Units!KillOrder
<1> QED
  BY <1>1, <1>2, <1>3, PTL DEF Spec, KilledIsStopped

-----------------------------------------------------------------------------
(* Firewall: whether the outbound filter is in force, through any number of *)
(* bootstraps, failures, kills, prunes and reboots.                         *)

Strict == {c \in Filters : c.filter = "strict"}

FilterTyped ==
    /\ config \in Filters /\ cfg \in Filters
    /\ phase \in {"idle", "users", "open", "fill", "apply", "enable", "prune", "complete"}
    /\ users \subseteq Agents
    /\ rules \in Strict \cup {NoRules, Cut}
    /\ table \in Strict \cup {NoRules}
    /\ bootstraps \in Nat /\ edits \in Nat /\ faults \in Nat /\ boots \in Nat
    /\ phase \in {"open", "fill", "apply", "enable"} => Filter!Generates(cfg)

FilterFlags ==
    atBoot \in BOOLEAN /\ clean \in BOOLEAN /\ inForce \in BOOLEAN /\ torn \in BOOLEAN

\* What a bootstrap without a failed command has done when it gets to a place: the users
\* that the rules name exist from then on, since a prune spares those of its conos.toml.
CleanInv ==
    clean /\ Filter!Generates(cfg) =>
       /\ phase # "users" => DOMAIN cfg.ports \subseteq users
       /\ phase = "fill" => rules = Cut
       /\ phase \in {"apply", "enable", "prune", "complete", "idle"} => rules = cfg
       /\ phase \in {"enable", "prune", "complete"} => table = cfg
       /\ phase = "idle" /\ ~Sidecar => table = cfg
       /\ phase \in {"prune", "complete", "idle"} /\ ~Sidecar => atBoot = TRUE

\* Once a strict bootstrap ran through, the rules are loaded at every boot.
InForceInv ==
    inForce /\ ~Sidecar => atBoot = TRUE /\ (~torn => table # NoRules)

FilterInv == FilterTyped /\ CleanInv /\ InForceInv

LEMMA FilterInit ==
  ASSUME Filter!FirewallAssumption
  PROVE  Filter!Init => FilterInv
BY DEF Filter!FirewallAssumption, Filter!Init, FilterInv, FilterTyped, CleanInv, InForceInv,
       Strict

\* No configuration is the absence of one.
LEMMA FiltersAreSome ==
  ASSUME Filter!FirewallAssumption
  PROVE  NoRules \notin Filters /\ Cut \notin Filters /\ NoRules # Cut
BY DEF Filter!FirewallAssumption

LEMMA FilterStep ==
  ASSUME Filter!FirewallAssumption, FilterInv, [Filter!Next]_filterVars
  PROVE  FilterInv'
<1> USE FiltersAreSome DEF FilterInv, FilterTyped, CleanInv, InForceInv, Strict,
        Filter!Generates, Filter!Done, Filter!Failed, Filter!Phase
<1>1. CASE Filter!Load
  BY <1>1 DEF Filter!Load
<1>2. CASE Filter!AddUsers
  BY <1>2 DEF Filter!AddUsers, Filter!FirewallAssumption
<1>3. CASE Filter!Open
  BY <1>3 DEF Filter!Open
<1>4. CASE Filter!Fill
  BY <1>4 DEF Filter!Fill
<1>5. CASE Filter!Apply
  BY <1>5 DEF Filter!Apply, Filter!Loads
<1>6. CASE Filter!Enable
  <2>1. UNCHANGED <<config, cfg, users, rules, table, inForce, torn, bootstraps, edits, boots>>
    BY <1>6 DEF Filter!Enable
  <2>2. CASE atBoot' = TRUE /\ Filter!Done
    BY <1>6, <2>1, <2>2 DEF Filter!Enable
  <2>3. CASE Filter!Failed /\ UNCHANGED atBoot
    BY <1>6, <2>1, <2>3 DEF Filter!Enable
  <2> QED
    BY <1>6, <2>2, <2>3, Zenon DEF Filter!Enable
<1>7. CASE Filter!Prune
  BY <1>7 DEF Filter!Prune, Filter!bounds
<1>8. CASE Filter!Finish
  BY <1>8 DEF Filter!Finish, Filter!bounds
<1>9. CASE Filter!Kill
  BY <1>9 DEF Filter!Kill
<1>10. CASE Filter!Reboot
  <2>1. /\ boots' = boots + 1 /\ phase' = "idle"
        /\ UNCHANGED <<config, cfg, users, rules, atBoot, inForce, bootstraps, edits, faults>>
    BY <1>10 DEF Filter!Reboot
  <2>2. table' = (IF atBoot /\ ~Sidecar /\ Filter!Loads(rules) THEN rules ELSE NoRules)
    BY <1>10, Zenon DEF Filter!Reboot
  <2>3. (clean' => clean /\ phase = "idle") /\ (~torn' => Filter!Loads(rules))
    BY <1>10, Zenon DEF Filter!Reboot
  <2>4. FilterTyped'
    BY <2>1, <2>2 DEF Filter!Loads
  <2>5. CleanInv'
    <3> SUFFICES ASSUME clean', Filter!Generates(cfg)
                 PROVE  /\ DOMAIN cfg.ports \subseteq users /\ rules = cfg
                        /\ ~Sidecar => table' = cfg /\ atBoot = TRUE
      BY <2>1
    <3>1. DOMAIN cfg.ports \subseteq users /\ rules = cfg /\ (~Sidecar => atBoot = TRUE)
      BY <2>3
    <3>2. Filter!Loads(rules)
      BY <3>1 DEF Filter!Loads
    <3> QED
      BY <2>2, <3>1, <3>2
  <2>6. InForceInv'
    <3> SUFFICES ASSUME inForce, ~Sidecar
                 PROVE  atBoot = TRUE /\ (~torn' => table' # NoRules)
      BY <2>1
    <3>1. atBoot = TRUE
      OBVIOUS
    <3>2. Filter!Loads(rules) => rules # NoRules
      BY DEF Filter!Loads
    <3> QED
      BY <2>2, <2>3, <3>1, <3>2
  <2> QED
    BY <2>4, <2>5, <2>6
<1>11. CASE Filter!Edit
  BY <1>11 DEF Filter!Edit
<1>12. CASE UNCHANGED filterVars
  BY <1>12 DEF filterVars
<1> QED
  BY <1>1, <1>2, <1>3, <1>4, <1>5, <1>6, <1>7, <1>8, <1>9, <1>10, <1>11, <1>12
  DEF Filter!Next

\* The rules that decide about a packet, and whether one of them matches it.
RulesFor(c, p) == Filter!Chain(c, p.user)
Matches(c, p, j) == p \in RulesFor(c, p)[j].packets

\* The rule that decides is the first that matches.
LEMMA FirstRule ==
  ASSUME NEW c, NEW p, NEW n \in Nat, Len(RulesFor(c, p)) = n, NEW k \in 1..n,
         Matches(c, p, k), \A j \in 1..n : Matches(c, p, j) => k <= j
  PROVE  Filter!Verdict(c, p) = RulesFor(c, p)[k].verdict
<1> DEFINE chain == Filter!Chain(c, p.user)
           matching == {i \in DOMAIN chain : p \in chain[i].packets}
<1>1. DOMAIN chain = 1..n
  BY DEF RulesFor, Filter!Chain, Filter!AgentRules, Filter!Rule
<1>2. k \in matching /\ \A j \in matching : k <= j
  BY <1>1 DEF RulesFor, Matches
<1>3. (CHOOSE i \in matching : \A j \in matching : i <= j) = k
  <2>1. \A i \in matching : (\A j \in matching : i <= j) => i = k
    BY <1>1, <1>2
  <2> QED
    BY <1>2, <2>1
<1> QED
  BY <1>2, <1>3 DEF Filter!Verdict, RulesFor

\* A packet that no rule matches is accepted.
LEMMA NoRule ==
  ASSUME NEW c, NEW p, NEW n \in Nat, Len(RulesFor(c, p)) = n,
         \A j \in 1..n : ~Matches(c, p, j)
  PROVE  Filter!Verdict(c, p) = "accept"
<1> DEFINE chain == Filter!Chain(c, p.user)
<1>1. DOMAIN chain = 1..n
  BY DEF RulesFor, Filter!Chain, Filter!AgentRules, Filter!Rule
<1>2. {i \in DOMAIN chain : p \in chain[i].packets} = {}
  BY <1>1 DEF RulesFor, Matches
<1> QED
  BY <1>2 DEF Filter!Verdict

\* The rules for the packets of a user that is no agent, and for an agent's.
LEMMA RulesForOthers ==
  ASSUME NEW c, NEW p \in Filter!Packets, p.user \notin DOMAIN c.ports
  PROVE  /\ Len(RulesFor(c, p)) = 2
         /\ RulesFor(c, p)[1].verdict = "accept" /\ RulesFor(c, p)[2].verdict = "accept"
BY DEF RulesFor, Filter!Chain, Filter!Rule

LEMMA RulesForAgents ==
  ASSUME NEW c, NEW p \in Filter!Packets, p.user \in DOMAIN c.ports
  PROVE  /\ Len(RulesFor(c, p)) = 8
         /\ Matches(c, p, 1) <=> p.host \in {"loopback", "resolver"}
         /\ Matches(c, p, 2) <=> p.state = "established"
         /\ Matches(c, p, 3) <=> p.proto = "udp" /\ p.port = Dns /\ p.host = "resolver"
         /\ Matches(c, p, 4) <=> p.proto = "udp" /\ p.port = Dns
         /\ Matches(c, p, 5) <=> p.proto = "tcp" /\ p.port = Dns /\ p.host = "resolver"
         /\ Matches(c, p, 6) <=> p.proto = "tcp" /\ p.port = Dns
         /\ Matches(c, p, 7) <=> p.proto = "tcp" /\ p.port \in c.ports[p.user]
         /\ Matches(c, p, 8)
         /\ RulesFor(c, p)[1].verdict = "accept" /\ RulesFor(c, p)[2].verdict = "accept"
         /\ RulesFor(c, p)[4].verdict = "drop" /\ RulesFor(c, p)[6].verdict = "drop"
         /\ RulesFor(c, p)[7].verdict = "accept" /\ RulesFor(c, p)[8].verdict = "drop"
<1> DEFINE dns(proto) == {q \in Filter!Packets : q.proto = proto /\ q.port = Dns}
           local(proto) == {q \in dns(proto) : q.host = "resolver"}
           chain == RulesFor(c, p)
<1>1. Len(chain) = 8
  BY DEF RulesFor, Filter!Chain, Filter!AgentRules
<1>2. /\ chain[1] =
           Filter!Rule({q \in Filter!Packets : q.host \in {"loopback", "resolver"}}, "accept")
      /\ chain[2] = Filter!Rule({q \in Filter!Packets : q.state = "established"}, "accept")
      /\ chain[3] = Filter!Rule(local("udp"), "accept")
      /\ chain[4] = Filter!Rule(dns("udp"), "drop")
      /\ chain[5] = Filter!Rule(local("tcp"), "accept")
      /\ chain[6] = Filter!Rule(dns("tcp"), "drop")
      /\ chain[7] = Filter!Rule({q \in Filter!Packets : /\ q.proto = "tcp"
                                                        /\ q.port \in c.ports[p.user]}, "accept")
      /\ chain[8] = Filter!Rule(Filter!Packets, "drop")
  BY DEF RulesFor, Filter!Chain, Filter!AgentRules
<1> QED
  BY <1>1, <1>2 DEF Filter!Rule, Matches

\* The rules let through what the allowlist lets through, whatever the ports are.
LEMMA RulesAreTheAllowlist ==
  ASSUME NEW c, NEW p \in Filter!Packets
  PROVE  (Filter!Verdict(c, p) = "accept") <=> Filter!Allowed(c, p)
<1> DEFINE M(j) == Matches(c, p, j)
<1>1. p.proto \in {"tcp", "udp"} /\ p.state \in {"new", "established"}
  BY DEF Filter!Packets
<1>2. CASE p.user \notin DOMAIN c.ports
  <2>1. /\ Len(RulesFor(c, p)) = 2
        /\ RulesFor(c, p)[1].verdict = "accept" /\ RulesFor(c, p)[2].verdict = "accept"
    BY <1>2, RulesForOthers, Zenon
  <2>2. ASSUME NEW k \in 1..2, M(k), \A j \in 1..2 : M(j) => k <= j
        PROVE  Filter!Verdict(c, p) = RulesFor(c, p)[k].verdict
    BY <2>1, <2>2, FirstRule, 2 \in Nat
  <2> HIDE DEF M
  <2>3. CASE M(1)
    <3>1. Filter!Verdict(c, p) = RulesFor(c, p)[1].verdict
      BY <2>2, <2>3
    <3> QED
      BY <1>2, <2>1, <3>1 DEF Filter!Allowed
  <2>4. CASE ~M(1) /\ M(2)
    <3>1. Filter!Verdict(c, p) = RulesFor(c, p)[2].verdict
      BY <2>2, <2>4
    <3> QED
      BY <1>2, <2>1, <3>1 DEF Filter!Allowed
  <2>5. CASE ~M(1) /\ ~M(2)
    <3>1. \A j \in 1..2 : ~Matches(c, p, j)
      BY <2>5 DEF M
    <3> QED
      BY <1>2, <2>1, <3>1, NoRule, 2 \in Nat DEF Filter!Allowed
  <2> QED
    BY <2>3, <2>4, <2>5
<1>3. CASE p.user \in DOMAIN c.ports
  <2>1. /\ Len(RulesFor(c, p)) = 8
        /\ M(1) <=> p.host \in {"loopback", "resolver"}
        /\ M(2) <=> p.state = "established"
        /\ M(3) <=> p.proto = "udp" /\ p.port = Dns /\ p.host = "resolver"
        /\ M(4) <=> p.proto = "udp" /\ p.port = Dns
        /\ M(5) <=> p.proto = "tcp" /\ p.port = Dns /\ p.host = "resolver"
        /\ M(6) <=> p.proto = "tcp" /\ p.port = Dns
        /\ M(7) <=> p.proto = "tcp" /\ p.port \in c.ports[p.user]
        /\ M(8)
        /\ RulesFor(c, p)[1].verdict = "accept" /\ RulesFor(c, p)[2].verdict = "accept"
        /\ RulesFor(c, p)[4].verdict = "drop" /\ RulesFor(c, p)[6].verdict = "drop"
        /\ RulesFor(c, p)[7].verdict = "accept" /\ RulesFor(c, p)[8].verdict = "drop"
    BY <1>3, RulesForAgents
  <2>2. ASSUME NEW k \in 1..8, M(k), \A j \in 1..8 : M(j) => k <= j
        PROVE  Filter!Verdict(c, p) = RulesFor(c, p)[k].verdict
    BY <2>1, <2>2, FirstRule, 8 \in Nat
  <2> HIDE DEF M
  <2>3. CASE M(1)
    <3>1. Filter!Verdict(c, p) = RulesFor(c, p)[1].verdict
      BY <2>2, <2>3
    <3> QED
      BY <2>1, <2>3, <3>1 DEF Filter!Allowed
  <2>4. CASE ~M(1) /\ M(2)
    <3>1. Filter!Verdict(c, p) = RulesFor(c, p)[2].verdict
      BY <2>2, <2>4
    <3> QED
      BY <2>1, <2>4, <3>1 DEF Filter!Allowed
  <2>5. CASE ~M(1) /\ ~M(2)
    <3>1. p.host \notin {"loopback", "resolver"} /\ p.state # "established" /\ ~M(3) /\ ~M(5)
      BY <2>1, <2>5
    <3>2. CASE M(4)
      <4>1. Filter!Verdict(c, p) = RulesFor(c, p)[4].verdict
        BY <2>2, <2>5, <3>1, <3>2
      <4> QED
        BY <1>3, <2>1, <3>1, <3>2, <4>1 DEF Filter!Allowed
    <3>3. CASE ~M(4) /\ M(6)
      <4>1. Filter!Verdict(c, p) = RulesFor(c, p)[6].verdict
        BY <2>2, <2>5, <3>1, <3>3
      <4> QED
        BY <1>3, <2>1, <3>1, <3>3, <4>1 DEF Filter!Allowed
    <3>4. CASE ~M(4) /\ ~M(6) /\ M(7)
      <4>1. Filter!Verdict(c, p) = RulesFor(c, p)[7].verdict
        BY <2>2, <2>5, <3>1, <3>4
      <4> QED
        BY <1>3, <2>1, <3>1, <3>4, <4>1 DEF Filter!Allowed
    <3>5. CASE ~M(4) /\ ~M(6) /\ ~M(7)
      <4>1. Filter!Verdict(c, p) = RulesFor(c, p)[8].verdict
        BY <2>1, <2>2, <2>5, <3>1, <3>5
      <4> QED
        BY <1>1, <1>3, <2>1, <3>1, <3>5, <4>1 DEF Filter!Allowed
    <3> QED
      BY <3>2, <3>3, <3>4, <3>5
  <2> QED
    BY <2>3, <2>4, <2>5
<1> QED
  BY <1>2, <1>3

\* Once a strict bootstrap ran through, no failure, kill, prune or reboot opens the
\* machine again, unless a reboot finds rules that do not load; what is in force lets
\* through what its conos.toml allows; and after a clean bootstrap that is the one it
\* read.
THEOREM FilterStays == Spec => []FilterHolds
<1> DEFINE Inv == part = "filter" => FilterInv /\ FilterFlags
<1>0. Filter!FirewallAssumption
  BY HostAssumption
<1>1. Init => Inv
  <2>1. Init /\ part = "filter" => FilterInv
    BY <1>0, FilterInit DEF Init
  <2>2. Init /\ part = "filter" => FilterFlags
    BY DEF Init, Filter!Init, FilterFlags
  <2> QED
    BY <2>1, <2>2
<1>2. Inv /\ [Next]_vars => Inv'
  <2> SUFFICES ASSUME Inv, [Next]_vars, part' = "filter"
               PROVE  FilterInv' /\ FilterFlags'
    OBVIOUS
  <2>1. part = "filter" /\ [Filter!Next]_filterVars
    BY DEF Next, vars
  <2>2. FilterFlags'
    BY <2>1, Zenon DEF FilterFlags, Filter!Next, Filter!Load, Filter!AddUsers, Filter!Open,
       Filter!Fill, Filter!Apply, Filter!Enable, Filter!Prune, Filter!Finish, Filter!Kill,
       Filter!Reboot, Filter!Edit, Filter!Done, Filter!Failed, filterVars
  <2> QED
    BY <1>0, <2>1, <2>2, FilterStep
<1>3. FilterInv /\ FilterFlags => Filter!TypeOK /\ Filter!FilterHolds
  <2> SUFFICES ASSUME FilterInv, FilterFlags
               PROVE  Filter!TypeOK /\ Filter!FilterHolds
    OBVIOUS
  <2>1. Filter!TypeOK
    BY DEF FilterInv, FilterTyped, FilterFlags, Strict, Filter!TypeOK
  <2>2. Filter!FilterStaysInForce
    BY DEF FilterInv, InForceInv, Filter!FilterStaysInForce
  <2>3. Filter!FilterIsTheAllowlist
    BY RulesAreTheAllowlist DEF Filter!FilterIsTheAllowlist
  <2>4. Filter!CleanRunIsInForce
    BY DEF FilterInv, FilterTyped, CleanInv, Filter!CleanRunIsInForce, Filter!Loads
  <2> QED
    BY <2>1, <2>2, <2>3, <2>4 DEF Filter!FilterHolds
<1> QED
  BY <1>1, <1>2, <1>3, PTL DEF Spec, FilterHolds

-----------------------------------------------------------------------------
(* AgentRuntime: which key a run's model calls use, and who sees it.  All   *)
(* that a run does follows from conos.toml f, its agent n and the           *)
(* environment s it started with.                                           *)

Chosen(f, n, s) == Runtime!ResolvedAgent(Runtime!Parsed(f), n, s)
ForClaude(runner) == runner \in {"claude", "claude-code"}
CommandSees(a, e) == Runtime!Visible(Runtime!CommandEnv(a, e))
PicoClaw(runner) == runner \in {"picoclaw", ""}
InProcess(f, n, s) == PicoClaw(Chosen(f, n, s).runner)
Capture(f, n, s) == Runtime!BuildPicoConfig(Chosen(f, n, s), s)
Built(f, n, s) == Runtime!New(Chosen(f, n, s))
Read(f, n, s) == [Built(f, n, s) EXCEPT !.cfg = Capture(f, n, s)]
Cleared(f, n, s) == Runtime!ClearSecretEnv(s, Chosen(f, n, s).keyEnv)

\* What every call of the run's model can use.
CallOf(f, n, s) ==
    IF InProcess(f, n, s)
    THEN [provider |-> Capture(f, n, s).provider, key |-> Capture(f, n, s).key,
          sees |-> Runtime!Visible(Cleared(f, n, s))]
    ELSE [provider |-> "", key |-> "",
          sees |-> CommandSees(Chosen(f, n, s), s)]

IsDeclared(f, n) == Runtime!Parsed(f).agents[n] # Undeclared

Entry(a) == [model |-> a.model, strategy |-> a.strategy]
EntryIn(f, n, e) == Entry(Runtime!ResolvedForTask(Runtime!Parsed(f), n, e))

\* What the ledger may say of a task of the run.
EntriesOf(f, n, s) ==
    IF IsDeclared(f, n) THEN {Entry(Chosen(f, n, s))}
    ELSE {EntryIn(f, n, s), EntryIn(f, n, Cleared(f, n, s))}

\* The environment is the one the run started with until an in-process runtime has read
\* its key, and from then on without the secrets.
RuntimeInv ==
    /\ file \in Tomls /\ agent \in Names /\ started \in Environments
    /\ pc \in {"start", "loop", "refused", "failed", "done"}
    /\ pc \in {"start", "refused"} =>
          rt = Runtime!NoRuntime /\ env = started /\ calls = << >>
    /\ pc \in {"loop", "failed", "done"} =>
          /\ Runtime!Valid(Runtime!Parsed(file), started)
          /\ \/ /\ rt = Built(file, agent, started) /\ env = started
                /\ InProcess(file, agent, started) => calls = << >>
             \/ /\ rt = Read(file, agent, started) /\ env = Cleared(file, agent, started)
                /\ InProcess(file, agent, started)
    /\ calls \in Seq({CallOf(file, agent, started)})
    /\ ledger \in Seq(EntriesOf(file, agent, started))
    /\ Len(calls) = IF pc = "failed" THEN Len(ledger) + 1 ELSE Len(ledger)

\* How an agent is resolved, field by field.
Inherits(c, d, f) == Runtime!Or(d[f], Runtime!Or(c.tiers[d.tier][f], c.base[f]))
OAuth(c, d, e) ==
    \/ Inherits(c, d, "keyEnv") = "CLAUDE_CODE_OAUTH_TOKEN"
    \/ Runtime!Getenv(e, Inherits(c, d, "keyEnv")) = "oauth"
RunnerOf(c, d, e) ==
    IF OAuth(c, d, e) /\ Inherits(c, d, "runner") \in {"", "picoclaw"}
    THEN "claude-code" ELSE Runtime!Or(Inherits(c, d, "runner"), "picoclaw")

LEMMA Resolution ==
  ASSUME NEW c, NEW d, NEW e
  PROVE  /\ Runtime!Resolve(c, d, e).runner = RunnerOf(c, d, e)
         /\ Runtime!Resolve(c, d, e).provider =
              Runtime!Or(Inherits(c, d, "provider"), "openrouter")
         /\ Runtime!Resolve(c, d, e).model = Inherits(c, d, "model")
         /\ Runtime!Resolve(c, d, e).keyEnv =
              Runtime!Or(Inherits(c, d, "keyEnv"), "CONOS_API_KEY")
         /\ Runtime!Resolve(c, d, e).strategy = Runtime!DefaultStrategy(RunnerOf(c, d, e))
BY DEF Runtime!Resolve, RunnerOf, OAuth, Inherits

\* An agent that runs in the process has no OAuth key, and inherits no other runner.
LEMMA InProcessRunner ==
  ASSUME NEW c, NEW d, NEW e, PicoClaw(RunnerOf(c, d, e))
  PROVE  PicoClaw(Inherits(c, d, "runner")) /\ ~OAuth(c, d, e)
BY DEF RunnerOf, PicoClaw, Runtime!Or

\* Environment e is environment s with fewer variables set.
Within(e, s) ==
    \A v : Runtime!Getenv(e, v) = "" \/ Runtime!Getenv(e, v) = Runtime!Getenv(s, v)

\* With fewer variables set it runs in the process too.
LEMMA SameRunner ==
  ASSUME NEW c, NEW d, NEW s, NEW e, PicoClaw(RunnerOf(c, d, s)), Within(e, s)
  PROVE  RunnerOf(c, d, e) = RunnerOf(c, d, s)
<1>1. PicoClaw(Inherits(c, d, "runner")) /\ ~OAuth(c, d, s)
  BY InProcessRunner
<1>2. ~OAuth(c, d, e)
  BY <1>1 DEF OAuth, Within
<1> QED
  BY <1>1, <1>2 DEF RunnerOf

LEMMA SameEntry ==
  ASSUME NEW c, NEW d, NEW s, NEW e, RunnerOf(c, d, e) = RunnerOf(c, d, s)
  PROVE  Entry(Runtime!Resolve(c, d, e)) = Entry(Runtime!Resolve(c, d, s))
<1>1. Runtime!Resolve(c, d, e).model = Runtime!Resolve(c, d, s).model
  BY Resolution
<1>2. Runtime!Resolve(c, d, e).strategy = Runtime!Resolve(c, d, s).strategy
  BY Resolution
<1> QED
  BY <1>1, <1>2 DEF Entry

LEMMA ClearedIsWithin ==
  ASSUME NEW f, NEW n, NEW s
  PROVE  Within(Cleared(f, n, s), s)
BY DEF Within, Cleared, Runtime!ClearSecretEnv, Runtime!Unsetenv, Runtime!Getenv

LEMMA ChosenRunner ==
  ASSUME NEW f, NEW n, NEW s, IsDeclared(f, n), NEW c, c = Runtime!Parsed(f)
  PROVE  /\ Chosen(f, n, s) = Runtime!Resolve(c, c.agents[n], s)
         /\ InProcess(f, n, s) <=> PicoClaw(RunnerOf(c, c.agents[n], s))
<1>1. Chosen(f, n, s) = Runtime!Resolve(c, c.agents[n], s)
  BY DEF IsDeclared, Chosen, Runtime!ResolvedAgent
<1>2. Chosen(f, n, s).runner = RunnerOf(c, c.agents[n], s)
  BY <1>1, Resolution
<1> QED
  BY <1>1, <1>2 DEF InProcess

\* The resolution for a task agrees with the one for the runtime.
LEMMA TaskEntry ==
  ASSUME NEW f, NEW n, NEW s, NEW e,
         e = s \/ (InProcess(f, n, s) /\ e = Cleared(f, n, s))
  PROVE  EntryIn(f, n, e) \in EntriesOf(f, n, s)
<1>1. CASE ~IsDeclared(f, n)
  BY <1>1 DEF EntriesOf
<1>2. CASE IsDeclared(f, n)
  <2>1. PICK c, d : c = Runtime!Parsed(f) /\ d = c.agents[n]
    OBVIOUS
  <2>2. /\ Chosen(f, n, s) = Runtime!Resolve(c, d, s)
        /\ InProcess(f, n, s) <=> PicoClaw(RunnerOf(c, d, s))
    BY <1>2, <2>1, ChosenRunner
  <2>3. EntryIn(f, n, e) = Entry(Runtime!Resolve(c, d, e))
    BY <1>2, <2>1 DEF IsDeclared, EntryIn, Runtime!ResolvedForTask
  <2>4. RunnerOf(c, d, e) = RunnerOf(c, d, s)
    <3>1. CASE e = s
      BY <3>1
    <3>2. CASE InProcess(f, n, s) /\ e = Cleared(f, n, s)
      <4>1. Within(e, s)
        BY <3>2, ClearedIsWithin
      <4>2. PicoClaw(RunnerOf(c, d, s))
        BY <2>2, <3>2
      <4> QED
        BY <4>1, <4>2, SameRunner
    <3> QED
      BY <3>1, <3>2
  <2> QED
    BY <1>2, <2>2, <2>3, <2>4, SameEntry DEF EntriesOf
<1> QED
  BY <1>1, <1>2

LEMMA RuntimeInit == Runtime!Init => RuntimeInv
BY DEF Runtime!Init, RuntimeInv

\* What was read is told from what was not read yet.
Captures == [provider : Runtime!PicoClawProviders, key : Runtime!KeyKinds]

LEMMA GetenvIsKey ==
  ASSUME NEW e, e \in [DOMAIN e -> Runtime!KeyKinds], NEW v
  PROVE  Runtime!Getenv(e, v) \in Runtime!KeyKinds
BY DEF Runtime!Getenv, Runtime!KeyKinds

LEMMA PicoConfigIsRead ==
  ASSUME NEW a, NEW e, e \in [DOMAIN e -> Runtime!KeyKinds]
  PROVE  Runtime!BuildPicoConfig(a, e) \in Captures
<1> DEFINE own == Runtime!Or(Runtime!Getenv(e, a.keyEnv), Runtime!Getenv(e, "CONOS_API_KEY"))
           Key(p) == Runtime!Or(own, Runtime!Getenv(e, Runtime!ProviderVar[p]))
           first == {i \in 1..3 : /\ Key(Runtime!Cascade[i]) # ""
                                  /\ \A j \in 1..(i - 1) : Key(Runtime!Cascade[j]) = ""}
           i == CHOOSE i \in first : TRUE
<1>0. \A v : Runtime!Getenv(e, v) \in Runtime!KeyKinds
  BY GetenvIsKey
<1>1. own \in Runtime!KeyKinds
  BY <1>0 DEF Runtime!Or
<1> HIDE DEF own
<1>2. \A p : Key(p) \in Runtime!KeyKinds
  BY <1>0, <1>1 DEF Runtime!Or
<1>3. Runtime!Or(own, "plain") \in Runtime!KeyKinds
  BY <1>1 DEF Runtime!Or, Runtime!KeyKinds
<1>4. DOMAIN Runtime!ProviderVar = {"openrouter", "anthropic", "openai"}
  BY DEF Runtime!ProviderVar
<1>5. \A k \in 1..3 : Runtime!Cascade[k] \in Runtime!PicoClawProviders
  <2>1. /\ Runtime!Cascade[1] = "openrouter" /\ Runtime!Cascade[2] = "anthropic"
        /\ Runtime!Cascade[3] = "openai"
    BY DEF Runtime!Cascade
  <2>2. \A k \in 1..3 : k = 1 \/ k = 2 \/ k = 3
    OBVIOUS
  <2> QED
    BY <2>1, <2>2 DEF Runtime!PicoClawProviders
<1>6. first # {} => Runtime!Cascade[i] \in Runtime!PicoClawProviders
  <2>1. first \subseteq 1..3
    OBVIOUS
  <2> HIDE DEF first
  <2>2. first # {} => i \in first
    OBVIOUS
  <2> QED
    BY <1>5, <2>1, <2>2
<1> HIDE DEF Key, first, i
<1>a. ASSUME NEW p \in Runtime!PicoClawProviders, NEW k \in Runtime!KeyKinds
      PROVE  [provider |-> p, key |-> k] \in Captures
  BY DEF Captures
<1>7. CASE a.provider = "ollama"
  <2>1. Runtime!BuildPicoConfig(a, e) = [provider |-> "ollama", key |-> Runtime!Or(own, "plain")]
    BY <1>7 DEF Runtime!BuildPicoConfig, own
  <2> QED
    BY <1>3, <1>a, <2>1 DEF Runtime!PicoClawProviders
<1>8. CASE a.provider # "ollama" /\ a.provider \in DOMAIN Runtime!ProviderVar
  <2>1. Runtime!BuildPicoConfig(a, e) = [provider |-> a.provider, key |-> Key(a.provider)]
    BY <1>8 DEF Runtime!BuildPicoConfig, Key, own
  <2>2. a.provider \in Runtime!PicoClawProviders
    BY <1>4, <1>8 DEF Runtime!PicoClawProviders
  <2> QED
    BY <1>2, <1>a, <2>1, <2>2
<1>9. CASE a.provider # "ollama" /\ a.provider \notin DOMAIN Runtime!ProviderVar
  <2>1. Runtime!BuildPicoConfig(a, e) =
          IF first = {} THEN [provider |-> "", key |-> ""]
          ELSE [provider |-> Runtime!Cascade[i], key |-> Key(Runtime!Cascade[i])]
    BY <1>9 DEF Runtime!BuildPicoConfig, Key, own, first, i
  <2>2. "" \in Runtime!PicoClawProviders /\ "" \in Runtime!KeyKinds
    BY DEF Runtime!KeyKinds, Runtime!PicoClawProviders
  <2>3. CASE first = {}
    BY <1>a, <2>1, <2>2, <2>3
  <2>4. CASE first # {}
    BY <1>2, <1>6, <1>a, <2>1, <2>4
  <2> QED
    BY <2>3, <2>4
<1> QED
  BY <1>7, <1>8, <1>9

LEMMA CaptureIsRead ==
  ASSUME NEW f, NEW n, NEW s \in Environments
  PROVE  /\ s \in [DOMAIN s -> Runtime!KeyKinds]
         /\ Capture(f, n, s) \in Captures
         /\ Capture(f, n, s) # NotCaptured
<1>1. s \in [DOMAIN s -> Runtime!KeyKinds]
  BY HostAssumption DEF Runtime!RuntimeAssumption
<1>2. Capture(f, n, s) \in Captures
  BY <1>1, PicoConfigIsRead DEF Capture
<1>3. NotCaptured \notin Captures
  BY HostAssumption DEF Runtime!RuntimeAssumption, Captures
<1> QED
  BY <1>1, <1>2, <1>3

\* The runtime of a run, before and after it read its key.
LEMMA BuiltRuntime ==
  ASSUME NEW f, NEW n, NEW s
  PROVE  /\ Built(f, n, s).agent = Chosen(f, n, s) /\ Built(f, n, s).cfg = NotCaptured
         /\ Built(f, n, s).kind = IF InProcess(f, n, s) THEN "picoclaw" ELSE "exec"
         /\ Read(f, n, s).agent = Chosen(f, n, s) /\ Read(f, n, s).cfg = Capture(f, n, s)
         /\ Read(f, n, s).kind = IF InProcess(f, n, s) THEN "picoclaw" ELSE "exec"
         /\ [Built(f, n, s) EXCEPT !.cfg = Capture(f, n, s)] = Read(f, n, s)
         /\ [Read(f, n, s) EXCEPT !.cfg = Capture(f, n, s)] = Read(f, n, s)
BY DEF Built, Read, Runtime!New, InProcess, PicoClaw

\* What the step of a task does: the call is that of the run.
LEMMA TaskCalls ==
  ASSUME RuntimeInv, Runtime!Task
  PROVE  /\ calls' = Append(calls, CallOf(file, agent, started))
         /\ UNCHANGED <<file, agent, started>>
         /\ \/ /\ rt' = Built(file, agent, started) /\ env' = started
               /\ ~InProcess(file, agent, started)
            \/ /\ rt' = Read(file, agent, started) /\ env' = Cleared(file, agent, started)
               /\ InProcess(file, agent, started)
<1> DEFINE P == InProcess(file, agent, started)
           new == Built(file, agent, started)
           read == Read(file, agent, started)
<1>1. /\ pc = "loop" /\ UNCHANGED <<file, agent, started>>
      /\ Runtime!InvokePicoClaw \/ Runtime!InvokeExec
  BY DEF Runtime!Task
<1>2. \/ rt = new /\ env = started
      \/ rt = read /\ P /\ env = Cleared(file, agent, started)
  BY <1>1 DEF RuntimeInv
<1>3. /\ new.agent = Chosen(file, agent, started) /\ new.cfg = NotCaptured
      /\ new.kind = IF P THEN "picoclaw" ELSE "exec"
      /\ read.agent = Chosen(file, agent, started)
      /\ read.cfg = Capture(file, agent, started)
      /\ read.kind = IF P THEN "picoclaw" ELSE "exec"
      /\ [new EXCEPT !.cfg = Capture(file, agent, started)] = read
      /\ [read EXCEPT !.cfg = Capture(file, agent, started)] = read
  BY BuiltRuntime
<1>4. started \in Environments
  BY DEF RuntimeInv
<1>5. Capture(file, agent, started) # NotCaptured
  BY <1>4, CaptureIsRead
<1> HIDE DEF P, new, read
<1>6. CASE rt = new /\ env = started /\ P
  <2>1. Runtime!InvokePicoClaw
    BY <1>1, <1>3, <1>6 DEF Runtime!InvokeExec
  <2>2. Runtime!Cached = Capture(file, agent, started)
    BY <1>3, <1>6 DEF Runtime!Cached, Capture
  <2>3. rt' = read /\ env' = Cleared(file, agent, started)
    BY <1>3, <1>6, <2>1, <2>2 DEF Runtime!InvokePicoClaw, Cleared
  <2>4. calls' = Append(calls, CallOf(file, agent, started))
    BY <1>6, <2>1, <2>2, <2>3 DEF Runtime!InvokePicoClaw, CallOf, P
  <2> QED
    BY <1>1, <1>6, <2>3, <2>4 DEF P, new, read
<1>7. CASE rt = new /\ env = started /\ ~P
  <2>1. Runtime!InvokeExec
    BY <1>1, <1>3, <1>7 DEF Runtime!InvokePicoClaw
  <2>2. rt' = new /\ env' = started
    BY <1>7, <2>1 DEF Runtime!InvokeExec
  <2>3. calls' = Append(calls, CallOf(file, agent, started))
    BY <1>3, <1>7, <2>1 DEF Runtime!InvokeExec, CallOf, CommandSees, P
  <2> QED
    BY <1>1, <1>7, <2>2, <2>3 DEF P, new, read
<1>8. CASE rt = read /\ P /\ env = Cleared(file, agent, started)
  <2>1. Runtime!InvokePicoClaw
    BY <1>1, <1>3, <1>8 DEF Runtime!InvokeExec
  <2>2. rt.cfg # NotCaptured /\ Runtime!Cached = Capture(file, agent, started)
    BY <1>3, <1>5, <1>8 DEF Runtime!Cached
  <2>3. rt' = read /\ env' = Cleared(file, agent, started)
    BY <1>3, <1>8, <2>1, <2>2 DEF Runtime!InvokePicoClaw
  <2>4. calls' = Append(calls, CallOf(file, agent, started))
    BY <1>8, <2>1, <2>2, <2>3 DEF Runtime!InvokePicoClaw, CallOf, P
  <2> QED
    BY <1>1, <1>8, <2>3, <2>4 DEF P, new, read
<1> QED
  BY <1>2, <1>6, <1>7, <1>8

LEMMA RuntimeStep ==
  ASSUME RuntimeInv, [Runtime!Next]_runtimeVars
  PROVE  RuntimeInv'
<1>1. CASE Runtime!Start
  <2>1. /\ pc = "start" /\ pc' \in {"loop", "refused"}
        /\ UNCHANGED <<file, agent, env, started, calls, ledger>>
    BY <1>1 DEF Runtime!Start
  <2>2. rt = Runtime!NoRuntime /\ env = started /\ calls = << >>
    BY <2>1 DEF RuntimeInv
  <2>3. pc' = "refused" => rt' = rt
    BY <1>1 DEF Runtime!Start
  <2>4. pc' = "loop" => /\ Runtime!Valid(Runtime!Parsed(file), env)
                        /\ rt' = Runtime!New(Runtime!ResolvedAgent(Runtime!Parsed(file), agent, env))
    BY <1>1 DEF Runtime!Start, Runtime!Config
  <2>5. pc' = "loop" => rt' = Built(file, agent, started)
    BY <2>2, <2>4 DEF Built, Chosen
  <2> QED
    BY <2>1, <2>2, <2>3, <2>4, <2>5 DEF RuntimeInv
<1>2. CASE Runtime!Task
  <2> DEFINE call == CallOf(file, agent, started)
             entries == EntriesOf(file, agent, started)
  <2>1. /\ calls' = Append(calls, call)
        /\ UNCHANGED <<file, agent, started>>
        /\ \/ /\ rt' = Built(file, agent, started) /\ env' = started
              /\ ~InProcess(file, agent, started)
           \/ /\ rt' = Read(file, agent, started) /\ env' = Cleared(file, agent, started)
              /\ InProcess(file, agent, started)
    BY <1>2, TaskCalls
  <2>2. /\ pc = "loop" /\ calls \in Seq({call}) /\ ledger \in Seq(entries)
        /\ Len(calls) = Len(ledger)
        /\ Runtime!Valid(Runtime!Parsed(file), started)
    BY <1>2 DEF RuntimeInv, Runtime!Task
  <2>3. EntryIn(file, agent, env) \in entries
    <3>1. env = started \/ (InProcess(file, agent, started) /\ env = Cleared(file, agent, started))
      BY <2>2 DEF RuntimeInv
    <3> QED
      BY <3>1, TaskEntry
  <2>4. \/ ledger' = Append(ledger, EntryIn(file, agent, env)) /\ UNCHANGED pc
        \/ pc' = "failed" /\ UNCHANGED ledger
    BY <1>2 DEF Runtime!Task, EntryIn, Entry, Runtime!Config
  <2> HIDE DEF call, entries
  <2>5. calls' \in Seq({call}) /\ Len(calls') = Len(calls) + 1
    BY <2>1, <2>2
  <2>6. /\ ledger' \in Seq(entries)
        /\ Len(calls') = IF pc' = "failed" THEN Len(ledger') + 1 ELSE Len(ledger')
        /\ pc' \in {"loop", "failed"}
    BY <2>2, <2>3, <2>4, <2>5
  <2> QED
    BY <2>1, <2>2, <2>5, <2>6 DEF RuntimeInv, call, entries
<1>3. CASE Runtime!Drained
  BY <1>3 DEF RuntimeInv, Runtime!Drained
<1>4. CASE UNCHANGED runtimeVars
  BY <1>4 DEF RuntimeInv, runtimeVars
<1> QED
  BY <1>1, <1>2, <1>3, <1>4 DEF Runtime!Next

\* Every call is the call of the run, of the runtime of its agent.
LEMMA CallsAreAlike ==
  ASSUME RuntimeInv, NEW i \in DOMAIN calls
  PROVE  /\ calls[i] = CallOf(file, agent, started) /\ 1 \in DOMAIN calls
         /\ rt.agent = Chosen(file, agent, started)
         /\ rt.kind = IF InProcess(file, agent, started) THEN "picoclaw" ELSE "exec"
         /\ InProcess(file, agent, started) => rt = Read(file, agent, started)
         /\ Runtime!Valid(Runtime!Parsed(file), started)
<1>1. calls[i] = CallOf(file, agent, started) /\ 1 \in DOMAIN calls /\ calls # << >>
  BY DEF RuntimeInv
<1>2. /\ rt = Built(file, agent, started) \/ rt = Read(file, agent, started)
      /\ InProcess(file, agent, started) => rt = Read(file, agent, started)
      /\ Runtime!Valid(Runtime!Parsed(file), started)
  BY <1>1 DEF RuntimeInv
<1> QED
  BY <1>1, <1>2, BuiltRuntime

LEMMA RuntimeTyped ==
  ASSUME RuntimeInv
  PROVE  Runtime!TypeOK
<1>1. started \in [DOMAIN started -> Runtime!KeyKinds]
  BY CaptureIsRead DEF RuntimeInv
<1>2. Cleared(file, agent, started) \in [DOMAIN started -> Runtime!KeyKinds]
  BY <1>1 DEF Cleared, Runtime!ClearSecretEnv, Runtime!Unsetenv, Runtime!KeyKinds
<1>3. env \in [DOMAIN started -> Runtime!KeyKinds]
  BY <1>1, <1>2 DEF RuntimeInv
<1>4. rt = Runtime!NoRuntime <=> pc \in {"start", "refused"}
  <2>1. /\ Built(file, agent, started).kind # "none" /\ Read(file, agent, started).kind # "none"
        /\ Runtime!NoRuntime.kind = "none"
    BY BuiltRuntime DEF Runtime!NoRuntime
  <2> QED
    BY <2>1 DEF RuntimeInv
<1>5. Len(ledger) \in {Len(calls), Len(calls) - 1}
  BY DEF RuntimeInv
<1>6. Runtime!Called("picoclaw") # {} => rt.cfg # NotCaptured
  <2> SUFFICES ASSUME NEW i \in DOMAIN calls, rt.kind = "picoclaw"
               PROVE  rt.cfg # NotCaptured
    BY DEF Runtime!Called
  <2>1. InProcess(file, agent, started) /\ rt = Read(file, agent, started)
    BY CallsAreAlike
  <2> QED
    BY <2>1, BuiltRuntime, CaptureIsRead DEF RuntimeInv
<1> QED
  BY <1>3, <1>4, <1>5, <1>6 DEF Runtime!TypeOK, RuntimeInv

\* What an environment without the secrets shows.
LEMMA ClearedShows ==
  ASSUME NEW e, NEW names
  PROVE  /\ Runtime!Visible(Runtime!Unsetenv(e, names)) \cap names = {}
         /\ Runtime!Visible(Runtime!Unsetenv(e, names)) = Runtime!Visible(e) \ names
BY DEF Runtime!Visible, Runtime!Unsetenv

LEMMA ClaudeShows ==
  ASSUME NEW a, NEW e, ForClaude(a.runner)
  PROVE  /\ CommandSees(a, e) \cap (Runtime!KnownSecrets \cup {a.keyEnv}) \subseteq {a.keyEnv}
         /\ CommandSees(a, e) \cap (Runtime!ClaudeAuth \cup {a.keyEnv}) =
              {a.keyEnv} \cap Runtime!Visible(e)
BY DEF ForClaude, CommandSees, Runtime!Visible, Runtime!CommandEnv

LEMMA CommandCall ==
  ASSUME NEW f, NEW n, NEW s, ~InProcess(f, n, s)
  PROVE  CallOf(f, n, s).sees = CommandSees(Chosen(f, n, s), s)
<1>1. CallOf(f, n, s) =
        [provider |-> "", key |-> "", sees |-> CommandSees(Chosen(f, n, s), s)]
  BY DEF CallOf
<1>2. PICK none : CallOf(f, n, s) = [provider |-> none, key |-> none,
                                     sees |-> CommandSees(Chosen(f, n, s), s)]
  BY <1>1, Zenon
<1> QED
  BY <1>2

LEMMA KeysReach ==
  ASSUME RuntimeInv
  PROVE  Runtime!KeysReachTheirModel
<1> DEFINE A == Chosen(file, agent, started)
<1>1. Runtime!OneKeyPerRun
  BY CallsAreAlike DEF Runtime!OneKeyPerRun, Runtime!Called
<1>2. Runtime!SecretsStayInside
  <2> SUFFICES ASSUME NEW i \in DOMAIN calls
               PROVE  calls[i].sees \cap (Runtime!KnownSecrets \cup {rt.agent.keyEnv})
                        \subseteq (IF rt.kind = "exec" /\ rt.agent.runner \in {"claude", "claude-code"}
                                   THEN {rt.agent.keyEnv} ELSE {})
    BY DEF Runtime!SecretsStayInside
  <2>1. /\ calls[i] = CallOf(file, agent, started) /\ rt.agent = A
        /\ rt.kind = IF InProcess(file, agent, started) THEN "picoclaw" ELSE "exec"
    BY CallsAreAlike
  <2>2. CASE InProcess(file, agent, started)
    <3>1. calls[i].sees = Runtime!Visible(Runtime!Unsetenv(started, Runtime!KnownSecrets \cup {A.keyEnv}))
      BY <2>1, <2>2 DEF CallOf, Cleared, Runtime!ClearSecretEnv
    <3> QED
      BY <2>1, <3>1, ClearedShows
  <2>3. CASE ~InProcess(file, agent, started)
    <3>1. calls[i].sees = CommandSees(A, started)
      BY <2>1, <2>3, CommandCall
    <3>2. CASE ForClaude(A.runner)
      <4>1. CommandSees(A, started) \cap (Runtime!KnownSecrets \cup {A.keyEnv}) \subseteq {A.keyEnv}
        BY <3>2, ClaudeShows
      <4> QED
        BY <2>1, <2>3, <3>1, <3>2, <4>1 DEF ForClaude
    <3>3. CASE ~ForClaude(A.runner)
      <4>1. calls[i].sees = Runtime!Visible(Runtime!Unsetenv(started, Runtime!KnownSecrets \cup {A.keyEnv}))
        BY <3>1, <3>3 DEF ForClaude, CommandSees, Runtime!CommandEnv
      <4> QED
        BY <2>1, <4>1, ClearedShows
    <3> QED
      BY <3>2, <3>3
  <2> QED
    BY <2>2, <2>3
<1>3. Runtime!ClaudeGetsItsKey
  <2> SUFFICES ASSUME NEW i \in DOMAIN calls, rt.kind = "exec",
                      rt.agent.runner \in {"claude", "claude-code"}
               PROVE  calls[i].sees \cap (Runtime!ClaudeAuth \cup {rt.agent.keyEnv})
                        = {rt.agent.keyEnv} \cap Runtime!Visible(started)
    BY DEF Runtime!ClaudeGetsItsKey, Runtime!Called
  <2>1. /\ calls[i] = CallOf(file, agent, started) /\ rt.agent = A
        /\ ~InProcess(file, agent, started)
    BY CallsAreAlike
  <2>2. calls[i].sees = CommandSees(A, started)
    BY <2>1, CommandCall
  <2>3. ForClaude(A.runner)
    BY <2>1 DEF ForClaude
  <2>4. CommandSees(A, started) \cap (Runtime!ClaudeAuth \cup {A.keyEnv}) =
          {A.keyEnv} \cap Runtime!Visible(started)
    BY <2>3, ClaudeShows
  <2> QED
    BY <2>1, <2>2, <2>4
<1> QED
  BY <1>1, <1>2, <1>3 DEF Runtime!KeysReachTheirModel

\* A provider's key: the agent's own variable or the one that the provider has.
LEMMA AnthropicKey ==
  ASSUME NEW a, NEW s, a.provider = "anthropic"
  PROVE  Runtime!BuildPicoConfig(a, s).key =
           Runtime!Or(Runtime!Or(Runtime!Getenv(s, a.keyEnv), Runtime!Getenv(s, "CONOS_API_KEY")),
                      Runtime!Getenv(s, "CONOS_AUTH_ANTHROPIC"))
<1>1. "anthropic" \in DOMAIN Runtime!ProviderVar
      /\ Runtime!ProviderVar["anthropic"] = "CONOS_AUTH_ANTHROPIC"
  BY DEF Runtime!ProviderVar
<1> QED
  BY <1>1 DEF Runtime!BuildPicoConfig

\* Without an environment, as in the shell of `conctl status`, an agent that runs in the
\* process is resolved as it was for its runtime.
LEMMA SameAgent ==
  ASSUME NEW c, NEW d, NEW s, PicoClaw(RunnerOf(c, d, s))
  PROVE  /\ Runtime!Resolve(c, d, << >>).provider = Runtime!Resolve(c, d, s).provider
         /\ Runtime!Resolve(c, d, << >>).runner = "picoclaw"
         /\ Runtime!Resolve(c, d, << >>).keyEnv = Runtime!Resolve(c, d, s).keyEnv
<1>1. Within(<< >>, s)
  BY DEF Within, Runtime!Getenv
<1>2. RunnerOf(c, d, << >>) = RunnerOf(c, d, s)
  BY <1>1, SameRunner
<1>3. RunnerOf(c, d, s) = "picoclaw"
  BY DEF PicoClaw, RunnerOf, Runtime!Or
<1> QED
  BY <1>2, <1>3, Resolution

LEMMA Agreement ==
  ASSUME RuntimeInv
  PROVE  Runtime!ResolutionsAgree
<1> USE DEF Runtime!Declared, Runtime!Config
<1>1. PICK c, d : c = Runtime!Parsed(file) /\ d = c.agents[agent]
  OBVIOUS
<1>2. Runtime!Declared <=> IsDeclared(file, agent)
  BY DEF IsDeclared
<1>3. ASSUME Runtime!Declared
      PROVE  /\ Chosen(file, agent, started) = Runtime!Resolve(c, d, started)
             /\ InProcess(file, agent, started) <=> PicoClaw(RunnerOf(c, d, started))
  BY <1>1, <1>2, <1>3, ChosenRunner
<1>4. Runtime!SupportedProvider
  <2> SUFFICES ASSUME Runtime!Declared, NEW i \in DOMAIN calls, rt.kind = "picoclaw"
               PROVE  rt.agent.provider \in Runtime!PicoClawProviders
    BY DEF Runtime!SupportedProvider, Runtime!Called
  <2>1. /\ rt.agent = Chosen(file, agent, started) /\ InProcess(file, agent, started)
        /\ Runtime!Valid(Runtime!Parsed(file), started)
    BY CallsAreAlike
  <2>2. agent \in Names /\ c.agents[agent] # Undeclared
    BY <1>1 DEF RuntimeInv
  <2>3. Runtime!Resolve(c, d, started).runner \in {"picoclaw", ""}
    BY <1>3, <2>1 DEF InProcess, PicoClaw
  <2> QED
    BY <1>1, <1>3, <2>1, <2>2, <2>3 DEF Runtime!Valid
<1>5. Runtime!LedgerNamesTheRuntime
  <2> SUFFICES ASSUME Runtime!Declared, NEW i \in DOMAIN ledger
               PROVE  ledger[i] = [model |-> rt.agent.model, strategy |-> rt.agent.strategy]
    BY DEF Runtime!LedgerNamesTheRuntime
  <2>1. ledger[i] = Entry(Chosen(file, agent, started))
    <3>1. ledger[i] \in EntriesOf(file, agent, started)
      BY DEF RuntimeInv
    <3> QED
      BY <1>2, <3>1 DEF EntriesOf
  <2>2. 1 \in DOMAIN calls
    BY DEF RuntimeInv
  <2>3. rt.agent = Chosen(file, agent, started)
    BY <2>2, CallsAreAlike
  <2> QED
    BY <2>1, <2>3 DEF Entry
<1>6. Runtime!NoWarningMeansKey
  <2> SUFFICES ASSUME NEW i \in DOMAIN calls, rt.kind = "picoclaw",
                      Runtime!Declared, rt.agent.provider = "anthropic",
                      Runtime!Valid(Runtime!Parsed(file), << >>),
                      agent \notin Runtime!AuthWarnings(Runtime!Parsed(file), started)
               PROVE  calls[i].key # ""
    BY DEF Runtime!NoWarningMeansKey, Runtime!Called
  <2> DEFINE A == Chosen(file, agent, started)
  <2>1. /\ rt.agent = A /\ InProcess(file, agent, started)
        /\ calls[i] = CallOf(file, agent, started)
    BY CallsAreAlike
  <2>2. calls[i].key = Runtime!BuildPicoConfig(A, started).key
    BY <2>1 DEF CallOf, Capture
  <2>3. agent \in Names /\ c.agents[agent] # Undeclared
    BY <1>1 DEF RuntimeInv
  <2>4. A = Runtime!Resolve(c, d, started) /\ PicoClaw(RunnerOf(c, d, started))
    BY <1>3, <2>1
  <2>5. /\ Runtime!Resolve(c, d, << >>).provider = "anthropic"
        /\ Runtime!Resolve(c, d, << >>).runner = "picoclaw"
        /\ Runtime!Resolve(c, d, << >>).keyEnv = A.keyEnv
    BY <2>1, <2>4, SameAgent
  <2>6. Runtime!Or(Runtime!Getenv(started, A.keyEnv),
                   Runtime!Getenv(started, "CONOS_AUTH_ANTHROPIC")) \notin {"", "oauth"}
    BY <1>1, <2>3, <2>5 DEF Runtime!AuthWarnings
  <2>7. A.provider = "anthropic"
    BY <2>1
  <2>8. Runtime!BuildPicoConfig(A, started).key =
          Runtime!Or(Runtime!Or(Runtime!Getenv(started, A.keyEnv),
                                Runtime!Getenv(started, "CONOS_API_KEY")),
                     Runtime!Getenv(started, "CONOS_AUTH_ANTHROPIC"))
    BY <2>7, AnthropicKey
  <2> QED
    BY <2>2, <2>6, <2>8 DEF Runtime!Or
<1> QED
  BY <1>4, <1>5, <1>6 DEF Runtime!ResolutionsAgree

LEMMA RuntimeKeeps == Spec => [](part = "runtime" => RuntimeInv)
<1> DEFINE Inv == part = "runtime" => RuntimeInv
<1>1. Init => Inv
  BY RuntimeInit DEF Init
<1>2. Inv /\ [Next]_vars => Inv'
  <2> SUFFICES ASSUME Inv, [Next]_vars, part' = "runtime"
               PROVE  RuntimeInv'
    OBVIOUS
  <2>1. part = "runtime" /\ [Runtime!Next]_runtimeVars
    BY DEF Next, vars
  <2> QED
    BY <2>1, RuntimeStep
<1> QED
  BY <1>1, <1>2, PTL DEF Spec

\* All calls of a run use the key of the first, which no tool of a declared agent sees,
\* and an agent that runs Claude gets the key it was given.
THEOREM KeysArrive == Spec => []KeysReachTheirModel
<1>1. RuntimeInv => Runtime!TypeOK /\ Runtime!KeysReachTheirModel
  BY RuntimeTyped, KeysReach
<1> QED
  BY <1>1, RuntimeKeeps, PTL DEF KeysReachTheirModel

\* The three resolutions of a declared agent agree, whatever conos.toml and the
\* environment say, and though the run changes its environment between them.
THEOREM OneResolution == Spec => []ResolutionsAgree
<1>1. RuntimeInv => Runtime!ResolutionsAgree
  BY Agreement
<1> QED
  BY <1>1, RuntimeKeeps, PTL DEF ResolutionsAgree

-----------------------------------------------------------------------------
(* PackageConfig: the immutable bit of conos.toml, for any number of        *)
(* overlapping commands.                                                    *)

Places == {"idle", "apt", "read", "mutable", "truncate", "write", "immutable"}

\* The places of a command that took the bit off and has still to put it back.
Open == {"truncate", "write", "immutable"}

\* Unless a command was killed, one that will put the bit back is under way while it is
\* off.  It need not be the one that took it off.
OpenInv ==
    /\ place \in [Procs -> Places] /\ aborted \in Nat
    /\ aborted = 0 => immutable = TRUE \/ \E p \in Procs : place[p] \in Open

LEMMA OpenInit == Package!Init => OpenInv
BY DEF Package!Init, OpenInv, Places

\* A command that moves on to another place, but does not leave the open ones.
LEMMA Moves ==
  ASSUME OpenInv, NEW p \in Procs, NEW label \in Places,
         place[p] \in Open => label \in Open,
         Package!Goto(p, label), UNCHANGED <<immutable, aborted>>
  PROVE  OpenInv'
<1>1. place' \in [Procs -> Places]
  BY DEF OpenInv, Package!Goto
<1>2. \A q \in Procs : place[q] \in Open => place'[q] \in Open
  BY DEF OpenInv, Package!Goto
<1> QED
  BY <1>1, <1>2 DEF OpenInv

LEMMA OpenStep ==
  ASSUME OpenInv, [Package!Next]_Package!vars
  PROVE  OpenInv'
<1>1. ASSUME NEW p \in Procs, Package!Start(p)
      PROVE  OpenInv'
  <2>1. place[p] = "idle" /\ UNCHANGED <<immutable, aborted>>
    BY <1>1 DEF Package!Start
  <2>2. Package!Goto(p, "idle") \/ Package!Goto(p, "apt")
    BY <1>1 DEF Package!Start, Package!Exit
  <2> QED
    BY <2>1, <2>2, Moves DEF Places, Open
<1>2. ASSUME NEW p \in Procs, Package!Apt(p)
      PROVE  OpenInv'
  <2>1. place[p] = "apt" /\ UNCHANGED <<immutable, aborted>>
    BY <1>2 DEF Package!Apt, Package!bounds
  <2>2. Package!Goto(p, "idle") \/ Package!Goto(p, "read")
    BY <1>2 DEF Package!Apt, Package!Exit
  <2> QED
    BY <2>1, <2>2, Moves DEF Places, Open
<1>3. ASSUME NEW p \in Procs, Package!Read(p)
      PROVE  OpenInv'
  <2>1. place[p] = "read" /\ UNCHANGED <<immutable, aborted>>
    BY <1>3 DEF Package!Read, Package!bounds
  <2>2. Package!Goto(p, "idle") \/ Package!Goto(p, "mutable")
    <3>1. PICK e \in Package!Edits(p) :
            CASE e.result = "write" -> Package!Goto(p, "mutable")
              [] e.result = "present" -> Package!Exit(p)
              [] OTHER -> Package!Exit(p)
      BY <1>3, Zenon DEF Package!Read
    <3> QED
      BY <3>1, Zenon DEF Package!Exit
  <2> QED
    BY <2>1, <2>2, Moves DEF Places, Open
<1>4. ASSUME NEW p \in Procs, Package!Mutable(p)
      PROVE  OpenInv'
  <2>1. aborted' = aborted /\ place' = [place EXCEPT ![p] = "truncate"]
    BY <1>4 DEF Package!Mutable, Package!Goto, Package!bounds
  <2>2. place' \in [Procs -> Places] /\ place'[p] \in Open
    BY <2>1 DEF OpenInv, Places, Open
  <2> QED
    BY <2>1, <2>2 DEF OpenInv
<1>5. ASSUME NEW p \in Procs, Package!Truncate(p)
      PROVE  OpenInv'
  <2>1. UNCHANGED <<immutable, aborted>>
    BY <1>5 DEF Package!Truncate, Package!bounds
  <2>2. Package!Goto(p, "immutable") \/ Package!Goto(p, "write")
    BY <1>5 DEF Package!Truncate
  <2> QED
    BY <2>1, <2>2, Moves DEF Places, Open
<1>6. ASSUME NEW p \in Procs, Package!Write(p)
      PROVE  OpenInv'
  <2>1. UNCHANGED <<immutable, aborted>> /\ Package!Goto(p, "immutable")
    BY <1>6 DEF Package!Write, Package!bounds
  <2> QED
    BY <2>1, Moves DEF Places, Open
<1>7. ASSUME NEW p \in Procs, Package!Immutable(p)
      PROVE  OpenInv'
  <2>1. immutable' = TRUE /\ aborted' = aborted /\ Package!Goto(p, "idle")
    BY <1>7 DEF Package!Immutable, Package!Exit, Package!bounds
  <2> QED
    BY <2>1 DEF OpenInv, Package!Goto, Places
<1>8. ASSUME NEW p \in Procs, Package!Kill(p)
      PROVE  OpenInv'
  <2>1. aborted' = aborted + 1 /\ Package!Goto(p, "idle")
    BY <1>8 DEF Package!Kill, Package!Exit
  <2> QED
    BY <2>1 DEF OpenInv, Package!Goto, Places
<1>9. CASE UNCHANGED Package!vars
  BY <1>9 DEF OpenInv, Package!vars, Package!bounds
<1> QED
  BY <1>1, <1>2, <1>3, <1>4, <1>5, <1>6, <1>7, <1>8, <1>9 DEF Package!Next

\* However many commands overlap and fail to write, conos.toml is immutable when none
\* is under way and none was killed.
THEOREM ImmutableAgain == Spec => []ImmutableAtRest
<1> DEFINE Inv == part = "package" => OpenInv
<1>1. Init => Inv
  BY OpenInit DEF Init
<1>2. Inv /\ [Next]_vars => Inv'
  <2> SUFFICES ASSUME Inv, [Next]_vars, part' = "package"
               PROVE  OpenInv'
    OBVIOUS
  <2>1. part = "package" /\ [Package!Next]_packageVars
    BY DEF Next, vars
  <2>2. [Package!Next]_Package!vars
    BY <2>1, Zenon DEF packageVars, Package!vars, Package!bounds, Package!history
  <2> QED
    BY <2>1, <2>2, OpenStep
<1>3. OpenInv => Package!ImmutableAtRest
  BY DEF OpenInv, Package!ImmutableAtRest, Package!Quiet, Open
<1> QED
  BY <1>1, <1>2, <1>3, PTL DEF Spec, ImmutableAtRest

-----------------------------------------------------------------------------
(* PackageConfig: headers and ends of searches, by what they are.           *)

\* A set of numbers has a least one: induction, in the one form of it that needs no
\* operator as a parameter.
LEMMA LeastNat ==
  ASSUME NEW T \in SUBSET Nat, T # {}
  PROVE  \E m \in T : \A n \in T : m <= n
<1>1. IsWellFoundedOn(OpToRel(<, Nat), Nat)
  BY NatLessThanWellFounded
<1>2. PICK m \in T : \A n \in T : ~(<<n, m>> \in OpToRel(<, Nat))
  BY <1>1, WFMin, Zenon
<1>3. ASSUME NEW n \in T PROVE m <= n
  <2>1. <<n, m>> \notin {ss \in Nat \X Nat : ss[1] < ss[2]}
    BY <1>2 DEF OpToRel
  <2>2. <<n, m>> \in Nat \X Nat /\ <<n, m>>[1] = n /\ <<n, m>>[2] = m
    OBVIOUS
  <2>3. ~(n < m)
    BY <2>1, <2>2
  <2> QED
    BY <2>3
<1> QED
  BY <1>3

LEMMA GreatestBelow ==
  ASSUME NEW i \in Nat, NEW T \in SUBSET (1..i), T # {}
  PROVE  \E m \in T : \A n \in T : n <= m
<1> DEFINE U == {k \in Nat : i - k \in T}
<1>1. PICK x \in T : TRUE
  OBVIOUS
<1>2. i - x \in U
  <2>1. x \in 1..i /\ i - x \in Nat /\ i - (i - x) = x
    BY <1>1
  <2> QED
    BY <1>1, <2>1
<1>3. U \subseteq Nat /\ U # {}
  BY <1>2
<1>4. PICK k \in U : \A l \in U : k <= l
  <2> HIDE DEF U
  <2> QED
    BY <1>3, LeastNat
<1>5. i - k \in T /\ k \in Nat
  BY <1>4
<1>6. ASSUME NEW n \in T PROVE n <= i - k
  <2>1. n \in 1..i /\ i - n \in Nat /\ i - (i - n) = n
    OBVIOUS
  <2>2. i - n \in U
    BY <2>1
  <2>3. k <= i - n
    BY <1>4, <2>2
  <2> QED
    BY <1>5, <2>1, <2>3
<1> QED
  BY <1>5, <1>6

\* The header that line i stands under is line h.
IsHeader(lines, i, h) ==
    /\ h \in 0..i
    /\ h # 0 => lines[h].kind \in Package!Headers
    /\ \A k \in 1..i : lines[k].kind \in Package!Headers => k <= h

\* A search from line i ends at line s.
IsStop(lines, i, kinds, s) ==
    /\ s \in (i + 1)..(Len(lines) + 1)
    /\ s # Len(lines) + 1 => lines[s].kind \in kinds
    /\ \A k \in (i + 1)..Len(lines) : lines[k].kind \in kinds => s <= k

LEMMA HeaderIs ==
  ASSUME NEW lines, NEW i \in Nat
  PROVE  /\ IsHeader(lines, i, Package!Header(lines, i))
         /\ \A h : IsHeader(lines, i, h) => h = Package!Header(lines, i)
<1> DEFINE above == {h \in 1..i : lines[h].kind \in Package!Headers}
           top == CHOOSE h \in above : \A g \in above : g <= h
<1>1. Package!Header(lines, i) = IF above = {} THEN 0 ELSE top
  BY DEF Package!Header
<1>2. CASE above = {}
  <2>1. Package!Header(lines, i) = 0
    BY <1>1, <1>2
  <2>2. \A k \in 1..i : lines[k].kind \notin Package!Headers
    BY <1>2
  <2> HIDE DEF above, top
  <2> QED
    BY <2>1, <2>2 DEF IsHeader
<1>3. CASE above # {}
  <2>1. \E m \in above : \A n \in above : n <= m
    <3>1. above \subseteq 1..i
      OBVIOUS
    <3> HIDE DEF above
    <3> QED
      BY <1>3, <3>1, GreatestBelow
  <2>2. top \in above /\ \A g \in above : g <= top
    <3> HIDE DEF above
    <3> QED
      BY <2>1
  <2>3. /\ Package!Header(lines, i) = top /\ top \in 1..i
        /\ lines[top].kind \in Package!Headers
        /\ \A k \in 1..i : lines[k].kind \in Package!Headers => k <= top
    BY <1>1, <1>3, <2>2
  <2> HIDE DEF above, top
  <2>4. IsHeader(lines, i, top)
    BY <2>3 DEF IsHeader
  <2>5. ASSUME NEW h, IsHeader(lines, i, h) PROVE h = top
    <3>1. h \in 0..i /\ top <= h
      BY <2>3, <2>5 DEF IsHeader
    <3>2. h # 0 /\ lines[h].kind \in Package!Headers /\ h \in 1..i
      BY <2>3, <3>1, <2>5 DEF IsHeader
    <3>3. h <= top
      BY <2>3, <3>2
    <3> QED
      BY <2>3, <3>1, <3>3
  <2> QED
    BY <2>3, <2>4, <2>5
<1> QED
  BY <1>2, <1>3

LEMMA StopIs ==
  ASSUME NEW lines, Len(lines) \in Nat, DOMAIN lines = 1..Len(lines),
         NEW i \in 1..Len(lines), NEW kinds
  PROVE  /\ IsStop(lines, i, kinds, Package!Stop(lines, i, kinds))
         /\ \A s : IsStop(lines, i, kinds, s) => s = Package!Stop(lines, i, kinds)
<1> DEFINE ends == {k \in DOMAIN lines : k > i /\ lines[k].kind \in kinds}
           end == CHOOSE k \in ends : \A m \in ends : k <= m
<1>1. Package!Stop(lines, i, kinds) = IF ends = {} THEN Len(lines) + 1 ELSE end
  BY DEF Package!Stop
<1>0. \A k \in (i + 1)..Len(lines) : k \in DOMAIN lines /\ k > i
  OBVIOUS
<1>2. CASE ends = {}
  <2>1. Package!Stop(lines, i, kinds) = Len(lines) + 1
    BY <1>1, <1>2
  <2>2. \A k \in (i + 1)..Len(lines) : lines[k].kind \notin kinds
    BY <1>0, <1>2
  <2> HIDE DEF ends, end
  <2>3. IsStop(lines, i, kinds, Len(lines) + 1)
    BY <2>2 DEF IsStop
  <2>4. ASSUME NEW s, IsStop(lines, i, kinds, s) PROVE s = Len(lines) + 1
    <3>1. s \in (i + 1)..(Len(lines) + 1) /\ (s # Len(lines) + 1 => lines[s].kind \in kinds)
      BY <2>4 DEF IsStop
    <3>2. s # Len(lines) + 1 => s \in (i + 1)..Len(lines)
      BY <3>1
    <3> QED
      BY <2>2, <3>1, <3>2
  <2> QED
    BY <2>1, <2>3, <2>4
<1>3. CASE ends # {}
  <2>1. ends \subseteq Nat /\ \A k \in ends : k \in (i + 1)..Len(lines) /\ lines[k].kind \in kinds
    OBVIOUS
  <2>2. end \in ends /\ \A m \in ends : end <= m
    <3> HIDE DEF ends
    <3>1. \E k \in ends : \A m \in ends : k <= m
      BY <1>3, <2>1, LeastNat
    <3> QED
      BY <3>1
  <2>3. /\ Package!Stop(lines, i, kinds) = end /\ end \in (i + 1)..Len(lines)
        /\ lines[end].kind \in kinds
    BY <1>1, <1>3, <2>1, <2>2
  <2>4. \A k \in (i + 1)..Len(lines) : lines[k].kind \in kinds => end <= k
    BY <1>0, <2>2
  <2> HIDE DEF ends, end
  <2>5. IsStop(lines, i, kinds, end)
    BY <2>3, <2>4 DEF IsStop
  <2>6. ASSUME NEW s, IsStop(lines, i, kinds, s) PROVE s = end
    <3>1. /\ s \in (i + 1)..(Len(lines) + 1) /\ (s # Len(lines) + 1 => lines[s].kind \in kinds)
          /\ s <= end
      BY <2>3, <2>6 DEF IsStop
    <3>2. s \in (i + 1)..Len(lines) /\ lines[s].kind \in kinds
      BY <2>3, <3>1
    <3> QED
      BY <2>3, <2>4, <3>1, <3>2
  <2> QED
    BY <2>3, <2>5, <2>6
<1> QED
  BY <1>2, <1>3

LEMMA FirstIs ==
  ASSUME NEW T \in SUBSET Nat
  PROVE  /\ T # {} => Package!FirstOf(T) \in T /\ \A n \in T : Package!FirstOf(T) <= n
         /\ \A m \in T : (\A n \in T : m <= n) => Package!FirstOf(T) = m
<1>1. ASSUME T # {} PROVE Package!FirstOf(T) \in T /\ \A n \in T : Package!FirstOf(T) <= n
  <2>1. \E m \in T : \A n \in T : m <= n
    BY <1>1, LeastNat
  <2> QED
    BY <2>1 DEF Package!FirstOf
<1>2. ASSUME NEW m \in T, \A n \in T : m <= n PROVE Package!FirstOf(T) = m
  <2>1. Package!FirstOf(T) \in T /\ Package!FirstOf(T) <= m
    BY <1>1
  <2>2. m <= Package!FirstOf(T) /\ m \in Nat /\ Package!FirstOf(T) \in Nat
    BY <1>2, <2>1
  <2> QED
    BY <2>1, <2>2
<1> QED
  BY <1>1, <1>2

\* Two files that differ in what their lists list.
SameFrame(s, t) ==
    /\ s \in Seq(Package!Lines) /\ t \in Seq(Package!Lines) /\ Len(s) = Len(t)
    /\ \A i \in 1..Len(s) : s[i].kind = t[i].kind /\ s[i].of = t[i].of
    /\ \A i \in 1..Len(s) : s[i].kind \notin Package!Lists => s[i] = t[i]

Ends == Package!Lists \cup {"block", "table", "blank"}

\* The line that names an agent.
Named(lines, i) == i \in 1..Len(lines) /\ lines[i].kind = "name" /\ lines[i].of # Nobody

\* What AsDocumented says of such a line.
Tidy(lines, i) ==
    /\ Package!Header(lines, i) \in 1..i /\ lines[Package!Header(lines, i)].kind = "block"
    /\ \A j : Named(lines, j) =>
          (lines[j].of = lines[i].of \/ Package!Header(lines, j) = Package!Header(lines, i) => j = i)
    /\ \A k \in 1..Len(lines) :
          lines[k].kind \in Package!Lists /\ Package!Header(lines, k) = Package!Header(lines, i)
          => lines[k].kind = "packages" /\ k = Package!Stop(lines, i, Ends)
    /\ \A k \in i..(Package!Stop(lines, i, Ends) - 1) : lines[k].kind # "section"

LEMMA LineFacts ==
  ASSUME NEW lines \in Seq(Package!Lines)
  PROVE  /\ Len(lines) \in Nat /\ DOMAIN lines = 1..Len(lines)
         /\ \A i \in 1..Len(lines) : /\ lines[i] \in Package!Lines /\ lines[i].pkgs \subseteq Pkgs
                                     /\ lines[i].of \in Agents \cup {Nobody}
<1>1. Len(lines) \in Nat /\ DOMAIN lines = 1..Len(lines)
      /\ \A i \in 1..Len(lines) : lines[i] \in Package!Lines
  OBVIOUS
<1> QED
  BY <1>1 DEF Package!Lines

LEMMA HeaderRange ==
  ASSUME NEW lines \in Seq(Package!Lines), NEW i \in 1..Len(lines)
  PROVE  Package!Header(lines, i) \in 0..i
BY LineFacts, HeaderIs DEF IsHeader

LEMMA DocumentedMeans ==
  ASSUME NEW lines \in Seq(Package!Lines)
  PROVE  Package!AsDocumented(lines) <=>
            Package!WellFormed(lines) /\ \A i : Named(lines, i) => Tidy(lines, i)
<1> DEFINE names == {i \in DOMAIN lines : lines[i].kind = "name" /\ lines[i].of # Nobody}
           end(i) == Package!Stop(lines, i, Package!Lists \cup {"block", "table", "blank"})
           Each(i) ==
             /\ Package!KindAt(lines, Package!Header(lines, i)) = "block"
             /\ \A j \in names :
                  lines[j].of = lines[i].of \/ Package!Header(lines, j) = Package!Header(lines, i) => j = i
             /\ \A k \in DOMAIN lines :
                  lines[k].kind \in Package!Lists /\ Package!Header(lines, k) = Package!Header(lines, i)
                  => lines[k].kind = "packages" /\ k = end(i)
             /\ \A k \in i..(end(i) - 1) : lines[k].kind # "section"
<1>1. Package!AsDocumented(lines) <=> Package!WellFormed(lines) /\ \A i \in names : Each(i)
  BY DEF Package!AsDocumented
<1>2. \A i : i \in names <=> Named(lines, i)
  BY LineFacts DEF Named
<1>3. ASSUME NEW i, Named(lines, i) PROVE Each(i) <=> Tidy(lines, i)
  <2>1. i \in 1..Len(lines) /\ DOMAIN lines = 1..Len(lines) /\ Len(lines) \in Nat
    BY <1>3, LineFacts DEF Named
  <2>2. Package!Header(lines, i) \in 0..i
    BY <2>1, HeaderRange
  <2>3. Package!KindAt(lines, Package!Header(lines, i)) = "block"
        <=> Package!Header(lines, i) \in 1..i /\ lines[Package!Header(lines, i)].kind = "block"
    BY <2>1, <2>2 DEF Package!KindAt
  <2>4. end(i) = Package!Stop(lines, i, Ends)
    BY DEF Ends
  <2>5. (\A j \in names : lines[j].of = lines[i].of
              \/ Package!Header(lines, j) = Package!Header(lines, i) => j = i)
        <=> (\A j : Named(lines, j) =>
              (lines[j].of = lines[i].of
               \/ Package!Header(lines, j) = Package!Header(lines, i) => j = i))
    <3> HIDE DEF names
    <3> QED
      BY <1>2
  <2> HIDE DEF names, end
  <2> QED
    BY <2>1, <2>3, <2>4, <2>5 DEF Tidy
<1> HIDE DEF names, Each
<1> QED
  BY <1>1, <1>2, <1>3

LEMMA FrameHeaders ==
  ASSUME NEW s, NEW t, SameFrame(s, t), NEW i \in 1..Len(s)
  PROVE  /\ Package!Header(t, i) = Package!Header(s, i)
         /\ \A kinds : Package!Stop(t, i, kinds) = Package!Stop(s, i, kinds)
<1>1. /\ Len(s) \in Nat /\ DOMAIN s = 1..Len(s) /\ DOMAIN t = 1..Len(s) /\ Len(t) = Len(s)
      /\ \A j \in 1..Len(s) : s[j].kind = t[j].kind
  BY LineFacts DEF SameFrame
<1>2. Package!Header(t, i) = Package!Header(s, i)
  <2>1. IsHeader(s, i, Package!Header(s, i)) /\ i \in Nat
    BY <1>1, HeaderIs
  <2>2. \A k \in 1..i : k \in 1..Len(s)
    BY <1>1
  <2>3. IsHeader(t, i, Package!Header(s, i))
    BY <1>1, <2>1, <2>2 DEF IsHeader
  <2> QED
    BY <1>1, <2>3, HeaderIs
<1>3. ASSUME NEW kinds PROVE Package!Stop(t, i, kinds) = Package!Stop(s, i, kinds)
  <2>1. IsStop(s, i, kinds, Package!Stop(s, i, kinds))
    BY <1>1, StopIs
  <2>2. IsStop(t, i, kinds, Package!Stop(s, i, kinds))
    BY <1>1, <2>1 DEF IsStop
  <2> QED
    BY <1>1, <2>2, StopIs
<1> QED
  BY <1>2, <1>3

\* So they are well-formed, and written as documented, together.
LEMMA FrameKeeps ==
  ASSUME NEW s, NEW t, SameFrame(s, t), Package!AsDocumented(s)
  PROVE  /\ Package!AsDocumented(t) /\ Package!Rest(t) = Package!Rest(s)
         /\ \A i \in 1..Len(s) : \A a : Package!Owns(t, i, a) <=> Package!Owns(s, i, a)
<1>1. /\ Len(s) \in Nat /\ DOMAIN s = 1..Len(s) /\ DOMAIN t = 1..Len(s) /\ Len(t) = Len(s)
      /\ \A j \in 1..Len(s) : s[j].kind = t[j].kind /\ s[j].of = t[j].of
      /\ s \in Seq(Package!Lines) /\ t \in Seq(Package!Lines)
  BY LineFacts DEF SameFrame
<1>2. \A i \in 1..Len(s) : /\ Package!Header(t, i) = Package!Header(s, i)
                           /\ Package!Header(s, i) \in 0..i
                           /\ Package!Stop(t, i, Ends) = Package!Stop(s, i, Ends)
  BY <1>1, FrameHeaders, HeaderRange
<1>3. Package!WellFormed(s) /\ \A i : Named(s, i) => Tidy(s, i)
  BY <1>1, DocumentedMeans
<1>4. Package!WellFormed(t)
  BY <1>1, <1>2, <1>3 DEF Package!WellFormed
<1>5. ASSUME NEW i, Named(t, i) PROVE Tidy(t, i)
  <2>1. Named(s, i) /\ Tidy(s, i) /\ i \in 1..Len(s)
    BY <1>1, <1>3, <1>5 DEF Named
  <2>2. \A j : Named(t, j) => Named(s, j) /\ j \in 1..Len(s)
    BY <1>1 DEF Named
  <2> DEFINE h == Package!Header(s, i)
             e == Package!Stop(s, i, Ends)
  <2>3. /\ Package!Header(t, i) = h /\ Package!Stop(t, i, Ends) = e
        /\ h \in 1..i /\ h \in 1..Len(s) /\ e \in (i + 1)..(Len(s) + 1)
    <3>1. IsStop(s, i, Ends, e)
      BY <1>1, <2>1, StopIs
    <3> QED
      BY <1>1, <1>2, <2>1, <3>1 DEF IsStop, Tidy
  <2>4. \A k \in i..(e - 1) : k \in 1..Len(s)
    BY <1>1, <2>1, <2>3
  <2>5. \A k \in i..(e - 1) : t[k].kind # "section"
    <3>1. \A k \in i..(e - 1) : s[k].kind # "section"
      BY <2>1 DEF Tidy
    <3> HIDE DEF e
    <3> QED
      BY <1>1, <2>4, <3>1
  <2>6. t[h].kind = "block"
    BY <1>1, <2>1, <2>3 DEF Tidy
  <2>7. \A j : Named(t, j) => (t[j].of = t[i].of \/ Package!Header(t, j) = Package!Header(t, i) => j = i)
    BY <1>1, <1>2, <2>1, <2>2 DEF Tidy
  <2>8. \A k \in 1..Len(t) :
          t[k].kind \in Package!Lists /\ Package!Header(t, k) = h => t[k].kind = "packages" /\ k = e
    BY <1>1, <1>2, <2>1 DEF Tidy
  <2> HIDE DEF h, e
  <2> QED
    BY <2>3, <2>5, <2>6, <2>7, <2>8 DEF Tidy
<1>6. Package!Rest(t) = Package!Rest(s)
  <2>1. Package!OtherLines(t) = Package!OtherLines(s) /\ Package!OtherLines(s) \subseteq 1..Len(s)
    BY <1>1 DEF Package!OtherLines
  <2>2. \A i \in Package!OtherLines(s) : t[i] = s[i]
    BY <1>1 DEF Package!OtherLines, SameFrame
  <2> QED
    BY <2>1, <2>2 DEF Package!Rest
<1>7. ASSUME NEW i \in 1..Len(s), NEW a PROVE Package!Owns(t, i, a) <=> Package!Owns(s, i, a)
  <2>1. \A j \in 1..Len(s) : Package!Header(s, j) # 0 => Package!Header(s, j) \in 1..Len(s)
    BY <1>1, <1>2
  <2> QED
    BY <1>1, <1>2, <2>1 DEF Package!Owns
<1> QED
  BY <1>1, <1>4, <1>5, <1>6, <1>7, DocumentedMeans

\* The lists of agent a.
ListsOf(lines, a) == {k \in 1..Len(lines) : lines[k].kind \in Package!Lists /\ Package!Owns(lines, k, a)}

LEMMA ListedIs ==
  ASSUME NEW lines \in Seq(Package!Lines), NEW a \in Agents
  PROVE  Package!Listed(lines)[a] = UNION {lines[k].pkgs : k \in ListsOf(lines, a)}
<1>1. DOMAIN lines = 1..Len(lines)
  BY LineFacts
<1> QED
  BY <1>1 DEF Package!Listed, ListsOf

\* An agent is in one place, and has at most one list there.
LEMMA OneName ==
  ASSUME NEW lines \in Seq(Package!Lines), Package!AsDocumented(lines), NEW a \in Agents,
         NEW k \in 1..Len(lines), Package!Owns(lines, k, a),
         NEW n, Named(lines, n), lines[n].of = a
  PROVE  Package!Header(lines, k) = Package!Header(lines, n)
<1>1. PICK j \in DOMAIN lines :
        /\ lines[j].kind = "name" /\ lines[j].of = a
        /\ Package!Header(lines, j) = Package!Header(lines, k)
  BY DEF Package!Owns
<1>2. Named(lines, j)
  BY <1>1, LineFacts DEF Named
<1>3. Tidy(lines, n)
  BY DocumentedMeans
<1>4. j = n
  BY <1>1, <1>2, <1>3 DEF Tidy
<1> QED
  BY <1>1, <1>4

LEMMA OneList ==
  ASSUME NEW lines \in Seq(Package!Lines), Package!AsDocumented(lines), NEW a \in Agents,
         NEW i \in ListsOf(lines, a), NEW j \in ListsOf(lines, a)
  PROVE  i = j
<1>1. /\ i \in 1..Len(lines) /\ j \in 1..Len(lines) /\ DOMAIN lines = 1..Len(lines)
      /\ lines[i].kind \in Package!Lists /\ lines[j].kind \in Package!Lists
      /\ Package!Owns(lines, i, a) /\ Package!Owns(lines, j, a)
  BY LineFacts DEF ListsOf
<1>2. PICK n \in DOMAIN lines : lines[n].kind = "name" /\ lines[n].of = a
  BY <1>1 DEF Package!Owns
<1>3. Named(lines, n)
  <2>1. a # Nobody
    BY HostAssumption DEF Package!PackageAssumption
  <2> QED
    BY <1>1, <1>2, <2>1 DEF Named
<1>4. Package!Header(lines, i) = Package!Header(lines, j)
  BY <1>1, <1>2, <1>3, OneName
<1>5. Package!WellFormed(lines)
  BY DocumentedMeans
<1> QED
  BY <1>1, <1>4, <1>5 DEF Package!WellFormed

LEMMA OneOwner ==
  ASSUME NEW lines \in Seq(Package!Lines), Package!AsDocumented(lines),
         NEW a \in Agents, NEW b \in Agents, NEW k \in 1..Len(lines),
         Package!Owns(lines, k, a), Package!Owns(lines, k, b)
  PROVE  a = b
<1>1. DOMAIN lines = 1..Len(lines) /\ a # Nobody /\ b # Nobody
  BY LineFacts, HostAssumption DEF Package!PackageAssumption
<1>2. PICK i \in DOMAIN lines :
        /\ lines[i].kind = "name" /\ lines[i].of = a
        /\ Package!Header(lines, i) = Package!Header(lines, k)
  BY DEF Package!Owns
<1>3. PICK j \in DOMAIN lines :
        /\ lines[j].kind = "name" /\ lines[j].of = b
        /\ Package!Header(lines, j) = Package!Header(lines, k)
  BY DEF Package!Owns
<1>4. Named(lines, i) /\ Named(lines, j)
  BY <1>1, <1>2, <1>3 DEF Named
<1>5. Tidy(lines, i)
  BY <1>4, DocumentedMeans
<1>6. i = j
  BY <1>2, <1>3, <1>4, <1>5 DEF Tidy
<1> QED
  BY <1>2, <1>3, <1>6

LEMMA ListedOf ==
  ASSUME NEW lines \in Seq(Package!Lines), Package!AsDocumented(lines), NEW a \in Agents
  PROVE  /\ ListsOf(lines, a) = {} => Package!Listed(lines)[a] = {}
         /\ \A k \in ListsOf(lines, a) : Package!Listed(lines)[a] = lines[k].pkgs
         /\ Package!Listed(lines)[a] \subseteq Pkgs
<1>1. Package!Listed(lines)[a] = UNION {lines[k].pkgs : k \in ListsOf(lines, a)}
  BY ListedIs
<1>2. ASSUME NEW k \in ListsOf(lines, a)
      PROVE  Package!Listed(lines)[a] = lines[k].pkgs
  <2>1. ListsOf(lines, a) = {k}
    BY OneList
  <2> QED
    BY <1>1, <2>1
<1>3. \A k \in ListsOf(lines, a) : lines[k].pkgs \subseteq Pkgs
  BY LineFacts DEF ListsOf
<1> QED
  BY <1>1, <1>2, <1>3

LEMMA ListedTyped ==
  ASSUME NEW lines \in Seq(Package!Lines), Package!AsDocumented(lines)
  PROVE  Package!Listed(lines) \in [Agents -> SUBSET Pkgs]
<1>1. \A a \in Agents : Package!Listed(lines)[a] \subseteq Pkgs
  BY ListedOf
<1>2. Package!Listed(lines) = [a \in Agents |-> Package!Listed(lines)[a]]
  BY DEF Package!Listed
<1> QED
  BY <1>1, <1>2

\* A list is written anew.
Rewrites(lines, s, Q, t) == t = [lines EXCEPT ![s].pkgs = Q]

LEMMA Rewritten ==
  ASSUME NEW lines \in Seq(Package!Lines), Package!AsDocumented(lines),
         NEW s \in 1..Len(lines), lines[s].kind \in Package!Lists, NEW Q \in SUBSET Pkgs,
         NEW t, Rewrites(lines, s, Q, t)
  PROVE  /\ t \in Seq(Package!Lines) /\ Package!AsDocumented(t)
         /\ Package!Rest(t) = Package!Rest(lines)
         /\ \A a \in Agents :
              /\ Package!Owns(lines, s, a) =>
                    Package!Listed(t)[a] = Q /\ Package!Listed(lines)[a] = lines[s].pkgs
              /\ ~Package!Owns(lines, s, a) => Package!Listed(t)[a] = Package!Listed(lines)[a]
<1>1. /\ Len(lines) \in Nat /\ DOMAIN lines = 1..Len(lines)
      /\ \A i \in 1..Len(lines) : lines[i] \in Package!Lines
  BY LineFacts
<1>2. /\ DOMAIN t = 1..Len(lines)
      /\ \A i \in 1..Len(lines) : i # s => t[i] = lines[i]
      /\ t[s] = [lines[s] EXCEPT !.pkgs = Q] /\ t = [lines EXCEPT ![s] = t[s]]
  BY <1>1 DEF Rewrites
<1>3. /\ t[s] \in Package!Lines /\ t[s].kind = lines[s].kind /\ t[s].of = lines[s].of /\ t[s].pkgs = Q
  <2>1. lines[s] \in Package!Lines
    BY <1>1
  <2> QED
    BY <1>2, <2>1 DEF Package!Lines
<1>4. t \in Seq(Package!Lines) /\ Len(t) = Len(lines)
  BY <1>2, <1>3
<1>5. SameFrame(lines, t)
  BY <1>1, <1>2, <1>3, <1>4 DEF SameFrame
<1>6. /\ Package!AsDocumented(t) /\ Package!Rest(t) = Package!Rest(lines)
      /\ \A i \in 1..Len(lines) : \A a : Package!Owns(t, i, a) <=> Package!Owns(lines, i, a)
  BY <1>5, FrameKeeps
<1>7. ASSUME NEW a \in Agents PROVE ListsOf(t, a) = ListsOf(lines, a)
  <2>1. \A i \in 1..Len(lines) : t[i].kind = lines[i].kind
    BY <1>2, <1>3
  <2> QED
    BY <1>4, <1>6, <2>1 DEF ListsOf
<1>8. ASSUME NEW a \in Agents, Package!Owns(lines, s, a)
      PROVE  Package!Listed(t)[a] = Q /\ Package!Listed(lines)[a] = lines[s].pkgs
  <2>1. s \in ListsOf(lines, a)
    BY <1>8 DEF ListsOf
  <2>2. Package!Listed(lines)[a] = lines[s].pkgs
    BY <2>1, ListedOf
  <2>3. s \in ListsOf(t, a)
    BY <1>7, <2>1
  <2>4. Package!Listed(t)[a] = t[s].pkgs
    BY <1>4, <1>6, <2>3, ListedOf
  <2> QED
    BY <1>3, <2>2, <2>4
<1>9. ASSUME NEW a \in Agents, ~Package!Owns(lines, s, a)
      PROVE  Package!Listed(t)[a] = Package!Listed(lines)[a]
  <2>1. \A k \in ListsOf(lines, a) : k # s /\ k \in 1..Len(lines)
    BY <1>9 DEF ListsOf
  <2>2. \A k \in ListsOf(lines, a) : t[k] = lines[k]
    BY <1>2, <2>1
  <2>3. {t[k].pkgs : k \in ListsOf(t, a)} = {lines[k].pkgs : k \in ListsOf(lines, a)}
    BY <1>7, <2>2
  <2> QED
    BY <1>4, <2>3, ListedIs
<1> QED
  BY <1>4, <1>6, <1>8, <1>9

\* What an edit may return: the file a command writes has the agent's list changed, and
\* nothing else.
Edited(lines, t, a, Q) ==
    /\ t \in Seq(Package!Lines) /\ Package!AsDocumented(t)
    /\ Package!Rest(t) = Package!Rest(lines)
    /\ Package!Listed(t) = [Package!Listed(lines) EXCEPT ![a] = Q]

LEMMA EditedIf ==
  ASSUME NEW lines \in Seq(Package!Lines), NEW t, NEW a \in Agents, NEW Q,
         t \in Seq(Package!Lines) /\ Package!AsDocumented(t),
         Package!Rest(t) = Package!Rest(lines),
         Package!Listed(t)[a] = Q,
         \A b \in Agents : b # a => Package!Listed(t)[b] = Package!Listed(lines)[b]
  PROVE  Edited(lines, t, a, Q)
<1>1. \A s : /\ DOMAIN Package!Listed(s) = Agents
             /\ Package!Listed(s) = [b \in Agents |-> Package!Listed(s)[b]]
  BY DEF Package!Listed
<1>2. Package!Listed(t) = [Package!Listed(lines) EXCEPT ![a] = Q]
  BY <1>1
<1> QED
  BY <1>2 DEF Edited

LEMMA EditedNot ==
  ASSUME NEW lines \in Seq(Package!Lines), Package!AsDocumented(lines), NEW a \in Agents
  PROVE  Edited(lines, lines, a, Package!Listed(lines)[a])
BY EditedIf

LEMMA NamesOf ==
  ASSUME NEW lines \in Seq(Package!Lines), NEW a \in Agents, NEW kinds, NEW wanted,
         NEW i \in Package!Found(lines, a, kinds, wanted)
  PROVE  /\ Named(lines, i) /\ lines[i].of = a /\ i \in 1..Len(lines)
         /\ Package!KindAt(lines, Package!Stop(lines, i, kinds)) \in wanted
BY LineFacts, HostAssumption DEF Package!Found, Named, Package!PackageAssumption

\* The editor finds the agent's one name, when the search from it ends well.
LEMMA FoundOne ==
  ASSUME NEW lines \in Seq(Package!Lines), Package!AsDocumented(lines), NEW a \in Agents,
         NEW kinds, NEW wanted, Package!Found(lines, a, kinds, wanted) # {}
  PROVE  /\ Package!FirstOf(Package!Found(lines, a, kinds, wanted))
               \in Package!Found(lines, a, kinds, wanted)
         /\ \A n : Named(lines, n) /\ lines[n].of = a
               => n = Package!FirstOf(Package!Found(lines, a, kinds, wanted))
<1> DEFINE at == Package!Found(lines, a, kinds, wanted)
<1>1. at \subseteq Nat
  BY LineFacts DEF Package!Found
<1>2. Package!FirstOf(at) \in at
  <2>1. at # {}
    OBVIOUS
  <2> HIDE DEF at
  <2> QED
    BY <1>1, <2>1, FirstIs
<1>3. ASSUME NEW n, Named(lines, n), lines[n].of = a PROVE n = Package!FirstOf(at)
  <2>1. Named(lines, Package!FirstOf(at)) /\ lines[Package!FirstOf(at)].of = a
    <3> HIDE DEF at
    <3>1. Package!FirstOf(at) \in Package!Found(lines, a, kinds, wanted)
      BY <1>2 DEF at
    <3> QED
      BY <3>1, NamesOf
  <2>2. Tidy(lines, n)
    BY <1>3, DocumentedMeans
  <2> QED
    BY <1>3, <2>1, <2>2 DEF Tidy
<1> QED
  BY <1>2, <1>3

\* The lines between a name and the end of its search stand under its header, when no
\* header stands between them.
LEMMA Under ==
  ASSUME NEW lines \in Seq(Package!Lines), NEW n \in 1..Len(lines),
         NEW k \in n..Len(lines),
         \A i \in (n + 1)..k : lines[i].kind \notin Package!Headers
  PROVE  Package!Header(lines, k) = Package!Header(lines, n)
<1>1. Len(lines) \in Nat /\ n \in Nat /\ k \in Nat
  BY LineFacts
<1>2. IsHeader(lines, n, Package!Header(lines, n))
  BY <1>1, HeaderIs
<1>3. \A i \in 1..k : i \in 1..n \/ i \in (n + 1)..k
  BY <1>1
<1>4. IsHeader(lines, k, Package!Header(lines, n))
  BY <1>1, <1>2, <1>3 DEF IsHeader
<1> QED
  BY <1>1, <1>4, HeaderIs

\* The first list after an agent's name, when it is the agent's.
LEMMA FirstList ==
  ASSUME NEW lines \in Seq(Package!Lines), Package!AsDocumented(lines),
         NEW n, Named(lines, n), NEW k \in 1..Len(lines),
         lines[k].kind \in Package!Lists, Package!Header(lines, k) = Package!Header(lines, n)
  PROVE  /\ lines[k].kind = "packages" /\ k = Package!Stop(lines, n, Ends)
         /\ k = Package!Stop(lines, n, Package!Lists \cup {"block"})
<1>1. Tidy(lines, n) /\ n \in 1..Len(lines) /\ Len(lines) \in Nat /\ DOMAIN lines = 1..Len(lines)
  BY DocumentedMeans, LineFacts DEF Named
<1>2. lines[k].kind = "packages" /\ k = Package!Stop(lines, n, Ends)
  BY <1>1 DEF Tidy
<1>3. IsStop(lines, n, Ends, k)
  BY <1>1, <1>2, StopIs
<1>4. IsStop(lines, n, Package!Lists \cup {"block"}, k)
  BY <1>3 DEF IsStop, Ends
<1>5. k = Package!Stop(lines, n, Package!Lists \cup {"block"})
  BY <1>1, <1>4, StopIs
<1> QED
  BY <1>2, <1>5

\* Removing a package takes it off the agent's list and off no other.
LEMMA RemovedFrom ==
  ASSUME NEW lines \in Seq(Package!Lines), Package!AsDocumented(lines),
         NEW a \in Agents, NEW p \in Pkgs
  PROVE  /\ Package!RemovePackage(lines, a, p).result = "write"
         /\ Edited(lines, Package!RemovePackage(lines, a, p).lines, a,
                   Package!Listed(lines)[a] \ {p})
<1> DEFINE ends == Package!Lists \cup {"block"}
           at == Package!Found(lines, a, ends, Package!Lists)
           n == Package!FirstOf(at)
           stop == Package!Stop(lines, n, ends)
           t == [lines EXCEPT ![stop].pkgs = @ \ {p}]
           unchanged == at = {} \/ Package!KindAt(lines, stop) = "open"
           new == Package!RemovePackage(lines, a, p)
<1>0. /\ new.result = "write"
      /\ unchanged => new.lines = lines
      /\ ~unchanged => new.lines = t
  BY DEF Package!RemovePackage
<1>f. Len(lines) \in Nat /\ DOMAIN lines = 1..Len(lines)
  BY LineFacts
<1>h. a # Nobody
  BY HostAssumption DEF Package!PackageAssumption
<1>1. ASSUME NEW k \in ListsOf(lines, a)
      PROVE  at # {} /\ k = stop /\ lines[k].kind = "packages"
  <2>1. PICK j \in DOMAIN lines :
          /\ lines[j].kind = "name" /\ lines[j].of = a
          /\ Package!Header(lines, j) = Package!Header(lines, k)
    BY DEF ListsOf, Package!Owns
  <2>2. Named(lines, j) /\ k \in 1..Len(lines) /\ lines[k].kind \in Package!Lists
    BY <1>f, <1>h, <2>1 DEF Named, ListsOf
  <2>3. lines[k].kind = "packages" /\ k = Package!Stop(lines, j, ends)
    BY <2>1, <2>2, FirstList
  <2>4. j \in at
    BY <1>f, <2>1, <2>2, <2>3 DEF Package!Found, Package!KindAt
  <2>5. j = n
    <3>1. Package!Found(lines, a, ends, Package!Lists) # {}
      BY <2>4
    <3> HIDE DEF ends
    <3> QED
      BY <2>1, <2>2, <3>1, FoundOne
  <2> QED
    BY <2>3, <2>4, <2>5
<1>2. CASE unchanged
  <2>1. ListsOf(lines, a) = {}
    <3>1. ASSUME NEW k \in ListsOf(lines, a) PROVE FALSE
      <4>1. at # {} /\ k = stop /\ lines[k].kind = "packages" /\ k \in DOMAIN lines
        BY <1>1, <1>f DEF ListsOf
      <4>2. Package!KindAt(lines, stop) = "packages"
        BY <4>1 DEF Package!KindAt
      <4> QED
        BY <1>2, <4>1, <4>2
    <3> QED
      BY <3>1
  <2>2. Package!Listed(lines)[a] = {}
    BY <2>1, ListedOf
  <2>3. Package!Listed(lines)[a] \ {p} = Package!Listed(lines)[a]
    BY <2>2
  <2>4. Edited(lines, lines, a, Package!Listed(lines)[a] \ {p})
    BY <2>3, EditedNot
  <2> QED
    BY <1>0, <1>2, <2>4
<1>3. CASE ~unchanged
  <2>1. n \in at /\ Named(lines, n) /\ lines[n].of = a /\ n \in 1..Len(lines)
        /\ Package!KindAt(lines, stop) \in Package!Lists
    <3>1. Package!Found(lines, a, ends, Package!Lists) # {}
      BY <1>3
    <3>2. n \in Package!Found(lines, a, ends, Package!Lists)
      <4> HIDE DEF ends
      <4> QED
        BY <3>1, FoundOne
    <3> QED
      BY <3>2, NamesOf
  <2>2. stop \in 1..Len(lines) /\ lines[stop].kind \in Package!Lists
    <3> HIDE DEF stop
    <3> QED
      BY <2>1, <1>f DEF Package!KindAt, Package!Lists
  <2>3. lines[stop].pkgs \in SUBSET Pkgs
    BY <2>2, LineFacts
  <2> DEFINE Q == lines[stop].pkgs \ {p}
  <2>4. Q \in SUBSET Pkgs
    BY <2>3
  <2>5. Rewrites(lines, stop, Q, t)
    BY <1>f, <2>2 DEF Rewrites
  <2>6. /\ t \in Seq(Package!Lines) /\ Package!AsDocumented(t)
        /\ Package!Rest(t) = Package!Rest(lines)
        /\ \A b \in Agents :
             /\ Package!Owns(lines, stop, b) =>
                   Package!Listed(t)[b] = Q /\ Package!Listed(lines)[b] = lines[stop].pkgs
             /\ ~Package!Owns(lines, stop, b) => Package!Listed(t)[b] = Package!Listed(lines)[b]
    <3> HIDE DEF Q, t, stop
    <3> QED
      BY <2>2, <2>4, <2>5, Rewritten
  <2>7. CASE Package!Owns(lines, stop, a)
    <3>1. Package!Listed(t)[a] = Package!Listed(lines)[a] \ {p}
      BY <2>6, <2>7
    <3>2. \A b \in Agents : b # a => Package!Listed(t)[b] = Package!Listed(lines)[b]
      <4> HIDE DEF t, stop, Q
      <4> QED
        BY <2>2, <2>6, <2>7, OneOwner
    <3>3. Edited(lines, t, a, Package!Listed(lines)[a] \ {p})
      <4> HIDE DEF t
      <4> QED
        BY <2>6, <3>1, <3>2, EditedIf
    <3> QED
      BY <1>0, <1>3, <3>3
  <2>8. CASE ~Package!Owns(lines, stop, a)
    <3>1. ListsOf(lines, a) = {}
      BY <1>1, <2>8 DEF ListsOf
    <3>2. Package!Listed(lines)[a] = {}
      BY <3>1, ListedOf
    <3>3. ASSUME NEW b \in Agents, Package!Owns(lines, stop, b) PROVE FALSE
      <4> DEFINE h == Package!Header(lines, stop)
                 g == Package!Header(lines, n)
      <4>1. h # 0 /\ lines[h].kind = "block" /\ IsHeader(lines, stop, h)
            /\ IsHeader(lines, n, g) /\ stop \in Nat /\ n \in Nat
        BY <1>f, <2>1, <2>2, <3>3, HeaderIs DEF Package!Owns
      <4>2. IsStop(lines, n, ends, stop)
        BY <1>f, <2>1, StopIs
      <4>3. n < stop /\ h \in 1..stop /\ g \in 0..n
        <5> HIDE DEF h, g, stop, n
        <5> QED
          BY <1>f, <2>1, <2>2, <4>1, <4>2 DEF IsStop, IsHeader
      <4>4. h <= n
        <5>1. SUFFICES ASSUME ~(h <= n) PROVE FALSE
          OBVIOUS
        <5>2. h \in (n + 1)..Len(lines)
          <6> HIDE DEF h, g, stop, n
          <6> QED
            BY <1>f, <2>1, <2>2, <4>3, <5>1
        <5>3. stop <= h
          <6> HIDE DEF h, g, stop, n
          <6> QED
            BY <4>1, <4>2, <5>2 DEF IsStop
        <5>4. h = stop
          <6> HIDE DEF h, g, stop, n
          <6> QED
            BY <1>f, <2>2, <4>3, <5>3
        <5> QED
          BY <2>2, <4>1, <5>4 DEF Package!Lists
      <4>5. h <= g
        <5> HIDE DEF h, g, stop, n
        <5> QED
          BY <4>1, <4>3, <4>4 DEF IsHeader, Package!Headers
      <4>6. g <= h
        <5>1. g # 0 /\ lines[g].kind \in Package!Headers /\ g \in 1..stop
          <6> HIDE DEF h, g, stop, n
          <6> QED
            BY <1>f, <2>1, <2>2, <4>1, <4>3, <4>5 DEF IsHeader
        <5> HIDE DEF h, g, stop, n
        <5> QED
          BY <4>1, <5>1 DEF IsHeader
      <4>7. g = h
        <5> HIDE DEF h, g, stop, n
        <5> QED
          BY <1>f, <2>1, <2>2, <4>3, <4>5, <4>6
      <4>8. n \in DOMAIN lines /\ lines[n].kind = "name" /\ lines[n].of = a
        BY <1>f, <2>1 DEF Named
      <4>9. Package!Owns(lines, stop, a)
        BY <4>1, <4>7, <4>8 DEF Package!Owns
      <4> QED
        BY <2>8, <4>9
    <3>4. Package!Listed(t)[a] = Package!Listed(lines)[a] \ {p}
      BY <2>6, <2>8, <3>2
    <3>5. \A b \in Agents : b # a => Package!Listed(t)[b] = Package!Listed(lines)[b]
      <4> HIDE DEF t, stop, Q
      <4> QED
        BY <2>6, <3>3
    <3>6. Edited(lines, t, a, Package!Listed(lines)[a] \ {p})
      <4> HIDE DEF t
      <4> QED
        BY <2>6, <3>4, <3>5, EditedIf
    <3> QED
      BY <1>0, <1>3, <3>6
  <2> QED
    BY <2>7, <2>8
<1> QED
  BY <1>0, <1>2, <1>3

\* Sets that a one-to-one function maps onto each other have as many elements.
LEMMA SameCount ==
  ASSUME NEW S, NEW T, IsFiniteSet(S), NEW f \in [S -> T],
         \A x, y \in S : f[x] = f[y] => x = y,
         \A y \in T : \E x \in S : f[x] = y
  PROVE  Package!Cardinality(T) = Package!Cardinality(S)
<1>1. f \in Bijection(S, T)
  BY DEF Bijection, Injection, Surjection, IsInjective
<1>2. Cardinality(T) = Cardinality(S)
  BY <1>1, FS_Bijection DEF ExistsBijection
<1>3. Package!Cardinality(T) = Cardinality(T)
  BY DEF Package!Cardinality, Cardinality
<1>4. Package!Cardinality(S) = Cardinality(S)
  BY DEF Package!Cardinality, Cardinality
<1> QED
  BY <1>2, <1>3, <1>4

\* Where a line goes when one is inserted at s.
Shift(s, i) == IF i < s THEN i ELSE i + 1

\* File t is the other with line l inserted at s.
Longer(lines, s, l, t) ==
    /\ lines \in Seq(Package!Lines) /\ t \in Seq(Package!Lines) /\ Len(t) = Len(lines) + 1
    /\ s \in 1..(Len(lines) + 1) /\ t[s] = l
    /\ \A i \in 1..Len(lines) : t[Shift(s, i)] = lines[i]

\* What InsertLine does.
LEMMA InsertedIs ==
  ASSUME NEW lines \in Seq(Package!Lines), NEW s \in 1..(Len(lines) + 1),
         NEW l \in Package!Lines
  PROVE  Longer(lines, s, l, Package!InsertLine(lines, s, l))
<1> DEFINE head == SubSeq(lines, 1, s - 1)
           tail == SubSeq(lines, s, Len(lines))
           t == head \o <<l>> \o tail
<1>0. Package!InsertLine(lines, s, l) = t
  BY DEF Package!InsertLine
<1>f. Len(lines) \in Nat /\ s \in Nat /\ s >= 1 /\ s - 1 <= Len(lines) /\ s - 1 \in Nat
  BY LineFacts
<1>1. head \in Seq(Package!Lines) /\ Len(head) = s - 1 /\ \A i \in 1..(s - 1) : head[i] = lines[i]
  BY <1>f
<1>2. /\ tail \in Seq(Package!Lines) /\ Len(tail) = Len(lines) + 1 - s
      /\ \A i \in 1..(Len(lines) + 1 - s) : tail[i] = lines[s + i - 1]
  <2>1. \A i \in s..Len(lines) : lines[i] \in Package!Lines
    BY <1>f
  <2> QED
    BY <1>f, <2>1
<1>3. <<l>> \in Seq(Package!Lines) /\ Len(<<l>>) = 1 /\ <<l>>[1] = l
  OBVIOUS
<1> DEFINE u == head \o <<l>>
<1>7. /\ u \in Seq(Package!Lines) /\ Len(u) = s
      /\ \A i \in 1..s : u[i] = IF i < s THEN head[i] ELSE l
  <2> HIDE DEF head
  <2>1. u \in Seq(Package!Lines) /\ Len(u) = s
    BY <1>f, <1>1, <1>3
  <2>2. ASSUME NEW i \in 1..s PROVE u[i] = IF i < s THEN head[i] ELSE l
    <3>1. i < s => i \in 1..Len(head)
      BY <1>f, <1>1
    <3>2. ~(i < s) => i = Len(head) + 1
      BY <1>f, <1>1
    <3> QED
      BY <1>1, <1>3, <3>1, <3>2
  <2> QED
    BY <2>1, <2>2
<1>4. /\ t \in Seq(Package!Lines) /\ Len(t) = Len(lines) + 1
      /\ \A i \in 1..(Len(lines) + 1) :
           t[i] = IF i < s THEN head[i] ELSE IF i = s THEN l ELSE tail[i - s]
  <2>0. t = u \o tail
    OBVIOUS
  <2> HIDE DEF head, tail, u, t
  <2>1. t \in Seq(Package!Lines) /\ Len(t) = Len(lines) + 1
    <3>1. t \in Seq(Package!Lines) /\ Len(t) = Len(u) + Len(tail)
      BY <1>2, <1>7, <2>0
    <3> QED
      BY <1>f, <1>2, <1>7, <3>1
  <2>2. ASSUME NEW i \in 1..(Len(lines) + 1)
        PROVE  t[i] = IF i < s THEN head[i] ELSE IF i = s THEN l ELSE tail[i - s]
    <3>1. CASE i <= s
      <4>1. i \in 1..s /\ i \in 1..Len(u)
        BY <1>f, <1>7, <3>1
      <4>2. t[i] = u[i]
        BY <1>2, <1>7, <2>0, <4>1
      <4> QED
        BY <1>f, <1>7, <4>1, <4>2
    <3>2. CASE ~(i <= s)
      <4>1. i \in (Len(u) + 1)..(Len(u) + Len(tail)) /\ i - Len(u) = i - s /\ ~(i < s) /\ i # s
        BY <1>f, <1>2, <1>7, <3>2
      <4>2. t[i] = tail[i - Len(u)]
        BY <1>2, <1>7, <2>0, <4>1
      <4> QED
        BY <4>1, <4>2
    <3> QED
      BY <3>1, <3>2
  <2> QED
    BY <2>1, <2>2
<1> HIDE DEF t
<1>5. t[s] = l
  BY <1>f, <1>4
<1>6. ASSUME NEW i \in 1..Len(lines) PROVE t[Shift(s, i)] = lines[i]
  <2>1. CASE i < s
    <3>1. i \in 1..(s - 1) /\ i \in 1..(Len(lines) + 1) /\ Shift(s, i) = i
      BY <1>f, <2>1 DEF Shift
    <3> QED
      BY <1>1, <1>4, <2>1, <3>1
  <2>2. CASE ~(i < s)
    <3>1. /\ Shift(s, i) = i + 1 /\ i + 1 \in 1..(Len(lines) + 1) /\ ~(i + 1 < s) /\ i + 1 # s
          /\ (i + 1) - s \in 1..(Len(lines) + 1 - s) /\ s + ((i + 1) - s) - 1 = i
      BY <1>f, <2>2 DEF Shift
    <3> QED
      BY <1>2, <1>4, <3>1
  <2> QED
    BY <2>1, <2>2
<1> QED
  BY <1>0, <1>4, <1>5, <1>6 DEF Longer

LEMMA ShiftFacts ==
  ASSUME NEW n \in Nat, NEW s \in 1..(n + 1)
  PROVE  /\ Shift(s, 0) = 0 /\ Shift(s, n + 1) = n + 2
         /\ \A i \in 0..n : Shift(s, i) \in 0..(n + 1) /\ Shift(s, i) # s
         /\ \A i \in 1..n : Shift(s, i) \in 1..(n + 1)
         /\ \A i, j \in Nat : (Shift(s, i) <= Shift(s, j) <=> i <= j)
                              /\ (Shift(s, i) = Shift(s, j) <=> i = j)
                              /\ (Shift(s, i) < Shift(s, j) <=> i < j)
         /\ \A j \in 1..(n + 1) : j # s => \E i \in 1..n : Shift(s, i) = j
<1>1. ASSUME NEW j \in 1..(n + 1), j # s PROVE \E i \in 1..n : Shift(s, i) = j
  <2>1. CASE j < s
    <3>1. j \in 1..n /\ Shift(s, j) = j
      BY <2>1 DEF Shift
    <3> QED
      BY <3>1
  <2>2. CASE ~(j < s)
    <3>1. j - 1 \in 1..n /\ Shift(s, j - 1) = j
      BY <1>1, <2>2 DEF Shift
    <3> QED
      BY <3>1
  <2> QED
    BY <2>1, <2>2
<1>2. /\ Shift(s, 0) = 0 /\ Shift(s, n + 1) = n + 2
      /\ \A i \in 0..n : Shift(s, i) \in 0..(n + 1) /\ Shift(s, i) # s
      /\ \A i \in 1..n : Shift(s, i) \in 1..(n + 1)
  BY DEF Shift
<1>3. \A i, j \in Nat : (Shift(s, i) <= Shift(s, j) <=> i <= j)
                        /\ (Shift(s, i) = Shift(s, j) <=> i = j)
                        /\ (Shift(s, i) < Shift(s, j) <=> i < j)
  BY DEF Shift
<1> QED
  BY <1>1, <1>2, <1>3

LEMMA ShiftAlong ==
  ASSUME NEW lines, NEW s, NEW l, NEW t, Longer(lines, s, l, t)
  PROVE  /\ Len(lines) \in Nat /\ Len(t) = Len(lines) + 1 /\ s \in 1..(Len(lines) + 1)
         /\ Shift(s, 0) = 0
         /\ \A i \in 0..Len(lines) : Shift(s, i) \in 0..(Len(lines) + 1) /\ Shift(s, i) # s
         /\ \A i \in 1..Len(lines) : Shift(s, i) \in 1..(Len(lines) + 1)
         /\ \A i, j \in 0..(Len(lines) + 1) :
              /\ Shift(s, i) <= Shift(s, j) <=> i <= j
              /\ Shift(s, i) = Shift(s, j) <=> i = j
              /\ Shift(s, i) < Shift(s, j) <=> i < j
         /\ \A j \in 1..(Len(lines) + 1) : j # s => \E i \in 1..Len(lines) : Shift(s, i) = j
<1>1. Len(lines) \in Nat /\ Len(t) = Len(lines) + 1 /\ s \in 1..(Len(lines) + 1)
  BY LineFacts DEF Longer
<1> DEFINE n == Len(lines)
<1>2. n \in Nat /\ s \in 1..(n + 1)
  BY <1>1
<1>3. \A i \in 0..(n + 1) : i \in Nat
  BY <1>2
<1> HIDE DEF n
<1>4. \A j \in 1..(n + 1) : j # s => \E i \in 1..n : Shift(s, i) = j
  BY <1>2, ShiftFacts, Zenon
<1>5. /\ Shift(s, 0) = 0
      /\ \A i \in 0..n : Shift(s, i) \in 0..(n + 1) /\ Shift(s, i) # s
      /\ \A i \in 1..n : Shift(s, i) \in 1..(n + 1)
  BY <1>2, ShiftFacts, Zenon
<1>6. \A i, j \in 0..(n + 1) :
              /\ Shift(s, i) <= Shift(s, j) <=> i <= j
              /\ Shift(s, i) = Shift(s, j) <=> i = j
              /\ Shift(s, i) < Shift(s, j) <=> i < j
  BY <1>2, <1>3 DEF Shift
<1> QED
  BY <1>1, <1>4, <1>5, <1>6 DEF n

\* The headers move with the lines.
LEMMA ShiftHeader ==
  ASSUME NEW lines, NEW s, NEW l, NEW t, Longer(lines, s, l, t), l.kind \notin Package!Headers,
         NEW i \in 1..Len(lines)
  PROVE  Package!Header(t, Shift(s, i)) = Shift(s, Package!Header(lines, i))
<1> DEFINE h == Package!Header(lines, i)
<1>1. /\ Len(lines) \in Nat /\ Len(t) = Len(lines) + 1 /\ s \in 1..(Len(lines) + 1)
      /\ lines \in Seq(Package!Lines) /\ t[s] = l
      /\ \A k \in 1..Len(lines) : t[Shift(s, k)] = lines[k]
  BY LineFacts DEF Longer
<1>2. IsHeader(lines, i, h) /\ i \in Nat
  BY <1>1, HeaderIs
<1>3. h \in 0..i /\ h \in Nat
  BY <1>2 DEF IsHeader
<1>4. Shift(s, i) \in 1..(Len(lines) + 1) /\ Shift(s, h) \in 0..Shift(s, i)
  <2>0. i \in 1..Len(lines) /\ h \in 0..Len(lines) /\ h <= i
        /\ i \in 0..(Len(lines) + 1) /\ h \in 0..(Len(lines) + 1)
    BY <1>1, <1>3
  <2> HIDE DEF h
  <2>1. Shift(s, i) \in 1..(Len(lines) + 1) /\ Shift(s, h) \in 0..(Len(lines) + 1)
    BY <2>0, ShiftAlong
  <2>2. Shift(s, h) <= Shift(s, i)
    BY <2>0, ShiftAlong
  <2> QED
    BY <2>1, <2>2
<1>5. Shift(s, h) # 0 => t[Shift(s, h)].kind \in Package!Headers
  <2>1. Shift(s, 0) = 0
    BY ShiftAlong
  <2>2. Shift(s, h) # 0 => h # 0 /\ h \in 1..Len(lines)
    <3> HIDE DEF h
    <3> QED
      BY <1>1, <1>3, <2>1
  <2> HIDE DEF h
  <2> QED
    BY <1>1, <1>2, <2>2 DEF IsHeader
<1>6. ASSUME NEW k \in 1..Shift(s, i), t[k].kind \in Package!Headers PROVE k <= Shift(s, h)
  <2>1. k \in 1..(Len(lines) + 1) /\ k # s
    BY <1>1, <1>4, <1>6
  <2>2. PICK x \in 1..Len(lines) : Shift(s, x) = k
    BY <2>1, ShiftAlong
  <2>3. x \in Nat /\ x <= i
    <3>1. Shift(s, x) <= Shift(s, i)
      BY <1>4, <2>2
    <3>2. x \in 0..(Len(lines) + 1) /\ i \in 0..(Len(lines) + 1)
      BY <1>1
    <3> QED
      BY <1>1, <3>1, <3>2, ShiftAlong
  <2>4. x <= h
    <3>1. lines[x].kind \in Package!Headers /\ x \in 1..i
      BY <1>1, <1>2, <1>6, <2>2, <2>3
    <3> HIDE DEF h
    <3> QED
      BY <1>2, <3>1 DEF IsHeader
  <2>5. x \in 0..(Len(lines) + 1) /\ h \in 0..(Len(lines) + 1)
    BY <1>1, <1>3
  <2> HIDE DEF h
  <2> QED
    BY <2>2, <2>4, <2>5, ShiftAlong
<1>7. IsHeader(t, Shift(s, i), Shift(s, h))
  <2> HIDE DEF h
  <2> QED
    BY <1>4, <1>5, <1>6 DEF IsHeader
<1> QED
  BY <1>4, <1>7, HeaderIs

\* Owners are the same.
LEMMA ShiftOwner ==
  ASSUME NEW lines, NEW s, NEW l, NEW t, Longer(lines, s, l, t), l.kind = "packages",
         NEW i \in 1..Len(lines), NEW a
  PROVE  Package!Owns(t, Shift(s, i), a) <=> Package!Owns(lines, i, a)
<1>1. /\ Len(lines) \in Nat /\ Len(t) = Len(lines) + 1 /\ s \in 1..(Len(lines) + 1)
      /\ DOMAIN t = 1..(Len(lines) + 1) /\ DOMAIN lines = 1..Len(lines)
      /\ lines \in Seq(Package!Lines) /\ t[s] = l
      /\ \A k \in 1..Len(lines) : t[Shift(s, k)] = lines[k]
  BY LineFacts DEF Longer
<1>2. l.kind \notin Package!Headers
  BY DEF Package!Headers
<1>3. \A k \in 1..Len(lines) : Package!Header(t, Shift(s, k)) = Shift(s, Package!Header(lines, k))
  BY <1>2, ShiftHeader
<1>4. \A k \in 1..Len(lines) : Package!Header(lines, k) \in 0..Len(lines)
  BY <1>1, HeaderRange
<1>0. \A x \in 0..Len(lines) : x \in 0..(Len(lines) + 1)
  BY <1>1
<1>5. /\ Shift(s, 0) = 0
      /\ \A k \in 1..Len(lines) : Shift(s, k) \in 1..(Len(lines) + 1)
      /\ \A x, y \in 0..Len(lines) : Shift(s, x) = Shift(s, y) <=> x = y
      /\ \A j \in 1..(Len(lines) + 1) : j # s => \E k \in 1..Len(lines) : Shift(s, k) = j
  BY <1>0, ShiftAlong
<1>6. ASSUME Package!Owns(lines, i, a) PROVE Package!Owns(t, Shift(s, i), a)
  <2>1. PICK j \in 1..Len(lines) :
          /\ lines[j].kind = "name" /\ lines[j].of = a
          /\ Package!Header(lines, j) = Package!Header(lines, i)
          /\ Package!Header(lines, i) # 0 /\ lines[Package!Header(lines, i)].kind = "block"
    BY <1>1, <1>6 DEF Package!Owns
  <2>2. Package!Header(lines, i) \in 1..Len(lines)
    BY <1>1, <1>4, <2>1
  <2>3. /\ t[Shift(s, j)].kind = "name" /\ t[Shift(s, j)].of = a /\ Shift(s, j) \in DOMAIN t
        /\ Package!Header(t, Shift(s, j)) = Package!Header(t, Shift(s, i))
    BY <1>1, <1>3, <1>5, <2>1
  <2>4. /\ Package!Header(t, Shift(s, i)) # 0
        /\ t[Package!Header(t, Shift(s, i))].kind = "block"
    BY <1>1, <1>3, <1>5, <2>1, <2>2
  <2> QED
    BY <2>3, <2>4 DEF Package!Owns
<1>7. ASSUME Package!Owns(t, Shift(s, i), a) PROVE Package!Owns(lines, i, a)
  <2>1. PICK j \in 1..(Len(lines) + 1) :
          /\ t[j].kind = "name" /\ t[j].of = a
          /\ Package!Header(t, j) = Package!Header(t, Shift(s, i))
          /\ Package!Header(t, Shift(s, i)) # 0
          /\ t[Package!Header(t, Shift(s, i))].kind = "block"
    BY <1>1, <1>7 DEF Package!Owns
  <2>2. j # s
    BY <1>1, <2>1
  <2>3. PICK k \in 1..Len(lines) : Shift(s, k) = j
    BY <1>5, <2>2
  <2>4. Package!Header(lines, k) = Package!Header(lines, i)
    BY <1>3, <1>4, <1>5, <2>1, <2>3
  <2>5. Package!Header(lines, i) # 0 /\ Package!Header(lines, i) \in 1..Len(lines)
    BY <1>1, <1>3, <1>4, <1>5, <2>1
  <2> QED
    BY <1>1, <1>3, <2>1, <2>3, <2>4, <2>5 DEF Package!Owns
<1> QED
  BY <1>6, <1>7

\* The other lines are the same, each with its number.
LEMMA ShiftRest ==
  ASSUME NEW lines, NEW s, NEW l, NEW t, Longer(lines, s, l, t), l.kind = "packages"
  PROVE  Package!Rest(t) = Package!Rest(lines)
<1>1. /\ Len(lines) \in Nat /\ Len(t) = Len(lines) + 1 /\ s \in 1..(Len(lines) + 1)
      /\ DOMAIN t = 1..(Len(lines) + 1) /\ DOMAIN lines = 1..Len(lines)
      /\ t[s] = l
      /\ \A k \in 1..Len(lines) : t[Shift(s, k)] = lines[k]
  BY LineFacts DEF Longer
<1>0. \A x \in 1..Len(lines) : x \in 0..Len(lines) /\ x \in 0..(Len(lines) + 1)
  BY <1>1
<1>2. /\ \A k \in 1..Len(lines) : Shift(s, k) \in 1..(Len(lines) + 1) /\ Shift(s, k) # s
      /\ \A x, y \in 1..Len(lines) : /\ Shift(s, x) = Shift(s, y) => x = y
                                     /\ Shift(s, x) <= Shift(s, y) <=> x <= y
      /\ \A j \in 1..(Len(lines) + 1) : j # s => \E k \in 1..Len(lines) : Shift(s, k) = j
  BY <1>0, ShiftAlong
<1>3. /\ Package!OtherLines(lines) \subseteq 1..Len(lines)
      /\ \A k \in Package!OtherLines(lines) : Shift(s, k) \in Package!OtherLines(t)
      /\ \A j \in Package!OtherLines(t) : \E k \in Package!OtherLines(lines) : Shift(s, k) = j
  <2>1. s \notin Package!OtherLines(t)
    BY <1>1 DEF Package!OtherLines, Package!Lists
  <2> QED
    BY <1>1, <1>2, <2>1 DEF Package!OtherLines
<1> DEFINE upTo(i) == {k \in Package!OtherLines(lines) : k <= i}
           upToShift(i) == {k \in Package!OtherLines(t) : k <= Shift(s, i)}
<1>4. ASSUME NEW i \in Package!OtherLines(lines)
      PROVE  Package!Cardinality(upToShift(i)) = Package!Cardinality(upTo(i))
  <2> DEFINE f == [k \in upTo(i) |-> Shift(s, k)]
  <2>1. IsFiniteSet(upTo(i))
    <3>1. upTo(i) \in SUBSET Nat /\ \A k \in upTo(i) : k <= i
      BY <1>1, <1>3
    <3>2. i \in Nat
      BY <1>1, <1>3
    <3> HIDE DEF upTo
    <3> QED
      BY <3>1, <3>2, FS_BoundedSetOfNaturals
  <2>2. \A k \in upTo(i) : k \in 1..Len(lines) /\ Shift(s, k) \in upToShift(i)
    BY <1>2, <1>3
  <2>3. f \in [upTo(i) -> upToShift(i)]
    BY <2>2
  <2>4. \A x, y \in upTo(i) : f[x] = f[y] => x = y
    <3> HIDE DEF upTo, upToShift
    <3> QED
      BY <1>2, <2>2
  <2>5. ASSUME NEW y \in upToShift(i) PROVE \E x \in upTo(i) : f[x] = y
    <3>1. PICK x \in Package!OtherLines(lines) : Shift(s, x) = y
      BY <1>3
    <3>2. x \in upTo(i)
      BY <1>2, <1>3, <3>1
    <3> QED
      BY <3>1, <3>2
  <2> HIDE DEF f, upTo, upToShift
  <2> QED
    BY <2>1, <2>3, <2>4, <2>5, SameCount
<1>5. Package!Rest(lines) = {<<Package!Cardinality(upTo(i)), lines[i]>> : i \in Package!OtherLines(lines)}
  BY DEF Package!Rest
<1>6. Package!Rest(t) =
        {<<Package!Cardinality({k \in Package!OtherLines(t) : k <= j}), t[j]>> : j \in Package!OtherLines(t)}
  BY DEF Package!Rest
<1>7. {<<Package!Cardinality({k \in Package!OtherLines(t) : k <= j}), t[j]>> : j \in Package!OtherLines(t)}
        = {<<Package!Cardinality(upToShift(i)), t[Shift(s, i)]>> : i \in Package!OtherLines(lines)}
  BY <1>3, Zenon
<1>8. \A i \in Package!OtherLines(lines) :
        <<Package!Cardinality(upToShift(i)), t[Shift(s, i)]>> = <<Package!Cardinality(upTo(i)), lines[i]>>
  <2>1. \A i \in Package!OtherLines(lines) : t[Shift(s, i)] = lines[i]
    BY <1>1, <1>3
  <2> HIDE DEF upTo, upToShift
  <2> QED
    BY <1>4, <2>1
<1> HIDE DEF upTo, upToShift
<1>9. {<<Package!Cardinality(upToShift(i)), t[Shift(s, i)]>> : i \in Package!OtherLines(lines)}
        = {<<Package!Cardinality(upTo(i)), lines[i]>> : i \in Package!OtherLines(lines)}
  BY <1>8
<1> QED
  BY <1>5, <1>6, <1>7, <1>9 DEF upToShift

\* A list goes in below name n, at the line s where the search from it ends.
Inserting(lines, n, s, l, t) ==
    /\ Package!AsDocumented(lines) /\ Longer(lines, s, l, t)
    /\ Named(lines, n) /\ s = Package!Stop(lines, n, Ends)
    /\ s # Len(lines) + 1 => lines[s].kind \in {"table", "blank"}
    /\ l.kind = "packages"

LEMMA InsertFacts ==
  ASSUME NEW lines, NEW n, NEW s, NEW l, NEW t, Inserting(lines, n, s, l, t)
  PROVE  /\ lines \in Seq(Package!Lines) /\ t \in Seq(Package!Lines) /\ Longer(lines, s, l, t)
         /\ Len(lines) \in Nat /\ Len(t) = Len(lines) + 1
         /\ DOMAIN lines = 1..Len(lines) /\ DOMAIN t = 1..Len(t)
         /\ n \in 1..Len(lines) /\ s \in (n + 1)..(Len(lines) + 1) /\ n < s
         /\ t[s] = l /\ l.kind = "packages" /\ l.kind \notin Package!Headers
         /\ \A k \in 1..Len(lines) : t[Shift(s, k)] = lines[k]
         /\ \A k \in 1..Len(lines) : Package!Header(t, Shift(s, k)) = Shift(s, Package!Header(lines, k))
         /\ \A k \in 1..Len(lines) : Package!Header(lines, k) \in 0..k
         /\ \A k \in 1..Len(t) : k # s => \E i \in 1..Len(lines) : Shift(s, i) = k
         /\ IsStop(lines, n, Ends, s)
         /\ Tidy(lines, n)
<1>1. lines \in Seq(Package!Lines) /\ t \in Seq(Package!Lines) /\ Longer(lines, s, l, t)
      /\ Len(t) = Len(lines) + 1 /\ t[s] = l /\ l.kind = "packages"
      /\ \A k \in 1..Len(lines) : t[Shift(s, k)] = lines[k]
  BY DEF Inserting, Longer
<1>2. Len(lines) \in Nat /\ DOMAIN lines = 1..Len(lines) /\ DOMAIN t = 1..Len(t)
  BY <1>1, LineFacts
<1>3. n \in 1..Len(lines) /\ s = Package!Stop(lines, n, Ends)
  BY DEF Inserting, Named
<1>4. IsStop(lines, n, Ends, s)
  BY <1>2, <1>3, StopIs
<1>5. s \in (n + 1)..(Len(lines) + 1) /\ n < s
  BY <1>2, <1>3, <1>4 DEF IsStop
<1>6. l.kind \notin Package!Headers
  BY <1>1 DEF Package!Headers
<1>7. \A k \in 1..Len(lines) : Package!Header(t, Shift(s, k)) = Shift(s, Package!Header(lines, k))
  BY <1>1, <1>6, ShiftHeader
<1>8. \A k \in 1..Len(lines) : Package!Header(lines, k) \in 0..k
  BY <1>1, HeaderRange
<1>9. \A k \in 1..Len(t) : k # s => \E i \in 1..Len(lines) : Shift(s, i) = k
  BY <1>1, ShiftAlong
<1>10. Tidy(lines, n)
  BY <1>1, DocumentedMeans DEF Inserting
<1> QED
  BY <1>1, <1>2, <1>3, <1>4, <1>5, <1>6, <1>7, <1>8, <1>9, <1>10

\* No header stands between the name and the new list, so the list is under the name's.
LEMMA InsertedUnder ==
  ASSUME NEW lines, NEW n, NEW s, NEW l, NEW t, Inserting(lines, n, s, l, t)
  PROVE  /\ \A k \in (n + 1)..(s - 1) : lines[k].kind \notin Package!Headers
         /\ Package!Header(t, s) = Package!Header(lines, n)
         /\ Shift(s, Package!Header(lines, n)) = Package!Header(lines, n)
         /\ Package!Header(lines, n) \in 1..n /\ lines[Package!Header(lines, n)].kind = "block"
<1> DEFINE h == Package!Header(lines, n)
<1>1. /\ Len(lines) \in Nat /\ n \in 1..Len(lines) /\ s \in (n + 1)..(Len(lines) + 1)
      /\ t[s] = l /\ l.kind \notin Package!Headers
      /\ \A k \in 1..Len(lines) : t[Shift(s, k)] = lines[k]
      /\ IsStop(lines, n, Ends, s) /\ Tidy(lines, n) /\ s = Package!Stop(lines, n, Ends)
  BY InsertFacts DEF Inserting
<1>2. h \in 1..n /\ lines[h].kind = "block"
  BY <1>1 DEF Tidy
<1>3. ASSUME NEW k \in (n + 1)..(s - 1) PROVE lines[k].kind \notin Package!Headers
  <2>1. k \in n..(Package!Stop(lines, n, Ends) - 1) /\ k \in (n + 1)..Len(lines) /\ ~(s <= k)
    BY <1>1
  <2>2. lines[k].kind # "section"
    BY <1>1, <2>1 DEF Tidy
  <2>3. lines[k].kind \notin Ends
    BY <1>1, <2>1 DEF IsStop
  <2> QED
    BY <2>2, <2>3 DEF Ends, Package!Headers
<1>4. Shift(s, h) = h
  <2> HIDE DEF h
  <2> QED
    BY <1>1, <1>2 DEF Shift
<1>5. \A k \in 1..(s - 1) : t[k] = lines[k]
  <2>1. \A k \in 1..(s - 1) : Shift(s, k) = k /\ k \in 1..Len(lines)
    BY <1>1 DEF Shift
  <2> QED
    BY <1>1, <2>1
<1>6. IsHeader(lines, n, h)
  BY <1>1, HeaderIs
<1>7. IsHeader(t, s, h)
  <2>1. h \in 0..s /\ h \in 1..(s - 1)
    <3> HIDE DEF h
    <3> QED
      BY <1>1, <1>2
  <2>2. t[h].kind \in Package!Headers
    <3> HIDE DEF h
    <3> QED
      BY <1>2, <1>5, <2>1 DEF Package!Headers
  <2>3. ASSUME NEW k \in 1..s, t[k].kind \in Package!Headers PROVE k <= h
    <3>1. k # s
      BY <1>1, <2>3
    <3>2. k \in 1..(s - 1)
      BY <1>1, <3>1
    <3>3. lines[k].kind \in Package!Headers
      BY <1>5, <2>3, <3>2
    <3>4. k \notin (n + 1)..(s - 1)
      BY <1>3, <3>3
    <3>5. k \in 1..n
      BY <1>1, <3>2, <3>4
    <3> HIDE DEF h
    <3> QED
      BY <1>6, <3>3, <3>5 DEF IsHeader
  <2> HIDE DEF h
  <2> QED
    BY <2>1, <2>2, <2>3 DEF IsHeader
<1>8. Package!Header(t, s) = h
  <2>1. s \in Nat
    BY <1>1
  <2> QED
    BY <1>7, <2>1, HeaderIs
<1> QED
  BY <1>2, <1>3, <1>4, <1>8

\* The name had no list.
LEMMA NoListYet ==
  ASSUME NEW lines, NEW n, NEW s, NEW l, NEW t, Inserting(lines, n, s, l, t),
         NEW k \in 1..Len(lines), lines[k].kind \in Package!Lists
  PROVE  Package!Header(lines, k) # Package!Header(lines, n)
<1>1. Tidy(lines, n) /\ s = Package!Stop(lines, n, Ends) /\ Len(lines) \in Nat
  BY InsertFacts DEF Inserting
<1>2. SUFFICES ASSUME Package!Header(lines, k) = Package!Header(lines, n) PROVE FALSE
  OBVIOUS
<1>3. k = s
  BY <1>1, <1>2 DEF Tidy
<1>4. s # Len(lines) + 1
  BY <1>1, <1>3
<1> QED
  BY <1>3, <1>4 DEF Inserting, Package!Lists

LEMMA InsertedWellFormed ==
  ASSUME NEW lines, NEW n, NEW s, NEW l, NEW t, Inserting(lines, n, s, l, t)
  PROVE  Package!WellFormed(t)
<1>1. SUFFICES ASSUME NEW i \in 1..Len(t), NEW j \in 1..Len(t),
                      t[i].kind \in Package!Lists, t[j].kind \in Package!Lists,
                      Package!Header(t, i) = Package!Header(t, j)
               PROVE  i = j
  BY InsertFacts DEF Package!WellFormed
<1>2. ASSUME NEW x \in 1..Len(t), x # s, t[x].kind \in Package!Lists
      PROVE  Package!Header(t, x) # Package!Header(t, s)
  <2>1. PICK k \in 1..Len(lines) : Shift(s, k) = x
    BY <1>2, InsertFacts
  <2>2. lines[k].kind \in Package!Lists /\ Package!Header(t, x) = Shift(s, Package!Header(lines, k))
    BY <1>2, <2>1, InsertFacts
  <2>3. Package!Header(lines, k) # Package!Header(lines, n)
    BY <2>2, NoListYet
  <2>4. Package!Header(t, s) = Shift(s, Package!Header(lines, n))
    BY InsertedUnder
  <2>5. Package!Header(lines, k) \in 0..(Len(lines) + 1) /\ Package!Header(lines, n) \in 0..(Len(lines) + 1)
    BY InsertFacts
  <2> QED
    BY <2>2, <2>3, <2>4, <2>5, InsertFacts, ShiftAlong
<1>3. CASE i = s \/ j = s
  BY <1>1, <1>2, <1>3
<1>4. CASE i # s /\ j # s
  <2>1. PICK x \in 1..Len(lines) : Shift(s, x) = i
    BY <1>4, InsertFacts
  <2>2. PICK y \in 1..Len(lines) : Shift(s, y) = j
    BY <1>4, InsertFacts
  <2>3. lines[x].kind \in Package!Lists /\ lines[y].kind \in Package!Lists
        /\ Shift(s, Package!Header(lines, x)) = Shift(s, Package!Header(lines, y))
    <3>1. /\ \A k \in 1..Len(lines) : t[Shift(s, k)] = lines[k]
          /\ \A k \in 1..Len(lines) :
               Package!Header(t, Shift(s, k)) = Shift(s, Package!Header(lines, k))
      BY InsertFacts
    <3>2. /\ t[i] = lines[x] /\ Package!Header(t, i) = Shift(s, Package!Header(lines, x))
          /\ t[j] = lines[y] /\ Package!Header(t, j) = Shift(s, Package!Header(lines, y))
      BY <2>1, <2>2, <3>1, ZenonT(30)
    <3> QED
      BY <1>1, <3>2, ZenonT(30)
  <2>4. Package!Header(lines, x) \in 0..(Len(lines) + 1) /\ Package!Header(lines, y) \in 0..(Len(lines) + 1)
    BY InsertFacts
  <2>5. Package!Header(lines, x) = Package!Header(lines, y)
    BY <2>3, <2>4, InsertFacts, ShiftAlong
  <2>6. Package!WellFormed(lines) /\ DOMAIN lines = 1..Len(lines)
    BY InsertFacts, DocumentedMeans DEF Inserting
  <2>7. x = y
    BY <2>3, <2>5, <2>6 DEF Package!WellFormed
  <2> QED
    BY <2>1, <2>2, <2>7
<1> QED
  BY <1>3, <1>4

\* A search for the end of another name's lines ends before s, when it ends at that
\* name's list and the list stands before s; it never ends on the new list.
LEMMA OtherList ==
  ASSUME NEW lines, NEW n, NEW s, NEW l, NEW t, Inserting(lines, n, s, l, t),
         NEW i, Named(lines, i), i # n, i < s,
         NEW k \in 1..Len(lines), Package!Header(lines, k) = Package!Header(lines, i),
         k \in (i + 1)..Len(lines)
  PROVE  k < s
<1> DEFINE h == Package!Header(lines, n)
           g == Package!Header(lines, i)
<1>1. /\ Len(lines) \in Nat /\ n \in 1..Len(lines) /\ s \in (n + 1)..(Len(lines) + 1)
      /\ lines \in Seq(Package!Lines) /\ i \in 1..Len(lines) /\ Tidy(lines, n)
  BY InsertFacts DEF Named
<1>2. h # g
  BY <1>1 DEF Tidy
<1>3. IsHeader(lines, n, h) /\ IsHeader(lines, i, g) /\ IsHeader(lines, k, g)
  BY <1>1, HeaderIs
<1>4. h \in 1..n /\ lines[h].kind \in Package!Headers
  BY InsertedUnder DEF Package!Headers
<1>5. SUFFICES ASSUME ~(k < s) PROVE FALSE
  OBVIOUS
<1>6. CASE i < n
  <2>1. h <= g
    <3>1. h \in 1..k
      <4> HIDE DEF h, g
      <4> QED
        BY <1>1, <1>4, <1>5
    <3> HIDE DEF h, g
    <3> QED
      BY <1>3, <1>4, <3>1 DEF IsHeader
  <2>2. g <= h
    <3>1. g \in 0..i
      BY <1>3 DEF IsHeader
    <3>2. g # 0 /\ g \in 1..n /\ lines[g].kind \in Package!Headers
      <4> HIDE DEF h, g
      <4> QED
        BY <1>1, <1>3, <1>4, <1>6, <2>1, <3>1 DEF IsHeader
    <3> HIDE DEF h, g
    <3> QED
      BY <1>3, <3>2 DEF IsHeader
  <2>3. g \in 0..i
    BY <1>3 DEF IsHeader
  <2> HIDE DEF h, g
  <2> QED
    BY <1>1, <1>2, <1>4, <2>1, <2>2, <2>3
<1>7. CASE ~(i < n)
  <2>1. i \in n..Len(lines) /\ i \in (n + 1)..(s - 1)
    BY <1>1, <1>7
  <2>2. \A x \in (n + 1)..i : lines[x].kind \notin Package!Headers
    <3>1. \A x \in (n + 1)..i : x \in (n + 1)..(s - 1)
      BY <1>1, <2>1
    <3> QED
      BY <3>1, InsertedUnder
  <2>3. g = h
    BY <1>1, <2>1, <2>2, Under
  <2> QED
    BY <1>2, <2>3
<1> QED
  BY <1>6, <1>7

LEMMA InsertedStop ==
  ASSUME NEW lines, NEW n, NEW s, NEW l, NEW t, Inserting(lines, n, s, l, t)
  PROVE  /\ Package!Stop(t, n, Ends) = s
         /\ \A i : Named(lines, i) =>
              Package!Stop(t, Shift(s, i), Ends) <= Shift(s, Package!Stop(lines, i, Ends))
         /\ \A i : \A k \in 1..Len(lines) :
              /\ Named(lines, i) /\ i # n /\ k = Package!Stop(lines, i, Ends)
              /\ Package!Header(lines, k) = Package!Header(lines, i)
              => Package!Stop(t, Shift(s, i), Ends) = Shift(s, k)
<1>1. /\ Len(lines) \in Nat /\ Len(t) = Len(lines) + 1 /\ DOMAIN t = 1..Len(t)
      /\ n \in 1..Len(lines) /\ s \in (n + 1)..(Len(lines) + 1) /\ DOMAIN lines = 1..Len(lines)
      /\ t[s] = l /\ l.kind = "packages" /\ IsStop(lines, n, Ends, s)
      /\ \A k \in 1..Len(lines) : t[Shift(s, k)] = lines[k]
      /\ \A k \in 1..Len(t) : k # s => \E i \in 1..Len(lines) : Shift(s, i) = k
  BY InsertFacts
<1>2. Package!Stop(t, n, Ends) = s
  <2>1. t[s].kind \in Ends /\ s \in (n + 1)..(Len(t) + 1)
    BY <1>1 DEF Ends, Package!Lists
  <2>2. ASSUME NEW k \in (n + 1)..Len(t), t[k].kind \in Ends PROVE s <= k
    <3>1. SUFFICES ASSUME k < s PROVE FALSE
      BY <1>1
    <3>2. k \in (n + 1)..Len(lines) /\ k \in 1..Len(lines) /\ Shift(s, k) = k
      BY <1>1, <3>1 DEF Shift
    <3>3. lines[k].kind \in Ends
      BY <1>1, <2>2, <3>2
    <3>4. s <= k
      BY <1>1, <3>2, <3>3 DEF IsStop
    <3> QED
      BY <1>1, <3>1, <3>4
  <2>3. IsStop(t, n, Ends, s)
    BY <2>1, <2>2 DEF IsStop
  <2>4. n \in 1..Len(t) /\ Len(t) \in Nat
    BY <1>1
  <2> QED
    BY <1>1, <2>3, <2>4, StopIs
<1>3. ASSUME NEW i, Named(lines, i)
      PROVE  /\ i \in 1..Len(lines) /\ IsStop(lines, i, Ends, Package!Stop(lines, i, Ends))
             /\ Shift(s, i) \in 1..Len(t)
             /\ IsStop(t, Shift(s, i), Ends, Package!Stop(t, Shift(s, i), Ends))
  <2>1. i \in 1..Len(lines)
    BY <1>3 DEF Named
  <2>2. IsStop(lines, i, Ends, Package!Stop(lines, i, Ends))
    BY <1>1, <2>1, StopIs
  <2>3. Shift(s, i) \in 1..Len(t) /\ Len(t) \in Nat
    BY <1>1, <2>1, InsertFacts, ShiftAlong
  <2> QED
    BY <1>1, <2>1, <2>2, <2>3, StopIs
<1>4. ASSUME NEW i, Named(lines, i)
      PROVE  Package!Stop(t, Shift(s, i), Ends) <= Shift(s, Package!Stop(lines, i, Ends))
  <2> DEFINE e == Package!Stop(lines, i, Ends)
             d == Package!Stop(t, Shift(s, i), Ends)
  <2>1. /\ i \in 1..Len(lines) /\ IsStop(lines, i, Ends, e)
        /\ IsStop(t, Shift(s, i), Ends, d)
    BY <1>3, <1>4
  <2>2. e \in (i + 1)..(Len(lines) + 1) /\ d \in (Shift(s, i) + 1)..(Len(t) + 1)
    BY <2>1 DEF IsStop
  <2> HIDE DEF e, d
  <2>3. CASE e = Len(lines) + 1
    <3>1. Shift(s, e) = Len(t) + 1
      BY <1>1, <2>3 DEF Shift
    <3>2. Shift(s, i) \in Nat
      BY <1>1, <2>1 DEF Shift
    <3> QED
      BY <1>1, <2>2, <3>1, <3>2 DEF d, e
  <2>4. CASE e # Len(lines) + 1
    <3>1. e \in 1..Len(lines) /\ lines[e].kind \in Ends /\ i < e
      <4>0. e \in (i + 1)..(Len(lines) + 1)
        BY <2>2
      <4>1. e \in 1..Len(lines) /\ i < e
        BY <1>1, <2>1, <2>4, <4>0
      <4>2. lines[e].kind \in Ends
        BY <2>1, <2>4 DEF IsStop
      <4> QED
        BY <4>1, <4>2
    <3>2. t[Shift(s, e)].kind \in Ends
      BY <1>1, <3>1
    <3>3. Shift(s, e) \in (Shift(s, i) + 1)..Len(t)
      BY <1>1, <2>1, <3>1 DEF Shift
    <3>4. d <= Shift(s, e)
      BY <2>1, <3>2, <3>3 DEF IsStop
    <3> QED
      BY <3>4 DEF d, e
  <2> QED
    BY <2>3, <2>4
<1>5. ASSUME NEW i, NEW k \in 1..Len(lines),
             Named(lines, i), i # n, k = Package!Stop(lines, i, Ends),
             Package!Header(lines, k) = Package!Header(lines, i)
      PROVE  Package!Stop(t, Shift(s, i), Ends) = Shift(s, k)
  <2>1. /\ i \in 1..Len(lines) /\ IsStop(lines, i, Ends, k) /\ Shift(s, i) \in 1..Len(t)
    BY <1>3, <1>5
  <2>2. k \in (i + 1)..Len(lines) /\ lines[k].kind \in Ends /\ i < k
    BY <1>1, <1>5, <2>1 DEF IsStop
  <2>3. t[Shift(s, k)].kind \in Ends /\ Shift(s, k) \in (Shift(s, i) + 1)..(Len(t) + 1)
    <3>1. Shift(s, k) \in (Shift(s, i) + 1)..(Len(t) + 1)
      BY <1>1, <2>1, <2>2 DEF Shift
    <3> QED
      BY <1>1, <2>2, <3>1
  <2>4. ASSUME NEW x \in (Shift(s, i) + 1)..Len(t), t[x].kind \in Ends PROVE Shift(s, k) <= x
    <3>1. x \in 1..Len(t)
      BY <1>1, <2>1
    <3>2. CASE x = s
      <4>1. i < s
        BY <1>1, <2>1, <3>2 DEF Shift
      <4>2. k < s
        BY <1>5, <2>2, <4>1, OtherList
      <4> QED
        BY <1>1, <3>2, <4>2 DEF Shift
    <3>3. CASE x # s
      <4>1. PICK y \in 1..Len(lines) : Shift(s, y) = x
        BY <1>1, <3>1, <3>3
      <4>2. lines[y].kind \in Ends
        BY <1>1, <2>4, <4>1
      <4>3. y \in (i + 1)..Len(lines)
        BY <1>1, <2>1, <4>1 DEF Shift
      <4>4. k <= y
        BY <2>1, <4>2, <4>3 DEF IsStop
      <4> QED
        BY <1>1, <4>1, <4>4 DEF Shift
    <3> QED
      BY <3>2, <3>3
  <2>5. IsStop(t, Shift(s, i), Ends, Shift(s, k))
    BY <2>3, <2>4 DEF IsStop
  <2>6. Len(t) \in Nat
    BY <1>1
  <2> QED
    BY <1>1, <2>1, <2>5, <2>6, StopIs
<1> QED
  BY <1>2, <1>4, <1>5

LEMMA InsertedTidy ==
  ASSUME NEW lines, NEW n, NEW s, NEW l, NEW t, Inserting(lines, n, s, l, t),
         NEW j, Named(t, j)
  PROVE  Tidy(t, j)
<1>1. /\ Len(lines) \in Nat /\ Len(t) = Len(lines) + 1
      /\ n \in 1..Len(lines) /\ s \in (n + 1)..(Len(lines) + 1)
      /\ t[s] = l /\ l.kind = "packages" /\ lines \in Seq(Package!Lines)
      /\ \A k \in 1..Len(lines) : t[Shift(s, k)] = lines[k]
      /\ \A k \in 1..Len(t) : k # s => \E i \in 1..Len(lines) : Shift(s, i) = k
      /\ \A k \in 1..Len(lines) : Package!Header(t, Shift(s, k)) = Shift(s, Package!Header(lines, k))
      /\ \A k \in 1..Len(lines) : Package!Header(lines, k) \in 0..k
  BY InsertFacts
<1>2. ASSUME NEW x, Named(t, x)
      PROVE  \E i : Named(lines, i) /\ i \in 1..Len(lines) /\ Shift(s, i) = x
  <2>1. x \in 1..Len(t) /\ x # s
    BY <1>1, <1>2 DEF Named
  <2>2. PICK i \in 1..Len(lines) : Shift(s, i) = x
    BY <1>1, <2>1
  <2>3. Named(lines, i)
    BY <1>1, <1>2, <2>2 DEF Named
  <2> QED
    BY <2>2, <2>3
<1>3. PICK i : Named(lines, i) /\ i \in 1..Len(lines) /\ Shift(s, i) = j
  BY <1>2
<1>4. Tidy(lines, i)
  BY <1>3, <1>1, DocumentedMeans DEF Inserting
<1>5. \A x, y \in 0..(Len(lines) + 1) : Shift(s, x) = Shift(s, y) => x = y
  BY InsertFacts, ShiftAlong
<1>6. \A x \in 1..Len(lines) : Package!Header(lines, x) \in 0..(Len(lines) + 1)
  BY <1>1
<1> DEFINE g == Package!Header(lines, i)
           e == Package!Stop(lines, i, Ends)
           d == Package!Stop(t, j, Ends)
<1>7. Package!Header(t, j) = Shift(s, g)
  BY <1>1, <1>3
<1>8. Shift(s, g) \in 1..j /\ t[Shift(s, g)].kind = "block"
  <2>1. g \in 1..i /\ lines[g].kind = "block"
    BY <1>4 DEF Tidy
  <2> HIDE DEF g
  <2>2. g \in 1..Len(lines) /\ Shift(s, g) \in 1..Shift(s, i)
    BY <1>1, <1>3, <2>1 DEF Shift
  <2> QED
    BY <1>1, <1>3, <2>1, <2>2
<1>9. ASSUME NEW x, Named(t, x),
             t[x].of = t[j].of \/ Package!Header(t, x) = Package!Header(t, j)
      PROVE  x = j
  <2>1. PICK y : Named(lines, y) /\ y \in 1..Len(lines) /\ Shift(s, y) = x
    BY <1>2, <1>9
  <2>2. lines[y].of = lines[i].of \/ Package!Header(lines, y) = g
    <3>1. CASE t[x].of = t[j].of
      BY <1>1, <1>3, <2>1, <3>1
    <3>2. CASE Package!Header(t, x) = Package!Header(t, j)
      <4>1. Shift(s, Package!Header(lines, y)) = Shift(s, g)
        BY <1>1, <1>7, <2>1, <3>2
      <4> QED
        BY <1>3, <1>5, <1>6, <2>1, <4>1
    <3> QED
      BY <1>9, <3>1, <3>2
  <2>3. y = i
    BY <1>4, <2>1, <2>2 DEF Tidy
  <2> QED
    BY <1>3, <2>1, <2>3
<1>10. ASSUME NEW x \in 1..Len(t), t[x].kind \in Package!Lists,
              Package!Header(t, x) = Package!Header(t, j)
       PROVE  t[x].kind = "packages" /\ x = d
  <2>1. CASE x = s
    <3>1. Shift(s, Package!Header(lines, n)) = Shift(s, g)
      BY <1>7, <1>10, <2>1, InsertedUnder
    <3>2. Package!Header(lines, n) = g
      BY <1>1, <1>3, <1>5, <1>6, <3>1
    <3>3. n = i
      BY <1>4, <3>2 DEF Tidy, Inserting
    <3>4. j = n
      BY <1>1, <1>3, <3>3 DEF Shift
    <3>5. Package!Stop(t, n, Ends) = s
      BY InsertedStop
    <3> QED
      BY <1>1, <2>1, <3>4, <3>5
  <2>2. CASE x # s
    <3>1. PICK y \in 1..Len(lines) : Shift(s, y) = x
      BY <1>1, <2>2
    <3>2. lines[y].kind \in Package!Lists /\ t[x].kind = lines[y].kind
      BY <1>1, <1>10, <3>1
    <3>3. Package!Header(lines, y) = g
      <4>1. Shift(s, Package!Header(lines, y)) = Shift(s, g)
        BY <1>1, <1>7, <1>10, <3>1
      <4> QED
        BY <1>3, <1>5, <1>6, <3>1, <4>1
    <3>4. lines[y].kind = "packages" /\ y = e
      BY <1>4, <3>2, <3>3 DEF Tidy
    <3>5. i # n
      BY <3>2, <3>3, NoListYet
    <3>6. Package!Stop(t, Shift(s, i), Ends) = Shift(s, y)
      BY <1>3, <3>3, <3>4, <3>5, InsertedStop
    <3> QED
      BY <1>3, <3>1, <3>2, <3>4, <3>6
  <2> QED
    BY <2>1, <2>2
<1>11. ASSUME NEW x \in j..(d - 1) PROVE t[x].kind # "section"
  <2>0. e \in (i + 1)..(Len(lines) + 1) /\ d \in (j + 1)..(Len(t) + 1)
        /\ (e # Len(lines) + 1 => lines[e].kind \in Ends) /\ j \in 1..Len(t)
    <3>1. DOMAIN lines = 1..Len(lines) /\ DOMAIN t = 1..Len(t) /\ Len(t) \in Nat /\ j \in 1..Len(t)
      BY <1>1, <1>3, InsertFacts DEF Named
    <3>2. IsStop(lines, i, Ends, e) /\ IsStop(t, j, Ends, d)
      BY <1>1, <1>3, <3>1, StopIs
    <3> QED
      BY <3>1, <3>2 DEF IsStop
  <2>1. d <= Shift(s, e)
    BY <1>3, InsertedStop
  <2> HIDE DEF d, e
  <2>2. CASE x = s
    BY <1>1, <2>2
  <2>3. CASE x # s
    <3>1. x \in 1..Len(t)
      BY <1>1, <2>0
    <3>2. PICK y \in 1..Len(lines) : Shift(s, y) = x
      BY <1>1, <2>3, <3>1
    <3>3. y \in i..(e - 1)
      BY <1>1, <1>3, <2>0, <2>1, <3>2 DEF Shift
    <3>4. lines[y].kind # "section"
      BY <1>4, <3>3 DEF Tidy, e
    <3> QED
      BY <1>1, <3>2, <3>4
  <2> QED
    BY <2>2, <2>3
<1> HIDE DEF g, e
<1> QED
  BY <1>7, <1>8, <1>9, <1>10, <1>11 DEF Tidy

\* A list that is put in is the agent's, who had none.
LEMMA InsertedFor ==
  ASSUME NEW lines, NEW n, NEW s, NEW l, NEW t, Inserting(lines, n, s, l, t),
         NEW a \in Agents, lines[n].of = a
  PROVE  Edited(lines, t, a, Package!Listed(lines)[a] \cup l.pkgs)
<1>1. /\ lines \in Seq(Package!Lines) /\ t \in Seq(Package!Lines) /\ Longer(lines, s, l, t)
      /\ Len(lines) \in Nat /\ Len(t) = Len(lines) + 1
      /\ DOMAIN lines = 1..Len(lines) /\ DOMAIN t = 1..Len(t)
      /\ n \in 1..Len(lines) /\ s \in (n + 1)..(Len(lines) + 1)
      /\ t[s] = l /\ l.kind = "packages"
      /\ \A k \in 1..Len(lines) : t[Shift(s, k)] = lines[k]
      /\ \A k \in 1..Len(lines) : Package!Header(t, Shift(s, k)) = Shift(s, Package!Header(lines, k))
      /\ \A k \in 1..Len(t) : k # s => \E i \in 1..Len(lines) : Shift(s, i) = k
      /\ Package!AsDocumented(lines)
  BY InsertFacts DEF Inserting
<1>2. Package!AsDocumented(t)
  BY <1>1, InsertedWellFormed, InsertedTidy, DocumentedMeans
<1>3. Package!Rest(t) = Package!Rest(lines)
  BY <1>1, ShiftRest
<1> DEFINE h == Package!Header(lines, n)
<1>4. /\ Package!Header(t, s) = h /\ Shift(s, h) = h
      /\ h \in 1..n /\ lines[h].kind = "block"
  BY InsertedUnder
<1>5. Package!Owns(t, s, a)
  <2>1. Shift(s, n) = n
    BY <1>1 DEF Shift
  <2>2. t[n] = lines[n] /\ Package!Header(t, n) = h
    BY <1>1, <1>4, <2>1
  <2>3. n \in DOMAIN t /\ t[n].kind = "name" /\ t[n].of = a
    BY <1>1, <2>2 DEF Inserting, Named
  <2>4. h \in 1..Len(lines)
    BY <1>1, <1>4
  <2>5. t[h] = lines[h]
    BY <1>1, <1>4, <2>4
  <2>6. h # 0
    BY <1>1, <1>4
  <2> HIDE DEF h
  <2> QED
    BY <1>4, <2>2, <2>3, <2>5, <2>6 DEF Package!Owns
<1>6. ListsOf(lines, a) = {}
  <2>1. ASSUME NEW k \in ListsOf(lines, a) PROVE FALSE
    <3>1. k \in 1..Len(lines) /\ lines[k].kind \in Package!Lists /\ Package!Owns(lines, k, a)
      BY DEF ListsOf
    <3>2. Named(lines, n)
      BY DEF Inserting
    <3>3. Package!Header(lines, k) = Package!Header(lines, n)
      BY <1>1, <3>1, <3>2, OneName
    <3> QED
      BY <3>1, <3>3, NoListYet
  <2> QED
    BY <2>1
<1>7. s \in ListsOf(t, a)
  BY <1>1, <1>5 DEF ListsOf, Package!Lists
<1>8. Package!Listed(t)[a] = Package!Listed(lines)[a] \cup l.pkgs
  <2>1. Package!Listed(lines)[a] = {}
    BY <1>1, <1>6, ListedOf
  <2>2. Package!Listed(t)[a] = t[s].pkgs
    BY <1>1, <1>2, <1>7, ListedOf
  <2> QED
    BY <1>1, <2>1, <2>2
<1>9. ASSUME NEW b \in Agents, b # a PROVE Package!Listed(t)[b] = Package!Listed(lines)[b]
  <2>1. s \notin ListsOf(t, b)
    <3>1. ~Package!Owns(t, s, b)
      <4>1. s \in 1..Len(t)
        BY <1>1
      <4> QED
        BY <1>1, <1>2, <1>5, <1>9, <4>1, OneOwner
    <3> QED
      BY <3>1 DEF ListsOf
  <2>2. \A k \in 1..Len(lines) : Package!Owns(t, Shift(s, k), b) <=> Package!Owns(lines, k, b)
    BY <1>1, ShiftOwner
  <2>3. \A k \in 1..Len(lines) : Shift(s, k) \in 1..Len(t)
    BY <1>1, ShiftAlong
  <2>4. \A k \in ListsOf(lines, b) : Shift(s, k) \in ListsOf(t, b) /\ t[Shift(s, k)] = lines[k]
    BY <1>1, <2>2, <2>3 DEF ListsOf
  <2>5. \A j \in ListsOf(t, b) : \E k \in ListsOf(lines, b) : Shift(s, k) = j
    BY <1>1, <2>1, <2>2 DEF ListsOf
  <2>6. {t[j].pkgs : j \in ListsOf(t, b)} = {lines[k].pkgs : k \in ListsOf(lines, b)}
    BY <2>4, <2>5
  <2>7. Package!Listed(lines)[b] = UNION {lines[k].pkgs : k \in ListsOf(lines, b)}
    BY <1>1, ListedIs
  <2>8. Package!Listed(t)[b] = UNION {t[j].pkgs : j \in ListsOf(t, b)}
    BY <1>1, ListedIs
  <2> QED
    BY <2>6, <2>7, <2>8
<1> QED
  BY <1>1, <1>2, <1>3, <1>8, <1>9, EditedIf

\* Saving a package puts it on the agent's list and on no other, or fails.
Saved(lines, a, p, new) ==
    /\ new.result \in {"error", "present", "write"}
    /\ new.result = "present" => p \in Package!Listed(lines)[a]
    /\ new.result = "write" => Edited(lines, new.lines, a, Package!Listed(lines)[a] \cup {p})

LEMMA SavedIn ==
  ASSUME NEW lines \in Seq(Package!Lines), Package!AsDocumented(lines),
         NEW a \in Agents, NEW p \in Pkgs
  PROVE  Saved(lines, a, p, Package!SavePackage(lines, a, p))
<1> DEFINE ends == Package!Lists \cup {"block", "table", "blank"}
           wanted == (ends \ {"block"}) \cup {"end"}
           at == Package!Found(lines, a, ends, wanted)
           n == Package!FirstOf(at)
           stop == Package!Stop(lines, n, ends)
           l == [kind |-> "packages", of |-> Nobody, pkgs |-> {p}]
           there == Package!KindAt(lines, stop) = "packages"
           t == [lines EXCEPT ![stop].pkgs = @ \cup {p}]
           u == Package!InsertLine(lines, stop, l)
           new == Package!SavePackage(lines, a, p)
<1>1. /\ at = {} => new.result = "error"
      /\ at # {} /\ there /\ p \in lines[stop].pkgs => new.result = "present"
      /\ at # {} /\ there /\ p \notin lines[stop].pkgs => new.result = "write" /\ new.lines = t
      /\ at # {} /\ ~there /\ Package!KindAt(lines, stop) # "open"
         => new.result = "write" /\ new.lines = u
  BY DEF Package!SavePackage, Package!NotFound
<1>f. Len(lines) \in Nat /\ DOMAIN lines = 1..Len(lines)
  BY LineFacts
<1>2. CASE at = {}
  <2>1. new.result = "error"
    BY <1>1, <1>2
  <2> HIDE DEF new
  <2>2. Saved(lines, a, p, new)
    BY <2>1 DEF Saved
  <2> QED
    BY <2>2 DEF new
<1>3. ASSUME at # {}
      PROVE  /\ Named(lines, n) /\ lines[n].of = a /\ n \in 1..Len(lines)
             /\ Package!KindAt(lines, stop) \in wanted
             /\ Tidy(lines, n) /\ stop = Package!Stop(lines, n, Ends) /\ IsStop(lines, n, Ends, stop)
  <2>1. n \in Package!Found(lines, a, ends, wanted)
    <3>1. Package!Found(lines, a, ends, wanted) # {}
      BY <1>3
    <3> HIDE DEF ends, wanted
    <3> QED
      BY <3>1, FoundOne
  <2>2. /\ Named(lines, n) /\ lines[n].of = a /\ n \in 1..Len(lines)
        /\ Package!KindAt(lines, stop) \in wanted
    <3> HIDE DEF n, ends, wanted
    <3> QED
      BY <2>1, NamesOf
  <2>3. stop = Package!Stop(lines, n, Ends)
    BY DEF Ends
  <2>4. Tidy(lines, n)
    <3> HIDE DEF n
    <3> QED
      BY <2>2, DocumentedMeans
  <2>5. IsStop(lines, n, Ends, stop)
    <3> HIDE DEF n, stop
    <3> QED
      BY <1>f, <2>2, <2>3, StopIs
  <2> QED
    BY <2>2, <2>3, <2>4, <2>5
<1>4. ASSUME at # {}, Package!KindAt(lines, stop) \in Package!Lists
      PROVE  /\ stop \in 1..Len(lines) /\ lines[stop].kind = "packages"
             /\ Package!Owns(lines, stop, a) /\ there
  <2>1. /\ Named(lines, n) /\ lines[n].of = a /\ n \in 1..Len(lines)
        /\ Tidy(lines, n) /\ stop = Package!Stop(lines, n, Ends) /\ IsStop(lines, n, Ends, stop)
    BY <1>3, <1>4
  <2>2. stop \in (n + 1)..(Len(lines) + 1)
    BY <2>1 DEF IsStop
  <2>3. stop \in DOMAIN lines /\ lines[stop].kind \in Package!Lists
    BY <1>4 DEF Package!KindAt, Package!Lists
  <2> HIDE DEF n, stop
  <2>4. \A k \in (n + 1)..stop : lines[k].kind \notin Package!Headers
    <3>1. SUFFICES ASSUME NEW k \in (n + 1)..stop, k # stop PROVE lines[k].kind \notin Package!Headers
      BY <2>3 DEF Package!Headers, Package!Lists
    <3>2. /\ k \in n..(Package!Stop(lines, n, Ends) - 1) /\ k \in (n + 1)..Len(lines)
          /\ ~(stop <= k)
      BY <1>f, <2>1, <2>2, <3>1
    <3>3. lines[k].kind # "section"
      BY <2>1, <3>2 DEF Tidy
    <3>4. lines[k].kind \notin Ends
      BY <2>1, <3>2 DEF IsStop
    <3> QED
      BY <3>3, <3>4 DEF Ends, Package!Headers
  <2>5. stop \in n..Len(lines) /\ stop \in 1..Len(lines)
    BY <1>f, <2>1, <2>2, <2>3
  <2>6. Package!Header(lines, stop) = Package!Header(lines, n)
    BY <2>1, <2>4, <2>5, Under
  <2>7. lines[stop].kind = "packages"
    BY <2>1, <2>3, <2>5, <2>6 DEF Tidy
  <2>8. Package!KindAt(lines, stop) = "packages"
    BY <2>3, <2>7 DEF Package!KindAt
  <2>9. Package!Header(lines, n) # 0 /\ lines[Package!Header(lines, n)].kind = "block"
    BY <2>1 DEF Tidy
  <2>10. Package!Owns(lines, stop, a)
    BY <1>f, <2>1, <2>6, <2>9 DEF Package!Owns, Named
  <2> QED
    BY <2>5, <2>7, <2>8, <2>10 DEF stop
<1>5. CASE at # {} /\ Package!KindAt(lines, stop) \in Package!Lists
  <2>1. /\ stop \in 1..Len(lines) /\ lines[stop].kind = "packages"
        /\ Package!Owns(lines, stop, a) /\ there
    BY <1>4, <1>5
  <2>2. Package!Listed(lines)[a] = lines[stop].pkgs
    <3>1. stop \in ListsOf(lines, a)
      <4> HIDE DEF stop
      <4> QED
        BY <2>1 DEF ListsOf, Package!Lists
    <3> HIDE DEF stop
    <3> QED
      BY <3>1, ListedOf
  <2>3. CASE p \in lines[stop].pkgs
    <3>1. new.result = "present" /\ p \in Package!Listed(lines)[a]
      BY <1>1, <1>5, <2>1, <2>2, <2>3
    <3> HIDE DEF new
    <3>2. Saved(lines, a, p, new)
      BY <3>1 DEF Saved
    <3> QED
      BY <3>2 DEF new
  <2>4. CASE p \notin lines[stop].pkgs
    <3>1. new.result = "write" /\ new.lines = t
      BY <1>1, <1>5, <2>1, <2>4
    <3> DEFINE Q == lines[stop].pkgs \cup {p}
    <3>2. Q \in SUBSET Pkgs
      <4>1. lines[stop].pkgs \subseteq Pkgs
        BY <2>1, LineFacts
      <4> QED
        BY <4>1
    <3>3. Rewrites(lines, stop, Q, t)
      BY <1>f, <2>1 DEF Rewrites
    <3>4. lines[stop].kind \in Package!Lists
      BY <2>1 DEF Package!Lists
    <3>5. /\ t \in Seq(Package!Lines) /\ Package!AsDocumented(t)
          /\ Package!Rest(t) = Package!Rest(lines)
          /\ \A b \in Agents :
               /\ Package!Owns(lines, stop, b) =>
                     Package!Listed(t)[b] = Q /\ Package!Listed(lines)[b] = lines[stop].pkgs
               /\ ~Package!Owns(lines, stop, b) => Package!Listed(t)[b] = Package!Listed(lines)[b]
      <4>1. stop \in 1..Len(lines)
        BY <2>1
      <4> HIDE DEF Q, t, stop
      <4> QED
        BY <4>1, <3>2, <3>3, <3>4, Rewritten
    <3>6. Package!Listed(t)[a] = Package!Listed(lines)[a] \cup {p}
      BY <2>1, <3>5
    <3>7. \A b \in Agents : b # a => Package!Listed(t)[b] = Package!Listed(lines)[b]
      <4> HIDE DEF t, stop, Q
      <4> QED
        BY <2>1, <3>5, OneOwner
    <3>8. Edited(lines, t, a, Package!Listed(lines)[a] \cup {p})
      <4> HIDE DEF t
      <4> QED
        BY <3>5, <3>6, <3>7, EditedIf
    <3> HIDE DEF new, t
    <3>9. Saved(lines, a, p, new)
      BY <3>1, <3>8 DEF Saved
    <3> QED
      BY <3>9 DEF new
  <2> QED
    BY <2>3, <2>4
<1>6. CASE at # {} /\ Package!KindAt(lines, stop) \notin Package!Lists
  <2>1. new.result = "write" /\ new.lines = u
    BY <1>1, <1>6 DEF Package!Lists
  <2>2. /\ Named(lines, n) /\ lines[n].of = a /\ n \in 1..Len(lines)
        /\ Package!KindAt(lines, stop) \in wanted
        /\ stop = Package!Stop(lines, n, Ends) /\ IsStop(lines, n, Ends, stop)
    BY <1>3, <1>6
  <2>3. stop \in (n + 1)..(Len(lines) + 1)
    BY <2>2 DEF IsStop
  <2>4. stop \in 1..(Len(lines) + 1)
    <3> HIDE DEF n, stop
    <3> QED
      BY <1>f, <2>2, <2>3
  <2>5. stop # Len(lines) + 1 => lines[stop].kind \in {"table", "blank"}
    <3>1. ASSUME stop # Len(lines) + 1 PROVE lines[stop].kind \in {"table", "blank"}
      <4>1. stop \in DOMAIN lines
        <5> HIDE DEF n, stop
        <5> QED
          BY <1>f, <2>4, <3>1
      <4>2. lines[stop].kind = Package!KindAt(lines, stop)
        BY <4>1 DEF Package!KindAt
      <4>3. lines[stop].kind \in Ends
        <5> HIDE DEF n, stop
        <5> QED
          BY <2>2, <3>1 DEF IsStop
      <4> HIDE DEF n, stop
      <4> QED
        BY <1>6, <2>2, <4>2, <4>3 DEF Ends
    <3> QED
      BY <3>1
  <2>6. l \in Package!Lines /\ l.kind = "packages" /\ l.pkgs = {p}
    BY DEF Package!Lines, Package!Headers, Package!Lists
  <2>7. Longer(lines, stop, l, u)
    <3> HIDE DEF n, stop, l
    <3> QED
      BY <2>4, <2>6, InsertedIs
  <2>8. Inserting(lines, n, stop, l, u)
    <3> HIDE DEF n, stop, l, u
    <3> QED
      BY <2>2, <2>5, <2>6, <2>7 DEF Inserting
  <2>9. Edited(lines, u, a, Package!Listed(lines)[a] \cup l.pkgs)
    <3> HIDE DEF n, stop, l, u
    <3> QED
      BY <2>2, <2>8, InsertedFor
  <2> HIDE DEF new, u
  <2>10. Saved(lines, a, p, new)
    BY <2>1, <2>6, <2>9 DEF Saved
  <2> QED
    BY <2>10 DEF new
<1> QED
  BY <1>2, <1>5, <1>6

-----------------------------------------------------------------------------
(* PackageConfig: what is understood of a command line.                     *)

LEMMA SmallCounts ==
  /\ Package!Cardinality({}) = 0
  /\ \A x : Package!Cardinality({x}) = 1
  /\ \A x, y : x # y => Package!Cardinality({x, y}) = 2
  /\ \A x, y, z : x # y /\ x # z /\ y # z => Package!Cardinality({x, y, z}) = 3
<1>0. \A S : Package!Cardinality(S) = Cardinality(S)
  BY DEF Package!Cardinality, Cardinality
<1>1. Cardinality({}) = 0
  BY FS_EmptySet
<1>2. ASSUME NEW x PROVE IsFiniteSet({x}) /\ Cardinality({x}) = 1
  BY FS_Singleton
<1>3. ASSUME NEW x, NEW y, x # y PROVE IsFiniteSet({x, y}) /\ Cardinality({x, y}) = 2
  <2>1. {x, y} = {x} \cup {y} /\ y \notin {x}
    BY <1>3
  <2>2. IsFiniteSet({x} \cup {y})
    BY <1>2, FS_AddElement
  <2>3. Cardinality({x} \cup {y}) = Cardinality({x}) + 1
    BY <1>2, <2>1, FS_AddElement
  <2> QED
    BY <1>2, <2>1, <2>2, <2>3
<1>4. ASSUME NEW x, NEW y, NEW z, x # y, x # z, y # z PROVE Cardinality({x, y, z}) = 3
  <2>1. {x, y, z} = {x, y} \cup {z} /\ z \notin {x, y}
    BY <1>4
  <2>2. Cardinality({x, y} \cup {z}) = Cardinality({x, y}) + 1
    BY <1>3, <1>4, <2>1, FS_AddElement
  <2> QED
    BY <1>3, <1>4, <2>1, <2>2
<1>5. Package!Cardinality({}) = 0
  BY <1>0, <1>1
<1>6. ASSUME NEW x PROVE Package!Cardinality({x}) = 1
  BY <1>0, <1>2
<1>7. ASSUME NEW x, NEW y, x # y PROVE Package!Cardinality({x, y}) = 2
  BY <1>0, <1>3, <1>7
<1>8. ASSUME NEW x, NEW y, NEW z, x # y, x # z, y # z
      PROVE  Package!Cardinality({x, y, z}) = 3
  BY <1>0, <1>4, <1>8
<1>9. \A x, y : x # y => Package!Cardinality({x, y}) = 2
  BY <1>7
<1>10. \A x, y, z : x # y /\ x # z /\ y # z => Package!Cardinality({x, y, z}) = 3
  BY <1>8
<1> QED
  BY <1>5, <1>6, <1>9, <1>10

Ahead(words, i) == Package!IsFlag(words[i]) \/ (i > 1 /\ Package!IsFlag(words[i - 1]))

Comes(words, i, j) ==
    (Ahead(words, i) /\ ~Ahead(words, j)) \/ ((Ahead(words, i) <=> Ahead(words, j)) /\ i < j)

\* Four words, in the order they come.
LEMMA Reordered ==
  ASSUME NEW words, DOMAIN words = 1..4,
         NEW b \in 1..4, NEW c \in 1..4, NEW d \in 1..4, NEW e \in 1..4,
         b # c, b # d, b # e, c # d, c # e, d # e,
         \A i \in 1..4 : /\ ~Comes(words, i, b)
                         /\ Comes(words, i, c) <=> i = b
                         /\ Comes(words, i, d) <=> i \in {b, c}
                         /\ Comes(words, i, e) <=> i \in {b, c, d}
  PROVE  Package!ReorderArgs(words) = <<words[b], words[c], words[d], words[e]>>
<1> DEFINE before(j) == {i \in 1..4 : Comes(words, i, j)}
           at(k) == CHOOSE j \in 1..4 : Package!Cardinality(before(j)) = k - 1
<1>1. Package!ReorderArgs(words) = [k \in 1..4 |-> words[at(k)]]
  BY DEF Package!ReorderArgs, Comes, Ahead
<1>2. /\ Package!Cardinality(before(b)) = 0 /\ Package!Cardinality(before(c)) = 1
      /\ Package!Cardinality(before(d)) = 2 /\ Package!Cardinality(before(e)) = 3
  <2>1. before(b) = {} /\ before(c) = {b} /\ before(d) = {b, c} /\ before(e) = {b, c, d}
    OBVIOUS
  <2> HIDE DEF before
  <2>2. Package!Cardinality({b}) = 1 /\ Package!Cardinality({b, c}) = 2
        /\ Package!Cardinality({b, c, d}) = 3
    BY SmallCounts
  <2> QED
    BY <2>1, <2>2, SmallCounts
<1>3. \A j \in 1..4 : j \in {b, c, d, e}
  OBVIOUS
<1> HIDE DEF before
<1>4. at(1) = b /\ at(2) = c /\ at(3) = d /\ at(4) = e
  <2>1. \A j \in 1..4 : Package!Cardinality(before(j)) = 1 - 1 <=> j = b
    BY <1>2, <1>3
  <2>2. \A j \in 1..4 : Package!Cardinality(before(j)) = 2 - 1 <=> j = c
    BY <1>2, <1>3
  <2>3. \A j \in 1..4 : Package!Cardinality(before(j)) = 3 - 1 <=> j = d
    BY <1>2, <1>3
  <2>4. \A j \in 1..4 : Package!Cardinality(before(j)) = 4 - 1 <=> j = e
    BY <1>2, <1>3
  <2> QED
    BY <2>1, <2>2, <2>3, <2>4
<1> HIDE DEF at
<1> QED
  BY <1>1, <1>4

\* The flags end at word e.
LEMMA Parsed ==
  ASSUME NEW u, Len(u) = 4, NEW e \in 1..4, ~Package!IsFlag(u[e]), e = 1 \/ u[e - 1] # "--agent",
         \A i \in 1..(e - 1) : Package!IsFlag(u[i]) \/ (i > 1 /\ u[i - 1] = "--agent")
  PROVE  /\ Package!FlagParse(u).pkg = u[e] /\ Package!FlagParse(u).save \in BOOLEAN
         /\ (\A i \in 1..(e - 1) : i = 1 \/ u[i - 1] # "--agent")
               => Package!FlagParse(u).agent = Nobody
         /\ \A m \in 2..(e - 1) :
               u[m - 1] = "--agent" /\ (\A i \in 2..(m - 1) : u[i - 1] # "--agent")
               => Package!FlagParse(u).agent = u[m]
<1> DEFINE value(i) == i > 1 /\ u[i - 1] = "--agent"
           T == {i \in 1..(Len(u) + 1) : i > Len(u) \/ ~(Package!IsFlag(u[i]) \/ value(i))}
           end == Package!FirstOf(T)
           at == {i \in 1..(end - 1) : value(i)}
           res == [agent |-> IF at = {} THEN Nobody ELSE u[Package!FirstOf(at)],
                   save |-> \E i \in 1..(end - 1) : u[i] = "--save",
                   pkg |-> IF end > Len(u) THEN Nobody ELSE u[end]]
<1>1. Package!FlagParse(u) = res
  BY DEF Package!FlagParse
<1>2. end = e
  <2>1. T \in SUBSET Nat
    OBVIOUS
  <2>2. e \in T
    OBVIOUS
  <2>3. \A i \in T : e <= i
    <3>1. SUFFICES ASSUME NEW i \in T, ~(e <= i) PROVE FALSE
      OBVIOUS
    <3>2. i \in 1..5 /\ (i > 4 \/ ~(Package!IsFlag(u[i]) \/ value(i)))
      OBVIOUS
    <3>3. i \in 1..(e - 1)
      BY <3>1, <3>2
    <3> QED
      BY <3>2, <3>3
  <2> HIDE DEF T
  <2> QED
    BY <2>1, <2>2, <2>3, FirstIs
<1>3. at = {i \in 1..(e - 1) : value(i)}
  BY <1>2
<1>4. Package!FlagParse(u).pkg = u[e] /\ Package!FlagParse(u).save \in BOOLEAN
      /\ Package!FlagParse(u).agent = IF at = {} THEN Nobody ELSE u[Package!FirstOf(at)]
  <2>1. res.pkg = u[e]
    BY <1>2
  <2>2. res.save \in BOOLEAN
    OBVIOUS
  <2>3. res.agent = IF at = {} THEN Nobody ELSE u[Package!FirstOf(at)]
    OBVIOUS
  <2> HIDE DEF res, at
  <2> QED
    BY <1>1, <2>1, <2>2, <2>3
<1>5. ASSUME \A i \in 1..(e - 1) : i = 1 \/ u[i - 1] # "--agent"
      PROVE  at = {}
  BY <1>3, <1>5
<1>6. ASSUME NEW m \in 2..(e - 1), u[m - 1] = "--agent", \A i \in 2..(m - 1) : u[i - 1] # "--agent"
      PROVE  at # {} /\ Package!FirstOf(at) = m
  <2>1. m \in at
    BY <1>3, <1>6
  <2>2. at \in SUBSET Nat
    BY <1>3
  <2>3. ASSUME NEW i \in at PROVE m <= i
    <3>1. i \in 1..(e - 1) /\ i > 1 /\ u[i - 1] = "--agent"
      BY <1>3
    <3> QED
      BY <1>6, <3>1
  <2> HIDE DEF at
  <2> QED
    BY <2>1, <2>2, <2>3, FirstIs
<1> HIDE DEF at
<1> QED
  BY <1>4, <1>5, <1>6

\* A command with both flags is understood as it was meant, in every order of its parts
\* but one, in which the agent is lost.
Understood(line) ==
    /\ line.agent \in Agents /\ line.pkg \in Pkgs
    /\ line.parsed.pkg = line.pkg /\ line.parsed.agent \in {line.agent, Nobody}
    /\ line.parsed.save \in BOOLEAN

LEMMA AgentFirst ==
  ASSUME NEW a, NEW k, ~Package!IsFlag(a), ~Package!IsFlag(k),
         NEW u, u = <<"--agent", a, "--save", k>>
  PROVE  /\ Package!FlagParse(u).pkg = k /\ Package!FlagParse(u).agent = a
         /\ Package!FlagParse(u).save \in BOOLEAN
<1>1. Len(u) = 4 /\ u[1] = "--agent" /\ u[2] = a /\ u[3] = "--save" /\ u[4] = k
  OBVIOUS
<1>2. Package!IsFlag(u[1]) /\ Package!IsFlag(u[3])
  BY <1>1 DEF Package!IsFlag, Package!Flags
<1>3. /\ ~Package!IsFlag(u[4]) /\ u[4 - 1] # "--agent"
      /\ \A i \in 1..(4 - 1) : Package!IsFlag(u[i]) \/ (i > 1 /\ u[i - 1] = "--agent")
  BY <1>1, <1>2
<1>4. u[2 - 1] = "--agent" /\ (\A i \in 2..(2 - 1) : u[i - 1] # "--agent") /\ 2 \in 2..(4 - 1)
  BY <1>1
<1>5. Package!FlagParse(u).agent = u[2]
  BY <1>1, <1>3, <1>4, Parsed
<1> QED
  BY <1>1, <1>3, <1>5, Parsed

LEMMA SaveFirst ==
  ASSUME NEW a, NEW k, ~Package!IsFlag(a), ~Package!IsFlag(k),
         NEW u, u = <<"--save", "--agent", a, k>>
  PROVE  /\ Package!FlagParse(u).pkg = k /\ Package!FlagParse(u).agent = a
         /\ Package!FlagParse(u).save \in BOOLEAN
<1>1. Len(u) = 4 /\ u[1] = "--save" /\ u[2] = "--agent" /\ u[3] = a /\ u[4] = k
  OBVIOUS
<1>2. Package!IsFlag(u[1]) /\ Package!IsFlag(u[2]) /\ a # "--agent"
  BY <1>1 DEF Package!IsFlag, Package!Flags
<1>3. /\ ~Package!IsFlag(u[4]) /\ u[4 - 1] # "--agent"
      /\ \A i \in 1..(4 - 1) : Package!IsFlag(u[i]) \/ (i > 1 /\ u[i - 1] = "--agent")
  BY <1>1, <1>2
<1>4. u[3 - 1] = "--agent" /\ (\A i \in 2..(3 - 1) : u[i - 1] # "--agent") /\ 3 \in 2..(4 - 1)
  BY <1>1
<1>5. Package!FlagParse(u).agent = u[3]
  BY <1>1, <1>3, <1>4, Parsed
<1> QED
  BY <1>1, <1>3, <1>5, Parsed

LEMMA PackageFirst ==
  ASSUME NEW a, NEW k, ~Package!IsFlag(a), ~Package!IsFlag(k),
         NEW u, u = <<"--save", k, "--agent", a>>
  PROVE  /\ Package!FlagParse(u).pkg = k /\ Package!FlagParse(u).agent = Nobody
         /\ Package!FlagParse(u).save \in BOOLEAN
<1>1. Len(u) = 4 /\ u[1] = "--save" /\ u[2] = k
  OBVIOUS
<1>2. Package!IsFlag(u[1])
  BY <1>1 DEF Package!IsFlag, Package!Flags
<1>3. /\ ~Package!IsFlag(u[2]) /\ u[2 - 1] # "--agent"
      /\ \A i \in 1..(2 - 1) : Package!IsFlag(u[i]) \/ (i > 1 /\ u[i - 1] = "--agent")
      /\ \A i \in 1..(2 - 1) : i = 1 \/ u[i - 1] # "--agent"
  BY <1>1, <1>2
<1> QED
  BY <1>1, <1>3, Parsed

\* The six orders come down to three.
LEMMA Orders ==
  ASSUME NEW a, NEW k, ~Package!IsFlag(a), ~Package!IsFlag(k),
         NEW words \in Package!Spellings(a, k)
  PROVE  Package!ReorderArgs(words) \in
            {<<"--agent", a, "--save", k>>, <<"--save", "--agent", a, k>>, <<"--save", k, "--agent", a>>}
<1>0. Package!IsFlag("--agent") /\ Package!IsFlag("--save")
  BY DEF Package!IsFlag, Package!Flags
<1>1. CASE words = <<"--agent", a, "--save", k>>
  <2>1. DOMAIN words = 1..4 /\ words[1] = "--agent" /\ words[2] = a /\ words[3] = "--save" /\ words[4] = k
    BY <1>1
  <2>2. Ahead(words, 1) /\ Ahead(words, 2) /\ Ahead(words, 3) /\ Ahead(words, 4)
    BY <1>0, <2>1 DEF Ahead
  <2>3. \A i \in 1..4 : /\ ~Comes(words, i, 1)
                        /\ Comes(words, i, 2) <=> i = 1
                        /\ Comes(words, i, 3) <=> i \in {1, 2}
                        /\ Comes(words, i, 4) <=> i \in {1, 2, 3}
    BY <2>2 DEF Comes
  <2>4. Package!ReorderArgs(words) = <<words[1], words[2], words[3], words[4]>>
    BY <2>1, <2>3, Reordered
  <2> QED
    BY <2>1, <2>4
<1>2. CASE words = <<"--agent", a, k, "--save">>
  <2>1. DOMAIN words = 1..4 /\ words[1] = "--agent" /\ words[2] = a /\ words[3] = k /\ words[4] = "--save"
    BY <1>2
  <2>2. Ahead(words, 1) /\ Ahead(words, 2) /\ ~Ahead(words, 3) /\ Ahead(words, 4)
    BY <1>0, <2>1 DEF Ahead
  <2>3. \A i \in 1..4 : /\ ~Comes(words, i, 1)
                        /\ Comes(words, i, 2) <=> i = 1
                        /\ Comes(words, i, 4) <=> i \in {1, 2}
                        /\ Comes(words, i, 3) <=> i \in {1, 2, 4}
    BY <2>2 DEF Comes
  <2>4. Package!ReorderArgs(words) = <<words[1], words[2], words[4], words[3]>>
    BY <2>1, <2>3, Reordered
  <2> QED
    BY <2>1, <2>4
<1>3. CASE words = <<"--save", "--agent", a, k>>
  <2>1. DOMAIN words = 1..4 /\ words[1] = "--save" /\ words[2] = "--agent" /\ words[3] = a /\ words[4] = k
    BY <1>3
  <2>2. Ahead(words, 1) /\ Ahead(words, 2) /\ Ahead(words, 3) /\ ~Ahead(words, 4)
    BY <1>0, <2>1 DEF Ahead
  <2>3. \A i \in 1..4 : /\ ~Comes(words, i, 1)
                        /\ Comes(words, i, 2) <=> i = 1
                        /\ Comes(words, i, 3) <=> i \in {1, 2}
                        /\ Comes(words, i, 4) <=> i \in {1, 2, 3}
    BY <2>2 DEF Comes
  <2>4. Package!ReorderArgs(words) = <<words[1], words[2], words[3], words[4]>>
    BY <2>1, <2>3, Reordered
  <2> QED
    BY <2>1, <2>4
<1>4. CASE words = <<"--save", k, "--agent", a>>
  <2>1. DOMAIN words = 1..4 /\ words[1] = "--save" /\ words[2] = k /\ words[3] = "--agent" /\ words[4] = a
    BY <1>4
  <2>2. Ahead(words, 1) /\ Ahead(words, 2) /\ Ahead(words, 3) /\ Ahead(words, 4)
    BY <1>0, <2>1 DEF Ahead
  <2>3. \A i \in 1..4 : /\ ~Comes(words, i, 1)
                        /\ Comes(words, i, 2) <=> i = 1
                        /\ Comes(words, i, 3) <=> i \in {1, 2}
                        /\ Comes(words, i, 4) <=> i \in {1, 2, 3}
    BY <2>2 DEF Comes
  <2>4. Package!ReorderArgs(words) = <<words[1], words[2], words[3], words[4]>>
    BY <2>1, <2>3, Reordered
  <2> QED
    BY <2>1, <2>4
<1>5. CASE words = <<k, "--agent", a, "--save">>
  <2>1. DOMAIN words = 1..4 /\ words[1] = k /\ words[2] = "--agent" /\ words[3] = a /\ words[4] = "--save"
    BY <1>5
  <2>2. ~Ahead(words, 1) /\ Ahead(words, 2) /\ Ahead(words, 3) /\ Ahead(words, 4)
    BY <1>0, <2>1 DEF Ahead
  <2>3. \A i \in 1..4 : /\ ~Comes(words, i, 2)
                        /\ Comes(words, i, 3) <=> i = 2
                        /\ Comes(words, i, 4) <=> i \in {2, 3}
                        /\ Comes(words, i, 1) <=> i \in {2, 3, 4}
    BY <2>2 DEF Comes
  <2>4. Package!ReorderArgs(words) = <<words[2], words[3], words[4], words[1]>>
    BY <2>1, <2>3, Reordered
  <2> QED
    BY <2>1, <2>4
<1>6. CASE words = <<k, "--save", "--agent", a>>
  <2>1. DOMAIN words = 1..4 /\ words[1] = k /\ words[2] = "--save" /\ words[3] = "--agent" /\ words[4] = a
    BY <1>6
  <2>2. ~Ahead(words, 1) /\ Ahead(words, 2) /\ Ahead(words, 3) /\ Ahead(words, 4)
    BY <1>0, <2>1 DEF Ahead
  <2>3. \A i \in 1..4 : /\ ~Comes(words, i, 2)
                        /\ Comes(words, i, 3) <=> i = 2
                        /\ Comes(words, i, 4) <=> i \in {2, 3}
                        /\ Comes(words, i, 1) <=> i \in {2, 3, 4}
    BY <2>2 DEF Comes
  <2>4. Package!ReorderArgs(words) = <<words[2], words[3], words[4], words[1]>>
    BY <2>1, <2>3, Reordered
  <2> QED
    BY <2>1, <2>4
<1> QED
  BY <1>1, <1>2, <1>3, <1>4, <1>5, <1>6 DEF Package!Spellings

LEMMA LinesUnderstood ==
  ASSUME NEW line \in Package!CommandLines
  PROVE  Understood(line)
<1>0. PICK a \in Agents, k \in Pkgs : \E words \in Package!Spellings(a, k) :
        line = [agent |-> a, pkg |-> k,
                parsed |-> Package!FlagParse(Package!ReorderArgs(words))]
  BY DEF Package!CommandLines
<1>1. PICK words \in Package!Spellings(a, k) :
        line = [agent |-> a, pkg |-> k,
                parsed |-> Package!FlagParse(Package!ReorderArgs(words))]
  BY <1>0
<1> DEFINE u == Package!ReorderArgs(words)
<1>2. ~Package!IsFlag(a) /\ ~Package!IsFlag(k)
  BY HostAssumption DEF Package!PackageAssumption, Package!IsFlag
<1>3. u \in {<<"--agent", a, "--save", k>>, <<"--save", "--agent", a, k>>, <<"--save", k, "--agent", a>>}
  BY <1>2, Orders
<1>4. line.agent = a /\ line.pkg = k /\ line.parsed = Package!FlagParse(u)
  BY <1>1
<1> HIDE DEF u
<1>5. /\ Package!FlagParse(u).pkg = k /\ Package!FlagParse(u).agent \in {a, Nobody}
      /\ Package!FlagParse(u).save \in BOOLEAN
  BY <1>2, <1>3, AgentFirst, SaveFirst, PackageFirst
<1> QED
  BY <1>4, <1>5 DEF Understood

-----------------------------------------------------------------------------
(* PackageConfig: conos.toml is as the commands intend it, for any number   *)
(* of them, of agents and of packages, and for any documented file.         *)

\* A file as the commands may leave it: the lines of the first one, and lists that have
\* nothing but what was there or was asked for.
Sound(lines, start, allowed) ==
    /\ lines \in Seq(Package!Lines) /\ Package!AsDocumented(lines)
    /\ Package!Rest(lines) = Package!Rest(start)
    /\ \A a \in Agents : \A k \in Package!Listed(lines)[a] :
          k \in Package!Listed(start)[a] \/ <<a, k>> \in allowed

\* A file that was cut may also be empty, or have the parts of two.
Possible(lines, start, allowed) == lines \in {Garbled, <<>>} \/ Sound(lines, start, allowed)

Working == {"read", "mutable", "truncate", "write", "immutable"}
Holding == {"mutable", "truncate", "write", "immutable"}

Jobs == [op : {"none", "install", "remove"}, agent : Agents \cup {Nobody}, save : BOOLEAN,
         pkg : Pkgs \cup {Nobody}, lines : Seq(Package!Lines) \cup {Garbled}, ok : BOOLEAN]

HistoryTyped ==
    /\ immutable \in BOOLEAN /\ installed \subseteq Pkgs
    /\ given \in 0..MaxCommands /\ aborted \in 0..MaxCrashes
    /\ asked \subseteq Agents \X Pkgs /\ intended \in [Agents -> SUBSET Pkgs]
    /\ original \in Layouts /\ apart \in BOOLEAN

\* A command at a place: what it has understood was typed, and what it holds was read.
Carries(j, at, start, allowed) ==
    /\ at = "idle" <=> j = Package!Idle
    /\ at # "idle" =>
          /\ j.op \in {"install", "remove"} /\ j.pkg \in Pkgs
          /\ j.op = "install" => j.agent \in Agents /\ <<j.agent, j.pkg>> \in allowed
    /\ at \in Working => j.agent \in Agents
    /\ at \in Holding => Possible(j.lines, start, allowed)
    /\ j.ok => at = "immutable"

Holds(lines, lists, start, allowed) ==
    Sound(lines, start, allowed) /\ Package!Listed(lines) = lists

\* The one command under way: the file is as intended until it cuts it, and what it will
\* write is what it intends.
Steady(j, at, lines, lists, start, allowed) ==
    LET aim == Package!Add(lists, j) IN
    /\ at \in {"idle", "apt", "read", "mutable", "truncate"} => Holds(lines, lists, start, allowed)
    /\ at \in {"mutable", "truncate", "write"} => Holds(j.lines, aim, start, allowed)
    /\ at = "write" => lines = <<>>
    /\ at = "immutable" => Holds(lines, IF j.ok THEN aim ELSE lists, start, allowed)

\* No other command is under way.
ByItself(p) == \A q \in Procs : q # p => place[q] = "idle"

ApartInv ==
    apart =>
      /\ (\A p \in Procs : place[p] = "idle") => Holds(conf, intended, original, asked)
      /\ \A p \in Procs : place[p] # "idle" =>
            ByItself(p) /\ Steady(job[p], place[p], conf, intended, original, asked)

IntentInv ==
    /\ HistoryTyped /\ Possible(conf, original, asked)
    /\ place \in [Procs -> Places] /\ job \in [Procs -> Jobs]
    /\ \A p \in Procs : Carries(job[p], place[p], original, asked)
    /\ ApartInv

LEMMA SoundGrows ==
  ASSUME NEW lines, NEW start, NEW A, NEW B, A \subseteq B
  PROVE  /\ Sound(lines, start, A) => Sound(lines, start, B)
         /\ Possible(lines, start, A) => Possible(lines, start, B)
         /\ \A lists : Holds(lines, lists, start, A) => Holds(lines, lists, start, B)
<1>1. Sound(lines, start, A) => Sound(lines, start, B)
  BY DEF Sound
<1> QED
  BY <1>1 DEF Possible, Holds

LEMMA CarriesGrows ==
  ASSUME NEW j, NEW at, NEW start, NEW A, NEW B, A \subseteq B, Carries(j, at, start, A)
  PROVE  Carries(j, at, start, B)
BY SoundGrows DEF Carries

LEMMA AddTyped ==
  ASSUME NEW m \in [Agents -> SUBSET Pkgs], NEW j, j.pkg \in Pkgs, j.agent \in Agents
  PROVE  Package!Add(m, j) \in [Agents -> SUBSET Pkgs]
<1> DEFINE Q == IF j.op = "install" THEN m[j.agent] \cup {j.pkg} ELSE m[j.agent] \ {j.pkg}
<1>1. Package!Add(m, j) = [m EXCEPT ![j.agent] = Q]
  BY DEF Package!Add
<1>2. Q \in SUBSET Pkgs
  OBVIOUS
<1> HIDE DEF Q
<1> QED
  BY <1>1, <1>2

\* What an edit makes of a sound file.
LEMMA EditSound ==
  ASSUME NEW lines, NEW start, NEW A, Sound(lines, start, A),
         NEW j, j.op \in {"install", "remove"}, j.agent \in Agents, j.pkg \in Pkgs,
         j.op = "install" => <<j.agent, j.pkg>> \in A,
         NEW new, new = Package!Edit(lines, j)
  PROVE  /\ new.result \in {"error", "present", "write"}
         /\ new.result = "present" => Package!Add(Package!Listed(lines), j) = Package!Listed(lines)
         /\ new.result = "write" =>
               Holds(new.lines, Package!Add(Package!Listed(lines), j), start, A)
<1> DEFINE a == j.agent
           k == j.pkg
           old == Package!Listed(lines)
           Q == IF j.op = "install" THEN old[a] \cup {k} ELSE old[a] \ {k}
<1>1. lines \in Seq(Package!Lines) /\ Package!AsDocumented(lines)
      /\ Package!Rest(lines) = Package!Rest(start)
      /\ \A b \in Agents : \A x \in old[b] : x \in Package!Listed(start)[b] \/ <<b, x>> \in A
  BY DEF Sound
<1>2. old \in [Agents -> SUBSET Pkgs]
  BY <1>1, ListedTyped
<1>3. Package!Add(old, j) = [old EXCEPT ![a] = Q]
  BY DEF Package!Add
<1>4. a \in Agents /\ k \in Pkgs
  OBVIOUS
<1>5. /\ new.result \in {"error", "present", "write"}
      /\ new.result = "present" => j.op = "install" /\ k \in old[a]
      /\ new.result = "write" => Edited(lines, new.lines, a, Q)
  <2>1. CASE j.op = "install"
    <3>1. new = Package!SavePackage(lines, a, k)
      BY <2>1 DEF Package!Edit
    <3>2. Saved(lines, a, k, new)
      <4> HIDE DEF a, k
      <4> QED
        BY <1>1, <1>4, <3>1, SavedIn
    <3>3. Q = old[a] \cup {k}
      BY <2>1
    <3> HIDE DEF Q, a, k
    <3> QED
      BY <2>1, <3>2, <3>3 DEF Saved
  <2>2. CASE j.op = "remove"
    <3>1. new = Package!RemovePackage(lines, a, k)
      BY <2>2 DEF Package!Edit
    <3>2. /\ Package!RemovePackage(lines, a, k).result = "write"
          /\ Edited(lines, Package!RemovePackage(lines, a, k).lines, a, old[a] \ {k})
      <4> HIDE DEF a, k
      <4> QED
        BY <1>1, <1>4, RemovedFrom
    <3>3. Q = old[a] \ {k}
      BY <2>2
    <3> HIDE DEF Q, a, k, old
    <3> QED
      BY <3>1, <3>2, <3>3
  <2> QED
    BY <2>1, <2>2
<1>6. ASSUME new.result = "present" PROVE Package!Add(old, j) = old
  <2>1. Q = old[a]
    BY <1>5, <1>6
  <2> HIDE DEF Q, old, a
  <2> QED
    BY <1>2, <1>3, <1>4, <2>1
<1>7. ASSUME new.result = "write" PROVE Holds(new.lines, Package!Add(old, j), start, A)
  <2>1. /\ new.lines \in Seq(Package!Lines) /\ Package!AsDocumented(new.lines)
        /\ Package!Rest(new.lines) = Package!Rest(start)
        /\ Package!Listed(new.lines) = [old EXCEPT ![a] = Q]
    BY <1>1, <1>5, <1>7 DEF Edited
  <2>2. ASSUME NEW b \in Agents, NEW x \in Package!Listed(new.lines)[b]
        PROVE  x \in Package!Listed(start)[b] \/ <<b, x>> \in A
    <3>1. x \in old[b] \/ (j.op = "install" /\ b = a /\ x = k)
      <4>1. CASE b = a
        <5>1. x \in Q
          <6> HIDE DEF Q, old, a
          <6> QED
            BY <1>2, <1>4, <2>1, <2>2, <4>1
        <5> QED
          BY <4>1, <5>1
      <4>2. CASE b # a
        <5> HIDE DEF Q, old, a
        <5> QED
          BY <1>2, <1>4, <2>1, <2>2, <4>2
      <4> QED
        BY <4>1, <4>2
    <3> QED
      BY <1>1, <3>1
  <2>3. Sound(new.lines, start, A)
    BY <2>1, <2>2 DEF Sound
  <2> HIDE DEF Q, old, a
  <2> QED
    BY <1>3, <2>1, <2>3 DEF Holds
<1> QED
  BY <1>5, <1>6, <1>7

\* An edit of an empty file finds nothing.
LEMMA EditEmpty ==
  ASSUME NEW j, NEW new, new = Package!Edit(<<>>, j)
  PROVE  /\ new.result \in {"error", "write"}
         /\ new.result = "write" => new.lines = <<>>
<1>1. \A a, kinds, wanted : Package!Found(<<>>, a, kinds, wanted) = {}
  BY DEF Package!Found
<1>2. Package!SavePackage(<<>>, j.agent, j.pkg).result = "error"
  BY <1>1 DEF Package!SavePackage, Package!NotFound
<1>3. /\ Package!RemovePackage(<<>>, j.agent, j.pkg).result = "write"
      /\ Package!RemovePackage(<<>>, j.agent, j.pkg).lines = <<>>
  BY <1>1 DEF Package!RemovePackage
<1> QED
  BY <1>2, <1>3 DEF Package!Edit

\* One command moves.
LEMMA OneMoves ==
  ASSUME IntentInv, NEW p \in Procs, NEW at \in Places, NEW j \in Jobs,
         place' = [place EXCEPT ![p] = at], job' = [job EXCEPT ![p] = j],
         HistoryTyped', asked \subseteq asked', original' = original,
         Possible(conf', original, asked'), Carries(j, at, original, asked'),
         apart' => ByItself(p) /\ Steady(j, at, conf', intended', original, asked')
  PROVE  IntentInv'
<1>1. place \in [Procs -> Places] /\ job \in [Procs -> Jobs]
      /\ \A q \in Procs : Carries(job[q], place[q], original, asked)
  BY DEF IntentInv
<1>2. place' \in [Procs -> Places] /\ job' \in [Procs -> Jobs]
  BY <1>1
<1>3. /\ place'[p] = at /\ job'[p] = j
      /\ \A q \in Procs : q # p => place'[q] = place[q] /\ job'[q] = job[q]
  BY <1>1
<1>4. \A q \in Procs : Carries(job'[q], place'[q], original', asked')
  <2>1. \A q \in Procs : Carries(job[q], place[q], original, asked')
    BY <1>1, CarriesGrows
  <2> QED
    BY <1>3, <2>1
<1>5. ApartInv'
  <2>1. SUFFICES ASSUME apart'
                 PROVE  /\ (\A q \in Procs : place'[q] = "idle")
                             => Holds(conf', intended', original', asked')
                        /\ \A q \in Procs : place'[q] # "idle" =>
                             /\ ByItself(q)'
                             /\ Steady(job'[q], place'[q], conf', intended', original', asked')
    BY DEF ApartInv
  <2>2. ByItself(p) /\ Steady(j, at, conf', intended', original, asked')
    BY <2>1
  <2>3. ASSUME \A q \in Procs : place'[q] = "idle"
        PROVE  Holds(conf', intended', original', asked')
    <3>1. at = "idle"
      BY <1>3, <2>3
    <3> QED
      BY <2>2, <3>1 DEF Steady
  <2>4. ASSUME NEW q \in Procs, place'[q] # "idle"
        PROVE  /\ ByItself(q)'
               /\ Steady(job'[q], place'[q], conf', intended', original', asked')
    <3>1. q = p
      BY <1>3, <2>2, <2>4 DEF ByItself
    <3>2. ByItself(q)'
      BY <1>3, <2>2, <3>1 DEF ByItself
    <3> QED
      BY <1>3, <2>2, <3>1, <3>2
  <2> QED
    BY <2>3, <2>4
<1> QED
  BY <1>2, <1>4, <1>5 DEF IntentInv

LEMMA IdleFacts ==
  /\ Package!Idle \in Jobs /\ Package!Idle.ok = FALSE
  /\ \A start, A : Carries(Package!Idle, "idle", start, A)
<1>1. Package!Idle \in Jobs /\ Package!Idle.ok = FALSE
  BY DEF Package!Idle, Jobs
<1> QED
  BY <1>1 DEF Carries, Working, Holding

LEMMA SteadyIdle ==
  ASSUME NEW j, NEW lines, NEW lists, NEW start, NEW A
  PROVE  Steady(j, "idle", lines, lists, start, A) <=> Holds(lines, lists, start, A)
BY DEF Steady

LEMMA SoundFile ==
  ASSUME NEW lines, NEW start, NEW A, Sound(lines, start, A)
  PROVE  lines \in Seq(Package!Lines) /\ lines # Garbled
BY HostAssumption DEF Sound, Package!PackageAssumption

LEMMA IntentInit == Package!Init => IntentInv
<1> SUFFICES ASSUME Package!Init PROVE IntentInv
  OBVIOUS
<1>1. conf \in Layouts /\ original = conf /\ conf \in Seq(Package!Lines)
      /\ Package!AsDocumented(conf)
  BY HostAssumption, LayoutAssumption DEF Package!Init, Package!PackageAssumption
<1>2. Package!Listed(conf) \in [Agents -> SUBSET Pkgs]
  BY <1>1, ListedTyped
<1>3. Sound(conf, original, asked)
  BY <1>1 DEF Sound
<1>4. HistoryTyped
  BY <1>1, <1>2, HostAssumption DEF HistoryTyped, Package!Init, Package!PackageAssumption
<1>5. place = [p \in Procs |-> "idle"] /\ job = [p \in Procs |-> Package!Idle]
      /\ intended = Package!Listed(conf)
  BY DEF Package!Init
<1>6. ApartInv
  BY <1>3, <1>5 DEF ApartInv, Holds
<1>7. place \in [Procs -> Places] /\ job \in [Procs -> Jobs]
  BY <1>5, IdleFacts DEF Places
<1>8. \A p \in Procs : Carries(job[p], place[p], original, asked)
  BY <1>5, IdleFacts
<1> QED
  BY <1>3, <1>4, <1>6, <1>7, <1>8 DEF IntentInv, Possible

LEMMA StartIntends ==
  ASSUME IntentInv, NEW p \in Procs, Package!Start(p)
  PROVE  IntentInv'
<1>1. PICK op \in {"install", "remove"}, line \in Package!CommandLines :
        IF line.parsed.pkg = Nobody \/ (op = "install" /\ line.parsed.agent = Nobody)
        THEN Package!Exit(p) /\ UNCHANGED asked
        ELSE /\ job' = [job EXCEPT ![p] =
                          [op |-> op, agent |-> line.parsed.agent, save |-> line.parsed.save,
                           pkg |-> line.parsed.pkg, lines |-> <<>>, ok |-> FALSE]]
             /\ Package!Goto(p, "apt")
             /\ asked' = IF op = "install" THEN asked \cup {<<line.agent, line.pkg>>} ELSE asked
  BY Zenon DEF Package!Start
<1>2. /\ place[p] = "idle" /\ given < MaxCommands /\ given' = given + 1
      /\ apart' = (apart /\ \A q \in Procs : place[q] = "idle")
      /\ UNCHANGED <<conf, immutable, installed, aborted, original, intended>>
  BY DEF Package!Start
<1>3. Understood(line)
  BY LinesUnderstood
<1>4. asked \subseteq asked' /\ asked' \subseteq Agents \X Pkgs
  BY <1>1, <1>3 DEF Understood, IntentInv, HistoryTyped
<1>5. HistoryTyped'
  <2>1. HistoryTyped
    BY DEF IntentInv
  <2>2. given' \in 0..MaxCommands
    BY <1>2, <2>1, HostAssumption DEF HistoryTyped, Package!PackageAssumption
  <2>3. apart' \in BOOLEAN
    BY <1>2, <2>1 DEF HistoryTyped
  <2> QED
    BY <1>2, <1>4, <2>1, <2>2, <2>3 DEF HistoryTyped
<1>6. Possible(conf', original, asked')
  BY <1>2, <1>4, SoundGrows DEF IntentInv
<1>7. ASSUME apart' PROVE ByItself(p) /\ Holds(conf', intended', original, asked')
  <2>1. Holds(conf, intended, original, asked)
    BY <1>2, <1>7 DEF IntentInv, ApartInv
  <2> QED
    BY <1>2, <1>4, <1>7, <2>1, SoundGrows DEF ByItself
<1>8. CASE line.parsed.pkg = Nobody \/ (op = "install" /\ line.parsed.agent = Nobody)
  <2>1. place' = [place EXCEPT ![p] = "idle"] /\ job' = [job EXCEPT ![p] = Package!Idle]
    BY <1>1, <1>8 DEF Package!Exit, Package!Goto
  <2>2. "idle" \in Places
    BY DEF Places
  <2> QED
    BY <1>2, <1>4, <1>5, <1>6, <1>7, <2>1, <2>2, IdleFacts, SteadyIdle, OneMoves
<1>9. CASE ~(line.parsed.pkg = Nobody \/ (op = "install" /\ line.parsed.agent = Nobody))
  <2> DEFINE j == [op |-> op, agent |-> line.parsed.agent, save |-> line.parsed.save,
                   pkg |-> line.parsed.pkg, lines |-> <<>>, ok |-> FALSE]
  <2>1. /\ place' = [place EXCEPT ![p] = "apt"] /\ job' = [job EXCEPT ![p] = j]
        /\ op = "install" => asked' = asked \cup {<<line.agent, line.pkg>>}
    BY <1>1, <1>9 DEF Package!Goto
  <2>2. /\ line.agent \in Agents /\ line.pkg \in Pkgs /\ line.parsed.pkg = line.pkg
        /\ line.parsed.agent \in {line.agent, Nobody} /\ line.parsed.save \in BOOLEAN
    BY <1>3 DEF Understood
  <2>3. j \in Jobs
    BY <2>2 DEF Jobs
  <2>4. /\ j.op = op /\ j.agent = line.parsed.agent /\ j.pkg = line.parsed.pkg /\ j.ok = FALSE
        /\ j # Package!Idle
    BY DEF Package!Idle
  <2> HIDE DEF j
  <2>5. j.op = "install" => j.agent \in Agents /\ <<j.agent, j.pkg>> \in asked'
    BY <1>9, <2>1, <2>2, <2>4
  <2>6. Carries(j, "apt", original, asked')
    BY <2>2, <2>4, <2>5 DEF Carries, Working, Holding
  <2>7. apart' => Steady(j, "apt", conf', intended', original, asked')
    BY <1>7 DEF Steady
  <2>8. "apt" \in Places
    BY DEF Places
  <2> QED
    BY <1>2, <1>4, <1>5, <1>6, <1>7, <2>1, <2>3, <2>6, <2>7, <2>8, OneMoves
<1> QED
  BY <1>8, <1>9

\* What is known of the command that moves, when it is not the one that starts.
LEMMA Mover ==
  ASSUME IntentInv, NEW p \in Procs, place[p] # "idle"
  PROVE  /\ Carries(job[p], place[p], original, asked) /\ job[p] \in Jobs
         /\ job[p].op \in {"install", "remove"} /\ job[p].pkg \in Pkgs
         /\ job[p].op = "install" => job[p].agent \in Agents /\ <<job[p].agent, job[p].pkg>> \in asked
         /\ place[p] \in Working => job[p].agent \in Agents
         /\ apart => ByItself(p) /\ Steady(job[p], place[p], conf, intended, original, asked)
         /\ HistoryTyped /\ Possible(conf, original, asked)
         /\ job' = job => job' = [job EXCEPT ![p] = job[p]]
<1>1. Carries(job[p], place[p], original, asked) /\ job \in [Procs -> Jobs] /\ ApartInv
      /\ HistoryTyped /\ Possible(conf, original, asked)
  BY DEF IntentInv
<1>2. apart => ByItself(p) /\ Steady(job[p], place[p], conf, intended, original, asked)
  BY <1>1 DEF ApartInv
<1>3. job' = job => job' = [job EXCEPT ![p] = job[p]]
  BY <1>1
<1>4. /\ job[p].op \in {"install", "remove"} /\ job[p].pkg \in Pkgs
      /\ job[p].op = "install" => job[p].agent \in Agents /\ <<job[p].agent, job[p].pkg>> \in asked
      /\ place[p] \in Working => job[p].agent \in Agents
  BY <1>1 DEF Carries
<1> QED
  BY <1>1, <1>2, <1>3, <1>4

\* A command ends and leaves the file as intended, if it was alone.
LEMMA Exits ==
  ASSUME IntentInv, NEW p \in Procs, Package!Exit(p), HistoryTyped',
         asked' = asked, original' = original, Possible(conf', original, asked),
         apart' => ByItself(p) /\ Holds(conf', intended', original, asked)
  PROVE  IntentInv'
<1>1. place' = [place EXCEPT ![p] = "idle"] /\ job' = [job EXCEPT ![p] = Package!Idle]
  BY DEF Package!Exit, Package!Goto
<1>2. "idle" \in Places /\ asked \subseteq asked'
  BY DEF Places
<1>3. apart' => ByItself(p) /\ Steady(Package!Idle, "idle", conf', intended', original, asked')
  BY SteadyIdle
<1> QED
  BY <1>1, <1>2, <1>3, IdleFacts, OneMoves

LEMMA AptIntends ==
  ASSUME IntentInv, NEW p \in Procs, Package!Apt(p)
  PROVE  IntentInv'
<1>1. /\ place[p] = "apt"
      /\ UNCHANGED <<conf, immutable, given, aborted, original, asked, intended, apart>>
  BY DEF Package!Apt, Package!bounds, Package!history
<1>2. Carries(job[p], "apt", original, asked) /\ job[p] \in Jobs /\ job[p].pkg \in Pkgs
      /\ (apart => ByItself(p) /\ Steady(job[p], "apt", conf, intended, original, asked))
      /\ HistoryTyped /\ Possible(conf, original, asked)
      /\ (job' = job => job' = [job EXCEPT ![p] = job[p]])
  BY <1>1, Mover
<1>3. HistoryTyped'
  <2>1. installed' \subseteq Pkgs
    BY <1>2 DEF Package!Apt, HistoryTyped
  <2> QED
    BY <1>1, <1>2, <2>1 DEF HistoryTyped
<1>4. apart' => ByItself(p) /\ Holds(conf', intended', original, asked)
  BY <1>1, <1>2 DEF Steady
<1>5. CASE Package!Exit(p)
  BY <1>1, <1>2, <1>3, <1>4, <1>5, Exits
<1>6. CASE job[p].agent # Nobody /\ Package!Goto(p, "read") /\ UNCHANGED job
  <2>1. place' = [place EXCEPT ![p] = "read"] /\ job' = [job EXCEPT ![p] = job[p]]
        /\ "read" \in Places
    BY <1>2, <1>6 DEF Package!Goto, Places
  <2>2. job[p].agent \in Agents
    BY <1>2, <1>6 DEF Jobs
  <2>3. Carries(job[p], "read", original, asked')
    BY <1>1, <1>2, <2>2 DEF Carries, Working, Holding
  <2>4. apart' => Steady(job[p], "read", conf', intended', original, asked')
    BY <1>1, <1>4 DEF Steady
  <2>5. asked \subseteq asked' /\ original' = original /\ Possible(conf', original, asked')
    BY <1>1, <1>2
  <2> QED
    BY <1>2, <1>3, <1>4, <2>1, <2>3, <2>4, <2>5, OneMoves
<1> QED
  BY <1>5, <1>6 DEF Package!Apt

LEMMA ReadIntends ==
  ASSUME IntentInv, NEW p \in Procs, Package!Read(p)
  PROVE  IntentInv'
<1>1. /\ place[p] = "read"
      /\ UNCHANGED <<conf, immutable, installed, given, aborted, original, asked, apart>>
  BY DEF Package!Read, Package!bounds
<1>2. PICK e \in Package!Edits(p) :
        CASE e.result = "write" ->
                /\ job' = [job EXCEPT ![p].lines = e.lines]
                /\ Package!Goto(p, "mutable") /\ UNCHANGED intended
          [] e.result = "present" ->
                Package!Exit(p) /\ intended' = Package!Add(intended, job[p])
          [] OTHER -> Package!Exit(p) /\ UNCHANGED intended
  BY Zenon DEF Package!Read
<1>3. \/ /\ e.result = "write" /\ job' = [job EXCEPT ![p].lines = e.lines]
         /\ Package!Goto(p, "mutable") /\ UNCHANGED intended
      \/ /\ e.result = "present"
         /\ Package!Exit(p) /\ intended' = Package!Add(intended, job[p])
      \/ e.result \notin {"write", "present"} /\ Package!Exit(p) /\ UNCHANGED intended
  BY <1>2
<1>4. /\ Carries(job[p], "read", original, asked) /\ job[p] \in Jobs
      /\ job[p].op \in {"install", "remove"} /\ job[p].pkg \in Pkgs
      /\ (job[p].op = "install" => <<job[p].agent, job[p].pkg>> \in asked)
      /\ (apart => ByItself(p) /\ Steady(job[p], "read", conf, intended, original, asked))
      /\ HistoryTyped /\ Possible(conf, original, asked)
  BY <1>1, Mover
<1>5. job[p].agent \in Agents
  BY <1>4 DEF Carries, Working
<1>6. ASSUME NEW lists, Holds(conf, lists, original, asked)
      PROVE  /\ e.result \in {"error", "present", "write"}
             /\ e.result = "present" => Package!Add(lists, job[p]) = lists
             /\ e.result = "write" => Holds(e.lines, Package!Add(lists, job[p]), original, asked)
  <2>1. Sound(conf, original, asked) /\ Package!Listed(conf) = lists
    BY <1>6 DEF Holds
  <2>2. conf # Garbled
    BY <2>1, SoundFile
  <2>3. e = Package!Edit(conf, job[p])
    BY <2>2 DEF Package!Edits
  <2> QED
    BY <1>4, <1>5, <2>1, <2>3, EditSound
<1>7. e.result = "write" => Possible(e.lines, original, asked)
  <2>1. CASE conf = Garbled
    <3>1. e.lines \in {Garbled, <<>>}
      BY <2>1 DEF Package!Edits, Package!NotFound
    <3> QED
      BY <3>1 DEF Possible
  <2>2. CASE conf = <<>> /\ conf # Garbled
    <3>1. e = Package!Edit(<<>>, job[p])
      BY <2>2 DEF Package!Edits
    <3> QED
      BY <3>1, EditEmpty DEF Possible
  <2>3. CASE Sound(conf, original, asked)
    <3>1. Holds(conf, Package!Listed(conf), original, asked)
      BY <2>3 DEF Holds
    <3> QED
      BY <1>6, <3>1 DEF Holds, Possible
  <2> QED
    BY <1>4, <2>1, <2>2, <2>3 DEF Possible
<1>8. HistoryTyped'
  <2>1. Package!Add(intended, job[p]) \in [Agents -> SUBSET Pkgs]
    BY <1>4, <1>5, AddTyped DEF HistoryTyped
  <2>2. intended' \in [Agents -> SUBSET Pkgs]
    BY <1>3, <1>4, <2>1 DEF HistoryTyped
  <2> QED
    BY <1>1, <1>4, <2>2 DEF HistoryTyped
<1>9. apart' => ByItself(p) /\ Holds(conf, intended, original, asked)
  BY <1>1, <1>4 DEF Steady
<1>10. CASE /\ e.result = "present"
            /\ Package!Exit(p) /\ intended' = Package!Add(intended, job[p])
  <2>1. apart' => ByItself(p) /\ Holds(conf', intended', original, asked)
    BY <1>1, <1>6, <1>9, <1>10
  <2> QED
    BY <1>1, <1>4, <1>8, <1>10, <2>1, Exits
<1>11. CASE e.result \notin {"write", "present"} /\ Package!Exit(p) /\ UNCHANGED intended
  BY <1>1, <1>4, <1>8, <1>9, <1>11, Exits
<1>12. CASE /\ e.result = "write" /\ job' = [job EXCEPT ![p].lines = e.lines]
            /\ Package!Goto(p, "mutable") /\ UNCHANGED intended
  <2> DEFINE j == [job[p] EXCEPT !.lines = e.lines]
  <2>1. job \in [Procs -> Jobs]
    BY DEF IntentInv
  <2>2. place' = [place EXCEPT ![p] = "mutable"] /\ job' = [job EXCEPT ![p] = j]
        /\ "mutable" \in Places
    BY <1>12, <2>1 DEF Package!Goto, Places
  <2>3. e.lines \in Seq(Package!Lines) \cup {Garbled}
    <3>1. Possible(e.lines, original, asked)
      BY <1>7, <1>12
    <3>2. <<>> \in Seq(Package!Lines)
      OBVIOUS
    <3> HIDE DEF j
    <3> QED
      BY <3>1, <3>2 DEF Possible, Sound
  <2>4. /\ j \in Jobs /\ j.lines = e.lines /\ j.op = job[p].op /\ j.agent = job[p].agent
        /\ j.pkg = job[p].pkg /\ j.ok = job[p].ok
    BY <1>4, <2>3 DEF Jobs
  <2>5. job[p].ok = FALSE
    <3>1. ~job[p].ok /\ job[p].ok \in BOOLEAN
      BY <1>4 DEF Carries, Jobs
    <3> QED
      BY <3>1
  <2> HIDE DEF j
  <2>6. j # Package!Idle
    BY <1>4, <2>4 DEF Package!Idle
  <2>7. Carries(j, "mutable", original, asked')
    BY <1>1, <1>4, <1>5, <1>7, <1>12, <2>4, <2>5, <2>6 DEF Carries, Working, Holding
  <2>8. Package!Add(intended, j) = Package!Add(intended, job[p])
    BY <2>4 DEF Package!Add
  <2>9. ASSUME apart' PROVE Steady(j, "mutable", conf', intended', original, asked')
    <3>1. Holds(conf, intended, original, asked)
      BY <1>9, <2>9
    <3>2. Holds(e.lines, Package!Add(intended, job[p]), original, asked)
      BY <1>6, <1>12, <3>1
    <3> QED
      BY <1>1, <1>12, <2>4, <2>8, <3>1, <3>2 DEF Steady
  <2> QED
    BY <1>1, <1>4, <1>8, <1>9, <2>2, <2>4, <2>7, <2>9, OneMoves
<1> QED
  BY <1>3, <1>10, <1>11, <1>12

LEMMA MutableIntends ==
  ASSUME IntentInv, NEW p \in Procs, Package!Mutable(p)
  PROVE  IntentInv'
<1>1. /\ place[p] = "mutable" /\ immutable' = FALSE
      /\ place' = [place EXCEPT ![p] = "truncate"] /\ "truncate" \in Places
      /\ UNCHANGED <<conf, installed, job, given, aborted, original, asked, intended, apart>>
  BY DEF Package!Mutable, Package!Goto, Package!bounds, Package!history, Places
<1>2. /\ Carries(job[p], "mutable", original, asked) /\ job[p] \in Jobs
      /\ (apart => ByItself(p) /\ Steady(job[p], "mutable", conf, intended, original, asked))
      /\ HistoryTyped /\ Possible(conf, original, asked) /\ job' = [job EXCEPT ![p] = job[p]]
  BY <1>1, Mover
<1>3. HistoryTyped'
  BY <1>1, <1>2 DEF HistoryTyped
<1>4. Carries(job[p], "truncate", original, asked')
  BY <1>1, <1>2 DEF Carries, Working, Holding
<1>5. apart' => ByItself(p) /\ Steady(job[p], "truncate", conf', intended', original, asked')
  BY <1>1, <1>2 DEF Steady
<1> QED
  BY <1>1, <1>2, <1>3, <1>4, <1>5, OneMoves

LEMMA TruncateIntends ==
  ASSUME IntentInv, NEW p \in Procs, Package!Truncate(p)
  PROVE  IntentInv'
<1>1. /\ place[p] = "truncate"
      /\ UNCHANGED <<immutable, installed, job, given, aborted, original, asked, intended, apart>>
  BY DEF Package!Truncate, Package!bounds, Package!history
<1>2. /\ Carries(job[p], "truncate", original, asked) /\ job[p] \in Jobs
      /\ (apart => ByItself(p) /\ Steady(job[p], "truncate", conf, intended, original, asked))
      /\ HistoryTyped /\ Possible(conf, original, asked) /\ job' = [job EXCEPT ![p] = job[p]]
  BY <1>1, Mover
<1>3. HistoryTyped'
  BY <1>1, <1>2 DEF HistoryTyped
<1>4. CASE place' = [place EXCEPT ![p] = "immutable"] /\ conf' = conf
  <2>1. Carries(job[p], "immutable", original, asked')
    BY <1>1, <1>2 DEF Carries, Working, Holding
  <2>2. ~job[p].ok
    BY <1>2 DEF Carries
  <2>3. apart' => ByItself(p) /\ Steady(job[p], "immutable", conf', intended', original, asked')
    BY <1>1, <1>2, <1>4, <2>2 DEF Steady
  <2>4. "immutable" \in Places
    BY DEF Places
  <2> QED
    BY <1>1, <1>2, <1>3, <1>4, <2>1, <2>3, <2>4, OneMoves
<1>5. CASE place' = [place EXCEPT ![p] = "write"] /\ conf' = <<>>
  <2>1. Carries(job[p], "write", original, asked')
    BY <1>1, <1>2 DEF Carries, Working, Holding
  <2>2. apart' => ByItself(p) /\ Steady(job[p], "write", conf', intended', original, asked')
    BY <1>1, <1>2, <1>5 DEF Steady
  <2>3. "write" \in Places /\ Possible(conf', original, asked')
    BY <1>5 DEF Places, Possible
  <2> QED
    BY <1>1, <1>2, <1>3, <1>5, <2>1, <2>2, <2>3, OneMoves
<1> QED
  BY <1>4, <1>5 DEF Package!Truncate, Package!Goto

LEMMA WriteIntends ==
  ASSUME IntentInv, NEW p \in Procs, Package!Write(p)
  PROVE  IntentInv'
<1>1. /\ place[p] = "write"
      /\ place' = [place EXCEPT ![p] = "immutable"] /\ "immutable" \in Places
      /\ UNCHANGED <<immutable, installed, given, aborted, original, asked, intended>>
  BY DEF Package!Write, Package!Goto, Package!bounds, Package!history, Places
<1>2. /\ Carries(job[p], "write", original, asked) /\ job[p] \in Jobs
      /\ (apart => ByItself(p) /\ Steady(job[p], "write", conf, intended, original, asked))
      /\ HistoryTyped /\ Possible(conf, original, asked)
      /\ (job' = job => job' = [job EXCEPT ![p] = job[p]])
  BY <1>1, Mover
<1>3. Possible(job[p].lines, original, asked)
  BY <1>2 DEF Carries, Holding
<1>4. CASE /\ conf' = job[p].lines \/ (conf # <<>> /\ conf' = Garbled)
           /\ job' = [job EXCEPT ![p].ok = TRUE] /\ UNCHANGED apart
  <2> DEFINE j == [job[p] EXCEPT !.ok = TRUE]
  <2>1. job \in [Procs -> Jobs]
    BY DEF IntentInv
  <2>2. job' = [job EXCEPT ![p] = j]
    BY <1>4, <2>1
  <2>3. /\ j \in Jobs /\ j.lines = job[p].lines /\ j.op = job[p].op /\ j.agent = job[p].agent
        /\ j.pkg = job[p].pkg /\ j.ok = TRUE
    BY <1>2 DEF Jobs
  <2> HIDE DEF j
  <2>4. j # Package!Idle
    BY <2>3, IdleFacts
  <2>5. Carries(j, "immutable", original, asked')
    BY <1>1, <1>2, <1>3, <2>3, <2>4 DEF Carries, Working, Holding
  <2>6. Possible(conf', original, asked')
    BY <1>1, <1>3, <1>4 DEF Possible
  <2>7. ASSUME apart' PROVE ByItself(p) /\ Steady(j, "immutable", conf', intended', original, asked')
    <3>1. /\ ByItself(p) /\ conf = <<>>
          /\ Holds(job[p].lines, Package!Add(intended, job[p]), original, asked)
      BY <1>2, <1>4, <2>7 DEF Steady
    <3>2. Package!Add(intended, j) = Package!Add(intended, job[p])
      BY <2>3 DEF Package!Add
    <3>3. conf' = job[p].lines
      BY <1>4, <3>1
    <3> QED
      BY <1>1, <2>3, <3>1, <3>2, <3>3 DEF Steady
  <2>8. HistoryTyped'
    BY <1>1, <1>2, <1>4 DEF HistoryTyped
  <2> QED
    BY <1>1, <1>2, <2>2, <2>3, <2>5, <2>6, <2>7, <2>8, OneMoves
<1>5. CASE apart' = FALSE /\ UNCHANGED <<conf, job>>
  <2>1. Carries(job[p], "immutable", original, asked')
    BY <1>1, <1>2 DEF Carries, Working, Holding
  <2>2. HistoryTyped'
    BY <1>1, <1>2, <1>5 DEF HistoryTyped
  <2> QED
    BY <1>1, <1>2, <1>5, <2>1, <2>2, OneMoves
<1> QED
  BY <1>4, <1>5 DEF Package!Write

LEMMA ImmutableIntends ==
  ASSUME IntentInv, NEW p \in Procs, Package!Immutable(p)
  PROVE  IntentInv'
<1>1. /\ place[p] = "immutable" /\ immutable' = TRUE /\ Package!Exit(p)
      /\ intended' = (IF job[p].ok THEN Package!Add(intended, job[p]) ELSE intended)
      /\ UNCHANGED <<conf, installed, given, aborted, original, asked, apart>>
  BY DEF Package!Immutable, Package!bounds
<1>2. /\ Carries(job[p], "immutable", original, asked) /\ job[p].pkg \in Pkgs
      /\ (apart => ByItself(p) /\ Steady(job[p], "immutable", conf, intended, original, asked))
      /\ HistoryTyped /\ Possible(conf, original, asked)
  BY <1>1, Mover
<1>3. Package!Add(intended, job[p]) \in [Agents -> SUBSET Pkgs]
  <2>1. job[p].agent \in Agents
    BY <1>2 DEF Carries, Working
  <2> QED
    BY <1>2, <2>1, AddTyped DEF HistoryTyped
<1>4. HistoryTyped'
  BY <1>1, <1>2, <1>3 DEF HistoryTyped
<1>5. apart' => ByItself(p) /\ Holds(conf', intended', original, asked)
  BY <1>1, <1>2 DEF Steady
<1> QED
  BY <1>1, <1>2, <1>4, <1>5, Exits

LEMMA KillIntends ==
  ASSUME IntentInv, NEW p \in Procs, Package!Kill(p)
  PROVE  IntentInv'
<1>1. /\ place[p] # "idle" /\ aborted < MaxCrashes /\ aborted' = aborted + 1 /\ apart' = FALSE
      /\ Package!Exit(p)
      /\ UNCHANGED <<conf, immutable, installed, given, original, asked, intended>>
  BY DEF Package!Kill, Package!history
<1>2. HistoryTyped /\ Possible(conf, original, asked)
  BY DEF IntentInv
<1>3. HistoryTyped'
  <2>1. aborted' \in 0..MaxCrashes
    BY <1>1, <1>2, HostAssumption DEF HistoryTyped, Package!PackageAssumption
  <2> QED
    BY <1>1, <1>2, <2>1 DEF HistoryTyped
<1> QED
  BY <1>1, <1>2, <1>3, Exits

LEMMA IntentStep ==
  ASSUME IntentInv, [Package!Next]_Package!vars
  PROVE  IntentInv'
<1>1. CASE Package!Next
  <2>1. PICK p \in Procs :
          \/ Package!Start(p) \/ Package!Apt(p) \/ Package!Read(p) \/ Package!Mutable(p)
          \/ Package!Truncate(p) \/ Package!Write(p) \/ Package!Immutable(p) \/ Package!Kill(p)
    BY <1>1, Zenon DEF Package!Next
  <2> QED
    BY <2>1, StartIntends, AptIntends, ReadIntends, MutableIntends, TruncateIntends,
       WriteIntends, ImmutableIntends, KillIntends
<1>2. CASE UNCHANGED Package!vars
  <2>1. UNCHANGED <<conf, immutable, installed, place, job, given, aborted, original, asked,
                    intended, apart>>
    BY <1>2 DEF Package!vars, Package!bounds, Package!history
  <2> QED
    BY <2>1 DEF IntentInv, HistoryTyped, ApartInv, ByItself
<1> QED
  BY <1>1, <1>2

LEMMA IntentMeans ==
  ASSUME IntentInv
  PROVE  Package!TypeOK /\ Package!OnlyIntendedChanges
<1>1. HistoryTyped /\ Possible(conf, original, asked) /\ ApartInv
      /\ place \in [Procs -> Places] /\ job \in [Procs -> Jobs]
      /\ \A p \in Procs : Carries(job[p], place[p], original, asked)
  BY DEF IntentInv
<1>2. conf = Garbled \/ conf \in Seq(Package!Lines)
  <2>1. <<>> \in Seq(Package!Lines)
    OBVIOUS
  <2> QED
    BY <1>1, <2>1 DEF Possible, Sound
<1>3. Package!TypeOK
  <2>1. \A p \in Procs : /\ job[p].lines = Garbled \/ job[p].lines \in Seq(Package!Lines)
                         /\ place[p] = "idle" <=> job[p] = Package!Idle
    <3>1. \A p \in Procs : job[p].lines \in Seq(Package!Lines) \cup {Garbled}
      BY <1>1 DEF Jobs
    <3>2. \A p \in Procs : place[p] = "idle" <=> job[p] = Package!Idle
      BY <1>1 DEF Carries
    <3> QED
      BY <3>1, <3>2
  <2>2. \A r \in asked : r \in Agents \X Pkgs
    BY <1>1 DEF HistoryTyped
  <2> QED
    BY <1>1, <1>2, <2>1, <2>2 DEF Package!TypeOK, HistoryTyped, Places
<1>4. Package!QuietFileIsIntended
  <2>1. SUFFICES ASSUME apart, \A p \in Procs : place[p] = "idle"
                 PROVE  conf # Garbled /\ Package!Listed(conf) = intended
    BY DEF Package!QuietFileIsIntended, Package!Quiet
  <2>2. Holds(conf, intended, original, asked)
    BY <1>1, <2>1 DEF ApartInv
  <2> QED
    BY <2>2, SoundFile DEF Holds
<1>5. Package!RestIsKept
  <2>1. SUFFICES ASSUME conf # Garbled, conf # <<>>
                 PROVE  /\ Package!Rest(conf) = Package!Rest(original)
                        /\ Package!WellFormed(conf)
    BY DEF Package!RestIsKept
  <2>2. Sound(conf, original, asked)
    BY <1>1, <2>1 DEF Possible
  <2> QED
    BY <2>2, DocumentedMeans DEF Sound
<1>6. Package!NothingInvented
  <2>1. SUFFICES ASSUME conf # Garbled, NEW a \in Agents, NEW k \in Package!Listed(conf)[a]
                 PROVE  k \in Package!Listed(original)[a] \/ <<a, k>> \in asked
    BY DEF Package!NothingInvented
  <2>2. CASE conf = <<>>
    <3>1. conf \in Seq(Package!Lines) /\ ListsOf(conf, a) = {}
      BY <2>2 DEF ListsOf
    <3>2. Package!Listed(conf)[a] = {}
      BY <3>1, ListedIs
    <3> QED
      BY <2>1, <3>2
  <2>3. CASE Sound(conf, original, asked)
    BY <2>1, <2>3 DEF Sound
  <2> QED
    BY <1>1, <2>1, <2>2, <2>3 DEF Possible
<1> QED
  BY <1>3, <1>4, <1>5, <1>6 DEF Package!OnlyIntendedChanges

\* In every interleaving of any number of commands, kills and failed writes included:
\* conos.toml that was written as documented has, when the commands had it to
\* themselves, the packages they reported; and whenever it is neither cut nor garbled,
\* all its other lines, no key twice, and no package nobody asked for (package.go:162-293).
THEOREM IntendedKept == Spec => []OnlyIntendedChanges
<1> DEFINE Inv == part = "package" => IntentInv
<1>1. Init => Inv
  BY IntentInit DEF Init
<1>2. Inv /\ [Next]_vars => Inv'
  <2> SUFFICES ASSUME Inv, [Next]_vars, part' = "package"
               PROVE  IntentInv'
    OBVIOUS
  <2>1. part = "package" /\ [Package!Next]_packageVars
    BY DEF Next, vars
  <2>2. [Package!Next]_Package!vars
    BY <2>1, Zenon DEF packageVars, Package!vars, Package!bounds, Package!history
  <2> QED
    BY <2>1, <2>2, IntentStep
<1>3. IntentInv => Package!TypeOK /\ Package!OnlyIntendedChanges
  BY IntentMeans
<1> QED
  BY <1>1, <1>2, <1>3, PTL DEF Spec, OnlyIntendedChanges

-----------------------------------------------------------------------------
(* PolicyContext: what the sections add up to, for any number of files of   *)
(* any length.                                                              *)

PolicyTyped ==
    /\ size \in [Policy!Files -> Nat] /\ got \in [Policy!Files -> 0..MaxFile]
    /\ writing \subseteq Policy!Files /\ steady \subseteq Policy!Files
    /\ next \in 0..(Len(Candidates) + 1) /\ adding \in 0..(Len(Candidates) + 1)
    /\ prompt \in [refs : Seq(Policy!Files), bytes : Nat]
    /\ writes \in Nat /\ runs \in Nat

\* Of the first k - 1 candidates, those that the run has found to have content.
Before(k) == {f \in Policy!Sources : \E i \in DOMAIN Candidates : i < k /\ Candidates[i] = f}

ThreeAreIn ==
    \E f, g, h \in Policy!Included : f # g /\ g # h /\ f # h

\* As long as fewer than three sections are in, they take no more than their limits.
HasRoom ==
    \/ prompt.bytes <= Intro
    \/ \E f \in Policy!Included : prompt.bytes <= Intro + MaxFile + Frame[f]
    \/ \E f, g \in Policy!Included :
          f # g /\ prompt.bytes <= Intro + 2 * MaxFile + Frame[f] + Frame[g]
    \/ ThreeAreIn

\* Officers: a file that is being rewritten is empty, one that has stayed is not.
OfficersInv ==
    /\ \A f \in writing : size[f] = 0
    /\ \A f \in steady : size[f] > 0

\* A file that has stayed since the run began was found by it.
ReadInv ==
    next > 0 => \A i \in DOMAIN Candidates :
        i < next /\ Candidates[i] \in steady => Candidates[i] \in Policy!Sources

\* The run has added the sources it has come to.
AddInv ==
    adding > 0 =>
        /\ next = Len(Candidates) + 1
        /\ Policy!Included = Before(adding)
        /\ HasRoom /\ Policy!Sources # {}

\* It stopped at one that did not fit.
StoppedAt(k) ==
    /\ Policy!Included = Before(k) /\ ThreeAreIn
    /\ Candidates[k] \in Policy!Sources

\* Between runs all sources are in the prompt, or those before one that did not fit.
RestInv ==
    next = 0 =>
        /\ adding = 0 /\ steady \subseteq Policy!Sources
        /\ prompt.bytes > 0 => prompt.refs # << >>
        /\ \/ Policy!Included = Policy!Sources
           \/ \E k \in DOMAIN Candidates : StoppedAt(k)

PolicyInv ==
    /\ PolicyTyped /\ prompt.bytes <= MaxTotal
    /\ OfficersInv /\ ReadInv /\ AddInv /\ RestInv

LEMMA CandidateFacts ==
  ASSUME Policy!PolicyContextAssumption
  PROVE  /\ Len(Candidates) \in Nat /\ DOMAIN Candidates = 1..Len(Candidates)
         /\ \A i \in DOMAIN Candidates : Candidates[i] \in Policy!Files
         /\ \A f \in Policy!Files : \E i \in DOMAIN Candidates : Candidates[i] = f
         /\ \A i, j \in DOMAIN Candidates : Candidates[i] = Candidates[j] => i = j
         /\ Intro \in Nat /\ MaxFile \in Nat /\ MaxFile > 0 /\ MaxTotal \in Nat
         /\ \A f \in Policy!Files : Frame[f] \in Nat
         /\ \A f, g, h \in Policy!Files :
               Intro + 3 * MaxFile + Frame[f] + Frame[g] + Frame[h] <= MaxTotal
BY DEF Policy!PolicyContextAssumption, Policy!Files, Policy!Range

LEMMA RangeOfAppend ==
  ASSUME NEW S, NEW s \in Seq(S), NEW e \in S
  PROVE  Policy!Range(Append(s, e)) = Policy!Range(s) \cup {e}
<1>1. /\ DOMAIN Append(s, e) = 1..(Len(s) + 1) /\ Len(s) \in Nat /\ DOMAIN s = 1..Len(s)
      /\ Append(s, e)[Len(s) + 1] = e /\ \A i \in 1..Len(s) : Append(s, e)[i] = s[i]
  OBVIOUS
<1>2. ASSUME NEW v PROVE v \in Policy!Range(Append(s, e)) <=> v \in Policy!Range(s) \cup {e}
  <2>1. v \in Policy!Range(Append(s, e)) <=> \E i \in 1..(Len(s) + 1) : v = Append(s, e)[i]
    BY <1>1 DEF Policy!Range
  <2>2. v \in Policy!Range(s) <=> \E i \in 1..Len(s) : v = s[i]
    BY <1>1 DEF Policy!Range
  <2>3. \A i \in 1..(Len(s) + 1) : i \in 1..Len(s) \/ i = Len(s) + 1
    BY <1>1
  <2> QED
    BY <1>1, <2>1, <2>2, <2>3
<1> QED
  BY <1>2

\* Of the first k candidates with content, the k-th is one or it is not.
LEMMA BeforeNext ==
  ASSUME Policy!PolicyContextAssumption, NEW k \in DOMAIN Candidates
  PROVE  Before(k + 1) = IF Candidates[k] \in Policy!Sources THEN Before(k) \cup {Candidates[k]}
                         ELSE Before(k)
<1>1. k \in Nat /\ \A i \in DOMAIN Candidates : i < k + 1 <=> i < k \/ i = k
  BY CandidateFacts
<1> QED
  BY <1>1 DEF Before

LEMMA BeforeFirst ==
  ASSUME Policy!PolicyContextAssumption
  PROVE  Before(1) = {} /\ Before(Len(Candidates) + 1) = Policy!Sources
<1>1. \A i \in DOMAIN Candidates : i < Len(Candidates) + 1 /\ ~(i < 1)
  BY CandidateFacts
<1> QED
  BY <1>1, CandidateFacts DEF Before, Policy!Sources

LEMMA IncludedAreFiles ==
  ASSUME PolicyTyped
  PROVE  Policy!Included \subseteq Policy!Files
<1>1. prompt.refs \in Seq(Policy!Files)
  BY DEF PolicyTyped
<1>2. \A i \in DOMAIN prompt.refs : prompt.refs[i] \in Policy!Files
  BY <1>1
<1> QED
  BY <1>2 DEF Policy!Included, Policy!Range

\* A section does not fit only where three are in already.
LEMMA NoRoom ==
  ASSUME Policy!PolicyContextAssumption, PolicyTyped, HasRoom,
         NEW f \in Policy!Files, ~Policy!Fits(f)
  PROVE  ThreeAreIn
<1>1. /\ prompt.bytes \in Nat /\ got[f] \in 0..MaxFile /\ Frame[f] \in Nat
      /\ prompt.bytes + Frame[f] + got[f] > MaxTotal /\ MaxFile \in Nat /\ Intro \in Nat
      /\ MaxTotal \in Nat
  <2>1. ~(prompt.bytes + Frame[f] + got[f] <= MaxTotal)
    BY DEF Policy!Fits, Policy!WithSection
  <2>2. /\ prompt.bytes \in Nat /\ got[f] \in 0..MaxFile
    BY DEF PolicyTyped
  <2>3. Frame[f] \in Nat /\ MaxFile \in Nat /\ Intro \in Nat /\ MaxTotal \in Nat
    BY CandidateFacts
  <2> QED
    BY <2>1, <2>2, <2>3
<1>2. Policy!Included \subseteq Policy!Files
  BY IncludedAreFiles
<1>3. CASE prompt.bytes <= Intro
  <2>1. Intro + 3 * MaxFile + Frame[f] + Frame[f] + Frame[f] <= MaxTotal
    BY CandidateFacts
  <2> QED
    BY <1>1, <1>3, <2>1
<1>4. CASE \E g \in Policy!Included : prompt.bytes <= Intro + MaxFile + Frame[g]
  <2>1. PICK g \in Policy!Included : prompt.bytes <= Intro + MaxFile + Frame[g]
    BY <1>4
  <2>2. Intro + 3 * MaxFile + Frame[f] + Frame[f] + Frame[g] <= MaxTotal /\ Frame[g] \in Nat
    BY <1>2, CandidateFacts
  <2> QED
    BY <1>1, <2>1, <2>2
<1>5. CASE \E g, h \in Policy!Included :
              g # h /\ prompt.bytes <= Intro + 2 * MaxFile + Frame[g] + Frame[h]
  <2>1. PICK g, h \in Policy!Included :
              prompt.bytes <= Intro + 2 * MaxFile + Frame[g] + Frame[h]
    BY <1>5
  <2>2. /\ Intro + 3 * MaxFile + Frame[f] + Frame[g] + Frame[h] <= MaxTotal
        /\ Frame[g] \in Nat /\ Frame[h] \in Nat
    BY <1>2, CandidateFacts
  <2> QED
    BY <1>1, <2>1, <2>2
<1> QED
  BY <1>3, <1>4, <1>5 DEF HasRoom

\* One more section that was not in takes no more than its limits.
LEMMA RoomAfter ==
  ASSUME Policy!PolicyContextAssumption, PolicyTyped, HasRoom,
         NEW f \in Policy!Files, f \notin Policy!Included,
         Policy!Included' = Policy!Included \cup {f},
         prompt'.bytes = prompt.bytes + Frame[f] + got[f]
  PROVE  HasRoom'
<1>1. /\ prompt.bytes \in Nat /\ got[f] \in 0..MaxFile /\ Frame[f] \in Nat
      /\ MaxFile \in Nat /\ Intro \in Nat
  <2>1. prompt.bytes \in Nat /\ got[f] \in 0..MaxFile
    BY DEF PolicyTyped
  <2> QED
    BY <2>1, CandidateFacts
<1>2. \A g \in Policy!Included : Frame[g] \in Nat
  BY CandidateFacts, IncludedAreFiles
<1>3. CASE prompt.bytes <= Intro
  <2>1. prompt'.bytes <= Intro + MaxFile + Frame[f]
    BY <1>1, <1>3
  <2> QED
    BY <2>1 DEF HasRoom
<1>4. CASE \E g \in Policy!Included : prompt.bytes <= Intro + MaxFile + Frame[g]
  <2>1. PICK g \in Policy!Included : prompt.bytes <= Intro + MaxFile + Frame[g]
    BY <1>4
  <2>2. prompt'.bytes <= Intro + 2 * MaxFile + Frame[f] + Frame[g] /\ f # g
    BY <1>1, <1>2, <2>1
  <2> QED
    BY <2>2 DEF HasRoom
<1>5. CASE \E g, h \in Policy!Included :
              g # h /\ prompt.bytes <= Intro + 2 * MaxFile + Frame[g] + Frame[h]
  BY <1>5 DEF HasRoom, ThreeAreIn
<1>6. CASE ThreeAreIn
  BY <1>6 DEF HasRoom, ThreeAreIn
<1> QED
  BY <1>3, <1>4, <1>5, <1>6 DEF HasRoom

LEMMA PolicyInit ==
  ASSUME Policy!PolicyContextAssumption, Policy!Init
  PROVE  PolicyInv
<1>1. /\ size \in [Policy!Files -> Nat] /\ writing = {} /\ steady = {}
      /\ next = 0 /\ adding = 0 /\ got = [f \in Policy!Files |-> 0]
      /\ prompt = [refs |-> << >>, bytes |-> 0] /\ writes = 0 /\ runs = 0
  <2>1. Sizes \cup {0} \subseteq Nat /\ size \in [Policy!Files -> Sizes \cup {0}]
    BY DEF Policy!Init, Policy!PolicyContextAssumption
  <2>2. size \in [Policy!Files -> Nat]
    BY <2>1
  <2> QED
    BY <2>2 DEF Policy!Init, Policy!Empty
<1>2. PolicyTyped
  BY <1>1, CandidateFacts DEF PolicyTyped
<1>3. Policy!Included = {} /\ Policy!Sources = {}
  BY <1>1 DEF Policy!Included, Policy!Sources, Policy!Range
<1> QED
  BY <1>1, <1>2, <1>3, CandidateFacts DEF PolicyInv, OfficersInv, ReadInv, AddInv, RestInv

\* A step that changes neither what was read nor the prompt leaves the sections alone.
LEMMA SectionsStay ==
  ASSUME got' = got, prompt' = prompt
  PROVE  /\ Policy!Sources' = Policy!Sources /\ Policy!Included' = Policy!Included
         /\ \A k \in DOMAIN Candidates : StoppedAt(k) => StoppedAt(k)'
         /\ \A k : Before(k)' = Before(k)
         /\ HasRoom => HasRoom'
BY DEF Policy!Sources, Policy!Included, Before, HasRoom, ThreeAreIn, StoppedAt

LEMMA RunSteps ==
  ASSUME Policy!PolicyContextAssumption, PolicyInv,
         Policy!Begin \/ Policy!Read \/ Policy!NoPolicy \/ Policy!Introduce
  PROVE  PolicyInv'
<1>0. /\ PolicyTyped /\ prompt.bytes <= MaxTotal
      /\ OfficersInv /\ ReadInv /\ AddInv /\ RestInv
  BY DEF PolicyInv
<1>1. CASE Policy!Begin
  <2>1. /\ next = 0 /\ next' = 1 /\ adding' = 0 /\ got' = [f \in Policy!Files |-> 0]
        /\ steady' = {f \in Policy!Files : size[f] > 0} /\ runs' = runs + 1
        /\ UNCHANGED <<size, writing, prompt, writes>>
    BY <1>0, <1>1 DEF Policy!Begin, RestInv
  <2>2. PolicyTyped'
    BY <1>0, <2>1, CandidateFacts DEF PolicyTyped
  <2>3. OfficersInv'
    BY <1>0, <2>1 DEF OfficersInv
  <2>4. ReadInv'
    BY <2>1, CandidateFacts DEF ReadInv
  <2> QED
    BY <1>0, <2>1, <2>2, <2>3, <2>4 DEF PolicyInv, AddInv, RestInv
<1>2. CASE Policy!Read
  <2> DEFINE f == Candidates[next]
  <2>1. /\ next \in DOMAIN Candidates /\ next' = next + 1
        /\ got' = [got EXCEPT ![f] = Policy!Clamp(size[f])]
        /\ UNCHANGED <<size, writing, adding, prompt, steady, writes, runs>>
    BY <1>2 DEF Policy!Read
  <2>2. next \in 1..Len(Candidates) /\ f \in Policy!Files /\ adding = 0
    BY <1>0, <2>1, CandidateFacts DEF AddInv, PolicyTyped
  <2>3. /\ Policy!Clamp(size[f]) \in 0..MaxFile
        /\ size[f] > 0 => Policy!Clamp(size[f]) > 0
    BY <1>0, <2>2, CandidateFacts DEF Policy!Clamp, PolicyTyped
  <2>4. PolicyTyped'
    BY <1>0, <2>1, <2>2, <2>3, CandidateFacts DEF PolicyTyped
  <2>5. ReadInv'
    <3> SUFFICES ASSUME NEW i \in DOMAIN Candidates, i < next + 1, Candidates[i] \in steady
                 PROVE  Candidates[i] \in Policy!Sources'
      BY <2>1 DEF ReadInv
    <3>1. CASE i = next
      <4>1. Policy!Clamp(size[f]) > 0
        BY <1>0, <2>3, <3>1 DEF OfficersInv
      <4> QED
        BY <1>0, <2>1, <2>2, <3>1, <4>1 DEF Policy!Sources, PolicyTyped
    <3>2. CASE i # next
      <4>1. i < next
        BY <2>2, <3>2, CandidateFacts
      <4>2. Candidates[i] \in Policy!Sources /\ Candidates[i] # f
        BY <1>0, <2>1, <2>2, <3>2, <4>1, CandidateFacts DEF ReadInv
      <4> QED
        BY <1>0, <2>1, <4>2 DEF Policy!Sources, PolicyTyped
    <3> QED
      BY <3>1, <3>2
  <2>6. next' # 0 /\ adding' = 0
    BY <2>1, <2>2
  <2> QED
    BY <1>0, <2>1, <2>4, <2>5, <2>6 DEF PolicyInv, AddInv, RestInv, OfficersInv
<1>3. CASE Policy!NoPolicy
  <2>1. /\ next = Len(Candidates) + 1 /\ adding = 0 /\ Policy!Sources = {}
        /\ next' = 0 /\ prompt' = [refs |-> << >>, bytes |-> 0]
        /\ UNCHANGED <<size, writing, adding, got, steady, writes, runs>>
    BY <1>3 DEF Policy!NoPolicy, Policy!Empty
  <2>2. PolicyTyped'
    BY <1>0, <2>1, CandidateFacts DEF PolicyTyped
  <2>3. steady \subseteq Policy!Sources
    BY <1>0, <2>1, CandidateFacts DEF ReadInv, PolicyTyped
  <2>4. Policy!Sources' = {} /\ Policy!Included' = {}
    BY <2>1 DEF Policy!Sources, Policy!Included, Policy!Range
  <2>5. prompt'.bytes <= MaxTotal /\ ~(prompt'.bytes > 0)
    BY <2>1, CandidateFacts
  <2> QED
    BY <1>0, <2>1, <2>2, <2>3, <2>4, <2>5 DEF PolicyInv, AddInv, RestInv, ReadInv, OfficersInv
<1>4. CASE Policy!Introduce
  <2>1. /\ next = Len(Candidates) + 1 /\ adding = 0 /\ Policy!Sources # {}
        /\ adding' = 1 /\ prompt' = [refs |-> << >>, bytes |-> Intro]
        /\ UNCHANGED <<size, writing, next, got, steady, writes, runs>>
    BY <1>4 DEF Policy!Introduce, Policy!Opening
  <2>2. PolicyTyped' /\ next' # 0
    BY <1>0, <2>1, CandidateFacts DEF PolicyTyped
  <2>3. prompt'.bytes <= MaxTotal
    <3>1. PICK f \in Policy!Files : TRUE
      BY <2>1 DEF Policy!Sources
    <3>2. Intro + 3 * MaxFile + Frame[f] + Frame[f] + Frame[f] <= MaxTotal /\ Frame[f] \in Nat
      BY CandidateFacts
    <3> QED
      BY <2>1, <3>2, CandidateFacts
  <2>4. Policy!Included' = {} /\ Policy!Sources' = Policy!Sources /\ Before(1)' = {}
    BY <2>1, BeforeFirst DEF Policy!Sources, Policy!Included, Policy!Range, Before
  <2>5. HasRoom'
    BY <2>1, CandidateFacts DEF HasRoom
  <2> QED
    BY <1>0, <2>1, <2>2, <2>3, <2>4, <2>5 DEF PolicyInv, AddInv, RestInv, ReadInv, OfficersInv
<1> QED
  BY <1>1, <1>2, <1>3, <1>4

LEMMA AddStep ==
  ASSUME Policy!PolicyContextAssumption, PolicyInv, Policy!AddSection
  PROVE  PolicyInv'
<1> DEFINE f == Candidates[adding]
<1>0. /\ PolicyTyped /\ prompt.bytes <= MaxTotal
      /\ OfficersInv /\ ReadInv /\ AddInv /\ RestInv
  BY DEF PolicyInv
<1>1. /\ adding \in DOMAIN Candidates /\ adding' = adding + 1
      /\ f \in Policy!Sources => Policy!Fits(f)
      /\ prompt' = IF f \in Policy!Sources THEN Policy!WithSection(f) ELSE prompt
      /\ UNCHANGED <<size, writing, next, got, steady, writes, runs>>
  BY DEF Policy!AddSection
<1>2. /\ adding \in 1..Len(Candidates) /\ f \in Policy!Files /\ next # 0
      /\ next = Len(Candidates) + 1 /\ Policy!Included = Before(adding)
      /\ HasRoom /\ Policy!Sources # {}
  BY <1>0, <1>1, CandidateFacts DEF AddInv
<1>3. Policy!Sources' = Policy!Sources
  BY <1>1 DEF Policy!Sources
<1>4. f \notin Policy!Included
  BY <1>2, <1>1, CandidateFacts DEF Before
<1>5. /\ PolicyTyped' /\ HasRoom' /\ prompt'.bytes <= MaxTotal
      /\ Policy!Included' = Before(adding + 1)
  <2>1. CASE f \in Policy!Sources
    <3>1. /\ prompt'.refs = Append(prompt.refs, f) /\ Policy!Fits(f)
          /\ prompt'.bytes = prompt.bytes + Frame[f] + got[f]
          /\ prompt' = [refs |-> Append(prompt.refs, f), bytes |-> prompt.bytes + Frame[f] + got[f]]
      BY <1>1, <2>1 DEF Policy!WithSection
    <3>2. Policy!Included' = Policy!Included \cup {f}
      BY <1>0, <1>2, <3>1, RangeOfAppend DEF Policy!Included, PolicyTyped
    <3>3. prompt.bytes + Frame[f] + got[f] \in Nat
      <4>1. prompt.bytes \in Nat /\ got[f] \in 0..MaxFile
        BY <1>0, <1>2 DEF PolicyTyped
      <4>2. Frame[f] \in Nat /\ MaxFile \in Nat
        BY <1>2, CandidateFacts
      <4> HIDE DEF f
      <4> QED
        BY <4>1, <4>2
    <3>4. Append(prompt.refs, f) \in Seq(Policy!Files)
      BY <1>0, <1>2 DEF PolicyTyped
    <3>5. prompt' \in [refs : Seq(Policy!Files), bytes : Nat]
      BY <3>1, <3>3, <3>4
    <3>6. PolicyTyped'
      BY <1>0, <1>1, <1>2, <3>5, CandidateFacts DEF PolicyTyped
    <3>7. HasRoom'
      BY <1>0, <1>2, <1>4, <3>1, <3>2, RoomAfter
    <3>8. prompt'.bytes <= MaxTotal
      BY <3>1 DEF Policy!Fits, Policy!WithSection
    <3> QED
      BY <1>1, <1>2, <2>1, <3>2, <3>6, <3>7, <3>8, BeforeNext
  <2>2. CASE f \notin Policy!Sources
    <3>1. prompt' = prompt
      BY <1>1, <2>2
    <3>2. Policy!Included' = Policy!Included /\ HasRoom'
      BY <1>1, <1>2, <3>1, SectionsStay
    <3>3. PolicyTyped'
      BY <1>0, <1>1, <1>2, <3>1, CandidateFacts DEF PolicyTyped
    <3> QED
      BY <1>0, <1>1, <1>2, <2>2, <3>1, <3>2, <3>3, BeforeNext
  <2> QED
    BY <2>1, <2>2
<1>6. AddInv'
  <2>1. (Before(adding))' = Before(adding + 1)
    BY <1>1, <1>3 DEF Before
  <2> QED
    BY <1>1, <1>2, <1>3, <1>5, <2>1 DEF AddInv
<1> QED
  BY <1>0, <1>1, <1>2, <1>3, <1>5, <1>6 DEF PolicyInv, RestInv, ReadInv, OfficersInv

LEMMA FinishStep ==
  ASSUME Policy!PolicyContextAssumption, PolicyInv, Policy!Finish
  PROVE  PolicyInv'
<1>0. /\ PolicyTyped /\ prompt.bytes <= MaxTotal
      /\ OfficersInv /\ ReadInv /\ AddInv /\ RestInv
  BY DEF PolicyInv
<1>1. /\ next' = 0 /\ adding' = 0
      /\ UNCHANGED <<size, writing, got, prompt, steady, writes, runs>>
  BY DEF Policy!Finish
<1>2. adding \in 1..(Len(Candidates) + 1)
  BY CandidateFacts DEF Policy!Finish
<1>3. /\ next = Len(Candidates) + 1 /\ Policy!Included = Before(adding)
      /\ HasRoom /\ Policy!Sources # {}
  BY <1>0, <1>2 DEF AddInv
<1>4. steady \subseteq Policy!Sources
  <2> SUFFICES ASSUME NEW g \in steady PROVE g \in Policy!Sources
    OBVIOUS
  <2>1. PICK i \in DOMAIN Candidates : Candidates[i] = g
    BY <1>0, CandidateFacts DEF PolicyTyped
  <2>2. i < next /\ next > 0
    BY <1>3, CandidateFacts
  <2> QED
    BY <1>0, <2>1, <2>2 DEF ReadInv
<1>5. /\ Policy!Included # {}
      /\ Policy!Included = Policy!Sources \/ \E k \in DOMAIN Candidates : StoppedAt(k)
  <2>1. CASE adding = Len(Candidates) + 1
    BY <1>3, <2>1, BeforeFirst
  <2>2. CASE /\ adding \in DOMAIN Candidates /\ Candidates[adding] \in Policy!Sources
             /\ ~Policy!Fits(Candidates[adding])
    <3>1. ThreeAreIn
      BY <1>0, <1>3, <2>2, NoRoom, CandidateFacts
    <3> QED
      BY <1>3, <2>2, <3>1 DEF StoppedAt, ThreeAreIn
  <2> QED
    BY <2>1, <2>2 DEF Policy!Finish
<1>6. prompt.refs # << >>
  BY <1>5 DEF Policy!Included, Policy!Range
<1>7. PolicyTyped'
  BY <1>0, <1>1, CandidateFacts DEF PolicyTyped
<1>8. RestInv'
  BY <1>1, <1>4, <1>5, <1>6, SectionsStay DEF RestInv
<1> QED
  BY <1>0, <1>1, <1>7, <1>8 DEF PolicyInv, AddInv, ReadInv, OfficersInv

LEMMA OfficerSteps ==
  ASSUME Policy!PolicyContextAssumption, PolicyInv,
         NEW f \in Policy!Files, Policy!Truncate(f) \/ Policy!Write(f)
  PROVE  PolicyInv'
<1>0. /\ PolicyTyped /\ prompt.bytes <= MaxTotal
      /\ OfficersInv /\ ReadInv /\ AddInv /\ RestInv
  BY DEF PolicyInv
<1>1. /\ UNCHANGED <<next, adding, got, prompt>> /\ steady' \subseteq steady
      /\ PolicyTyped' /\ OfficersInv'
  <2>1. CASE Policy!Truncate(f)
    BY <1>0, <2>1 DEF Policy!Truncate, PolicyTyped, OfficersInv
  <2>2. CASE Policy!Write(f)
    <3>1. PICK n \in Sizes : size' = [size EXCEPT ![f] = n]
      BY <2>2 DEF Policy!Write
    <3>2. n \in Nat /\ f \in writing /\ writing' = writing \ {f}
      BY <2>2, <3>1 DEF Policy!Write, Policy!PolicyContextAssumption
    <3>3. f \notin steady
      BY <1>0, <3>2 DEF OfficersInv
    <3> QED
      BY <1>0, <2>2, <3>1, <3>2, <3>3 DEF Policy!Write, PolicyTyped, OfficersInv
  <2> QED
    BY <2>1, <2>2
<1>2. Policy!Sources' = Policy!Sources /\ ReadInv'
  BY <1>0, <1>1, SectionsStay DEF ReadInv
<1>3. AddInv'
  BY <1>0, <1>1, SectionsStay DEF AddInv
<1>4. RestInv'
  BY <1>0, <1>1, SectionsStay DEF RestInv
<1> QED
  BY <1>0, <1>1, <1>2, <1>3, <1>4 DEF PolicyInv

LEMMA PolicyStep ==
  ASSUME Policy!PolicyContextAssumption, PolicyInv, [Policy!Next]_policyVars
  PROVE  PolicyInv'
<1>1. CASE Policy!Next
  BY <1>1, RunSteps, AddStep, FinishStep, OfficerSteps DEF Policy!Next
<1>2. CASE UNCHANGED policyVars
  <2>1. UNCHANGED <<size, writing, next, adding, got, prompt, steady, writes, runs>>
    BY <1>2 DEF policyVars
  <2>2. ReadInv'
    BY <2>1, SectionsStay DEF PolicyInv, ReadInv
  <2>3. AddInv'
    BY <2>1, SectionsStay DEF PolicyInv, AddInv
  <2>4. RestInv'
    BY <2>1, SectionsStay DEF PolicyInv, RestInv
  <2> QED
    BY <2>1, <2>2, <2>3, <2>4 DEF PolicyInv, PolicyTyped, OfficersInv
<1> QED
  BY <1>1, <1>2

\* What PolicyInv says between two runs is what a prompt is to have.
LEMMA PolicyPromise ==
  ASSUME Policy!PolicyContextAssumption, PolicyInv
  PROVE  Policy!TypeOK /\ Policy!PolicyHolds
<1>0. PolicyTyped /\ prompt.bytes <= MaxTotal /\ RestInv
  BY DEF PolicyInv
<1>1. Policy!TypeOK
  BY <1>0 DEF PolicyTyped, Policy!TypeOK, Policy!Range
<1>2. Policy!PolicyFits
  BY <1>0 DEF RestInv, Policy!PolicyFits
<1>3. Policy!GeneralComesFirst
  <2> SUFFICES ASSUME next = 0, NEW i \in DOMAIN Candidates, NEW j \in DOMAIN Candidates, i < j,
                      Candidates[j] \in Policy!Included, Candidates[i] \in steady
               PROVE  Candidates[i] \in Policy!Included
    BY DEF Policy!GeneralComesFirst
  <2>1. Candidates[i] \in Policy!Sources
    BY <1>0 DEF RestInv
  <2>2. CASE Policy!Included = Policy!Sources
    BY <2>1, <2>2
  <2>3. CASE \E k \in DOMAIN Candidates : StoppedAt(k)
    <3>1. PICK k \in DOMAIN Candidates : Policy!Included = Before(k)
      BY <2>3 DEF StoppedAt
    <3>2. j < k
      BY <3>1, CandidateFacts DEF Before
    <3>3. i < k
      BY <3>2, CandidateFacts
    <3> QED
      BY <2>1, <3>1, <3>3 DEF Before
  <2> QED
    BY <1>0, <2>2, <2>3 DEF RestInv
<1>4. Policy!ThreeAreAlwaysIn
  <2> SUFFICES ASSUME next = 0,
                      NEW f \in Policy!Files, NEW g \in Policy!Files, NEW h \in Policy!Files,
                      Policy!Sources \subseteq {f, g, h}
               PROVE  steady \subseteq Policy!Included
    BY DEF Policy!ThreeAreAlwaysIn
  <2>1. ASSUME NEW k \in DOMAIN Candidates, StoppedAt(k) PROVE FALSE
    <3>1. /\ Candidates[k] \notin Policy!Included /\ Candidates[k] \in Policy!Sources
          /\ Policy!Included \subseteq Policy!Sources
      BY <2>1, CandidateFacts DEF StoppedAt, Before
    <3>2. PICK a, b, c \in Policy!Included : a # b /\ b # c /\ a # c
      BY <2>1 DEF StoppedAt, ThreeAreIn
    <3> QED
      BY <3>1, <3>2
  <2> QED
    BY <1>0, <2>1 DEF RestInv
<1> QED
  BY <1>1, <1>2, <1>3, <1>4 DEF Policy!PolicyHolds

\* However many files apply, however long they are and however officers rewrite them.
THEOREM PolicyKept == Spec => []PolicyHolds
<1> DEFINE Inv == part = "policy" => PolicyInv
<1>0. Policy!PolicyContextAssumption
  BY HostAssumption DEF HostAssumption
<1>1. Init => Inv
  BY <1>0, PolicyInit DEF Init
<1>2. Inv /\ [Next]_vars => Inv'
  <2> SUFFICES ASSUME Inv, [Next]_vars, part' = "policy"
               PROVE  PolicyInv'
    OBVIOUS
  <2>1. part = "policy" /\ [Policy!Next]_policyVars
    BY DEF Next, vars
  <2> QED
    BY <1>0, <2>1, PolicyStep
<1>3. Inv => PolicyHolds
  BY <1>0, PolicyPromise DEF PolicyHolds
<1> QED
  BY <1>1, <1>2, <1>3, PTL DEF Spec

-----------------------------------------------------------------------------
(* ThreadContext: what the operators that make window and brief keep.       *)

\* The turns that leave a window.
Leaving(turns) == IF Len(turns) <= RecentTurns THEN 0 ELSE Len(turns) - RecentTurns

\* A sequence without some of its first elements.
IsTail(t, s) ==
    \E k \in Nat : Len(t) + k = Len(s) /\ \A i \in 1..Len(t) : t[i] = s[i + k]

LEMMA NewestShape ==
  ASSUME NEW s \in Seq(Thread!Lines), NEW n \in Nat
  PROVE  Thread!Newest(s, n) \in Seq(Thread!Lines) /\ IsTail(Thread!Newest(s, n), s)
<1>1. CASE Len(s) <= n
  BY <1>1 DEF Thread!Newest, IsTail
<1>2. CASE ~(Len(s) <= n)
  <2> DEFINE k == Len(s) - n
             t == SubSeq(s, k + 1, Len(s))
  <2>1. k \in Nat /\ n + k = Len(s) /\ Thread!Newest(s, n) = t
    BY <1>2 DEF Thread!Newest
  <2>2. t \in Seq(Thread!Lines) /\ Len(t) = n /\ \A i \in 1..n : t[i] = s[i + k]
    BY <1>2
  <2> HIDE DEF k, t
  <2> QED
    BY <2>1, <2>2 DEF IsTail
<1> QED
  BY <1>1, <1>2

LEMMA WindowShape ==
  ASSUME Thread!ThreadAssumption, NEW s \in Seq(Thread!Turns)
  PROVE  LET w == Thread!Window(s)
             o == Thread!Overflow(s) IN
         /\ w \in Seq(Thread!Turns) /\ o \in Seq(Thread!Turns) /\ Len(w) <= RecentTurns
         /\ Leaving(s) \in 0..Len(s) /\ Len(w) = Len(s) - Leaving(s) /\ Len(o) = Leaving(s)
         /\ \A i \in 1..Len(w) : w[i] = s[i + Leaving(s)]
         /\ \A i \in 1..Len(o) : o[i] = s[i]
<1>0. RecentTurns \in Nat /\ Len(s) \in Nat
  BY DEF Thread!ThreadAssumption
<1>1. CASE Len(s) <= RecentTurns
  BY <1>0, <1>1 DEF Thread!Window, Thread!Overflow, Thread!Newest, Leaving
<1>2. CASE ~(Len(s) <= RecentTurns)
  <2> DEFINE k == Len(s) - RecentTurns
  <2>1. k \in 1..Len(s) /\ k = Leaving(s)
    BY <1>0, <1>2 DEF Leaving, Thread!ThreadAssumption
  <2>2. Thread!Window(s) = SubSeq(s, k + 1, Len(s)) /\ Thread!Overflow(s) = SubSeq(s, 1, k)
    BY <1>0, <1>2 DEF Thread!Window, Thread!Overflow, Thread!Newest
  <2>3. /\ SubSeq(s, k + 1, Len(s)) \in Seq(Thread!Turns) /\ Len(SubSeq(s, k + 1, Len(s))) = RecentTurns
        /\ \A i \in 1..RecentTurns : SubSeq(s, k + 1, Len(s))[i] = s[i + k]
    BY <1>0, <1>2
  <2>4. /\ SubSeq(s, 1, k) \in Seq(Thread!Turns) /\ Len(SubSeq(s, 1, k)) = k
        /\ \A i \in 1..k : SubSeq(s, 1, k)[i] = s[i]
    BY <1>0, <2>1
  <2> QED
    BY <1>0, <2>1, <2>2, <2>3, <2>4
<1> QED
  BY <1>1, <1>2

Exchange(n) == {[role |-> "user", msg |-> n], [role |-> "assistant", msg |-> n]}

IsExchange(x, s, n) ==
    /\ x \in Seq(Thread!Turns \cup Exchange(n)) /\ Len(x) = Len(s) + 2
    /\ \A i \in 1..Len(s) : x[i] = s[i]
    /\ x[Len(s) + 1] = [role |-> "user", msg |-> n]
    /\ x[Len(s) + 2] = [role |-> "assistant", msg |-> n]

LEMMA ExchangeShape ==
  ASSUME NEW s \in Seq(Thread!Turns), NEW n
  PROVE  IsExchange(Thread!WithExchange(s, n), s, n)
<1> DEFINE u == [role |-> "user", msg |-> n]
           a == [role |-> "assistant", msg |-> n]
<1>1. u \in Exchange(n) /\ a \in Exchange(n)
  BY DEF Exchange
<1>2. Thread!WithExchange(s, n) = s \o <<u, a>>
  BY DEF Thread!WithExchange
<1> HIDE DEF u, a
<1>3. <<u, a>> \in Seq(Exchange(n))
  BY <1>1
<1>4. <<u, a>> \in Seq(Thread!Turns \cup Exchange(n)) /\ s \in Seq(Thread!Turns \cup Exchange(n))
  BY <1>1
<1>5. /\ s \o <<u, a>> \in Seq(Thread!Turns \cup Exchange(n)) /\ Len(s \o <<u, a>>) = Len(s) + 2
      /\ \A i \in 1..Len(s) : (s \o <<u, a>>)[i] = s[i]
      /\ (s \o <<u, a>>)[Len(s) + 1] = u /\ (s \o <<u, a>>)[Len(s) + 2] = a
  BY <1>4
<1> QED
  BY <1>2, <1>5 DEF u, a, IsExchange

\* A line is what Summary makes of its turn.
LEMMA SaidSummary ==
  ASSUME NEW t \in [role : {"user", "assistant"}, msg : Nat]
  PROVE  /\ Thread!Said(Thread!Summary(t)) = t /\ Thread!Summary(t).latest = FALSE
         /\ Thread!Summary(t).msg = t.msg
BY DEF Thread!Said, Thread!Summary

LEMMA SummaryTyped ==
  ASSUME NEW t \in Thread!Turns
  PROVE  Thread!Summary(t) \in Thread!Lines
BY DEF Thread!Summary, Thread!Turns, Thread!Lines

LEMMA SaidTyped ==
  ASSUME NEW l \in Thread!Lines
  PROVE  Thread!Said(l) \in Thread!Turns /\ Thread!Said(l).msg = l.msg
BY DEF Thread!Said, Thread!Turns, Thread!Lines

\* The brief with the lines of the turns that leave the window.
Moved(b, x) == b \o Thread!Summaries(Thread!Overflow(x))

LEMMA MovedShape ==
  ASSUME Thread!ThreadAssumption, NEW x \in Seq(Thread!Turns), NEW b \in Seq(Thread!Lines)
  PROVE  /\ Moved(b, x) \in Seq(Thread!Lines)
         /\ Len(Moved(b, x)) = Len(b) + Leaving(x) /\ Leaving(x) \in 0..Len(x)
         /\ \A i \in 1..Len(b) : Moved(b, x)[i] = b[i]
         /\ \A i \in 1..Leaving(x) : Moved(b, x)[Len(b) + i] = Thread!Summary(x[i])
<1> DEFINE o == Thread!Overflow(x)
           t == Thread!Summaries(o)
<1>1. /\ o \in Seq(Thread!Turns) /\ Leaving(x) \in 0..Len(x) /\ Len(o) = Leaving(x)
      /\ \A i \in 1..Len(o) : o[i] = x[i]
  BY WindowShape
<1>2. t = [i \in 1..Len(o) |-> Thread!Summary(o[i])]
  BY <1>1 DEF Thread!Summaries
<1>3. ASSUME NEW i \in 1..Len(o)
      PROVE  Thread!Summary(o[i]) \in Thread!Lines
  BY <1>1, SummaryTyped
<1> HIDE DEF o, t
<1>4. t \in Seq(Thread!Lines) /\ Len(t) = Len(o) /\ \A i \in 1..Len(o) : t[i] = Thread!Summary(o[i])
  BY <1>1, <1>2, <1>3
<1>5. Moved(b, x) = b \o t
  BY DEF Moved, o, t
<1>6. /\ b \o t \in Seq(Thread!Lines) /\ Len(b \o t) = Len(b) + Len(t)
      /\ \A i \in 1..Len(b) : (b \o t)[i] = b[i]
      /\ \A i \in 1..Len(t) : (b \o t)[Len(b) + i] = t[i]
  <2>1. /\ b \o t \in Seq(Thread!Lines)
        /\ Len(b \o t) = Len(b) + Len(t)
    <3>1. t \in Seq(Thread!Lines)
      BY <1>4
    <3>2. b \o t \in Seq(Thread!Lines)
      BY <3>1
    <3>3. Len(b \o t) = Len(b) + Len(t)
      BY <3>1
    <3> QED
      BY <3>2, <3>3
  <2>2. ASSUME NEW i \in 1..Len(b)
        PROVE  (b \o t)[i] = b[i]
    BY <1>4
  <2>3. ASSUME NEW i \in 1..Len(t)
        PROVE  (b \o t)[Len(b) + i] = t[i]
    BY <1>4
  <2> QED
    BY <2>1, <2>2, <2>3
<1>7. Len(t) = Leaving(x) /\ \A i \in 1..Leaving(x) : t[i] = Thread!Summary(x[i])
  BY <1>1, <1>4
<1> QED
  BY <1>1, <1>5, <1>6, <1>7

LEMMA LatestShape ==
  ASSUME Thread!ThreadAssumption, NEW b \in Seq(Thread!Lines), NEW n \in 1..MaxServed
  PROVE  LET l == Thread!WithLatest(b, n) IN
         /\ l \in Seq(Thread!Lines) /\ Len(l) \in {Len(b), Len(b) + 1}
         /\ \A i \in 1..Len(l) :
               l[i] = [role |-> "assistant", msg |-> n, latest |-> TRUE] \/ (i <= Len(b) /\ l[i] = b[i])
<1> DEFINE line == [role |-> "assistant", msg |-> n, latest |-> TRUE]
           earlier == {i \in DOMAIN b : b[i].latest}
           e == CHOOSE i \in earlier : \A j \in earlier : i <= j
<1>1. line \in Thread!Lines
  BY DEF Thread!Lines
<1>2. Thread!WithLatest(b, n) = IF earlier = {} THEN Append(b, line) ELSE [b EXCEPT ![e] = line]
  BY DEF Thread!WithLatest
<1> HIDE DEF line, earlier, e
<1>3. CASE earlier = {}
  BY <1>1, <1>2, <1>3 DEF line
<1>4. CASE earlier # {}
  <2> DEFINE l == [b EXCEPT ![e] = line]
  <2>0. b \in [1..Len(b) -> Thread!Lines] /\ Len(b) \in Nat
    OBVIOUS
  <2>1. l \in [1..Len(b) -> Thread!Lines] /\ \A i \in 1..Len(b) : l[i] = line \/ l[i] = b[i]
    BY <1>1, <2>0
  <2>2. l \in Seq(Thread!Lines) /\ Len(l) = Len(b)
    BY <2>0, <2>1
  <2> HIDE DEF l
  <2> QED
    BY <1>2, <1>4, <2>1, <2>2 DEF line, l
<1> QED
  BY <1>3, <1>4

-----------------------------------------------------------------------------
(* Each turn is there once.                                                 *)

Msgs(turns, lines, n) ==
    /\ \A i \in DOMAIN turns : turns[i].msg <= n
    /\ \A i \in DOMAIN lines : lines[i].msg <= n

LEMMA MsgTyped ==
  /\ \A t \in Thread!Turns : t.msg \in 1..MaxServed
  /\ \A l \in Thread!Lines : l.msg \in 1..MaxServed /\ l.latest \in BOOLEAN
BY DEF Thread!Turns, Thread!Lines

LEMMA InRange ==
  ASSUME NEW S, NEW s \in Seq(S), NEW v
  PROVE  v \in Thread!Range(s) <=> \E i \in 1..Len(s) : v = s[i]
BY DEF Thread!Range

LEMMA OnceExchange ==
  ASSUME NEW s \in Seq(Thread!Turns), NEW b \in Seq(Thread!Lines), NEW n \in 1..MaxServed,
         MaxServed \in Nat, Thread!Once(s, b), Msgs(s, b, n - 1)
  PROVE  Thread!Once(Thread!WithExchange(s, n), b)
<1> DEFINE x == Thread!WithExchange(s, n)
<1>0. IsExchange(x, s, n)
  BY ExchangeShape
<1>1. /\ x \in Seq(Thread!Turns \cup Exchange(n)) /\ Len(x) = Len(s) + 2
      /\ \A i \in 1..Len(s) : x[i] = s[i]
      /\ x[Len(s) + 1] = [role |-> "user", msg |-> n]
      /\ x[Len(s) + 2] = [role |-> "assistant", msg |-> n]
  BY <1>0, Zenon DEF IsExchange
<1> HIDE DEF x
<1>2. \A i \in 1..Len(s) : s[i] \in Thread!Turns /\ s[i].msg \in Nat /\ s[i].msg < n
  <2> SUFFICES ASSUME NEW i \in 1..Len(s)
               PROVE  s[i] \in Thread!Turns /\ s[i].msg \in Nat /\ s[i].msg < n
    OBVIOUS
  <2>1. s[i] \in Thread!Turns /\ i \in DOMAIN s
    OBVIOUS
  <2>2. s[i].msg \in 1..MaxServed /\ s[i].msg <= n - 1
    BY <2>1, MsgTyped DEF Msgs
  <2> QED
    BY <2>1, <2>2
<1>3. ASSUME NEW i \in 1..Len(x), NEW j \in 1..Len(x), x[i] = x[j]
      PROVE  i = j
  <2>1. i \in 1..Len(s) /\ j \in 1..Len(s) => i = j
    BY <1>1, <1>3 DEF Thread!Once, Thread!IsInjective
  <2>2. ASSUME NEW k \in 1..Len(s)
        PROVE  x[k].msg # n
    <3>1. x[k] = s[k]
      BY <1>1
    <3> QED
      BY <1>2, <3>1
  <2>3. x[Len(s) + 1].msg = n /\ x[Len(s) + 2].msg = n /\ x[Len(s) + 1].role # x[Len(s) + 2].role
    BY <1>1
  <2>4. i \in 1..Len(s) \/ i = Len(s) + 1 \/ i = Len(s) + 2
    BY <1>1
  <2>5. j \in 1..Len(s) \/ j = Len(s) + 1 \/ j = Len(s) + 2
    BY <1>1
  <2> QED
    BY <1>3, <2>1, <2>2, <2>3, <2>4, <2>5
<1>4. ASSUME NEW i \in Thread!Summarised(b)
      PROVE  Thread!Said(b[i]) \notin Thread!Range(x)
  <2>0. i \in DOMAIN b /\ i \in 1..Len(b) /\ b[i] \in Thread!Lines
    BY DEF Thread!Summarised
  <2>1. b[i].msg \in 1..MaxServed /\ b[i].msg <= n - 1
    BY <2>0, MsgTyped DEF Msgs
  <2>2. /\ Thread!Said(b[i]).msg \in Nat /\ Thread!Said(b[i]).msg < n
        /\ Thread!Said(b[i]) \notin Thread!Range(s)
    BY <2>0, <2>1, SaidTyped DEF Thread!Once
  <2>3. \A j \in 1..Len(s) : Thread!Said(b[i]) # x[j]
    BY <2>2, <1>1, InRange
  <2>4. x[Len(s) + 1].msg = n /\ x[Len(s) + 2].msg = n
    BY <1>1
  <2>5. Thread!Said(b[i]) # x[Len(s) + 1] /\ Thread!Said(b[i]) # x[Len(s) + 2]
    BY <2>1, <2>2, <2>4
  <2>6. \A j \in 1..Len(x) : j \in 1..Len(s) \/ j = Len(s) + 1 \/ j = Len(s) + 2
    BY <1>1
  <2>7. \A j \in 1..Len(x) : Thread!Said(b[i]) # x[j]
    BY <2>3, <2>5, <2>6
  <2> QED
    BY <1>1, <2>7, InRange
<1>5. DOMAIN x = 1..Len(x)
  BY <1>1
<1> QED
  BY <1>3, <1>4, <1>5 DEF Thread!Once, Thread!IsInjective, x

LEMMA OnceMoved ==
  ASSUME Thread!ThreadAssumption, NEW x \in Seq(Thread!Turns), NEW b \in Seq(Thread!Lines),
         Thread!Once(x, b)
  PROVE  Thread!Once(Thread!Window(x), Moved(b, x)) /\ Thread!Once(Thread!Window(x), b)
<1> DEFINE w == Thread!Window(x)
           c == Moved(b, x)
           k == Leaving(x)
<1>1. /\ w \in Seq(Thread!Turns) /\ Len(w) = Len(x) - k /\ k \in 0..Len(x)
      /\ \A i \in 1..Len(w) : w[i] = x[i + k]
  BY WindowShape
<1>2. /\ c \in Seq(Thread!Lines) /\ Len(c) = Len(b) + k
      /\ \A i \in 1..Len(b) : c[i] = b[i]
      /\ \A i \in 1..k : c[Len(b) + i] = Thread!Summary(x[i])
  BY MovedShape
<1> HIDE DEF w, c, k
<1>3. \A i \in 1..k : Thread!Said(c[Len(b) + i]) = x[i]
  <2> SUFFICES ASSUME NEW i \in 1..k PROVE Thread!Said(c[Len(b) + i]) = x[i]
    OBVIOUS
  <2>1. x[i] \in [role : {"user", "assistant"}, msg : Nat]
    <3>1. x[i] \in Thread!Turns
      BY <1>1
    <3>2. Thread!Turns \subseteq [role : {"user", "assistant"}, msg : Nat]
      BY DEF Thread!Turns, Thread!ThreadAssumption
    <3> QED
      BY <3>1, <3>2
  <2> QED
    BY <1>2, <2>1, SaidSummary
<1>4. \A i, j \in 1..Len(x) : x[i] = x[j] => i = j
  BY DEF Thread!Once, Thread!IsInjective
<1>5. ASSUME NEW i \in Thread!Summarised(c)
      PROVE  \/ i \in Thread!Summarised(b) /\ c[i] = b[i]
             \/ \E j \in 1..k : i = Len(b) + j /\ Thread!Said(c[i]) = x[j]
  <2>1. i \in 1..Len(c) /\ ~c[i].latest
    BY <1>2 DEF Thread!Summarised
  <2>2. CASE i \in 1..Len(b)
    BY <1>2, <2>1, <2>2 DEF Thread!Summarised
  <2>3. CASE i \notin 1..Len(b)
    <3>1. i - Len(b) \in 1..k /\ i = Len(b) + (i - Len(b))
      BY <1>1, <1>2, <2>1, <2>3
    <3> QED
      BY <1>3, <3>1
  <2> QED
    BY <2>2, <2>3
<1>6. \A i, j \in DOMAIN w : w[i] = w[j] => i = j
  <2> SUFFICES ASSUME NEW i \in DOMAIN w, NEW j \in DOMAIN w, w[i] = w[j] PROVE i = j
    OBVIOUS
  <2>1. /\ i \in 1..Len(w) /\ j \in 1..Len(w)
        /\ i + k \in 1..Len(x) /\ j + k \in 1..Len(x) /\ x[i + k] = x[j + k]
    <3>1. DOMAIN w = 1..Len(w) /\ Len(w) \in Nat /\ Len(x) \in Nat
      BY <1>1
    <3>2. i \in 1..Len(w) /\ j \in 1..Len(w)
      BY <3>1
    <3>3. w[i] = x[i + k] /\ w[j] = x[j + k]
      BY <1>1, <3>2
    <3>4. Len(w) = Len(x) - k /\ k \in 0..Len(x)
      BY <1>1
    <3>5. i + k \in 1..Len(x) /\ j + k \in 1..Len(x)
      BY <3>1, <3>2, <3>4
    <3> QED
      BY <3>2, <3>3, <3>5
  <2> DEFINE p == i + k
             q == j + k
  <2>2. p = q
    <3>1. p \in 1..Len(x) /\ q \in 1..Len(x) /\ x[p] = x[q]
      BY <2>1
    <3> HIDE DEF p, q
    <3> QED
      BY <1>4, <3>1, ZenonT(30)
  <2> QED
    BY <1>1, <2>1, <2>2
<1>7. Thread!Range(w) \subseteq Thread!Range(x)
  <2>1. \A i \in 1..Len(w) : i + k \in 1..Len(x)
    BY <1>1
  <2> QED
    BY <1>1, <2>1, InRange
<1>8. \A j \in 1..k : x[j] \notin Thread!Range(w) /\ x[j] \in Thread!Range(x)
  <2> SUFFICES ASSUME NEW j \in 1..k PROVE x[j] \notin Thread!Range(w) /\ x[j] \in Thread!Range(x)
    OBVIOUS
  <2>1. \A i \in 1..Len(w) : i + k \in 1..Len(x) /\ j \in 1..Len(x) /\ i + k # j
    BY <1>1
  <2>2. \A i \in 1..Len(w) : w[i] # x[j]
    BY <1>1, <1>4, <2>1
  <2> QED
    <3>1. x[j] \notin Thread!Range(w)
      BY <1>1, <2>2, InRange
    <3>2. j \in 1..Len(x)
      BY <1>1
    <3>3. x[j] \in Thread!Range(x)
      BY <3>2, InRange
    <3> QED
      BY <3>1, <3>3
<1>9. ASSUME NEW i \in Thread!Summarised(c)
      PROVE  /\ Thread!Said(c[i]) \notin Thread!Range(w)
             /\ \A j \in Thread!Summarised(c) : Thread!Said(c[j]) = Thread!Said(c[i]) => j = i
  <2>1. Thread!Said(c[i]) \notin Thread!Range(w)
    BY <1>5, <1>7, <1>8 DEF Thread!Once
  <2>2. ASSUME NEW j \in Thread!Summarised(c), Thread!Said(c[j]) = Thread!Said(c[i])
        PROVE  j = i
    <3>1. CASE (i \in Thread!Summarised(b) /\ c[i] = b[i]) /\ (j \in Thread!Summarised(b) /\ c[j] = b[j])
      BY <2>2, <3>1 DEF Thread!Once
    <3>2. CASE i \in Thread!Summarised(b) /\ c[i] = b[i]
               /\ \E m \in 1..k : j = Len(b) + m /\ Thread!Said(c[j]) = x[m]
      BY <2>2, <3>2, <1>8 DEF Thread!Once
    <3>3. CASE j \in Thread!Summarised(b) /\ c[j] = b[j]
               /\ \E m \in 1..k : i = Len(b) + m /\ Thread!Said(c[i]) = x[m]
      BY <2>2, <3>3, <1>8 DEF Thread!Once
    <3>4. CASE /\ \E m \in 1..k : i = Len(b) + m /\ Thread!Said(c[i]) = x[m]
               /\ \E m \in 1..k : j = Len(b) + m /\ Thread!Said(c[j]) = x[m]
      <4>1. PICK m \in 1..k : i = Len(b) + m /\ Thread!Said(c[i]) = x[m]
        BY <3>4
      <4>2. PICK o \in 1..k : j = Len(b) + o /\ Thread!Said(c[j]) = x[o]
        BY <3>4
      <4>3. m \in 1..Len(x) /\ o \in 1..Len(x) /\ x[m] = x[o]
        BY <2>2, <4>1, <4>2, <1>1
      <4> QED
        BY <1>4, <4>1, <4>2, <4>3
    <3> QED
      BY <1>5, <3>1, <3>2, <3>3, <3>4
  <2> QED
    BY <2>1, <2>2
<1>10. Thread!Once(w, c)
  BY <1>6, <1>9 DEF Thread!Once, Thread!IsInjective
<1>11. Thread!Once(w, b)
  BY <1>6, <1>7 DEF Thread!Once, Thread!IsInjective
<1> QED
  BY <1>10, <1>11 DEF w, c

LEMMA OnceLatest ==
  ASSUME Thread!ThreadAssumption, NEW t, NEW b \in Seq(Thread!Lines), NEW n \in 1..MaxServed,
         Thread!Once(t, b)
  PROVE  Thread!Once(t, Thread!WithLatest(b, n))
<1> DEFINE l == Thread!WithLatest(b, n)
           line == [role |-> "assistant", msg |-> n, latest |-> TRUE]
<1>1. /\ l \in Seq(Thread!Lines)
      /\ \A i \in 1..Len(l) : l[i] = line \/ (i <= Len(b) /\ l[i] = b[i])
  BY LatestShape
<1>2. line.latest
  OBVIOUS
<1> HIDE DEF l, line
<1>3. ASSUME NEW i \in Thread!Summarised(l)
      PROVE  i \in Thread!Summarised(b) /\ l[i] = b[i]
  <2>1. i \in 1..Len(l) /\ ~l[i].latest
    BY <1>1 DEF Thread!Summarised
  <2>2. i <= Len(b) /\ l[i] = b[i]
    BY <1>1, <1>2, <2>1
  <2> QED
    BY <2>1, <2>2 DEF Thread!Summarised
<1> QED
  BY <1>3 DEF Thread!Once, l

LEMMA TrimmedShape ==
  ASSUME briefMax \in Nat, NEW b \in Seq(Thread!Lines)
  PROVE  /\ Thread!Trimmed(b) \in Seq(Thread!Lines) /\ IsTail(Thread!Trimmed(b), b)
         /\ (briefMax = 0 => Thread!Trimmed(b) = b)
<1>1. CASE briefMax = 0
  <2>1. Thread!Trimmed(b) = b /\ Len(b) \in Nat
    BY <1>1 DEF Thread!Trimmed
  <2>2. Len(b) + 0 = Len(b) /\ \A i \in 1..Len(b) : b[i] = b[i + 0]
    BY <2>1
  <2> QED
    BY <2>1, <2>2 DEF IsTail
<1>2. CASE briefMax # 0
  BY <1>2, NewestShape DEF Thread!Trimmed
<1> QED
  BY <1>1, <1>2

LEMMA OnceTrimmed ==
  ASSUME briefMax \in Nat, NEW t, NEW b \in Seq(Thread!Lines), Thread!Once(t, b)
  PROVE  Thread!Once(t, Thread!Trimmed(b))
<1> DEFINE l == Thread!Trimmed(b)
<1>1. PICK k \in Nat : Len(l) + k = Len(b) /\ \A i \in 1..Len(l) : l[i] = b[i + k]
  BY TrimmedShape DEF IsTail
<1>2. l \in Seq(Thread!Lines)
  BY TrimmedShape
<1> HIDE DEF l
<1>3. ASSUME NEW i \in Thread!Summarised(l)
      PROVE  i \in Nat /\ i + k \in Thread!Summarised(b) /\ l[i] = b[i + k]
  <2>1. i \in 1..Len(l) /\ ~l[i].latest
    BY <1>2 DEF Thread!Summarised
  <2>2. i \in Nat /\ i + k \in 1..Len(b) /\ l[i] = b[i + k]
    BY <1>1, <1>2, <2>1
  <2> QED
    BY <2>1, <2>2 DEF Thread!Summarised
<1>4. ASSUME NEW i \in Thread!Summarised(l), NEW j \in Thread!Summarised(l),
             Thread!Said(l[j]) = Thread!Said(l[i])
      PROVE  j = i
  <2>1. i + k = j + k
    BY <1>3, <1>4 DEF Thread!Once
  <2> QED
    BY <1>3, <2>1
<1> QED
  BY <1>3, <1>4 DEF Thread!Once, l

LEMMA ExchangeTyped ==
  ASSUME NEW s \in Seq(Thread!Turns), NEW n \in 1..MaxServed
  PROVE  Thread!WithExchange(s, n) \in Seq(Thread!Turns)
<1>1. /\ [role |-> "user", msg |-> n] \in Thread!Turns
      /\ [role |-> "assistant", msg |-> n] \in Thread!Turns
  BY DEF Thread!Turns
<1>2. Thread!Turns \cup Exchange(n) = Thread!Turns
  BY <1>1, Zenon DEF Exchange
<1>3. IsExchange(Thread!WithExchange(s, n), s, n)
  BY ExchangeShape
<1> QED
  BY <1>2, <1>3, Zenon DEF IsExchange

LEMMA MsgsExchange ==
  ASSUME NEW s \in Seq(Thread!Turns), NEW b \in Seq(Thread!Lines), NEW n \in 1..MaxServed,
         MaxServed \in Nat, Msgs(s, b, n - 1)
  PROVE  Msgs(Thread!WithExchange(s, n), b, n)
<1> DEFINE x == Thread!WithExchange(s, n)
<1>0. IsExchange(x, s, n)
  BY ExchangeShape
<1>1. /\ x \in Seq(Thread!Turns \cup Exchange(n)) /\ Len(x) = Len(s) + 2
      /\ \A i \in 1..Len(s) : x[i] = s[i]
      /\ x[Len(s) + 1] = [role |-> "user", msg |-> n]
      /\ x[Len(s) + 2] = [role |-> "assistant", msg |-> n]
  BY <1>0, Zenon DEF IsExchange
<1> HIDE DEF x
<1>3. ASSUME NEW i \in 1..Len(x)
      PROVE  x[i].msg <= n
  <2>1. CASE i \in 1..Len(s)
    <3>1. x[i] = s[i] /\ s[i] \in Thread!Turns /\ i \in DOMAIN s
      BY <1>1, <2>1
    <3>2. s[i].msg \in 1..MaxServed /\ s[i].msg <= n - 1
      BY <3>1, MsgTyped DEF Msgs
    <3> QED
      BY <3>1, <3>2
  <2>2. CASE i = Len(s) + 1
    BY <1>1, <2>2
  <2>3. CASE i = Len(s) + 2
    BY <1>1, <2>3
  <2> QED
    BY <1>1, <2>1, <2>2, <2>3
<1>4. ASSUME NEW i \in DOMAIN b
      PROVE  b[i].msg <= n
  <2>1. b[i] \in Thread!Lines
    OBVIOUS
  <2>2. b[i].msg \in 1..MaxServed /\ b[i].msg <= n - 1
    BY <2>1, MsgTyped DEF Msgs
  <2> QED
    BY <2>2
<1>5. DOMAIN x = 1..Len(x)
  BY <1>1
<1>6. Msgs(x, b, n)
  BY <1>3, <1>4, <1>5 DEF Msgs
<1> QED
  BY <1>6 DEF x

LEMMA MsgsMoved ==
  ASSUME Thread!ThreadAssumption, NEW x \in Seq(Thread!Turns), NEW b \in Seq(Thread!Lines),
         NEW n, Msgs(x, b, n)
  PROVE  Msgs(Thread!Window(x), Moved(b, x), n) /\ Msgs(Thread!Window(x), b, n)
<1> DEFINE w == Thread!Window(x)
           c == Moved(b, x)
           k == Leaving(x)
<1>1. /\ w \in Seq(Thread!Turns) /\ Len(w) = Len(x) - k /\ k \in 0..Len(x)
      /\ \A i \in 1..Len(w) : w[i] = x[i + k]
  BY WindowShape
<1>2. /\ c \in Seq(Thread!Lines) /\ Len(c) = Len(b) + k
      /\ \A i \in 1..Len(b) : c[i] = b[i]
      /\ \A i \in 1..k : c[Len(b) + i] = Thread!Summary(x[i])
  BY MovedShape
<1> HIDE DEF w, c, k
<1>3. ASSUME NEW i \in 1..Len(w)
      PROVE  w[i].msg <= n
  <2>1. i + k \in DOMAIN x /\ w[i] = x[i + k]
    BY <1>1
  <2> QED
    BY <2>1 DEF Msgs
<1>4. ASSUME NEW i \in 1..Len(c)
      PROVE  c[i].msg <= n
  <2>1. CASE i \in 1..Len(b)
    BY <1>2, <2>1 DEF Msgs
  <2>2. CASE i \notin 1..Len(b)
    <3>1. i - Len(b) \in 1..k /\ i = Len(b) + (i - Len(b)) /\ i - Len(b) \in DOMAIN x
      BY <1>1, <1>2, <2>2
    <3>2. c[i] = Thread!Summary(x[i - Len(b)])
      BY <1>2, <3>1
    <3>3. c[i].msg = x[i - Len(b)].msg
      BY <3>2 DEF Thread!Summary
    <3> QED
      BY <3>1, <3>3 DEF Msgs
  <2> QED
    BY <2>1, <2>2
<1>5. DOMAIN w = 1..Len(w) /\ DOMAIN c = 1..Len(c)
  BY <1>1, <1>2
<1>6. Msgs(w, c, n)
  BY <1>3, <1>4, <1>5 DEF Msgs
<1>7. Msgs(w, b, n)
  BY <1>3, <1>5 DEF Msgs
<1> QED
  BY <1>6, <1>7 DEF w, c

LEMMA MsgsTrimmed ==
  ASSUME Thread!ThreadAssumption, briefMax \in Nat, NEW t, NEW b \in Seq(Thread!Lines),
         NEW n \in 1..MaxServed, Msgs(t, b, n)
  PROVE  Msgs(t, Thread!Trimmed(Thread!WithLatest(b, n)), n)
<1> DEFINE l == Thread!WithLatest(b, n)
           m == Thread!Trimmed(l)
           line == [role |-> "assistant", msg |-> n, latest |-> TRUE]
<1>1. /\ l \in Seq(Thread!Lines)
      /\ \A i \in 1..Len(l) : l[i] = line \/ (i <= Len(b) /\ l[i] = b[i])
  BY LatestShape
<1>2. line.msg = n /\ n <= n
  BY DEF Thread!ThreadAssumption
<1>3. PICK k \in Nat : Len(m) + k = Len(l) /\ \A i \in 1..Len(m) : m[i] = l[i + k]
  BY <1>1, TrimmedShape DEF IsTail
<1>4. m \in Seq(Thread!Lines)
  BY <1>1, TrimmedShape
<1> HIDE DEF l, m, line
<1>5. ASSUME NEW i \in DOMAIN m
      PROVE  m[i].msg <= n
  <2>0. i \in 1..Len(m)
    BY <1>4
  <2>1. i + k \in 1..Len(l) /\ m[i] = l[i + k]
    BY <2>0, <1>3, <1>4
  <2>2. CASE l[i + k] = line
    BY <1>2, <2>1, <2>2
  <2>3. CASE i + k <= Len(b) /\ l[i + k] = b[i + k]
    <3>1. i + k \in DOMAIN b
      BY <2>1, <2>3
    <3> QED
      BY <2>1, <2>3, <3>1 DEF Msgs
  <2> QED
    BY <1>1, <2>1, <2>2, <2>3
<1> QED
  BY <1>5 DEF Msgs, m, l

-----------------------------------------------------------------------------
(* No turn is forgotten, and one line is of the latest exchange.            *)

LEMMA InPast ==
  ASSUME NEW t \in Seq(Thread!Turns), NEW b \in Seq(Thread!Lines), NEW v
  PROVE  v \in Thread!Past(t, b) <=>
            \/ \E i \in 1..Len(t) : v = t[i]
            \/ \E i \in 1..Len(b) : ~b[i].latest /\ v = Thread!Said(b[i])
BY InRange DEF Thread!Past, Thread!Summarised

LEMMA PastExchange ==
  ASSUME NEW s \in Seq(Thread!Turns), NEW b \in Seq(Thread!Lines), NEW n \in 1..MaxServed,
         MaxServed \in Nat, Msgs(s, b, n - 1)
  PROVE  Thread!Past(Thread!WithExchange(s, n), b) = Thread!Past(s, b) \cup Exchange(n)
<1> DEFINE x == Thread!WithExchange(s, n)
<1>0. IsExchange(x, s, n) /\ x \in Seq(Thread!Turns)
  BY ExchangeShape, ExchangeTyped
<1>1. /\ Len(x) = Len(s) + 2 /\ \A i \in 1..Len(s) : x[i] = s[i]
      /\ x[Len(s) + 1] = [role |-> "user", msg |-> n]
      /\ x[Len(s) + 2] = [role |-> "assistant", msg |-> n]
  BY <1>0, Zenon DEF IsExchange
<1>2. Exchange(n) = {x[Len(s) + 1], x[Len(s) + 2]}
  BY <1>1, Zenon DEF Exchange
<1> HIDE DEF x
<1>3. \A i \in 1..Len(x) : i \in 1..Len(s) \/ i = Len(s) + 1 \/ i = Len(s) + 2
  BY <1>1
<1>4. 1..Len(s) \subseteq 1..Len(x) /\ Len(s) + 1 \in 1..Len(x) /\ Len(s) + 2 \in 1..Len(x)
  BY <1>1
<1>5. ASSUME NEW v
      PROVE  (\E i \in 1..Len(x) : v = x[i]) <=> (\E i \in 1..Len(s) : v = s[i]) \/ v \in Exchange(n)
  <2>1. ASSUME NEW i \in 1..Len(x), v = x[i]
        PROVE  (\E j \in 1..Len(s) : v = s[j]) \/ v \in Exchange(n)
    <3>1. \A j \in 1..Len(s) : x[j] = s[j]
      BY <1>1
    <3> QED
      BY <2>1, <3>1, <1>2, <1>3, Zenon
  <2>2. ASSUME NEW i \in 1..Len(s), v = s[i]
        PROVE  \E j \in 1..Len(x) : v = x[j]
    <3>1. x[i] = s[i]
      BY <1>1
    <3> QED
      BY <2>2, <3>1, <1>4, Zenon
  <2>3. ASSUME v \in Exchange(n)
        PROVE  \E j \in 1..Len(x) : v = x[j]
    BY <2>3, <1>2, <1>4, Zenon
  <2> QED
    BY <2>1, <2>2, <2>3, Zenon
<1>6. ASSUME NEW v
      PROVE  v \in Thread!Past(x, b) <=> v \in Thread!Past(s, b) \/ v \in Exchange(n)
  <2>1. v \in Thread!Past(x, b) <=>
            \/ \E i \in 1..Len(x) : v = x[i]
            \/ \E i \in 1..Len(b) : ~b[i].latest /\ v = Thread!Said(b[i])
    BY <1>0, InPast
  <2>2. v \in Thread!Past(s, b) <=>
            \/ \E i \in 1..Len(s) : v = s[i]
            \/ \E i \in 1..Len(b) : ~b[i].latest /\ v = Thread!Said(b[i])
    BY InPast
  <2> QED
    BY <1>5, <2>1, <2>2, Zenon
<1> QED
  BY <1>6, Zenon DEF x

LEMMA PastMoved ==
  ASSUME Thread!ThreadAssumption, NEW x \in Seq(Thread!Turns), NEW b \in Seq(Thread!Lines)
  PROVE  Thread!Past(Thread!Window(x), Moved(b, x)) = Thread!Past(x, b)
<1> DEFINE w == Thread!Window(x)
           c == Moved(b, x)
           k == Leaving(x)
<1>1. /\ w \in Seq(Thread!Turns) /\ Len(w) = Len(x) - k /\ k \in 0..Len(x)
      /\ \A i \in 1..Len(w) : w[i] = x[i + k]
  BY WindowShape
<1>2. /\ c \in Seq(Thread!Lines) /\ Len(c) = Len(b) + k
      /\ \A i \in 1..Len(b) : c[i] = b[i]
      /\ \A i \in 1..k : c[Len(b) + i] = Thread!Summary(x[i])
  BY MovedShape
<1> HIDE DEF w, c, k
<1>3. ASSUME NEW i \in 1..k
      PROVE  ~c[Len(b) + i].latest /\ Thread!Said(c[Len(b) + i]) = x[i]
  <2>1. x[i] \in Thread!Turns
    BY <1>1
  <2>2. Thread!Turns \subseteq [role : {"user", "assistant"}, msg : Nat]
    BY DEF Thread!Turns, Thread!ThreadAssumption
  <2>3. c[Len(b) + i] = Thread!Summary(x[i])
    BY <1>2
  <2> QED
    BY <2>1, <2>2, <2>3, SaidSummary
<1>4. ASSUME NEW v, v \in Thread!Past(w, c)
      PROVE  v \in Thread!Past(x, b)
  <2>1. CASE \E i \in 1..Len(w) : v = w[i]
    <3>1. PICK i \in 1..Len(w) : v = w[i]
      BY <2>1
    <3>2. i + k \in 1..Len(x) /\ v = x[i + k]
      BY <1>1, <3>1
    <3> QED
      BY <3>2, InPast
  <2>2. CASE \E i \in 1..Len(c) : ~c[i].latest /\ v = Thread!Said(c[i])
    <3>1. PICK i \in 1..Len(c) : ~c[i].latest /\ v = Thread!Said(c[i])
      BY <2>2
    <3>2. CASE i \in 1..Len(b)
      <4>1. c[i] = b[i]
        BY <1>2, <3>2
      <4> QED
        BY <3>1, <3>2, <4>1, InPast
    <3>3. CASE i \notin 1..Len(b)
      <4>1. PICK j \in 1..k : i = Len(b) + j /\ j \in 1..Len(x)
        <5>1. i - Len(b) \in 1..k /\ i = Len(b) + (i - Len(b)) /\ i - Len(b) \in 1..Len(x)
          BY <1>1, <1>2, <3>3
        <5> QED
          BY <5>1
      <4>2. v = x[j]
        BY <1>3, <3>1, <4>1
      <4> QED
        BY <4>1, <4>2, InPast
    <3> QED
      BY <3>2, <3>3
  <2>3. v \in Thread!Past(w, c) <=>
            \/ \E i \in 1..Len(w) : v = w[i]
            \/ \E i \in 1..Len(c) : ~c[i].latest /\ v = Thread!Said(c[i])
    <3>1. w \in Seq(Thread!Turns) /\ c \in Seq(Thread!Lines)
      BY <1>1, <1>2
    <3> QED
      BY <3>1, InPast
  <2> QED
    BY <1>4, <2>1, <2>2, <2>3, Zenon
<1>5. ASSUME NEW v, v \in Thread!Past(x, b)
      PROVE  v \in Thread!Past(w, c)
  <2>1. ASSUME NEW i \in 1..Len(x), v = x[i]
        PROVE  v \in Thread!Past(w, c)
    <3>1. CASE i \in 1..k
      <4>1. Len(b) + i \in 1..Len(c)
        BY <1>1, <1>2, <3>1
      <4>2. ~c[Len(b) + i].latest /\ v = Thread!Said(c[Len(b) + i])
        BY <1>3, <2>1, <3>1
      <4> QED
        BY <1>1, <1>2, <4>1, <4>2, InPast
    <3>2. CASE i \notin 1..k
      <4>1. i - k \in 1..Len(w) /\ i = (i - k) + k
        BY <1>1, <3>2
      <4>2. w[i - k] = x[i]
        BY <1>1, <4>1
      <4> QED
        BY <1>1, <1>2, <2>1, <4>1, <4>2, InPast
    <3> QED
      BY <3>1, <3>2
  <2>2. ASSUME NEW i \in 1..Len(b), ~b[i].latest, v = Thread!Said(b[i])
        PROVE  v \in Thread!Past(w, c)
    <3>1. c[i] = b[i] /\ i \in 1..Len(c)
      BY <1>1, <1>2
    <3> QED
      BY <1>1, <1>2, <2>2, <3>1, InPast
  <2> QED
    BY <1>5, <2>1, <2>2, InPast
<1> QED
  BY <1>4, <1>5, Zenon DEF w, c

\* One line is of the latest exchange, the n-th; before the first there is none.
OneLatest(b, n) ==
    IF n = 0 THEN \A i \in DOMAIN b : ~b[i].latest
    ELSE \E i \in DOMAIN b : {j \in DOMAIN b : b[j].latest} = {i} /\ b[i].msg = n

LEMMA LatestMoved ==
  ASSUME Thread!ThreadAssumption, NEW x \in Seq(Thread!Turns), NEW b \in Seq(Thread!Lines),
         NEW n, OneLatest(b, n)
  PROVE  OneLatest(Moved(b, x), n)
<1> DEFINE c == Moved(b, x)
           k == Leaving(x)
<1>1. /\ c \in Seq(Thread!Lines) /\ Len(c) = Len(b) + k /\ k \in 0..Len(x)
      /\ \A i \in 1..Len(b) : c[i] = b[i]
      /\ \A i \in 1..k : c[Len(b) + i] = Thread!Summary(x[i])
  BY MovedShape
<1> HIDE DEF c, k
<1>2. ASSUME NEW i \in DOMAIN c
      PROVE  \/ i \in DOMAIN b /\ c[i] = b[i]
             \/ i \notin DOMAIN b /\ ~c[i].latest
  <2>1. i \in 1..Len(c) /\ DOMAIN b = 1..Len(b)
    BY <1>1
  <2>2. CASE i \in 1..Len(b)
    BY <1>1, <2>1, <2>2
  <2>3. CASE i \notin 1..Len(b)
    <3>1. i - Len(b) \in 1..k /\ i = Len(b) + (i - Len(b))
      BY <1>1, <2>1, <2>3
    <3>2. c[i] = Thread!Summary(x[i - Len(b)])
      BY <1>1, <3>1
    <3>3. c[i].latest = FALSE
      BY <3>2 DEF Thread!Summary
    <3> QED
      BY <2>1, <2>3, <3>3
  <2> QED
    BY <2>2, <2>3
<1>3. DOMAIN b \subseteq DOMAIN c
  BY <1>1
<1>4. {j \in DOMAIN c : c[j].latest} = {j \in DOMAIN b : b[j].latest}
  BY <1>2, <1>3, Zenon
<1>5. CASE n = 0
  BY <1>2, <1>5, Zenon DEF OneLatest, c
<1>6. CASE n # 0
  <2>1. PICK i \in DOMAIN b : {j \in DOMAIN b : b[j].latest} = {i} /\ b[i].msg = n
    BY <1>6 DEF OneLatest
  <2>2. i \in DOMAIN c /\ c[i] = b[i]
    BY <1>2, <1>3
  <2>3. {j \in DOMAIN c : c[j].latest} = {i} /\ c[i].msg = n
    BY <1>4, <2>1, <2>2
  <2> QED
    BY <1>6, <2>2, <2>3, Zenon DEF OneLatest, c
<1> QED
  BY <1>5, <1>6

LEMMA LatestKept ==
  ASSUME Thread!ThreadAssumption, NEW t \in Seq(Thread!Turns), NEW b \in Seq(Thread!Lines),
         NEW m, OneLatest(b, m), NEW n \in 1..MaxServed
  PROVE  /\ OneLatest(Thread!WithLatest(b, n), n)
         /\ Thread!Past(t, Thread!WithLatest(b, n)) = Thread!Past(t, b)
<1> DEFINE l == Thread!WithLatest(b, n)
           line == [role |-> "assistant", msg |-> n, latest |-> TRUE]
           earlier == {i \in DOMAIN b : b[i].latest}
           e == CHOOSE i \in earlier : \A j \in earlier : i <= j
<1>1. line \in Thread!Lines /\ line.latest = TRUE /\ line.msg = n
  BY DEF Thread!Lines
<1>2. l = IF earlier = {} THEN Append(b, line) ELSE [b EXCEPT ![e] = line]
  BY DEF Thread!WithLatest
<1>3. earlier = {} \/ \E i \in DOMAIN b : earlier = {i}
  BY DEF OneLatest
<1>4. n # 0
  BY DEF Thread!ThreadAssumption
<1> HIDE DEF line, l
\* In both cases the new line stands where no summary of a turn was.
<1>5. \E i : /\ l \in Seq(Thread!Lines) /\ i \in 1..Len(l) /\ l[i] = line
             /\ i \in 1..Len(b) => b[i].latest
             /\ \A j \in 1..Len(l) : j # i => j \in 1..Len(b) /\ l[j] = b[j] /\ ~b[j].latest
             /\ 1..Len(b) \subseteq 1..Len(l)
  <2>1. CASE earlier = {}
    <3>1. /\ l \in Seq(Thread!Lines) /\ Len(l) = Len(b) + 1 /\ l[Len(b) + 1] = line
          /\ \A j \in 1..Len(b) : l[j] = b[j]
      BY <1>1, <1>2, <2>1
    <3>2. \A j \in 1..Len(b) : ~b[j].latest
      BY <2>1
    <3>3. /\ Len(b) + 1 \in 1..Len(l) /\ Len(b) + 1 \notin 1..Len(b) /\ 1..Len(b) \subseteq 1..Len(l)
          /\ \A j \in 1..Len(l) : j # Len(b) + 1 => j \in 1..Len(b)
      BY <3>1
    <3> QED
      BY <3>1, <3>2, <3>3, Zenon
  <2>2. CASE \E i \in DOMAIN b : earlier = {i}
    <3>1. PICK i \in DOMAIN b : earlier = {i}
      BY <2>2
    <3>2. i \in 1..Len(b) /\ i <= i
      OBVIOUS
    <3>3. e = i
      BY <3>1, <3>2
    <3> HIDE DEF e
    <3>4. b \in [1..Len(b) -> Thread!Lines] /\ Len(b) \in Nat
      OBVIOUS
    <3>5. l = [b EXCEPT ![i] = line]
      BY <1>2, <3>1, <3>3
    <3>6. /\ l \in [1..Len(b) -> Thread!Lines] /\ l[i] = line
          /\ \A j \in 1..Len(b) : j # i => l[j] = b[j]
      BY <1>1, <3>2, <3>4, <3>5
    <3>7. l \in Seq(Thread!Lines) /\ Len(l) = Len(b)
      BY <3>4, <3>6
    <3>8. b[i].latest /\ \A j \in 1..Len(b) : j # i => ~b[j].latest
      <4>1. DOMAIN b = 1..Len(b)
        OBVIOUS
      <4> QED
        BY <3>1, <4>1, Zenon
    <3>9. 1..Len(b) = 1..Len(l)
      BY <3>7
    <3> QED
      BY <3>2, <3>6, <3>7, <3>8, <3>9, Zenon
  <2> QED
    BY <1>3, <2>1, <2>2
<1>6. PICK i : /\ l \in Seq(Thread!Lines) /\ i \in 1..Len(l) /\ l[i] = line
               /\ i \in 1..Len(b) => b[i].latest
               /\ \A j \in 1..Len(l) : j # i => j \in 1..Len(b) /\ l[j] = b[j] /\ ~b[j].latest
               /\ 1..Len(b) \subseteq 1..Len(l)
  BY <1>5, Zenon
<1>7. OneLatest(l, n)
  <2>1. DOMAIN l = 1..Len(l)
    BY <1>6
  <2>2. \A j \in DOMAIN l : l[j].latest <=> j = i
    BY <1>1, <1>6, <2>1
  <2>3. {j \in DOMAIN l : l[j].latest} = {i} /\ l[i].msg = n
    BY <1>1, <1>6, <2>1, <2>2
  <2> QED
    BY <1>4, <1>6, <2>1, <2>3, Zenon DEF OneLatest
<1>8. ASSUME NEW v
      PROVE  (\E j \in 1..Len(l) : ~l[j].latest /\ v = Thread!Said(l[j]))
             <=> (\E j \in 1..Len(b) : ~b[j].latest /\ v = Thread!Said(b[j]))
  <2>1. ASSUME NEW j \in 1..Len(l), ~l[j].latest
        PROVE  j \in 1..Len(b) /\ l[j] = b[j]
    BY <1>1, <1>6, <2>1
  <2>2. ASSUME NEW j \in 1..Len(b), ~b[j].latest
        PROVE  j \in 1..Len(l) /\ l[j] = b[j]
    BY <1>6, <2>2
  <2> QED
    BY <2>1, <2>2, Zenon
<1>9. ASSUME NEW v
      PROVE  v \in Thread!Past(t, l) <=> v \in Thread!Past(t, b)
  <2>1. v \in Thread!Past(t, l) <=>
            \/ \E j \in 1..Len(t) : v = t[j]
            \/ \E j \in 1..Len(l) : ~l[j].latest /\ v = Thread!Said(l[j])
    BY <1>6, InPast
  <2>2. v \in Thread!Past(t, b) <=>
            \/ \E j \in 1..Len(t) : v = t[j]
            \/ \E j \in 1..Len(b) : ~b[j].latest /\ v = Thread!Said(b[j])
    BY InPast
  <2> QED
    BY <1>8, <2>1, <2>2, Zenon
<1> QED
  BY <1>7, <1>9, Zenon DEF l

-----------------------------------------------------------------------------
(* What a run writes, of what it has read.                                  *)

\* Window and brief after n exchanges.
Files(t, b, n) == Thread!Once(t, b) /\ Msgs(t, b, n)

\* They have every turn, and a line of the latest exchange.
Conversation(n) == [role : {"user", "assistant"}, msg : 1..n]
Full(t, b, n) == Thread!Past(t, b) = Conversation(n) /\ OneLatest(b, n)

LEMMA NewFiles ==
  ASSUME Thread!ThreadAssumption, briefMax \in Nat,
         NEW t \in Thread!Windows, NEW b \in Seq(Thread!Lines), NEW n \in 1..MaxServed,
         Thread!Once(t, b), Msgs(t, b, n - 1),
         NEW w, NEW c, w = Thread!Window(Thread!WithExchange(t, n)),
         c = Thread!Trimmed(Thread!WithLatest(Moved(b, Thread!WithExchange(t, n)), n))
  PROVE  /\ w \in Thread!Windows /\ c \in Seq(Thread!Lines)
         /\ Files(w, c, n) /\ Files(w, b, n)
         /\ briefMax = 0 /\ Full(t, b, n - 1) => Full(w, c, n)
<1> DEFINE x == Thread!WithExchange(t, n)
           m == Moved(b, x)
           l == Thread!WithLatest(m, n)
<1>0. t \in Seq(Thread!Turns) /\ MaxServed \in Nat
  BY DEF Thread!Windows, Thread!ThreadAssumption
<1>1. x \in Seq(Thread!Turns) /\ Msgs(x, b, n) /\ Thread!Once(x, b)
  BY <1>0, ExchangeTyped, MsgsExchange, OnceExchange
<1>2. Thread!Past(x, b) = Thread!Past(t, b) \cup Exchange(n)
  BY <1>0, PastExchange
<1>3. w = Thread!Window(x) /\ c = Thread!Trimmed(l)
  OBVIOUS
<1> HIDE DEF x
<1>4. w \in Seq(Thread!Turns) /\ Len(w) <= RecentTurns
  BY <1>1, <1>3, WindowShape
<1>5. m \in Seq(Thread!Lines)
  BY <1>1, MovedShape
<1>6. Thread!Once(w, m) /\ Thread!Once(w, b) /\ Msgs(w, m, n) /\ Msgs(w, b, n)
  BY <1>1, <1>3, OnceMoved, MsgsMoved
<1>7. Thread!Past(w, m) = Thread!Past(x, b)
  BY <1>1, <1>3, PastMoved
<1>8. OneLatest(b, n - 1) => OneLatest(m, n - 1)
  BY <1>1, LatestMoved
<1> HIDE DEF m
<1>9. l \in Seq(Thread!Lines) /\ Thread!Once(w, l)
  BY <1>5, <1>6, LatestShape, OnceLatest
<1>10. OneLatest(m, n - 1) => OneLatest(l, n) /\ Thread!Past(w, l) = Thread!Past(w, m)
  BY <1>4, <1>5, LatestKept
<1>11. c \in Seq(Thread!Lines) /\ Thread!Once(w, c) /\ (briefMax = 0 => c = l)
  BY <1>3, <1>9, TrimmedShape, OnceTrimmed
<1>12. Msgs(w, c, n)
  BY <1>3, <1>5, <1>6, MsgsTrimmed
<1> HIDE DEF l
<1>13. Conversation(n - 1) \cup Exchange(n) = Conversation(n)
  <2>1. ASSUME NEW v \in Conversation(n), v \notin Conversation(n - 1)
        PROVE  v \in Exchange(n)
    <3>1. v.role \in {"user", "assistant"} /\ v.msg \in 1..n /\ v = [role |-> v.role, msg |-> v.msg]
      BY DEF Conversation
    <3>2. v.msg = n
      <4>1. v.msg \in 1..(n - 1) => v \in Conversation(n - 1)
        BY <3>1 DEF Conversation
      <4> QED
        BY <2>1, <3>1, <4>1, <1>0
    <3> QED
      BY <3>1, <3>2 DEF Exchange
  <2>2. Conversation(n - 1) \subseteq Conversation(n) /\ Exchange(n) \subseteq Conversation(n)
    BY <1>0 DEF Conversation, Exchange
  <2> QED
    BY <2>1, <2>2, Zenon
<1>14. ASSUME briefMax = 0, Full(t, b, n - 1)
       PROVE  Full(w, c, n)
  BY <1>14, <1>2, <1>7, <1>8, <1>10, <1>11, <1>13 DEF Full
<1>15. w \in Thread!Windows
  BY <1>4 DEF Thread!Windows
<1> QED
  BY <1>6, <1>11, <1>12, <1>14, <1>15 DEF Files

-----------------------------------------------------------------------------
(* The runs of a thread.                                                    *)

Looking == {"seeBrief", "seeRecent", "seeFacts", "invoke"}
Updating == {"loadRecent", "loadFacts", "loadBrief"}
Writing == {"truncateRecent", "writeRecent", "truncateBrief", "writeBrief",
            "truncateFacts", "writeFacts"}
Steps == Looking \cup Updating \cup Writing \cup {"idle"}

LEMMA AfterStep ==
  /\ Thread!After("seeBrief") = "seeRecent" /\ Thread!After("seeRecent") = "seeFacts"
  /\ Thread!After("seeFacts") = "invoke" /\ Thread!After("invoke") = "loadRecent"
  /\ Thread!After("loadRecent") = "loadFacts" /\ Thread!After("loadFacts") = "loadBrief"
  /\ Thread!After("loadBrief") = "truncateRecent"
  /\ Thread!After("truncateRecent") = "writeRecent"
  /\ Thread!After("writeRecent") = "truncateBrief"
  /\ Thread!After("truncateBrief") = "writeBrief"
  /\ Thread!After("writeBrief") = "truncateFacts"
  /\ Thread!After("truncateFacts") = "writeFacts" /\ Thread!After("writeFacts") = "idle"
<1> DEFINE S == Thread!Script
<1>1. /\ DOMAIN S = 1..14
      /\ S[1] = "seeBrief" /\ S[2] = "seeRecent" /\ S[3] = "seeFacts" /\ S[4] = "invoke"
      /\ S[5] = "loadRecent" /\ S[6] = "loadFacts" /\ S[7] = "loadBrief"
      /\ S[8] = "truncateRecent" /\ S[9] = "writeRecent" /\ S[10] = "truncateBrief"
      /\ S[11] = "writeBrief" /\ S[12] = "truncateFacts" /\ S[13] = "writeFacts"
      /\ S[14] = "idle"
  BY DEF Thread!Script
<1> HIDE DEF S
<1>2. \A i \in 1..14 : i \in {1, 2, 3, 4, 5, 6, 7, 8, 9, 10, 11, 12, 13, 14}
  OBVIOUS
<1>3. \A i, j \in 1..14 : S[i] = S[j] => i = j
  BY <1>1, <1>2
<1>4. ASSUME NEW i \in 1..13
      PROVE  Thread!After(S[i]) = S[i + 1]
  <2>1. (CHOOSE j \in DOMAIN S : S[j] = S[i]) = i
    BY <1>1, <1>3
  <2> QED
    BY <2>1 DEF Thread!After, S
<1> QED
  BY <1>1, <1>4

Memories == [recent : Thread!Windows, brief : Seq(Thread!Lines), facts : 0..MaxServed,
             msg : 0..MaxServed, items : BOOLEAN]

ThreadTyped ==
    /\ recent \in Thread!Windows \cup {Garbled} /\ brief \in Seq(Thread!Lines)
    /\ facts \in 0..MaxServed \cup {Garbled} /\ briefMax \in BriefLimits
    /\ step \in [Procs -> Steps] /\ mem \in [Procs -> Memories]
    /\ served \in 0..MaxServed /\ broken \in Nat
    /\ \A p \in Procs : step[p] \in Updating => mem[p].msg \in 1..MaxServed

LEMMA Empty ==
  ASSUME Thread!ThreadAssumption
  PROVE  << >> \in Thread!Windows /\ << >> \in Seq(Thread!Lines) /\ Thread!Nothing \in Memories
<1>1. << >> \in Seq(Thread!Turns) /\ << >> \in Seq(Thread!Lines) /\ Len(<< >>) = 0
  OBVIOUS
<1>2. << >> \in Thread!Windows
  BY <1>1 DEF Thread!Windows, Thread!ThreadAssumption
<1> QED
  BY <1>1, <1>2 DEF Memories, Thread!Nothing, Thread!ThreadAssumption

LEMMA ThreadInit ==
  ASSUME Thread!ThreadAssumption
  PROVE  Thread!Init => ThreadTyped
BY Empty DEF Thread!Init, ThreadTyped, Steps, Looking, Updating, Writing, Thread!ThreadAssumption

\* A run that goes on without a look at the files.
LEMMA TypedStep ==
  ASSUME ThreadTyped, NEW p \in Procs, NEW l \in Steps, NEW m \in Memories,
         step' = [step EXCEPT ![p] = l], mem' = [mem EXCEPT ![p] = m],
         l \in Updating => m.msg \in 1..MaxServed
  PROVE  /\ step' \in [Procs -> Steps] /\ mem' \in [Procs -> Memories]
         /\ \A q \in Procs : step'[q] \in Updating => mem'[q].msg \in 1..MaxServed
<1>1. step \in [Procs -> Steps] /\ mem \in [Procs -> Memories]
  BY DEF ThreadTyped
<1>2. /\ step' \in [Procs -> Steps] /\ mem' \in [Procs -> Memories]
      /\ step'[p] = l /\ mem'[p] = m
      /\ \A q \in Procs : q # p => step'[q] = step[q] /\ mem'[q] = mem[q]
  BY <1>1
<1> QED
  BY <1>2 DEF ThreadTyped

\* What a step of a run does to its place and its memory.
StepTo(p, l, m) ==
    step' = [step EXCEPT ![p] = l] /\ mem' = [mem EXCEPT ![p] = m] /\ briefMax' = briefMax

\* The steps, with the place that the run comes from and the one it goes to.
LEMMA Goes ==
  ASSUME ThreadTyped, NEW p \in Procs
  PROVE  /\ Thread!Start(p) => step[p] = "idle" /\ StepTo(p, "seeBrief", mem[p])
         /\ Thread!SeeBrief(p) =>
              step[p] = "seeBrief" /\ StepTo(p, "seeRecent", [mem[p] EXCEPT !.brief = brief])
         /\ Thread!Invoke(p) =>
              /\ step[p] = "invoke"
              /\ \E i \in BOOLEAN : StepTo(p, "loadRecent",
                    [Thread!Nothing EXCEPT !.msg = served + 1, !.items = i])
         /\ Thread!LoadBrief(p) =>
              /\ step[p] = "loadBrief"
              /\ StepTo(p, "truncateRecent", [mem[p] EXCEPT !.recent = Thread!NewRecent(p),
                                                            !.brief = Thread!NewBrief(p)])
         /\ Thread!TruncateRecent(p) =>
              step[p] = "truncateRecent" /\ StepTo(p, "writeRecent", mem[p])
         /\ Thread!WriteRecent(p) =>
              step[p] = "writeRecent" /\ StepTo(p, "truncateBrief", mem[p])
         /\ Thread!TruncateBrief(p) =>
              step[p] = "truncateBrief" /\ StepTo(p, "writeBrief", mem[p])
         /\ Thread!WriteBrief(p) =>
              step[p] = "writeBrief" /\ StepTo(p, "truncateFacts", mem[p])
         /\ Thread!TruncateFacts(p) =>
              step[p] = "truncateFacts" /\ StepTo(p, "writeFacts", mem[p])
         /\ Thread!WriteFacts(p) =>
              step[p] = "writeFacts" /\ StepTo(p, "idle", Thread!Nothing)
         /\ Thread!Kill(p) => step[p] # "idle" /\ StepTo(p, "idle", Thread!Nothing)
<1>0. mem \in [Procs -> Memories]
  BY DEF ThreadTyped
<1>1. mem' = mem => mem' = [mem EXCEPT ![p] = mem[p]]
  BY <1>0
<1>2. Thread!Start(p) => step[p] = "idle" /\ StepTo(p, "seeBrief", mem[p])
  BY <1>1, Zenon DEF Thread!Start, StepTo
<1>3. Thread!SeeBrief(p) =>
        step[p] = "seeBrief" /\ StepTo(p, "seeRecent", [mem[p] EXCEPT !.brief = brief])
  BY <1>0, AfterStep DEF Thread!SeeBrief, Thread!Do, StepTo
<1>4. ASSUME Thread!Invoke(p)
      PROVE  /\ step[p] = "invoke"
             /\ \E i \in BOOLEAN : StepTo(p, "loadRecent",
                   [Thread!Nothing EXCEPT !.msg = served + 1, !.items = i])
  BY <1>4, AfterStep, Zenon DEF Thread!Invoke, Thread!Do, StepTo
<1>5. Thread!LoadBrief(p) =>
         /\ step[p] = "loadBrief"
         /\ StepTo(p, "truncateRecent", [mem[p] EXCEPT !.recent = Thread!NewRecent(p),
                                                       !.brief = Thread!NewBrief(p)])
  <2> SUFFICES ASSUME Thread!LoadBrief(p)
               PROVE  /\ step[p] = "loadBrief"
                      /\ StepTo(p, "truncateRecent",
                           [mem[p] EXCEPT !.recent = Thread!NewRecent(p),
                                          !.brief = Thread!NewBrief(p)])
    OBVIOUS
  <2> DEFINE r == Thread!NewRecent(p)
             b == Thread!NewBrief(p)
  <2>1. /\ step[p] = "loadBrief" /\ step' = [step EXCEPT ![p] = "truncateRecent"]
        /\ briefMax' = briefMax /\ mem' = [mem EXCEPT ![p].recent = r, ![p].brief = b]
    BY AfterStep DEF Thread!LoadBrief, Thread!Do
  <2> HIDE DEF r, b
  <2>2. mem' = [mem EXCEPT ![p] = [mem[p] EXCEPT !.recent = r, !.brief = b]]
    BY <1>0, <2>1
  <2> QED
    BY <2>1, <2>2 DEF StepTo, r, b
<1>6. Thread!TruncateRecent(p) =>
        step[p] = "truncateRecent" /\ StepTo(p, "writeRecent", mem[p])
  BY <1>1, AfterStep, Zenon DEF Thread!TruncateRecent, Thread!Do, StepTo
<1>7. Thread!WriteRecent(p) =>
        step[p] = "writeRecent" /\ StepTo(p, "truncateBrief", mem[p])
  BY <1>1, AfterStep, Zenon DEF Thread!WriteRecent, Thread!Do, StepTo
<1>8. Thread!TruncateBrief(p) =>
        step[p] = "truncateBrief" /\ StepTo(p, "writeBrief", mem[p])
  BY <1>1, AfterStep, Zenon DEF Thread!TruncateBrief, Thread!Do, StepTo
<1>9. Thread!WriteBrief(p) =>
        step[p] = "writeBrief" /\ StepTo(p, "truncateFacts", mem[p])
  BY <1>1, AfterStep, Zenon DEF Thread!WriteBrief, Thread!Do, StepTo
<1>10. Thread!TruncateFacts(p) =>
        step[p] = "truncateFacts" /\ StepTo(p, "writeFacts", mem[p])
  BY <1>1, AfterStep, Zenon DEF Thread!TruncateFacts, Thread!Do, StepTo
<1>11. Thread!WriteFacts(p) =>
        step[p] = "writeFacts" /\ StepTo(p, "idle", Thread!Nothing)
  BY AfterStep, Zenon DEF Thread!WriteFacts, Thread!Do, StepTo
<1>12. Thread!Kill(p) => step[p] # "idle" /\ StepTo(p, "idle", Thread!Nothing)
  BY Zenon DEF Thread!Kill, StepTo
<1> QED
  BY <1>2, <1>3, <1>4, <1>5, <1>6, <1>7, <1>8, <1>9, <1>10, <1>11, <1>12, Zenon

LEMMA GoesReading ==
  ASSUME ThreadTyped, NEW p \in Procs
  PROVE  /\ Thread!ReadRecent(p) =>
              \/ /\ recent # Garbled
                 /\ \/ step[p] = "seeRecent" /\
                         StepTo(p, "seeFacts", [mem[p] EXCEPT !.recent = recent])
                    \/ step[p] = "loadRecent" /\
                         StepTo(p, "loadFacts", [mem[p] EXCEPT !.recent = recent])
              \/ /\ recent = Garbled /\ step[p] \in {"seeRecent", "loadRecent"}
                 /\ StepTo(p, "idle", Thread!Nothing)
         /\ Thread!ReadFacts(p) =>
              \/ /\ facts # Garbled
                 /\ \/ step[p] = "seeFacts" /\
                         StepTo(p, "invoke", [mem[p] EXCEPT !.facts = facts])
                    \/ step[p] = "loadFacts" /\
                         StepTo(p, "loadBrief", [mem[p] EXCEPT !.facts = facts])
              \/ /\ facts = Garbled /\ step[p] \in {"seeFacts", "loadFacts"}
                 /\ StepTo(p, "idle", Thread!Nothing)
<1>0. mem \in [Procs -> Memories]
  BY DEF ThreadTyped
<1>1. mem' = [mem EXCEPT ![p].recent = recent] =>
        mem' = [mem EXCEPT ![p] = [mem[p] EXCEPT !.recent = recent]]
  BY <1>0
<1>2. mem' = [mem EXCEPT ![p].facts = facts] =>
        mem' = [mem EXCEPT ![p] = [mem[p] EXCEPT !.facts = facts]]
  BY <1>0
<1>3. ASSUME Thread!ReadRecent(p)
      PROVE  \/ /\ recent # Garbled
                /\ \/ step[p] = "seeRecent" /\
                        StepTo(p, "seeFacts", [mem[p] EXCEPT !.recent = recent])
                   \/ step[p] = "loadRecent" /\
                        StepTo(p, "loadFacts", [mem[p] EXCEPT !.recent = recent])
             \/ /\ recent = Garbled /\ step[p] \in {"seeRecent", "loadRecent"}
                /\ StepTo(p, "idle", Thread!Nothing)
  <2>1. PICK l \in {"seeRecent", "loadRecent"} :
          \/ /\ recent # Garbled /\ Thread!Do(p, l)
             /\ mem' = [mem EXCEPT ![p].recent = recent]
          \/ recent = Garbled /\ Thread!Stop(p, l)
    BY <1>3, Zenon DEF Thread!ReadRecent
  <2>2. CASE recent # Garbled /\ Thread!Do(p, l) /\ mem' = [mem EXCEPT ![p].recent = recent]
    <3>1. step[p] = l /\ step' = [step EXCEPT ![p] = Thread!After(l)] /\ briefMax' = briefMax
      BY <2>2 DEF Thread!Do
    <3>2. CASE l = "seeRecent"
      BY <1>1, <2>2, <3>1, <3>2, AfterStep, Zenon DEF StepTo
    <3>3. CASE l = "loadRecent"
      BY <1>1, <2>2, <3>1, <3>3, AfterStep, Zenon DEF StepTo
    <3> QED
      BY <3>2, <3>3
  <2>3. CASE recent = Garbled /\ Thread!Stop(p, l)
    BY <2>3, Zenon DEF Thread!Stop, StepTo
  <2> QED
    BY <2>1, <2>2, <2>3, Zenon
<1>4. ASSUME Thread!ReadFacts(p)
      PROVE  \/ /\ facts # Garbled
                /\ \/ step[p] = "seeFacts" /\
                        StepTo(p, "invoke", [mem[p] EXCEPT !.facts = facts])
                   \/ step[p] = "loadFacts" /\
                        StepTo(p, "loadBrief", [mem[p] EXCEPT !.facts = facts])
             \/ /\ facts = Garbled /\ step[p] \in {"seeFacts", "loadFacts"}
                /\ StepTo(p, "idle", Thread!Nothing)
  <2>1. PICK l \in {"seeFacts", "loadFacts"} :
          \/ /\ facts # Garbled /\ Thread!Do(p, l)
             /\ mem' = [mem EXCEPT ![p].facts = facts]
          \/ facts = Garbled /\ Thread!Stop(p, l)
    BY <1>4, Zenon DEF Thread!ReadFacts
  <2>2. CASE facts # Garbled /\ Thread!Do(p, l) /\ mem' = [mem EXCEPT ![p].facts = facts]
    <3>1. step[p] = l /\ step' = [step EXCEPT ![p] = Thread!After(l)] /\ briefMax' = briefMax
      BY <2>2 DEF Thread!Do
    <3>2. CASE l = "seeFacts"
      BY <1>2, <2>2, <3>1, <3>2, AfterStep, Zenon DEF StepTo
    <3>3. CASE l = "loadFacts"
      BY <1>2, <2>2, <3>1, <3>3, AfterStep, Zenon DEF StepTo
    <3> QED
      BY <3>2, <3>3
  <2>3. CASE facts = Garbled /\ Thread!Stop(p, l)
    BY <2>3, Zenon DEF Thread!Stop, StepTo
  <2> QED
    BY <2>1, <2>2, <2>3, Zenon
<1> QED
  BY <1>3, <1>4, Zenon

LEMMA NewTyped ==
  ASSUME Thread!ThreadAssumption, ThreadTyped, NEW p \in Procs, step[p] = "loadBrief"
  PROVE  Thread!NewRecent(p) \in Thread!Windows /\ Thread!NewBrief(p) \in Seq(Thread!Lines)
<1> DEFINE t == mem[p].recent
           n == mem[p].msg
           x == Thread!WithExchange(t, n)
           l == Thread!WithLatest(Moved(brief, x), n)
<1>1. mem[p] \in Memories /\ n \in 1..MaxServed /\ brief \in Seq(Thread!Lines)
  BY DEF ThreadTyped, Updating
<1>2. t \in Seq(Thread!Turns) /\ briefMax \in Nat
  BY <1>1 DEF Memories, Thread!Windows, ThreadTyped, Thread!ThreadAssumption
<1>3. Thread!NewRecent(p) = Thread!Window(x) /\ Thread!NewBrief(p) = Thread!Trimmed(l)
  BY DEF Thread!NewRecent, Thread!NewBrief, Moved
<1> HIDE DEF t, n
<1>4. x \in Seq(Thread!Turns)
  BY <1>1, <1>2, ExchangeTyped
<1> HIDE DEF x
<1>5. Thread!Window(x) \in Seq(Thread!Turns) /\ Len(Thread!Window(x)) <= RecentTurns
  BY <1>4, WindowShape
<1>6. Moved(brief, x) \in Seq(Thread!Lines)
  BY <1>1, <1>4, MovedShape
<1>7. l \in Seq(Thread!Lines)
  BY <1>1, <1>6, LatestShape
<1> HIDE DEF l
<1>8. Thread!Trimmed(l) \in Seq(Thread!Lines)
  BY <1>2, <1>7, TrimmedShape
<1> QED
  BY <1>3, <1>5, <1>8 DEF Thread!Windows

LEMMA TypedNext ==
  ASSUME Thread!ThreadAssumption, ThreadTyped, [Thread!Next]_Thread!vars
  PROVE  ThreadTyped'
<1> DEFINE Disk == /\ recent \in Thread!Windows \cup {Garbled} /\ brief \in Seq(Thread!Lines)
                   /\ facts \in 0..MaxServed \cup {Garbled} /\ served \in 0..MaxServed
                   /\ broken \in Nat
           Runs == /\ step \in [Procs -> Steps] /\ mem \in [Procs -> Memories]
                   /\ \A q \in Procs : step[q] \in Updating => mem[q].msg \in 1..MaxServed
\* A step to a place and a memory as they should be.
<1>1. ASSUME NEW p \in Procs, NEW l \in Steps, NEW m \in Memories, StepTo(p, l, m), Disk',
             l \in Updating => m.msg \in 1..MaxServed
      PROVE  ThreadTyped'
  <2>1. Runs'
    BY <1>1, TypedStep, Zenon DEF StepTo
  <2>2. briefMax' \in BriefLimits
    BY <1>1 DEF StepTo, ThreadTyped
  <2> QED
    BY <1>1, <2>1, <2>2, Zenon DEF ThreadTyped
<1>2. Disk /\ Runs
  BY Zenon DEF ThreadTyped
<1>3. \A p \in Procs : mem[p] \in Memories
  BY <1>2
<1>4. Thread!Nothing \in Memories /\ << >> \in Thread!Windows /\ << >> \in Seq(Thread!Lines)
  BY Empty
<1>5. \A l \in Looking \cup Writing \cup {"idle"} : l \in Steps /\ l \notin Updating
  BY DEF Steps, Looking, Writing, Updating
<1>6. ASSUME NEW p \in Procs, Thread!Start(p)
      PROVE  ThreadTyped'
  <2>1. StepTo(p, "seeBrief", mem[p]) /\ "seeBrief" \in Looking
    BY <1>6, Goes DEF Looking
  <2>2. Disk'
    BY <1>2, <1>6 DEF Thread!Start, Thread!disk
  <2> QED
    BY <1>1, <1>3, <1>5, <2>1, <2>2
<1>7. ASSUME NEW p \in Procs, Thread!SeeBrief(p)
      PROVE  ThreadTyped'
  <2>1. StepTo(p, "seeRecent", [mem[p] EXCEPT !.brief = brief]) /\ "seeRecent" \in Looking
    BY <1>7, Goes DEF Looking
  <2>2. Disk'
    BY <1>2, <1>7 DEF Thread!SeeBrief, Thread!Do, Thread!disk
  <2>3. [mem[p] EXCEPT !.brief = brief] \in Memories
    BY <1>2, <1>3 DEF Memories
  <2> QED
    BY <1>1, <1>5, <2>1, <2>2, <2>3
<1>8. ASSUME NEW p \in Procs, Thread!ReadRecent(p)
      PROVE  ThreadTyped'
  <2>1. Disk'
    BY <1>2, <1>8 DEF Thread!ReadRecent, Thread!Do, Thread!Stop, Thread!disk
  <2>2. recent # Garbled => [mem[p] EXCEPT !.recent = recent] \in Memories
    BY <1>2, <1>3 DEF Memories
  <2>3. /\ "seeFacts" \in Looking /\ "idle" \in Steps /\ "idle" \notin Updating
        /\ "loadRecent" \in Updating /\ "loadFacts" \in Steps
    BY DEF Looking, Updating, Steps, Writing
  <2>4. CASE recent # Garbled /\ StepTo(p, "seeFacts", [mem[p] EXCEPT !.recent = recent])
    BY <1>1, <1>5, <2>1, <2>2, <2>3, <2>4
  <2>5. CASE /\ recent # Garbled /\ step[p] = "loadRecent"
             /\ StepTo(p, "loadFacts", [mem[p] EXCEPT !.recent = recent])
    <3>1. [mem[p] EXCEPT !.recent = recent].msg \in 1..MaxServed
      BY <1>2, <1>3, <2>3, <2>5 DEF Memories
    <3> QED
      BY <1>1, <2>1, <2>2, <2>3, <2>5, <3>1
  <2>6. CASE StepTo(p, "idle", Thread!Nothing)
    BY <1>1, <1>4, <2>1, <2>3, <2>6
  <2> QED
    BY <1>8, <2>4, <2>5, <2>6, GoesReading, Zenon
<1>9. ASSUME NEW p \in Procs, Thread!ReadFacts(p)
      PROVE  ThreadTyped'
  <2>1. Disk'
    BY <1>2, <1>9 DEF Thread!ReadFacts, Thread!Do, Thread!Stop, Thread!disk
  <2>2. facts # Garbled => [mem[p] EXCEPT !.facts = facts] \in Memories
    BY <1>2, <1>3 DEF Memories
  <2>3. /\ "invoke" \in Looking /\ "idle" \in Steps /\ "idle" \notin Updating
        /\ "loadFacts" \in Updating /\ "loadBrief" \in Steps
    BY DEF Looking, Updating, Steps, Writing
  <2>4. CASE facts # Garbled /\ StepTo(p, "invoke", [mem[p] EXCEPT !.facts = facts])
    BY <1>1, <1>5, <2>1, <2>2, <2>3, <2>4
  <2>5. CASE /\ facts # Garbled /\ step[p] = "loadFacts"
             /\ StepTo(p, "loadBrief", [mem[p] EXCEPT !.facts = facts])
    <3>1. [mem[p] EXCEPT !.facts = facts].msg \in 1..MaxServed
      BY <1>2, <1>3, <2>3, <2>5 DEF Memories
    <3> QED
      BY <1>1, <2>1, <2>2, <2>3, <2>5, <3>1
  <2>6. CASE StepTo(p, "idle", Thread!Nothing)
    BY <1>1, <1>4, <2>1, <2>3, <2>6
  <2> QED
    BY <1>9, <2>4, <2>5, <2>6, GoesReading, Zenon
<1>10. ASSUME NEW p \in Procs, Thread!Invoke(p)
       PROVE  ThreadTyped'
  <2>1. PICK i \in BOOLEAN :
          StepTo(p, "loadRecent", [Thread!Nothing EXCEPT !.msg = served + 1, !.items = i])
    BY <1>10, Goes
  <2>2. served + 1 \in 1..MaxServed
    BY <1>2, <1>10 DEF Thread!Invoke, Thread!ThreadAssumption
  <2>3. Disk'
    BY <1>2, <1>10, <2>2 DEF Thread!Invoke, Thread!Do, Thread!disk
  <2>4. /\ [Thread!Nothing EXCEPT !.msg = served + 1, !.items = i] \in Memories
        /\ [Thread!Nothing EXCEPT !.msg = served + 1, !.items = i].msg \in 1..MaxServed
    <3>1. served + 1 \in 0..MaxServed
      BY <2>2
    <3> QED
      BY <1>4, <2>2, <3>1 DEF Memories
  <2>5. "loadRecent" \in Steps
    BY DEF Steps, Updating
  <2> QED
    BY <1>1, <2>1, <2>3, <2>4, <2>5
<1>11. ASSUME NEW p \in Procs, Thread!LoadBrief(p)
       PROVE  ThreadTyped'
  <2> DEFINE m == [mem[p] EXCEPT !.recent = Thread!NewRecent(p), !.brief = Thread!NewBrief(p)]
  <2>1. step[p] = "loadBrief" /\ StepTo(p, "truncateRecent", m) /\ "truncateRecent" \in Writing
    BY <1>11, Goes DEF Writing
  <2>2. Disk'
    BY <1>2, <1>11 DEF Thread!LoadBrief, Thread!Do, Thread!disk
  <2>3. Thread!NewRecent(p) \in Thread!Windows /\ Thread!NewBrief(p) \in Seq(Thread!Lines)
    BY <2>1, NewTyped
  <2>4. m \in Memories
    BY <1>3, <2>3 DEF Memories
  <2> QED
    BY <1>1, <1>5, <2>1, <2>2, <2>4
<1>12. ASSUME NEW p \in Procs, Thread!TruncateRecent(p)
       PROVE  ThreadTyped'
  <2>1. StepTo(p, "writeRecent", mem[p]) /\ "writeRecent" \in Writing
    BY <1>12, Goes DEF Writing
  <2>2. Disk'
    BY <1>2, <1>4, <1>12 DEF Thread!TruncateRecent, Thread!Do
  <2> QED
    BY <1>1, <1>3, <1>5, <2>1, <2>2
<1>13. ASSUME NEW p \in Procs, Thread!WriteRecent(p)
       PROVE  ThreadTyped'
  <2>1. StepTo(p, "truncateBrief", mem[p]) /\ "truncateBrief" \in Writing
    BY <1>13, Goes DEF Writing
  <2>2. mem[p].recent \in Thread!Windows
    BY <1>3 DEF Memories
  <2>3. Disk'
    BY <1>2, <1>13, <2>2 DEF Thread!WriteRecent, Thread!Do
  <2> QED
    BY <1>1, <1>3, <1>5, <2>1, <2>3
<1>14. ASSUME NEW p \in Procs, Thread!TruncateBrief(p)
       PROVE  ThreadTyped'
  <2>1. StepTo(p, "writeBrief", mem[p]) /\ "writeBrief" \in Writing
    BY <1>14, Goes DEF Writing
  <2>2. Disk'
    BY <1>2, <1>4, <1>14 DEF Thread!TruncateBrief, Thread!Do
  <2> QED
    BY <1>1, <1>3, <1>5, <2>1, <2>2
<1>15. ASSUME NEW p \in Procs, Thread!WriteBrief(p)
       PROVE  ThreadTyped'
  <2>1. StepTo(p, "truncateFacts", mem[p]) /\ "truncateFacts" \in Writing
    BY <1>15, Goes DEF Writing
  <2>2. mem[p].brief \in Seq(Thread!Lines) /\ brief \in Seq(Thread!Lines)
    BY <1>2, <1>3 DEF Memories
  <2>3. PICK i \in 1..Len(brief) + 1 : brief' = mem[p].brief \o SubSeq(brief, i, Len(brief))
    BY <1>15 DEF Thread!WriteBrief
  <2>4. SubSeq(brief, i, Len(brief)) \in Seq(Thread!Lines)
    BY <2>2
  <2>5. brief' \in Seq(Thread!Lines)
    BY <2>2, <2>3, <2>4
  <2>6. Disk'
    BY <1>2, <1>15, <2>5 DEF Thread!WriteBrief, Thread!Do
  <2> QED
    BY <1>1, <1>3, <1>5, <2>1, <2>6
<1>16. ASSUME NEW p \in Procs, Thread!TruncateFacts(p)
       PROVE  ThreadTyped'
  <2>1. StepTo(p, "writeFacts", mem[p]) /\ "writeFacts" \in Writing
    BY <1>16, Goes DEF Writing
  <2>2. Disk'
    BY <1>2, <1>16 DEF Thread!TruncateFacts, Thread!Do
  <2> QED
    BY <1>1, <1>3, <1>5, <2>1, <2>2
<1>17. ASSUME NEW p \in Procs, Thread!WriteFacts(p)
       PROVE  ThreadTyped'
  <2>1. StepTo(p, "idle", Thread!Nothing)
    BY <1>17, Goes
  <2>2. mem[p].facts \in 0..MaxServed /\ mem[p].msg \in 0..MaxServed
    BY <1>3 DEF Memories
  <2>3. Disk'
    BY <1>2, <1>17, <2>2 DEF Thread!WriteFacts, Thread!Do
  <2> QED
    BY <1>1, <1>4, <1>5, <2>1, <2>3
<1>18. ASSUME NEW p \in Procs, Thread!Kill(p)
       PROVE  ThreadTyped'
  <2>1. StepTo(p, "idle", Thread!Nothing)
    BY <1>18, Goes
  <2>2. Disk'
    BY <1>2, <1>18 DEF Thread!Kill, Thread!disk
  <2> QED
    BY <1>1, <1>4, <1>5, <2>1, <2>2
<1>19. CASE UNCHANGED Thread!vars
  BY <1>19 DEF ThreadTyped, Thread!vars, Thread!disk
<1> QED
  BY <1>6, <1>7, <1>8, <1>9, <1>10, <1>11, <1>12, <1>13, <1>14, <1>15, <1>16, <1>17, <1>18,
     <1>19, Zenon DEF Thread!Next

-----------------------------------------------------------------------------
(* Runs that do not overlap.                                                *)

\* What is in the files between two runs, and while one is at a place with a memory.
RestSafe(t, b, n) == t \in Thread!Windows /\ Files(t, b, n)

RunSafe(l, t, b, m, n) ==
    /\ RestSafe(t, b, n)
    /\ l \in Updating => m.msg = n /\ Msgs(t, b, n - 1)
    /\ l \in {"loadFacts", "loadBrief"} => m.recent = t
    /\ l \in Writing => Files(m.recent, m.brief, n)
    /\ l \in {"truncateRecent", "writeRecent"} => Files(m.recent, b, n)
    /\ l = "writeRecent" => t = << >>
    /\ l \in {"truncateBrief", "writeBrief", "truncateFacts", "writeFacts"} => t = m.recent
    /\ l = "writeBrief" => b = << >>

\* And, unless one was killed, with an unlimited brief.
RestFull(t, b, f, n) == f # Garbled /\ Full(t, b, n)

RunFull(l, t, b, f, m, n) ==
    /\ l = "writeFacts" <=> f = Garbled
    /\ l \in Looking => Full(t, b, n)
    /\ l \in {"seeRecent", "seeFacts", "invoke"} => m.brief = b
    /\ l \in {"seeFacts", "invoke"} => m.recent = t
    /\ l \in Updating => Full(t, b, n - 1)
    /\ l \in Writing => Full(m.recent, m.brief, n)
    /\ l \in {"truncateFacts", "writeFacts"} => b = m.brief

Resting ==
    /\ RestSafe(recent, brief, served)
    /\ broken = 0 /\ briefMax = 0 => RestFull(recent, brief, facts, served)

Running(p) ==
    /\ RunSafe(step[p], recent, brief, mem[p], served)
    /\ broken = 0 /\ briefMax = 0 => RunFull(step[p], recent, brief, facts, mem[p], served)

ThreadInv ==
    alone =>
      /\ \A p, q \in Procs : step[p] # "idle" /\ step[q] # "idle" => p = q
      /\ (\A p \in Procs : step[p] = "idle") => Resting
      /\ \A p \in Procs : step[p] # "idle" => Running(p)

\* The one run that is under way does a step.
LEMMA Alone ==
  ASSUME ThreadTyped, ThreadInv, NEW p \in Procs, NEW l, NEW m,
         StepTo(p, l, m), step[p] # "idle", alone' = alone,
         alone /\ l = "idle" => Resting',
         alone /\ l # "idle" => Running(p)'
  PROVE  ThreadInv'
<1>1. step'[p] = l /\ \A q \in Procs : q # p => step'[q] = step[q]
  BY DEF StepTo, ThreadTyped
<1>2. ASSUME alone
      PROVE  \A q \in Procs : q # p => step'[q] = "idle"
  BY <1>1, <1>2 DEF ThreadInv
<1> QED
  BY <1>1, <1>2 DEF ThreadInv

LEMMA OnceEmpty ==
  ASSUME NEW t, NEW b, NEW n
  PROVE  /\ Files(t, b, n) => Files(<< >>, b, n) /\ Files(t, << >>, n)
         /\ Files(<< >>, << >>, n)
<1>1. DOMAIN << >> = {}
  OBVIOUS
<1>2. Thread!Range(<< >>) = {} /\ Thread!Summarised(<< >>) = {}
  BY <1>1 DEF Thread!Range, Thread!Summarised
<1> QED
  BY <1>1, <1>2, Zenon DEF Files, Thread!Once, Thread!IsInjective, Msgs

LEMMA AloneInit ==
  ASSUME Thread!ThreadAssumption
  PROVE  Thread!Init => ThreadInv
<1> SUFFICES ASSUME Thread!Init PROVE ThreadInv
  OBVIOUS
<1>1. /\ recent = << >> /\ brief = << >> /\ facts = 0 /\ served = 0
      /\ \A p \in Procs : step[p] = "idle"
  BY DEF Thread!Init
<1>2. RestSafe(recent, brief, served)
  BY <1>1, Empty, OnceEmpty DEF RestSafe
<1>3. Thread!Past(<< >>, << >>) = {}
  BY DEF Thread!Past, Thread!Range, Thread!Summarised
<1>4. Conversation(0) = {}
  BY DEF Conversation
<1>5. OneLatest(<< >>, 0) /\ 0 # Garbled
  BY DEF OneLatest, Thread!ThreadAssumption
<1> QED
  BY <1>1, <1>2, <1>3, <1>4, <1>5 DEF ThreadInv, Resting, RestFull, Full

LEMMA PlaceAndMemory ==
  ASSUME ThreadTyped, NEW p \in Procs, NEW l, NEW m, StepTo(p, l, m)
  PROVE  step'[p] = l /\ mem'[p] = m /\ mem[p] \in Memories /\ briefMax' = briefMax
BY DEF ThreadTyped, StepTo

\* The same, with what is to be shown of the place and the memory it goes to.
LEMMA AloneStep ==
  ASSUME ThreadTyped, ThreadInv, NEW p \in Procs, NEW l, NEW m, l # "idle",
         StepTo(p, l, m), step[p] # "idle", UNCHANGED <<alone, broken>>,
         Running(p) => RunSafe(l, recent', brief', m, served'),
         Running(p) /\ broken = 0 /\ briefMax = 0 => RunFull(l, recent', brief', facts', m, served')
  PROVE  ThreadInv'
<1>1. step'[p] = l /\ mem'[p] = m /\ briefMax' = briefMax
  BY PlaceAndMemory
<1>2. alone => Running(p)
  BY DEF ThreadInv
<1>3. ASSUME alone
      PROVE  Running(p)'
  BY <1>1, <1>2, <1>3 DEF Running
<1> QED
  BY <1>3, Alone

LEMMA AloneEnd ==
  ASSUME ThreadTyped, ThreadInv, NEW p \in Procs, NEW m,
         StepTo(p, "idle", m), step[p] # "idle", UNCHANGED alone,
         Running(p) => RestSafe(recent', brief', served'),
         Running(p) /\ broken' = 0 /\ briefMax = 0 => RestFull(recent', brief', facts', served')
  PROVE  ThreadInv'
<1>1. step'[p] = "idle" /\ briefMax' = briefMax
  BY PlaceAndMemory
<1>2. alone => Running(p)
  BY DEF ThreadInv
<1>3. ASSUME alone
      PROVE  Resting'
  BY <1>1, <1>2, <1>3 DEF Resting
<1> QED
  BY <1>3, Alone

LEMMA AloneStart ==
  ASSUME ThreadTyped, ThreadInv, NEW p \in Procs, Thread!Start(p)
  PROVE  ThreadInv'
<1>1. /\ StepTo(p, "seeBrief", mem[p]) /\ alone' = (alone /\ \A q \in Procs : step[q] = "idle")
      /\ UNCHANGED <<recent, brief, facts, served, broken>>
  BY Goes DEF Thread!Start, Thread!disk
<1>2. /\ step'[p] = "seeBrief" /\ mem'[p] = mem[p] /\ briefMax' = briefMax
      /\ \A q \in Procs : q # p => step'[q] = step[q]
  BY <1>1, PlaceAndMemory DEF StepTo, ThreadTyped
<1>3. alone' => Resting
  BY <1>1 DEF ThreadInv
<1>4. Resting => Running(p)'
  BY <1>1, <1>2 DEF Resting, Running, RunSafe, RunFull, RestFull, Looking, Updating, Writing
<1> QED
  BY <1>1, <1>2, <1>3, <1>4 DEF ThreadInv

LEMMA AloneLooks ==
  ASSUME Thread!ThreadAssumption, ThreadTyped, ThreadInv, NEW p \in Procs,
         Thread!SeeBrief(p) \/ Thread!ReadRecent(p) \/ Thread!ReadFacts(p)
  PROVE  ThreadInv'
<1>0. mem[p] \in Memories
  BY DEF ThreadTyped
<1>1. CASE Thread!SeeBrief(p)
  <2> DEFINE m == [mem[p] EXCEPT !.brief = brief]
  <2>1. step[p] = "seeBrief" /\ StepTo(p, "seeRecent", m)
    BY <1>1, Goes
  <2>2. UNCHANGED <<recent, brief, facts, served, broken, alone>>
    BY <1>1 DEF Thread!SeeBrief, Thread!Do, Thread!disk
  <2>3. m.brief = brief
    BY <1>0 DEF Memories
  <2> HIDE DEF m
  <2>4. Running(p) => RunSafe("seeRecent", recent', brief', m, served')
    BY <2>1, <2>2 DEF Running, RunSafe, Looking, Updating, Writing
  <2>5. Running(p) /\ broken = 0 /\ briefMax = 0 =>
           RunFull("seeRecent", recent', brief', facts', m, served')
    BY <2>1, <2>2, <2>3 DEF Running, RunFull, Looking, Updating, Writing
  <2> QED
    BY <2>1, <2>2, <2>4, <2>5, AloneStep
<1>2. CASE Thread!ReadRecent(p)
  <2> DEFINE m == [mem[p] EXCEPT !.recent = recent]
  <2>1. UNCHANGED <<recent, brief, facts, served, broken, alone>>
    BY <1>2 DEF Thread!ReadRecent, Thread!Do, Thread!Stop, Thread!disk
  <2>2. m.recent = recent /\ m.brief = mem[p].brief /\ m.msg = mem[p].msg
    BY <1>0 DEF Memories
  <2>3. \/ step[p] = "seeRecent" /\ StepTo(p, "seeFacts", m)
        \/ step[p] = "loadRecent" /\ StepTo(p, "loadFacts", m)
        \/ /\ recent = Garbled /\ step[p] \in {"seeRecent", "loadRecent"}
           /\ StepTo(p, "idle", Thread!Nothing)
    BY <1>2, GoesReading, Zenon
  <2> HIDE DEF m
  <2>4. CASE step[p] = "seeRecent" /\ StepTo(p, "seeFacts", m)
    <3>1. Running(p) => RunSafe("seeFacts", recent', brief', m, served')
      BY <2>1, <2>4 DEF Running, RunSafe, Looking, Updating, Writing
    <3>2. Running(p) /\ broken = 0 /\ briefMax = 0 =>
             RunFull("seeFacts", recent', brief', facts', m, served')
      BY <2>1, <2>2, <2>4 DEF Running, RunFull, Looking, Updating, Writing
    <3> QED
      BY <2>1, <2>4, <3>1, <3>2, AloneStep
  <2>5. CASE step[p] = "loadRecent" /\ StepTo(p, "loadFacts", m)
    <3>1. Running(p) => RunSafe("loadFacts", recent', brief', m, served')
      BY <2>1, <2>2, <2>5 DEF Running, RunSafe, Looking, Updating, Writing
    <3>2. Running(p) /\ broken = 0 /\ briefMax = 0 =>
             RunFull("loadFacts", recent', brief', facts', m, served')
      BY <2>1, <2>2, <2>5 DEF Running, RunFull, Looking, Updating, Writing
    <3> QED
      BY <2>1, <2>5, <3>1, <3>2, AloneStep
  <2>6. CASE /\ recent = Garbled /\ step[p] \in {"seeRecent", "loadRecent"}
             /\ StepTo(p, "idle", Thread!Nothing)
    <3>1. ~Running(p)
      BY <2>6 DEF Running, RunSafe, RestSafe, Thread!ThreadAssumption
    <3> QED
      BY <2>1, <2>6, <3>1, AloneEnd
  <2> QED
    BY <2>3, <2>4, <2>5, <2>6
<1>3. CASE Thread!ReadFacts(p)
  <2> DEFINE m == [mem[p] EXCEPT !.facts = facts]
  <2>1. UNCHANGED <<recent, brief, facts, served, broken, alone>>
    BY <1>3 DEF Thread!ReadFacts, Thread!Do, Thread!Stop, Thread!disk
  <2>2. m.recent = mem[p].recent /\ m.brief = mem[p].brief /\ m.msg = mem[p].msg
    BY <1>0 DEF Memories
  <2>3. \/ step[p] = "seeFacts" /\ StepTo(p, "invoke", m)
        \/ step[p] = "loadFacts" /\ StepTo(p, "loadBrief", m)
        \/ /\ facts = Garbled /\ step[p] \in {"seeFacts", "loadFacts"}
           /\ StepTo(p, "idle", Thread!Nothing)
    BY <1>3, GoesReading, Zenon
  <2> HIDE DEF m
  <2>4. CASE step[p] = "seeFacts" /\ StepTo(p, "invoke", m)
    <3>1. Running(p) => RunSafe("invoke", recent', brief', m, served')
      BY <2>1, <2>4 DEF Running, RunSafe, Looking, Updating, Writing
    <3>2. Running(p) /\ broken = 0 /\ briefMax = 0 =>
             RunFull("invoke", recent', brief', facts', m, served')
      BY <2>1, <2>2, <2>4 DEF Running, RunFull, Looking, Updating, Writing
    <3> QED
      BY <2>1, <2>4, <3>1, <3>2, AloneStep
  <2>5. CASE step[p] = "loadFacts" /\ StepTo(p, "loadBrief", m)
    <3>1. Running(p) => RunSafe("loadBrief", recent', brief', m, served')
      BY <2>1, <2>2, <2>5 DEF Running, RunSafe, Looking, Updating, Writing
    <3>2. Running(p) /\ broken = 0 /\ briefMax = 0 =>
             RunFull("loadBrief", recent', brief', facts', m, served')
      BY <2>1, <2>2, <2>5 DEF Running, RunFull, Looking, Updating, Writing
    <3> QED
      BY <2>1, <2>5, <3>1, <3>2, AloneStep
  <2>6. CASE /\ facts = Garbled /\ step[p] \in {"seeFacts", "loadFacts"}
             /\ StepTo(p, "idle", Thread!Nothing)
    <3>1. Running(p) => RestSafe(recent', brief', served')
      BY <2>1 DEF Running, RunSafe
    <3>2. Running(p) => ~(broken' = 0 /\ briefMax = 0)
      BY <2>1, <2>6 DEF Running, RunFull
    <3> QED
      BY <2>1, <2>6, <3>1, <3>2, AloneEnd
  <2> QED
    BY <2>3, <2>4, <2>5, <2>6
<1> QED
  BY <1>1, <1>2, <1>3

\* The next exchange is the greatest.
LEMMA MsgsGrow ==
  ASSUME NEW t \in Thread!Windows, NEW b \in Seq(Thread!Lines), NEW n \in Nat, Files(t, b, n)
  PROVE  Files(t, b, n + 1) /\ Msgs(t, b, n + 1 - 1)
<1>1. t \in Seq(Thread!Turns) /\ n + 1 - 1 = n
  BY DEF Thread!Windows
<1>2. ASSUME NEW i \in DOMAIN t
      PROVE  t[i].msg <= n + 1
  <2>1. t[i] \in Thread!Turns
    BY <1>1
  <2>2. t[i].msg \in 1..MaxServed /\ t[i].msg <= n
    BY <2>1, MsgTyped DEF Files, Msgs
  <2> QED
    BY <2>2
<1>3. ASSUME NEW i \in DOMAIN b
      PROVE  b[i].msg <= n + 1
  <2>1. b[i] \in Thread!Lines
    OBVIOUS
  <2>2. b[i].msg \in 1..MaxServed /\ b[i].msg <= n
    BY <2>1, MsgTyped DEF Files, Msgs
  <2> QED
    BY <2>2
<1> QED
  BY <1>1, <1>2, <1>3 DEF Files, Msgs

LEMMA AloneInvokes ==
  ASSUME Thread!ThreadAssumption, ThreadTyped, ThreadInv, NEW p \in Procs, Thread!Invoke(p)
  PROVE  ThreadInv'
<1>1. PICK i \in BOOLEAN :
        StepTo(p, "loadRecent", [Thread!Nothing EXCEPT !.msg = served + 1, !.items = i])
  BY Goes
<1> DEFINE m == [Thread!Nothing EXCEPT !.msg = served + 1, !.items = i]
           n == served + 1
<1>2. /\ step[p] = "invoke" /\ served' = n
      /\ UNCHANGED <<recent, brief, facts, broken, alone>>
  BY DEF Thread!Invoke, Thread!Do, Thread!disk
<1>3. m.msg = n
  <2>1. Thread!Nothing \in Memories
    BY Empty
  <2> QED
    BY <2>1 DEF Memories
<1>4. served \in Nat /\ brief \in Seq(Thread!Lines) /\ n - 1 = served
  BY DEF ThreadTyped, Thread!ThreadAssumption
<1>5. Running(p) => RestSafe(recent, brief, n) /\ Msgs(recent, brief, n - 1)
  BY <1>4, MsgsGrow DEF Running, RunSafe, RestSafe
<1> HIDE DEF m, n
<1>6. Running(p) => RunSafe("loadRecent", recent', brief', m, served')
  BY <1>2, <1>3, <1>5 DEF RunSafe, Updating, Writing
<1>7. Running(p) /\ broken = 0 /\ briefMax = 0 => facts # Garbled /\ Full(recent, brief, n - 1)
  BY <1>2, <1>4 DEF Running, RunFull, Looking
<1>8. Running(p) /\ broken = 0 /\ briefMax = 0 =>
         RunFull("loadRecent", recent', brief', facts', m, served')
  BY <1>2, <1>7 DEF RunFull, Looking, Updating, Writing
<1> QED
  BY <1>1, <1>2, <1>6, <1>8, AloneStep DEF m

LEMMA AloneLoads ==
  ASSUME Thread!ThreadAssumption, ThreadTyped, ThreadInv, NEW p \in Procs, Thread!LoadBrief(p)
  PROVE  ThreadInv'
<1> DEFINE w == Thread!NewRecent(p)
           c == Thread!NewBrief(p)
           m == [mem[p] EXCEPT !.recent = w, !.brief = c]
<1>1. step[p] = "loadBrief" /\ StepTo(p, "truncateRecent", m)
  BY Goes
<1>2. UNCHANGED <<recent, brief, facts, served, broken, alone>>
  BY DEF Thread!LoadBrief, Thread!Do, Thread!disk
<1>3. mem[p] \in Memories /\ mem[p].msg \in 1..MaxServed /\ brief \in Seq(Thread!Lines)
  BY <1>1 DEF ThreadTyped, Updating
<1>4. briefMax \in Nat
  BY DEF ThreadTyped, Thread!ThreadAssumption
<1>5. /\ w = Thread!Window(Thread!WithExchange(mem[p].recent, mem[p].msg))
      /\ c = Thread!Trimmed(Thread!WithLatest(
               Moved(brief, Thread!WithExchange(mem[p].recent, mem[p].msg)), mem[p].msg))
  BY DEF Thread!NewRecent, Thread!NewBrief, Moved
<1>6. m.recent = w /\ m.brief = c
  BY <1>3 DEF Memories
<1> HIDE DEF w, c, m
<1>7. Running(p) => /\ mem[p].recent = recent /\ mem[p].msg = served /\ recent \in Thread!Windows
                    /\ Thread!Once(recent, brief) /\ Msgs(recent, brief, served - 1)
                    /\ RestSafe(recent, brief, served)
  BY <1>1 DEF Running, RunSafe, RestSafe, Files, Updating
<1>8. Running(p) => /\ Files(w, c, served) /\ Files(w, brief, served)
                    /\ briefMax = 0 /\ Full(recent, brief, served - 1) => Full(w, c, served)
  BY <1>3, <1>4, <1>5, <1>7, NewFiles
<1>9. Running(p) => RunSafe("truncateRecent", recent', brief', m, served')
  BY <1>2, <1>6, <1>7, <1>8 DEF RunSafe, Updating, Writing
<1>10. Running(p) /\ broken = 0 /\ briefMax = 0 =>
          /\ facts # Garbled /\ Full(recent, brief, served - 1)
  BY <1>1 DEF Running, RunFull, Updating
<1>11. Running(p) /\ broken = 0 /\ briefMax = 0 =>
          RunFull("truncateRecent", recent', brief', facts', m, served')
  BY <1>2, <1>6, <1>8, <1>10 DEF RunFull, Looking, Updating, Writing
<1> QED
  BY <1>1, <1>2, <1>9, <1>11, AloneStep

LEMMA AloneWrites ==
  ASSUME Thread!ThreadAssumption, ThreadTyped, ThreadInv, NEW p \in Procs,
         \/ Thread!TruncateRecent(p) \/ Thread!WriteRecent(p) \/ Thread!TruncateBrief(p)
         \/ Thread!WriteBrief(p) \/ Thread!TruncateFacts(p) \/ Thread!WriteFacts(p)
  PROVE  ThreadInv'
<1>0. mem[p] \in Memories /\ << >> \in Thread!Windows
  BY Empty DEF ThreadTyped
<1>1. CASE Thread!TruncateRecent(p)
  <2>1. step[p] = "truncateRecent" /\ StepTo(p, "writeRecent", mem[p])
    BY <1>1, Goes
  <2>2. recent' = << >> /\ UNCHANGED <<brief, facts, served, broken, alone>>
    BY <1>1 DEF Thread!TruncateRecent, Thread!Do
  <2>3. Running(p) => RestSafe(<< >>, brief, served)
    BY <1>0, OnceEmpty DEF Running, RunSafe, RestSafe
  <2>4. Running(p) => RunSafe("writeRecent", recent', brief', mem[p], served')
    BY <2>1, <2>2, <2>3 DEF Running, RunSafe, Updating, Writing
  <2>5. Running(p) /\ broken = 0 /\ briefMax = 0 =>
           RunFull("writeRecent", recent', brief', facts', mem[p], served')
    BY <2>1, <2>2 DEF Running, RunFull, Looking, Updating, Writing
  <2> QED
    BY <2>1, <2>2, <2>4, <2>5, AloneStep
<1>2. CASE Thread!WriteRecent(p)
  <2>1. step[p] = "writeRecent" /\ StepTo(p, "truncateBrief", mem[p])
    BY <1>2, Goes
  <2>2. /\ recent' = mem[p].recent \/ recent # << >>
        /\ UNCHANGED <<brief, facts, served, broken, alone>>
    BY <1>2 DEF Thread!WriteRecent, Thread!Do
  <2>3. Running(p) => recent' = mem[p].recent
    BY <2>1, <2>2 DEF Running, RunSafe
  <2>4. mem[p].recent \in Thread!Windows
    BY <1>0 DEF Memories
  <2>5. Running(p) => RunSafe("truncateBrief", recent', brief', mem[p], served')
    BY <2>1, <2>2, <2>3, <2>4 DEF Running, RunSafe, RestSafe, Updating, Writing
  <2>6. Running(p) /\ broken = 0 /\ briefMax = 0 =>
           RunFull("truncateBrief", recent', brief', facts', mem[p], served')
    BY <2>1, <2>2 DEF Running, RunFull, Looking, Updating, Writing
  <2> QED
    BY <2>1, <2>2, <2>5, <2>6, AloneStep
<1>3. CASE Thread!TruncateBrief(p)
  <2>1. step[p] = "truncateBrief" /\ StepTo(p, "writeBrief", mem[p])
    BY <1>3, Goes
  <2>2. brief' = << >> /\ UNCHANGED <<recent, facts, served, broken, alone>>
    BY <1>3 DEF Thread!TruncateBrief, Thread!Do
  <2>3. Running(p) => RestSafe(recent, << >>, served)
    BY OnceEmpty DEF Running, RunSafe, RestSafe
  <2>4. Running(p) => RunSafe("writeBrief", recent', brief', mem[p], served')
    BY <2>1, <2>2, <2>3 DEF Running, RunSafe, Updating, Writing
  <2>5. Running(p) /\ broken = 0 /\ briefMax = 0 =>
           RunFull("writeBrief", recent', brief', facts', mem[p], served')
    BY <2>1, <2>2 DEF Running, RunFull, Looking, Updating, Writing
  <2> QED
    BY <2>1, <2>2, <2>4, <2>5, AloneStep
<1>4. CASE Thread!WriteBrief(p)
  <2>1. step[p] = "writeBrief" /\ StepTo(p, "truncateFacts", mem[p])
    BY <1>4, Goes
  <2>2. UNCHANGED <<recent, facts, served, broken, alone>>
    BY <1>4 DEF Thread!WriteBrief, Thread!Do
  <2>3. mem[p].brief \in Seq(Thread!Lines)
    BY <1>0 DEF Memories
  <2>4. Running(p) => brief' = mem[p].brief
    <3>1. PICK i \in 1..Len(brief) + 1 : brief' = mem[p].brief \o SubSeq(brief, i, Len(brief))
      BY <1>4 DEF Thread!WriteBrief
    <3>2. Running(p) => brief = << >>
      BY <2>1 DEF Running, RunSafe
    <3>3. brief = << >> => mem[p].brief \o SubSeq(brief, i, Len(brief)) = mem[p].brief
      <4> SUFFICES ASSUME brief = << >>
                   PROVE  mem[p].brief \o SubSeq(brief, i, Len(brief)) = mem[p].brief
        OBVIOUS
      <4>1. Len(brief) = 0 /\ i = 1
        OBVIOUS
      <4>2. SubSeq(brief, i, Len(brief)) = SubSeq(<< >>, 1, 0)
        BY <4>1
      <4>3. SubSeq(<< >>, 1, 0) = << >>
        OBVIOUS
      <4>4. mem[p].brief \o << >> = mem[p].brief
        BY <2>3
      <4> QED
        BY <4>2, <4>3, <4>4
    <3> QED
      BY <3>1, <3>2, <3>3
  <2>5. Running(p) => RunSafe("truncateFacts", recent', brief', mem[p], served')
    BY <2>1, <2>2, <2>4 DEF Running, RunSafe, RestSafe, Updating, Writing
  <2>6. Running(p) /\ broken = 0 /\ briefMax = 0 =>
           RunFull("truncateFacts", recent', brief', facts', mem[p], served')
    BY <2>1, <2>2, <2>4 DEF Running, RunFull, Looking, Updating, Writing
  <2> QED
    BY <2>1, <2>2, <2>5, <2>6, AloneStep
<1>5. CASE Thread!TruncateFacts(p)
  <2>1. step[p] = "truncateFacts" /\ StepTo(p, "writeFacts", mem[p])
    BY <1>5, Goes
  <2>2. facts' = Garbled /\ UNCHANGED <<recent, brief, served, broken, alone>>
    BY <1>5 DEF Thread!TruncateFacts, Thread!Do
  <2>3. Running(p) => RunSafe("writeFacts", recent', brief', mem[p], served')
    BY <2>1, <2>2 DEF Running, RunSafe, Updating, Writing
  <2>4. Running(p) /\ broken = 0 /\ briefMax = 0 =>
           RunFull("writeFacts", recent', brief', facts', mem[p], served')
    BY <2>1, <2>2 DEF Running, RunFull, Looking, Updating, Writing
  <2> QED
    BY <2>1, <2>2, <2>3, <2>4, AloneStep
<1>6. CASE Thread!WriteFacts(p)
  <2>1. step[p] = "writeFacts" /\ StepTo(p, "idle", Thread!Nothing)
    BY <1>6, Goes
  <2>2. UNCHANGED <<recent, brief, served, broken, alone>>
    BY <1>6 DEF Thread!WriteFacts, Thread!Do
  <2>3. Running(p) => RestSafe(recent', brief', served')
    BY <2>2 DEF Running, RunSafe
  <2>4. Running(p) /\ broken = 0 /\ briefMax = 0 => Full(recent, brief, served) /\ facts = Garbled
    BY <2>1 DEF Running, RunSafe, RunFull, Writing
  <2>5. facts' \in {mem[p].msg, mem[p].facts} \/ facts # Garbled
    BY <1>6 DEF Thread!WriteFacts
  <2>6. mem[p].msg \in Nat /\ mem[p].facts \in Nat /\ Garbled \notin Nat
    BY <1>0 DEF Memories, Thread!ThreadAssumption
  <2>7. Running(p) /\ broken' = 0 /\ briefMax = 0 => RestFull(recent', brief', facts', served')
    BY <2>2, <2>4, <2>5, <2>6 DEF RestFull
  <2> QED
    BY <2>1, <2>2, <2>3, <2>7, AloneEnd
<1> QED
  BY <1>1, <1>2, <1>3, <1>4, <1>5, <1>6

LEMMA AloneKill ==
  ASSUME ThreadTyped, ThreadInv, NEW p \in Procs, Thread!Kill(p)
  PROVE  ThreadInv'
<1>1. step[p] # "idle" /\ StepTo(p, "idle", Thread!Nothing)
  BY Goes
<1>2. broken' = broken + 1 /\ UNCHANGED <<recent, brief, facts, served, alone>>
  BY DEF Thread!Kill, Thread!disk
<1>3. broken' # 0
  BY <1>2 DEF ThreadTyped
<1>4. Running(p) => RestSafe(recent', brief', served')
  BY <1>2 DEF Running, RunSafe
<1> QED
  BY <1>1, <1>2, <1>3, <1>4, AloneEnd

LEMMA AloneNext ==
  ASSUME Thread!ThreadAssumption, ThreadTyped, ThreadInv, [Thread!Next]_Thread!vars
  PROVE  ThreadInv'
<1>1. CASE UNCHANGED Thread!vars
  BY <1>1 DEF ThreadInv, Resting, Running, Thread!vars, Thread!disk
<1> QED
  BY <1>1, AloneStart, AloneLooks, AloneInvokes, AloneLoads, AloneWrites, AloneKill, Zenon
     DEF Thread!Next

-----------------------------------------------------------------------------
(* What they promise.                                                       *)

LEMMA ThreadKeeps ==
  Spec => [](part = "thread" => ThreadTyped /\ ThreadInv /\ alone \in BOOLEAN)
<1> DEFINE Inv == part = "thread" => ThreadTyped /\ ThreadInv /\ alone \in BOOLEAN
<1>0. Thread!ThreadAssumption
  BY HostAssumption DEF HostAssumption
<1>1. Init => Inv
  <2>1. Init /\ part = "thread" => Thread!Init
    BY DEF Init
  <2>2. Thread!Init => alone \in BOOLEAN
    BY DEF Thread!Init
  <2> QED
    BY <1>0, <2>1, <2>2, ThreadInit, AloneInit
<1>2. Inv /\ [Next]_vars => Inv'
  <2> SUFFICES ASSUME Inv, [Next]_vars, part' = "thread"
               PROVE  ThreadTyped' /\ ThreadInv' /\ alone' \in BOOLEAN
    OBVIOUS
  <2>1. part = "thread" /\ [Thread!Next]_threadVars
    BY DEF Next, vars
  <2>2. [Thread!Next]_Thread!vars
    BY <2>1, Zenon DEF threadVars, Thread!vars, Thread!disk
  <2>3. alone' \in {TRUE, FALSE, alone}
    <3>1. ASSUME NEW p \in Procs, Thread!Start(p)
          PROVE  alone' \in BOOLEAN
      BY <3>1, Zenon DEF Thread!Start
    <3>2. CASE alone' = alone
      BY <3>2
    <3>3. Thread!Next => alone' = alone \/ \E p \in Procs : Thread!Start(p)
      BY Zenon DEF Thread!Next, Thread!SeeBrief, Thread!ReadRecent, Thread!ReadFacts,
         Thread!Invoke, Thread!LoadBrief, Thread!TruncateRecent, Thread!WriteRecent,
         Thread!TruncateBrief, Thread!WriteBrief, Thread!TruncateFacts, Thread!WriteFacts,
         Thread!Kill, Thread!Do, Thread!Stop
    <3>4. UNCHANGED Thread!vars => alone' = alone
      BY DEF Thread!vars
    <3> QED
      BY <2>2, <3>1, <3>2, <3>3, <3>4
  <2> QED
    BY <1>0, <2>1, <2>2, <2>3, TypedNext, AloneNext
<1> QED
  BY <1>1, <1>2, PTL DEF Spec

LEMMA Promised ==
  ASSUME Thread!ThreadAssumption, ThreadTyped, ThreadInv, alone \in BOOLEAN
  PROVE  Thread!TypeOK /\ Thread!EachTurnIsToldOnce /\ Thread!LatestIsSummarised
<1>1. Thread!TypeOK
  <2>1. Steps \subseteq Thread!Range(Thread!Script)
    <3>1. Thread!Range(Thread!Script) =
             {"seeBrief", "seeRecent", "seeFacts", "invoke", "loadRecent", "loadFacts",
              "loadBrief", "truncateRecent", "writeRecent", "truncateBrief", "writeBrief",
              "truncateFacts", "writeFacts", "idle"}
      BY DEF Thread!Range, Thread!Script
    <3> QED
      BY <3>1 DEF Steps, Looking, Updating, Writing
  <2>2. ASSUME NEW p \in Procs
        PROVE  /\ step[p] \in Thread!Range(Thread!Script)
               /\ mem[p].recent \in Thread!Windows /\ mem[p].brief \in Seq(Thread!Lines)
               /\ mem[p].facts \in 0..MaxServed /\ mem[p].msg \in 0..MaxServed
               /\ mem[p].items \in BOOLEAN
    <3>1. step[p] \in Steps /\ mem[p] \in Memories
      BY DEF ThreadTyped
    <3> QED
      BY <2>1, <3>1 DEF Memories
  <2>3. served \in Nat
    BY DEF ThreadTyped, Thread!ThreadAssumption
  <2> QED
    BY <2>2, <2>3 DEF ThreadTyped, Thread!TypeOK
<1>2. Thread!PromptKnowsThePast
  <2> SUFFICES ASSUME Thread!Undisturbed, briefMax = 0, NEW p \in Procs, step[p] = "invoke"
               PROVE  Thread!Told(p) = Conversation(served)
    BY DEF Thread!PromptKnowsThePast, Conversation
  <2>1. RunFull("invoke", recent, brief, facts, mem[p], served)
    BY DEF ThreadInv, Running, Thread!Undisturbed
  <2> QED
    BY <2>1 DEF RunFull, Looking, Full, Thread!Told
<1>3. Thread!NoTurnTwice
  <2>1. CASE \A p \in Procs : step[p] = "idle"
    BY <2>1 DEF ThreadInv, Resting, RestSafe, Files, Thread!NoTurnTwice
  <2>2. CASE \E p \in Procs : step[p] # "idle"
    BY <2>2 DEF ThreadInv, Running, RunSafe, RestSafe, Files, Thread!NoTurnTwice
  <2> QED
    BY <2>1, <2>2
<1>4. Thread!LatestIsSummarised
  <2> SUFFICES ASSUME Thread!Undisturbed, briefMax = 0, served > 0,
                      \A p \in Procs : step[p] = "idle"
               PROVE  \E i \in DOMAIN brief : /\ {j \in DOMAIN brief : brief[j].latest} = {i}
                                              /\ brief[i].msg = served
    BY DEF Thread!LatestIsSummarised
  <2>1. OneLatest(brief, served)
    BY DEF ThreadInv, Resting, RestFull, Full, Thread!Undisturbed
  <2>2. served # 0
    BY DEF ThreadTyped
  <2> QED
    BY <2>1, <2>2 DEF OneLatest
<1> QED
  BY <1>1, <1>2, <1>3, <1>4 DEF Thread!EachTurnIsToldOnce

\* However the exchanges fill the window, none is forgotten and none is there twice.
THEOREM TurnsAreKept == Spec => []EachTurnIsToldOnce
<1>1. Thread!ThreadAssumption
  BY HostAssumption DEF HostAssumption
<1>2. (part = "thread" => ThreadTyped /\ ThreadInv /\ alone \in BOOLEAN) => EachTurnIsToldOnce
  BY <1>1, Promised DEF EachTurnIsToldOnce
<1> QED
  BY <1>2, ThreadKeeps, PTL

\* Nor does the brief ever lack the line of the latest exchange.
THEOREM LatestIsKept == Spec => []LatestIsSummarised
<1>1. Thread!ThreadAssumption
  BY HostAssumption DEF HostAssumption
<1>2. (part = "thread" => ThreadTyped /\ ThreadInv /\ alone \in BOOLEAN) => LatestIsSummarised
  BY <1>1, Promised DEF LatestIsSummarised
<1> QED
  BY <1>2, ThreadKeeps, PTL
=============================================================================
