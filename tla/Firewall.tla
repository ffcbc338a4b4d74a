------------------------------ MODULE Firewall ------------------------------
(***************************************************************************)
(* The outbound filter that bootstrap generates when conos.toml says       *)
(* `outbound_filter = "strict"`: an nftables table that drops what an      *)
(* agent's user sends, except to the ports its agent may use.  Bootstrap   *)
(* creates the users, writes the rules to a file, loads the file, has it   *)
(* loaded again at boot, and with --prune deletes the users of agents that *)
(* are gone.  Each command may fail while the bootstrap goes on, and the   *)
(* machine may stop between any two.                                       *)
(***************************************************************************)
EXTENDS Naturals, Sequences

CONSTANTS
    Agents,      \* agent names
    Others,      \* users that are no agent
    Ports,       \* destination ports
    Dns,         \* port 53
    Configs,     \* what conos.toml may say: the filter, and each agent's ports
    Nothing,     \* no table, no rules file
    Cut,         \* a rules file that was truncated and not written
    Sidecar,     \* --sidecar
    MaxRuns,     \* bound: bootstraps
    MaxEdits,    \* bound: changes of conos.toml
    MaxFaults,   \* bound: failed commands and killed bootstraps
    MaxBoots     \* bound: reboots

\* What the constants must be.
FirewallAssumption ==
    /\ Agents \cap Others = {} /\ Dns \in Ports
    /\ \A c \in Configs : /\ c.filter \in {"strict", "permissive"}
                          /\ DOMAIN c.ports \subseteq Agents
                          /\ \A a \in DOMAIN c.ports : c.ports[a] \subseteq Ports
    /\ {Nothing, Cut} \cap Configs = {} /\ Nothing # Cut
    /\ Sidecar \in BOOLEAN
    /\ {MaxRuns, MaxEdits, MaxFaults, MaxBoots} \subseteq Nat

VARIABLES
    config,   \* conos.toml
    cfg,      \* what the bootstrap read
    pc,
    users,    \* the agents whose users exist
    file,     \* the rules file: the configuration its rules were made from
    table,    \* the table in force, likewise
    atBoot,   \* nftables.service is enabled
    clean,    \* history: no command of this bootstrap failed
    inForce,  \* history: a strict bootstrap ran through
    torn,     \* history: a reboot found a rules file that nft does not load
    runs, edits, faults, boots

bounds == <<runs, edits, faults, boots>>
vars == <<config, cfg, pc, users, file, table, atBoot, clean, inForce, torn, bounds>>

-----------------------------------------------------------------------------
(* The rules.  A packet of an open connection is "established".             *)

Hosts == {"loopback", "resolver", "outside"}
Packets == [user : Agents \cup Others, proto : {"tcp", "udp"}, port : Ports,
            host : Hosts, state : {"new", "established"}]

Rule(packets, verdict) == [packets |-> packets, verdict |-> verdict]

\* DNS only to the local resolver; then the ports of the agent.  The rules of the
\* other agents match none of its packets.
AgentRules(c, a) ==
    LET dns(proto) == {p \in Packets : p.proto = proto /\ p.port = Dns}
        local(proto) == {p \in dns(proto) : p.host = "resolver"}
        ports == {p \in Packets : p.proto = "tcp" /\ p.port \in c.ports[a]} IN
    << Rule(local("udp"), "accept"), Rule(dns("udp"), "drop"),
       Rule(local("tcp"), "accept"), Rule(dns("tcp"), "drop"), Rule(ports, "accept") >>

\* The rules of the table that may match a user's packets, in their order.
Chain(c, user) ==
    << Rule({p \in Packets : p.host \in {"loopback", "resolver"}}, "accept"),
       Rule({p \in Packets : p.state = "established"}, "accept") >>
    \o (IF user \notin DOMAIN c.ports THEN << >>
        ELSE AgentRules(c, user) \o << Rule(Packets, "drop") >>)

\* The first rule that matches decides; the chain's policy is to accept.
Verdict(c, p) ==
    LET chain == Chain(c, p.user)
        matching == {i \in DOMAIN chain : p \in chain[i].packets}
        first == CHOOSE i \in matching : \A j \in matching : i <= j IN
    IF matching = {} THEN "accept" ELSE chain[first].verdict

\* The filter is on, and there is an agent.
Generates(c) == c.filter = "strict" /\ DOMAIN c.ports # {}

-----------------------------------------------------------------------------
(* The bootstrap, as far as it is about the filter.                         *)

Phase(here, next) == pc = here /\ pc' = next

\* The command does its work, or fails and is passed over.
Done == UNCHANGED <<clean, faults>>
Failed == faults < MaxFaults /\ faults' = faults + 1 /\ clean' = FALSE

Load ==
    /\ Phase("idle", "users")
    /\ runs < MaxRuns /\ runs' = runs + 1
    /\ cfg' = config /\ clean' = TRUE
    /\ UNCHANGED <<config, users, file, table, atBoot, inForce, torn, edits, faults, boots>>

\* A useradd that fails is passed over (`|| true`).
AddUsers ==
    /\ Phase("users", IF Generates(cfg) THEN "open" ELSE "prune")
    /\ \/ users' = users \cup DOMAIN cfg.ports /\ Done
       \/ \E new \in SUBSET (DOMAIN cfg.ports \ users) : Failed /\ users' = users \cup new
    /\ UNCHANGED <<config, cfg, file, table, atBoot, inForce, torn, runs, edits, boots>>

\* cat > file: the shell truncates it.
Open ==
    /\ Phase("open", "fill")
    /\ \/ file' = Cut /\ Done
       \/ Failed /\ UNCHANGED file
    /\ UNCHANGED <<config, cfg, users, table, atBoot, inForce, torn, runs, edits, boots>>

Fill ==
    /\ Phase("fill", "apply")
    /\ \/ file' = (IF file = Cut THEN cfg ELSE file) /\ Done
       \/ Failed /\ UNCHANGED file
    /\ UNCHANGED <<config, cfg, users, table, atBoot, inForce, torn, runs, edits, boots>>

\* nft resolves the names of the users as it reads the rules, and loads all or none.
Loads(f) == f \in Configs /\ DOMAIN f.ports \subseteq users

\* Mutant: the old table is deleted by a command of its own.
ApplyAfterDelete ==
    /\ Phase("apply", IF Sidecar THEN "prune" ELSE "enable")
    /\ \/ table' = (IF Loads(file) THEN file ELSE table) /\ Done
       \/ Failed /\ table' = Nothing
    /\ UNCHANGED <<config, cfg, users, file, atBoot, inForce, torn, runs, edits, boots>>

\* nft -f replaces the whole table or leaves it as it was.
Apply ==
    /\ Phase("apply", IF Sidecar THEN "prune" ELSE "enable")
    /\ \/ table' = (IF Loads(file) THEN file ELSE table) /\ Done
       \/ Failed /\ UNCHANGED table
    /\ UNCHANGED <<config, cfg, users, file, atBoot, inForce, torn, runs, edits, boots>>

Enable ==
    /\ Phase("enable", "prune")
    /\ \/ atBoot' = TRUE /\ Done
       \/ Failed /\ UNCHANGED atBoot
    /\ UNCHANGED <<config, cfg, users, file, table, inForce, torn, runs, edits, boots>>

\* Without --prune none; with it those of the agents that conos.toml no longer has,
\* but for the ones whose userdel fails or who have no state directory.
Prune ==
    /\ Phase("prune", "complete")
    /\ \E gone \in SUBSET (users \ DOMAIN cfg.ports) : users' = users \ gone
    /\ UNCHANGED <<config, cfg, file, table, atBoot, clean, inForce, torn, bounds>>

Finish ==
    /\ Phase("complete", "idle")
    /\ inForce' = (inForce \/ (clean /\ Generates(cfg)))
    /\ UNCHANGED <<config, cfg, users, file, table, atBoot, clean, torn, bounds>>

Kill ==
    /\ pc # "idle" /\ faults < MaxFaults /\ faults' = faults + 1
    /\ pc' = "idle" /\ clean' = FALSE
    /\ UNCHANGED <<config, cfg, users, file, table, atBoot, inForce, torn, runs, edits, boots>>

\* In a sidecar the rules are in a file that the host does not load.
Reboot ==
    /\ boots < MaxBoots /\ boots' = boots + 1
    /\ pc' = "idle"
    /\ table' = IF atBoot /\ ~Sidecar /\ Loads(file) THEN file ELSE Nothing
    /\ torn' = (torn \/ ~Loads(file)) /\ clean' = (clean /\ pc = "idle")
    /\ UNCHANGED <<config, cfg, users, file, atBoot, inForce, runs, edits, faults>>

Edit ==
    /\ edits < MaxEdits /\ edits' = edits + 1
    /\ config' \in Configs \ {config}
    /\ UNCHANGED <<cfg, pc, users, file, table, atBoot, clean, inForce, torn, runs, faults, boots>>

Init ==
    /\ config \in Configs /\ cfg = config /\ pc = "idle"
    /\ users = {} /\ file = Nothing /\ table = Nothing /\ atBoot = FALSE
    /\ clean = FALSE /\ inForce = FALSE /\ torn = FALSE
    /\ runs = 0 /\ edits = 0 /\ faults = 0 /\ boots = 0

Next ==
    \/ Load \/ AddUsers \/ Open \/ Fill \/ Apply \/ Enable \/ Prune \/ Finish
    \/ Kill \/ Reboot \/ Edit

Spec == Init /\ [][Next]_vars

-----------------------------------------------------------------------------
(* Properties.                                                              *)

\* A table is always one that some strict conos.toml asked for.
TypeOK ==
    /\ {config, cfg} \subseteq Configs
    /\ pc \in {"idle", "users", "open", "fill", "apply", "enable", "prune", "complete"}
    /\ users \subseteq Agents
    /\ file \in {c \in Configs : c.filter = "strict"} \cup {Nothing, Cut}
    /\ table \in {c \in Configs : c.filter = "strict"} \cup {Nothing}
    /\ {atBoot, clean, inForce, torn} \subseteq BOOLEAN
    /\ {runs, edits, faults, boots} \subseteq Nat

\* What the filter is to do, without regard to the order of its rules: everyone may
\* reach the machine itself; beyond it an agent opens TCP connections to its ports,
\* and never to port 53 (nftables.go:38); and who is no agent is not filtered.
Allowed(c, p) ==
    \/ p.host \in {"loopback", "resolver"} \/ p.state = "established"
    \/ p.user \notin DOMAIN c.ports
    \/ p.proto = "tcp" /\ p.port \in c.ports[p.user] \ {Dns}

FilterIsTheAllowlist ==
    table # Nothing =>
        \A p \in Packets : (Verdict(table, p) = "accept") <=> Allowed(table, p)

FilterStaysInForce == inForce /\ ~torn /\ ~Sidecar => table # Nothing

CleanRunIsInForce ==
    clean /\ pc = "idle" /\ Generates(cfg) /\ ~Sidecar => table = cfg /\ Loads(file)

\* Once a strict bootstrap ran through, no later bootstrap that fails or is killed and
\* no reboot leaves the machine without a filter (except a reboot that finds rules that
\* do not load, and sidecars); what is in force, read rule by rule, lets through what
\* it is to let through; and after a bootstrap without a failed command it is the one
\* of its conos.toml, over reboots too: every user that the rules on disk name exists,
\* whatever was pruned and whatever went wrong before.
FilterHolds == FilterStaysInForce /\ FilterIsTheAllowlist /\ CleanRunIsInForce
=============================================================================
