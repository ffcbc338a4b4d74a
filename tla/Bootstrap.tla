------------------------------ MODULE Bootstrap -----------------------------
(***************************************************************************)
(* `conctl bootstrap` turns conos.toml into users, directories, access     *)
(* lists, unit files and enabled units.  It is a list of shell commands,   *)
(* each idempotent, of which any may fail without stopping the rest, and   *)
(* it may be killed between any two; the next bootstrap, after the same or *)
(* another conos.toml, starts from whatever is there.  What a phase does   *)
(* for several agents it may have done for some of them only.              *)
(***************************************************************************)
EXTENDS Naturals, FiniteSets

CONSTANTS
    Agents,       \* agent names
    Undeclared,   \* an agent that conos.toml does not declare
    Configs,      \* what conos.toml may say: mode and tier of each agent
    NoKey,        \* there is no signing key file
    EmptyKey,     \* there is one, with nothing in it
    Sidecar,      \* --sidecar: no immutable bits
    MaxRuns,      \* bound: bootstraps
    MaxEdits,     \* bound: changes of conos.toml and of the instructions
    MaxFaults,    \* bound: bootstraps killed, phases with failed commands, torn reads
    MaxHands      \* bound: things done by hand, by sysadmin or operator

Modes == {"on-demand", "continuous", "cron"}
Tiers == {"officer", "operator", "worker"}
Suffixes == {"service", "path", "timer"}
NoConfig == [a \in Agents |-> Undeclared]

ASSUME BootstrapAssumption ==
    /\ Undeclared \notin [mode : Modes, tier : Tiers]
    /\ Configs \subseteq [Agents -> [mode : Modes, tier : Tiers] \cup {Undeclared}]
    /\ {NoKey, EmptyKey} \cap Nat = {}
    /\ Sidecar \in BOOLEAN
    /\ {MaxRuns, MaxEdits, MaxFaults, MaxHands} \subseteq Nat

VARIABLES
    config,    \* conos.toml
    text,      \* which version of the agents' instructions the layers hold
    cfg,       \* what the bootstrap read
    prune,     \* whether it was given --prune
    pc,
    users,     \* the tier group each user was created with
    dirs,      \* agents that have a state directory
    tasking,   \* <<src, dst>>: the access list of dst's inbox has an entry for src
    open,      \* agents whose inbox has a mask that lets such entries count
    units,     \* the unit files of each agent
    kind,      \* what each agent's service file says
    frozen,    \* the unit files with the immutable bit
    enabled,   \* the enabled units
    health,    \* the healthcheck timer
    key,       \* the artifact signing key
    doc,       \* AGENTS.md: version and mode
    sha,       \* AGENTS.md.sha256: of which version
    runs, edits, faults, hands,
    clean,     \* history: no command of this bootstrap failed
    byHand     \* history: the operator disabled the healthcheck timer, and not just
               \* when a bootstrap had looked at it

accounts == <<users, dirs, tasking, open>>
unitFiles == <<units, kind, frozen>>
documents == <<doc, sha>>
system == <<accounts, unitFiles, enabled, health, key, documents>>
bounds == <<runs, edits, faults, hands>>
vars == <<config, text, cfg, prune, pc, system, bounds, clean, byHand>>

Declared(c) == {a \in Agents : c[a] # Undeclared}

\* The units generated for an agent, and the one that is enabled for its mode.
Generated(c, a) ==
    IF c[a] = Undeclared THEN {}
    ELSE {"service"} \cup (CASE c[a].mode = "on-demand" -> {"path"}
                             [] c[a].mode = "cron" -> {"timer", "path"}
                             [] OTHER -> {})

Needed(mode) == CASE mode = "on-demand" -> "path"
                  [] mode = "continuous" -> "service"
                  [] mode = "cron" -> "timer"

ServiceKind(mode) == IF mode = "continuous" THEN "simple" ELSE "oneshot"

CanTask(c) ==
    {t \in Declared(c) \X Declared(c) :
        t[1] # t[2] /\ c[t[1]].tier \in {"officer", "operator"}}

NoDocument == [version |-> 0, mode |-> "0644"]

-----------------------------------------------------------------------------
(* Phases.                                                                  *)

\* All of the work of a phase is done, or part of it and the rest failed.
Some(work, done) ==
    /\ done \in SUBSET work
    /\ IF done = work THEN UNCHANGED <<faults, clean>>
       ELSE faults < MaxFaults /\ faults' = faults + 1 /\ clean' = FALSE

Phase(here, next) == pc = here /\ pc' = next

Reads == <<config, text, cfg, prune>>

\* conos.toml is read whole, or empty where an editor has just truncated it: a legal
\* configuration without agents.
Load ==
    /\ Phase("idle", "users") /\ runs < MaxRuns
    /\ runs' = runs + 1
    /\ prune' \in BOOLEAN
    /\ \/ cfg' = config /\ UNCHANGED faults
       \/ cfg' = NoConfig /\ faults < MaxFaults /\ faults' = faults + 1
    /\ clean' = TRUE
    /\ UNCHANGED <<config, text, system, edits, hands, byHand>>

\* An existing user keeps its groups: useradd fails, and that is ignored.
AddUsers ==
    /\ Phase("users", "directories")
    /\ \E done \in SUBSET Declared(cfg) :
         /\ Some(Declared(cfg), done)
         /\ users' = [a \in Agents |->
                        IF a \in done /\ users[a] = "none" THEN cfg[a].tier ELSE users[a]]
    /\ UNCHANGED <<Reads, dirs, tasking, open, unitFiles, enabled, health, key, documents,
                   runs, edits, hands, byHand>>

\* Mutant: a directory that is there is left alone.
MakeMissingDirectories ==
    /\ Phase("directories", "access")
    /\ \E done \in SUBSET {a \in Declared(cfg) : users[a] # "none"} :
         /\ Some(Declared(cfg), done)
         /\ dirs' = dirs \cup done /\ UNCHANGED open
    /\ UNCHANGED <<Reads, users, tasking, unitFiles, enabled, health, key, documents,
                   runs, edits, hands, byHand>>

\* Directories belong to their users, so that there must be one.  The mode of a
\* directory that is there is set anew, and with it the mask of its access list.
MakeDirectories ==
    /\ Phase("directories", "access")
    /\ \E done \in SUBSET {a \in Declared(cfg) : users[a] # "none"} :
         /\ Some(Declared(cfg), done)
         /\ dirs' = dirs \cup done /\ open' = open \ done
    /\ UNCHANGED <<Reads, users, tasking, unitFiles, enabled, health, key, documents,
                   runs, edits, hands, byHand>>

\* Entries are added and replaced, never taken away, and with each the mask becomes
\* the union of all of them.
SetAccess ==
    /\ Phase("access", "units")
    /\ \E done \in SUBSET {t \in CanTask(cfg) : users[t[1]] # "none" /\ t[2] \in dirs} :
         /\ Some(CanTask(cfg), done)
         /\ tasking' = tasking \cup done
         /\ open' = open \cup {t[2] : t \in done}
    /\ UNCHANGED <<Reads, users, dirs, unitFiles, enabled, health, key, documents,
                   runs, edits, hands, byHand>>

\* Mutant: the immutable bit of an earlier bootstrap is not taken off.
WriteUnitsAsTheyAre ==
    /\ Phase("units", "keytest")
    /\ \E done \in SUBSET Declared(cfg) :
         /\ Some(Declared(cfg), done)
         /\ units' = [a \in Agents |-> IF a \in done THEN units[a] \cup Generated(cfg, a) ELSE units[a]]
         /\ kind' = [a \in Agents |-> IF a \in done /\ "service" \notin frozen[a]
                                      THEN ServiceKind(cfg[a].mode) ELSE kind[a]]
    /\ health' = IF health = "not-found" THEN "disabled" ELSE health
    /\ UNCHANGED <<Reads, accounts, frozen, enabled, key, documents, runs, edits, hands, byHand>>

\* The immutable bit comes off, then the file is written.
WriteUnits ==
    /\ Phase("units", "keytest")
    /\ \E done \in SUBSET Declared(cfg) :
         /\ Some(Declared(cfg), done)
         /\ units' = [a \in Agents |-> IF a \in done THEN units[a] \cup Generated(cfg, a) ELSE units[a]]
         /\ frozen' = [a \in Agents |-> IF a \in done THEN frozen[a] \ Generated(cfg, a) ELSE frozen[a]]
         /\ kind' = [a \in Agents |-> IF a \in done THEN ServiceKind(cfg[a].mode) ELSE kind[a]]
    /\ health' = IF health = "not-found" THEN "disabled" ELSE health
    /\ UNCHANGED <<Reads, accounts, enabled, key, documents, runs, edits, hands, byHand>>

\* Mutant: the key is made anew.
KeyFileAnew ==
    /\ Phase("keytest", "keywrite") /\ key' = EmptyKey
    /\ UNCHANGED <<Reads, accounts, unitFiles, enabled, health, documents, bounds, clean, byHand>>

\* test -f, and the shell creates the file before anything is written to it.
KeyFile ==
    /\ IF key = NoKey THEN Phase("keytest", "keywrite") /\ key' = EmptyKey
       ELSE Phase("keytest", "stale") /\ UNCHANGED key
    /\ UNCHANGED <<Reads, accounts, unitFiles, enabled, health, documents, bounds, clean, byHand>>

KeyWrite ==
    /\ Phase("keywrite", "stale")
    /\ \E done \in SUBSET {"key"} :
         /\ Some({"key"}, done)
         /\ key' = IF done = {} THEN key ELSE runs
    /\ UNCHANGED <<Reads, accounts, unitFiles, enabled, health, documents,
                   runs, edits, hands, byHand>>

\* Unit files that this conos.toml does not generate, a commissioned agent's too.
Stale == {t \in Agents \X Suffixes : t[2] \in units[t[1]] \ Generated(cfg, t[1])}
Of(pairs, a) == {s \in Suffixes : <<a, s>> \in pairs}

\* Mutant: the files are removed, but the units stay enabled.
RemoveStaleFiles ==
    /\ Phase("stale", "healthcheck")
    /\ \E done \in SUBSET Stale :
         /\ Some(Stale, done)
         /\ units' = [a \in Agents |-> units[a] \ (Of(done, a) \ frozen[a])]
    /\ UNCHANGED <<Reads, accounts, kind, frozen, enabled, health, key, documents,
                   runs, edits, hands, byHand>>

\* Disabling does not need the file; removing one with the immutable bit fails.
RemoveStale ==
    /\ Phase("stale", "healthcheck")
    /\ \E done \in SUBSET Stale :
         /\ Some(Stale, done)
         /\ enabled' = [a \in Agents |-> enabled[a] \ Of(done, a)]
         /\ units' = [a \in Agents |-> units[a] \ (Of(done, a) \ frozen[a])]
    /\ UNCHANGED <<Reads, accounts, kind, frozen, health, key, documents,
                   runs, edits, hands, byHand>>

\* is-enabled says "disabled" of a unit file that was never enabled.
EnableHealthcheck ==
    /\ Phase("healthcheck", IF health = "disabled" THEN "enable" ELSE "turnOn")
    /\ UNCHANGED <<Reads, system, bounds, clean, byHand>>

\* systemctl enable --now, a moment after is-enabled was asked.
TurnOnHealthcheck ==
    /\ Phase("turnOn", "enable")
    /\ \E done \in SUBSET {"timer"} :
         /\ Some({"timer"}, done)
         /\ health' = IF done = {} THEN health ELSE "enabled"
    /\ UNCHANGED <<Reads, accounts, unitFiles, enabled, key, documents,
                   runs, edits, hands, byHand>>

EnableUnits ==
    /\ Phase("enable", "documents")
    /\ \E done \in SUBSET {a \in Declared(cfg) : Needed(cfg[a].mode) \in units[a]} :
         /\ Some(Declared(cfg), done)
         /\ enabled' = [a \in Agents |-> IF a \in done THEN enabled[a] \cup {Needed(cfg[a].mode)}
                                         ELSE enabled[a]]
    /\ UNCHANGED <<Reads, accounts, unitFiles, health, key, documents,
                   runs, edits, hands, byHand>>

\* chmod 0444 on every AGENTS.md that is there.
FixDocuments ==
    /\ Phase("documents", IF Sidecar THEN "assemble" ELSE "freeze")
    /\ \E done \in SUBSET Declared(cfg) :
         /\ Some(Declared(cfg), done)
         /\ doc' = [a \in Agents |-> IF a \in done /\ doc[a].version # 0
                                     THEN [doc[a] EXCEPT !.mode = "0444"] ELSE doc[a]]
    /\ UNCHANGED <<Reads, accounts, unitFiles, enabled, health, key, sha,
                   runs, edits, hands, byHand>>

Freeze ==
    /\ Phase("freeze", "assemble")
    /\ \E done \in SUBSET Agents :
         /\ Some(Agents, done)
         /\ frozen' = [a \in Agents |-> IF a \in done THEN units[a] ELSE frozen[a]]
    /\ UNCHANGED <<Reads, accounts, units, kind, enabled, health, key, documents,
                   runs, edits, hands, byHand>>

\* AGENTS.md and then its hash, into the user's home; a new file has mode 0644.
Assemble ==
    /\ Phase("assemble", IF prune THEN "prune" ELSE "complete")
    /\ \E written \in SUBSET {a \in Declared(cfg) : users[a] # "none"} :
         \E hashed \in SUBSET written :
            /\ Cardinality(written \ hashed) <= 1
            /\ Some(Declared(cfg), hashed)
            /\ doc' = [a \in Agents |->
                         IF a \notin written THEN doc[a]
                         ELSE [version |-> text,
                               mode |-> IF doc[a].version = 0 THEN "0644" ELSE doc[a].mode]]
            /\ sha' = [a \in Agents |-> IF a \in hashed THEN text ELSE sha[a]]
    /\ UNCHANGED <<Reads, accounts, unitFiles, enabled, health, key,
                   runs, edits, hands, byHand>>

\* What --prune finds: directories, and unit files, of agents not declared.
Pruned == ({"units"} \X {a \in Agents \ Declared(cfg) : units[a] # {}})
          \cup ({"user", "directory"} \X (dirs \ Declared(cfg)))

\* Mutant: the immutable bit is left on the unit files.
PruneFrozen ==
    /\ Phase("prune", "complete")
    /\ \E done \in SUBSET Pruned :
         /\ Some(Pruned, done)
         /\ enabled' = [a \in Agents |-> IF <<"units", a>> \in done THEN {} ELSE enabled[a]]
         /\ units' = [a \in Agents |-> IF <<"units", a>> \in done THEN frozen[a] ELSE units[a]]
         /\ users' = [a \in Agents |-> IF <<"user", a>> \in done THEN "none" ELSE users[a]]
         /\ doc' = [a \in Agents |-> IF <<"user", a>> \in done THEN NoDocument ELSE doc[a]]
         /\ sha' = [a \in Agents |-> IF <<"user", a>> \in done THEN 0 ELSE sha[a]]
         /\ dirs' = {a \in dirs : <<"directory", a>> \notin done}
         /\ open' = {a \in open : <<"directory", a>> \notin done}
         /\ tasking' = {t \in tasking : <<"directory", t[2]>> \notin done}
    /\ UNCHANGED <<Reads, kind, frozen, health, key, runs, edits, hands, byHand>>

\* Removing a user removes its home.  Units are disabled, made mutable, removed.
Prune ==
    /\ Phase("prune", "complete")
    /\ \E done \in SUBSET Pruned :
         /\ Some(Pruned, done)
         /\ enabled' = [a \in Agents |-> IF <<"units", a>> \in done THEN {} ELSE enabled[a]]
         /\ units' = [a \in Agents |-> IF <<"units", a>> \in done THEN {} ELSE units[a]]
         /\ frozen' = [a \in Agents |-> IF <<"units", a>> \in done THEN {} ELSE frozen[a]]
         /\ users' = [a \in Agents |-> IF <<"user", a>> \in done THEN "none" ELSE users[a]]
         /\ doc' = [a \in Agents |-> IF <<"user", a>> \in done THEN NoDocument ELSE doc[a]]
         /\ sha' = [a \in Agents |-> IF <<"user", a>> \in done THEN 0 ELSE sha[a]]
         /\ dirs' = {a \in dirs : <<"directory", a>> \notin done}
         /\ open' = {a \in open : <<"directory", a>> \notin done}
         /\ tasking' = {t \in tasking : <<"directory", t[2]>> \notin done}
    /\ UNCHANGED <<Reads, kind, health, key, runs, edits, hands, byHand>>

Finish ==
    /\ Phase("complete", "idle")
    /\ UNCHANGED <<Reads, system, bounds, clean, byHand>>

-----------------------------------------------------------------------------
(* Everything else.                                                         *)

Kill ==
    /\ pc \notin {"idle", "complete"} /\ faults < MaxFaults
    /\ pc' = "idle" /\ faults' = faults + 1 /\ clean' = FALSE
    /\ UNCHANGED <<Reads, system, runs, edits, hands, byHand>>

\* The operator edits conos.toml or the instructions.
Edit ==
    /\ pc = "idle" /\ edits < MaxEdits
    /\ edits' = edits + 1
    /\ \/ config' \in Configs \ {config} /\ UNCHANGED text
       \/ text' = text + 1 /\ UNCHANGED config
    /\ UNCHANGED <<cfg, prune, pc, system, runs, faults, hands, clean, byHand>>

\* The sysadmin commissions an agent that conos.toml does not declare.
Commission(a) ==
    /\ pc = "idle" /\ hands < MaxHands
    /\ a \notin Declared(config) /\ a \notin dirs
    /\ hands' = hands + 1
    /\ users' = [users EXCEPT ![a] = IF @ = "none" THEN "worker" ELSE @]
    /\ dirs' = dirs \cup {a}
    /\ units' = [units EXCEPT ![a] = @ \cup {"service", "path"}]
    /\ kind' = [kind EXCEPT ![a] = "oneshot"]
    /\ enabled' = [enabled EXCEPT ![a] = @ \cup {"path"}]
    /\ UNCHANGED <<Reads, pc, tasking, open, frozen, health, key, documents,
                   runs, edits, faults, clean, byHand>>

\* The operator enables or disables the healthcheck timer, at any time.
SetHealthcheck ==
    /\ hands < MaxHands /\ health # "not-found"
    /\ hands' = hands + 1
    /\ health' \in {"enabled", "disabled"} \ (IF byHand THEN {"disabled"} ELSE {})
    /\ byHand' = (health' = "disabled" /\ pc # "turnOn")
    /\ UNCHANGED <<Reads, pc, accounts, unitFiles, enabled, key, documents,
                   runs, edits, faults, clean>>

Init ==
    /\ config \in Configs /\ text = 1
    /\ cfg = NoConfig /\ prune = FALSE /\ pc = "idle"
    /\ users = [a \in Agents |-> "none"] /\ dirs = {} /\ tasking = {} /\ open = {}
    /\ units = [a \in Agents |-> {}] /\ kind = [a \in Agents |-> "oneshot"]
    /\ frozen = [a \in Agents |-> {}] /\ enabled = [a \in Agents |-> {}]
    /\ health = "not-found" /\ key = NoKey
    /\ doc = [a \in Agents |-> NoDocument] /\ sha = [a \in Agents |-> 0]
    /\ runs = 0 /\ edits = 0 /\ faults = 0 /\ hands = 0
    /\ clean = TRUE /\ byHand = FALSE

Next ==
    \/ Load \/ AddUsers \/ MakeDirectories \/ SetAccess \/ WriteUnits
    \/ KeyFile \/ KeyWrite \/ RemoveStale \/ EnableHealthcheck
    \/ TurnOnHealthcheck \/ EnableUnits \/ FixDocuments \/ Freeze \/ Assemble
    \/ Prune \/ Finish
    \/ Kill \/ Edit \/ SetHealthcheck \/ \E a \in Agents : Commission(a)

Spec == Init /\ [][Next]_vars

-----------------------------------------------------------------------------
(* The doctor's look at the inboxes: mode 700 to a path without access      *)
(* list; the group's bits are the mask's where there is one.                *)

\* The largest of the entries' bits: an entry of an inbox is rwx.
AclMask(c, a) == IF \E s \in Agents : <<s, a>> \in CanTask(c) THEN 7 ELSE 0

\* What the mode is expected to show in the place of the group, and what it does show.
EffectiveGroup(group, mask) == IF mask > group THEN mask ELSE group
StatGroup(a) == IF a \in open THEN 7 ELSE 0

\* The agents of whom the doctor reports that the inbox is missing or its mode wrong.
InboxFindings(c) ==
    {a \in Declared(c) : a \notin dirs \/ StatGroup(a) # EffectiveGroup(0, AclMask(c, a))}

-----------------------------------------------------------------------------
(* Properties.                                                              *)

\* The state has the expected shape; a unit that is enabled or immutable exists.
TypeOK ==
    /\ config \in Configs /\ cfg \in Configs \cup {NoConfig}
    /\ users \in [Agents -> Tiers \cup {"none"}] /\ dirs \subseteq Agents
    /\ tasking \subseteq Agents \X dirs /\ open \subseteq dirs
    /\ \A a \in Agents : units[a] \subseteq Suffixes /\ enabled[a] \cup frozen[a] \subseteq units[a]
    /\ kind \in [Agents -> {"oneshot", "simple"}]
    /\ health \in {"not-found", "disabled", "enabled"}
    /\ key \in {NoKey, EmptyKey} \cup 1..MaxRuns
    /\ \A a \in Agents : doc[a].version \in 0..text /\ sha[a] \in 0..text

Completed == pc = "complete" /\ clean

\* Who may write to whose inbox.
MayTask == {t \in tasking : t[2] \in open}

\* Whatever earlier bootstraps, of whatever conos.toml, left behind where they
\* failed or died: one that runs through gives every declared agent its user,
\* its directory, its units in the form its mode asks for, the right one of them
\* enabled, and instructions that match their hash; and lets officers and
\* operators task the others.
CompletedConverges ==
    Completed => CanTask(cfg) \subseteq MayTask /\ \A a \in Declared(cfg) :
       /\ users[a] # "none" /\ a \in dirs
       /\ Generated(cfg, a) \subseteq units[a]
       /\ kind[a] = ServiceKind(cfg[a].mode)
       /\ Needed(cfg[a].mode) \in enabled[a]
       /\ doc[a].version = sha[a] /\ sha[a] # 0

\* After it no unit is enabled that this conos.toml does not generate: neither an
\* agent that was taken out nor the timer of an earlier mode starts again.
NothingStaleIsEnabled ==
    Completed => \A a \in Agents : enabled[a] \subseteq Generated(cfg, a)

KeyIsKept == key \notin {NoKey, EmptyKey} => key' = key
DisabledStaysDisabled == byHand /\ byHand' => health' = "disabled"

\* "safe to re-run": through every re-run, failure and kill the signing key stays,
\* and with it the links signed with it, and the healthcheck timer stays disabled
\* where the operator disabled it, until the operator enables it (manifest.go:371,
\* 513); but not if that was between a bootstrap's is-enabled and its enable (516).
RerunsAreSafe == [][KeyIsKept /\ DisabledStaysDisabled]_vars

\* A completed --prune leaves no directory and no unit of an undeclared agent; and
\* no user, if no earlier bootstrap failed to make or to remove its directory.
PruneLeavesNothing ==
    Completed /\ prune => \A a \in Agents \ Declared(cfg) :
       /\ a \notin dirs /\ units[a] = {}
       /\ faults = 0 => users[a] = "none"

\* Of the inboxes, the paths with an access list, the doctor has nothing to report on a
\* system that a bootstrap has just gone through, whoever could task whom under an
\* earlier conos.toml.  (Of other paths of the manifest it may: some no phase makes.)
DoctorPassesInboxes == Completed => InboxFindings(cfg) = {}
=============================================================================
