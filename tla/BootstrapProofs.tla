-------------------------- MODULE BootstrapProofs ---------------------------
(***************************************************************************)
(* What re-runs of bootstrap never do, and what one that runs through has  *)
(* done, for every set of agents, every sequence of configurations, and    *)
(* every number of failures and kills.                                     *)
(***************************************************************************)
EXTENDS Bootstrap, TLAPS

-----------------------------------------------------------------------------
(* The signing key and the healthcheck timer.                               *)

\* The key file is written only while it is empty, and what the operator disabled
\* is disabled; a bootstrap that is about to enable the timer found it otherwise.
SafeInv ==
    /\ pc = "keywrite" => key = EmptyKey
    /\ byHand => health = "disabled"
    /\ pc = "turnOn" => ~byHand

LEMMA SafeInit == Init => SafeInv
BY DEF Init, SafeInv

\* The phases and events that touch neither the key nor the timer.
Elsewhere ==
    \/ Load \/ AddUsers \/ MakeDirectories \/ SetAccess \/ RemoveStale \/ EnableUnits
    \/ FixDocuments \/ Freeze \/ Assemble \/ Prune \/ Finish \/ Kill \/ Edit
    \/ \E a \in Agents : Commission(a)

LEMMA ElsewhereKeeps ==
  ASSUME Elsewhere
  PROVE  /\ UNCHANGED <<key, health, byHand>>
         /\ pc' = "keywrite" => pc = "keywrite"
         /\ pc' = "turnOn" => pc = "turnOn"
<1>1. CASE Load
  BY <1>1 DEF Load, Phase, system
<1>2. CASE AddUsers
  BY <1>2 DEF AddUsers, Phase
<1>3. CASE MakeDirectories
  BY <1>3 DEF MakeDirectories, Phase
<1>4. CASE SetAccess
  BY <1>4 DEF SetAccess, Phase
<1>5. CASE RemoveStale
  BY <1>5 DEF RemoveStale, Phase
<1>6. CASE EnableUnits
  BY <1>6 DEF EnableUnits, Phase
<1>7. CASE FixDocuments
  BY <1>7 DEF FixDocuments, Phase
<1>8. CASE Freeze
  BY <1>8 DEF Freeze, Phase
<1>9. CASE Assemble
  BY <1>9 DEF Assemble, Phase
<1>10. CASE Prune
  BY <1>10 DEF Prune, Phase
<1>11. CASE Finish
  BY <1>11 DEF Finish, Phase, system
<1>12. CASE Kill
  BY <1>12 DEF Kill, system
<1>13. CASE Edit
  BY <1>13 DEF Edit, system
<1>14. ASSUME NEW a \in Agents, Commission(a)
       PROVE  UNCHANGED <<key, health, byHand, pc>>
  BY <1>14 DEF Commission
<1> QED
  BY <1>1, <1>2, <1>3, <1>4, <1>5, <1>6, <1>7, <1>8, <1>9, <1>10, <1>11, <1>12, <1>13,
     <1>14 DEF Elsewhere

LEMMA SafeStep ==
  ASSUME SafeInv, [Next]_vars
  PROVE  SafeInv' /\ [KeyIsKept /\ DisabledStaysDisabled]_vars
<1>1. CASE Elsewhere
  BY <1>1, ElsewhereKeeps DEF SafeInv, KeyIsKept, DisabledStaysDisabled
<1>2. CASE WriteUnits
  BY <1>2 DEF WriteUnits, Phase, SafeInv, KeyIsKept, DisabledStaysDisabled
<1>3. CASE KeyFile
  BY <1>3 DEF KeyFile, Phase, SafeInv, KeyIsKept, DisabledStaysDisabled
<1>4. CASE KeyWrite
  BY <1>4 DEF KeyWrite, Phase, SafeInv, KeyIsKept, DisabledStaysDisabled
<1>5. CASE EnableHealthcheck
  BY <1>5 DEF EnableHealthcheck, Phase, system, SafeInv, KeyIsKept, DisabledStaysDisabled
<1>6. CASE SetHealthcheck
  BY <1>6 DEF SetHealthcheck, SafeInv, KeyIsKept, DisabledStaysDisabled
<1>7. CASE TurnOnHealthcheck
  BY <1>7 DEF TurnOnHealthcheck, Phase, SafeInv, KeyIsKept, DisabledStaysDisabled
<1>8. CASE UNCHANGED vars
  BY <1>8 DEF vars, system, SafeInv
<1> QED
  BY <1>1, <1>2, <1>3, <1>4, <1>5, <1>6, <1>7, <1>8 DEF Next, Elsewhere

\* "safe to re-run": no re-run, failure or kill of a bootstrap changes a signing key
\* that was made, or enables a healthcheck timer that the operator disabled, unless
\* that was after the bootstrap had asked for it.
THEOREM Reruns == Spec => RerunsAreSafe
<1>1. Spec => []SafeInv
  BY SafeInit, SafeStep, PTL DEF Spec
<1>2. SafeInv /\ [Next]_vars => [KeyIsKept /\ DisabledStaysDisabled]_vars
  BY SafeStep
<1> QED
  BY <1>1, <1>2, PTL DEF Spec, RerunsAreSafe

-----------------------------------------------------------------------------
(* Units of agents that are gone, or of modes that were given up.           *)

Declaration == [mode : Modes, tier : Tiers] \cup {Undeclared}

\* A unit that is enabled or immutable has a file.
UnitsTyped ==
    /\ config \in Configs /\ cfg \in [Agents -> Declaration]
    /\ units \in [Agents -> SUBSET Suffixes]
    /\ enabled \in [Agents -> SUBSET Suffixes]
    /\ frozen \in [Agents -> SUBSET Suffixes]
    /\ \A a \in Agents : enabled[a] \cup frozen[a] \subseteq units[a]

\* The phases after the removal of what is stale.
Late == {"healthcheck", "turnOn", "enable", "documents", "freeze", "assemble", "prune", "complete"}

OnlyGenerated == \A a \in Agents : enabled[a] \subseteq Generated(cfg, a)

\* As long as nothing failed, only units of this conos.toml are enabled from then on.
StaleInv == UnitsTyped /\ (clean /\ pc \in Late => OnlyGenerated)

\* What a mode needs is generated for it.
LEMMA NeededIsGenerated ==
  ASSUME NEW c \in [Agents -> Declaration], NEW a \in Declared(c)
  PROVE  Needed(c[a].mode) \in Generated(c, a) /\ Generated(c, a) \subseteq Suffixes
<1>1. c[a] # Undeclared /\ c[a].mode \in Modes
  BY DEF Declared, Declaration
<1> QED
  BY <1>1 DEF Needed, Generated, Modes, Suffixes

LEMMA StaleInit == Init => StaleInv
<1> SUFFICES ASSUME Init PROVE StaleInv
  OBVIOUS
<1>1. UnitsTyped
  BY DEF Init, UnitsTyped, NoConfig, Declaration
<1> QED
  BY <1>1 DEF Init, StaleInv, Late

\* The phases and events after which the same units are there and enabled, and that
\* do not come after the removal of what is stale.
LEMMA StaleElsewhere ==
  ASSUME StaleInv,
         \/ AddUsers \/ MakeDirectories \/ SetAccess \/ KeyFile \/ KeyWrite
         \/ EnableHealthcheck \/ TurnOnHealthcheck \/ FixDocuments \/ Assemble \/ Finish
         \/ Kill \/ SetHealthcheck \/ UNCHANGED vars
  PROVE  StaleInv'
<1>1. /\ UNCHANGED <<config, cfg, unitFiles, enabled>>
      /\ clean' => clean
      /\ pc' \in Late => pc \in Late
  <2>1. CASE AddUsers
    BY <2>1 DEF AddUsers, Phase, Some, Reads, Late
  <2>2. CASE MakeDirectories
    BY <2>2 DEF MakeDirectories, Phase, Some, Reads, Late
  <2>3. CASE SetAccess
    BY <2>3 DEF SetAccess, Phase, Some, Reads, Late
  <2>4. CASE KeyFile
    BY <2>4 DEF KeyFile, Phase, Reads, Late
  <2>5. CASE KeyWrite
    BY <2>5 DEF KeyWrite, Phase, Some, Reads, Late
  <2>6. CASE EnableHealthcheck
    BY <2>6 DEF EnableHealthcheck, Phase, Reads, system, Late
  <2>7. CASE FixDocuments
    BY <2>7 DEF FixDocuments, Phase, Some, Reads, Late
  <2>8. CASE Assemble
    BY <2>8 DEF Assemble, Phase, Some, Reads, Late
  <2>9. CASE Finish
    BY <2>9 DEF Finish, Phase, Reads, system, Late
  <2>10. CASE Kill
    BY <2>10 DEF Kill, Reads, system, Late
  <2>11. CASE SetHealthcheck
    BY <2>11 DEF SetHealthcheck, Reads
  <2>12. CASE TurnOnHealthcheck
    BY <2>12 DEF TurnOnHealthcheck, Phase, Some, Reads, Late
  <2>13. CASE UNCHANGED vars
    BY <2>13 DEF vars, system
  <2> QED
    BY <2>1, <2>2, <2>3, <2>4, <2>5, <2>6, <2>7, <2>8, <2>9, <2>10, <2>11, <2>12, <2>13
<1>2. UnitsTyped'
  BY <1>1 DEF StaleInv, UnitsTyped, unitFiles
<1>3. OnlyGenerated => OnlyGenerated'
  BY <1>1 DEF OnlyGenerated, Generated
<1> QED
  BY <1>1, <1>2, <1>3 DEF StaleInv

\* Another conos.toml, and the start of a bootstrap that reads one.
LEMMA StaleConfig ==
  ASSUME StaleInv, Load \/ Edit
  PROVE  StaleInv'
<1>1. CASE Load
  <2>1. config \in [Agents -> Declaration] /\ NoConfig \in [Agents -> Declaration]
    BY BootstrapAssumption DEF StaleInv, UnitsTyped, Declaration, NoConfig
  <2>2. cfg' \in [Agents -> Declaration]
    BY <1>1, <2>1 DEF Load
  <2>3. UNCHANGED <<config, unitFiles, enabled>> /\ pc' = "users"
    BY <1>1 DEF Load, Phase, system
  <2> QED
    BY <2>2, <2>3 DEF StaleInv, UnitsTyped, unitFiles, Late
<1>2. CASE Edit
  <2>1. config' \in Configs /\ UNCHANGED <<cfg, unitFiles, enabled, pc, clean>>
    BY <1>2 DEF Edit, system, StaleInv, UnitsTyped
  <2> QED
    BY <2>1 DEF StaleInv, UnitsTyped, unitFiles, OnlyGenerated, Generated
<1> QED
  BY <1>1, <1>2

\* Unit files are written, made immutable, and come with a commissioned agent: none of
\* it after the removal of what is stale, or without any unit being enabled.
LEMMA StaleFiles ==
  ASSUME StaleInv,
         WriteUnits \/ Freeze \/ \E a \in Agents : Commission(a)
  PROVE  StaleInv'
<1>1. CASE WriteUnits
  <2>1. PICK done \in SUBSET Declared(cfg) :
          /\ units' = [a \in Agents |-> IF a \in done THEN units[a] \cup Generated(cfg, a)
                                        ELSE units[a]]
          /\ frozen' = [a \in Agents |-> IF a \in done THEN frozen[a] \ Generated(cfg, a)
                                         ELSE frozen[a]]
    BY <1>1 DEF WriteUnits
  <2>2. UNCHANGED <<config, cfg, enabled>> /\ pc' = "keytest"
    BY <1>1 DEF WriteUnits, Phase, Reads
  <2>3. \A a \in done : Generated(cfg, a) \subseteq Suffixes
    BY NeededIsGenerated DEF StaleInv, UnitsTyped
  <2>4. UnitsTyped'
    BY <2>1, <2>2, <2>3 DEF StaleInv, UnitsTyped
  <2> QED
    BY <2>2, <2>4 DEF StaleInv, Late
<1>2. CASE Freeze
  <2>1. PICK done \in SUBSET Agents :
          /\ Some(Agents, done)
          /\ frozen' = [a \in Agents |-> IF a \in done THEN units[a] ELSE frozen[a]]
    BY <1>2 DEF Freeze
  <2>2. /\ UNCHANGED <<config, cfg, units, enabled>>
        /\ pc \in Late /\ (clean' => clean)
    BY <1>2, <2>1 DEF Freeze, Phase, Reads, Late, Some
  <2>3. UnitsTyped'
    BY <2>1, <2>2 DEF StaleInv, UnitsTyped
  <2> QED
    BY <2>2, <2>3 DEF StaleInv, OnlyGenerated, Generated
<1>3. ASSUME NEW a \in Agents, Commission(a)
      PROVE  StaleInv'
  <2>1. UNCHANGED <<config, cfg, frozen, pc, clean>> /\ pc \notin Late
    BY <1>3 DEF Commission, Reads, Late
  <2>2. /\ units' = [units EXCEPT ![a] = @ \cup {"service", "path"}]
        /\ enabled' = [enabled EXCEPT ![a] = @ \cup {"path"}]
    BY <1>3 DEF Commission
  <2>3. UnitsTyped'
    BY <2>1, <2>2 DEF StaleInv, UnitsTyped, Suffixes
  <2> QED
    BY <2>1, <2>3 DEF StaleInv
<1> QED
  BY <1>1, <1>2, <1>3

\* What is stale is disabled, all of it if nothing fails.
LEMMA StaleRemoval ==
  ASSUME StaleInv, RemoveStale
  PROVE  StaleInv'
<1>1. PICK done \in SUBSET Stale :
        /\ Some(Stale, done)
        /\ enabled' = [a \in Agents |-> enabled[a] \ Of(done, a)]
        /\ units' = [a \in Agents |-> units[a] \ (Of(done, a) \ frozen[a])]
  BY DEF RemoveStale
<1>2. UNCHANGED <<config, cfg, frozen>>
  BY DEF RemoveStale, Reads
<1>3. UnitsTyped'
  BY <1>1, <1>2 DEF StaleInv, UnitsTyped
<1>4. ASSUME clean'
      PROVE  OnlyGenerated'
  <2>1. done = Stale
    BY <1>1, <1>4 DEF Some
  <2>2. ASSUME NEW a \in Agents, NEW s \in enabled[a], s \notin Generated(cfg, a)
        PROVE  s \in Of(Stale, a)
    BY <2>2 DEF StaleInv, UnitsTyped, Of, Stale
  <2> QED
    BY <1>1, <1>2, <2>1, <2>2 DEF OnlyGenerated, Generated
<1> QED
  BY <1>3, <1>4 DEF StaleInv

\* What is enabled later is what the mode needs, and pruning only disables.
LEMMA StaleStaysOff ==
  ASSUME StaleInv, EnableUnits \/ Prune
  PROVE  StaleInv'
<1>1. CASE EnableUnits
  <2>1. PICK done \in SUBSET {a \in Declared(cfg) : Needed(cfg[a].mode) \in units[a]} :
          /\ Some(Declared(cfg), done)
          /\ enabled' = [a \in Agents |-> IF a \in done
                                          THEN enabled[a] \cup {Needed(cfg[a].mode)}
                                          ELSE enabled[a]]
    BY <1>1 DEF EnableUnits
  <2>2. /\ UNCHANGED <<config, cfg, units, frozen>>
        /\ pc \in Late /\ (clean' => clean)
    BY <1>1, <2>1 DEF EnableUnits, Phase, Reads, unitFiles, Late, Some
  <2>3. UnitsTyped'
    BY <2>1, <2>2 DEF StaleInv, UnitsTyped
  <2>4. OnlyGenerated => OnlyGenerated'
    <3>1. \A a \in done : Needed(cfg[a].mode) \in Generated(cfg, a)
      BY NeededIsGenerated DEF StaleInv, UnitsTyped
    <3> QED
      BY <2>1, <2>2, <3>1 DEF OnlyGenerated, Generated
  <2> QED
    BY <2>2, <2>3, <2>4 DEF StaleInv
<1>2. CASE Prune
  <2>1. PICK done \in SUBSET Pruned :
          /\ Some(Pruned, done)
          /\ enabled' = [a \in Agents |-> IF <<"units", a>> \in done THEN {} ELSE enabled[a]]
          /\ units' = [a \in Agents |-> IF <<"units", a>> \in done THEN {} ELSE units[a]]
          /\ frozen' = [a \in Agents |-> IF <<"units", a>> \in done THEN {} ELSE frozen[a]]
    BY <1>2 DEF Prune
  <2>2. UNCHANGED <<config, cfg>> /\ pc \in Late /\ (clean' => clean)
    BY <1>2, <2>1 DEF Prune, Phase, Reads, Late, Some
  <2>3. UnitsTyped'
    BY <2>1, <2>2 DEF StaleInv, UnitsTyped
  <2>4. OnlyGenerated => OnlyGenerated'
    BY <2>1, <2>2 DEF OnlyGenerated, Generated
  <2> QED
    BY <2>2, <2>3, <2>4 DEF StaleInv
<1> QED
  BY <1>1, <1>2

LEMMA StaleStep ==
  ASSUME StaleInv, [Next]_vars
  PROVE  StaleInv'
BY StaleElsewhere, StaleConfig, StaleFiles, StaleRemoval, StaleStaysOff DEF Next

\* After a bootstrap without failed commands no unit is enabled that its conos.toml
\* does not generate, whatever was commissioned, immutable, or left over before.
THEOREM NothingStale == Spec => []NothingStaleIsEnabled
<1>1. StaleInv => NothingStaleIsEnabled
  BY DEF StaleInv, NothingStaleIsEnabled, Completed, Late, OnlyGenerated
<1> QED
  BY <1>1, StaleInit, StaleStep, PTL DEF Spec

-----------------------------------------------------------------------------
(* What a bootstrap without failed commands has done by the time it is at   *)
(* each phase, whatever it found.                                           *)

Enabling == {"documents", "freeze", "assemble", "prune", "complete"}
AfterUnits ==
    {"keytest", "keywrite", "stale", "healthcheck", "turnOn", "enable"} \cup Enabling
AfterAccess == {"units"} \cup AfterUnits
AfterDirectories == {"access"} \cup AfterAccess
AfterUsers == {"directories"} \cup AfterDirectories

HasUsers(c, u) == \A a \in Declared(c) : u[a] # "none"
HasUnits(c, us, k) ==
    \A a \in Declared(c) : Generated(c, a) \subseteq us[a] /\ k[a] = ServiceKind(c[a].mode)
HasEnabled(c, e) == \A a \in Declared(c) : Needed(c[a].mode) \in e[a]
HasDocuments(c, d, h) == \A a \in Declared(c) : d[a].version = h[a] /\ h[a] # 0

\* The agents whom others can task.
Taskable(c) == {a \in Declared(c) : \E s \in Agents : <<s, a>> \in CanTask(c)}

\* Masks are cut where directories are made, so that those that let entries count later
\* are those of this conos.toml.
Masks(c, o, S) == \A a \in Declared(c) : a \in o <=> a \in S

ConvergeInv ==
    clean =>
      /\ pc \in AfterUsers => HasUsers(cfg, users)
      /\ pc \in AfterDirectories => Declared(cfg) \subseteq dirs
      /\ pc = "access" => Masks(cfg, open, {})
      /\ pc \in AfterAccess => CanTask(cfg) \subseteq tasking /\ Masks(cfg, open, Taskable(cfg))
      /\ pc \in AfterUnits => HasUnits(cfg, units, kind)
      /\ pc \in Enabling => HasEnabled(cfg, enabled)
      /\ pc \in {"prune", "complete"} => HasDocuments(cfg, doc, sha)

TextTyped == text \in Nat /\ text # 0

LEMMA TextStep ==
  ASSUME TextTyped, [Next]_vars
  PROVE  TextTyped'
<1>1. CASE Edit
  BY <1>1 DEF Edit, TextTyped
<1>2. CASE ~Edit
  <2>1. text' = text
    BY <1>2 DEF Next, vars, Load, AddUsers, MakeDirectories, SetAccess, WriteUnits, KeyFile,
                KeyWrite, RemoveStale, EnableHealthcheck, TurnOnHealthcheck, EnableUnits,
                FixDocuments, Freeze, Assemble, Prune, Finish, Kill, SetHealthcheck,
                Commission, Reads
  <2> QED
    BY <2>1 DEF TextTyped
<1> QED
  BY <1>1, <1>2

\* The phases and events that come before the first phase of a bootstrap, or in which
\* something fails.
LEMMA ConvergeOutside ==
  ASSUME Load \/ Kill \/ Edit \/ \E a \in Agents : Commission(a)
  PROVE  ConvergeInv'
<1>1. clean' => pc' \in {"idle", "users"}
  BY DEF Load, Kill, Edit, Commission, Phase
<1> QED
  BY <1>1 DEF ConvergeInv, AfterUsers, AfterDirectories, AfterAccess, AfterUnits, Enabling

\* The phases and events that touch nothing of it.
LEMMA ConvergeElsewhere ==
  ASSUME ConvergeInv,
         \/ KeyFile \/ KeyWrite \/ EnableHealthcheck \/ TurnOnHealthcheck \/ Freeze
         \/ Finish \/ SetHealthcheck \/ UNCHANGED vars
  PROVE  ConvergeInv'
<1>1. /\ UNCHANGED <<cfg, users, dirs, tasking, open, units, kind, enabled, doc, sha>>
      /\ clean' => clean
      /\ pc' = "idle" \/ pc' = pc \/ (pc \in AfterUnits /\ pc' \in AfterUnits \ Enabling)
         \/ (pc = "freeze" /\ pc' = "assemble")
  <2>1. CASE KeyFile
    BY <2>1 DEF KeyFile, Phase, Reads, accounts, unitFiles, documents, AfterUnits, Enabling
  <2>2. CASE KeyWrite
    BY <2>2 DEF KeyWrite, Phase, Some, Reads, accounts, unitFiles, documents, AfterUnits, Enabling
  <2>3. CASE EnableHealthcheck
    BY <2>3 DEF EnableHealthcheck, Phase, Reads, system, accounts, unitFiles, documents,
                AfterUnits, Enabling
  <2>4. CASE Freeze
    BY <2>4 DEF Freeze, Phase, Some, Reads, accounts, documents
  <2>5. CASE Finish
    BY <2>5 DEF Finish, Phase, Reads, system, accounts, unitFiles, documents
  <2>6. CASE SetHealthcheck
    BY <2>6 DEF SetHealthcheck, Reads, accounts, unitFiles, documents
  <2>7. CASE TurnOnHealthcheck
    BY <2>7 DEF TurnOnHealthcheck, Phase, Some, Reads, accounts, unitFiles, documents,
                AfterUnits, Enabling
  <2>8. CASE UNCHANGED vars
    BY <2>8 DEF vars, system, accounts, unitFiles, documents
  <2> QED
    BY <2>1, <2>2, <2>3, <2>4, <2>5, <2>6, <2>7, <2>8
<1>2. CASE clean /\ clean'
  BY <1>1, <1>2 DEF ConvergeInv, AfterUsers, AfterDirectories, AfterAccess, AfterUnits, Enabling
<1> QED
  BY <1>1, <1>2 DEF ConvergeInv

LEMMA ConvergeUsers ==
  ASSUME UnitsTyped, ConvergeInv, AddUsers
  PROVE  ConvergeInv'
<1> SUFFICES ASSUME clean' PROVE ConvergeInv'
  BY DEF ConvergeInv
<1>1. PICK done \in SUBSET Declared(cfg) :
        /\ Some(Declared(cfg), done)
        /\ users' = [a \in Agents |->
                       IF a \in done /\ users[a] = "none" THEN cfg[a].tier ELSE users[a]]
  BY DEF AddUsers
<1>2. done = Declared(cfg) /\ cfg' = cfg /\ pc' = "directories"
  BY <1>1 DEF AddUsers, Some, Phase, Reads
<1>3. ASSUME NEW a \in Declared(cfg)
      PROVE  users'[a] # "none"
  <2>1. a \in Agents /\ cfg[a].tier \in Tiers
    BY DEF UnitsTyped, Declared, Declaration
  <2>2. cfg[a].tier # "none"
    BY <2>1 DEF Tiers
  <2> QED
    BY <1>1, <1>2, <2>1, <2>2
<1> QED
  BY <1>2, <1>3 DEF ConvergeInv, HasUsers, AfterUsers, AfterDirectories, AfterAccess, AfterUnits,
                    Enabling

LEMMA ConvergeDirectories ==
  ASSUME ConvergeInv, MakeDirectories
  PROVE  ConvergeInv'
<1> SUFFICES ASSUME clean' PROVE ConvergeInv'
  BY DEF ConvergeInv
<1>1. PICK done \in SUBSET {a \in Declared(cfg) : users[a] # "none"} :
        /\ Some(Declared(cfg), done)
        /\ dirs' = dirs \cup done /\ open' = open \ done
  BY DEF MakeDirectories
<1>2. /\ done = Declared(cfg) /\ clean /\ UNCHANGED <<cfg, users>>
      /\ pc = "directories" /\ pc' = "access"
  BY <1>1 DEF MakeDirectories, Some, Phase, Reads
<1>3. Declared(cfg) \subseteq dirs' /\ Masks(cfg, open', {})
  BY <1>1, <1>2 DEF Masks
<1>4. HasUsers(cfg, users)
  BY <1>2 DEF ConvergeInv, AfterUsers
<1> QED
  BY <1>2, <1>3, <1>4 DEF ConvergeInv, AfterAccess, AfterUnits, Enabling

LEMMA ConvergeAccess ==
  ASSUME ConvergeInv, SetAccess
  PROVE  ConvergeInv'
<1> SUFFICES ASSUME clean' PROVE ConvergeInv'
  BY DEF ConvergeInv
<1>1. PICK done \in SUBSET {t \in CanTask(cfg) : users[t[1]] # "none" /\ t[2] \in dirs} :
        /\ Some(CanTask(cfg), done)
        /\ tasking' = tasking \cup done
        /\ open' = open \cup {t[2] : t \in done}
  BY DEF SetAccess
<1>2. /\ done = CanTask(cfg) /\ clean /\ UNCHANGED <<cfg, users, dirs>>
      /\ pc = "access" /\ pc' = "units"
  BY <1>1 DEF SetAccess, Some, Phase, Reads
<1>3. Masks(cfg, open, {}) /\ HasUsers(cfg, users) /\ Declared(cfg) \subseteq dirs
  BY <1>2 DEF ConvergeInv, AfterUsers, AfterDirectories
<1>4. ASSUME NEW a \in Declared(cfg)
      PROVE  a \in {t[2] : t \in CanTask(cfg)} <=> a \in Taskable(cfg)
  <2>1. ASSUME NEW t \in CanTask(cfg), t[2] = a
        PROVE  a \in Taskable(cfg)
    <3>1. t[1] \in Agents /\ t = <<t[1], a>>
      BY <2>1 DEF CanTask, Declared
    <3> QED
      BY <2>1, <3>1 DEF Taskable
  <2>2. ASSUME NEW r \in Agents, <<r, a>> \in CanTask(cfg)
        PROVE  a \in {t[2] : t \in CanTask(cfg)}
    BY <2>2
  <2> QED
    BY <2>1, <2>2 DEF Taskable
<1>5. Masks(cfg, open', Taskable(cfg))
  BY <1>1, <1>2, <1>3, <1>4 DEF Masks
<1> QED
  BY <1>1, <1>2, <1>3, <1>5
  DEF ConvergeInv, AfterUnits, Enabling

LEMMA ConvergeUnits ==
  ASSUME ConvergeInv, UnitsTyped, TextTyped, WriteUnits
  PROVE  ConvergeInv'
<1> SUFFICES ASSUME clean' PROVE ConvergeInv'
  BY DEF ConvergeInv
<1>1. PICK done \in SUBSET Declared(cfg) :
        /\ Some(Declared(cfg), done)
        /\ units' = [a \in Agents |-> IF a \in done THEN units[a] \cup Generated(cfg, a) ELSE units[a]]
        /\ kind' = [a \in Agents |-> IF a \in done THEN ServiceKind(cfg[a].mode) ELSE kind[a]]
  BY DEF WriteUnits
<1>2. /\ done = Declared(cfg) /\ clean /\ UNCHANGED <<cfg, users, dirs, tasking, open>>
      /\ pc = "units" /\ pc' = "keytest"
  BY <1>1 DEF WriteUnits, Some, Phase, Reads, accounts
<1>3. HasUnits(cfg, units', kind')
  BY <1>1, <1>2 DEF HasUnits, Declared
<1>4. /\ HasUsers(cfg, users) /\ Declared(cfg) \subseteq dirs
      /\ CanTask(cfg) \subseteq tasking /\ Masks(cfg, open, Taskable(cfg))
  BY <1>2 DEF ConvergeInv, AfterUsers, AfterDirectories, AfterAccess
<1> QED
  BY <1>2, <1>3, <1>4 DEF ConvergeInv, Enabling

\* What holds of a bootstrap from its units on.
LEMMA ConvergedUnits ==
  ASSUME ConvergeInv, clean, pc \in AfterUnits
  PROVE  /\ HasUsers(cfg, users) /\ Declared(cfg) \subseteq dirs
         /\ CanTask(cfg) \subseteq tasking /\ Masks(cfg, open, Taskable(cfg))
         /\ HasUnits(cfg, units, kind)
         /\ pc \in Enabling => HasEnabled(cfg, enabled)
         /\ pc \in {"prune", "complete"} => HasDocuments(cfg, doc, sha)
BY DEF ConvergeInv, AfterUsers, AfterDirectories, AfterAccess

LEMMA ConvergeLater ==
  ASSUME ConvergeInv, UnitsTyped, TextTyped,
         RemoveStale \/ EnableUnits \/ FixDocuments \/ Assemble \/ Prune
  PROVE  ConvergeInv'
<1> SUFFICES ASSUME clean' PROVE ConvergeInv'
  BY DEF ConvergeInv
<1>1. CASE RemoveStale
  <2>1. PICK done \in SUBSET Stale :
          /\ Some(Stale, done)
          /\ units' = [a \in Agents |-> units[a] \ (Of(done, a) \ frozen[a])]
    BY <1>1 DEF RemoveStale
  <2>2. /\ clean /\ UNCHANGED <<cfg, users, dirs, tasking, open, kind>>
        /\ pc = "stale" /\ pc' = "healthcheck"
    BY <1>1, <2>1 DEF RemoveStale, Some, Phase, Reads, accounts
  <2>3. /\ HasUsers(cfg, users) /\ Declared(cfg) \subseteq dirs
        /\ CanTask(cfg) \subseteq tasking /\ Masks(cfg, open, Taskable(cfg))
        /\ HasUnits(cfg, units, kind)
    BY <2>2, ConvergedUnits DEF AfterUnits
  <2>4. \A a \in Agents : Of(done, a) \cap Generated(cfg, a) = {}
    BY DEF Of, Stale
  <2>5. HasUnits(cfg, units', kind)
    BY <2>1, <2>3, <2>4 DEF HasUnits, Declared
  <2> QED
    BY <2>2, <2>3, <2>5 DEF ConvergeInv, Enabling
<1>2. CASE EnableUnits
  <2>1. PICK done \in SUBSET {a \in Declared(cfg) : Needed(cfg[a].mode) \in units[a]} :
          /\ Some(Declared(cfg), done)
          /\ enabled' = [a \in Agents |-> IF a \in done
                                          THEN enabled[a] \cup {Needed(cfg[a].mode)}
                                          ELSE enabled[a]]
    BY <1>2 DEF EnableUnits
  <2>2. /\ clean /\ UNCHANGED <<cfg, users, dirs, tasking, open, units, kind>>
        /\ pc = "enable" /\ pc' = "documents" /\ done = Declared(cfg)
    BY <1>2, <2>1 DEF EnableUnits, Some, Phase, Reads, accounts, unitFiles
  <2>3. /\ HasUsers(cfg, users) /\ Declared(cfg) \subseteq dirs
        /\ CanTask(cfg) \subseteq tasking /\ Masks(cfg, open, Taskable(cfg))
        /\ HasUnits(cfg, units, kind)
    BY <2>2, ConvergedUnits DEF AfterUnits
  <2>4. HasEnabled(cfg, enabled')
    BY <2>1, <2>2 DEF HasEnabled, Declared
  <2> QED
    BY <2>2, <2>3, <2>4 DEF ConvergeInv
<1>3. CASE FixDocuments
  <2>1. /\ clean /\ UNCHANGED <<cfg, users, dirs, tasking, open, units, kind, enabled>>
        /\ pc = "documents" /\ pc' \in {"assemble", "freeze"}
    BY <1>3 DEF FixDocuments, Some, Phase, Reads, accounts, unitFiles
  <2>2. /\ HasUsers(cfg, users) /\ Declared(cfg) \subseteq dirs
        /\ CanTask(cfg) \subseteq tasking /\ Masks(cfg, open, Taskable(cfg))
        /\ HasUnits(cfg, units, kind) /\ HasEnabled(cfg, enabled)
    BY <2>1, ConvergedUnits DEF AfterUnits, Enabling
  <2> QED
    BY <2>1, <2>2 DEF ConvergeInv
<1>4. CASE Assemble
  <2>1. PICK written \in SUBSET {a \in Declared(cfg) : users[a] # "none"} :
          \E hashed \in SUBSET written :
             /\ Some(Declared(cfg), hashed)
             /\ doc' = [a \in Agents |->
                          IF a \notin written THEN doc[a]
                          ELSE [version |-> text,
                                mode |-> IF doc[a].version = 0 THEN "0644" ELSE doc[a].mode]]
             /\ sha' = [a \in Agents |-> IF a \in hashed THEN text ELSE sha[a]]
    BY <1>4 DEF Assemble
  <2>0. PICK hashed \in SUBSET written :
          /\ Some(Declared(cfg), hashed)
          /\ doc' = [a \in Agents |->
                       IF a \notin written THEN doc[a]
                       ELSE [version |-> text,
                             mode |-> IF doc[a].version = 0 THEN "0644" ELSE doc[a].mode]]
          /\ sha' = [a \in Agents |-> IF a \in hashed THEN text ELSE sha[a]]
    BY <2>1
  <2>2. /\ clean /\ UNCHANGED <<cfg, users, dirs, tasking, open, units, kind, enabled>>
        /\ pc = "assemble" /\ pc' \in {"prune", "complete"}
        /\ hashed = Declared(cfg) /\ written = Declared(cfg)
    BY <1>4, <2>0 DEF Assemble, Some, Phase, Reads, accounts, unitFiles
  <2>3. /\ HasUsers(cfg, users) /\ Declared(cfg) \subseteq dirs
        /\ CanTask(cfg) \subseteq tasking /\ Masks(cfg, open, Taskable(cfg))
        /\ HasUnits(cfg, units, kind) /\ HasEnabled(cfg, enabled)
    BY <2>2, ConvergedUnits DEF AfterUnits, Enabling
  <2>4. ASSUME NEW a \in Declared(cfg)
        PROVE  doc'[a].version = sha'[a] /\ sha'[a] # 0
    <3>1. a \in Agents
      BY DEF Declared
    <3>2. doc'[a].version = text /\ sha'[a] = text
      BY <2>0, <2>2, <3>1
    <3> QED
      BY <3>2 DEF TextTyped
  <2>5. HasDocuments(cfg, doc', sha')
    BY <2>4 DEF HasDocuments
  <2> QED
    BY <2>2, <2>3, <2>5 DEF ConvergeInv
<1>5. CASE Prune
  <2>1. PICK done \in SUBSET Pruned :
          /\ Some(Pruned, done)
          /\ enabled' = [a \in Agents |-> IF <<"units", a>> \in done THEN {} ELSE enabled[a]]
          /\ units' = [a \in Agents |-> IF <<"units", a>> \in done THEN {} ELSE units[a]]
          /\ users' = [a \in Agents |-> IF <<"user", a>> \in done THEN "none" ELSE users[a]]
          /\ doc' = [a \in Agents |-> IF <<"user", a>> \in done THEN NoDocument ELSE doc[a]]
          /\ sha' = [a \in Agents |-> IF <<"user", a>> \in done THEN 0 ELSE sha[a]]
          /\ dirs' = {a \in dirs : <<"directory", a>> \notin done}
          /\ open' = {a \in open : <<"directory", a>> \notin done}
          /\ tasking' = {t \in tasking : <<"directory", t[2]>> \notin done}
    BY <1>5 DEF Prune
  <2>2. /\ clean /\ UNCHANGED <<cfg, kind>>
        /\ pc = "prune" /\ pc' = "complete"
    BY <1>5, <2>1 DEF Prune, Some, Phase, Reads
  <2>3. /\ HasUsers(cfg, users) /\ Declared(cfg) \subseteq dirs
        /\ CanTask(cfg) \subseteq tasking /\ Masks(cfg, open, Taskable(cfg))
        /\ HasUnits(cfg, units, kind) /\ HasEnabled(cfg, enabled)
        /\ HasDocuments(cfg, doc, sha)
    BY <2>2, ConvergedUnits DEF AfterUnits, Enabling
  <2>4. ASSUME NEW a \in Declared(cfg)
        PROVE  <<"units", a>> \notin done /\ <<"user", a>> \notin done
               /\ <<"directory", a>> \notin done
    BY <2>1 DEF Pruned
  <2>5. ASSUME NEW a \in Declared(cfg)
        PROVE  /\ a \in Agents /\ enabled'[a] = enabled[a] /\ units'[a] = units[a]
               /\ users'[a] = users[a] /\ doc'[a] = doc[a] /\ sha'[a] = sha[a]
               /\ a \in dirs' <=> a \in dirs
               /\ a \in open' <=> a \in open
    BY <2>1, <2>4 DEF Declared
  <2>6. CanTask(cfg) \subseteq tasking'
    <3>1. \A t \in CanTask(cfg) : t[2] \in Declared(cfg)
      BY DEF CanTask
    <3> QED
      BY <2>1, <2>3, <2>4, <3>1
  <2>7. HasUsers(cfg, users') /\ Declared(cfg) \subseteq dirs'
    BY <2>3, <2>5 DEF HasUsers
  <2>8. HasUnits(cfg, units', kind) /\ HasEnabled(cfg, enabled')
    BY <2>3, <2>5 DEF HasUnits, HasEnabled
  <2>9. Masks(cfg, open', Taskable(cfg)) /\ HasDocuments(cfg, doc', sha')
    BY <2>3, <2>5 DEF Masks, HasDocuments
  <2> QED
    BY <2>2, <2>6, <2>7, <2>8, <2>9 DEF ConvergeInv
<1> QED
  BY <1>1, <1>2, <1>3, <1>4, <1>5

LEMMA ConvergeStep ==
  ASSUME UnitsTyped, TextTyped, ConvergeInv, [Next]_vars
  PROVE  ConvergeInv'
BY ConvergeOutside, ConvergeElsewhere, ConvergeUsers, ConvergeDirectories, ConvergeAccess,
   ConvergeUnits, ConvergeLater DEF Next

LEMMA ConvergeAlways == Spec => []ConvergeInv
<1>1. Init => UnitsTyped /\ TextTyped /\ ConvergeInv
  <2>1. Init => UnitsTyped
    BY StaleInit DEF StaleInv
  <2>2. Init => TextTyped /\ ConvergeInv
    BY DEF Init, TextTyped, ConvergeInv, AfterUsers, AfterDirectories, AfterAccess, AfterUnits,
           Enabling
  <2> QED
    BY <2>1, <2>2
<1>2. Spec => []StaleInv
  BY StaleInit, StaleStep, PTL DEF Spec
<1>3. StaleInv => UnitsTyped
  BY DEF StaleInv
<1> QED
  BY <1>1, <1>2, <1>3, TextStep, ConvergeStep, PTL DEF Spec

\* Whatever earlier bootstraps left behind, one that runs through gives every declared
\* agent what it needs, and those who may task others the access to do so.
THEOREM Converges == Spec => []CompletedConverges
<1>1. ConvergeInv => CompletedConverges
  <2> SUFFICES ASSUME ConvergeInv, pc = "complete", clean
               PROVE  CanTask(cfg) \subseteq MayTask /\ \A a \in Declared(cfg) :
                        /\ users[a] # "none" /\ a \in dirs
                        /\ Generated(cfg, a) \subseteq units[a]
                        /\ kind[a] = ServiceKind(cfg[a].mode)
                        /\ Needed(cfg[a].mode) \in enabled[a]
                        /\ doc[a].version = sha[a] /\ sha[a] # 0
    BY DEF CompletedConverges, Completed
  <2>1. /\ HasUsers(cfg, users) /\ Declared(cfg) \subseteq dirs
        /\ CanTask(cfg) \subseteq tasking /\ Masks(cfg, open, Taskable(cfg))
        /\ HasUnits(cfg, units, kind) /\ HasEnabled(cfg, enabled)
        /\ HasDocuments(cfg, doc, sha)
    BY ConvergedUnits DEF AfterUnits, Enabling
  <2>2. ASSUME NEW t \in CanTask(cfg)
        PROVE  t \in MayTask
    <3>1. t[1] \in Agents /\ t[2] \in Declared(cfg) /\ t = <<t[1], t[2]>>
      BY DEF CanTask, Declared
    <3>2. t[2] \in Taskable(cfg)
      BY <3>1, <2>2 DEF Taskable
    <3> QED
      BY <2>1, <2>2, <3>1, <3>2 DEF Masks, MayTask
  <2> QED
    BY <2>1, <2>2 DEF HasUsers, HasUnits, HasEnabled, HasDocuments
<1> QED
  BY <1>1, ConvergeAlways, PTL

\* The doctor finds every inbox there, and with the mode that its access list gives it.
THEOREM InboxesPass == Spec => []DoctorPassesInboxes
<1>1. ConvergeInv => DoctorPassesInboxes
  <2> SUFFICES ASSUME ConvergeInv, pc = "complete", clean, NEW a \in Declared(cfg)
               PROVE  a \in dirs /\ StatGroup(a) = EffectiveGroup(0, AclMask(cfg, a))
    BY DEF DoctorPassesInboxes, Completed, InboxFindings
  <2>1. Declared(cfg) \subseteq dirs /\ Masks(cfg, open, Taskable(cfg))
    BY ConvergedUnits DEF AfterUnits, Enabling
  <2>2. a \in open <=> \E s \in Agents : <<s, a>> \in CanTask(cfg)
    BY <2>1 DEF Masks, Taskable
  <2> QED
    BY <2>1, <2>2 DEF StatGroup, EffectiveGroup, AclMask
<1> QED
  BY <1>1, ConvergeAlways, PTL

-----------------------------------------------------------------------------
(* What is left of agents that are gone.                                    *)

\* Unless something went wrong, who has a user has a directory, or will have one in the
\* next phase: pruning, which looks for directories, finds every user.
PruneInv ==
    /\ faults \in Nat /\ users \in [Agents -> Tiers \cup {"none"}]
    /\ faults = 0 =>
         \A a \in Agents : users[a] # "none" =>
            a \in dirs \/ (pc = "directories" /\ a \in Declared(cfg))
    /\ pc = "complete" /\ clean /\ prune =>
         \A a \in Agents \ Declared(cfg) :
            a \notin dirs /\ units[a] = {} /\ (faults = 0 => users[a] = "none")

LEMMA PruneInit == Init => PruneInv
BY DEF Init, PruneInv

LEMMA PruneElsewhere ==
  ASSUME PruneInv,
         \/ Load \/ SetAccess \/ WriteUnits \/ KeyFile \/ KeyWrite \/ RemoveStale
         \/ EnableHealthcheck \/ TurnOnHealthcheck \/ EnableUnits \/ FixDocuments
         \/ Freeze \/ Assemble \/ Finish \/ Kill \/ Edit \/ SetHealthcheck \/ UNCHANGED vars
  PROVE  PruneInv'
<1>1. /\ UNCHANGED <<users, dirs>> /\ faults' \in {faults, faults + 1}
      /\ pc = "directories" /\ pc' # "directories" => faults' = faults + 1
      /\ pc' = "complete" /\ prune' =>
           UNCHANGED <<pc, cfg, clean, prune, units, faults>>
      /\ pc' = "directories" => UNCHANGED <<pc, cfg>>
  <2>1. CASE Load \/ KeyFile \/ EnableHealthcheck \/ Finish \/ Kill \/ Edit \/ SetHealthcheck
    BY <2>1 DEF Load, KeyFile, EnableHealthcheck, Finish, Kill, Edit, SetHealthcheck, Phase,
                Reads, system, accounts, unitFiles, bounds
  <2>2. CASE SetAccess
    BY <2>2 DEF SetAccess, Phase, Some, Reads
  <2>3. CASE WriteUnits
    BY <2>3 DEF WriteUnits, Phase, Some, Reads, accounts
  <2>4. CASE KeyWrite
    BY <2>4 DEF KeyWrite, Phase, Some, Reads, accounts
  <2>5. CASE RemoveStale
    BY <2>5 DEF RemoveStale, Phase, Some, Reads, accounts
  <2>6. CASE EnableUnits
    BY <2>6 DEF EnableUnits, Phase, Some, Reads, accounts
  <2>7. CASE FixDocuments
    BY <2>7 DEF FixDocuments, Phase, Some, Reads, accounts
  <2>8. CASE Freeze
    BY <2>8 DEF Freeze, Phase, Some, Reads, accounts
  <2>9. CASE Assemble
    BY <2>9 DEF Assemble, Phase, Some, Reads, accounts
  <2>10. CASE TurnOnHealthcheck
    BY <2>10 DEF TurnOnHealthcheck, Phase, Some, Reads, accounts
  <2>11. CASE UNCHANGED vars
    BY <2>11 DEF vars, system, accounts, unitFiles, bounds
  <2> QED
    BY <2>1, <2>2, <2>3, <2>4, <2>5, <2>6, <2>7, <2>8, <2>9, <2>10, <2>11
<1>2. faults' \in Nat /\ (faults' = 0 => faults = 0)
  BY <1>1 DEF PruneInv
<1> QED
  BY <1>1, <1>2 DEF PruneInv

\* Users and directories are made, one after the other, or both by hand.
LEMMA PruneAccounts ==
  ASSUME UnitsTyped, PruneInv,
         AddUsers \/ MakeDirectories \/ \E a \in Agents : Commission(a)
  PROVE  PruneInv'
<1>1. CASE AddUsers
  <2>1. PICK done \in SUBSET Declared(cfg) :
          /\ Some(Declared(cfg), done)
          /\ users' = [a \in Agents |->
                         IF a \in done /\ users[a] = "none" THEN cfg[a].tier ELSE users[a]]
    BY <1>1 DEF AddUsers
  <2>2. /\ pc = "users" /\ pc' = "directories" /\ UNCHANGED <<cfg, dirs>>
        /\ faults' \in {faults, faults + 1}
    BY <1>1, <2>1 DEF AddUsers, Phase, Some, Reads
  <2>3. faults' \in Nat /\ (faults' = 0 => faults = 0)
    BY <2>2 DEF PruneInv
  <2>4. \A a \in Declared(cfg) : cfg[a].tier \in Tiers
    BY DEF UnitsTyped, Declared, Declaration
  <2>5. users' \in [Agents -> Tiers \cup {"none"}]
    BY <2>1, <2>4 DEF PruneInv
  <2>6. \A a \in Agents : users'[a] # "none" => users[a] # "none" \/ a \in Declared(cfg)
    BY <2>1
  <2> QED
    BY <2>2, <2>3, <2>5, <2>6 DEF PruneInv
<1>2. CASE MakeDirectories
  <2>1. PICK done \in SUBSET {a \in Declared(cfg) : users[a] # "none"} :
          Some(Declared(cfg), done) /\ dirs' = dirs \cup done
    BY <1>2 DEF MakeDirectories
  <2>2. /\ pc' = "access" /\ UNCHANGED <<cfg, users>>
        /\ (done = Declared(cfg) /\ faults' = faults) \/ faults' = faults + 1
    BY <1>2, <2>1 DEF MakeDirectories, Phase, Some, Reads
  <2>3. faults' \in Nat /\ (faults' = 0 => faults = 0 /\ done = Declared(cfg))
    BY <2>2 DEF PruneInv
  <2> QED
    BY <2>1, <2>2, <2>3 DEF PruneInv
<1>3. ASSUME NEW a \in Agents, Commission(a)
      PROVE  PruneInv'
  <2>1. /\ pc' = "idle" /\ pc = "idle" /\ UNCHANGED faults
        /\ users' = [users EXCEPT ![a] = IF @ = "none" THEN "worker" ELSE @]
        /\ dirs' = dirs \cup {a}
    BY <1>3 DEF Commission
  <2> QED
    BY <2>1 DEF PruneInv, Tiers
<1> QED
  BY <1>1, <1>2, <1>3

LEMMA PruneAll ==
  ASSUME PruneInv, Prune
  PROVE  PruneInv'
<1>1. PICK done \in SUBSET Pruned :
        /\ Some(Pruned, done)
        /\ units' = [a \in Agents |-> IF <<"units", a>> \in done THEN {} ELSE units[a]]
        /\ users' = [a \in Agents |-> IF <<"user", a>> \in done THEN "none" ELSE users[a]]
        /\ dirs' = {a \in dirs : <<"directory", a>> \notin done}
  BY DEF Prune
<1>2. /\ pc = "prune" /\ pc' = "complete" /\ UNCHANGED cfg
      /\ (done = Pruned /\ faults' = faults) \/ (clean' = FALSE /\ faults' = faults + 1)
  BY <1>1 DEF Prune, Phase, Some, Reads
<1>3. users' \in [Agents -> Tiers \cup {"none"}] /\ faults' \in Nat
  BY <1>1, <1>2 DEF PruneInv
<1>4. CASE done = Pruned /\ faults' = faults
  <2>1. ASSUME NEW a \in Agents, a \in Declared(cfg)
        PROVE  <<"user", a>> \notin Pruned /\ <<"directory", a>> \notin Pruned
    BY <2>1 DEF Pruned
  <2>2. ASSUME NEW a \in Agents, a \notin Declared(cfg), a \in dirs
        PROVE  <<"user", a>> \in Pruned /\ <<"directory", a>> \in Pruned
    BY <2>2 DEF Pruned
  <2>3. ASSUME NEW a \in Agents, a \notin Declared(cfg), units[a] # {}
        PROVE  <<"units", a>> \in Pruned
    BY <2>3 DEF Pruned
  <2>4. ASSUME NEW a \in Agents, a \notin Declared(cfg)
        PROVE  a \notin dirs' /\ units'[a] = {} /\ (faults' = 0 => users'[a] = "none")
    BY <1>1, <1>2, <1>4, <2>2, <2>3, <2>4 DEF PruneInv
  <2>5. ASSUME NEW a \in Agents, faults' = 0, users'[a] # "none"
        PROVE  a \in dirs'
    BY <1>1, <1>2, <1>4, <2>1, <2>4, <2>5 DEF PruneInv
  <2> QED
    BY <1>2, <1>3, <2>4, <2>5 DEF PruneInv
<1>5. CASE clean' = FALSE /\ faults' = faults + 1
  BY <1>2, <1>3, <1>5 DEF PruneInv
<1> QED
  BY <1>2, <1>4, <1>5

\* A pruning bootstrap that runs through leaves no directory and no unit of an agent that
\* its conos.toml does not declare, and no user unless something had gone wrong before.
THEOREM Prunes == Spec => []PruneLeavesNothing
<1>1. Spec => []StaleInv
  BY StaleInit, StaleStep, PTL DEF Spec
<1>2. StaleInv => UnitsTyped
  BY DEF StaleInv
<1>3. UnitsTyped /\ PruneInv /\ [Next]_vars => PruneInv'
  BY PruneElsewhere, PruneAccounts, PruneAll DEF Next
<1>4. PruneInv => PruneLeavesNothing
  BY DEF PruneInv, PruneLeavesNothing, Completed
<1> QED
  BY <1>1, <1>2, <1>3, <1>4, PruneInit, PTL DEF Spec
=============================================================================
