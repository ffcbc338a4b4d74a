# A verification project for conctl

`conctl` runs a host's AI agents: it gives them tasks through inbox
directories, invokes a model for each task, keeps ledgers and a budget, hands
tasks from one agent to another, lets agents claim shared task contracts,
checks the host's health and alerts the sysadmin agent, remembers
conversations, and publishes artifacts behind signed links. `conctl bootstrap` makes the users,
directories, access lists, units and firewall rules that all this lives in.

There is no daemon and no database. Every command is a process of its own, all
state is files under `/srv/conos`, and only `.claims.json` has a lock. What is
hard about the program is therefore what several processes do to the same
files, what a kill between two file operations leaves behind, and what the
timers and path watches of systemd do and do not start. The modules here model
that; the text of prompts, answers, ledgers and units is abstracted away.

Paths below are relative to the repository.

## Inventory

| Component | State | Operations | Interacts with | Hard | Correct if |
|---|---|---|---|---|---|
| Agent run loop (`internal/runner/runner.go`, `cmd/conctl/ops.go`, `internal/contracts/budget.go`) | `agents/<a>/inbox`, `processed`, `outbox`; `ledger/<day>.tsv`, `ledger/spend.jsonl` | drop a task; pick, invoke, account, charge, check the budget, answer, file, forward | systemd units start it; forwards and notices fill other inboxes | two runs of one agent, kills and failures between file operations, budget races, file names | no task is lost or doubled; filed means answered; the budget holds; forwards arrive; inboxes drain |
| systemd units (`internal/bootstrap/units.go`, `manifest.go`) | pending change notices, how the last run ended | start by path, service, timer; confine workers | start runs | changes while a service is active are not noticed; modes differ | every waiting task is served in the end |
| Task delivery (`runner.go:615`, `taskmeta.go`) | task and `.meta.json` files in the outer and the concierge's inbox | write, route by rename or copy and delete, pick and file | fills the concierge's inbox | two files per task, no lock, several movers | each file is in one place, served once, never gone |
| Thread context (`thread_context.go`) | `recent.jsonl`, `brief.md`, `facts.json` per thread | load for the prompt, load and rewrite after the answer | part of a run | three files, rewritten one after the other | nothing of the conversation is forgotten or repeated |
| Claim registry (`task_registry.go`) | `.claims.json` under a flock | claim with a lease | called before a contract is updated | waiting for the lock with an old time, truncate then write | one running lease per contract |
| Task contracts (`task_state.go`, `task_completion.go`, `task_contract.go`) | one JSON file per contract | open, claim, update, show, complete | registry; the healthcheck completes | unlocked read-modify-write | the history is one opening and the reported changes; claims were granted; only live tasks complete |
| Healthcheck (`healthcheck.go`, `snapshot.go`, `actions.go`) | latest snapshot, hash-chained diff ledger, alerts in the sysadmin's inbox | persist, dispatch actions, escalate, summarise | the sysadmin's runs take the alerts | overlap of timer and hand, dedup and cap before the write, kills between the two state files | no alert twice, none too many, every failure told, the ledger adds up |
| Artifacts (`internal/artifacts`, `artifact.go`) | content, public view, manifest, signing key | create, link, show, verify; the auth server | the server reads manifests | order of files, key replaced under a running server, rounding of expiries | accepted links lead to pages and expire in time |
| Package commands (`package.go`) | `conos.toml` and its immutable bit, installed packages | install, remove, with or without --save; list | edits what bootstrap and every run read | a line editor without a parser, in-place writes, overlaps, kills | only package lists change, nothing comes from nowhere, the bit is on again |
| Configuration and runtime adapters (`internal/config`, `internal/runtime`) | the environment of a run, the key PicoClaw cached | parse, resolve, validate; capture the key, clear the environment, invoke | called by bootstrap, status, the loop and each task | the same agent is resolved several times, in an environment that changes | the resolutions agree, one key per run, no secret in tools |
| Bootstrap (`internal/bootstrap`, `ops.go`) | users, directories, access lists, unit files, enabled units, signing key, AGENTS.md, immutable bits | bootstrap, --prune, doctor | generates what the other components live in | each command may fail and is passed over; kills; left-overs of other conos.tomls | one that completes converges; re-runs are safe; doctor agrees |
| Outbound filter (`nftables.go`, `manifest.go:383`) | rules on disk, rules in force | write, load, enable at boot | names users that bootstrap adds and removes | failures between three commands, reboots, order of rules | the filter is the allowlist and stays in force |
| conctl kill (`ops.go:387`) | active units of an agent | stop path, service, timer | against systemd, which starts the service | order of the stops | a killed agent stays stopped |
| Standing policy (`policy_context.go`) | policy files, the prompt's policy section | read, clamp, compose | officers rewrite the files meanwhile | limits per file and in all | within the limit, general before special |
| Command line, reports, protocol output; contract parsing and evaluation; AGENTS.md assembly | none of their own | | | | not modelled, see below |

## Modules

`<Module>Proofs` holds the theorems about a module, `MC<Module>` its constants
for TLC. Definitions keep the names of the code where they can; `PROJECT.json`
("map") gives the source lines of each. An operator marked *Mutant* is a
plausible bug in the definition that follows it; each property of each run is
violated under one of them.

**AgentRun.** A process in `Runs` runs the agent `AgentOf[r]`; those in `Units`
are that agent's service. `pc` walks `RunWithRuntime` file operation by file
operation: `Pick` (PickOldestTask), `Invoke`, `Account` (ledger line),
`Charge` and `CheckBudget` (RecordSpendAndCheckBudget and the notice to the
sysadmin), `Respond`, `Retire`, `Forward` (RouteOutput), then the loop of
`runAgentLoop`; an empty inbox leads to `Exit`. `Abort` stands for every error
return, `Crash` for a kill. Directories are sets of files with distinct names;
names are records of the three schemes in use (microseconds, seconds, dates),
and `SortsBefore` is the order of their strings as far as it matters. The model
may route its output to any agent, and may move its own task to processed. A
worker's unit is confined (`Confined`): it cannot write the ledger or another
inbox. `wake`, `StartOnChange`, `StartService`, `StartOnTimer` are what the
generated units make systemd do, `StartByHand` is an operator.

**TaskDelivery.** `Create` and `Fill` are the two halves of each `os.WriteFile`
of a task's text and its metadata; `List`, `NextTask`, `Move`, `Copy`, `Remove`
are `moveOuterInboxTasksTo` and `moveTaskMetadata`, with the fallback to copy
and delete where the two inboxes are on different devices (`sameDevice`, chosen
once); `Pick`, `Load`, `Serve`, `File`, `FileMetadata` are the concierge's run; `Fail` is
each of its error returns between the invocation and the end (no output, the spend
or the budget, the answer, the rename), `CopyFails` a copy that cannot be opened or
filled. `unfiled` counts the runs that ended between serving a task and filing it.
`at` records where each file should be.
**Mailbox** is the promise behind it: a task goes from its sender to the outer
inbox, the concierge's inbox and the processed directory, never back, and is
answered before it is put away. `KeepsOrder` is the refinement; `Stage` maps a
task to the last place its text has reached, so that the copies a killed mover
leaves behind are stutters. Metadata has no part in the promise.

**ThreadContext.** `Script` is the order of a run's file operations. What is
written is computed when the summary lines are read, last of the three files
(`LoadBrief`): the window, the summaries of what leaves it, the line of the
latest exchange. Each write is a truncation and a write; over a file that
another run has written meanwhile a tail may remain.

**LeaseTable, ClaimRegistry.** LeaseTable is the abstract promise: a claim
changes the table in one step, perhaps with a time that lies in the past.
ClaimRegistry is the code: the time is read, the lock waited for, the file
read, truncated and written, the lock released. `ImplementsLeaseTable` is the
refinement, under the mapping `Registry`: between the truncation and the write
the registry is what its writer is about to write.

**TaskContracts** composes LeaseTable with the contract files: `Claim` takes the
lease and then updates the contract, as `task-contract claim` does. `Show`,
`Truncate` and `Write` are UpdateTaskContract; `Evaluate` and `Scan` are
EvaluateTaskCompletions, which checks a status on one read and overwrites on
another.

**Healthcheck.** From the audit's result: `ReadLatest`, `ReadHash`,
`AppendEvent`, `TruncateLatest`, `SaveLatest` (PersistSnapshotAndDiff),
`Dispatch` with one action per failing check, `Summarise`, and `Scan` and
`Write` (Escalate: look for an identical alert and at the cap, then write a
file named by the second, which may fail and is then only logged). Actions that
kill a session or quarantine always fail here, since the scope they are given is
"global"; they have no effect on this state. The completion of tasks that happens on the way touches none of it
and is in TaskContracts.

**Artifacts.** `Create` and `WritePart` write content, page and index, `Show`
and `Mint` are `artifact link`, both end in `Truncate` and `Write` of the
manifest. A signature is modelled by what was signed with which key; `Accepted`
is the auth handler with the key it read at its start. Time is in half seconds,
so that `Unix` really rounds.

**PackageConfig.** A file is a sequence of lines, a line what the editor can tell
of it (`[[agents]]`, another header, the name, a list of packages, anything
else). `SavePackage` and `RemovePackage` are the two editors as operators;
`Owns` and `Listed` say what TOML makes of the same lines, `Rest` gives the lines
that are no package list, each with its number among them. A command is `Start`
(one of `CommandLines`: argument order and flag parsing), `Apt`, `Read`, `Mutable`,
`Truncate`, `Write`, `Immutable`, of which two processes interleave. A write over
what another process wrote meanwhile may leave head and tail of two files
(`Garbled`). `LayoutAssumption` (of Host) is that conos.toml is at first
`AsDocumented`: each agent is named once, in an `[[agents]]` block of its own, and
its list, on one line, is the last of the block's lines up to a blank line or
the next table; MCHost has two such layouts. On others the editors go wrong, see the known
divergences; that the commands keep a file in this shape is proved, not assumed.

**Bootstrap.** One action per phase of the list of shell commands, in the code's
order: `Load`, `AddUsers`, `MakeDirectories`, `SetAccess`, `WriteUnits`,
`KeyFile`, `KeyWrite`, `RemoveStale`, `EnableHealthcheck` (the look at the timer) and
`TurnOnHealthcheck` (the enable), `EnableUnits`,
`FixDocuments`, `Freeze`, `Assemble`, `Prune`, `Finish`. A phase does its work
for all agents or, as a fault, for some; `Kill` may come between any two, and
the next bootstrap starts from what is there. In between, conos.toml is edited,
the sysadmin agent commissions an agent by hand; the operator enables and disables
the healthcheck timer at any time. An access list is an entry (`tasking`) and a mask (`open`),
since chmod cuts the mask and setfacl restores it. `InboxFindings` is
what the doctor says of the inboxes, the directories with access lists.

**Firewall.** The three commands that write and load the outbound filter, in two
halves where the shell truncates first, with failures, kills and reboots.
`Chain` is the rules a user's packets meet, in their order, `Verdict` the first
match; `Allowed` says the same without order.

**AgentUnits.** The units of one agent in each mode, what systemd starts and
restarts, and `conctl kill`, which stops one unit per step (`KillOrder`).

**AgentRuntime.** From conos.toml and the environment to a model call: `Parsed`,
`Resolve`, `Valid`, `New`, `BuildPicoConfig`, `ClearSecretEnv`, `CommandEnv`,
with the three resolutions of one run. A value of a key is unset, plain or an
OAuth token. `AuthWarnings` is what `conctl status` says of the same files, from a
shell without the keys, in which conos.toml may not even be valid.

**PolicyContext.** The files are read one per step while officers truncate and
write them, then added section by section up to the limit (`Introduce`,
`AddSection`, `Finish`). Lengths are those of the code
(4096 and 16384 bytes, with the frames of the headings).

**Host** puts six components (ThreadContext, PackageConfig, Firewall, AgentUnits,
AgentRuntime and PolicyContext) side by side. They share no state, so it adds
their state graphs rather than multiplying them:
`part` says which one moves, chosen once from the constant `Parts`, and the
variables of the others are absent. It is also where their theorems are: what
is proved of `Host!Spec` is proved of each part. MCHost has the constants of
all three runs, *host*, *package_config* and *thread_context*.

## Runs

| Run | Shows | Bounds, and why they suffice |
|---|---|---|
| agent_race | no task is lost or doubled, answers stay in the budget, forwards of different seconds arrive | a unit and a run by hand of one agent, and a worker they forward to: every property is about a pair of runs; three charges against a budget of two; two forwards and one second boundary are what it takes to collide or not; no kills, which agent_modes has |
| agent_modes | answer before filing, ledger before answer; runs drain inboxes; a cron agent's tasks are all served, also after failures | an on-demand and a cron agent with two tasks that can be forwarded between them, one kill or failure anywhere |
| claim_registry | ClaimRegistry implements LeaseTable, every claim ends | two processes, one contract, two owners, leases of one and two ticks, three ticks, one kill |
| task_contracts | leases exclude, histories start once, claims were granted; without overlap only live tasks complete and reported changes stay | one contract file (files do not interact), two processes, five commands: open, claim, update, complete and one more, one kill |
| delivery | files in one place; served once, and once more only for a run that ended between serving and filing; nothing disappears; TaskDelivery implements Mailbox | one task with metadata (tasks do not interact), two movers, a run, three kills and one failed run or copy, both kinds of devices |
| healthcheck | the cap is passed only by processes that looked together; alone, no alert twice and the ledger adds up to the snapshot; every failure told, or the journal says that it could not be | three checks, one per kind of action; the timer's service and a run by hand that overlap or not, one killed; cap two, two seconds |
| thread_context | each turn is in window or brief and not in both, latest exchange summarised | a window of three turns is odd, so half an exchange overflows; three exchanges overflow it twice |
| artifacts | page behind each link, expiry, list of links | one artifact (they do not interact), two commands at once, two links, two keys, two seconds and a half |
| package_config | only intended changes; immutable at rest | two layouts as the documentation writes them, two agents, two packages, two processes, three commands: enough to add, remove and overlap; one kill |
| bootstrap | a completed bootstrap converges, leaves nothing stale enabled, prunes clean, satisfies the doctor's look at the inboxes; re-runs are safe | an officer and a worker that comes, changes mode and tier, and goes; three bootstraps: one that goes wrong, one more that goes wrong after an edit, one that has to repair; two edits, two faults, one thing by hand |
| host | keys reach their model, resolutions agree; the filter holds; killed is stopped; policy holds | resolution: every combination of four bases, two tiers, old format, ten declarations and any two variables set, and a second agent that only a token excuses, two tasks; filter: three conos.tomls, four bootstraps, two faults, two reboots, every packet; kill: three modes, two kills; policy: five files of three lengths, of which four fit exactly or by one byte not, one rewrite |
| alert_same_second | *violated*: an alert replaces another of the same second | |

Deadlock is not checked: commands end, and a state in which all have ended and
the bounds are used up is the normal end of a behaviour.

Some properties hold only where no two commands overlap, or none was killed.
Then the property says so in its antecedent (`alone`, `kills = 0`), and the
section on divergences says what happens otherwise: the code has no lock there.

Each module has one type invariant, TypeOK. Those of AgentRun, ClaimRegistry,
Artifacts, TaskDelivery, Healthcheck and TaskContracts are proved, those of the
parts of Host as far as the proofs there need them; AgentRun's and those of
Host's parts are also checked by their runs.

**Fairness.** `UnitSpec` and `TimerSpec` assume that a started process keeps
running (weak fairness of its step), that systemd acts on a change it has
noticed and restarts a failed continuous service (weak), and, for the cron
agent only, that its timer keeps firing. Users, operators, the clock and kills
are never obliged to anything. `FairSpec` of ClaimRegistry assumes weak fairness
of each process and strong fairness of taking the lock: Linux serves the
waiters of a flock in order, so no waiter is passed over for ever.

## Proofs

TLC checks small instances; the theorems hold for every value of the constants
that the named assumptions admit (in particular without the bounds, which occur
only as guards).

- `AgentRunProofs`. `Typed`. `AnsweredFirst`: AnsweredBeforeFiled is not
  inductive, since it says nothing of a run on its way; `AnswerInv` adds that a
  run past its ledger line has one (or is confined) and that a run about to
  file has answered. `BudgetHolds`: `BudgetInv` adds that the charges held by
  runs in flight are recorded, distinct from each other and from those of the
  answers, and that a run that may answer holds one that fits. `DropsKept`:
  `KeepInv` adds that drops have names of their own and one file per directory.
  `ForwardsArrive`: `ForwardInv` adds that every mail found anywhere was owed, and
  that an owed one is on its way or has arrived; a forward's name tells its sender and
  second, so that only one of the same sender, target and second replaces it.
- `TaskContractsProofs`. Of LeaseTable, `LeasesExclude`: the strengthening
  `RunningIsHeld` says that a lease that still runs is the registry's entry,
  which a claim dated back in time must not break; and `TakeoverAfterExpiry`.
  `ContractsUseLeases`: every step of TaskContracts is one of LeaseTable or
  leaves the table alone, so both hold there too. Then its own properties:
  `HistoryInv` says that what a process has read and will write starts with the
  opening as well; `ClaimInv` that a claim on its way to the file has been granted;
  `AloneInv` that, as long as no two commands overlapped, what a process has
  read is what the file says when it writes.
- `ClaimRegistryProofs`. `RegistryTyped`; `LockHolds`: only the flock's holder
  is inside, and what it has read is what the file says when it decides;
  `RegistryImplementsTable`: from both, every step is a grant, a tick or a
  stutter of LeaseTable; `RegistryTakeover` follows. The last two assume
  `~TornWrites`, no kill between truncation and write; without it they are
  false.
- `ArtifactsProofs`. `ArtifactsTyped`. `LinksExpire`: `ExpiryInv` says that a
  signed expiry is at most the printed one, in jobs and in links. `LinksHavePages`:
  `PageInv` says which files are there at each point of a command and behind
  each readable manifest. `LinksAreListed`: `ListInv` says that the one command
  under way has read all links, and that the manifest is unreadable only while it
  writes. `LinksHold`: `HoldInv` says that the rounding cuts off less than a second.
- `HealthcheckProofs`. `HealthcheckTyped`. `Capped`: `CapInv` counts the alerts
  together with the processes that have looked at the cap and are about to write,
  which the alerts alone do not bound. `AlertedOnce`: `DedupInv`, alone, says
  that a process about to write found no alert like its own. `FailuresTold`: `ToldInv`
  says which checks a dispatch has yet to come to. `LedgerExplains`: `LedgerInv`
  says how far the ledger is ahead of the snapshot between the two writes.
- `TaskDeliveryProofs`. `DeliveryTyped`. `CourseHolds`: `CourseInv` says what
  each process relies on while others work on the same files: a writer's file
  is where the writer has it open, what a mover copies is there, what it removes
  it has copied, what a run files it has served. From it `NothingIsLost`
  (there is always a file, on both kinds of devices) and `DeliveryKeepsOrder`, the
  refinement of Mailbox, step by step. `RenamesKeepOne`: `PlaceInv` adds, for one device, that nobody
  copies and that each file is exactly where `at` says. `EachIsServedOnce`:
  `ServeInv` adds that a task is served no more often than runs ended before they filed
  it, but for one run that is about to, or once it is in processed; and that one the run
  has not yet served is still in the inbox, where only the run takes it.
- `BootstrapProofs`. `Reruns`: `SafeInv` says that the key is written only over
  an empty file, that a timer disabled by hand is disabled, and that a bootstrap about
  to enable the timer found it otherwise. `NothingStale`:
  `StaleInv` says that after the removal of what is stale, as long as nothing
  failed, only generated units are enabled, and before it that enabled units
  have files, so that the removal finds them.
  `Converges` and `InboxesPass`: `ConvergeInv` says, phase by phase, what
  a bootstrap without failed commands has done of users, directories, access
  entries and masks, units and documents, whatever it started from. `Prunes`:
  `PruneInv` says that who has a user has a directory, by which the prune finds
  him.
- `HostProofs`, of Host. `Killed`: `KillInv` says that what is behind the kill in
  its list is stopped, which holds because the path unit comes first.
  `FilterStays`: `CleanInv` and `InForceInv` say what is on disk and in force
  between the three commands, on a lemma that the chain's verdict is the
  allowlist's. `KeysArrive` and `OneResolution`: `RuntimeInv` carries what
  conos.toml says through the resolutions of a run. `ImmutableAgain`: `OpenInv`
  says that while the bit is off and nobody was killed, some command is under way
  that will put it back, not always the one that took it off. `IntendedKept`, the
  other property of the package commands, has three layers. The first is about the
  two editors alone, on files of any length: where an inserted line shifts the
  others (`Shift`), that a search ends where it should (`SavedIn`, `RemovedFrom`), and
  that an edit changes one agent's list as asked, no other, and no other line.
  The second is the command line: whatever the order of the words, what the parser
  makes of them names no package or agent but those typed (`LinesUnderstood`). The
  third is `IntentInv`: what is on disk, and what each command holds in memory, is
  empty, garbled or sound (as documented, with the other lines of the first file, and
  in the lists only what was there or asked for); and as long as no two commands
  overlapped, the lists on disk, or those about to be written, are what the reports
  add up to. The property says nothing of copies in memory and is not inductive
  without that. `TurnsAreKept` and
  `LatestIsKept`: `ThreadInv` says, place by place of the one run under way, what it
  holds in memory and what the files hold. Between the two writes each turn is still
  in window or brief once; unless a run was killed, or the brief is trimmed, the two
  together have all turns, and one line is the latest exchange's. It rests on lemmas
  about what appending, cutting the window, summarising and trimming keep.
  `PolicyKept`: `PolicyInv` says which candidates are in the prompt so far, and that
  fewer than three sections take no more than their limits, so that one which does
  not fit finds three in.

Every safety property of a passing run is a theorem. Only model-checked are the
properties under fairness (RunDrainsInbox, TimerServesEveryTask, EveryClaimEnds),
which are out of the prover's reach. Induction over the length of a file is out
of its reach as well, since the library's induction theorems take an operator: where the
proofs need a least element (`LeastNat`) it comes from the well-foundedness of
`<` on the naturals, and ranks are compared by bijections (`SameCount`). No module has
a recursive operator. The modules that Host instantiates extend no more library
modules than they use: tlapm carries all of their definitions into every
obligation.

## Known divergences

One is a run of this project (a finding in `PROJECT.json`):

- *alert_same_second*: `actions.go:104` names alerts by the second and
  overwrites; `healthcheck.go:155-156` relies on each check having sent its own.

Others were met while modelling. The models contain the behaviour, and the
properties are stated so that they hold beside it:

- A kill between the truncation and the write of `.claims.json` leaves an empty
  registry (`task_registry.go:76-78`, `:105`): every lease is forgotten
  (`TornWrites`). An owner that renews with a time read before a long wait for
  the lock shortens its own reported lease.
- Contract files have no lock: two overlapping updates lose one, and a task
  blocked or completed between the two reads of `task_completion.go:46-64` is
  completed all the same.
- Two forwards of one agent to one target in one second have one name
  (`runner.go:211`). Forwarded tasks ("20...") sort behind all dropped ones
  ("17..."), so "oldest" is not the oldest (`runner.go:115`).
- A continuous agent drains its inbox, exits with success and is not restarted
  (`units.go:197`). A worker's unit cannot write the ledger
  (`units.go:115`), although `manifest.go:248` says that all agents can; the line
  is dropped silently.
- A run that picks a task before its metadata has followed serves it without
  sender and thread, and the metadata stays behind (`runner.go:648`).
- `halt_agents` stops `conos-*.service`, the healthcheck's own unit included
  (`actions.go:22`). The summary also names exempt and skipped checks
  (`healthcheck.go:165`). Overlapping healthchecks write a ledger that does not
  add up.
- A trimmed brief may lose the line of the latest exchange, which is not always
  the last line (`thread_context.go:149-161`). Open items stay when an output has
  none (`thread_context.go:171`), although line 343 calls the latest output the
  source of truth. A kill within the write of `facts.json` makes every later
  run of the thread fail before its task is filed, and blocks the inbox.
- A link to a private artifact is accepted and has no page. Two overlapping
  `artifact link` commands lose one link from the manifest; both remain valid.
  After the key file was replaced, the server rejects new links until it
  restarts.
- `task_completion.go:25` marks a contract as passing when one of its checks
  passes; lines 10-11 say "it checks if ALL referenced contract IDs passed".
  `Passing` of TaskContracts is what the code does.

Configuration and packages:

- `types.go:154-156` means to keep OAuth tokens from PicoClaw "by env var name OR
  by token value prefix", but looks before lines 173-175 fill in the default
  CONOS_API_KEY: a token in that variable goes to PicoClaw as an API key.
- `conctl status` warns of missing Anthropic keys, but says nothing at all when
  conos.toml does not parse (`ops.go:200-203`). An agent whose provider PicoClaw
  lacks, and who is Claude's only by the value of its key, makes it invalid in a shell
  without the keys and valid in the run; NoWarningMeansKey leaves that case out.
- "the agent can run with the same provider/model/runner as declared agents"
  (`runner.go:301-302`): the runtime is built from `ResolvedAgent`
  (`ops.go:92-94`), which is empty for a commissioned agent. Properties of
  AgentRuntime say `Declared` where this matters.
- `package.go:164-165` "finds the [[agents]] block by name and adds/updates the
  packages field": a list that spans lines is left as it is and reported as
  saved; one above the name is not seen, and a second is added; a section that
  follows without a blank line gets the new list. MCHost has the layouts
  the documentation uses. Flags are not accepted "regardless of argument order"
  (lines 17-18): in `--save jq --agent a` the package is taken for a value of
  `--save` and ends the flags (`Spellings`).
- A package saved by one of two overlapping commands may be lost; a command
  whose neighbour has put the immutable bit back fails to write; a kill within the
  write leaves half of conos.toml.

Bootstrap ("idempotent — safe to re-run after config changes", `README.md:11`):

- Stale units are to be disabled and removed (`manifest.go:484-486`), but those
  that an earlier bootstrap made immutable are only disabled.
- The healthcheck timer's file is written before `is-enabled` is asked, so on the
  first bootstrap the answer is "disabled" and it is never enabled
  (`manifest.go:513-515` expects "not-found"). DisabledStaysDisabled is stated of
  a timer that the operator disabled.
- Access lists are only ever added (`manifest.go:214`, "Workers cannot task."):
  an officer who becomes a worker can still task. CompletedConverges and
  DoctorPassesInboxes therefore say that those who should can, not that others cannot.
  The doctor does not look at access lists and units (`verify.go:21`).
- The doctor checks every directory and file of the manifest (`verify.go:29-39`), but
  some that no phase makes: after a clean bootstrap it still reports that
  `/etc/conos/env` does not exist. DoctorPassesInboxes is of the inboxes alone.
- "Only enable healthcheck timer if it wasn't explicitly disabled"
  (`manifest.go:512`): a timer that the operator disables between `is-enabled` and
  `systemctl enable --now` (line 516) is enabled. `byHand` does not count it.
- "Here we just fix ownership after assembly" (`manifest.go:614-615`): assembly
  comes after all commands (`ops.go:48-54`).
- `PruneCommands` removes what is "not in the current config"
  (`provision.go:91-92`): a conos.toml that is empty because it is just being
  written declares no agent, and everyone is pruned.
- "When \"permissive\" or empty, no rules are generated" (`nftables.go:12`,
  `manifest.go:383`): nor are the old ones removed, so a filter that is
  switched off stays in force.

Units and prompts:

- "Stop a running agent's systemd units" (`main.go:43`): `ops.go:389` stops the
  timer last, so the timer may restart the service in between.
- The cron agents' path unit is to "watch inbox for on-demand tasks between
  scheduled runs" (`units.go:218`), but is never enabled. A continuous agent's
  command has `--continuous` (`units.go:192`) but returns when its inbox is empty
  (`ops.go:98`).
- With four policies of full length before it the agent's own policy is left
  out: the first section that does not fit ends the list
  (`policy_context.go:47-48`).

## Not modelled

Reports (`status`, `responses`, `logs`, `protocol`), argument handling outside
`conctl package`, and clear-sessions: they format and read, or remove files
that nothing here reads. AGENTS.md assembly concatenates layers; Bootstrap has
its result as a version. Contract parsing and evaluation surround the shared
contracts engine, a library; `Begin` of Healthcheck chooses its results. A model
call is external; its outcomes are choices of `Invoke`. Of bootstrap, sudoers,
git, ssh, dashboard, nginx, skills and MCP set-up are left out: idempotent
commands whose results no other component here depends on. The spend ledger is
modelled within one calendar day. Of its lines those a confined worker cannot write
are missing in the model; that any append may fail and is passed over
(`runner.go:521-527`) is not modelled. Nor is the way of a task dropped by a user who
may not write an agent's inbox: it goes to the outer inbox with a routing directive
(`ops.go:129-143`), and from there the way of TaskDelivery. `chattr` does what it is
asked in PackageConfig and Bootstrap; the code ignores its errors
(`immutable.go:9-13`), and on a file system without the bit nothing is immutable. The
healthcheck's deadline of two minutes is not modelled. A torn write of `.claims.json` is in the model but not in the run.

## Plan

Done, in this order: AgentRun and its proofs; LeaseTable, ClaimRegistry and the
refinement; TaskContracts on top of LeaseTable; TaskDelivery; Healthcheck;
ThreadContext; Artifacts and its proofs; PackageConfig; Bootstrap; AgentRuntime,
Firewall, AgentUnits, PolicyContext and Host; Mailbox and the proofs of
TaskDelivery, Bootstrap and PackageConfig; the proofs of TaskContracts,
Healthcheck and of the parts of Host, ThreadContext among them; the rest of those
of AgentRun, Artifacts and Bootstrap; OnlyIntendedChanges.

What would come next: a second day in the spend ledger; removing access lists once
the code does.
