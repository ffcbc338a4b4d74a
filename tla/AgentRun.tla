------------------------------ MODULE AgentRun ------------------------------
(***************************************************************************)
(* Agents drain their inboxes with `conctl run <agent>`.  A run is one     *)
(* operating-system process; it is started by the agent's systemd unit or  *)
(* by hand, and it loops: pick the first task, invoke the model, append to *)
(* the ledger, charge the day's budget, answer, file the task, forward it. *)
(* Every file operation is a step of its own, so that runs interleave with *)
(* each other, with new tasks, with the clock, and with a kill at any      *)
(* point.  Directories are sets of files with distinct names.  The model   *)
(* covers one calendar day of the spend ledger.                            *)
(***************************************************************************)
EXTENDS Naturals, FiniteSets

CONSTANTS
    Agents,       \* the agents that have an inbox
    Sysadmin,     \* the name budget notices go to; it need not be an agent
    Routers,      \* agents whose unit may write the ledger and other inboxes: no worker
    NoAgent,      \* no (known) target in a routing directive
    Runs,         \* processes that may execute `conctl run`
    AgentOf,      \* the agent each process runs
    Units,        \* the processes that are their agent's systemd service
    Mode,         \* each agent's mode in conos.toml
    Cost,         \* contracts.estimated_cost_per_run_usd, in cents
    Budget,       \* contracts.daily_budget_usd, in cents
    MaxDrops,     \* bound: tasks dropped by users
    MaxTime,      \* bound: seconds on the clock
    MaxForwards,  \* bound: tasks filed with a routing directive
    MaxFaults,    \* bound: failed or killed runs
    MaxCharges    \* bound: no run starts once the day has this many charges

ASSUME ConstantsAssumption ==
    /\ NoAgent \notin Agents
    /\ Agents \cap Nat = {}
    /\ Routers \subseteq Agents
    /\ AgentOf \in [Runs -> Agents]
    /\ Units \subseteq Runs
    /\ \A r, s \in Units : AgentOf[r] = AgentOf[s] => r = s
    /\ Mode \in [Agents -> {"on-demand", "continuous", "cron"}]
    /\ Cost \in Nat /\ Budget \in Nat
    /\ MaxDrops \in Nat /\ MaxTime \in Nat
    /\ MaxForwards \in Nat /\ MaxFaults \in Nat /\ MaxCharges \in Nat

VARIABLES
    now,        \* the clock, in seconds
    drops,      \* how many tasks were dropped so far
    inbox,      \* agents/<a>/inbox
    processed,  \* agents/<a>/processed
    outbox,     \* agents/<a>/outbox
    ledger,     \* ledger/<day>.tsv: the <<agent, task name>> of each line
    spent,      \* how many of the day's lines ledger/spend.jsonl holds
    pc,         \* where each run is
    status,     \* how each run's last process ended
    task,       \* the task a run holds in memory
    to,         \* the routing directive of a run's output
    stamp,      \* the second a run took at the start of RouteOutput
    charge,     \* which line of the day a run's spend event is
    wake,       \* an inbox change systemd has seen and not yet acted on
    faults,     \* failed or killed runs so far
    selfFiled,  \* history: tasks the invoked agent moved to processed itself
    due         \* history: forwards owed, recorded when the task is filed

files   == <<inbox, processed, outbox, ledger, spent>>
locals  == <<task, to, stamp, charge>>
history == <<selfFiled, due>>
vars == <<now, drops, files, pc, status, locals, wake, faults, history>>

-----------------------------------------------------------------------------
(* File names and directories.                                             *)

\* The three name schemes that share an inbox: UnixMicro for dropped tasks
\* ("17..."), Unix seconds for budget notices ("17...-budget"), and dates for
\* forwarded tasks ("20...-from-<agent>").
Names == [kind : {"micro", "unix", "date"}, sec : Nat, tag : Nat \cup Agents]

\* What a task is about: the number of the drop it stems from, 0 for a notice.
Files == [name : Names, msg : Nat]

NoTask == [name |-> [kind |-> "unix", sec |-> 0, tag |-> 0], msg |-> 0]

Answers == [base : Names, sec : Nat, msg : Nat, charge : Nat]

Era(n) == IF n.kind = "date" THEN 1 ELSE 0

\* The lexicographic order of the names, as far as it depends on time.  Two
\* forwards of one second are ordered by their senders' names: either way.
SortsBefore(m, n) ==
    \/ Era(m) < Era(n)
    \/ Era(m) = Era(n) /\ m.sec < n.sec
    \/ m.kind = "unix" /\ n.kind = "micro" /\ m.sec = n.sec
    \/ m.kind = "micro" /\ n.kind = "micro" /\ m.sec = n.sec /\ m.tag < n.tag

First(dir) == {f \in dir : \A g \in dir : ~SortsBefore(g.name, f.name)}

\* os.WriteFile and os.Rename replace a file of the same name.
Put(dir, f) == {g \in dir : g.name # f.name} \cup {f}

Same(dir, f) == {g \in dir : g.name = f.name}

-----------------------------------------------------------------------------
(* systemd, as the generated units use it.                                 *)

UnitIdle(a) == \A r \in Units : AgentOf[r] = a => pc[r] = "idle"

\* Mutant: the pending changes of the other agents are dropped.
NoticeOnly(changed) ==
    wake' = [a \in changed |-> Mode[a] = "on-demand" /\ UnitIdle(a)]

\* PathChanged= notices a change while the service is inactive; the watch is
\* dropped while the service runs.
Notice(changed) ==
    wake' = [a \in Agents |-> wake[a] \/ (/\ a \in changed
                                          /\ Mode[a] = "on-demand"
                                          /\ UnitIdle(a))]

Begin(r) ==
    /\ pc[r] = "idle"
    /\ spent < MaxCharges
    /\ pc' = [pc EXCEPT ![r] = "pick"]
    /\ status' = [status EXCEPT ![r] = "running"]
    /\ UNCHANGED <<now, drops, files, locals, faults, history>>

StartOnChange(r) ==
    /\ r \in Units /\ Mode[AgentOf[r]] = "on-demand" /\ wake[AgentOf[r]]
    /\ Begin(r)
    /\ wake' = [wake EXCEPT ![AgentOf[r]] = FALSE]

\* enable --now starts the service; Restart=on-failure restarts it.
StartService(r) ==
    /\ r \in Units /\ Mode[AgentOf[r]] = "continuous"
    /\ status[r] \in {"fresh", "failed"}
    /\ Begin(r) /\ UNCHANGED wake

\* Mutant: a run that failed is not started again.
StartOnTimerUnlessFailed(r) ==
    /\ r \in Units /\ Mode[AgentOf[r]] = "cron" /\ status[r] # "failed"
    /\ Begin(r) /\ UNCHANGED wake

StartOnTimer(r) ==
    /\ r \in Units /\ Mode[AgentOf[r]] = "cron"
    /\ Begin(r) /\ UNCHANGED wake

StartByHand(r) ==
    /\ r \in Runs \ Units
    /\ Begin(r) /\ UNCHANGED wake

-----------------------------------------------------------------------------
(* One run.                                                                *)

At(r, label) == pc[r] = label
Goto(r, label) == pc' = [pc EXCEPT ![r] = label]

\* What the process held in memory is gone, or out of scope.
Forget(r) ==
    /\ task' = [task EXCEPT ![r] = NoTask]
    /\ to' = [to EXCEPT ![r] = NoAgent]
    /\ stamp' = [stamp EXCEPT ![r] = 0]
    /\ charge' = [charge EXCEPT ![r] = 0]

\* The process ends; a unit stays active until Exit.
Leave(r, how) == Goto(r, "exit") /\ status' = [status EXCEPT ![r] = how]

Pick(r) ==
    LET here == inbox[AgentOf[r]] IN
    /\ At(r, "pick")
    /\ \/ /\ here = {}
          /\ Leave(r, "ok")
          /\ UNCHANGED task
       \/ \E f \in First(here) :
          /\ task' = [task EXCEPT ![r] = f]
          /\ Goto(r, "invoke")
          /\ UNCHANGED status
    /\ UNCHANGED <<now, drops, files, to, stamp, charge, wake, faults, history>>

\* AGENTS.md, the task, its metadata or its thread cannot be read, or the
\* runtime returns no output: the loop ends and the task stays.
Abort(r) ==
    /\ pc[r] \in {"pick", "invoke"}
    /\ faults < MaxFaults
    /\ faults' = faults + 1
    /\ Leave(r, "failed") /\ Forget(r)
    /\ UNCHANGED <<now, drops, files, wake, history>>

\* Rename whatever now has the task's name; nothing there is not an error.
MoveToProcessed(r) ==
    LET a == AgentOf[r]
        mine == Same(inbox[a], task[r]) IN
    /\ inbox' = [inbox EXCEPT ![a] = @ \ mine]
    /\ processed' = [processed EXCEPT ![a] =
                       IF mine = {} THEN @ ELSE (@ \ Same(@, task[r])) \cup mine]
    /\ Notice(IF mine = {} THEN {} ELSE {a})

\* The model answers, perhaps with a routing directive, and may have moved its
\* own task to processed meanwhile.
Invoke(r) ==
    /\ At(r, "invoke")
    /\ \E t \in Agents \cup {NoAgent} :
       /\ t # NoAgent => Cardinality(due) < MaxForwards
       /\ to' = [to EXCEPT ![r] = t]
    /\ \/ UNCHANGED <<inbox, processed, wake, selfFiled>>
       \/ /\ Same(inbox[AgentOf[r]], task[r]) # {}
          /\ MoveToProcessed(r)
          /\ selfFiled' = selfFiled \cup {<<AgentOf[r], task[r].name>>}
    /\ Goto(r, "account")
    /\ UNCHANGED <<now, drops, outbox, ledger, spent, status, task, stamp, charge,
                   faults, due>>

\* A worker's unit finds all but its own directories read-only.
Confined(r) == r \in Units /\ AgentOf[r] \notin Routers

\* The line is appended unless the unit is confined; that any append may fail, for want
\* of space, and is passed over too, is left out.
Account(r) ==
    /\ At(r, "account")
    /\ ledger' = IF Confined(r) THEN ledger ELSE ledger \cup {<<AgentOf[r], task[r].name>>}
    /\ Goto(r, IF Cost > 0 THEN "charge" ELSE "respond")
    /\ UNCHANGED <<now, drops, inbox, processed, outbox, spent, status, locals, wake,
                   faults, history>>

\* A run that cannot record its spend fails.
Charge(r) ==
    /\ At(r, "charge")
    /\ \/ /\ ~Confined(r)
          /\ spent' = spent + 1
          /\ charge' = [charge EXCEPT ![r] = spent + 1]
          /\ Goto(r, "check")
          /\ UNCHANGED <<status, task, to, stamp>>
       \/ /\ Confined(r)
          /\ Leave(r, "failed") /\ Forget(r)
          /\ UNCHANGED spent
    /\ UNCHANGED <<now, drops, inbox, processed, outbox, ledger, wake, faults, history>>

\* Mutant: the total is taken before this run's own charge.
ExceededBefore == Budget > 0 /\ (spent - 1) * Cost > Budget

Exceeded == Budget > 0 /\ spent * Cost > Budget

\* Over budget: sysadmin is told, the run fails, the task stays in the inbox.
CheckBudget(r) ==
    /\ At(r, "check")
    /\ \/ /\ ~Exceeded
          /\ Goto(r, "respond")
          /\ UNCHANGED <<status, inbox, wake, locals>>
       \/ /\ Exceeded
          /\ Leave(r, "failed") /\ Forget(r)
          /\ inbox' = [a \in Agents |->
                         IF a # Sysadmin THEN inbox[a] ELSE
                         Put(inbox[a], [name |-> [kind |-> "unix", sec |-> now, tag |-> 0],
                                        msg |-> 0])]
          /\ Notice({Sysadmin})
    /\ UNCHANGED <<now, drops, processed, outbox, ledger, spent, faults, history>>

Respond(r) ==
    LET a == AgentOf[r] IN
    /\ At(r, "respond")
    /\ stamp' = [stamp EXCEPT ![r] = now]
    /\ outbox' = [outbox EXCEPT ![a] =
         {x \in @ : <<x.base, x.sec>> # <<task[r].name, now>>} \cup
         {[base |-> task[r].name, sec |-> now, msg |-> task[r].msg, charge |-> charge[r]]}]
    /\ Goto(r, "retire")
    /\ UNCHANGED <<now, drops, inbox, processed, ledger, spent, status, task, to, charge,
                   wake, faults, history>>

\* Mutant: the task is filed where the answer should be written.
RetireUnanswered(r) ==
    /\ At(r, "respond")
    /\ MoveToProcessed(r)
    /\ Goto(r, "forward")
    /\ UNCHANGED <<now, drops, outbox, ledger, spent, status, locals, faults, history>>

Retire(r) ==
    /\ At(r, "retire")
    /\ MoveToProcessed(r)
    /\ due' = IF to[r] = NoAgent THEN due ELSE
              due \cup {[from |-> AgentOf[r], to |-> to[r], sec |-> stamp[r], msg |-> task[r].msg]}
    /\ Goto(r, "forward")
    /\ UNCHANGED <<now, drops, outbox, ledger, spent, status, locals, faults, selfFiled>>

\* Mutant: forwards are named by the day and the sender.
ForwardedByDay(r) ==
    [name |-> [kind |-> "date", sec |-> 0, tag |-> AgentOf[r]], msg |-> task[r].msg]

Forwarded(r) ==
    [name |-> [kind |-> "date", sec |-> stamp[r], tag |-> AgentOf[r]], msg |-> task[r].msg]

\* Mutant: the loop returns after one task.
ForwardAndReturn(r) ==
    /\ At(r, "forward") /\ to[r] = NoAgent /\ Forget(r)
    /\ Leave(r, "ok")
    /\ UNCHANGED <<now, drops, files, wake, faults, history>>

\* A run that cannot write the target's inbox fails.
Forward(r) ==
    /\ At(r, "forward") /\ Forget(r)
    /\ \/ /\ to[r] = NoAgent
          /\ Goto(r, "pick")
          /\ UNCHANGED <<inbox, wake, status>>
       \/ /\ to[r] # NoAgent /\ (~Confined(r) \/ to[r] = AgentOf[r])
          /\ inbox' = [inbox EXCEPT ![to[r]] = Put(@, Forwarded(r))]
          /\ Notice({to[r]})
          /\ Goto(r, "pick")
          /\ UNCHANGED status
       \/ /\ Confined(r) /\ to[r] \notin {NoAgent, AgentOf[r]}
          /\ Leave(r, "failed")
          /\ UNCHANGED <<inbox, wake>>
    /\ UNCHANGED <<now, drops, processed, outbox, ledger, spent, faults, history>>

Exit(r) ==
    /\ At(r, "exit")
    /\ Goto(r, "idle")
    /\ UNCHANGED <<now, drops, files, status, locals, wake, faults, history>>

\* The process is killed, or the machine stops, between two file operations.
Crash(r) ==
    /\ pc[r] \notin {"idle", "exit"}
    /\ faults < MaxFaults
    /\ faults' = faults + 1
    /\ Goto(r, "idle") /\ Forget(r)
    /\ status' = [status EXCEPT ![r] = "failed"]
    /\ UNCHANGED <<now, drops, files, wake, history>>

-----------------------------------------------------------------------------
(* The environment.                                                        *)

\* Mutant: drops are named by the second.
DropBySecond(a) ==
    /\ drops < MaxDrops
    /\ drops' = drops + 1
    /\ inbox' = [inbox EXCEPT ![a] =
         Put(@, [name |-> [kind |-> "micro", sec |-> now, tag |-> 0], msg |-> drops + 1])]
    /\ Notice({a})
    /\ UNCHANGED <<now, processed, outbox, ledger, spent, pc, status, locals, faults, history>>

\* `conctl task --agent a`: microseconds make the name of each drop its own.  The user
\* may write the inbox: who may not is sent to the outer inbox (TaskDelivery).
Drop(a) ==
    /\ drops < MaxDrops
    /\ drops' = drops + 1
    /\ inbox' = [inbox EXCEPT ![a] =
         Put(@, [name |-> [kind |-> "micro", sec |-> now, tag |-> drops + 1],
                 msg |-> drops + 1])]
    /\ Notice({a})
    /\ UNCHANGED <<now, processed, outbox, ledger, spent, pc, status, locals, faults, history>>

Tick ==
    /\ now < MaxTime
    /\ now' = now + 1
    /\ UNCHANGED <<drops, files, pc, status, locals, wake, faults, history>>

Init ==
    /\ now = 0 /\ drops = 0 /\ spent = 0 /\ faults = 0
    /\ inbox = [a \in Agents |-> {}]
    /\ processed = [a \in Agents |-> {}]
    /\ outbox = [a \in Agents |-> {}]
    /\ ledger = {}
    /\ pc = [r \in Runs |-> "idle"]
    /\ status = [r \in Runs |-> "fresh"]
    /\ task = [r \in Runs |-> NoTask]
    /\ to = [r \in Runs |-> NoAgent]
    /\ stamp = [r \in Runs |-> 0]
    /\ charge = [r \in Runs |-> 0]
    /\ wake = [a \in Agents |-> FALSE]
    /\ selfFiled = {} /\ due = {}

Step(r) ==
    \/ Pick(r) \/ Invoke(r) \/ Account(r) \/ Charge(r) \/ CheckBudget(r)
    \/ Respond(r) \/ Retire(r) \/ Forward(r) \/ Exit(r)

Start(r) == StartOnChange(r) \/ StartService(r) \/ StartOnTimer(r) \/ StartByHand(r)

Next ==
    \/ \E r \in Runs : Start(r) \/ Step(r) \/ Abort(r) \/ Crash(r)
    \/ \E a \in Agents : Drop(a)
    \/ Tick

Spec == Init /\ [][Next]_vars

\* A started process keeps running, and systemd acts on a change it noticed and
\* on a service it must keep up.  Nothing obliges users, operators or the clock.
UnitSpec ==
    /\ Spec
    /\ \A r \in Runs : WF_vars(Step(r))
    /\ \A r \in Units : WF_vars(StartOnChange(r)) /\ WF_vars(StartService(r))

\* The calendar timer of a cron agent also keeps firing.
TimerSpec == UnitSpec /\ \A r \in Units : WF_vars(StartOnTimer(r))
-----------------------------------------------------------------------------
(* Properties.                                                             *)

TypeOK ==
    /\ now \in Nat /\ drops \in Nat /\ spent \in Nat /\ faults \in Nat
    /\ inbox \in [Agents -> SUBSET Files]
    /\ processed \in [Agents -> SUBSET Files]
    /\ outbox \in [Agents -> SUBSET Answers]
    /\ ledger \subseteq Agents \X Names
    /\ pc \in [Runs -> {"idle", "pick", "invoke", "account", "charge", "check",
                        "respond", "retire", "forward", "exit"}]
    /\ status \in [Runs -> {"fresh", "running", "ok", "failed"}]
    /\ task \in [Runs -> Files]
    /\ to \in [Runs -> Agents \cup {NoAgent}]
    /\ stamp \in [Runs -> Nat]
    /\ charge \in [Runs -> Nat]
    /\ wake \in [Agents -> BOOLEAN]
    /\ selfFiled \subseteq Agents \X Names
    /\ due \subseteq [from : Agents, to : Agents, sec : Nat, msg : Nat]

Drops(dir, k) == {f \in dir : f.name.kind = "micro" /\ f.msg = k}

Places == Agents \X {"inbox", "processed"}
Folder(h) == IF h[2] = "inbox" THEN inbox[h[1]] ELSE processed[h[1]]

\* The directories that hold the k-th dropped task.
Homes(k) == {h \in Places : Drops(Folder(h), k) # {}}

\* A dropped task is never lost and never doubled: through every failure, kill
\* and concurrent run it is in one inbox or in one processed directory.
DropIsKept == \A k \in 1..drops : \E h \in Places : Homes(k) = {h}

\* RouteOutput writes the answer before it files the task, so a kill between the
\* two repeats the work instead of losing the answer: what a run filed was
\* answered, and what an agent that may write the ledger answered is in it.
AnsweredBeforeFiled ==
    \A a \in Agents :
       /\ \A f \in processed[a] :
            \/ <<a, f.name>> \in selfFiled
            \/ \E x \in outbox[a] : x.base = f.name
       /\ a \in Routers => \A x \in outbox[a] : <<a, x.base>> \in ledger

\* The spend line is appended before the sum is read: however runs interleave,
\* the run whose charge is the day's k-th answers only if k charges fit the
\* budget, and no two answers share a charge.
AnswersWithinBudget ==
    Cost > 0 =>
       /\ \A a \in Agents : \A x \in outbox[a] :
            x.charge \in 1..spent /\ (Budget > 0 => x.charge * Cost <= Budget)
       /\ \A a, b \in Agents : \A x \in outbox[a], y \in outbox[b] :
            x.charge = y.charge => a = b /\ x = y

Waiting(a, k) == Drops(inbox[a], k) # {}
Filed(k) == \E a \in Agents : Drops(processed[a], k) # {}

\* runAgentLoop drains the inbox: a task that waits while a run of its agent is
\* looping is filed, unless that run fails.
RunDrainsInbox ==
    \A r \in Runs, k \in 1..MaxDrops :
       At(r, "pick") /\ Waiting(AgentOf[r], k) ~>
          ~Waiting(AgentOf[r], k) \/ status[r] = "failed"

\* A forward that was owed when its task was filed is still to be written by its
\* run, has reached its target, or is lost in one of three ways: a run failed or
\* was killed, the sender's unit may not write other inboxes, or the same agent
\* forwarded another task to the same target in the same second.
ForwardsAreDelivered ==
    \A d \in due :
       \/ faults > 0 \/ d.from \notin Routers
       \/ \E e \in due : e # d /\ <<e.from, e.to, e.sec>> = <<d.from, d.to, d.sec>>
       \/ \E r \in Runs : /\ At(r, "forward") /\ AgentOf[r] = d.from
                         /\ to[r] = d.to /\ task[r].msg = d.msg
       \/ \E f \in inbox[d.to] \cup processed[d.to] :
             f.name.kind = "date" /\ f.name.sec = d.sec /\ f.msg = d.msg

\* The calendar timer serves a cron agent whatever became of earlier runs: every
\* task that waits for it is eventually filed.
TimerServesEveryTask ==
    \A a \in Agents, k \in 1..MaxDrops :
       Mode[a] = "cron" /\ Waiting(a, k) ~> Filed(k)
=============================================================================
