----------------------------- MODULE Healthcheck ----------------------------
(***************************************************************************)
(* `conctl healthcheck`: from the results of an audit to the state         *)
(* snapshot, the diff ledger and the alerts in the sysadmin's inbox.  The  *)
(* timer's service and runs by hand may overlap, the clock may stand still *)
(* between two files, and a process may be killed between any two of them. *)
(***************************************************************************)
EXTENDS Naturals, FiniteSets, Sequences

CONSTANTS
    Checks,     \* the checks of the health contracts
    OnFail,     \* what each check does when it fails
    Results,    \* what an audit can find: a status for each check
    Procs,      \* processes of `conctl healthcheck`
    Services,   \* those of them that are conos-healthcheck.service
    Cap,        \* how many healthcheck tasks may be pending (10)
    MaxTime,    \* bound: the clock
    MaxRuns,    \* bound: healthchecks
    MaxKills    \* bound: killed processes

ASSUME HealthcheckAssumption ==
    /\ OnFail \in [Checks -> {"escalate", "warn", "halt_agents"}]
    /\ Results \subseteq [Checks -> {"pass", "fail", "warn", "unknown", "skip", "exempt"}]
    /\ IsFiniteSet(Procs) /\ Services \subseteq Procs
    /\ \A p, q \in Services : p = q
    /\ Cap \in Nat \ {0}
    /\ MaxTime \in Nat /\ MaxRuns \in Nat /\ MaxKills \in Nat

VARIABLES
    now,
    alerts,   \* the healthcheck tasks in agents/sysadmin/inbox
    ledger,   \* contracts-state.diff.jsonl
    latest,   \* the failed checks of contracts-state.latest.json
    pc,
    res,      \* each run's results
    prev,     \* the previous failures it read
    last,     \* the last line of the ledger it read
    todo,     \* the failing checks whose action it has still to dispatch
    msg,      \* the alert it is about to send
    told,     \* history: the checks of the alerts it was done with
    runs, kills,
    alone     \* history: no two healthchecks ran at the same time

disk == <<alerts, ledger, latest>>
bounds == <<now, runs, kills>>
vars == <<disk, bounds, pc, res, prev, last, todo, msg, told, alone>>

With(r, statuses) == {k \in Checks : r[k] \in statuses}

\* An alert is about one check, or it is the summary of a run.
NoMsg == [kind |-> "none", checks |-> {}]
Alert(k) == [kind |-> "check", checks |-> {k}]
Summary(S) == [kind |-> "summary", checks |-> S]
Messages == [kind : {"none", "check", "summary"}, checks : SUBSET Checks]

Goto(p, label) == pc' = [pc EXCEPT ![p] = label]

-----------------------------------------------------------------------------
(* PersistSnapshotAndDiff.                                                  *)

Begin(p) ==
    /\ pc[p] = "idle" /\ runs < MaxRuns
    /\ runs' = runs + 1
    /\ \E r \in Results : res' = [res EXCEPT ![p] = r]
    /\ Goto(p, "readLatest")
    /\ alone' = (alone /\ \A q \in Procs : pc[q] = "idle")
    /\ UNCHANGED <<disk, now, kills, prev, last, todo, msg, told>>

ReadLatest(p) ==
    /\ pc[p] = "readLatest"
    /\ prev' = [prev EXCEPT ![p] = latest]
    /\ Goto(p, "readHash")
    /\ UNCHANGED <<disk, bounds, res, last, todo, msg, told, alone>>

\* The hash of a line stands for the line: its number.
ReadHash(p) ==
    /\ pc[p] = "readHash"
    /\ last' = [last EXCEPT ![p] = Len(ledger)]
    /\ Goto(p, "append")
    /\ UNCHANGED <<disk, bounds, res, prev, todo, msg, told, alone>>

\* Mutant: what was resolved is not recorded.
EventOfNewOnly(p) ==
    [prev |-> last[p], new |-> With(res[p], {"fail"}) \ prev[p], resolved |-> {}]

Event(p) ==
    LET failed == With(res[p], {"fail"}) IN
    [prev |-> last[p], new |-> failed \ prev[p], resolved |-> prev[p] \ failed]

AppendEvent(p) ==
    /\ pc[p] = "append"
    /\ ledger' = Append(ledger, Event(p))
    /\ Goto(p, "truncate")
    /\ UNCHANGED <<alerts, latest, bounds, res, prev, last, todo, msg, told, alone>>

\* A truncated snapshot reads as one without failures.
TruncateLatest(p) ==
    /\ pc[p] = "truncate"
    /\ latest' = {}
    /\ Goto(p, "save")
    /\ UNCHANGED <<alerts, ledger, bounds, res, prev, last, todo, msg, told, alone>>

SaveLatest(p) ==
    /\ pc[p] = "save"
    /\ latest' = With(res[p], {"fail"})
    /\ todo' = [todo EXCEPT ![p] = With(res[p], {"fail", "warn", "unknown"})]
    /\ Goto(p, "dispatch")
    /\ UNCHANGED <<alerts, ledger, bounds, res, prev, last, msg, told, alone>>

-----------------------------------------------------------------------------
(* DispatchAction for each failing check, then the summary.                 *)

\* So do kill_session and quarantine, which find no agent in the scope "global".
Warn(p, k) ==
    /\ OnFail[k] = "warn"
    /\ UNCHANGED <<pc, msg>>

Escalate(p, k) ==
    /\ OnFail[k] = "escalate"
    /\ msg' = [msg EXCEPT ![p] = Alert(k)]
    /\ Goto(p, "scan")

\* `systemctl stop 'conos-*.service'` stops the service of the healthcheck too.
Halt(p, k) ==
    /\ OnFail[k] = "halt_agents"
    /\ pc' = [q \in Procs |-> IF q \in Services /\ pc[q] # "idle" THEN "exit" ELSE pc[q]]
    /\ UNCHANGED msg

Dispatch(p) ==
    /\ pc[p] = "dispatch"
    /\ \E k \in todo[p] :
         /\ todo' = [todo EXCEPT ![p] = @ \ {k}]
         /\ Warn(p, k) \/ Escalate(p, k) \/ Halt(p, k)
    /\ UNCHANGED <<disk, bounds, res, prev, last, told, alone>>

\* Mutant: a check that warns is no failure.
UnescalatedFailing(p) == {k \in With(res[p], {"fail"}) : OnFail[k] # "escalate"}

\* What the summary names: all that did not pass and did not escalate.
Unescalated(p) ==
    {k \in Checks : /\ res[p][k] # "pass"
                    /\ ~(OnFail[k] = "escalate" /\ res[p][k] \in {"fail", "warn", "unknown"})}

\* Failures and warnings count as failed; an unknown status does not.
Summarise(p) ==
    /\ pc[p] = "dispatch" /\ todo[p] = {}
    /\ IF With(res[p], {"fail", "warn"}) # {} /\ Unescalated(p) # {}
       THEN msg' = [msg EXCEPT ![p] = Summary(Unescalated(p))] /\ Goto(p, "scan")
       ELSE Goto(p, "exit") /\ UNCHANGED msg
    /\ UNCHANGED <<disk, bounds, res, prev, last, todo, told, alone>>

-----------------------------------------------------------------------------
(* contracts.Escalate.                                                      *)

\* The sysadmin has been told, or cannot be told more: at most the journal is.
Sent(p) ==
    /\ told' = [told EXCEPT ![p] = @ \cup msg[p].checks]
    /\ msg' = [msg EXCEPT ![p] = NoMsg]
    /\ Goto(p, IF msg[p].kind = "summary" THEN "exit" ELSE "dispatch")

\* Mutant: alerts are compared with their time, and never alike.
PendingNever(m) == FALSE

Pending(m) == \E a \in alerts : a.body = m

\* Mutant: the cap is passed by one.
FullAbove == Cardinality(alerts) > Cap

Full == Cardinality(alerts) >= Cap

Scan(p) ==
    /\ pc[p] = "scan"
    /\ IF Pending(msg[p]) \/ Full
       THEN Sent(p)
       ELSE Goto(p, "write") /\ UNCHANGED <<msg, told>>
    /\ UNCHANGED <<disk, bounds, res, prev, last, todo, alone>>

\* The file is named by the second.  If it cannot be written, the journal says so.
Write(p) ==
    /\ pc[p] = "write"
    /\ \/ alerts' = {a \in alerts : a.sec # now} \cup {[sec |-> now, body |-> msg[p]]}
       \/ UNCHANGED alerts
    /\ Sent(p)
    /\ UNCHANGED <<ledger, latest, bounds, res, prev, last, todo, alone>>

-----------------------------------------------------------------------------

\* What a process knew is gone.
Leave(p) ==
    /\ Goto(p, "idle")
    /\ res' = [res EXCEPT ![p] = [k \in Checks |-> "pass"]]
    /\ prev' = [prev EXCEPT ![p] = {}]
    /\ last' = [last EXCEPT ![p] = 0]
    /\ todo' = [todo EXCEPT ![p] = {}]
    /\ msg' = [msg EXCEPT ![p] = NoMsg]
    /\ told' = [told EXCEPT ![p] = {}]

Exit(p) == pc[p] = "exit" /\ Leave(p) /\ UNCHANGED <<disk, bounds, alone>>

Kill(p) ==
    /\ pc[p] \notin {"idle", "exit"} /\ kills < MaxKills
    /\ kills' = kills + 1
    /\ Leave(p)
    /\ UNCHANGED <<disk, now, runs, alone>>

\* A run of the sysadmin files an alert.
Take(a) ==
    /\ a \in alerts
    /\ alerts' = alerts \ {a}
    /\ UNCHANGED <<ledger, latest, bounds, pc, res, prev, last, todo, msg, told, alone>>

Tick ==
    /\ now < MaxTime /\ now' = now + 1
    /\ UNCHANGED <<disk, runs, kills, pc, res, prev, last, todo, msg, told, alone>>

Init ==
    /\ now = 0 /\ runs = 0 /\ kills = 0
    /\ alerts = {} /\ ledger = << >> /\ latest = {}
    /\ pc = [p \in Procs |-> "idle"]
    /\ res = [p \in Procs |-> [k \in Checks |-> "pass"]]
    /\ prev = [p \in Procs |-> {}]
    /\ last = [p \in Procs |-> 0]
    /\ todo = [p \in Procs |-> {}]
    /\ msg = [p \in Procs |-> NoMsg]
    /\ told = [p \in Procs |-> {}]
    /\ alone = TRUE

Step(p) ==
    \/ ReadLatest(p) \/ ReadHash(p) \/ AppendEvent(p) \/ TruncateLatest(p) \/ SaveLatest(p)
    \/ Dispatch(p) \/ Summarise(p) \/ Scan(p) \/ Write(p) \/ Exit(p)

Next ==
    \/ \E p \in Procs : Begin(p) \/ Step(p) \/ Kill(p)
    \/ \E a \in alerts : Take(a)
    \/ Tick

Spec == Init /\ [][Next]_vars

-----------------------------------------------------------------------------

Labels == {"idle", "readLatest", "readHash", "append", "truncate", "save",
           "dispatch", "scan", "write", "exit"}

TypeOK ==
    /\ now \in Nat /\ runs \in Nat /\ kills \in Nat
    /\ alerts \subseteq [sec : Nat, body : Messages]
    /\ ledger \in Seq([prev : Nat, new : SUBSET Checks, resolved : SUBSET Checks])
    /\ latest \subseteq Checks
    /\ res \in [Procs -> Results \cup {[k \in Checks |-> "pass"]}]
    /\ prev \in [Procs -> SUBSET Checks]
    /\ last \in [Procs -> Nat]
    /\ todo \in [Procs -> SUBSET Checks]
    /\ msg \in [Procs -> Messages]
    /\ told \in [Procs -> SUBSET Checks]
    /\ pc \in [Procs -> Labels]
    /\ alone \in BOOLEAN
    /\ \A p \in Procs :
         /\ pc[p] \notin {"scan", "write", "exit"} => msg[p] = NoMsg
         /\ pc[p] \in {"scan", "write"} => msg[p] # NoMsg

\* "Cap: don't add more than 10 healthcheck tasks": every process looks before it
\* writes, so only those that looked at the same time can pass the cap.
AlertsAreCapped ==
    /\ Cardinality(alerts) < Cap + Cardinality(Procs)
    /\ alone => Cardinality(alerts) <= Cap

\* "Deduplication": however often a check fails before the sysadmin takes the
\* alert, the same alert is not pending twice, unless healthchecks overlapped.
NoAlertTwice == alone => \A a, b \in alerts : a.body = b.body => a = b

\* A healthcheck that comes to its end, beside whatever others, has told the
\* sysadmin of every failure: by an alert of its own, in the summary, or by one
\* that was pending; or the inbox was full, or the alert could not be written, which
\* the journal says.  (The timer's own service ends early where it stops itself.)
FailuresAreTold ==
    \A p \in Procs \ Services :
       pc[p] = "exit" => With(res[p], {"fail", "warn"}) \subseteq told[p]

\* Each line of the ledger is chained to the line before it.
ChainIsLinear == \A i \in 1..Len(ledger) : ledger[i].prev = i - 1

\* What the ledger's lines add up to: the failures that no line from theirs on resolves.
Replayed ==
    {k \in Checks : \E i \in 1..Len(ledger) :
        k \in ledger[i].new /\ \A j \in i..Len(ledger) : k \notin ledger[j].resolved}

\* "append-only failure/resolution diff ledger": unless healthchecks overlapped, its
\* lines are one chain, also where processes were killed; and once no healthcheck is
\* between its line and its snapshot, the failures and resolutions add up to the
\* failures of the latest snapshot.  (A kill between line and snapshot makes the
\* next healthcheck repeat the line.)
LedgerExplainsLatest ==
    alone =>
      /\ ChainIsLinear
      /\ kills = 0 /\ (\A p \in Procs : pc[p] \notin {"truncate", "save"}) => Replayed = latest

\* "Checks with on_fail=escalate already sent their own per-check tasks": an alert
\* that was sent stays until the sysadmin takes it.
AlertsStay == [][alerts \subseteq alerts' \/ \E a \in alerts : Take(a)]_vars
=============================================================================
