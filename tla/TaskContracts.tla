---------------------------- MODULE TaskContracts ---------------------------
(***************************************************************************)
(* Task contracts: one JSON file each, opened, claimed and updated by      *)
(* `conctl task-contract` and completed by the healthcheck.  Leases are    *)
(* the table of LeaseTable, which ClaimRegistry implements; the contract   *)
(* files have no lock.  An update reads the file, truncates it and writes  *)
(* it, and every process may be killed in between.                         *)
(***************************************************************************)
EXTENDS LeaseTable, Sequences

CONSTANTS
    Procs,             \* processes of the command line and of the healthcheck
    Checks,            \* ids of health contracts
    CompletionChecks,  \* the --completion-checks of each task contract
    Operator,          \* an actor that owns nothing; also: no owner
    NoFile,            \* the file does not exist
    EmptyFile,         \* truncated and not written yet: no JSON
    CorruptFile,       \* a document with the tail of another: no JSON
    MaxJobs,           \* bound: commands
    MaxKills           \* bound: killed processes

VARIABLES
    file,     \* the content of each contract's file
    pc,
    job,      \* what each process is to change
    buf,      \* the document a process is to write
    todo,     \* the files a healthcheck has still to scan
    result,   \* the statuses its run reported for the checks of each contract
    jobs, kills,
    alone,    \* history: no two commands have overlapped
    reported  \* history: events since the last opening, as reported to callers

files == <<file, reported>>
local == <<pc, job, buf, todo, result>>
count == <<jobs, kills, alone>>
vars == <<leaseVars, files, local, count>>

Statuses == {"open", "in_progress", "blocked", "completed"}

Events == [type : {"opened", "claimed", "updated", "auto"},
           by : Owners \cup {Operator}, status : Statuses]

Docs == [status : Statuses, owner : Owners \cup {Operator}, history : Seq(Events)]

Unreadable == {NoFile, EmptyFile, CorruptFile}

ASSUME ContractAssumption ==
    /\ CompletionChecks \in [Contracts -> SUBSET Checks]
    /\ Operator \notin Owners
    /\ \A f \in Unreadable : f \notin Docs
    /\ MaxJobs \in Nat /\ MaxKills \in Nat

Readable(c) == file[c] \notin Unreadable

\* What a command does to a contract.
Jobs == [c : Contracts, type : {"opened", "claimed", "updated", "auto"},
         by : Owners \cup {Operator}, owner : Owners \cup {Operator},
         status : Statuses \cup {"keep"}]

\* The command of a process that has none.
NoJob == [c |-> NoFile, type |-> "opened", by |-> Operator, owner |-> Operator, status |-> "keep"]

Goto(p, label) == pc' = [pc EXCEPT ![p] = label]

\* What a process leaves behind when it exits or is killed: the files.
Leave(p) ==
    /\ Goto(p, "idle")
    /\ job' = [job EXCEPT ![p] = NoJob]
    /\ buf' = [buf EXCEPT ![p] = NoFile]
    /\ todo' = [todo EXCEPT ![p] = {}]
    /\ result' = [result EXCEPT ![p] = [k \in Checks |-> {}]]

Start(p, label) ==
    /\ pc[p] = "idle" /\ jobs < MaxJobs
    /\ jobs' = jobs + 1
    /\ alone' = (alone /\ \A q \in Procs : pc[q] = "idle")
    /\ Goto(p, label)
    /\ UNCHANGED <<files, kills>>

-----------------------------------------------------------------------------

Opened == [status |-> "open", owner |-> Operator,
           history |-> << [type |-> "opened", by |-> Operator, status |-> "open"] >>]

\* `open` does not look whether the contract exists.
Open(p) ==
    /\ Start(p, "truncate")
    /\ \E c \in Contracts : job' = [job EXCEPT ![p] = [NoJob EXCEPT !.c = c]]
    /\ buf' = [buf EXCEPT ![p] = Opened]
    /\ UNCHANGED <<leaseVars, todo, result>>

\* Mutant: the contract is updated whether or not the claim was granted.
ClaimUngranted(p) ==
    /\ Start(p, "show")
    /\ \E c \in Contracts, o \in Owners :
         job' = [job EXCEPT ![p] = [c |-> c, type |-> "claimed", by |-> o, owner |-> o,
                                    status |-> "in_progress"]]
    /\ UNCHANGED <<leaseVars, buf, todo, result>>

\* The lease is taken in the registry first; then the contract is updated.
Claim(p) ==
    /\ Start(p, "show")
    /\ \E c \in Contracts, o \in Owners, l \in Leases, t \in 0..clock :
         /\ Grant(c, o, t, l)
         /\ job' = [job EXCEPT ![p] = [c |-> c, type |-> "claimed", by |-> o, owner |-> o,
                                       status |-> "in_progress"]]
    /\ UNCHANGED <<buf, todo, result>>

\* --status takes any word: "open" stands for the two that a healthcheck completes,
\* "blocked" for one that nothing looks for.
Update(p) ==
    /\ Start(p, "show")
    /\ \E c \in Contracts, s \in {"keep", "open", "blocked", "completed"}, o \in Owners \cup {Operator} :
         job' = [job EXCEPT ![p] = [c |-> c, type |-> "updated", by |-> Operator, owner |-> o,
                                    status |-> s]]
    /\ UNCHANGED <<leaseVars, buf, todo, result>>

\* A healthcheck has its RunResult and lists the directory.
Evaluate(p) ==
    /\ Start(p, "scan")
    /\ \E r \in [Checks -> SUBSET {"pass", "fail"}] : result' = [result EXCEPT ![p] = r]
    /\ todo' = [todo EXCEPT ![p] = {c \in Contracts : file[c] # NoFile}]
    /\ UNCHANGED <<leaseVars, job, buf>>

-----------------------------------------------------------------------------

\* `passing`: the contracts of which some check result is a pass.
Passing(r) == {k \in Checks : "pass" \in r[k]}

\* Mutant: a contract that is already completed is completed again.
EligibleAnyStatus(c, r) ==
    Readable(c) /\ CompletionChecks[c] # {} /\ CompletionChecks[c] \subseteq Passing(r)

Eligible(c, r) ==
    /\ Readable(c) /\ file[c].status \in {"open", "in_progress"}
    /\ CompletionChecks[c] # {} /\ CompletionChecks[c] \subseteq Passing(r)

\* The files are independent of each other, so their order is left open.
Scan(p) ==
    /\ pc[p] = "scan"
    /\ \/ todo[p] = {} /\ Leave(p)
       \/ \E c \in todo[p] :
          /\ todo' = [todo EXCEPT ![p] = @ \ {c}]
          /\ IF Eligible(c, result[p])
             THEN /\ job' = [job EXCEPT ![p] = [c |-> c, type |-> "auto", by |-> Operator,
                                                owner |-> Operator, status |-> "completed"]]
                  /\ Goto(p, "show")
             ELSE UNCHANGED <<pc, job>>
          /\ UNCHANGED <<buf, result>>
    /\ UNCHANGED <<leaseVars, files, count>>

\* After an update the healthcheck scans on and a command exits.
Done(p) ==
    IF job[p].type = "auto"
    THEN /\ Goto(p, "scan")
         /\ job' = [job EXCEPT ![p] = NoJob]
         /\ buf' = [buf EXCEPT ![p] = NoFile]
         /\ UNCHANGED <<todo, result>>
    ELSE Leave(p)

Changed(doc, j) ==
    LET status == IF j.status = "keep" THEN doc.status ELSE j.status IN
    [status |-> status,
     owner |-> IF j.owner = Operator THEN doc.owner ELSE j.owner,
     history |-> Append(doc.history, [type |-> j.type, by |-> j.by, status |-> status])]

\* Mutant: a file that is not JSON is updated as an empty contract.
ShowAnything(p) ==
    /\ pc[p] = "show" /\ file[job[p].c] # NoFile
    /\ buf' = [buf EXCEPT ![p] =
         Changed(IF Readable(job[p].c) THEN file[job[p].c] ELSE [Opened EXCEPT !.history = << >>],
                 job[p])]
    /\ Goto(p, "truncate")
    /\ UNCHANGED <<leaseVars, files, job, todo, result, count>>

\* The update reads the file again, whoever asked for it.
Show(p) ==
    LET c == job[p].c IN
    /\ pc[p] = "show"
    /\ \/ /\ Readable(c)
          /\ buf' = [buf EXCEPT ![p] = Changed(file[c], job[p])]
          /\ Goto(p, "truncate")
          /\ UNCHANGED <<job, todo, result>>
       \/ ~Readable(c) /\ Done(p)
    /\ UNCHANGED <<leaseVars, files, count>>

Truncate(p) ==
    /\ pc[p] = "truncate"
    /\ file' = [file EXCEPT ![job[p].c] = EmptyFile]
    /\ Goto(p, "write")
    /\ UNCHANGED <<leaseVars, reported, job, buf, todo, result, count>>

\* Mutant: the document that was read is written back.
WriteStale(p) ==
    LET c == job[p].c
        stale == [buf[p] EXCEPT !.history = IF Len(@) > 1 THEN SubSeq(@, 1, Len(@) - 1) ELSE @] IN
    /\ pc[p] = "write"
    /\ file' = [file EXCEPT ![c] = stale]
    /\ reported' = [reported EXCEPT ![c] = IF job[p].type = "opened" THEN 1 ELSE @ + 1]
    /\ Done(p)
    /\ UNCHANGED <<leaseVars, count>>

\* Both writers write from the start of the file: over a longer document that
\* was written since the truncation, the tail of that document remains.
Write(p) ==
    LET c == job[p].c IN
    /\ pc[p] = "write"
    /\ \/ file' = [file EXCEPT ![c] = buf[p]]
       \/ file[c] # EmptyFile /\ file' = [file EXCEPT ![c] = CorruptFile]
    /\ reported' = [reported EXCEPT ![c] = IF job[p].type = "opened" THEN 1 ELSE @ + 1]
    /\ Done(p)
    /\ UNCHANGED <<leaseVars, count>>

Kill(p) ==
    /\ pc[p] # "idle" /\ kills < MaxKills
    /\ kills' = kills + 1
    /\ Leave(p)
    /\ UNCHANGED <<leaseVars, files, jobs, alone>>

Init ==
    /\ LeaseInit
    /\ file = [c \in Contracts |-> NoFile]
    /\ pc = [p \in Procs |-> "idle"]
    /\ job = [p \in Procs |-> NoJob]
    /\ buf = [p \in Procs |-> NoFile]
    /\ todo = [p \in Procs |-> {}]
    /\ result = [p \in Procs |-> [k \in Checks |-> {}]]
    /\ jobs = 0 /\ kills = 0 /\ alone = TRUE
    /\ reported = [c \in Contracts |-> 0]

Next ==
    \/ \E p \in Procs :
         \/ Open(p) \/ Claim(p) \/ Update(p) \/ Evaluate(p)
         \/ Scan(p) \/ Show(p) \/ Truncate(p) \/ Write(p) \/ Kill(p)
    \/ Tick /\ UNCHANGED <<files, local, count>>

Spec == Init /\ [][Next]_vars

-----------------------------------------------------------------------------

TypeOK ==
    /\ LeaseTypeOK
    /\ file \in [Contracts -> Docs \cup Unreadable]
    /\ pc \in [Procs -> {"idle", "scan", "show", "truncate", "write"}]
    /\ job \in [Procs -> Jobs \cup {NoJob}]
    /\ buf \in [Procs -> Docs \cup {NoFile}]
    /\ \A p \in Procs :
         /\ pc[p] \in {"show", "truncate", "write"} => job[p] \in Jobs
         /\ pc[p] \in {"truncate", "write"} => buf[p] \in Docs
    /\ todo \in [Procs -> SUBSET Contracts]
    /\ result \in [Procs -> [Checks -> SUBSET {"pass", "fail"}]]
    /\ jobs \in Nat /\ kills \in Nat /\ alone \in BOOLEAN
    /\ reported \in [Contracts -> Nat]

Indices(c) == 1..Len(file[c].history)

\* However updates interleave and whatever they leave in the file, a contract
\* that can be read was opened, once, and then changed: what another process
\* truncated or garbled is never taken for a contract.
HistoryStartsWithOpening ==
    \A c \in Contracts : Readable(c) =>
       \A i \in Indices(c) : file[c].history[i].type = "opened" <=> i = 1

\* A contract never says of an owner that it claimed it unless the registry
\* granted the owner a lease on it.
ClaimsAreGranted ==
    \A c \in Contracts : Readable(c) =>
       \A i \in Indices(c) :
          file[c].history[i].type = "claimed" => granted[c][file[c].history[i].by] > 0

\* The healthcheck completes tasks that are open or in progress, and no others,
\* as long as no two commands overlap: it checks the status on one read and
\* overwrites it after another.
CompletesOnlyLiveTasks ==
    alone => \A c \in Contracts : Readable(c) =>
       \A i \in Indices(c) :
          file[c].history[i].type = "auto" =>
             file[c].history[i - 1].status \in {"open", "in_progress"}

\* A change that was reported to its caller is in the history until the contract
\* is opened anew, as long as no two commands overlap.
ReportedChangesStay ==
    alone => \A c \in Contracts : Readable(c) => Len(file[c].history) >= reported[c]
=============================================================================
