------------------------- MODULE TaskContractsProofs ------------------------
(***************************************************************************)
(* Proofs about TaskContracts and the table of leases it uses, for any     *)
(* contracts, owners, checks, leases and processes.                        *)
(***************************************************************************)
EXTENDS TaskContracts, TLAPS

-----------------------------------------------------------------------------
(* Types.                                                                   *)

\* What a process leaves behind has its types.
LEMMA LeaveType ==
    ASSUME TypeOK, NEW p \in Procs, Leave(p)
    PROVE  /\ pc' \in [Procs -> {"idle", "scan", "show", "truncate", "write"}]
           /\ job' \in [Procs -> Jobs \cup {NoJob}]
           /\ buf' \in [Procs -> Docs \cup {NoFile}]
           /\ todo' \in [Procs -> SUBSET Contracts]
           /\ result' \in [Procs -> [Checks -> SUBSET {"pass", "fail"}]]
           /\ \A q \in Procs : q # p => /\ pc'[q] = pc[q] /\ job'[q] = job[q] /\ buf'[q] = buf[q]
           /\ pc'[p] = "idle"
  BY DEF TypeOK, Leave, Goto

\* So has what an update leaves behind: the process scans on or exits.
LEMMA DoneType ==
    ASSUME TypeOK, NEW p \in Procs, Done(p)
    PROVE  /\ pc' \in [Procs -> {"idle", "scan", "show", "truncate", "write"}]
           /\ job' \in [Procs -> Jobs \cup {NoJob}]
           /\ buf' \in [Procs -> Docs \cup {NoFile}]
           /\ todo' \in [Procs -> SUBSET Contracts]
           /\ result' \in [Procs -> [Checks -> SUBSET {"pass", "fail"}]]
           /\ \A q \in Procs : q # p => /\ pc'[q] = pc[q] /\ job'[q] = job[q] /\ buf'[q] = buf[q]
           /\ pc'[p] \in {"idle", "scan"}
<1>1. CASE job[p].type = "auto"
  BY <1>1 DEF TypeOK, Done, Goto
<1>2. CASE job[p].type # "auto"
  BY <1>2, LeaveType DEF Done
<1> QED
  BY <1>1, <1>2

\* A change of a document keeps what was there and adds one event.
LEMMA ChangedDoc ==
    ASSUME NEW d \in Docs, NEW j \in Jobs
    PROVE  /\ Changed(d, j) \in Docs
           /\ Len(Changed(d, j).history) = Len(d.history) + 1
           /\ \A i \in 1..Len(d.history) : Changed(d, j).history[i] = d.history[i]
           /\ Changed(d, j).history[Len(d.history) + 1] =
                [type |-> j.type, by |-> j.by, status |-> Changed(d, j).status]
<1> DEFINE status == IF j.status = "keep" THEN d.status ELSE j.status
           event == [type |-> j.type, by |-> j.by, status |-> status]
<1>1. d.history \in Seq(Events) /\ d.status \in Statuses /\ d.owner \in Owners \cup {Operator}
  BY DEF Docs
<1>2. event \in Events
  BY <1>1 DEF Jobs, Events
<1>3. /\ Changed(d, j).history = Append(d.history, event)
      /\ Changed(d, j).status = status
  BY DEF Changed
<1>4. Append(d.history, event) \in Seq(Events)
  BY <1>1, <1>2
<1>5. Changed(d, j) \in Docs
  BY <1>1, <1>4 DEF Changed, Docs, Jobs
<1>6. /\ Len(Append(d.history, event)) = Len(d.history) + 1
      /\ \A i \in 1..Len(d.history) : Append(d.history, event)[i] = d.history[i]
      /\ Append(d.history, event)[Len(d.history) + 1] = event
  BY <1>1, <1>2
<1> QED
  BY <1>3, <1>5, <1>6

LEMMA OpenedDoc ==
    /\ Opened \in Docs /\ Len(Opened.history) = 1
    /\ Opened.history[1] = [type |-> "opened", by |-> Operator, status |-> "open"]
    /\ Opened.status = "open"
<1> DEFINE event == [type |-> "opened", by |-> Operator, status |-> "open"]
<1>1. event \in Events
  BY DEF Events, Statuses
<1>2. << event >> \in Seq(Events) /\ Len(<< event >>) = 1 /\ << event >>[1] = event
  BY <1>1
<1> QED
  BY <1>2 DEF Opened, Docs, Statuses

\* A contract that can be read is a document.
LEMMA ReadableDoc ==
    ASSUME TypeOK, NEW c \in Contracts
    PROVE  Readable(c) <=> file[c] \in Docs
  BY ContractAssumption DEF TypeOK, Readable, Unreadable

-----------------------------------------------------------------------------
(* The table of leases.                                                     *)

\* Grants and ticks keep the table's types.
LEMMA LeaseStepTyped ==
    ASSUME LeaseTypeOK, [LeaseNext]_leaseVars
    PROVE  LeaseTypeOK'
<1> USE LeaseAssumption DEF Claims, LeaseTypeOK
<1>1. CASE \E c \in Contracts, o \in Owners, l \in Leases : \E t \in 0..clock : Grant(c, o, t, l)
  <2>1. PICK c \in Contracts, o \in Owners, l \in Leases, t \in 0..clock : Grant(c, o, t, l)
    BY <1>1
  <2>2. t + l \in Nat
    OBVIOUS
  <2>3. [owner |-> o, until |-> t + l] \in Claims
    BY <2>2
  <2> QED
    BY <2>1, <2>2, <2>3 DEF Grant
<1>2. CASE Tick
  BY <1>2 DEF Tick
<1>3. CASE UNCHANGED leaseVars
  BY <1>3 DEF leaseVars
<1> QED
  BY <1>1, <1>2, <1>3 DEF LeaseNext

\* The table's types: every state of the specification has them.
THEOREM LeaseTyped == LeaseSpec => []LeaseTypeOK
<1>1. LeaseInit => LeaseTypeOK
  BY LeaseAssumption DEF LeaseInit, LeaseTypeOK, Claims
<1> QED
  BY <1>1, LeaseStepTyped, PTL DEF LeaseSpec

-----------------------------------------------------------------------------

\* Only the registry's present owner of a contract can have a running lease, and
\* the registry says when it ends.
RunningIsHeld ==
    \A c \in Contracts, o \in Owners :
       granted[c][o] > clock =>
          holder[c] # NoClaim /\ holder[c].owner = o /\ holder[c].until = granted[c][o]

\* A grant, which may be dated back, keeps the running leases in the registry:
\* an entry that it replaces has run out or is the claimant's own.
LEMMA GrantKeepsHeld ==
    ASSUME LeaseTypeOK, RunningIsHeld,
           NEW c \in Contracts, NEW o \in Owners, NEW l \in Leases, NEW t \in 0..clock,
           Grant(c, o, t, l)
    PROVE  RunningIsHeld'
<1> USE LeaseAssumption DEF LeaseTypeOK, Claims
<1> SUFFICES ASSUME NEW d \in Contracts, NEW p \in Owners, (granted[d][p] > clock)'
             PROVE  (holder[d] # NoClaim /\ holder[d].owner = p /\ holder[d].until = granted[d][p])'
  BY DEF RunningIsHeld
<1>1. clock' = clock /\ t + l \in Nat
  BY DEF Grant
<1>2. CASE d # c
  <2>1. holder'[d] = holder[d] /\ granted'[d] = granted[d]
    BY <1>2 DEF Grant
  <2> QED
    BY <1>1, <2>1 DEF RunningIsHeld
<1>3. CASE d = c /\ p = o
  <2>1. holder'[c] = [owner |-> o, until |-> t + l] /\ granted'[c][o] = t + l
    BY DEF Grant
  <2>2. holder'[c] # NoClaim
    BY <1>1, <2>1
  <2> QED
    BY <1>3, <2>1, <2>2
<1>4. CASE d = c /\ p # o
  <2>1. granted[c][p] > clock
    BY <1>1, <1>4 DEF Grant
  <2>2. holder[c] # NoClaim /\ holder[c].owner = p /\ holder[c].until > clock
    BY <2>1 DEF RunningIsHeld
  <2>3. holder[c].until > t
    BY <2>2
  <2> QED
    BY <1>4, <2>2, <2>3 DEF Grant, HeldByOther
<1> QED
  BY <1>2, <1>3, <1>4

\* The clock only ends leases.
LEMMA TickKeepsHeld == LeaseTypeOK /\ RunningIsHeld /\ Tick => RunningIsHeld'
<1> SUFFICES ASSUME LeaseTypeOK, RunningIsHeld, Tick,
                    NEW c \in Contracts, NEW o \in Owners, (granted[c][o] > clock)'
             PROVE  (holder[c] # NoClaim /\ holder[c].owner = o /\ holder[c].until = granted[c][o])'
  BY DEF RunningIsHeld
<1>1. granted[c][o] \in Nat /\ granted[c][o] > clock + 1 /\ holder' = holder /\ granted' = granted
  BY DEF LeaseTypeOK, Tick
<1>2. granted[c][o] > clock
  BY <1>1 DEF LeaseTypeOK
<1> QED
  BY <1>1, <1>2 DEF RunningIsHeld

\* The registry holds every running lease, in every state of the specification.
LEMMA RunningHeld == LeaseSpec => []RunningIsHeld
<1>1. LeaseInit => RunningIsHeld
  BY DEF LeaseInit, RunningIsHeld
<1>2. LeaseTypeOK /\ RunningIsHeld /\ [LeaseNext]_leaseVars => RunningIsHeld'
  <2> SUFFICES ASSUME LeaseTypeOK, RunningIsHeld, [LeaseNext]_leaseVars
               PROVE  RunningIsHeld'
    OBVIOUS
  <2>1. CASE \E c \in Contracts, o \in Owners, l \in Leases : \E t \in 0..clock : Grant(c, o, t, l)
    BY <2>1, GrantKeepsHeld
  <2>2. CASE Tick
    BY <2>2, TickKeepsHeld
  <2>3. CASE UNCHANGED leaseVars
    BY <2>3 DEF leaseVars, RunningIsHeld
  <2> QED
    BY <2>1, <2>2, <2>3 DEF LeaseNext
<1> QED
  BY <1>1, <1>2, LeaseTyped, PTL DEF LeaseSpec

\* No contract ever has two owners whose latest leases both run, although claims
\* are granted as of a time that has passed.
THEOREM LeasesExclude == LeaseSpec => []Exclusive
<1>1. RunningIsHeld => Exclusive
  BY DEF RunningIsHeld, Exclusive
<1> QED
  BY <1>1, RunningHeld, PTL

-----------------------------------------------------------------------------

\* A contract changes hands only when the lease on it has run out.
THEOREM TakeoverAfterExpiry == LeaseSpec => TakeoverOnlyAfterExpiry
<1> DEFINE Stays(c) == holder[c] # NoClaim /\ holder[c].until > clock
                         => holder'[c] # NoClaim /\ holder'[c].owner = holder[c].owner
<1>1. LeaseTypeOK /\ [LeaseNext]_leaseVars => [\A c \in Contracts : Stays(c)]_leaseVars
  <2> SUFFICES ASSUME LeaseTypeOK, LeaseNext, NEW c \in Contracts,
                      holder[c] # NoClaim, holder[c].until > clock
               PROVE  holder'[c] # NoClaim /\ holder'[c].owner = holder[c].owner
    OBVIOUS
  <2> USE LeaseAssumption DEF LeaseTypeOK, Claims
  <2>1. ASSUME NEW d \in Contracts, NEW o \in Owners, NEW l \in Leases, NEW t \in 0..clock,
               Grant(d, o, t, l)
        PROVE  holder'[c] # NoClaim /\ holder'[c].owner = holder[c].owner
    <3>1. CASE d # c
      BY <2>1, <3>1 DEF Grant
    <3>2. CASE d = c
      <4>1. holder[c].until > t /\ t + l \in Nat
        OBVIOUS
      <4>2. holder[c].owner = o
        BY <2>1, <3>2, <4>1 DEF Grant, HeldByOther
      <4>3. holder'[c] = [owner |-> o, until |-> t + l]
        BY <2>1, <3>2 DEF Grant
      <4> QED
        BY <4>1, <4>2, <4>3
    <3> QED
      BY <3>1, <3>2
  <2>2. CASE Tick
    BY <2>2 DEF Tick
  <2> QED
    BY <2>1, <2>2 DEF LeaseNext
<1> QED
  BY <1>1, LeaseTyped, PTL DEF LeaseSpec, TakeoverOnlyAfterExpiry

-----------------------------------------------------------------------------
(* Task contracts use the table: only a claim changes it.                   *)

LEMMA StepUsesLeases ==
    ASSUME [Next]_vars
    PROVE  [LeaseNext]_leaseVars
<1>1. CASE UNCHANGED vars
  BY <1>1 DEF vars
<1>2. CASE Tick
  BY <1>2 DEF LeaseNext
<1>3. ASSUME NEW p \in Procs, Claim(p)
      PROVE  LeaseNext
  BY <1>3 DEF Claim, LeaseNext
<1>4. ASSUME NEW p \in Procs,
             Open(p) \/ Update(p) \/ Evaluate(p) \/ Scan(p) \/ Show(p) \/ Truncate(p)
               \/ Write(p) \/ Kill(p)
      PROVE  UNCHANGED leaseVars
  BY <1>4 DEF Open, Update, Evaluate, Scan, Show, Truncate, Write, Kill
<1> QED
  BY <1>1, <1>2, <1>3, <1>4 DEF Next

\* Seen from the leases, commands and healthchecks do what the table allows.
THEOREM ContractsUseLeases == Spec => LeaseSpec
<1>1. Init => LeaseInit
  BY DEF Init
<1>2. [Next]_vars => [LeaseNext]_leaseVars
  BY StepUsesLeases
<1> QED
  BY <1>1, <1>2, PTL DEF Spec, LeaseSpec

\* Among all commands, no contract ever has two owners whose latest leases both run.
THEOREM ContractsExclude == Spec => []Exclusive
  BY ContractsUseLeases, LeasesExclude, PTL

-----------------------------------------------------------------------------
(* The types of the contracts.                                              *)

LEMMA TypeInit == Init => TypeOK
<1> SUFFICES ASSUME Init
             PROVE  TypeOK
  OBVIOUS
<1>1. LeaseTypeOK
  BY LeaseAssumption DEF Init, LeaseInit, LeaseTypeOK, Claims
<1> QED
  BY <1>1 DEF Init, TypeOK, Unreadable

LEMMA TypeStep ==
    ASSUME TypeOK, [Next]_vars
    PROVE  TypeOK'
<1>0. LeaseTypeOK'
  BY StepUsesLeases, LeaseStepTyped DEF TypeOK
<1> USE ContractAssumption
<1>1. ASSUME NEW p \in Procs, Open(p)
      PROVE  TypeOK'
  <2>1. PICK c \in Contracts : job' = [job EXCEPT ![p] = [NoJob EXCEPT !.c = c]]
    BY <1>1 DEF Open
  <2>2. [NoJob EXCEPT !.c = c] \in Jobs
    BY DEF NoJob, Jobs
  <2>3. job' \in [Procs -> Jobs \cup {NoJob}] /\ job'[p] \in Jobs
    BY <2>1, <2>2 DEF TypeOK
  <2>4. \A q \in Procs : q # p => job'[q] = job[q]
    BY <2>1 DEF TypeOK
  <2>5. buf' \in [Procs -> Docs \cup {NoFile}]
    BY <1>1, OpenedDoc DEF TypeOK, Open
  <2>6. \A q \in Procs : q # p => buf'[q] = buf[q]
    BY <1>1 DEF TypeOK, Open
  <2>7. buf'[p] \in Docs
    BY <1>1, OpenedDoc DEF TypeOK, Open
  <2>8. \A q \in Procs :
          /\ pc'[q] \in {"show", "truncate", "write"} => job'[q] \in Jobs
          /\ pc'[q] \in {"truncate", "write"} => buf'[q] \in Docs
    BY <1>1, <2>3, <2>4, <2>6, <2>7 DEF TypeOK, Open, Start, Goto
  <2>9. /\ file' \in [Contracts -> Docs \cup Unreadable] /\ reported' \in [Contracts -> Nat]
        /\ pc' \in [Procs -> {"idle", "scan", "show", "truncate", "write"}]
        /\ jobs' \in Nat /\ kills' \in Nat /\ alone' \in BOOLEAN
        /\ UNCHANGED <<todo, result>>
    BY <1>1 DEF TypeOK, Open, Start, Goto, files
  <2> QED
    BY <1>0, <2>3, <2>5, <2>8, <2>9 DEF TypeOK
<1>2. ASSUME NEW p \in Procs, Claim(p)
      PROVE  TypeOK'
  <2>1. PICK c \in Contracts, o \in Owners :
          job' = [job EXCEPT ![p] = [c |-> c, type |-> "claimed", by |-> o, owner |-> o,
                                     status |-> "in_progress"]]
    BY <1>2 DEF Claim
  <2>2. [c |-> c, type |-> "claimed", by |-> o, owner |-> o, status |-> "in_progress"] \in Jobs
    BY DEF Jobs, Statuses
  <2> QED
    BY <1>0, <1>2, <2>1, <2>2 DEF TypeOK, Claim, Start, Goto, files
<1>3. ASSUME NEW p \in Procs, Update(p)
      PROVE  TypeOK'
  <2>1. PICK c \in Contracts, s \in {"keep", "open", "blocked", "completed"}, o \in Owners \cup {Operator} :
          job' = [job EXCEPT ![p] = [c |-> c, type |-> "updated", by |-> Operator, owner |-> o,
                                     status |-> s]]
    BY <1>3 DEF Update
  <2>2. [c |-> c, type |-> "updated", by |-> Operator, owner |-> o, status |-> s] \in Jobs
    BY DEF Jobs, Statuses
  <2> QED
    BY <1>0, <1>3, <2>1, <2>2 DEF TypeOK, Update, Start, Goto, files
<1>4. ASSUME NEW p \in Procs, Evaluate(p)
      PROVE  TypeOK'
  BY <1>0, <1>4 DEF TypeOK, Evaluate, Start, Goto, files
<1>5. ASSUME NEW p \in Procs, Scan(p)
      PROVE  TypeOK'
  <2>1. CASE Leave(p)
    BY <1>0, <1>5, <2>1, LeaveType DEF TypeOK, Scan, files, count
  <2>2. ASSUME NEW c \in todo[p], pc[p] = "scan", UNCHANGED <<leaseVars, files, count>>,
               todo' = [todo EXCEPT ![p] = @ \ {c}],
               \/ /\ job' = [job EXCEPT ![p] = [c |-> c, type |-> "auto", by |-> Operator,
                                                owner |-> Operator, status |-> "completed"]]
                  /\ Goto(p, "show")
               \/ UNCHANGED <<pc, job>>,
               UNCHANGED <<buf, result>>
        PROVE  TypeOK'
    <3>1. c \in Contracts
      BY DEF TypeOK
    <3>2. [c |-> c, type |-> "auto", by |-> Operator, owner |-> Operator,
           status |-> "completed"] \in Jobs
      BY <3>1 DEF Jobs, Statuses
    <3>3. todo' \in [Procs -> SUBSET Contracts]
      BY <2>2 DEF TypeOK
    <3>4. CASE UNCHANGED <<pc, job>>
      BY <1>0, <2>2, <3>3, <3>4 DEF TypeOK, files, count
    <3>5. CASE /\ job' = [job EXCEPT ![p] = [c |-> c, type |-> "auto", by |-> Operator,
                                              owner |-> Operator, status |-> "completed"]]
               /\ Goto(p, "show")
      <4>1. /\ job' \in [Procs -> Jobs \cup {NoJob}] /\ job'[p] \in Jobs
            /\ pc' \in [Procs -> {"idle", "scan", "show", "truncate", "write"}]
            /\ pc'[p] = "show"
            /\ \A q \in Procs : q # p => job'[q] = job[q] /\ pc'[q] = pc[q]
        BY <3>2, <3>5 DEF TypeOK, Goto
      <4>2. \A q \in Procs :
              /\ pc'[q] \in {"show", "truncate", "write"} => job'[q] \in Jobs
              /\ pc'[q] \in {"truncate", "write"} => buf'[q] \in Docs
        BY <2>2, <4>1 DEF TypeOK
      <4>3. UNCHANGED <<file, reported, jobs, kills, alone, buf, result>>
        BY <2>2 DEF files, count
      <4> QED
        BY <1>0, <3>3, <4>1, <4>2, <4>3 DEF TypeOK
    <3> QED
      BY <2>2, <3>4, <3>5
  <2> QED
    BY <1>5, <2>1, <2>2 DEF Scan
<1>6. ASSUME NEW p \in Procs, Show(p)
      PROVE  TypeOK'
  <2>1. CASE Done(p)
    BY <1>0, <1>6, <2>1, DoneType DEF TypeOK, Show, files, count
  <2>2. CASE ~Done(p)
    <3>1. /\ Readable(job[p].c) /\ pc[p] = "show"
          /\ buf' = [buf EXCEPT ![p] = Changed(file[job[p].c], job[p])]
          /\ Goto(p, "truncate") /\ UNCHANGED <<job, todo, result>>
      BY <1>6, <2>2 DEF Show
    <3>2. job[p] \in Jobs /\ job[p].c \in Contracts
      BY <3>1 DEF TypeOK, Jobs
    <3>3. Changed(file[job[p].c], job[p]) \in Docs
      BY <3>1, <3>2, ReadableDoc, ChangedDoc
    <3> QED
      BY <1>0, <1>6, <3>1, <3>2, <3>3 DEF TypeOK, Show, Goto, files, count
  <2> QED
    BY <2>1, <2>2
<1>7. ASSUME NEW p \in Procs, Truncate(p)
      PROVE  TypeOK'
  BY <1>0, <1>7 DEF TypeOK, Truncate, Goto, Unreadable, count
<1>8. ASSUME NEW p \in Procs, Write(p)
      PROVE  TypeOK'
  <2>1. buf[p] \in Docs /\ Done(p) /\ job[p].c \in Contracts
    BY <1>8 DEF TypeOK, Write, Jobs
  <2>2. /\ file' \in [Contracts -> Docs \cup Unreadable]
        /\ reported' \in [Contracts -> Nat]
    BY <1>8, <2>1 DEF TypeOK, Write, Unreadable
  <2> QED
    BY <1>0, <1>8, <2>1, <2>2, DoneType DEF TypeOK, Write, count
<1>9. ASSUME NEW p \in Procs, Kill(p)
      PROVE  TypeOK'
  BY <1>0, <1>9, LeaveType DEF TypeOK, Kill, files
<1>10. CASE Tick /\ UNCHANGED <<files, local, count>>
  BY <1>0, <1>10 DEF TypeOK, files, local, count
<1>11. CASE UNCHANGED vars
  BY <1>0, <1>11 DEF TypeOK, vars, files, local, count
<1> QED
  BY <1>1, <1>2, <1>3, <1>4, <1>5, <1>6, <1>7, <1>8, <1>9, <1>10, <1>11 DEF Next

\* The types of the contracts' files, the processes and their documents.
THEOREM ContractsTyped == Spec => []TypeOK
  BY TypeInit, TypeStep, PTL DEF Spec

-----------------------------------------------------------------------------
(* What a step does to contracts and documents.                             *)

Others(p) == \A q \in Procs \ {p} : pc'[q] = pc[q] /\ job'[q] = job[q] /\ buf'[q] = buf[q]

\* A process that starts beside another one ends the time without overlaps.
Overlaps(p) == alone' => alone /\ (pc[p] = "idle" => \A q \in Procs : pc[q] = "idle")

\* The process has nothing to write.
Rests(p) == pc'[p] \in {"idle", "scan"} /\ UNCHANGED files

Opens(p) == /\ pc'[p] = "truncate" /\ job'[p].type = "opened" /\ buf'[p] = Opened
            /\ UNCHANGED files

\* A claim asks for a change once it was granted, a healthcheck for one of a task
\* that it has just seen open or in progress.
Asks(p) ==
    /\ pc'[p] = "show" /\ job'[p] \in Jobs /\ job'[p].type # "opened"
    /\ job'[p].type = "claimed" =>
         job'[p].by \in Owners /\ granted'[job'[p].c][job'[p].by] > 0
    /\ job'[p].type = "auto" =>
         Readable(job'[p].c) /\ file[job'[p].c].status \in {"open", "in_progress"}
    /\ UNCHANGED files

Shows(p) ==
    /\ pc[p] = "show" /\ pc'[p] = "truncate" /\ job'[p] = job[p]
    /\ Readable(job[p].c) /\ buf'[p] = Changed(file[job[p].c], job[p])
    /\ UNCHANGED files

Truncates(p) ==
    /\ pc[p] = "truncate" /\ pc'[p] = "write" /\ job'[p] = job[p] /\ buf'[p] = buf[p]
    /\ file' = [file EXCEPT ![job[p].c] = EmptyFile] /\ UNCHANGED reported

Writes(p) ==
    /\ pc[p] = "write" /\ pc'[p] \in {"idle", "scan"}
    /\ \E f \in {buf[p], CorruptFile} : file' = [file EXCEPT ![job[p].c] = f]
    /\ reported' = [reported EXCEPT ![job[p].c] =
                      IF job[p].type = "opened" THEN 1 ELSE @ + 1]

\* A lease once granted is one forever, also after it has run out.
LEMMA GrantsLast ==
    ASSUME TypeOK, [Next]_vars,
           NEW c \in Contracts, NEW o \in Owners, granted[c][o] > 0
    PROVE  granted'[c][o] > 0
<1>1. [LeaseNext]_leaseVars /\ LeaseTypeOK
  BY StepUsesLeases DEF TypeOK
<1>2. ASSUME NEW d \in Contracts, NEW p \in Owners, NEW l \in Leases, NEW t \in 0..clock,
             Grant(d, p, t, l)
      PROVE  granted'[c][o] > 0
  <2>1. l \in Nat /\ l > 0 /\ t + l > 0
    BY LeaseAssumption, <1>1 DEF LeaseTypeOK
  <2> QED
    BY <1>1, <1>2, <2>1 DEF Grant, LeaseTypeOK
<1> QED
  BY <1>1, <1>2 DEF LeaseNext, Tick, leaseVars

LEMMA Steps ==
    ASSUME TypeOK, [Next]_vars
    PROVE  \/ UNCHANGED <<files, pc, job, buf, alone>>
           \/ \E p \in Procs :
                /\ Others(p) /\ Overlaps(p)
                /\ \/ Rests(p) \/ Opens(p) \/ Asks(p) \/ Shows(p) \/ Truncates(p) \/ Writes(p)
<1>1. ASSUME NEW p \in Procs, Open(p)
      PROVE  Others(p) /\ Overlaps(p) /\ Opens(p)
  <2>1. PICK c \in Contracts : job' = [job EXCEPT ![p] = [NoJob EXCEPT !.c = c]]
    BY <1>1 DEF Open
  <2>2. job'[p] = [NoJob EXCEPT !.c = c] /\ job'[p].type = "opened"
    BY <2>1 DEF TypeOK, NoJob
  <2>3. \A q \in Procs \ {p} : job'[q] = job[q]
    BY <2>1 DEF TypeOK
  <2>4. /\ pc'[p] = "truncate" /\ buf'[p] = Opened
        /\ \A q \in Procs \ {p} : pc'[q] = pc[q] /\ buf'[q] = buf[q]
    BY <1>1 DEF TypeOK, Open, Start, Goto
  <2> QED
    BY <1>1, <2>2, <2>3, <2>4 DEF Open, Start, Others, Overlaps, Opens
<1>2. ASSUME NEW p \in Procs, Claim(p)
      PROVE  Others(p) /\ Overlaps(p) /\ Asks(p)
  <2>1. PICK c \in Contracts, o \in Owners, l \in Leases, t \in 0..clock :
          /\ Grant(c, o, t, l)
          /\ job' = [job EXCEPT ![p] = [c |-> c, type |-> "claimed", by |-> o, owner |-> o,
                                        status |-> "in_progress"]]
    BY <1>2 DEF Claim
  <2>2. l \in Nat /\ l > 0 /\ t \in Nat /\ t + l > 0
    BY LeaseAssumption DEF TypeOK, LeaseTypeOK
  <2>3. granted'[c][o] > 0
    BY <2>1, <2>2 DEF Grant, TypeOK, LeaseTypeOK
  <2>4. job'[p] = [c |-> c, type |-> "claimed", by |-> o, owner |-> o, status |-> "in_progress"]
    BY <2>1 DEF TypeOK
  <2>5. job'[p] \in Jobs
    BY <2>4 DEF Jobs, Statuses
  <2>6. /\ pc'[p] = "show" /\ \A q \in Procs \ {p} : pc'[q] = pc[q] /\ job'[q] = job[q]
        /\ UNCHANGED buf
    BY <1>2, <2>1 DEF TypeOK, Claim, Start, Goto
  <2>7. UNCHANGED files /\ Overlaps(p)
    BY <1>2 DEF Claim, Start, Overlaps
  <2> QED
    BY <2>3, <2>4, <2>5, <2>6, <2>7 DEF Others, Asks
<1>3. ASSUME NEW p \in Procs, Update(p)
      PROVE  Others(p) /\ Overlaps(p) /\ Asks(p)
  <2>1. PICK c \in Contracts, s \in {"keep", "open", "blocked", "completed"}, o \in Owners \cup {Operator} :
          job' = [job EXCEPT ![p] = [c |-> c, type |-> "updated", by |-> Operator, owner |-> o,
                                     status |-> s]]
    BY <1>3 DEF Update
  <2>2. job'[p] = [c |-> c, type |-> "updated", by |-> Operator, owner |-> o, status |-> s]
    BY <2>1 DEF TypeOK
  <2>3. job'[p] \in Jobs
    BY <2>2 DEF Jobs, Statuses
  <2>4. /\ pc'[p] = "show" /\ \A q \in Procs \ {p} : pc'[q] = pc[q] /\ job'[q] = job[q]
        /\ UNCHANGED buf
    BY <1>3, <2>1 DEF TypeOK, Update, Start, Goto
  <2>5. UNCHANGED files /\ Overlaps(p)
    BY <1>3 DEF Update, Start, Overlaps
  <2> QED
    BY <2>2, <2>3, <2>4, <2>5 DEF Others, Asks
<1>4. ASSUME NEW p \in Procs, Evaluate(p)
      PROVE  Others(p) /\ Overlaps(p) /\ Rests(p)
  BY <1>4 DEF TypeOK, Evaluate, Start, Goto, Others, Overlaps, Rests
<1>5. ASSUME NEW p \in Procs, Scan(p)
      PROVE  Others(p) /\ Overlaps(p) /\ (Rests(p) \/ Asks(p))
  <2>1. Overlaps(p)
    BY <1>5 DEF Scan, count, Overlaps
  <2>2. CASE Leave(p)
    BY <1>5, <2>1, <2>2, LeaveType DEF Scan, Others, Rests
  <2>3. CASE ~Leave(p)
    <3>1. PICK c \in todo[p] :
            /\ IF Eligible(c, result[p])
               THEN /\ job' = [job EXCEPT ![p] = [c |-> c, type |-> "auto", by |-> Operator,
                                                  owner |-> Operator, status |-> "completed"]]
                    /\ Goto(p, "show")
               ELSE UNCHANGED <<pc, job>>
            /\ UNCHANGED <<buf, result>>
      BY <1>5, <2>3 DEF Scan
    <3>2. CASE Eligible(c, result[p])
      <4>1. c \in Contracts
        BY DEF TypeOK
      <4>2. job'[p] = [c |-> c, type |-> "auto", by |-> Operator, owner |-> Operator,
                       status |-> "completed"]
        BY <3>1, <3>2 DEF TypeOK
      <4>3. job'[p] \in Jobs
        BY <4>1, <4>2 DEF Jobs, Statuses
      <4>4. /\ pc'[p] = "show" /\ \A q \in Procs \ {p} : pc'[q] = pc[q] /\ job'[q] = job[q]
            /\ UNCHANGED buf
        BY <3>1, <3>2 DEF TypeOK, Goto
      <4> QED
        BY <1>5, <2>1, <3>2, <4>2, <4>3, <4>4 DEF Scan, Eligible, Others, Asks
    <3>3. CASE ~Eligible(c, result[p])
      BY <1>5, <2>1, <3>1, <3>3 DEF Scan, Others, Rests
    <3> QED
      BY <3>2, <3>3
  <2> QED
    BY <2>2, <2>3
<1>6. ASSUME NEW p \in Procs, Show(p)
      PROVE  Others(p) /\ Overlaps(p) /\ (Rests(p) \/ Shows(p))
  <2>1. Overlaps(p)
    BY <1>6 DEF Show, count, Overlaps
  <2>2. CASE Done(p)
    BY <1>6, <2>1, <2>2, DoneType DEF Show, Others, Rests
  <2>3. CASE ~Done(p)
    BY <1>6, <2>1, <2>3 DEF TypeOK, Show, Goto, Others, Shows
  <2> QED
    BY <2>2, <2>3
<1>7. ASSUME NEW p \in Procs, Truncate(p)
      PROVE  Others(p) /\ Overlaps(p) /\ Truncates(p)
  BY <1>7 DEF TypeOK, Truncate, Goto, count, Others, Overlaps, Truncates
<1>8. ASSUME NEW p \in Procs, Write(p)
      PROVE  Others(p) /\ Overlaps(p) /\ Writes(p)
  <2>1. Done(p) /\ pc[p] = "write" /\ alone' = alone
    BY <1>8 DEF Write, count
  <2> QED
    BY <1>8, <2>1, DoneType DEF Write, Others, Overlaps, Writes
<1>9. ASSUME NEW p \in Procs, Kill(p)
      PROVE  Others(p) /\ Overlaps(p) /\ Rests(p)
  <2>1. Leave(p) /\ pc[p] # "idle" /\ UNCHANGED <<files, alone>>
    BY <1>9 DEF Kill
  <2> QED
    BY <2>1, LeaveType DEF Others, Overlaps, Rests
<1>10. CASE Tick /\ UNCHANGED <<files, local, count>>
  BY <1>10 DEF local, count
<1>11. CASE UNCHANGED vars
  BY <1>11 DEF vars, local, count
<1>12. CASE \E p \in Procs :
             \/ Open(p) \/ Claim(p) \/ Update(p) \/ Evaluate(p)
             \/ Scan(p) \/ Show(p) \/ Truncate(p) \/ Write(p) \/ Kill(p)
  BY <1>1, <1>2, <1>3, <1>4, <1>5, <1>6, <1>7, <1>8, <1>9, <1>12
<1> QED
  BY <1>10, <1>11, <1>12 DEF Next

-----------------------------------------------------------------------------
(* Histories.                                                               *)

Writing(p) == pc[p] \in {"truncate", "write"}

\* A contract that was opened, once, and then changed: its status is the last event's.
WellFormed(d) ==
    /\ d \in Docs /\ Len(d.history) > 0
    /\ \A i \in 1..Len(d.history) : d.history[i].type = "opened" <=> i = 1
    /\ d.history[Len(d.history)].status = d.status

\* Not only what is on file is well formed but also what a process is about to write;
\* and only `open` opens, which does not read.
HistoryInv ==
    /\ \A c \in Contracts : Readable(c) => WellFormed(file[c])
    /\ \A p \in Procs : /\ pc[p] = "show" => job[p].type # "opened"
                        /\ Writing(p) => WellFormed(buf[p])

LEMMA ChangedStaysWellFormed ==
    ASSUME NEW d, WellFormed(d), NEW j \in Jobs, j.type # "opened"
    PROVE  WellFormed(Changed(d, j))
<1> DEFINE e == Changed(d, j)
<1>1. d \in Docs /\ Len(d.history) \in Nat /\ Len(d.history) > 0
  BY DEF WellFormed, Docs
<1>2. /\ e \in Docs /\ Len(e.history) = Len(d.history) + 1
      /\ \A i \in 1..Len(d.history) : e.history[i] = d.history[i]
      /\ e.history[Len(d.history) + 1] = [type |-> j.type, by |-> j.by, status |-> e.status]
  BY <1>1, ChangedDoc
<1> HIDE DEF e
<1>3. ASSUME NEW i \in 1..Len(e.history)
      PROVE  e.history[i].type = "opened" <=> i = 1
  <2>1. CASE i \in 1..Len(d.history)
    BY <1>2, <2>1 DEF WellFormed
  <2>2. CASE i = Len(d.history) + 1
    BY <1>1, <1>2, <2>2
  <2> QED
    BY <1>1, <1>2, <2>1, <2>2
<1>4. e.history[Len(e.history)].status = e.status
  BY <1>2
<1>5. WellFormed(e)
  BY <1>1, <1>2, <1>3, <1>4 DEF WellFormed
<1> QED
  BY <1>5 DEF e

LEMMA OpenedIsWellFormed == WellFormed(Opened)
<1>1. \A i \in 1..Len(Opened.history) : Opened.history[i].type = "opened" <=> i = 1
  BY OpenedDoc
<1> QED
  BY <1>1, OpenedDoc DEF WellFormed

LEMMA HistoryStep ==
    ASSUME TypeOK, HistoryInv, [Next]_vars
    PROVE  HistoryInv'
<1>1. CASE UNCHANGED <<files, pc, job, buf, alone>>
  BY <1>1 DEF HistoryInv, Readable, Writing, files
<1>2. ASSUME NEW p \in Procs, Others(p), Rests(p) \/ Opens(p) \/ Asks(p)
      PROVE  HistoryInv'
  <2>1. UNCHANGED files
    BY <1>2 DEF Rests, Opens, Asks
  <2>2. /\ pc'[p] = "show" => job'[p].type # "opened"
        /\ pc'[p] \in {"truncate", "write"} => buf'[p] = Opened
    BY <1>2 DEF Rests, Opens, Asks
  <2> QED
    BY <1>2, <2>1, <2>2, OpenedIsWellFormed DEF HistoryInv, Readable, Writing, Others, files
<1>3. ASSUME NEW p \in Procs, Others(p), Shows(p)
      PROVE  HistoryInv'
  <2>1. job[p] \in Jobs /\ job[p].c \in Contracts /\ job[p].type # "opened"
    BY <1>3 DEF Shows, TypeOK, Jobs, HistoryInv
  <2>2. WellFormed(buf'[p])
    BY <1>3, <2>1, ChangedStaysWellFormed DEF Shows, HistoryInv
  <2> QED
    BY <1>3, <2>2 DEF Shows, HistoryInv, Readable, Writing, Others, files
<1>4. ASSUME NEW p \in Procs, Others(p), Truncates(p)
      PROVE  HistoryInv'
  <2>1. \A c \in Contracts : file'[c] \notin Unreadable => file'[c] = file[c]
    BY <1>4 DEF Truncates, TypeOK, Unreadable
  <2> QED
    BY <1>4, <2>1 DEF Truncates, HistoryInv, Readable, Writing, Others
<1>5. ASSUME NEW p \in Procs, Others(p), Writes(p)
      PROVE  HistoryInv'
  <2>1. \A c \in Contracts : file'[c] \notin Unreadable => file'[c] \in {file[c], buf[p]}
    BY <1>5 DEF Writes, TypeOK, Unreadable
  <2>2. WellFormed(buf[p])
    BY <1>5 DEF Writes, HistoryInv, Writing
  <2> QED
    BY <1>5, <2>1, <2>2 DEF Writes, HistoryInv, Readable, Writing, Others
<1> QED
  BY Steps, <1>1, <1>2, <1>3, <1>4, <1>5

LEMMA HistoriesHold == Spec => []HistoryInv
<1>1. Init => HistoryInv
  BY DEF Init, HistoryInv, Readable, Unreadable, Writing
<1> QED
  BY <1>1, HistoryStep, ContractsTyped, PTL DEF Spec

\* However many processes write, whatever they find and wherever they are killed, a
\* contract that can be read was opened, once, and then changed.
THEOREM HistoriesStart == Spec => []HistoryStartsWithOpening
<1>1. HistoryInv => HistoryStartsWithOpening
  BY DEF HistoryInv, HistoryStartsWithOpening, WellFormed, Indices
<1> QED
  BY <1>1, HistoriesHold, PTL

-----------------------------------------------------------------------------
(* Claims.                                                                  *)

\* Who claimed the contract, according to a document, has or had a lease.
Backed(g, c, d) ==
    \A i \in 1..Len(d.history) :
       d.history[i].type = "claimed" =>
          d.history[i].by \in Owners /\ g[c][d.history[i].by] > 0

\* The grant comes before the document that tells of it.
ClaimInv ==
    /\ \A c \in Contracts : Readable(c) => Backed(granted, c, file[c])
    /\ \A p \in Procs :
         /\ pc[p] = "show" /\ job[p].type = "claimed" =>
              job[p].by \in Owners /\ granted[job[p].c][job[p].by] > 0
         /\ Writing(p) => Backed(granted, job[p].c, buf[p])

LEMMA BackedLasts ==
    ASSUME TypeOK, [Next]_vars, NEW c \in Contracts, NEW d, Backed(granted, c, d)
    PROVE  Backed(granted', c, d)
  BY GrantsLast DEF Backed

LEMMA ChangedStaysBacked ==
    ASSUME NEW g, NEW c, NEW d \in Docs, Backed(g, c, d), NEW j \in Jobs,
           j.type = "claimed" => j.by \in Owners /\ g[c][j.by] > 0
    PROVE  Backed(g, c, Changed(d, j))
<1> DEFINE e == Changed(d, j)
<1>0. Len(d.history) \in Nat
  BY DEF Docs
<1>1. /\ Len(e.history) = Len(d.history) + 1
      /\ \A i \in 1..Len(d.history) : e.history[i] = d.history[i]
      /\ e.history[Len(d.history) + 1] = [type |-> j.type, by |-> j.by, status |-> e.status]
  BY ChangedDoc
<1> HIDE DEF e
<1>2. ASSUME NEW i \in 1..Len(e.history), e.history[i].type = "claimed"
      PROVE  e.history[i].by \in Owners /\ g[c][e.history[i].by] > 0
  <2>1. CASE i \in 1..Len(d.history)
    BY <1>1, <1>2, <2>1 DEF Backed
  <2>2. CASE i = Len(d.history) + 1
    BY <1>0, <1>1, <1>2, <2>2
  <2> QED
    BY <1>0, <1>1, <2>1, <2>2
<1>3. Backed(g, c, e)
  BY <1>2 DEF Backed
<1> QED
  BY <1>3 DEF e

LEMMA ClaimStep ==
    ASSUME TypeOK, ClaimInv, [Next]_vars
    PROVE  ClaimInv'
<1>1. \A c \in Contracts : Readable(c) => Backed(granted', c, file[c])
  BY BackedLasts DEF ClaimInv
<1>2. ASSUME NEW q \in Procs
      PROVE  /\ pc[q] = "show" /\ job[q].type = "claimed" =>
                  job[q].by \in Owners /\ granted'[job[q].c][job[q].by] > 0
             /\ Writing(q) => Backed(granted', job[q].c, buf[q])
  <2>1. pc[q] \in {"show", "truncate", "write"} => job[q].c \in Contracts
    BY DEF TypeOK, Jobs
  <2> QED
    BY <2>1, GrantsLast, BackedLasts DEF ClaimInv, Writing
<1>3. CASE UNCHANGED <<files, pc, job, buf, alone>>
  BY <1>1, <1>2, <1>3 DEF ClaimInv, Readable, Writing, files
<1>4. ASSUME NEW p \in Procs, Others(p), Rests(p) \/ Opens(p) \/ Asks(p)
      PROVE  ClaimInv'
  <2>1. UNCHANGED files
    BY <1>4 DEF Rests, Opens, Asks
  <2>2. \A c \in Contracts : Backed(granted', c, Opened)
    BY OpenedDoc DEF Backed
  <2>3. job'[p].c \in Contracts \/ ~Writing(p)'
    <3>1. TypeOK'
      BY TypeStep
    <3> QED
      BY <3>1 DEF TypeOK, Jobs, Writing
  <2>4. /\ pc'[p] = "show" /\ job'[p].type = "claimed" =>
             job'[p].by \in Owners /\ granted'[job'[p].c][job'[p].by] > 0
        /\ Writing(p)' => buf'[p] = Opened
    BY <1>4 DEF Rests, Opens, Asks, Writing
  <2> QED
    BY <1>1, <1>2, <1>4, <2>1, <2>2, <2>3, <2>4 DEF ClaimInv, Readable, Writing, Others, files
<1>5. ASSUME NEW p \in Procs, Others(p), Shows(p)
      PROVE  ClaimInv'
  <2>1. job[p] \in Jobs /\ job[p].c \in Contracts /\ file[job[p].c] \in Docs
    BY <1>5, ReadableDoc DEF Shows, TypeOK, Jobs
  <2>2. Backed(granted', job[p].c, buf'[p])
    BY <1>1, <1>2, <1>5, <2>1, ChangedStaysBacked DEF Shows
  <2> QED
    BY <1>1, <1>2, <1>5, <2>2 DEF Shows, ClaimInv, Readable, Writing, Others, files
<1>6. ASSUME NEW p \in Procs, Others(p), Truncates(p)
      PROVE  ClaimInv'
  <2>1. \A c \in Contracts : file'[c] \notin Unreadable => file'[c] = file[c]
    BY <1>6 DEF Truncates, TypeOK, Unreadable
  <2> QED
    BY <1>1, <1>2, <1>6, <2>1 DEF Truncates, ClaimInv, Readable, Writing, Others
<1>7. ASSUME NEW p \in Procs, Others(p), Writes(p)
      PROVE  ClaimInv'
  <2>1. \A c \in Contracts : file'[c] \notin Unreadable =>
          file'[c] = file[c] \/ (c = job[p].c /\ file'[c] = buf[p])
    BY <1>7 DEF Writes, TypeOK, Unreadable
  <2>2. Backed(granted', job[p].c, buf[p])
    BY <1>2, <1>7 DEF Writes, Writing
  <2> QED
    BY <1>1, <1>2, <1>7, <2>1, <2>2 DEF Writes, ClaimInv, Readable, Writing, Others
<1> QED
  BY Steps, <1>3, <1>4, <1>5, <1>6, <1>7

\* No contract says of an owner that it claimed it unless the registry granted the owner
\* a lease on it, whichever commands overlap or are killed.
THEOREM ClaimsHaveGrants == Spec => []ClaimsAreGranted
<1>1. Init => ClaimInv
  BY DEF Init, ClaimInv, Readable, Unreadable, Writing
<1>2. ClaimInv => ClaimsAreGranted
  BY DEF ClaimInv, ClaimsAreGranted, Backed, Indices
<1> QED
  BY <1>1, <1>2, ClaimStep, ContractsTyped, PTL DEF Spec

-----------------------------------------------------------------------------
(* Commands that do not overlap.                                            *)

\* An automatic completion comes after an event that left the task open or in progress.
OnLive(d) ==
    \A i \in 1..Len(d.history) :
       d.history[i].type = "auto" => d.history[i - 1].status \in {"open", "in_progress"}

\* As long as no two commands have overlapped, the one process that is under way finds
\* the contract as it was when it looked: the task that a healthcheck is to complete is
\* still open or in progress, and what is to be written has one event more than was
\* reported of it.
AloneInv ==
    alone =>
      /\ \A p, q \in Procs : pc[p] # "idle" /\ pc[q] # "idle" => p = q
      /\ \A c \in Contracts :
           Readable(c) => OnLive(file[c]) /\ Len(file[c].history) >= reported[c]
      /\ \A p \in Procs :
           /\ pc[p] = "show" /\ job[p].type = "auto" =>
                Readable(job[p].c) /\ file[job[p].c].status \in {"open", "in_progress"}
           /\ Writing(p) =>
                /\ OnLive(buf[p])
                /\ job[p].type # "opened" => Len(buf[p].history) > reported[job[p].c]

LEMMA ChangedStaysOnLive ==
    ASSUME NEW d, WellFormed(d), OnLive(d), NEW j \in Jobs,
           j.type = "auto" => d.status \in {"open", "in_progress"}
    PROVE  OnLive(Changed(d, j))
<1> DEFINE e == Changed(d, j)
<1>1. d \in Docs /\ Len(d.history) \in Nat /\ Len(d.history) > 0
  BY DEF WellFormed, Docs
<1>2. /\ Len(e.history) = Len(d.history) + 1
      /\ \A i \in 1..Len(d.history) : e.history[i] = d.history[i]
      /\ e.history[Len(d.history) + 1] = [type |-> j.type, by |-> j.by, status |-> e.status]
  BY <1>1, ChangedDoc
<1> HIDE DEF e
<1>3. ASSUME NEW i \in 1..Len(e.history), e.history[i].type = "auto"
      PROVE  e.history[i - 1].status \in {"open", "in_progress"}
  <2>1. CASE i \in 1..Len(d.history)
    <3>1. i # 1
      BY <1>1, <1>2, <1>3, <2>1 DEF WellFormed
    <3>2. i - 1 \in 1..Len(d.history)
      BY <1>1, <2>1, <3>1
    <3>3. e.history[i] = d.history[i] /\ e.history[i - 1] = d.history[i - 1]
      BY <1>2, <2>1, <3>2
    <3> QED
      BY <1>3, <2>1, <3>3 DEF OnLive
  <2>2. CASE i = Len(d.history) + 1
    <3>1. e.history[i - 1] = d.history[Len(d.history)] /\ j.type = "auto"
      BY <1>1, <1>2, <1>3, <2>2
    <3> QED
      BY <3>1 DEF WellFormed
  <2> QED
    BY <1>1, <1>2, <2>1, <2>2
<1>4. OnLive(e)
  BY <1>3 DEF OnLive
<1> QED
  BY <1>4 DEF e

LEMMA AloneStep ==
    ASSUME TypeOK, HistoryInv, AloneInv, [Next]_vars
    PROVE  AloneInv'
<1>1. CASE UNCHANGED <<files, pc, job, buf, alone>>
  BY <1>1 DEF AloneInv, Readable, Writing, files
<1> SUFFICES ASSUME NEW p \in Procs, Others(p), Overlaps(p), alone',
                    \/ Rests(p) \/ Opens(p) \/ Asks(p) \/ Shows(p) \/ Truncates(p) \/ Writes(p)
             PROVE  AloneInv'
  BY Steps, <1>1 DEF AloneInv
<1>2. alone /\ \A q \in Procs \ {p} : pc[q] = "idle" /\ pc'[q] = "idle"
  BY DEF Others, Overlaps, AloneInv
<1>3. \A q, r \in Procs : pc'[q] # "idle" /\ pc'[r] # "idle" => q = r
  BY <1>2
<1>4. ASSUME /\ \A c \in Contracts : Readable(c)' =>
                   OnLive(file'[c]) /\ Len(file'[c].history) >= reported'[c]
             /\ pc'[p] = "show" /\ job'[p].type = "auto" =>
                   Readable(job[p].c)' /\ file'[job'[p].c].status \in {"open", "in_progress"}
             /\ Writing(p)' =>
                   /\ OnLive(buf'[p])
                   /\ job'[p].type # "opened" => Len(buf'[p].history) > reported'[job'[p].c]
      PROVE  AloneInv'
  <2>1. ASSUME NEW q \in Procs
        PROVE  /\ pc'[q] = "show" /\ job'[q].type = "auto" =>
                     Readable(job[q].c)' /\ file'[job'[q].c].status \in {"open", "in_progress"}
               /\ Writing(q)' =>
                     /\ OnLive(buf'[q])
                     /\ job'[q].type # "opened" => Len(buf'[q].history) > reported'[job'[q].c]
    <3>1. CASE q = p
      BY <1>4, <3>1
    <3>2. CASE q # p
      BY <1>2, <3>2 DEF Writing
    <3> QED
      BY <3>1, <3>2
  <2> QED
    BY <1>3, <1>4, <2>1 DEF AloneInv, Readable
<1>5. CASE Rests(p) \/ Opens(p) \/ Asks(p)
  <2>1. UNCHANGED files
    BY <1>5 DEF Rests, Opens, Asks
  <2>2. OnLive(Opened)
    BY OpenedDoc DEF OnLive
  <2>3. /\ pc'[p] = "show" /\ job'[p].type = "auto" =>
             Readable(job'[p].c) /\ file[job'[p].c].status \in {"open", "in_progress"}
        /\ Writing(p)' => buf'[p] = Opened /\ job'[p].type = "opened"
    BY <1>5 DEF Rests, Opens, Asks, Writing
  <2>4. \A c \in Contracts : Readable(c)' =>
            OnLive(file'[c]) /\ Len(file'[c].history) >= reported'[c]
    BY <1>2, <2>1 DEF AloneInv, Readable, files
  <2>5. pc'[p] = "show" /\ job'[p].type = "auto" =>
            Readable(job[p].c)' /\ file'[job'[p].c].status \in {"open", "in_progress"}
    BY <2>1, <2>3 DEF Readable, files
  <2> QED
    BY <1>4, <2>2, <2>3, <2>4, <2>5
<1>6. CASE Shows(p)
  <2> DEFINE d == file[job[p].c]
  <2>1. /\ job[p] \in Jobs /\ job[p].c \in Contracts /\ pc[p] = "show"
        /\ pc'[p] = "truncate" /\ job'[p] = job[p]
        /\ Readable(job[p].c) /\ buf'[p] = Changed(d, job[p])
        /\ UNCHANGED <<file, reported>>
    BY <1>6 DEF Shows, TypeOK, Jobs, files
  <2>2. WellFormed(d) /\ d \in Docs /\ Len(d.history) \in Nat
    BY <2>1 DEF HistoryInv, WellFormed, Docs
  <2>3. /\ OnLive(d) /\ Len(d.history) >= reported[job[p].c]
        /\ job[p].type = "auto" => d.status \in {"open", "in_progress"}
    BY <1>2, <2>1 DEF AloneInv
  <2>4. OnLive(buf'[p])
    BY <2>1, <2>2, <2>3, ChangedStaysOnLive
  <2>5. Len(buf'[p].history) = Len(d.history) + 1
    BY <2>1, <2>2, ChangedDoc
  <2>6. reported[job[p].c] \in Nat
    BY <2>1 DEF TypeOK
  <2>7. Len(buf'[p].history) > reported'[job'[p].c]
    BY <2>1, <2>2, <2>3, <2>5, <2>6
  <2> QED
    BY <1>2, <1>4, <2>1, <2>4, <2>7 DEF AloneInv, Readable
<1>7. CASE Truncates(p)
  <2>1. /\ pc[p] = "truncate" /\ pc'[p] = "write" /\ job'[p] = job[p] /\ buf'[p] = buf[p]
        /\ UNCHANGED reported
        /\ \A c \in Contracts : file'[c] \notin Unreadable => file'[c] = file[c]
    BY <1>7 DEF Truncates, TypeOK, Unreadable
  <2> QED
    BY <1>2, <1>4, <2>1 DEF AloneInv, Readable, Writing
<1>8. CASE Writes(p)
  <2>1. pc[p] = "write" /\ pc'[p] \in {"idle", "scan"} /\ job[p].c \in Contracts
    BY <1>8 DEF Writes, TypeOK, Jobs
  <2>2. OnLive(buf[p]) /\ (job[p].type # "opened" => Len(buf[p].history) > reported[job[p].c])
    BY <1>2, <2>1 DEF AloneInv, Writing
  <2>3. Len(buf[p].history) \in Nat /\ Len(buf[p].history) > 0
    BY <2>1 DEF HistoryInv, Writing, WellFormed, Docs
  <2>4. ASSUME NEW c \in Contracts, file'[c] \notin Unreadable
        PROVE  OnLive(file'[c]) /\ Len(file'[c].history) >= reported'[c]
    <3>1. CASE c # job[p].c
      <4>1. file'[c] = file[c] /\ reported'[c] = reported[c]
        BY <1>8, <3>1 DEF Writes, TypeOK
      <4> QED
        BY <1>2, <2>4, <4>1 DEF AloneInv, Readable
    <3>2. CASE c = job[p].c
      <4>1. file'[c] = buf[p]
        BY <1>8, <2>1, <2>4, <3>2 DEF Writes, TypeOK, Unreadable
      <4>2. reported[c] \in Nat
            /\ reported'[c] = IF job[p].type = "opened" THEN 1 ELSE reported[c] + 1
        BY <1>8, <2>1, <3>2 DEF Writes, TypeOK
      <4> QED
        BY <2>2, <2>3, <3>2, <4>1, <4>2
    <3> QED
      BY <3>1, <3>2
  <2> QED
    BY <1>4, <2>1, <2>4 DEF Readable, Writing
<1> QED
  BY <1>5, <1>6, <1>7, <1>8

LEMMA AloneHolds == Spec => []AloneInv
<1>1. Init => AloneInv
  BY DEF Init, AloneInv, Readable, Unreadable, Writing
<1> QED
  BY <1>1, AloneStep, ContractsTyped, HistoriesHold, PTL DEF Spec

\* As long as no two commands overlap, the healthcheck completes tasks that are open or
\* in progress, and no others, although it writes after it has looked.
THEOREM LiveTasksOnly == Spec => []CompletesOnlyLiveTasks
<1>1. AloneInv => CompletesOnlyLiveTasks
  BY DEF AloneInv, CompletesOnlyLiveTasks, OnLive, Indices
<1> QED
  BY <1>1, AloneHolds, PTL

\* As long as no two commands overlap, no change that was reported is lost, wherever
\* processes are killed.
THEOREM ReportsStay == Spec => []ReportedChangesStay
<1>1. AloneInv => ReportedChangesStay
  BY DEF AloneInv, ReportedChangesStay
<1> QED
  BY <1>1, AloneHolds, PTL
=============================================================================
