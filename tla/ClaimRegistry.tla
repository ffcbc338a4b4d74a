---------------------------- MODULE ClaimRegistry ---------------------------
(***************************************************************************)
(* contracts.ClaimTask as `conctl task-contract claim` runs it: processes  *)
(* on one host share .claims.json under an exclusive flock.  The time of a *)
(* claim is taken before the lock is waited for.  os.WriteFile truncates   *)
(* the file before it writes it, and an empty file reads as an empty       *)
(* registry.                                                               *)
(***************************************************************************)
EXTENDS Naturals

CONSTANTS
    Procs,         \* claiming processes
    Contracts,     \* task contract ids
    Owners,        \* agents that claim
    NoClaim,       \* no claim, no request
    Asked,         \* values of the -lease flag; 0 or less asks for the default
    DefaultLease,  \* five minutes
    NoProc,        \* nobody holds the flock
    TornWrites,    \* may a kill fall between the truncation and the write?
    MaxTime,       \* bound: the clock
    MaxCrashes     \* bound: killed processes

LeaseOf(asked) == IF asked = 0 THEN DefaultLease ELSE asked

Claims == [owner : Owners, until : Nat]

Leases == {LeaseOf(a) : a \in Asked}

Requests == [contract : Contracts, owner : Owners, lease : Leases, at : Nat]
Registries == [Contracts -> Claims \cup {NoClaim}]
Empty == [c \in Contracts |-> NoClaim]

ASSUME RegistryAssumption ==
    /\ NoProc \notin Procs
    /\ NoClaim \notin Claims \cup Requests
    /\ Asked \subseteq Nat
    /\ DefaultLease \in Nat \ {0}
    /\ TornWrites \in BOOLEAN
    /\ MaxTime \in Nat /\ MaxCrashes \in Nat

VARIABLES
    clock,
    file,      \* what .claims.json reads as
    flock,     \* the process that holds the lock on it
    pc,
    req,       \* each process's arguments and its `now`
    mem,       \* each process's copy of the registry
    crashes,
    granted    \* history: when each owner's last lease of a contract ends

vars == <<clock, file, flock, pc, req, mem, crashes, granted>>

Goto(p, label) == pc' = [pc EXCEPT ![p] = label]

\* `now` is read here, before ClaimTask opens and locks the registry.
Call(p) ==
    /\ pc[p] = "idle"
    /\ \E c \in Contracts, o \in Owners, a \in Asked :
         req' = [req EXCEPT ![p] = [contract |-> c, owner |-> o, lease |-> LeaseOf(a),
                                    at |-> clock]]
    /\ Goto(p, "lock")
    /\ UNCHANGED <<clock, file, flock, mem, crashes, granted>>

\* Mutant: a shared lock, which does not wait for the other holders.
LockShared(p) ==
    /\ pc[p] = "lock"
    /\ flock' = p
    /\ Goto(p, "read")
    /\ UNCHANGED <<clock, file, req, mem, crashes, granted>>

Lock(p) ==
    /\ pc[p] = "lock" /\ flock = NoProc
    /\ flock' = p
    /\ Goto(p, "read")
    /\ UNCHANGED <<clock, file, req, mem, crashes, granted>>

Read(p) ==
    /\ pc[p] = "read"
    /\ mem' = [mem EXCEPT ![p] = file]
    /\ Goto(p, "decide")
    /\ UNCHANGED <<clock, file, flock, req, crashes, granted>>

HeldByOther(entry, o, t) == entry # NoClaim /\ entry.owner # o /\ entry.until > t

Refused(p) == HeldByOther(mem[p][req[p].contract], req[p].owner, req[p].at)

\* What a process that leaves ClaimTask, or dies, leaves behind.
Release(p) ==
    /\ flock' = IF flock = p THEN NoProc ELSE flock
    /\ Goto(p, "idle")
    /\ mem' = [mem EXCEPT ![p] = Empty]
    /\ req' = [req EXCEPT ![p] = NoClaim]

Refuse(p) ==
    /\ pc[p] = "decide" /\ Refused(p)
    /\ Release(p)
    /\ UNCHANGED <<clock, file, crashes, granted>>

Truncate(p) ==
    LET c == req[p].contract
        until == req[p].at + req[p].lease IN
    /\ pc[p] = "decide" /\ ~Refused(p)
    /\ file' = Empty
    /\ mem' = [mem EXCEPT ![p][c] = [owner |-> req[p].owner, until |-> until]]
    /\ granted' = [granted EXCEPT ![c][req[p].owner] = until]
    /\ Goto(p, "write")
    /\ UNCHANGED <<clock, flock, req, crashes>>

Write(p) ==
    /\ pc[p] = "write"
    /\ file' = mem[p]
    /\ Goto(p, "return")
    /\ UNCHANGED <<clock, flock, req, mem, crashes, granted>>

Return(p) ==
    /\ pc[p] = "return"
    /\ Release(p)
    /\ UNCHANGED <<clock, file, crashes, granted>>

\* Mutant: the lock is a file of its own, which a kill leaves behind.
CrashLocked(p) ==
    /\ pc[p] # "idle" /\ (pc[p] = "write" => TornWrites)
    /\ crashes < MaxCrashes
    /\ crashes' = crashes + 1
    /\ Goto(p, "idle")
    /\ mem' = [mem EXCEPT ![p] = Empty]
    /\ req' = [req EXCEPT ![p] = NoClaim]
    /\ UNCHANGED <<clock, file, flock, granted>>

\* The kernel drops the lock of a killed process; a call that cannot lock, read or
\* write the file returns an error and leaves the same behind.
Crash(p) ==
    /\ pc[p] # "idle" /\ (pc[p] = "write" => TornWrites)
    /\ crashes < MaxCrashes
    /\ crashes' = crashes + 1
    /\ Release(p)
    /\ UNCHANGED <<clock, file, granted>>

Tick ==
    /\ clock < MaxTime
    /\ clock' = clock + 1
    /\ UNCHANGED <<file, flock, pc, req, mem, crashes, granted>>

Init ==
    /\ clock = 0
    /\ file = Empty
    /\ flock = NoProc
    /\ pc = [p \in Procs |-> "idle"]
    /\ req = [p \in Procs |-> NoClaim]
    /\ mem = [p \in Procs |-> Empty]
    /\ crashes = 0
    /\ granted = [c \in Contracts |-> [o \in Owners |-> 0]]

Step(p) == Lock(p) \/ Read(p) \/ Refuse(p) \/ Truncate(p) \/ Write(p) \/ Return(p)

Next == (\E p \in Procs : Call(p) \/ Step(p) \/ Crash(p)) \/ Tick

Spec == Init /\ [][Next]_vars

\* A process that holds the lock, or can take it again and again, goes on.
FairSpec == Spec /\ \A p \in Procs : WF_vars(Step(p)) /\ SF_vars(Lock(p))

-----------------------------------------------------------------------------

TypeOK ==
    /\ clock \in Nat
    /\ file \in Registries
    /\ flock \in Procs \cup {NoProc}
    /\ pc \in [Procs -> {"idle", "lock", "read", "decide", "write", "return"}]
    /\ req \in [Procs -> Requests \cup {NoClaim}]
    /\ \A p \in Procs : pc[p] # "idle" => req[p] \in Requests
    /\ mem \in [Procs -> Registries]
    /\ crashes \in Nat
    /\ granted \in [Contracts -> [Owners -> Nat]]

\* The registry as the promise sees it: between truncation and write, it is what
\* the writer is about to write.
Registry == IF flock # NoProc /\ pc[flock] = "write" THEN mem[flock] ELSE file

\* Unless a kill tears a write, the registry implements the lease table.
Table == INSTANCE LeaseTable WITH holder <- Registry
ImplementsLeaseTable == Table!LeaseSpec

\* "If an active lease exists for a different owner, ClaimTask returns an error."
TakeoverOnlyAfterExpiry == Table!TakeoverOnlyAfterExpiry

\* No caller waits for ever: it is answered or it is killed.
EveryClaimEnds == \A p \in Procs : pc[p] # "idle" ~> pc[p] = "idle"
=============================================================================
