------------------------- MODULE ClaimRegistryProofs ------------------------
(***************************************************************************)
(* Proofs about ClaimRegistry, for any processes, contracts and owners:    *)
(* the flock makes the processes that read, change and write one file      *)
(* behave as the table of LeaseTable.                                      *)
(***************************************************************************)
EXTENDS ClaimRegistry, TLAPS

\* The default makes every lease longer than nothing.
LEMMA LeasesArePositive == Leases \subseteq Nat \ {0}
  BY RegistryAssumption DEF Leases, LeaseOf

\* A process that was called has a request, and its lease ends at a time.
LEMMA RequestType ==
    ASSUME TypeOK, NEW p \in Procs, pc[p] # "idle"
    PROVE  /\ req[p] \in Requests /\ req[p].contract \in Contracts /\ req[p].owner \in Owners
           /\ req[p].at + req[p].lease \in Nat
<1>1. req[p] \in Requests
  BY DEF TypeOK
<1>2. /\ req[p].contract \in Contracts /\ req[p].owner \in Owners
      /\ req[p].at \in Nat /\ req[p].lease \in Leases
  BY <1>1 DEF Requests
<1>3. req[p].lease \in Nat
  BY <1>2, LeasesArePositive
<1> QED
  BY <1>1, <1>2, <1>3

\* What Release leaves behind has its types.
LEMMA ReleaseType ==
    ASSUME TypeOK, NEW p \in Procs, Release(p)
    PROVE  /\ flock' \in Procs \cup {NoProc}
           /\ pc' \in [Procs -> {"idle", "lock", "read", "decide", "write", "return"}]
           /\ req' \in [Procs -> Requests \cup {NoClaim}]
           /\ \A q \in Procs : pc'[q] # "idle" => req'[q] \in Requests
           /\ mem' \in [Procs -> Registries]
  BY DEF TypeOK, Release, Goto, Registries, Empty

\* The types of the registry, its processes and its history.
THEOREM RegistryTyped == Spec => []TypeOK
<1> USE RegistryAssumption
<1>1. Init => TypeOK
  BY DEF Init, TypeOK, Registries, Empty
<1>2. TypeOK /\ [Next]_vars => TypeOK'
  <2> SUFFICES ASSUME TypeOK, [Next]_vars
               PROVE  TypeOK'
    OBVIOUS
  <2>1. ASSUME NEW p \in Procs, Call(p)
        PROVE  TypeOK'
    <3>1. PICK c \in Contracts, o \in Owners, a \in Asked :
             req' = [req EXCEPT ![p] = [contract |-> c, owner |-> o, lease |-> LeaseOf(a),
                                        at |-> clock]]
      BY <2>1 DEF Call
    <3>2. [contract |-> c, owner |-> o, lease |-> LeaseOf(a), at |-> clock] \in Requests
      BY DEF Requests, Leases, TypeOK
    <3> QED
      BY <2>1, <3>1, <3>2 DEF Call, Goto, TypeOK
  <2>2. ASSUME NEW p \in Procs, Lock(p)
        PROVE  TypeOK'
    BY <2>2 DEF Lock, Goto, TypeOK
  <2>3. ASSUME NEW p \in Procs, Read(p)
        PROVE  TypeOK'
    BY <2>3 DEF Read, Goto, TypeOK
  <2>4. ASSUME NEW p \in Procs, Refuse(p)
        PROVE  TypeOK'
    BY <2>4, ReleaseType DEF Refuse, TypeOK
  <2>5. ASSUME NEW p \in Procs, Truncate(p)
        PROVE  TypeOK'
    <3>1. /\ req[p] \in Requests /\ req[p].contract \in Contracts /\ req[p].owner \in Owners
          /\ req[p].at + req[p].lease \in Nat
      BY <2>5, RequestType DEF Truncate
    <3>2. [owner |-> req[p].owner, until |-> req[p].at + req[p].lease] \in Claims
      BY <3>1 DEF Claims
    <3>3. mem' \in [Procs -> Registries]
      BY <2>5, <3>1, <3>2 DEF Truncate, TypeOK, Registries
    <3>4. file' \in Registries
      BY <2>5 DEF Truncate, Registries, Empty
    <3>5. granted' \in [Contracts -> [Owners -> Nat]]
      BY <2>5, <3>1 DEF Truncate, TypeOK
    <3> QED
      BY <2>5, <3>3, <3>4, <3>5 DEF Truncate, Goto, TypeOK
  <2>6. ASSUME NEW p \in Procs, Write(p)
        PROVE  TypeOK'
    BY <2>6 DEF Write, Goto, TypeOK
  <2>7. ASSUME NEW p \in Procs, Return(p)
        PROVE  TypeOK'
    BY <2>7, ReleaseType DEF Return, TypeOK
  <2>8. ASSUME NEW p \in Procs, Crash(p)
        PROVE  TypeOK'
    BY <2>8, ReleaseType DEF Crash, TypeOK
  <2>9. CASE Tick
    BY <2>9 DEF Tick, TypeOK
  <2>10. CASE UNCHANGED vars
    BY <2>10 DEF vars, TypeOK
  <2> QED
    BY <2>1, <2>2, <2>3, <2>4, <2>5, <2>6, <2>7, <2>8, <2>9, <2>10 DEF Next, Step
<1> QED
  BY <1>1, <1>2, PTL DEF Spec

-----------------------------------------------------------------------------

Inside == {"read", "decide", "write", "return"}

\* The lock protects the file: only its holder is inside, what the holder read is
\* still what the file says when it decides, and no request lies in the future.
LockInv ==
    /\ \A p \in Procs : pc[p] \in Inside => flock = p
    /\ \A p \in Procs : pc[p] = "decide" => mem[p] = file
    /\ \A p \in Procs : pc[p] # "idle" => req[p].at <= clock

\* A process that leaves or dies lets go of the lock and of nothing else's.
LEMMA ReleaseKeepsLock ==
    ASSUME TypeOK, LockInv, NEW p \in Procs, Release(p), file' = file, clock' = clock
    PROVE  LockInv'
<1>1. \A q \in Procs : q # p => pc'[q] = pc[q] /\ mem'[q] = mem[q] /\ req'[q] = req[q]
  BY DEF Release, Goto, TypeOK
<1>2. pc'[p] = "idle"
  BY DEF Release, Goto, TypeOK
<1>3. \A q \in Procs : pc'[q] \in Inside => flock' = q
  <2> SUFFICES ASSUME NEW q \in Procs, pc'[q] \in Inside
               PROVE  flock' = q
    OBVIOUS
  <2>1. q # p /\ flock = q
    BY <1>1, <1>2 DEF Inside, LockInv
  <2> QED
    BY <2>1 DEF Release
<1>4. \A q \in Procs : pc'[q] = "decide" => mem'[q] = file'
  BY <1>1, <1>2 DEF LockInv
<1>5. \A q \in Procs : pc'[q] # "idle" => req'[q].at <= clock'
  BY <1>1, <1>2 DEF LockInv
<1> QED
  BY <1>3, <1>4, <1>5 DEF LockInv

\* The lock protects the file in every state of the specification, torn writes
\* or not.
LEMMA LockHolds == Spec => []LockInv
<1> USE RegistryAssumption
<1>1. Init => LockInv
  BY DEF Init, LockInv, Inside
<1>2. TypeOK /\ LockInv /\ [Next]_vars => LockInv'
  <2> SUFFICES ASSUME TypeOK, LockInv, [Next]_vars
               PROVE  LockInv'
    OBVIOUS
  <2>1. ASSUME NEW p \in Procs, Call(p)
        PROVE  LockInv'
    BY <2>1 DEF Call, Goto, TypeOK, LockInv, Inside
  <2>2. ASSUME NEW p \in Procs, Lock(p)
        PROVE  LockInv'
    BY <2>2 DEF Lock, Goto, TypeOK, LockInv, Inside
  <2>3. ASSUME NEW p \in Procs, Read(p)
        PROVE  LockInv'
    BY <2>3 DEF Read, Goto, TypeOK, LockInv, Inside
  <2>4. ASSUME NEW p \in Procs, Refuse(p)
        PROVE  LockInv'
    BY <2>4, ReleaseKeepsLock DEF Refuse
  <2>5. ASSUME NEW p \in Procs, Truncate(p)
        PROVE  LockInv'
    BY <2>5 DEF Truncate, Goto, TypeOK, LockInv, Inside
  <2>6. ASSUME NEW p \in Procs, Write(p)
        PROVE  LockInv'
    BY <2>6 DEF Write, Goto, TypeOK, LockInv, Inside
  <2>7. ASSUME NEW p \in Procs, Return(p)
        PROVE  LockInv'
    BY <2>7, ReleaseKeepsLock DEF Return
  <2>8. ASSUME NEW p \in Procs, Crash(p)
        PROVE  LockInv'
    BY <2>8, ReleaseKeepsLock DEF Crash
  <2>9. CASE Tick
    <3>1. \A p \in Procs : pc[p] # "idle" => req[p].at \in Nat
      BY DEF TypeOK, Requests
    <3> QED
      BY <2>9, <3>1 DEF Tick, LockInv, TypeOK
  <2>10. CASE UNCHANGED vars
    BY <2>10 DEF vars, LockInv
  <2> QED
    BY <2>1, <2>2, <2>3, <2>4, <2>5, <2>6, <2>7, <2>8, <2>9, <2>10 DEF Next, Step
<1> QED
  BY <1>1, <1>2, RegistryTyped, PTL DEF Spec

-----------------------------------------------------------------------------
(* The refinement.                                                          *)

\* A process that is granted a claim takes one step of the table, as of the time
\* it was called.
LEMMA TruncateGrants ==
    ASSUME TypeOK, LockInv, NEW p \in Procs, Truncate(p)
    PROVE  Table!LeaseNext
<1> USE RegistryAssumption
<1> DEFINE c == req[p].contract
           o == req[p].owner
           l == req[p].lease
           t == req[p].at
<1>1. c \in Contracts /\ o \in Owners /\ l \in Leases /\ t \in 0..clock
  <2>1. req[p] \in Requests /\ req[p].at <= clock
    BY DEF Truncate, TypeOK, LockInv
  <2> QED
    BY <2>1 DEF Requests, TypeOK
<1>2. flock = p /\ mem[p] = file /\ Registry = file
  BY DEF Truncate, LockInv, Inside, Registry
<1>3. Registry' = [Registry EXCEPT ![c] = [owner |-> o, until |-> t + l]]
  <2>1. flock' = p /\ pc'[p] = "write" /\ p # NoProc
    BY <1>2 DEF Truncate, Goto, TypeOK
  <2>2. mem'[p] = [mem[p] EXCEPT ![c] = [owner |-> o, until |-> t + l]]
    BY DEF Truncate, TypeOK
  <2> QED
    BY <1>2, <2>1, <2>2 DEF Registry
<1>4. ~Table!HeldByOther(Registry[c], o, t)
  BY <1>2 DEF Truncate, Refused, HeldByOther, Table!HeldByOther
<1>5. Table!Grant(c, o, t, l)
  BY <1>3, <1>4 DEF Truncate, Table!Grant
<1> QED
  BY <1>1, <1>5 DEF Table!LeaseNext

\* The other steps of a process leave the table alone.
LEMMA ReleaseStutters ==
    ASSUME TypeOK, LockInv, NEW p \in Procs, Release(p), file' = file,
           pc[p] # "idle", pc[p] # "write"
    PROVE  Registry' = Registry
<1>1. CASE flock # NoProc /\ pc[flock] = "write"
  <2>1. flock \in Procs /\ flock # p
    BY <1>1, RegistryAssumption DEF TypeOK
  <2>2. flock' = flock /\ pc'[flock] = "write" /\ mem'[flock] = mem[flock]
    BY <1>1, <2>1 DEF Release, Goto, TypeOK
  <2> QED
    BY <1>1, <2>2 DEF Registry
<1>2. CASE ~(flock # NoProc /\ pc[flock] = "write")
  <2>1. ~(flock' # NoProc /\ pc'[flock'] = "write")
    BY <1>2, RegistryAssumption DEF Release, Goto, TypeOK
  <2> QED
    BY <1>2, <2>1 DEF Registry
<1> QED
  BY <1>1, <1>2

\* Every step of the processes is a step of the table, or none.
LEMMA StepImplements ==
    ASSUME ~TornWrites, TypeOK, LockInv, [Next]_vars
    PROVE  Table!LeaseNext \/ UNCHANGED <<clock, Registry, granted>>
<1> USE RegistryAssumption
<1>1. ASSUME NEW p \in Procs, Call(p)
      PROVE  UNCHANGED <<clock, Registry, granted>>
  <2>1. pc'[flock] = "write" <=> pc[flock] = "write"
    BY <1>1 DEF Call, Goto, TypeOK
  <2> QED
    BY <1>1, <2>1 DEF Call, Registry
<1>2. ASSUME NEW p \in Procs, Lock(p)
      PROVE  UNCHANGED <<clock, Registry, granted>>
  BY <1>2 DEF Lock, Goto, TypeOK, Registry
<1>3. ASSUME NEW p \in Procs, Read(p)
      PROVE  UNCHANGED <<clock, Registry, granted>>
  <2>1. flock = p /\ pc[p] = "read" /\ pc'[p] = "decide" /\ flock' = p
    BY <1>3 DEF Read, Goto, TypeOK, LockInv, Inside
  <2> QED
    BY <1>3, <2>1 DEF Read, Registry
<1>4. ASSUME NEW p \in Procs, Refuse(p)
      PROVE  UNCHANGED <<clock, Registry, granted>>
  BY <1>4, ReleaseStutters DEF Refuse
<1>5. ASSUME NEW p \in Procs, Truncate(p)
      PROVE  Table!LeaseNext
  BY <1>5, TruncateGrants
<1>6. ASSUME NEW p \in Procs, Write(p)
      PROVE  UNCHANGED <<clock, Registry, granted>>
  <2>1. flock = p /\ pc[p] = "write" /\ pc'[p] = "return" /\ flock' = p /\ p # NoProc
    BY <1>6 DEF Write, Goto, TypeOK, LockInv, Inside
  <2> QED
    BY <1>6, <2>1 DEF Write, Registry
<1>7. ASSUME NEW p \in Procs, Return(p)
      PROVE  UNCHANGED <<clock, Registry, granted>>
  BY <1>7, ReleaseStutters DEF Return
<1>8. ASSUME NEW p \in Procs, Crash(p)
      PROVE  UNCHANGED <<clock, Registry, granted>>
  BY <1>8, ReleaseStutters DEF Crash
<1>9. CASE Tick
  BY <1>9 DEF Tick, Registry, Table!LeaseNext, Table!Tick
<1>10. CASE UNCHANGED vars
  BY <1>10 DEF vars, Registry
<1> QED
  BY <1>1, <1>2, <1>3, <1>4, <1>5, <1>6, <1>7, <1>8, <1>9, <1>10 DEF Next, Step

\* The registry that processes share under the lock implements the lease table,
\* for any number of claimers, if no kill tears a write.
THEOREM RegistryImplementsTable == ~TornWrites /\ Spec => ImplementsLeaseTable
<1> SUFFICES ASSUME ~TornWrites
             PROVE  Spec => ImplementsLeaseTable
  OBVIOUS
<1>1. Init => Table!LeaseInit
  BY RegistryAssumption DEF Init, Table!LeaseInit, Registry, Empty
<1>2. TypeOK /\ LockInv /\ [Next]_vars => [Table!LeaseNext]_(Table!leaseVars)
  BY StepImplements DEF Table!leaseVars
<1> QED
  BY <1>1, <1>2, RegistryTyped, LockHolds, PTL
     DEF Spec, ImplementsLeaseTable, Table!LeaseSpec

\* An active lease is never taken over, and never forgotten, whatever the
\* claimers do and wherever they are killed, if no kill tears a write.
THEOREM RegistryTakeover == ~TornWrites /\ Spec => TakeoverOnlyAfterExpiry
<1> SUFFICES ASSUME ~TornWrites
             PROVE  Spec => TakeoverOnlyAfterExpiry
  OBVIOUS
<1>1. TypeOK /\ LockInv /\ [Next]_vars =>
        [\A c \in Contracts :
           Registry[c] # NoClaim /\ Registry[c].until > clock
             => Registry'[c] # NoClaim /\ Registry'[c].owner = Registry[c].owner]_(Table!leaseVars)
  <2> SUFFICES ASSUME TypeOK, LockInv, [Next]_vars, NEW c \in Contracts,
                      Registry[c] # NoClaim, Registry[c].until > clock,
                      ~UNCHANGED <<clock, Registry, granted>>
               PROVE  Registry'[c] # NoClaim /\ Registry'[c].owner = Registry[c].owner
    BY DEF Table!leaseVars
  <2>1. Registry \in Registries /\ clock \in Nat
    BY DEF TypeOK, Registry
  <2>2. Registry[c] \in Claims
    BY <2>1 DEF Registries
  <2>3. Table!LeaseNext
    BY StepImplements
  <2>4. ASSUME NEW d \in Contracts, NEW o \in Owners, NEW l \in Leases, NEW t \in 0..clock,
               Table!Grant(d, o, t, l)
        PROVE  Registry'[c] # NoClaim /\ Registry'[c].owner = Registry[c].owner
    <3>1. CASE d # c
      BY <2>1, <2>4, <3>1 DEF Table!Grant, Registries
    <3>2. CASE d = c
      <4>1. Registry[c].until > t /\ l \in Nat /\ t + l \in Nat
        BY <2>1, <2>2, LeasesArePositive DEF Claims
      <4>2. Registry[c].owner = o
        BY <2>4, <3>2, <4>1 DEF Table!Grant, Table!HeldByOther
      <4>3. Registry'[c] = [owner |-> o, until |-> t + l]
        BY <2>1, <2>4, <3>2 DEF Table!Grant, Registries
      <4>4. [owner |-> o, until |-> t + l] \in Claims
        BY <4>1 DEF Claims
      <4> QED
        BY <4>2, <4>3, <4>4, RegistryAssumption
    <3> QED
      BY <3>1, <3>2
  <2>5. CASE Table!Tick
    BY <2>5 DEF Table!Tick
  <2> QED
    BY <2>3, <2>4, <2>5 DEF Table!LeaseNext
<1> QED
  BY <1>1, RegistryTyped, LockHolds, PTL
     DEF Spec, TakeoverOnlyAfterExpiry, Table!TakeoverOnlyAfterExpiry
=============================================================================
