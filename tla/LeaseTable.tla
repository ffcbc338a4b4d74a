----------------------------- MODULE LeaseTable -----------------------------
(***************************************************************************)
(* What the claim registry promises: one table of leases, changed in one   *)
(* step by each successful claim.  A claim carries the time at which its   *)
(* command began, which may lie in the past when the table changes.        *)
(***************************************************************************)
EXTENDS Naturals

CONSTANTS
    Contracts,   \* task contract ids
    Owners,      \* agents that claim
    Leases,      \* lease lengths, after the default is applied
    NoClaim,     \* a contract nobody has claimed
    MaxTime      \* bound: the clock

ASSUME LeaseAssumption ==
    /\ Leases \subseteq Nat \ {0}
    /\ NoClaim \notin [owner : Owners, until : Nat]
    /\ MaxTime \in Nat

VARIABLES
    clock,
    holder,      \* the registry's entry of each contract
    granted      \* history: when each owner's last lease of a contract ends

leaseVars == <<clock, holder, granted>>

Claims == [owner : Owners, until : Nat]

\* Mutant: a lease is given up one tick before it ends.
HeldByOtherEarly(entry, o, t) == entry # NoClaim /\ entry.owner # o /\ entry.until > t + 1

\* `existing.Owner != owner && existing.LeaseUntil.After(now)`
HeldByOther(entry, o, t) == entry # NoClaim /\ entry.owner # o /\ entry.until > t

Grant(c, o, t, l) ==
    /\ ~HeldByOther(holder[c], o, t)
    /\ holder' = [holder EXCEPT ![c] = [owner |-> o, until |-> t + l]]
    /\ granted' = [granted EXCEPT ![c][o] = t + l]
    /\ UNCHANGED clock

Tick == clock < MaxTime /\ clock' = clock + 1 /\ UNCHANGED <<holder, granted>>

LeaseInit ==
    /\ clock = 0
    /\ holder = [c \in Contracts |-> NoClaim]
    /\ granted = [c \in Contracts |-> [o \in Owners |-> 0]]

LeaseNext ==
    \/ \E c \in Contracts, o \in Owners, l \in Leases : \E t \in 0..clock : Grant(c, o, t, l)
    \/ Tick

LeaseSpec == LeaseInit /\ [][LeaseNext]_leaseVars

-----------------------------------------------------------------------------

LeaseTypeOK ==
    /\ clock \in Nat
    /\ holder \in [Contracts -> Claims \cup {NoClaim}]
    /\ granted \in [Contracts -> [Owners -> Nat]]

\* At any moment at most one owner's latest lease of a contract is running.
Exclusive ==
    \A c \in Contracts, o, p \in Owners :
       granted[c][o] > clock /\ granted[c][p] > clock => o = p

\* "If an active lease exists for a different owner, ClaimTask returns an
\* error": the registry's owner changes only once its lease has run out.
TakeoverOnlyAfterExpiry ==
    [][\A c \in Contracts :
         holder[c] # NoClaim /\ holder[c].until > clock
           => holder'[c] # NoClaim /\ holder'[c].owner = holder[c].owner]_leaseVars
=============================================================================
