-------------------------- MODULE HealthcheckProofs -------------------------
(* Alerts and ledger of `conctl healthcheck`, for any number of checks,     *)
(* processes, overlaps and kills.                                           *)
EXTENDS Healthcheck, FiniteSetTheorems, TLAPS

USE HealthcheckAssumption

-----------------------------------------------------------------------------
(* Types.                                                                   *)

\* An alert is a message, and none is not an alert.
LEMMA MessageTypes ==
    /\ NoMsg \in Messages
    /\ \A k \in Checks : Alert(k) \in Messages /\ Alert(k) # NoMsg
    /\ \A S \in SUBSET Checks : Summary(S) \in Messages /\ Summary(S) # NoMsg
BY DEF NoMsg, Messages, Alert, Summary

\* What a dispatched action does to the places and messages of all processes.
LEMMA DispatchEffect ==
    ASSUME NEW p \in Procs, Dispatch(p), pc \in [Procs -> Labels]
    PROVE  /\ UNCHANGED <<disk, bounds, res, prev, last, told, alone>>
           /\ pc[p] = "dispatch"
           /\ \E k \in todo[p] :
                /\ todo' = [todo EXCEPT ![p] = @ \ {k}]
                /\ \/ OnFail[k] # "escalate" /\ UNCHANGED <<pc, msg>>
                   \/ /\ OnFail[k] = "escalate"
                      /\ pc' = [pc EXCEPT ![p] = "scan"]
                      /\ msg' = [msg EXCEPT ![p] = Alert(k)]
                   \/ /\ OnFail[k] # "escalate" /\ msg' = msg /\ pc' \in [Procs -> Labels]
                      /\ \A q \in Procs : \/ pc'[q] = pc[q]
                                          \/ q \in Services /\ pc[q] # "idle" /\ pc'[q] = "exit"
<1>1. /\ UNCHANGED <<disk, bounds, res, prev, last, told, alone>>
      /\ pc[p] = "dispatch"
  BY DEF Dispatch
<1>2. PICK k \in todo[p] : /\ todo' = [todo EXCEPT ![p] = @ \ {k}]
                           /\ Warn(p, k) \/ Escalate(p, k) \/ Halt(p, k)
  BY DEF Dispatch
<1>3. CASE Halt(p, k)
  <2>1. pc' = [q \in Procs |-> IF q \in Services /\ pc[q] # "idle" THEN "exit" ELSE pc[q]]
    BY <1>3 DEF Halt
  <2>2. pc' \in [Procs -> Labels]
    BY <2>1 DEF Labels
  <2> QED BY <1>1, <1>2, <1>3, <2>1, <2>2 DEF Halt
<1>4. CASE Warn(p, k)
  BY <1>1, <1>2, <1>4 DEF Warn
<1>5. CASE Escalate(p, k)
  BY <1>1, <1>2, <1>5 DEF Escalate, Goto
<1> QED BY <1>2, <1>3, <1>4, <1>5

\* The types, in two parts: where the processes are and what they are about to send,
\* and all else.
PlacesOK ==
    /\ pc \in [Procs -> Labels]
    /\ msg \in [Procs -> Messages]
    /\ \A p \in Procs : /\ pc[p] \notin {"scan", "write", "exit"} => msg[p] = NoMsg
                        /\ pc[p] \in {"scan", "write"} => msg[p] # NoMsg

RestOK ==
    /\ now \in Nat /\ runs \in Nat /\ kills \in Nat
    /\ alerts \subseteq [sec : Nat, body : Messages]
    /\ ledger \in Seq([prev : Nat, new : SUBSET Checks, resolved : SUBSET Checks])
    /\ latest \subseteq Checks
    /\ res \in [Procs -> Results \cup {[k \in Checks |-> "pass"]}]
    /\ prev \in [Procs -> SUBSET Checks]
    /\ last \in [Procs -> Nat]
    /\ todo \in [Procs -> SUBSET Checks]
    /\ told \in [Procs -> SUBSET Checks]
    /\ alone \in BOOLEAN

LEMMA TypeParts == (TypeOK <=> PlacesOK /\ RestOK) /\ (TypeOK <=> PlacesOK /\ RestOK)'
BY DEF TypeOK, PlacesOK, RestOK

\* A process moves on, and has a message for the sysadmin just where it should.
LEMMA Moves ==
    ASSUME PlacesOK, NEW p \in Procs, NEW label \in Labels, Goto(p, label),
           NEW m \in Messages, msg' = [msg EXCEPT ![p] = m],
           label \notin {"scan", "write", "exit"} => m = NoMsg,
           label \in {"scan", "write"} => m # NoMsg
    PROVE  PlacesOK'
BY DEF PlacesOK, Goto

\* Or it keeps what it has.
LEMMA Stays ==
    ASSUME PlacesOK, NEW p \in Procs, NEW label \in Labels, Goto(p, label), msg' = msg,
           \/ label = "exit"
           \/ label \notin {"scan", "write"} /\ pc[p] \notin {"scan", "write", "exit"}
           \/ label = "write" /\ pc[p] = "scan"
    PROVE  PlacesOK'
BY DEF PlacesOK, Goto

\* Every step keeps the types.
LEMMA TypeStep == TypeOK /\ [Next]_vars => TypeOK'
<1> SUFFICES ASSUME PlacesOK, RestOK, [Next]_vars PROVE PlacesOK' /\ RestOK'
  BY TypeParts
<1> USE DEF disk, bounds
<1>0. \A q \in Procs : \A S : With(res[q], S) \subseteq Checks
  BY DEF With
<1>1. ASSUME NEW p \in Procs, Begin(p) PROVE PlacesOK' /\ RestOK'
  <2>1. PlacesOK'
    BY <1>1, Stays DEF Begin, Labels
  <2>2. RestOK'
    BY <1>1 DEF RestOK, Begin
  <2> QED BY <2>1, <2>2
<1>2. ASSUME NEW p \in Procs, ReadLatest(p) \/ ReadHash(p) \/ TruncateLatest(p)
      PROVE PlacesOK' /\ RestOK'
  <2>1. PlacesOK'
    <3>1. /\ msg' = msg /\ pc[p] \in {"readLatest", "readHash", "truncate"}
          /\ \E label \in {"readHash", "append", "save"} : Goto(p, label)
      BY <1>2 DEF ReadLatest, ReadHash, TruncateLatest
    <3> QED BY <3>1, Stays DEF Labels
  <2>2. CASE ReadLatest(p)
    BY <2>1, <2>2 DEF RestOK, ReadLatest
  <2>3. CASE ReadHash(p)
    BY <2>1, <2>3 DEF RestOK, ReadHash
  <2>4. CASE TruncateLatest(p)
    BY <2>1, <2>4 DEF RestOK, TruncateLatest
  <2> QED BY <1>2, <2>2, <2>3, <2>4
<1>3. ASSUME NEW p \in Procs, AppendEvent(p) PROVE PlacesOK' /\ RestOK'
  <2>1. Event(p) \in [prev : Nat, new : SUBSET Checks, resolved : SUBSET Checks]
    BY <1>0 DEF Event, RestOK
  <2>2. PlacesOK'
    BY <1>3, Stays DEF AppendEvent, Labels
  <2> QED BY <1>3, <2>1, <2>2 DEF RestOK, AppendEvent
<1>4. ASSUME NEW p \in Procs, SaveLatest(p) PROVE PlacesOK' /\ RestOK'
  <2>1. /\ pc[p] = "save" /\ Goto(p, "dispatch") /\ msg' = msg
        /\ latest' = With(res[p], {"fail"})
        /\ todo' = [todo EXCEPT ![p] = With(res[p], {"fail", "warn", "unknown"})]
        /\ UNCHANGED <<alerts, ledger, bounds, res, prev, last, told, alone>>
    BY <1>4 DEF SaveLatest
  <2>2. RestOK'
    BY <1>0, <2>1 DEF RestOK
  <2> QED BY <2>1, <2>2, Stays DEF Labels
<1>5. ASSUME NEW p \in Procs, Dispatch(p) PROVE PlacesOK' /\ RestOK'
  <2>0. pc \in [Procs -> Labels]
    BY DEF PlacesOK
  <2>1. PICK k \in todo[p] :
          /\ todo' = [todo EXCEPT ![p] = @ \ {k}]
          /\ \/ OnFail[k] # "escalate" /\ UNCHANGED <<pc, msg>>
             \/ /\ OnFail[k] = "escalate"
                /\ pc' = [pc EXCEPT ![p] = "scan"]
                /\ msg' = [msg EXCEPT ![p] = Alert(k)]
             \/ /\ OnFail[k] # "escalate" /\ msg' = msg /\ pc' \in [Procs -> Labels]
                /\ \A q \in Procs : \/ pc'[q] = pc[q]
                                    \/ q \in Services /\ pc[q] # "idle" /\ pc'[q] = "exit"
    BY <1>5, <2>0, DispatchEffect
  <2>2. UNCHANGED <<disk, bounds, res, prev, last, told, alone>> /\ pc[p] = "dispatch"
    BY <1>5 DEF Dispatch
  <2>3. k \in Checks /\ RestOK'
    BY <2>1, <2>2 DEF RestOK
  <2>4. PlacesOK'
    <3>1. Alert(k) \in Messages /\ Alert(k) # NoMsg
      BY <2>3, MessageTypes
    <3>2. CASE pc' = [pc EXCEPT ![p] = "scan"] /\ msg' = [msg EXCEPT ![p] = Alert(k)]
      BY <3>1, <3>2, Moves DEF Labels, Goto
    <3>3. CASE UNCHANGED <<pc, msg>>
      BY <3>3 DEF PlacesOK
    <3>4. CASE /\ msg' = msg /\ pc' \in [Procs -> Labels]
               /\ \A q \in Procs : pc'[q] = pc[q] \/ pc'[q] = "exit"
      BY <3>4 DEF PlacesOK
    <3> QED BY <2>1, <3>2, <3>3, <3>4
  <2> QED BY <2>3, <2>4
<1>6. ASSUME NEW p \in Procs, Summarise(p) PROVE PlacesOK' /\ RestOK'
  <2>1. Summary(Unescalated(p)) \in Messages /\ Summary(Unescalated(p)) # NoMsg
    BY MessageTypes DEF Unescalated
  <2>2. /\ UNCHANGED <<disk, bounds, res, prev, last, todo, told, alone>>
        /\ \/ Goto(p, "scan") /\ msg' = [msg EXCEPT ![p] = Summary(Unescalated(p))]
           \/ Goto(p, "exit") /\ msg' = msg
    BY <1>6 DEF Summarise
  <2>3. RestOK'
    BY <2>2 DEF RestOK
  <2> QED BY <2>1, <2>2, <2>3, Moves, Stays DEF Labels
<1>7. ASSUME NEW p \in Procs, Scan(p) \/ Write(p) PROVE PlacesOK' /\ RestOK'
  <2>1. /\ UNCHANGED <<ledger, latest, bounds, res, prev, last, todo, alone>>
        /\ \/ Sent(p)
           \/ pc[p] = "scan" /\ Goto(p, "write") /\ UNCHANGED <<msg, told>>
    BY <1>7 DEF Scan, Write
  <2>2. msg[p] \in Messages /\ msg[p].checks \subseteq Checks
    BY DEF PlacesOK, Messages
  <2>3. alerts' \subseteq [sec : Nat, body : Messages]
    <3>1. [sec |-> now, body |-> msg[p]] \in [sec : Nat, body : Messages]
      BY <2>2 DEF RestOK
    <3> QED BY <1>7, <3>1 DEF Scan, Write, RestOK
  <2>4. told' \in [Procs -> SUBSET Checks]
    <3>1. CASE told' = [told EXCEPT ![p] = @ \cup msg[p].checks]
      <4>1. told[p] \cup msg[p].checks \subseteq Checks
        BY <2>2 DEF RestOK
      <4> QED BY <3>1, <4>1 DEF RestOK
    <3>2. CASE told' = told
      BY <3>2 DEF RestOK
    <3> QED BY <2>1, <3>1, <3>2 DEF Sent
  <2>5. RestOK'
    BY <2>1, <2>3, <2>4 DEF RestOK
  <2>6. PlacesOK'
    <3>1. CASE Sent(p)
      <4>1. msg' = [msg EXCEPT ![p] = NoMsg] /\ (Goto(p, "exit") \/ Goto(p, "dispatch"))
        BY <3>1, Zenon DEF Sent
      <4> QED BY <4>1, MessageTypes, Moves DEF Labels
    <3>2. CASE pc[p] = "scan" /\ Goto(p, "write") /\ UNCHANGED <<msg, told>>
      BY <3>2, Stays DEF Labels
    <3> QED BY <2>1, <3>1, <3>2
  <2> QED BY <2>5, <2>6
<1>8. ASSUME NEW p \in Procs, Exit(p) \/ Kill(p) PROVE PlacesOK' /\ RestOK'
  <2>1. /\ UNCHANGED <<disk, now, runs, alone>> /\ kills' \in Nat /\ Leave(p)
    BY <1>8 DEF Exit, Kill, RestOK
  <2>2. RestOK'
    BY <2>1 DEF Leave, RestOK
  <2>3. PlacesOK'
    BY <2>1, MessageTypes, Moves DEF Leave, Labels
  <2> QED BY <2>2, <2>3
<1>9. ASSUME NEW a \in alerts, Take(a) PROVE PlacesOK' /\ RestOK'
  BY <1>9 DEF PlacesOK, RestOK, Take
<1>10. CASE Tick
  BY <1>10 DEF PlacesOK, RestOK, Tick
<1>11. CASE UNCHANGED vars
  BY <1>11 DEF PlacesOK, RestOK, vars
<1> QED
  BY <1>1, <1>2, <1>3, <1>4, <1>5, <1>6, <1>7, <1>8, <1>9, <1>10, <1>11 DEF Next, Step

\* Every reachable state is of the expected type.
THEOREM HealthcheckTyped == Spec => []TypeOK
<1>1. Init => TypeOK
  BY MessageTypes DEF Init, TypeOK, Labels
<1> QED BY <1>1, TypeStep, PTL DEF Spec

-----------------------------------------------------------------------------
(* Healthchecks that did not overlap.                                       *)

OneAtATime == alone => \A p, q \in Procs : pc[p] # "idle" /\ pc[q] # "idle" => p = q

\* The processes between their look at the inbox and their write.
Writers == {p \in Procs : pc[p] = "write"}

\* Each of them may pass the cap by its one alert.
CapInv ==
    /\ IsFiniteSet(alerts)
    /\ Cardinality(alerts) + Cardinality(Writers) < Cap + Cardinality(Procs)
    /\ alone => /\ Cardinality(alerts) <= Cap
                /\ \A p \in Writers : Cardinality(alerts) < Cap

\* Alone, what a process found is still so when it writes.
DedupInv == alone => NoAlertTwice /\ \A p \in Writers : ~Pending(msg[p])

\* An alert that a process owes is told, or is yet to be dispatched, or is in its hands;
\* and when it sends the summary, it has dispatched everything.
ToldAt(p) ==
    /\ pc[p] \in {"dispatch", "scan", "write"} =>
          \A k \in With(res[p], {"fail", "warn", "unknown"}) : OnFail[k] = "escalate" =>
             k \in told[p] \/ k \in todo[p] \/ k \in msg[p].checks
    /\ pc[p] \in {"scan", "write"} /\ msg[p].kind = "summary" =>
          /\ Unescalated(p) \subseteq msg[p].checks
          /\ \A k \in With(res[p], {"fail", "warn"}) : OnFail[k] = "escalate" => k \in told[p]
    /\ p \notin Services /\ pc[p] = "exit" => With(res[p], {"fail", "warn"}) \subseteq told[p]

ToldInv == \A p \in Procs : ToldAt(p)

\* Alone, a process finds the ledger as it read it; and unless one was killed, what the
\* lines add up to is what the snapshot says, or is about to say.
LedgerInv ==
    alone =>
       /\ ChainIsLinear
       /\ \A p \in Procs : pc[p] = "append" => last[p] = Len(ledger)
       /\ kills = 0 =>
            /\ \A p \in Procs : pc[p] \in {"readHash", "append"} => prev[p] = latest
            /\ \A p \in Procs : pc[p] \in {"truncate", "save"} =>
                                   Replayed = With(res[p], {"fail"})
            /\ (\A p \in Procs : pc[p] \notin {"truncate", "save"}) => Replayed = latest

-----------------------------------------------------------------------------
(* The steps keep these invariants.                                         *)

\* No step makes a healthcheck alone again, and only Begin makes a process active.
LEMMA Activity ==
    ASSUME TypeOK, [Next]_vars
    PROVE  /\ alone' => alone
           /\ \/ \A q \in Procs : pc'[q] # "idle" => pc[q] # "idle"
              \/ alone' => \E p \in Procs : /\ \A q \in Procs : pc[q] = "idle"
                                            /\ \A q \in Procs : pc'[q] # "idle" => q = p
<1> USE DEF disk, bounds
<1>1. ASSUME NEW p \in Procs, Begin(p)
      PROVE  /\ alone' => alone
             /\ alone' => /\ \A q \in Procs : pc[q] = "idle"
                          /\ \A q \in Procs : pc'[q] # "idle" => q = p
  <2>1. alone' => alone /\ \A q \in Procs : pc[q] = "idle"
    BY <1>1 DEF Begin
  <2>2. \A q \in Procs : q # p => pc'[q] = pc[q]
    BY <1>1 DEF Begin, Goto, TypeOK
  <2> QED BY <2>1, <2>2
<1>2. ASSUME NEW p \in Procs, Step(p) \/ Kill(p)
      PROVE  alone' = alone /\ \A q \in Procs : pc'[q] # "idle" => pc[q] # "idle"
  <2>1. pc[p] # "idle"
    BY <1>2 DEF Step, Kill, ReadLatest, ReadHash, AppendEvent, TruncateLatest, SaveLatest,
                Dispatch, Summarise, Scan, Write, Exit
  <2>2. CASE Dispatch(p)
    <3>1. pc \in [Procs -> Labels]
      BY DEF TypeOK
    <3>2. alone' = alone
      BY <2>2 DEF Dispatch
    <3>3. \A q \in Procs : pc'[q] = pc[q] \/ q = p \/ pc[q] # "idle"
      BY <2>2, <3>1, DispatchEffect
    <3> QED BY <2>1, <3>2, <3>3
  <2>3. ASSUME ~Dispatch(p) PROVE alone' = alone /\ \E label \in Labels : Goto(p, label)
    <3>1. CASE Scan(p) \/ Write(p)
      BY <3>1 DEF Scan, Write, Sent, Labels
    <3>2. CASE Summarise(p)
      BY <3>2 DEF Summarise, Labels
    <3>3. CASE Exit(p) \/ Kill(p)
      BY <3>3 DEF Exit, Kill, Leave, Labels
    <3>4. CASE ReadLatest(p) \/ ReadHash(p) \/ AppendEvent(p) \/ TruncateLatest(p) \/ SaveLatest(p)
      BY <3>4 DEF ReadLatest, ReadHash, AppendEvent, TruncateLatest, SaveLatest, Labels
    <3> QED BY <1>2, <2>3, <3>1, <3>2, <3>3, <3>4 DEF Step
  <2>4. ASSUME NEW label \in Labels, Goto(p, label)
        PROVE  \A q \in Procs : pc'[q] # "idle" => pc[q] # "idle"
    BY <2>1, <2>4 DEF Goto, TypeOK
  <2> QED BY <2>2, <2>3, <2>4
<1>3. CASE (\E a \in alerts : Take(a)) \/ Tick \/ UNCHANGED vars
  BY <1>3 DEF Take, Tick, vars
<1> QED BY <1>1, <1>2, <1>3 DEF Next

LEMMA AloneStep == TypeOK /\ OneAtATime /\ [Next]_vars => OneAtATime'
BY Activity DEF OneAtATime

\* The alerts and those about to write one, in every step: nothing is added, or a
\* process looked and found room, or one writes what it looked for.
LEMMA WriterSteps ==
    ASSUME TypeOK, [Next]_vars
    PROVE  \/ /\ alerts' \subseteq alerts
              /\ \A q \in Writers' : q \in Writers /\ msg'[q] = msg[q]
           \/ \E p \in Procs : /\ ~Pending(msg[p]) /\ ~Full /\ UNCHANGED <<alerts, msg, alone>>
                               /\ pc[p] # "idle" /\ p \notin Writers /\ Writers' = Writers \cup {p}
           \/ \E p \in Writers :
                 /\ alerts' = {a \in alerts : a.sec # now} \cup {[sec |-> now, body |-> msg[p]]}
                 /\ Writers' = Writers \ {p}
                 /\ UNCHANGED alone /\ \A q \in Writers' : msg'[q] = msg[q]
<1> USE DEF disk, bounds
<1>0. pc \in [Procs -> Labels] /\ msg \in [Procs -> Messages]
  BY DEF TypeOK
<1>1. ASSUME NEW p \in Procs,
             Begin(p) \/ ReadLatest(p) \/ ReadHash(p) \/ AppendEvent(p) \/ TruncateLatest(p)
                \/ SaveLatest(p)
      PROVE  alerts' = alerts /\ \A q \in Writers' : q \in Writers /\ msg'[q] = msg[q]
  <2>1. UNCHANGED <<alerts, msg>> /\ \E label \in Labels : label # "write" /\ Goto(p, label)
    BY <1>1 DEF Begin, ReadLatest, ReadHash, AppendEvent, TruncateLatest, SaveLatest, Labels
  <2> QED BY <1>0, <2>1 DEF Goto, Writers
<1>2. ASSUME NEW p \in Procs, Exit(p) \/ Kill(p)
      PROVE  alerts' = alerts /\ \A q \in Writers' : q \in Writers /\ msg'[q] = msg[q]
  BY <1>0, <1>2 DEF Exit, Kill, Leave, Goto, Writers
<1>3. ASSUME NEW p \in Procs, Dispatch(p)
      PROVE  alerts' = alerts /\ \A q \in Writers' : q \in Writers /\ msg'[q] = msg[q]
  <2>1. /\ alerts' = alerts /\ pc[p] = "dispatch"
        /\ \A q \in Procs : q # p => msg'[q] = msg[q]
        /\ \A q \in Procs : pc'[q] = "write" => pc[q] = "write"
    BY <1>0, <1>3, DispatchEffect
  <2> QED BY <1>0, <2>1 DEF Writers
<1>4. ASSUME NEW p \in Procs, Summarise(p)
      PROVE  alerts' = alerts /\ \A q \in Writers' : q \in Writers /\ msg'[q] = msg[q]
  <2>1. /\ alerts' = alerts
        /\ msg' = msg \/ msg' = [msg EXCEPT ![p] = Summary(Unescalated(p))]
        /\ Goto(p, "scan") \/ Goto(p, "exit")
    BY <1>4 DEF Summarise
  <2> QED BY <1>0, <2>1 DEF Goto, Writers
<1>5. ASSUME NEW p \in Procs, Sent(p)
      PROVE  Writers' = Writers \ {p} /\ \A q \in Writers' : msg'[q] = msg[q]
  <2>1. /\ msg' = [msg EXCEPT ![p] = NoMsg]
        /\ Goto(p, "exit") \/ Goto(p, "dispatch")
    BY <1>5, Zenon DEF Sent
  <2> QED BY <1>0, <2>1 DEF Goto, Writers
<1>6. ASSUME NEW p \in Procs, Scan(p), Sent(p)
      PROVE  alerts' = alerts /\ \A q \in Writers' : q \in Writers /\ msg'[q] = msg[q]
  BY <1>5, <1>6 DEF Scan
<1>7. ASSUME NEW p \in Procs, Scan(p), ~Sent(p)
      PROVE  /\ ~Pending(msg[p]) /\ ~Full /\ UNCHANGED <<alerts, msg, alone>>
             /\ pc[p] # "idle" /\ p \notin Writers /\ Writers' = Writers \cup {p}
  <2>1. /\ pc[p] = "scan" /\ ~(Pending(msg[p]) \/ Full) /\ Goto(p, "write")
        /\ UNCHANGED <<alerts, msg, alone>>
    BY <1>7 DEF Scan
  <2> QED BY <1>0, <2>1 DEF Goto, Writers
<1>8. ASSUME NEW p \in Procs, Write(p)
      PROVE  /\ p \in Writers
             /\ alerts' = alerts \/ alerts' = {a \in alerts : a.sec # now} \cup {[sec |-> now, body |-> msg[p]]}
             /\ Writers' = Writers \ {p}
             /\ UNCHANGED alone /\ \A q \in Writers' : msg'[q] = msg[q]
  BY <1>5, <1>8 DEF Write, Writers
<1>9. CASE (\E a \in alerts : Take(a)) \/ Tick \/ UNCHANGED vars
  BY <1>9 DEF Take, Tick, vars, Writers
<1>10. ASSUME NEW p \in Procs, Step(p)
       PROVE  \/ Dispatch(p) \/ Summarise(p) \/ Scan(p) \/ Write(p) \/ Exit(p)
              \/ ReadLatest(p) \/ ReadHash(p) \/ AppendEvent(p) \/ TruncateLatest(p)
              \/ SaveLatest(p)
  BY <1>10 DEF Step
<1> QED BY <1>1, <1>2, <1>3, <1>4, <1>6, <1>7, <1>8, <1>9, <1>10 DEF Next

\* The cap counts every alert there is and every alert about to be written.
LEMMA CapStep == TypeOK /\ CapInv /\ OneAtATime /\ [Next]_vars => CapInv'
<1> SUFFICES ASSUME TypeOK, CapInv, OneAtATime, [Next]_vars PROVE CapInv'
  OBVIOUS
<1>1. /\ IsFiniteSet(Writers) /\ Cardinality(Writers) \in Nat /\ Cardinality(alerts) \in Nat
      /\ Cardinality(Procs) \in Nat /\ Cap \in Nat
      /\ Cardinality(Writers) <= Cardinality(Procs)
  BY FS_Subset, FS_CardinalityType DEF CapInv, Writers
<1>2. alone' => alone
  BY Activity
<1>3. CASE alerts' \subseteq alerts /\ \A q \in Writers' : q \in Writers /\ msg'[q] = msg[q]
  <2>1. /\ IsFiniteSet(alerts') /\ Cardinality(alerts') <= Cardinality(alerts)
        /\ Cardinality(alerts') \in Nat
    BY <1>3, FS_Subset, FS_CardinalityType DEF CapInv
  <2>2. Cardinality(Writers') <= Cardinality(Writers) /\ Cardinality(Writers') \in Nat
    BY <1>1, <1>3, FS_Subset, FS_CardinalityType
  <2>3. Cardinality(alerts') + Cardinality(Writers') < Cap + Cardinality(Procs)
    BY <1>1, <2>1, <2>2 DEF CapInv
  <2>4. alone' => /\ Cardinality(alerts') <= Cap
                  /\ \A p \in Writers' : Cardinality(alerts') < Cap
    BY <1>1, <1>2, <1>3, <2>1 DEF CapInv
  <2> QED BY <2>1, <2>3, <2>4 DEF CapInv
<1>4. ASSUME NEW p \in Procs, ~Full, UNCHANGED alerts, p \notin Writers,
             Writers' = Writers \cup {p}
      PROVE  CapInv'
  <2>1. Cardinality(alerts) < Cap
    BY <1>1, <1>4 DEF Full
  <2>2. Cardinality(Writers') <= Cardinality(Procs) /\ Cardinality(Writers') \in Nat
    <3>1. Writers' \subseteq Procs
      BY <1>4 DEF Writers
    <3> QED BY <3>1, FS_Subset, FS_CardinalityType
  <2>3. Cardinality(alerts') + Cardinality(Writers') < Cap + Cardinality(Procs)
    BY <1>1, <1>4, <2>1, <2>2
  <2> QED BY <1>1, <1>4, <2>1, <2>3 DEF CapInv
<1>5. ASSUME NEW p \in Writers, Writers' = Writers \ {p},
             alerts' = {a \in alerts : a.sec # now} \cup {[sec |-> now, body |-> msg[p]]}
      PROVE  CapInv'
  <2> DEFINE kept == {a \in alerts : a.sec # now}
             new == [sec |-> now, body |-> msg[p]]
  <2>1. IsFiniteSet(kept) /\ Cardinality(kept) <= Cardinality(alerts) /\ Cardinality(kept) \in Nat
    BY FS_Subset, FS_CardinalityType DEF CapInv
  <2> HIDE DEF kept, new
  <2>2. /\ IsFiniteSet(alerts') /\ Cardinality(alerts') \in Nat
        /\ Cardinality(alerts') <= Cardinality(alerts) + 1
    <3>1. alerts' = kept \cup {new}
      BY <1>5 DEF kept, new
    <3>2. /\ IsFiniteSet(kept \cup {new})
          /\ Cardinality(kept \cup {new}) = IF new \in kept THEN Cardinality(kept)
                                            ELSE Cardinality(kept) + 1
      BY <2>1, FS_AddElement
    <3> QED BY <1>1, <2>1, <3>1, <3>2
  <2>3. Cardinality(Writers') = Cardinality(Writers) - 1 /\ Cardinality(Writers) >= 1
    <3>1. Cardinality(Writers') = Cardinality(Writers) - 1
      BY <1>1, <1>5, FS_RemoveElement
    <3>2. Cardinality(Writers) # 0
      BY <1>1, <1>5, FS_EmptySet
    <3> QED BY <1>1, <3>1, <3>2
  <2>4. Cardinality(alerts') + Cardinality(Writers') < Cap + Cardinality(Procs)
    BY <1>1, <2>2, <2>3 DEF CapInv
  <2>5. alone' => Cardinality(alerts') <= Cap /\ \A q \in Writers' : Cardinality(alerts') < Cap
    <3>1. ASSUME alone' PROVE Cardinality(alerts') <= Cap
      <4>1. Cardinality(alerts) < Cap
        BY <1>2, <1>5, <3>1 DEF CapInv
      <4> QED BY <1>1, <2>2, <4>1
    <3>2. ASSUME alone', NEW q \in Writers' PROVE FALSE
      <4>1. q \in Procs /\ p \in Procs /\ pc[q] = "write" /\ pc[p] = "write" /\ q # p
        BY <1>5, <3>2 DEF Writers
      <4> QED BY <1>2, <3>2, <4>1 DEF OneAtATime
    <3> QED BY <3>1, <3>2
  <2> QED BY <2>2, <2>4, <2>5 DEF CapInv
<1> QED BY <1>3, <1>4, <1>5, WriterSteps

\* Alone, nobody writes between a process's look and its write.
LEMMA DedupStep == TypeOK /\ DedupInv /\ OneAtATime /\ [Next]_vars => DedupInv'
<1> SUFFICES ASSUME TypeOK, DedupInv, OneAtATime, [Next]_vars, alone'
             PROVE  NoAlertTwice' /\ \A q \in Writers' : ~Pending(msg[q])'
  BY DEF DedupInv
<1>1. alone /\ NoAlertTwice /\ \A p \in Writers : ~Pending(msg[p])
  BY Activity DEF DedupInv
<1>2. CASE alerts' \subseteq alerts /\ \A q \in Writers' : q \in Writers /\ msg'[q] = msg[q]
  BY <1>1, <1>2 DEF NoAlertTwice, Pending
<1>3. ASSUME NEW p \in Procs, ~Pending(msg[p]), UNCHANGED <<alerts, msg>>,
             Writers' = Writers \cup {p}
      PROVE  NoAlertTwice' /\ \A q \in Writers' : ~Pending(msg[q])'
  BY <1>1, <1>3 DEF NoAlertTwice, Pending
<1>4. ASSUME NEW p \in Writers, Writers' = Writers \ {p},
             alerts' = {a \in alerts : a.sec # now} \cup {[sec |-> now, body |-> msg[p]]}
      PROVE  NoAlertTwice' /\ \A q \in Writers' : ~Pending(msg[q])'
  <2>1. \A a \in alerts : a.body # msg[p]
    BY <1>1, <1>4 DEF Pending
  <2>2. NoAlertTwice'
    BY <1>1, <1>4, <2>1 DEF NoAlertTwice
  <2>3. ASSUME NEW q \in Writers' PROVE FALSE
    <3>1. q \in Procs /\ p \in Procs /\ pc[q] = "write" /\ pc[p] = "write" /\ q # p
      BY <1>4, <2>3 DEF Writers
    <3> QED BY <1>1, <3>1 DEF OneAtATime
  <2> QED BY <2>2, <2>3
<1> QED BY <1>2, <1>3, <1>4, WriterSteps

\* However many healthchecks look at the inbox at the same time, each passes the cap by at
\* most its one alert; and if none overlap, the cap holds.
THEOREM Capped == Spec => []AlertsAreCapped
<1>1. Init => OneAtATime /\ CapInv
  <2>1. IsFiniteSet({}) /\ Cardinality({}) = 0 /\ Cardinality(Procs) \in Nat
    BY FS_EmptySet, FS_CardinalityType
  <2> SUFFICES ASSUME Init PROVE OneAtATime /\ CapInv
    OBVIOUS
  <2>2. alerts = {} /\ Writers = {} /\ \A p \in Procs : pc[p] = "idle"
    BY DEF Init, Writers
  <2> QED BY <2>1, <2>2 DEF OneAtATime, CapInv
<1>2. CapInv => AlertsAreCapped
  <2>1. IsFiniteSet(Writers)
    BY FS_Subset DEF Writers
  <2>2. IsFiniteSet(alerts) => Cardinality(alerts) \in Nat
    BY FS_CardinalityType
  <2>3. Cardinality(Writers) \in Nat /\ Cardinality(Procs) \in Nat
    BY <2>1, FS_CardinalityType
  <2> QED BY <2>2, <2>3 DEF CapInv, AlertsAreCapped
<1> QED BY <1>1, <1>2, HealthcheckTyped, AloneStep, CapStep, PTL DEF Spec

\* Healthchecks that do not overlap never leave the same alert twice.
THEOREM AlertedOnce == Spec => []NoAlertTwice
<1>1. Init => OneAtATime /\ DedupInv
  BY DEF Init, OneAtATime, DedupInv, NoAlertTwice, Writers
<1>2. DedupInv => NoAlertTwice
  BY DEF DedupInv, NoAlertTwice
<1> QED BY <1>1, <1>2, HealthcheckTyped, AloneStep, DedupStep, PTL DEF Spec

-----------------------------------------------------------------------------
(* Every failure is told.                                                   *)

\* A process that a step does not concern, or that systemd stops.
LEMMA ToldFrame ==
    ASSUME TypeOK, NEW p \in Procs, ToldAt(p),
           res'[p] = res[p], todo'[p] = todo[p], told'[p] = told[p],
           \/ pc'[p] = pc[p] /\ msg'[p] = msg[p]
           \/ pc'[p] = "exit" /\ p \in Services
    PROVE  ToldAt(p)'
BY DEF ToldAt, With, Unescalated

\* A process that has nothing to tell yet.
LEMMA ToldBefore ==
    ASSUME NEW p \in Procs, pc'[p] \notin {"dispatch", "scan", "write", "exit"}
    PROVE  ToldAt(p)'
BY DEF ToldAt

\* Every step keeps each alert told, to be dispatched or in hand, and the summary complete.
LEMMA ToldStep == TypeOK /\ ToldInv /\ [Next]_vars => ToldInv'
<1> SUFFICES ASSUME TypeOK, ToldInv, [Next]_vars, NEW q \in Procs PROVE ToldAt(q)'
  BY DEF ToldInv
<1> USE DEF disk, bounds
<1>0. ToldAt(q) /\ pc \in [Procs -> Labels]
  BY DEF ToldInv, TypeOK
<1>1. ASSUME NEW p \in Procs,
             Begin(p) \/ ReadLatest(p) \/ ReadHash(p) \/ AppendEvent(p) \/ TruncateLatest(p)
      PROVE  ToldAt(q)'
  <2>1. /\ \E label \in {"readLatest", "readHash", "append", "truncate", "save"} : Goto(p, label)
        /\ UNCHANGED <<todo, told, msg>> /\ (q # p => res'[q] = res[q])
    BY <1>1 DEF Begin, ReadLatest, ReadHash, AppendEvent, TruncateLatest, TypeOK
  <2>2. CASE q = p
    BY <1>0, <2>1, <2>2, ToldBefore DEF Goto
  <2>3. CASE q # p
    BY <1>0, <2>1, <2>3, ToldFrame DEF Goto
  <2> QED BY <2>2, <2>3
<1>2. ASSUME NEW p \in Procs, Exit(p) \/ Kill(p) PROVE ToldAt(q)'
  <2>1. Leave(p)
    BY <1>2 DEF Exit, Kill
  <2>2. CASE q = p
    BY <1>0, <2>1, <2>2, ToldBefore DEF Leave, Goto
  <2>3. CASE q # p
    BY <1>0, <2>1, <2>3, ToldFrame DEF Leave, Goto, TypeOK
  <2> QED BY <2>2, <2>3
<1>3. ASSUME NEW p \in Procs, SaveLatest(p) PROVE ToldAt(q)'
  <2>1. /\ pc' = [pc EXCEPT ![p] = "dispatch"] /\ UNCHANGED <<res, msg, told>>
        /\ todo' = [todo EXCEPT ![p] = With(res[p], {"fail", "warn", "unknown"})]
        /\ todo \in [Procs -> SUBSET Checks]
    BY <1>3 DEF SaveLatest, Goto, TypeOK
  <2>2. CASE q = p
    BY <1>0, <2>1, <2>2 DEF ToldAt
  <2>3. CASE q # p
    BY <1>0, <2>1, <2>3, ToldFrame
  <2> QED BY <2>2, <2>3
<1>4. ASSUME NEW p \in Procs, Dispatch(p) PROVE ToldAt(q)'
  <2>1. UNCHANGED <<res, told>> /\ pc[p] = "dispatch" /\ todo \in [Procs -> SUBSET Checks]
        /\ msg \in [Procs -> Messages]
    BY <1>4 DEF Dispatch, TypeOK
  <2>2. PICK k \in todo[p] :
          /\ todo' = [todo EXCEPT ![p] = @ \ {k}]
          /\ \/ OnFail[k] # "escalate" /\ UNCHANGED <<pc, msg>>
             \/ /\ OnFail[k] = "escalate"
                /\ pc' = [pc EXCEPT ![p] = "scan"]
                /\ msg' = [msg EXCEPT ![p] = Alert(k)]
             \/ /\ OnFail[k] # "escalate" /\ msg' = msg /\ pc' \in [Procs -> Labels]
                /\ \A r \in Procs : \/ pc'[r] = pc[r]
                                    \/ r \in Services /\ pc[r] # "idle" /\ pc'[r] = "exit"
    BY <1>0, <1>4, DispatchEffect
  <2>3. CASE q # p
    BY <1>0, <2>1, <2>2, <2>3, ToldFrame
  <2>4. CASE q = p /\ OnFail[k] = "escalate"
    <3>1. /\ pc'[p] = "scan" /\ todo'[p] = todo[p] \ {k} /\ msg'[p] = Alert(k)
          /\ k \in msg'[p].checks /\ msg'[p].kind = "check"
      BY <1>0, <2>1, <2>2, <2>4 DEF Alert
    <3>2. msg[p].checks = {}
      <4>1. msg[p] = NoMsg
        BY <2>1 DEF TypeOK
      <4> QED BY <4>1 DEF NoMsg
    <3> QED BY <1>0, <2>1, <2>4, <3>1, <3>2 DEF ToldAt
  <2>5. CASE q = p /\ OnFail[k] # "escalate"
    <3>1. /\ pc'[p] = "dispatch" \/ (pc'[p] = "exit" /\ p \in Services)
          /\ todo'[p] = todo[p] \ {k} /\ msg'[p] = msg[p]
      BY <2>1, <2>2, <2>5
    <3> QED BY <1>0, <2>1, <2>5, <3>1 DEF ToldAt
  <2> QED BY <2>3, <2>4, <2>5
<1>5. ASSUME NEW p \in Procs, Summarise(p) PROVE ToldAt(q)'
  <2>1. /\ pc[p] = "dispatch" /\ todo[p] = {} /\ UNCHANGED <<res, todo, told>>
        /\ \/ /\ pc' = [pc EXCEPT ![p] = "scan"]
              /\ msg' = [msg EXCEPT ![p] = Summary(Unescalated(p))]
           \/ /\ With(res[p], {"fail", "warn"}) = {} \/ Unescalated(p) = {}
              /\ pc' = [pc EXCEPT ![p] = "exit"] /\ msg' = msg
    BY <1>5 DEF Summarise, Goto
  <2>2. msg \in [Procs -> Messages] /\ msg[p].checks = {}
    <3>1. msg \in [Procs -> Messages] /\ msg[p] = NoMsg
      BY <2>1 DEF TypeOK
    <3> QED BY <3>1 DEF NoMsg
  <2>3. \A k \in With(res[p], {"fail", "warn", "unknown"}) :
           OnFail[k] = "escalate" => k \in told[p]
    BY <2>1, <2>2 DEF ToldInv, ToldAt
  <2>4. With(res[p], {"fail", "warn"}) \subseteq With(res[p], {"fail", "warn", "unknown"})
    BY DEF With
  <2>5. CASE q # p
    BY <1>0, <2>1, <2>2, <2>5, ToldFrame
  <2>6. CASE /\ q = p /\ pc' = [pc EXCEPT ![p] = "scan"]
             /\ msg' = [msg EXCEPT ![p] = Summary(Unescalated(p))]
    <3>1. pc'[p] = "scan" /\ msg'[p].checks = Unescalated(p)
      BY <1>0, <2>2, <2>6 DEF Summary
    <3>2. Unescalated(p)' = Unescalated(p)
      BY <2>1 DEF Unescalated
    <3> QED BY <2>1, <2>3, <2>4, <2>6, <3>1, <3>2 DEF ToldAt
  <2>7. CASE /\ q = p /\ pc' = [pc EXCEPT ![p] = "exit"] /\ msg' = msg
             /\ With(res[p], {"fail", "warn"}) = {} \/ Unescalated(p) = {}
    <3>1. pc'[p] = "exit"
      BY <1>0, <2>7
    <3>2. \A k \in With(res[p], {"fail", "warn"}) : OnFail[k] # "escalate" => k \in Unescalated(p)
      BY DEF With, Unescalated
    <3>3. With(res[p], {"fail", "warn"}) \subseteq told[p]
      BY <2>3, <2>4, <2>7, <3>2
    <3> QED BY <2>1, <2>7, <3>1, <3>3 DEF ToldAt
  <2> QED BY <2>1, <2>5, <2>6, <2>7
<1>6. ASSUME NEW p \in Procs, Scan(p) \/ Write(p) PROVE ToldAt(q)'
  <2>1. /\ pc[p] \in {"scan", "write"} /\ UNCHANGED <<res, todo>>
        /\ Sent(p) \/ (Goto(p, "write") /\ UNCHANGED <<msg, told>>)
        /\ msg \in [Procs -> Messages] /\ told \in [Procs -> SUBSET Checks]
    BY <1>6 DEF Scan, Write, TypeOK
  <2>2. CASE Goto(p, "write") /\ UNCHANGED <<msg, told>>
    <3>1. CASE q = p
      BY <1>0, <2>1, <2>2, <3>1 DEF ToldAt, Goto, With, Unescalated
    <3>2. CASE q # p
      BY <1>0, <2>1, <2>2, <3>2, ToldFrame DEF Goto
    <3> QED BY <3>1, <3>2
  <2>3. CASE Sent(p)
    <3>1. /\ told'[p] = told[p] \cup msg[p].checks
          /\ \A r \in Procs : r # p => told'[r] = told[r] /\ msg'[r] = msg[r]
      BY <2>1, <2>3 DEF Sent
    <3>2. /\ pc'[p] = IF msg[p].kind = "summary" THEN "exit" ELSE "dispatch"
          /\ \A r \in Procs : r # p => pc'[r] = pc[r]
      BY <1>0, <2>3 DEF Sent, Goto
    <3>3. CASE q # p
      BY <1>0, <2>1, <3>1, <3>2, <3>3, ToldFrame
    <3>4. CASE q = p /\ msg[p].kind = "summary"
      <4>1. pc'[p] = "exit"
        BY <3>2, <3>4
      <4>2. \A k \in With(res[p], {"fail", "warn"}) :
               OnFail[k] # "escalate" => k \in Unescalated(p)
        BY DEF With, Unescalated
      <4>3. With(res[p], {"fail", "warn"}) \subseteq told'[p]
        BY <1>0, <2>1, <3>1, <3>4, <4>2 DEF ToldAt
      <4> QED BY <2>1, <3>4, <4>1, <4>3 DEF ToldAt
    <3>5. CASE q = p /\ msg[p].kind # "summary"
      <4>1. pc'[p] = "dispatch"
        BY <3>2, <3>5
      <4>2. \A k \in With(res[p], {"fail", "warn", "unknown"}) : OnFail[k] = "escalate" =>
               k \in told'[p] \/ k \in todo[p]
        BY <1>0, <2>1, <3>1, <3>5 DEF ToldAt
      <4> QED BY <2>1, <3>5, <4>1, <4>2 DEF ToldAt
    <3> QED BY <3>3, <3>4, <3>5
  <2> QED BY <2>1, <2>2, <2>3
<1>7. CASE (\E a \in alerts : Take(a)) \/ Tick \/ UNCHANGED vars
  <2>1. UNCHANGED <<pc, res, todo, told, msg>>
    BY <1>7 DEF Take, Tick, vars
  <2> QED BY <1>0, <2>1, ToldFrame
<1>8. ASSUME NEW p \in Procs, Step(p)
      PROVE  \/ Dispatch(p) \/ Summarise(p) \/ Scan(p) \/ Write(p) \/ Exit(p)
             \/ ReadLatest(p) \/ ReadHash(p) \/ AppendEvent(p) \/ TruncateLatest(p)
             \/ SaveLatest(p)
  BY <1>8 DEF Step
<1> QED BY <1>1, <1>2, <1>3, <1>4, <1>5, <1>6, <1>7, <1>8 DEF Next

\* A healthcheck by hand that comes to its end has told the sysadmin of every failure,
\* whatever other healthchecks, kills and stopped services were in between.
THEOREM FailuresTold == Spec => []FailuresAreTold
<1>1. Init => ToldInv
  BY DEF Init, ToldInv, ToldAt
<1>2. ToldInv => FailuresAreTold
  BY DEF ToldInv, ToldAt, FailuresAreTold
<1> QED BY <1>1, <1>2, HealthcheckTyped, ToldStep, PTL DEF Spec

-----------------------------------------------------------------------------
(* The ledger explains the snapshot.                                        *)

Lines == [prev : Nat, new : SUBSET Checks, resolved : SUBSET Checks]

\* What the ledger adds up to with one more line.
LEMMA OneMoreLine ==
    ASSUME ledger \in Seq(Lines), NEW e \in Lines, ledger' = Append(ledger, e)
    PROVE  Replayed' = (Replayed \cup e.new) \ e.resolved
<1> DEFINE n == Len(ledger)
<1>1. /\ n \in Nat /\ Len(ledger') = n + 1 /\ ledger'[n + 1] = e
      /\ \A i \in 1..n : ledger'[i] = ledger[i]
  OBVIOUS
<1> HIDE DEF n
<1>2. ASSUME NEW k \in Checks PROVE k \in Replayed' <=> k \in (Replayed \cup e.new) \ e.resolved
  <2>1. ASSUME k \in Replayed' PROVE k \in (Replayed \cup e.new) \ e.resolved
    <3>1. PICK i \in 1..(n + 1) :
            k \in ledger'[i].new /\ \A j \in i..(n + 1) : k \notin ledger'[j].resolved
      BY <1>1, <2>1 DEF Replayed
    <3>2. k \notin e.resolved
      BY <1>1, <3>1
    <3>3. CASE i = n + 1
      BY <1>1, <3>1, <3>2, <3>3
    <3>4. CASE i \in 1..n
      <4>1. k \in ledger[i].new /\ \A j \in i..n : k \notin ledger[j].resolved
        BY <1>1, <3>1, <3>4
      <4> QED BY <3>2, <3>4, <4>1 DEF Replayed, n
    <3> QED BY <1>1, <3>1, <3>3, <3>4
  <2>2. ASSUME k \in (Replayed \cup e.new) \ e.resolved PROVE k \in Replayed'
    <3>1. CASE k \in e.new
      <4>1. k \in ledger'[n + 1].new /\ \A j \in (n + 1)..(n + 1) : k \notin ledger'[j].resolved
        BY <1>1, <2>2, <3>1
      <4>2. n + 1 \in 1..Len(ledger')
        BY <1>1
      <4> QED BY <1>1, <4>1, <4>2 DEF Replayed
    <3>2. CASE k \in Replayed
      <4>1. PICK i \in 1..n : k \in ledger[i].new /\ \A j \in i..n : k \notin ledger[j].resolved
        BY <3>2 DEF Replayed, n
      <4>2. k \in ledger'[i].new /\ \A j \in i..(n + 1) : k \notin ledger'[j].resolved
        BY <1>1, <2>2, <4>1
      <4>3. i \in 1..Len(ledger')
        BY <1>1
      <4> QED BY <1>1, <4>2, <4>3 DEF Replayed
    <3> QED BY <2>2, <3>1, <3>2
  <2> QED BY <2>1, <2>2
<1>3. Replayed \subseteq Checks /\ Replayed' \subseteq Checks /\ e.new \subseteq Checks
  BY DEF Replayed, Lines
<1> QED BY <1>2, <1>3

\* A step of a process that leaves ledger and snapshot alone, and takes nobody to a place
\* that promises something.
LEMMA LedgerFrame ==
    ASSUME LedgerInv, alone' => alone, UNCHANGED <<ledger, latest>>,
           kills' = 0 => kills = 0,
           \A q \in Procs :
              /\ pc'[q] \in {"readHash", "append"} =>
                    pc'[q] = pc[q] /\ prev'[q] = prev[q] /\ last'[q] = last[q]
              /\ pc'[q] \in {"truncate", "save"} => pc'[q] = pc[q] /\ res'[q] = res[q]
              /\ alone' /\ kills' = 0 /\ pc[q] \in {"truncate", "save"} => pc'[q] = pc[q]
    PROVE  LedgerInv'
<1> SUFFICES ASSUME alone' PROVE
       /\ ChainIsLinear'
       /\ \A p \in Procs : pc'[p] = "append" => last'[p] = Len(ledger)
       /\ kills' = 0 =>
            /\ \A p \in Procs : pc'[p] \in {"readHash", "append"} => prev'[p] = latest
            /\ \A p \in Procs : pc'[p] \in {"truncate", "save"} =>
                                   Replayed' = With(res[p], {"fail"})'
            /\ (\A p \in Procs : pc'[p] \notin {"truncate", "save"}) => Replayed' = latest
  BY DEF LedgerInv
<1>1. Replayed' = Replayed /\ ChainIsLinear' = ChainIsLinear
  BY DEF Replayed, ChainIsLinear
<1>2. \A p \in Procs : res'[p] = res[p] => With(res[p], {"fail"})' = With(res[p], {"fail"})
  BY DEF With
<1> QED BY <1>1, <1>2 DEF LedgerInv

\* Every step of healthchecks that do not overlap keeps the ledger one chain that adds up.
LEMMA LedgerStep == TypeOK /\ OneAtATime /\ LedgerInv /\ [Next]_vars => LedgerInv'
<1> SUFFICES ASSUME TypeOK, OneAtATime, LedgerInv, [Next]_vars PROVE LedgerInv'
  OBVIOUS
<1> USE DEF disk, bounds
<1>0. /\ alone' => alone
      /\ pc \in [Procs -> Labels] /\ kills \in Nat
      /\ res \in [Procs -> Results \cup {[k \in Checks |-> "pass"]}]
      /\ prev \in [Procs -> SUBSET Checks] /\ last \in [Procs -> Nat]
  BY Activity DEF TypeOK
<1>1. ASSUME NEW p \in Procs, Begin(p) PROVE LedgerInv'
  <2>1. /\ UNCHANGED <<ledger, latest, kills, prev, last>> /\ pc' = [pc EXCEPT ![p] = "readLatest"]
        /\ pc[p] = "idle" /\ \A q \in Procs : q # p => res'[q] = res[q]
    BY <1>0, <1>1 DEF Begin, Goto
  <2> QED BY <1>0, <2>1, LedgerFrame
<1>2. ASSUME NEW p \in Procs, Exit(p) \/ Kill(p) PROVE LedgerInv'
  <2>1. /\ UNCHANGED <<ledger, latest>> /\ pc' = [pc EXCEPT ![p] = "idle"]
        /\ \A q \in Procs : q # p => res'[q] = res[q] /\ prev'[q] = prev[q] /\ last'[q] = last[q]
        /\ \/ pc[p] = "exit" /\ kills' = kills
           \/ kills' = kills + 1
    BY <1>0, <1>2 DEF Exit, Kill, Leave, Goto
  <2>2. pc'[p] = "idle" /\ \A q \in Procs : q # p => pc'[q] = pc[q]
    BY <1>0, <2>1
  <2>3. \A q \in Procs : kills' = 0 /\ pc[q] \in {"truncate", "save"} => pc'[q] = pc[q]
    BY <1>0, <2>1, <2>2
  <2>4. kills' = 0 => kills = 0
    BY <1>0, <2>1
  <2> QED BY <1>0, <2>1, <2>2, <2>3, <2>4, LedgerFrame
<1>3. ASSUME NEW p \in Procs, Dispatch(p) PROVE LedgerInv'
  <2>1. /\ UNCHANGED <<ledger, latest, kills, res, prev, last, alone>> /\ pc[p] = "dispatch"
    BY <1>3 DEF Dispatch
  <2>2. /\ \A q \in Procs : pc'[q] = pc[q] \/ pc'[q] \in {"scan", "exit"}
        /\ \A q \in Procs : pc'[q] = pc[q] \/ q = p \/ pc[q] # "idle"
    BY <1>0, <1>3, DispatchEffect
  <2>3. alone => \A q \in Procs : q # p => pc'[q] = pc[q] \/ pc[q] = "idle"
    BY <2>1 DEF OneAtATime
  <2>4. alone => \A q \in Procs : pc[q] \in {"truncate", "save"} => pc'[q] = pc[q]
    BY <2>1, <2>3
  <2> QED BY <1>0, <2>1, <2>2, <2>4, LedgerFrame
<1>4. ASSUME NEW p \in Procs, Summarise(p) \/ Scan(p) \/ Write(p) PROVE LedgerInv'
  <2>1. /\ UNCHANGED <<ledger, latest, kills, res, prev, last, alone>>
        /\ pc[p] \in {"dispatch", "scan", "write"}
    BY <1>4 DEF Summarise, Scan, Write
  <2>2. \E label \in {"dispatch", "scan", "write", "exit"} : Goto(p, label)
    BY <1>4 DEF Summarise, Scan, Write, Sent
  <2> QED BY <1>0, <2>1, <2>2, LedgerFrame DEF Goto
<1>5. CASE (\E a \in alerts : Take(a)) \/ Tick \/ UNCHANGED vars
  <2>1. UNCHANGED <<ledger, latest, kills, res, prev, last, pc>>
    BY <1>5 DEF Take, Tick, vars
  <2> QED BY <1>0, <2>1, LedgerFrame
<1>6. ASSUME NEW p \in Procs, alone', pc[p] # "idle"
      PROVE  alone /\ \A q \in Procs : q # p => pc[q] = "idle"
  BY <1>0, <1>6 DEF OneAtATime
<1>7. ASSUME NEW p \in Procs, ReadLatest(p) PROVE LedgerInv'
  <2>1. /\ pc[p] = "readLatest" /\ pc' = [pc EXCEPT ![p] = "readHash"]
        /\ prev' = [prev EXCEPT ![p] = latest]
        /\ UNCHANGED <<ledger, latest, kills, res, last, alone>>
    BY <1>7 DEF ReadLatest, Goto
  <2>2. Replayed' = Replayed /\ ChainIsLinear' = ChainIsLinear
    BY <2>1 DEF Replayed, ChainIsLinear
  <2> QED BY <1>0, <1>6, <2>1, <2>2 DEF LedgerInv
<1>8. ASSUME NEW p \in Procs, ReadHash(p) PROVE LedgerInv'
  <2>1. /\ pc[p] = "readHash" /\ pc' = [pc EXCEPT ![p] = "append"]
        /\ last' = [last EXCEPT ![p] = Len(ledger)]
        /\ UNCHANGED <<ledger, latest, kills, res, prev, alone>>
    BY <1>8 DEF ReadHash, Goto
  <2>2. Replayed' = Replayed /\ ChainIsLinear' = ChainIsLinear
    BY <2>1 DEF Replayed, ChainIsLinear
  <2> QED BY <1>0, <1>6, <2>1, <2>2 DEF LedgerInv
<1>9. ASSUME NEW p \in Procs, AppendEvent(p) PROVE LedgerInv'
  <2> DEFINE failed == With(res[p], {"fail"})
             e == Event(p)
  <2>1. /\ pc[p] = "append" /\ pc' = [pc EXCEPT ![p] = "truncate"]
        /\ ledger' = Append(ledger, e)
        /\ UNCHANGED <<latest, kills, res, prev, last, alone>>
    BY <1>9 DEF AppendEvent, Goto
  <2>2. /\ e = [prev |-> last[p], new |-> failed \ prev[p], resolved |-> prev[p] \ failed]
        /\ failed \subseteq Checks
    BY DEF Event, With
  <2>3. e \in Lines /\ ledger \in Seq(Lines)
    BY <1>0, <2>2 DEF Lines, TypeOK
  <2>4. /\ e.prev = last[p] /\ e.new = failed \ prev[p] /\ e.resolved = prev[p] \ failed
    BY <2>2
  <2> HIDE DEF e
  <2>5. Replayed' = (Replayed \cup e.new) \ e.resolved
    BY <2>1, <2>3, OneMoreLine
  <2>6. With(res[p], {"fail"})' = failed
    BY <2>1 DEF With
  <2> HIDE DEF failed
  <2> SUFFICES ASSUME alone' PROVE LedgerInv'
    BY DEF LedgerInv
  <2>7. alone /\ \A q \in Procs : q # p => pc[q] = "idle" /\ pc'[q] = "idle"
    BY <1>0, <1>6, <2>1
  <2>8. ChainIsLinear'
    <3>1. /\ Len(ledger) \in Nat /\ Len(ledger') = Len(ledger) + 1
          /\ ledger'[Len(ledger) + 1] = e /\ \A i \in 1..Len(ledger) : ledger'[i] = ledger[i]
      BY <2>1, <2>3
    <3>2. ChainIsLinear /\ last[p] = Len(ledger)
      BY <2>1, <2>7 DEF LedgerInv
    <3> QED BY <2>4, <3>1, <3>2 DEF ChainIsLinear
  <2>9. pc'[p] = "truncate"
    BY <1>0, <2>1
  <2>10. kills = 0 => Replayed' = failed
    <3>1. kills = 0 => prev[p] = latest /\ Replayed = latest
      BY <2>1, <2>7 DEF LedgerInv
    <3> QED BY <2>4, <2>5, <3>1
  <2> QED BY <2>1, <2>6, <2>7, <2>8, <2>9, <2>10 DEF LedgerInv
<1>10. ASSUME NEW p \in Procs, TruncateLatest(p) PROVE LedgerInv'
  <2>1. /\ pc[p] = "truncate" /\ pc' = [pc EXCEPT ![p] = "save"]
        /\ UNCHANGED <<ledger, kills, res, prev, last, alone>>
    BY <1>10 DEF TruncateLatest, Goto
  <2>2. /\ Replayed' = Replayed /\ ChainIsLinear' = ChainIsLinear
        /\ With(res[p], {"fail"})' = With(res[p], {"fail"})
    BY <2>1 DEF Replayed, ChainIsLinear, With
  <2>3. pc'[p] = "save" /\ \A q \in Procs : q # p => pc'[q] = pc[q]
    BY <1>0, <2>1
  <2> QED BY <1>6, <2>1, <2>2, <2>3 DEF LedgerInv
<1>11. ASSUME NEW p \in Procs, SaveLatest(p) PROVE LedgerInv'
  <2>1. /\ pc[p] = "save" /\ pc' = [pc EXCEPT ![p] = "dispatch"]
        /\ latest' = With(res[p], {"fail"})
        /\ UNCHANGED <<ledger, kills, res, prev, last, alone>>
    BY <1>11 DEF SaveLatest, Goto
  <2>2. Replayed' = Replayed /\ ChainIsLinear' = ChainIsLinear
    BY <2>1 DEF Replayed, ChainIsLinear
  <2>3. pc'[p] = "dispatch" /\ \A q \in Procs : q # p => pc'[q] = pc[q]
    BY <1>0, <2>1
  <2>4. alone' => alone /\ \A q \in Procs : q # p => pc[q] = "idle"
    BY <1>6, <2>1
  <2> QED BY <2>1, <2>2, <2>3, <2>4 DEF LedgerInv
<1>12. ASSUME NEW p \in Procs, Step(p)
       PROVE  \/ Dispatch(p) \/ Summarise(p) \/ Scan(p) \/ Write(p) \/ Exit(p)
              \/ ReadLatest(p) \/ ReadHash(p) \/ AppendEvent(p) \/ TruncateLatest(p)
              \/ SaveLatest(p)
  BY <1>12 DEF Step
<1> QED
  BY <1>1, <1>2, <1>3, <1>4, <1>5, <1>7, <1>8, <1>9, <1>10, <1>11, <1>12 DEF Next

\* Unless healthchecks overlapped, the ledger is one chain, whatever was killed; and without
\* a kill its lines add up to the failures of the latest snapshot.
THEOREM LedgerExplains == Spec => []LedgerExplainsLatest
<1>1. Init => OneAtATime /\ LedgerInv
  BY DEF Init, OneAtATime, LedgerInv, ChainIsLinear, Replayed
<1>2. LedgerInv => LedgerExplainsLatest
  BY DEF LedgerInv, LedgerExplainsLatest
<1> QED BY <1>1, <1>2, HealthcheckTyped, AloneStep, LedgerStep, PTL DEF Spec
=============================================================================
