--------------------------- MODULE AgentRunProofs ---------------------------
(* Theorems of AgentRun, for every number of agents, processes and tasks.   *)
EXTENDS AgentRun, TLAPS

USE ConstantsAssumption

-----------------------------------------------------------------------------
(* Types.                                                                   *)

\* The directory operators keep directories sets of files.
LEMMA DirTypes ==
    ASSUME NEW dir \in SUBSET Files, NEW f \in Files
    PROVE  /\ Put(dir, f) \in SUBSET Files
           /\ Same(dir, f) \in SUBSET dir
           /\ First(dir) \in SUBSET dir
BY DEF Put, Same, First

\* What a run holds before it has picked a task has the type of a file.
LEMMA NoTaskType == NoTask \in Files
BY DEF NoTask, Files, Names

\* Moving a task keeps inbox, processed and wake of their types.
LEMMA MoveType ==
    ASSUME TypeOK, NEW r \in Runs, MoveToProcessed(r)
    PROVE  /\ inbox' \in [Agents -> SUBSET Files]
           /\ processed' \in [Agents -> SUBSET Files]
           /\ wake' \in [Agents -> BOOLEAN]
<1> DEFINE a == AgentOf[r]
           mine == Same(inbox[a], task[r])
<1>1. a \in Agents /\ task[r] \in Files /\ inbox[a] \in SUBSET Files
      /\ processed[a] \in SUBSET Files
  BY DEF TypeOK
<1>2. mine \in SUBSET Files /\ Same(processed[a], task[r]) \in SUBSET Files
  BY <1>1, DirTypes
<1>3. inbox' \in [Agents -> SUBSET Files] /\ processed' \in [Agents -> SUBSET Files]
  BY <1>1, <1>2 DEF MoveToProcessed, TypeOK
<1>4. wake' \in [Agents -> BOOLEAN]
  BY DEF MoveToProcessed, Notice, TypeOK
<1> QED BY <1>3, <1>4

\* Every reachable state is of the expected type.
THEOREM Typed == Spec => []TypeOK
<1>1. Init => TypeOK
  BY NoTaskType DEF Init, TypeOK
<1>2. TypeOK /\ [Next]_vars => TypeOK'
  <2> SUFFICES ASSUME TypeOK, [Next]_vars PROVE TypeOK'
    OBVIOUS
  <2> USE DEF files, locals, history
  <2>1. ASSUME NEW r \in Runs, Start(r) PROVE TypeOK'
    <3>1. wake' \in [Agents -> BOOLEAN]
      BY <2>1 DEF TypeOK, Start, StartOnChange, StartService, StartOnTimer, StartByHand
    <3>2. Begin(r)
      BY <2>1 DEF Start, StartOnChange, StartService, StartOnTimer, StartByHand
    <3> QED BY <3>1, <3>2 DEF TypeOK, Begin
  <2>2. ASSUME NEW r \in Runs, Pick(r) PROVE TypeOK'
    <3>1. \A f \in First(inbox[AgentOf[r]]) : f \in Files
      BY DEF TypeOK, First
    <3> QED BY <2>2, <3>1 DEF TypeOK, Pick, Leave, Goto
  <2>3. ASSUME NEW r \in Runs, Invoke(r) PROVE TypeOK'
    <3>1. /\ inbox' \in [Agents -> SUBSET Files] /\ processed' \in [Agents -> SUBSET Files]
          /\ wake' \in [Agents -> BOOLEAN]
      BY <2>3, MoveType DEF Invoke, TypeOK
    <3>2. selfFiled' \subseteq Agents \X Names
      BY <2>3 DEF Invoke, TypeOK, Files
    <3> QED BY <2>3, <3>1, <3>2 DEF TypeOK, Invoke, Goto
  <2>4. ASSUME NEW r \in Runs, Account(r) PROVE TypeOK'
    BY <2>4 DEF TypeOK, Account, Goto, Files
  <2>5. ASSUME NEW r \in Runs, Charge(r) PROVE TypeOK'
    <3>1. /\ pc' \in [Runs -> {"idle", "pick", "invoke", "account", "charge", "check",
                              "respond", "retire", "forward", "exit"}]
          /\ status' \in [Runs -> {"fresh", "running", "ok", "failed"}]
          /\ spent' \in Nat
      BY <2>5 DEF Charge, TypeOK, Goto, Leave
    <3>2. /\ task' \in [Runs -> Files] /\ to' \in [Runs -> Agents \cup {NoAgent}]
          /\ stamp' \in [Runs -> Nat] /\ charge' \in [Runs -> Nat]
      BY <2>5, NoTaskType DEF Charge, TypeOK, Forget
    <3> QED BY <2>5, <3>1, <3>2 DEF Charge, TypeOK
  <2>6. ASSUME NEW r \in Runs, CheckBudget(r) PROVE TypeOK'
    <3> DEFINE notice == [name |-> [kind |-> "unix", sec |-> now, tag |-> 0], msg |-> 0]
    <3>1. notice \in Files
      BY DEF TypeOK, Files, Names
    <3>2. inbox' \in [Agents -> SUBSET Files]
      BY <2>6, <3>1 DEF CheckBudget, TypeOK, Put
    <3>3. wake' \in [Agents -> BOOLEAN]
      BY <2>6 DEF CheckBudget, TypeOK, Notice
    <3>4. /\ pc' \in [Runs -> {"idle", "pick", "invoke", "account", "charge", "check",
                              "respond", "retire", "forward", "exit"}]
          /\ status' \in [Runs -> {"fresh", "running", "ok", "failed"}]
      BY <2>6 DEF CheckBudget, TypeOK, Goto, Leave
    <3>5. /\ task' \in [Runs -> Files] /\ to' \in [Runs -> Agents \cup {NoAgent}]
          /\ stamp' \in [Runs -> Nat] /\ charge' \in [Runs -> Nat]
      BY <2>6, NoTaskType DEF CheckBudget, TypeOK, Forget
    <3> QED BY <2>6, <3>2, <3>3, <3>4, <3>5 DEF CheckBudget, TypeOK
  <2>7. ASSUME NEW r \in Runs, Respond(r) PROVE TypeOK'
    <3>1. [base |-> task[r].name, sec |-> now, msg |-> task[r].msg, charge |-> charge[r]]
            \in Answers
      BY DEF TypeOK, Answers, Files
    <3>2. outbox' \in [Agents -> SUBSET Answers]
      BY <2>7, <3>1 DEF Respond, TypeOK
    <3> QED BY <2>7, <3>2 DEF TypeOK, Respond, Goto
  <2>8. ASSUME NEW r \in Runs, Retire(r) PROVE TypeOK'
    <3>1. /\ inbox' \in [Agents -> SUBSET Files] /\ processed' \in [Agents -> SUBSET Files]
          /\ wake' \in [Agents -> BOOLEAN]
      BY <2>8, MoveType DEF Retire
    <3>2. due' \subseteq [from : Agents, to : Agents, sec : Nat, msg : Nat]
      BY <2>8 DEF Retire, TypeOK, Files
    <3> QED BY <2>8, <3>1, <3>2 DEF TypeOK, Retire, Goto
  <2>9. ASSUME NEW r \in Runs, Forward(r) PROVE TypeOK'
    <3>1. Forwarded(r) \in Files
      BY DEF TypeOK, Forwarded, Files, Names
    <3>2. inbox' \in [Agents -> SUBSET Files]
      BY <2>9, <3>1 DEF Forward, TypeOK, Put
    <3>3. wake' \in [Agents -> BOOLEAN]
      BY <2>9 DEF Forward, TypeOK, Notice
    <3> QED BY <2>9, <3>2, <3>3, NoTaskType DEF Forward, TypeOK, Goto, Leave, Forget
  <2>10. ASSUME NEW r \in Runs, Exit(r) \/ Abort(r) \/ Crash(r) PROVE TypeOK'
    BY <2>10, NoTaskType DEF TypeOK, Exit, Abort, Crash, Goto, Leave, Forget
  <2>11. ASSUME NEW a \in Agents, Drop(a) PROVE TypeOK'
    <3>1. [name |-> [kind |-> "micro", sec |-> now, tag |-> drops + 1], msg |-> drops + 1]
            \in Files
      BY DEF TypeOK, Files, Names
    <3>2. inbox' \in [Agents -> SUBSET Files]
      BY <2>11, <3>1 DEF Drop, TypeOK, Put
    <3>3. wake' \in [Agents -> BOOLEAN]
      BY <2>11 DEF Drop, TypeOK, Notice
    <3> QED BY <2>11, <3>2, <3>3 DEF Drop, TypeOK
  <2>12. CASE Tick
    BY <2>12 DEF Tick, TypeOK
  <2>13. CASE UNCHANGED vars
    BY <2>13 DEF vars, TypeOK
  <2> QED
    BY <2>1, <2>2, <2>3, <2>4, <2>5, <2>6, <2>7, <2>8, <2>9, <2>10, <2>11, <2>12, <2>13
    DEF Next, Step
<1> QED BY <1>1, <1>2, PTL DEF Spec

-----------------------------------------------------------------------------
(* Answers come before filing.                                              *)

\* Between the ledger line and the answer, a run's task is in the ledger, if the
\* run may write it.
LedgeredInFlight ==
    \A r \in Runs : pc[r] \in {"charge", "check", "respond"} =>
                    Confined(r) \/ <<AgentOf[r], task[r].name>> \in ledger

Answered(a, n) == \E x \in outbox[a] : x.base = n

\* A run about to file its task has answered it.
AnsweredInFlight ==
    \A r \in Runs : pc[r] = "retire" => Answered(AgentOf[r], task[r].name)

AnswerInv == LedgeredInFlight /\ AnsweredInFlight /\ AnsweredBeforeFiled

\* What a move adds to processed is a file of the run's own inbox and task name.
LEMMA MoveEffect ==
    ASSUME TypeOK, NEW r \in Runs, MoveToProcessed(r), NEW a \in Agents,
           NEW f \in processed'[a]
    PROVE  \/ f \in processed[a]
           \/ a = AgentOf[r] /\ f \in inbox[a] /\ f.name = task[r].name
BY DEF TypeOK, MoveToProcessed, Same

\* Steps that leave outbox, ledger, processed and selfFiled alone, and take no
\* run to a label that promises something, keep the invariant.
LEMMA AnswerFrame ==
    ASSUME TypeOK, AnswerInv,
           UNCHANGED <<outbox, ledger, processed, selfFiled>>,
           \A s \in Runs : pc'[s] \in {"charge", "check", "respond", "retire"} =>
              /\ task'[s] = task[s]
              /\ pc'[s] = "retire" => pc[s] = "retire"
              /\ pc[s] \in {"charge", "check", "respond", "retire"}
              /\ pc'[s] \in {"charge", "check", "respond"} =>
                   pc[s] \in {"charge", "check", "respond"}
    PROVE  AnswerInv'
<1>1. LedgeredInFlight'
  BY DEF AnswerInv, LedgeredInFlight
<1>2. AnsweredInFlight'
  BY DEF AnswerInv, AnsweredInFlight, Answered
<1>3. AnsweredBeforeFiled'
  BY DEF AnswerInv, AnsweredBeforeFiled
<1> QED BY <1>1, <1>2, <1>3 DEF AnswerInv

\* Every step keeps the answers ahead of the filing, and the ledger ahead of the
\* answers.
LEMMA AnswerStep == TypeOK /\ AnswerInv /\ [Next]_vars => AnswerInv'
<1> SUFFICES ASSUME TypeOK, AnswerInv, [Next]_vars PROVE AnswerInv'
  OBVIOUS
<1> USE DEF files, locals, history
<1>1. ASSUME NEW r \in Runs, Start(r) PROVE AnswerInv'
  <2>1. Begin(r)
    BY <1>1 DEF Start, StartOnChange, StartService, StartOnTimer, StartByHand
  <2> QED BY <2>1, AnswerFrame DEF Begin, TypeOK
<1>2. ASSUME NEW r \in Runs, Pick(r) PROVE AnswerInv'
  BY <1>2, AnswerFrame DEF Pick, TypeOK, Goto, Leave
<1>3. ASSUME NEW r \in Runs, Invoke(r) PROVE AnswerInv'
  <2>1. LedgeredInFlight' /\ AnsweredInFlight'
    BY <1>3 DEF Invoke, Goto, TypeOK, AnswerInv, LedgeredInFlight, AnsweredInFlight, Answered
  <2>2. CASE UNCHANGED <<processed, selfFiled>>
    BY <1>3, <2>1, <2>2 DEF Invoke, AnswerInv, AnsweredBeforeFiled
  <2>3. CASE /\ MoveToProcessed(r)
             /\ selfFiled' = selfFiled \cup {<<AgentOf[r], task[r].name>>}
    <3>1. ASSUME NEW a \in Agents, NEW f \in processed'[a]
          PROVE <<a, f.name>> \in selfFiled' \/ \E x \in outbox'[a] : x.base = f.name
      BY <1>3, <2>3, <3>1, MoveEffect DEF Invoke, AnswerInv, AnsweredBeforeFiled
    <3> QED BY <1>3, <2>1, <3>1 DEF Invoke, AnswerInv, AnsweredBeforeFiled
  <2> QED BY <1>3, <2>1, <2>2, <2>3 DEF Invoke, AnswerInv
<1>4. ASSUME NEW r \in Runs, Account(r) PROVE AnswerInv'
  BY <1>4 DEF Account, Goto, TypeOK, AnswerInv, LedgeredInFlight, AnsweredInFlight,
     AnsweredBeforeFiled, Answered
<1>5. ASSUME NEW r \in Runs, Charge(r) PROVE AnswerInv'
  <2>1. CASE Confined(r)
    BY <1>5, <2>1, AnswerFrame DEF Charge, Goto, Leave, Forget, TypeOK
  <2>2. CASE ~Confined(r)
    BY <1>5, <2>2, AnswerFrame DEF Charge, Goto, TypeOK, At
  <2> QED BY <2>1, <2>2
<1>6. ASSUME NEW r \in Runs, CheckBudget(r) PROVE AnswerInv'
  BY <1>6, AnswerFrame DEF CheckBudget, Goto, Leave, Forget, TypeOK, At
<1>7. ASSUME NEW r \in Runs, Respond(r) PROVE AnswerInv'
  <2> DEFINE a == AgentOf[r]
             ans == [base |-> task[r].name, sec |-> now, msg |-> task[r].msg,
                     charge |-> charge[r]]
             older == {x \in outbox[a] : <<x.base, x.sec>> # <<task[r].name, now>>}
  <2>0. /\ a \in Agents
        /\ outbox'[a] = older \cup {ans}
        /\ \A b \in Agents : b # a => outbox'[b] = outbox[b]
    BY <1>7, SMTT(30) DEF Respond, TypeOK
  <2>a. ans.base = task[r].name
    OBVIOUS
  <2> HIDE DEF ans
  <2>1. \A b \in Agents : \A x \in outbox'[b] : x \in outbox[b] \/ (b = a /\ x = ans)
    BY <2>0
  <2>3. Answered(a, task[r].name)'
    <3>1. ans \in outbox'[a] /\ task' = task
      BY <1>7, <2>0 DEF Respond
    <3> QED BY <3>1, <2>a DEF Answered
  <2>2. \A b \in Agents : \A x \in outbox[b] : \E y \in outbox'[b] : y.base = x.base
    <3> SUFFICES ASSUME NEW b \in Agents, NEW x \in outbox[b]
                 PROVE  \E y \in outbox'[b] : y.base = x.base
      OBVIOUS
    <3>1. CASE b # a
      BY <3>1, <2>0
    <3>2. CASE b = a /\ x.base = task[r].name
      BY <3>2, <2>0, <2>a
    <3>3. CASE b = a /\ x.base # task[r].name
      BY <3>3, <2>0
    <3> QED BY <3>1, <3>2, <3>3
  <2>4. LedgeredInFlight'
    BY <1>7 DEF Respond, Goto, TypeOK, AnswerInv, LedgeredInFlight
  <2>5. AnsweredInFlight'
    <3> SUFFICES ASSUME NEW s \in Runs, pc'[s] = "retire"
                 PROVE  \E x \in outbox'[AgentOf[s]] : x.base = task'[s].name
      BY DEF AnsweredInFlight, Answered
    <3>1. CASE s = r
      BY <1>7, <3>1, <2>3 DEF Respond, Answered
    <3>2. CASE s # r
      BY <1>7, <3>2, <2>2 DEF Respond, Goto, TypeOK, AnswerInv, AnsweredInFlight, Answered
    <3> QED BY <3>1, <3>2
  <2>6. a \in Routers => <<a, task[r].name>> \in ledger
    BY <1>7 DEF Respond, At, AnswerInv, LedgeredInFlight, Confined
  <2>7. AnsweredBeforeFiled'
    <3>1. ASSUME NEW b \in Agents, NEW f \in processed[b]
          PROVE  <<b, f.name>> \in selfFiled \/ \E x \in outbox'[b] : x.base = f.name
      BY <2>2, <3>1 DEF AnswerInv, AnsweredBeforeFiled
    <3>2. ASSUME NEW b \in Agents, b \in Routers, NEW x \in outbox'[b]
          PROVE  <<b, x.base>> \in ledger
      BY <2>1, <2>6, <2>a, <3>2 DEF AnswerInv, AnsweredBeforeFiled
    <3>3. UNCHANGED <<ledger, processed, selfFiled>>
      BY <1>7 DEF Respond
    <3> QED BY <3>1, <3>2, <3>3 DEF AnsweredBeforeFiled
  <2> QED BY <2>4, <2>5, <2>7 DEF AnswerInv
<1>8. ASSUME NEW r \in Runs, Retire(r) PROVE AnswerInv'
  <2>1. LedgeredInFlight' /\ AnsweredInFlight'
    BY <1>8 DEF Retire, Goto, TypeOK, AnswerInv, LedgeredInFlight, AnsweredInFlight, Answered
  <2>2. Answered(AgentOf[r], task[r].name)
    BY <1>8 DEF Retire, At, AnswerInv, AnsweredInFlight
  <2>3. ASSUME NEW a \in Agents, NEW f \in processed'[a]
        PROVE <<a, f.name>> \in selfFiled \/ \E x \in outbox[a] : x.base = f.name
    BY <1>8, <2>2, <2>3, MoveEffect DEF Retire, AnswerInv, AnsweredBeforeFiled, Answered
  <2>4. AnsweredBeforeFiled'
    BY <1>8, <2>3 DEF Retire, AnswerInv, AnsweredBeforeFiled
  <2> QED BY <2>1, <2>4 DEF AnswerInv
<1>9. ASSUME NEW r \in Runs, Forward(r) PROVE AnswerInv'
  BY <1>9, AnswerFrame DEF Forward, Goto, Leave, Forget, TypeOK, At
<1>10. ASSUME NEW r \in Runs, Exit(r) \/ Abort(r) \/ Crash(r) PROVE AnswerInv'
  BY <1>10, AnswerFrame DEF Exit, Abort, Crash, Goto, Leave, Forget, TypeOK, At
<1>11. ASSUME NEW a \in Agents, Drop(a) PROVE AnswerInv'
  BY <1>11, AnswerFrame DEF Drop, TypeOK
<1>12. CASE Tick
  BY <1>12, AnswerFrame DEF Tick, TypeOK
<1>13. CASE UNCHANGED vars
  BY <1>13, AnswerFrame DEF vars, TypeOK
<1> QED
  BY <1>1, <1>2, <1>3, <1>4, <1>5, <1>6, <1>7, <1>8, <1>9, <1>10, <1>11, <1>12, <1>13
  DEF Next, Step

\* A kill between any two file operations repeats work but never leaves a filed
\* task without its answer, or an answer without its ledger line.
THEOREM AnsweredFirst == Spec => []AnsweredBeforeFiled
<1>1. Init => AnswerInv
  BY DEF Init, AnswerInv, LedgeredInFlight, AnsweredInFlight, AnsweredBeforeFiled
<1>2. AnswerInv => AnsweredBeforeFiled
  BY DEF AnswerInv
<1> QED BY <1>1, <1>2, Typed, AnswerStep, PTL DEF Spec

-----------------------------------------------------------------------------
(* Answers stay within the budget.                                          *)

\* The runs that hold a charge they have not answered for.
Holding(r) == pc[r] \in {"check", "respond"}

HeldAreRecorded == \A r \in Runs : Holding(r) => charge[r] \in 1..spent
HeldFitBudget   == \A r \in Runs : pc[r] = "respond" /\ Budget > 0 => charge[r] * Cost <= Budget
HeldAreDistinct ==
    /\ \A r, s \in Runs : Holding(r) /\ Holding(s) /\ charge[r] = charge[s] => r = s
    /\ \A r \in Runs, a \in Agents : Holding(r) => \A x \in outbox[a] : x.charge # charge[r]

BudgetInv ==
    /\ Cost > 0 => HeldAreRecorded /\ HeldFitBudget /\ HeldAreDistinct
    /\ AnswersWithinBudget

\* A larger charge number costs more.
LEMMA ChargesAdd ==
    ASSUME NEW i \in Nat, NEW j \in Nat, NEW c \in Nat, i <= j
    PROVE  i * c <= j * c
<1>1. PICK d \in Nat : j = i + d
  <2>1. j - i \in Nat /\ j = i + (j - i)
    OBVIOUS
  <2> QED BY <2>1
<1>2. j * c = i * c + d * c /\ d * c \in Nat /\ i * c \in Nat
  BY <1>1
<1> QED BY <1>2

\* Steps that append no charge and answer nothing, and give no run a charge.
LEMMA BudgetFrame ==
    ASSUME BudgetInv, UNCHANGED <<outbox, spent>>,
           Cost > 0 => \A s \in Runs : pc'[s] \in {"check", "respond"} =>
                           pc'[s] = pc[s] /\ charge'[s] = charge[s]
    PROVE  BudgetInv'
BY DEF BudgetInv, HeldAreRecorded, HeldFitBudget, HeldAreDistinct, Holding,
       AnswersWithinBudget

\* Every step keeps the charges that running invocations hold apart and within
\* the budget.
LEMMA BudgetStep == TypeOK /\ BudgetInv /\ [Next]_vars => BudgetInv'
<1> SUFFICES ASSUME TypeOK, BudgetInv, [Next]_vars PROVE BudgetInv'
  OBVIOUS
<1> USE DEF files, locals, history
<1>1. ASSUME NEW r \in Runs, Start(r) PROVE BudgetInv'
  <2>1. Begin(r)
    BY <1>1 DEF Start, StartOnChange, StartService, StartOnTimer, StartByHand
  <2> QED BY <2>1, BudgetFrame DEF Begin, TypeOK
<1>2. ASSUME NEW r \in Runs, Pick(r) PROVE BudgetInv'
  BY <1>2, BudgetFrame DEF Pick, TypeOK, Goto, Leave
<1>3. ASSUME NEW r \in Runs, Invoke(r) PROVE BudgetInv'
  BY <1>3, BudgetFrame DEF Invoke, TypeOK, Goto
<1>4. ASSUME NEW r \in Runs, Account(r) PROVE BudgetInv'
  BY <1>4, BudgetFrame DEF Account, TypeOK, Goto
<1>5. ASSUME NEW r \in Runs, Charge(r) PROVE BudgetInv'
  <2>0. CASE Confined(r)
    BY <1>5, <2>0, BudgetFrame DEF Charge, Leave, Goto, Forget, TypeOK
  <2>6. CASE ~Confined(r)
    <3>1. /\ spent \in Nat /\ spent' = spent + 1 /\ outbox' = outbox /\ charge'[r] = spent + 1
          /\ \A s \in Runs : s # r => charge'[s] = charge[s] /\ pc'[s] = pc[s]
          /\ pc'[r] = "check"
      BY <1>5, <2>6 DEF Charge, Goto, TypeOK
    <3>2. ASSUME Cost > 0 PROVE HeldAreRecorded'
      BY <3>1, <3>2 DEF BudgetInv, HeldAreRecorded, Holding
    <3>3. ASSUME Cost > 0 PROVE HeldFitBudget'
      BY <3>1, <3>3 DEF BudgetInv, HeldFitBudget
    <3>4. ASSUME Cost > 0 PROVE HeldAreDistinct'
      <4>1. \A s \in Runs : s # r /\ Holding(s)' => charge'[s] # charge'[r]
        BY <3>1, <3>4 DEF BudgetInv, HeldAreRecorded, Holding
      <4>2. \A a \in Agents : \A x \in outbox'[a] : x.charge # charge'[r]
        BY <3>1, <3>4 DEF BudgetInv, AnswersWithinBudget
      <4> QED BY <3>1, <3>4, <4>1, <4>2 DEF BudgetInv, HeldAreDistinct, Holding
    <3>5. AnswersWithinBudget'
      BY <3>1 DEF BudgetInv, AnswersWithinBudget
    <3> QED BY <3>2, <3>3, <3>4, <3>5 DEF BudgetInv
  <2> QED BY <2>0, <2>6
<1>6. ASSUME NEW r \in Runs, CheckBudget(r) PROVE BudgetInv'
  <2>1. CASE Exceeded
    BY <1>6, <2>1, BudgetFrame DEF CheckBudget, TypeOK, Goto, Leave, Forget
  <2>2. CASE ~Exceeded
    <3>1. /\ UNCHANGED <<outbox, spent, charge>> /\ pc[r] = "check" /\ pc'[r] = "respond"
          /\ \A s \in Runs : s # r => pc'[s] = pc[s]
          /\ spent \in Nat /\ charge[r] \in Nat
      BY <1>6, <2>2 DEF CheckBudget, At, Goto, TypeOK
    <3>2. ASSUME Cost > 0 PROVE HeldAreRecorded'
      BY <3>1, <3>2 DEF BudgetInv, HeldAreRecorded, Holding
    <3>3. ASSUME Cost > 0 PROVE HeldAreDistinct'
      BY <3>1, <3>3 DEF BudgetInv, HeldAreDistinct, Holding
    <3>4. ASSUME Cost > 0 PROVE HeldFitBudget'
      <4>1. charge[r] <= spent
        BY <3>1, <3>4 DEF BudgetInv, HeldAreRecorded, Holding
      <4>2. charge[r] * Cost <= spent * Cost
        BY <3>1, <4>1, ChargesAdd
      <4>3. Budget > 0 => spent * Cost <= Budget
        BY <2>2, <3>1 DEF Exceeded
      <4>4. Budget > 0 => charge[r] * Cost <= Budget
        BY <3>1, <4>2, <4>3
      <4> QED BY <3>1, <3>4, <4>4 DEF BudgetInv, HeldFitBudget
    <3>5. AnswersWithinBudget'
      BY <3>1 DEF BudgetInv, AnswersWithinBudget
    <3> QED BY <3>2, <3>3, <3>4, <3>5 DEF BudgetInv
  <2> QED BY <2>1, <2>2
<1>7. ASSUME NEW r \in Runs, Respond(r) PROVE BudgetInv'
  <2> DEFINE a == AgentOf[r]
             ans == [base |-> task[r].name, sec |-> now, msg |-> task[r].msg,
                     charge |-> charge[r]]
  <2>1. \A b \in Agents : \A x \in outbox'[b] : x \in outbox[b] \/ (b = a /\ x = ans)
    BY <1>7 DEF Respond, TypeOK
  <2>2. ans.charge = charge[r]
    OBVIOUS
  <2> HIDE DEF ans
  <2>3. /\ UNCHANGED <<spent, charge>> /\ pc[r] = "respond" /\ pc'[r] = "retire"
        /\ \A s \in Runs : s # r => pc'[s] = pc[s]
    BY <1>7 DEF Respond, At, Goto, TypeOK
  <2>4. ASSUME Cost > 0 PROVE HeldAreRecorded' /\ HeldFitBudget'
    BY <2>3, <2>4 DEF BudgetInv, HeldAreRecorded, HeldFitBudget, Holding
  <2>5. ASSUME Cost > 0 PROVE HeldAreDistinct'
    BY <2>1, <2>2, <2>3, <2>5 DEF BudgetInv, HeldAreDistinct, Holding
  <2>6. ASSUME Cost > 0
        PROVE /\ ans.charge \in 1..spent /\ (Budget > 0 => ans.charge * Cost <= Budget)
              /\ \A b \in Agents : \A x \in outbox[b] : x.charge # ans.charge
    BY <2>2, <2>3, <2>6 DEF BudgetInv, HeldAreRecorded, HeldFitBudget, HeldAreDistinct, Holding
  <2>7. ASSUME Cost > 0, NEW b \in Agents, NEW x \in outbox'[b]
        PROVE  x.charge \in 1..spent /\ (Budget > 0 => x.charge * Cost <= Budget)
    BY <2>1, <2>6, <2>7 DEF BudgetInv, AnswersWithinBudget
  <2>8. ASSUME Cost > 0, NEW b \in Agents, NEW c \in Agents,
               NEW x \in outbox'[b], NEW y \in outbox'[c], x.charge = y.charge
        PROVE  b = c /\ x = y
    BY <2>1, <2>6, <2>8 DEF BudgetInv, AnswersWithinBudget
  <2>9. AnswersWithinBudget'
    BY <2>3, <2>7, <2>8 DEF AnswersWithinBudget
  <2> QED BY <2>4, <2>5, <2>9 DEF BudgetInv
<1>8. ASSUME NEW r \in Runs, Retire(r) PROVE BudgetInv'
  BY <1>8, BudgetFrame DEF Retire, Goto, TypeOK
<1>9. ASSUME NEW r \in Runs, Forward(r) PROVE BudgetInv'
  BY <1>9, BudgetFrame DEF Forward, Goto, Leave, Forget, TypeOK
<1>10. ASSUME NEW r \in Runs, Exit(r) \/ Abort(r) \/ Crash(r) PROVE BudgetInv'
  BY <1>10, BudgetFrame DEF Exit, Abort, Crash, Goto, Leave, Forget, TypeOK
<1>11. ASSUME NEW a \in Agents, Drop(a) PROVE BudgetInv'
  BY <1>11, BudgetFrame DEF Drop
<1>12. CASE Tick
  BY <1>12, BudgetFrame DEF Tick
<1>13. CASE UNCHANGED vars
  BY <1>13, BudgetFrame DEF vars
<1> QED
  BY <1>1, <1>2, <1>3, <1>4, <1>5, <1>6, <1>7, <1>8, <1>9, <1>10, <1>11, <1>12, <1>13
  DEF Next, Step

\* However many runs charge the ledger concurrently, and wherever they are
\* killed, the run with the day's k-th charge answers only if k charges fit.
THEOREM BudgetHolds == Spec => []AnswersWithinBudget
<1>1. Init => BudgetInv
  BY DEF Init, BudgetInv, HeldAreRecorded, HeldFitBudget, HeldAreDistinct, Holding,
     AnswersWithinBudget
<1>2. BudgetInv => AnswersWithinBudget
  BY DEF BudgetInv
<1> QED BY <1>1, <1>2, Typed, BudgetStep, PTL DEF Spec

-----------------------------------------------------------------------------
(* Dropped tasks are kept.                                                  *)

Dropped(h) == {f \in Folder(h) : f.name.kind = "micro"}

\* The name of a dropped task tells which drop it is.
NamedByDrop == \A h \in Places : \A f \in Dropped(h) :
                 f.name.tag = f.msg /\ f.msg \in 1..drops

\* Each drop is one file.
OneFilePerDrop == \A h, i \in Places : \A f \in Dropped(h), g \in Dropped(i) :
                    f.msg = g.msg => f = g

KeepInv == NamedByDrop /\ OneFilePerDrop /\ DropIsKept

\* Steps that touch no dropped task.
LEMMA KeepFrame ==
    ASSUME KeepInv, drops' = drops, \A h \in Places : Dropped(h)' = Dropped(h)
    PROVE  KeepInv'
<1>1. NamedByDrop' /\ OneFilePerDrop'
  BY DEF KeepInv, NamedByDrop, OneFilePerDrop
<1>2. ASSUME NEW k, NEW h \in Places
      PROVE  Drops(Folder(h), k)' = Drops(Folder(h), k)
  <2>1. Drops(Folder(h), k)' = {f \in Dropped(h)' : f.msg = k}
    BY DEF Drops, Dropped
  <2>2. Drops(Folder(h), k) = {f \in Dropped(h) : f.msg = k}
    BY DEF Drops, Dropped
  <2> QED BY <2>1, <2>2
<1>3. \A k : Homes(k)' = Homes(k)
  BY <1>2 DEF Homes
<1> QED BY <1>1, <1>3 DEF KeepInv, DropIsKept

\* A step that touches no inbox and no processed directory keeps every drop.
LEMMA KeepUnchanged ==
    ASSUME KeepInv, UNCHANGED <<drops, inbox, processed>>
    PROVE  KeepInv'
BY KeepFrame DEF Dropped, Folder

\* A notice or a forward never replaces a dropped task.
LEMMA PutKeeps ==
    ASSUME TypeOK, KeepInv, NEW b \in Agents, NEW g \in Files, g.name.kind # "micro",
           UNCHANGED <<drops, processed>>,
           inbox' = [inbox EXCEPT ![b] = Put(@, g)]
    PROVE  KeepInv'
<1>1. ASSUME NEW h \in Places PROVE Dropped(h)' = Dropped(h)
  <2>1. inbox[b] \in SUBSET Files /\ inbox'[b] = Put(inbox[b], g)
        /\ \A c \in Agents : c # b => inbox'[c] = inbox[c]
    BY DEF TypeOK
  <2>2. {f \in Put(inbox[b], g) : f.name.kind = "micro"}
          = {f \in inbox[b] : f.name.kind = "micro"}
    BY DEF Put
  <2> QED BY <2>1, <2>2 DEF Dropped, Folder, Places
<1> QED BY <1>1, KeepFrame

\* Filing a task moves exactly that task.
LEMMA MoveKeeps ==
    ASSUME TypeOK, KeepInv, NEW r \in Runs, MoveToProcessed(r), drops' = drops
    PROVE  KeepInv'
<1> DEFINE a == AgentOf[r]
           n == task[r].name
           mine == Same(inbox[a], task[r])
           src == <<a, "inbox">>
           dst == <<a, "processed">>
<1>1. /\ a \in Agents /\ src \in Places /\ dst \in Places /\ src # dst
      /\ Folder(src) = inbox[a] /\ Folder(dst) = processed[a]
      /\ Folder(src)' = inbox'[a] /\ Folder(dst)' = processed'[a]
  BY DEF Places, Folder
<1>2. /\ inbox'[a] = inbox[a] \ mine
      /\ processed'[a] = IF mine = {} THEN processed[a]
                         ELSE (processed[a] \ Same(processed[a], task[r])) \cup mine
      /\ \A h \in Places : h # src /\ h # dst => Folder(h)' = Folder(h)
  <2>1. /\ inbox' = [inbox EXCEPT ![a] = @ \ mine]
        /\ processed' = [processed EXCEPT ![a] =
                           IF mine = {} THEN @ ELSE (@ \ Same(@, task[r])) \cup mine]
    BY DEF MoveToProcessed
  <2> HIDE DEF mine
  <2>2. /\ inbox'[a] = inbox[a] \ mine
        /\ processed'[a] = IF mine = {} THEN processed[a]
                           ELSE (processed[a] \ Same(processed[a], task[r])) \cup mine
        /\ \A b \in Agents : b # a => inbox'[b] = inbox[b] /\ processed'[b] = processed[b]
    BY <1>1, <2>1 DEF TypeOK
  <2>3. ASSUME NEW b \in Agents, NEW d \in {"inbox", "processed"},
               <<b, d>> # src, <<b, d>> # dst
        PROVE  Folder(<<b, d>>)' = Folder(<<b, d>>)
    <3>1. b # a
      BY <2>3
    <3> QED BY <2>2, <3>1 DEF Folder
  <2>4. \A h \in Places : \E b \in Agents, d \in {"inbox", "processed"} : h = <<b, d>>
    BY DEF Places
  <2>5. \A h \in Places : h # src /\ h # dst => Folder(h)' = Folder(h)
    <3> SUFFICES ASSUME NEW h \in Places, h # src, h # dst PROVE Folder(h)' = Folder(h)
      OBVIOUS
    <3>1. PICK b \in Agents, d \in {"inbox", "processed"} : h = <<b, d>>
      BY <2>4
    <3> QED BY <2>3, <3>1
  <2> QED BY <2>2, <2>5
<1>3. CASE mine = {}
  BY <1>1, <1>2, <1>3, KeepFrame DEF Dropped
<1>4. CASE mine # {} /\ n.kind # "micro"
  <2>1. Dropped(src)' = Dropped(src) /\ Dropped(dst)' = Dropped(dst)
    BY <1>1, <1>2, <1>4 DEF Dropped, Same
  <2> QED BY <1>2, <2>1, KeepFrame DEF Dropped
<1>5. CASE mine # {} /\ n.kind = "micro"
  <2>1. PICK f \in mine : TRUE
    BY <1>5
  <2>2. f \in Dropped(src) /\ f.name = n
    BY <1>1, <1>5, <2>1 DEF Dropped, Same
  <2> DEFINE k == f.msg
  <2>3. k = n.tag /\ k \in 1..drops
    BY <1>1, <2>2 DEF KeepInv, NamedByDrop
  <2>4. Homes(k) = {src}
    <3>1. src \in Homes(k)
      BY <1>1, <2>2 DEF Homes, Drops, Dropped
    <3> QED BY <2>3, <3>1 DEF KeepInv, DropIsKept
  <2>5. mine = {f}
    <3>1. ASSUME NEW g \in mine PROVE g = f
      <4>1. g \in Dropped(src) /\ g.name = n
        BY <1>1, <1>5 DEF Dropped, Same
      <4>2. g.msg = k
        BY <1>1, <2>3, <4>1 DEF KeepInv, NamedByDrop
      <4> QED BY <1>1, <2>2, <4>1, <4>2 DEF KeepInv, OneFilePerDrop
    <3> QED BY <2>1, <3>1
  <2>6. \A h \in Places : h # src => Drops(Folder(h), k) = {}
    BY <2>4 DEF Homes
  <2>7. Same(processed[a], task[r]) = {}
    <3> SUFFICES ASSUME NEW g \in Same(processed[a], task[r]) PROVE FALSE
      OBVIOUS
    <3>1. g \in Dropped(dst) /\ g.name = n
      BY <1>1, <1>5 DEF Dropped, Same
    <3>2. g.msg = k
      BY <1>1, <2>3, <3>1 DEF KeepInv, NamedByDrop
    <3>3. g \in Drops(Folder(dst), k)
      BY <3>1, <3>2 DEF Drops, Dropped
    <3> QED BY <1>1, <2>6, <3>3
  <2>8. Folder(src)' = Folder(src) \ {f} /\ Folder(dst)' = Folder(dst) \cup {f}
    BY <1>1, <1>2, <2>5, <2>7, <1>5
  <2>9. ASSUME NEW h \in Places, NEW g \in Dropped(h)'
        PROVE  \E i \in Places : g \in Dropped(i)
    <3>1. g \in Folder(h) \/ g = f
      BY <1>2, <2>8 DEF Dropped
    <3>2. CASE g = f
      BY <3>2, <2>2, <1>1
    <3>3. CASE g \in Folder(h)
      BY <3>3 DEF Dropped
    <3> QED BY <3>1, <3>2, <3>3
  <2>10. NamedByDrop'
    BY <2>9 DEF KeepInv, NamedByDrop
  <2>11. OneFilePerDrop'
    BY <2>9 DEF KeepInv, OneFilePerDrop
  <2>12. ASSUME NEW j \in 1..drops, j # k PROVE Homes(j)' = Homes(j)
    <3>1. ASSUME NEW h \in Places PROVE Drops(Folder(h), j)' = Drops(Folder(h), j)
      BY <1>2, <2>8, <2>12 DEF Drops
    <3> QED BY <3>1 DEF Homes
  <2>13. Homes(k)' = {dst}
    <3>1. Drops(Folder(dst), k)' # {}
      BY <2>2, <2>8 DEF Drops, Dropped
    <3>2. Drops(Folder(src), k)' = {}
      <4>1. \A g \in Drops(Folder(src), k) : g = f
        BY <1>1, <2>2 DEF KeepInv, OneFilePerDrop, Drops, Dropped
      <4> QED BY <2>8, <4>1 DEF Drops
    <3>3. \A h \in Places : h # src /\ h # dst => Drops(Folder(h), k)' = {}
      BY <1>2, <2>6 DEF Drops
    <3> QED BY <1>1, <3>1, <3>2, <3>3 DEF Homes
  <2>14. DropIsKept'
    <3> SUFFICES ASSUME NEW j \in 1..drops PROVE \E h \in Places : Homes(j)' = {h}
      BY DEF DropIsKept
    <3>1. CASE j = k
      BY <3>1, <1>1, <2>13
    <3>2. CASE j # k
      BY <3>2, <2>12 DEF KeepInv, DropIsKept
    <3> QED BY <3>1, <3>2
  <2> QED BY <2>10, <2>11, <2>14 DEF KeepInv
<1> QED BY <1>3, <1>4, <1>5

\* A new drop has a name of its own, so it replaces nothing.
LEMMA DropKeeps ==
    ASSUME TypeOK, KeepInv, NEW a \in Agents, Drop(a)
    PROVE  KeepInv'
<1>0. PICK k \in Nat : k = drops + 1
  BY DEF TypeOK
<1> DEFINE new == [name |-> [kind |-> "micro", sec |-> now, tag |-> k], msg |-> k]
           src == <<a, "inbox">>
<1>1. /\ drops \in Nat /\ drops' = k /\ processed' = processed
      /\ inbox' = [inbox EXCEPT ![a] = Put(@, new)]
  BY <1>0 DEF TypeOK, Drop
<1>2. /\ src \in Places /\ Folder(src) = inbox[a] /\ Folder(src)' = Put(inbox[a], new)
      /\ \A h \in Places : h # src => Folder(h)' = Folder(h)
  BY <1>1 DEF Places, Folder, TypeOK
<1>3. \A h \in Places : \A f \in Dropped(h) : f.name.tag = f.msg /\ f.msg # k
  BY <1>0, <1>1 DEF KeepInv, NamedByDrop
<1>4. new.name.kind = "micro" /\ new.name.tag = k /\ new.msg = k
  OBVIOUS
<1> HIDE DEF new
<1>5. \A f \in inbox[a] : f.name # new.name
  BY <1>2, <1>3, <1>4 DEF Dropped
<1>6. Folder(src)' = Folder(src) \cup {new}
  BY <1>2, <1>5 DEF Put
<1>7. \A h \in Places : \A f \in Dropped(h)' : f \in Dropped(h) \/ f = new
  BY <1>2, <1>6 DEF Dropped
<1>8. NamedByDrop'
  BY <1>0, <1>1, <1>4, <1>7 DEF KeepInv, NamedByDrop
<1>9. OneFilePerDrop'
  BY <1>3, <1>4, <1>7 DEF KeepInv, OneFilePerDrop
<1>10. ASSUME NEW j \in 1..drops PROVE Homes(j)' = Homes(j)
  <2>1. ASSUME NEW h \in Places PROVE Drops(Folder(h), j)' = Drops(Folder(h), j)
    BY <1>0, <1>1, <1>2, <1>4, <1>6 DEF Drops
  <2> QED BY <2>1 DEF Homes
<1>11. Homes(k)' = {src}
  <2>1. new \in Drops(Folder(src), k)'
    BY <1>4, <1>6 DEF Drops
  <2>2. \A h \in Places : h # src => Drops(Folder(h), k)' = {}
    BY <1>2, <1>3 DEF Drops, Dropped
  <2> QED BY <1>2, <2>1, <2>2 DEF Homes
<1>12. DropIsKept'
  <2> SUFFICES ASSUME NEW j \in 1..k PROVE \E h \in Places : Homes(j)' = {h}
    BY <1>1 DEF DropIsKept
  <2>1. CASE j = k
    BY <2>1, <1>2, <1>11
  <2>2. CASE j # k
    <3>1. j \in 1..drops
      BY <2>2, <1>0, <1>1
    <3> QED BY <3>1, <1>10 DEF KeepInv, DropIsKept
  <2> QED BY <2>1, <2>2
<1> QED BY <1>8, <1>9, <1>12 DEF KeepInv

\* Every step keeps every dropped task in exactly one place.
LEMMA KeepStep == TypeOK /\ KeepInv /\ [Next]_vars => KeepInv'
<1> SUFFICES ASSUME TypeOK, KeepInv, [Next]_vars PROVE KeepInv'
  OBVIOUS
<1> USE DEF files, locals, history
<1>1. ASSUME NEW r \in Runs, Start(r) PROVE KeepInv'
  <2>1. Begin(r)
    BY <1>1 DEF Start, StartOnChange, StartService, StartOnTimer, StartByHand
  <2> QED BY <2>1, KeepUnchanged DEF Begin
<1>2. ASSUME NEW r \in Runs, Invoke(r) PROVE KeepInv'
  BY <1>2, KeepUnchanged, MoveKeeps DEF Invoke
<1>3. ASSUME NEW r \in Runs, Retire(r) PROVE KeepInv'
  BY <1>3, MoveKeeps DEF Retire
<1>4. ASSUME NEW r \in Runs, CheckBudget(r) PROVE KeepInv'
  <2> DEFINE note == [name |-> [kind |-> "unix", sec |-> now, tag |-> 0], msg |-> 0]
  <2>1. UNCHANGED <<drops, processed>>
    BY <1>4 DEF CheckBudget
  <2>2. CASE UNCHANGED inbox
    BY <2>1, <2>2, KeepUnchanged
  <2>3. CASE inbox' = [a \in Agents |-> IF a # Sysadmin THEN inbox[a] ELSE Put(inbox[a], note)]
    <3>1. CASE Sysadmin \in Agents
      <4>1. note \in Files /\ note.name.kind # "micro"
        BY DEF Files, Names, TypeOK
      <4>2. inbox' = [inbox EXCEPT ![Sysadmin] = Put(@, note)]
        BY <2>3, <3>1 DEF TypeOK
      <4> QED BY <2>1, <3>1, <4>1, <4>2, PutKeeps
    <3>2. CASE Sysadmin \notin Agents
      <4>1. inbox' = inbox
        BY <2>3, <3>2 DEF TypeOK
      <4> QED BY <2>1, <4>1, KeepUnchanged
    <3> QED BY <3>1, <3>2
  <2> QED BY <1>4, <2>2, <2>3 DEF CheckBudget
<1>5. ASSUME NEW r \in Runs, Forward(r) PROVE KeepInv'
  <2>1. UNCHANGED <<drops, processed>>
    BY <1>5 DEF Forward
  <2>2. CASE UNCHANGED inbox
    BY <2>1, <2>2, KeepUnchanged
  <2>3. CASE to[r] # NoAgent /\ inbox' = [inbox EXCEPT ![to[r]] = Put(@, Forwarded(r))]
    <3>1. Forwarded(r) \in Files /\ Forwarded(r).name.kind # "micro" /\ to[r] \in Agents
      BY <2>3 DEF Forwarded, Files, Names, TypeOK
    <3> QED BY <2>1, <2>3, <3>1, PutKeeps
  <2> QED BY <1>5, <2>2, <2>3 DEF Forward
<1>6. ASSUME NEW r \in Runs,
             Pick(r) \/ Account(r) \/ Charge(r) \/ Respond(r) \/ Exit(r) \/ Abort(r) \/ Crash(r)
      PROVE  KeepInv'
  BY <1>6, KeepUnchanged DEF Pick, Account, Charge, Respond, Exit, Abort, Crash
<1>7. ASSUME NEW a \in Agents, Drop(a) PROVE KeepInv'
  BY <1>7, DropKeeps
<1>8. CASE Tick
  BY <1>8, KeepUnchanged DEF Tick
<1>9. CASE UNCHANGED vars
  BY <1>9, KeepUnchanged DEF vars
<1> QED
  BY <1>1, <1>2, <1>3, <1>4, <1>5, <1>6, <1>7, <1>8, <1>9 DEF Next, Step

\* Through kills, failures, concurrent runs of one agent, forwards and notices,
\* every dropped task is in exactly one inbox or processed directory.
THEOREM DropsKept == Spec => []DropIsKept
<1>1. Init => KeepInv
  BY DEF Init, KeepInv, NamedByDrop, OneFilePerDrop, Dropped, Folder, DropIsKept, Places
<1>2. KeepInv => DropIsKept
  BY DEF KeepInv
<1> QED BY <1>1, <1>2, Typed, KeepStep, PTL DEF Spec

-----------------------------------------------------------------------------
(* Forwards arrive.                                                         *)

\* The forwarded tasks that an agent has or had in its inbox.
Mail(a) == {f \in inbox[a] \cup processed[a] : f.name.kind = "date"}

Owed(from, target, sec, msg) == [from |-> from, to |-> target, sec |-> sec, msg |-> msg]

InFlight(d) == \E r \in Runs : /\ pc[r] = "forward" /\ AgentOf[r] = d.from
                               /\ to[r] = d.to /\ stamp[r] = d.sec /\ task[r].msg = d.msg

Arrived(d) == \E f \in Mail(d.to) :
                 f.name.sec = d.sec /\ f.name.tag = d.from /\ f.msg = d.msg

Crowded(d) == \E e \in due : e # d /\ e.from = d.from /\ e.to = d.to /\ e.sec = d.sec

\* What was forwarded or is being forwarded is owed: so a file that replaces another one
\* of its name is a forward of the same second.
MailIsOwed ==
    /\ \A a \in Agents : \A f \in Mail(a) : Owed(f.name.tag, a, f.name.sec, f.msg) \in due
    /\ \A r \in Runs : pc[r] = "forward" /\ to[r] # NoAgent =>
          Owed(AgentOf[r], to[r], stamp[r], task[r].msg) \in due

OwedArrives ==
    \A d \in due : faults > 0 \/ d.from \notin Routers \/ Crowded(d) \/ InFlight(d) \/ Arrived(d)

ForwardInv == MailIsOwed /\ OwedArrives

\* Filing a task brings no mail, and what it replaces it replaces by its namesake.
LEMMA MovedMail ==
    ASSUME TypeOK, NEW r \in Runs, MoveToProcessed(r), NEW a \in Agents
    PROVE  /\ \A f \in Mail(a)' : f \in Mail(a)
           /\ \A f \in Mail(a) : \E g \in Mail(a)' : g.name = f.name
<1> DEFINE mine == Same(inbox[AgentOf[r]], task[r])
<1>1. CASE a # AgentOf[r]
  <2>1. inbox'[a] = inbox[a] /\ processed'[a] = processed[a]
    BY <1>1 DEF MoveToProcessed, TypeOK
  <2> QED BY <2>1 DEF Mail
<1>2. CASE a = AgentOf[r]
  <2>1. /\ inbox'[a] = inbox[a] \ mine
        /\ mine = {} => processed'[a] = processed[a]
        /\ mine # {} => processed'[a] = (processed[a] \ Same(processed[a], task[r])) \cup mine
    BY <1>2 DEF MoveToProcessed, TypeOK
  <2>2. mine = {g \in inbox[a] : g.name = task[r].name}
    BY <1>2 DEF Same
  <2>3. Same(processed[a], task[r]) = {g \in processed[a] : g.name = task[r].name}
    BY DEF Same
  <2> HIDE DEF mine
  <2>4. \A f \in inbox'[a] \cup processed'[a] : f \in inbox[a] \cup processed[a]
    BY <2>1, <2>2
  <2>5. ASSUME NEW f \in inbox[a] \cup processed[a]
        PROVE  \E g \in inbox'[a] \cup processed'[a] : g.name = f.name
    <3>1. CASE mine = {}
      BY <2>1, <3>1
    <3>2. CASE mine # {} /\ f.name = task[r].name
      BY <2>1, <2>2, <3>2
    <3>3. CASE f.name # task[r].name
      BY <2>1, <2>2, <2>3, <3>3
    <3> QED BY <3>1, <3>2, <3>3
  <2> QED BY <2>4, <2>5 DEF Mail
<1> QED BY <1>1, <1>2

\* A new file in an inbox is the only new mail, and it replaces only its namesakes.
LEMMA PutMail ==
    ASSUME TypeOK, NEW t \in Agents, NEW new \in Files, NEW a \in Agents,
           inbox' = [inbox EXCEPT ![t] = Put(@, new)], processed' = processed
    PROVE  /\ \A f \in Mail(a)' : f \in Mail(a) \/ (a = t /\ f = new)
           /\ \A f \in Mail(a) : \E g \in Mail(a)' : g.name = f.name
           /\ a = t /\ new.name.kind = "date" => new \in Mail(a)'
<1>1. CASE a # t
  BY <1>1 DEF Mail, TypeOK
<1>2. CASE a = t
  <2>1. inbox'[a] = {g \in inbox[a] : g.name # new.name} \cup {new}
    BY <1>2 DEF Put, TypeOK
  <2> QED BY <1>2, <2>1 DEF Mail
<1> QED BY <1>1, <1>2

\* What a step must do to keep the forwards accounted for.
LEMMA ForwardFrame ==
    ASSUME TypeOK, TypeOK', ForwardInv, due \subseteq due', faults' >= faults,
           \A a \in Agents :
              /\ \A f \in Mail(a)' :
                    f \in Mail(a) \/ Owed(f.name.tag, a, f.name.sec, f.msg) \in due'
              /\ \A f \in Mail(a) : \E g \in Mail(a)' : g.name = f.name,
           \A s \in Runs : pc'[s] = "forward" /\ to'[s] # NoAgent =>
              \/ pc[s] = "forward" /\ to'[s] = to[s] /\ stamp'[s] = stamp[s] /\ task'[s] = task[s]
              \/ Owed(AgentOf[s], to'[s], stamp'[s], task'[s].msg) \in due',
           \A d \in due' : d \in due \/ InFlight(d)',
           \A d \in due : InFlight(d) =>
              InFlight(d)' \/ Arrived(d)' \/ faults' > 0 \/ d.from \notin Routers
    PROVE  ForwardInv'
<1>1. MailIsOwed'
  <2>1. \A a \in Agents : \A f \in Mail(a)' : Owed(f.name.tag, a, f.name.sec, f.msg) \in due'
    BY DEF ForwardInv, MailIsOwed
  <2>2. \A s \in Runs : pc'[s] = "forward" /\ to'[s] # NoAgent =>
           Owed(AgentOf[s], to'[s], stamp'[s], task'[s].msg) \in due'
    BY DEF ForwardInv, MailIsOwed
  <2> QED BY <2>1, <2>2 DEF MailIsOwed
<1>2. ASSUME NEW d \in due, Arrived(d) PROVE Arrived(d)' \/ Crowded(d)'
  <2>1. d.to \in Agents
    BY DEF TypeOK
  <2>2. PICK f \in Mail(d.to) : f.name.sec = d.sec /\ f.name.tag = d.from /\ f.msg = d.msg
    BY <1>2 DEF Arrived
  <2>3. PICK g \in Mail(d.to)' : g.name = f.name
    BY <2>1
  <2>4. CASE g.msg = d.msg
    BY <2>2, <2>3, <2>4 DEF Arrived
  <2>5. CASE g.msg # d.msg
    <3>1. Owed(d.from, d.to, d.sec, g.msg) \in due'
      BY <1>1, <2>1, <2>2, <2>3 DEF MailIsOwed
    <3> QED BY <2>5, <3>1 DEF Crowded, Owed
  <2> QED BY <2>4, <2>5
<1>3. ASSUME NEW d \in due'
      PROVE  faults' > 0 \/ d.from \notin Routers \/ Crowded(d)' \/ InFlight(d)' \/ Arrived(d)'
  <2>1. CASE d \notin due
    BY <1>3, <2>1
  <2>2. CASE d \in due
    <3>1. faults > 0 \/ d.from \notin Routers \/ Crowded(d) \/ InFlight(d) \/ Arrived(d)
      BY <2>2 DEF ForwardInv, OwedArrives
    <3>2. CASE faults > 0
      BY <3>2 DEF TypeOK
    <3>3. CASE Crowded(d)
      BY <3>3 DEF Crowded
    <3>4. CASE InFlight(d)
      BY <2>2, <3>4
    <3>5. CASE Arrived(d)
      BY <1>2, <2>2, <3>5
    <3> QED BY <3>1, <3>2, <3>3, <3>4, <3>5
  <2> QED BY <2>1, <2>2
<1> QED BY <1>1, <1>3 DEF ForwardInv, OwedArrives

\* Steps that touch no mail, owe nothing, and leave the forwarding runs alone.
LEMMA ForwardQuiet ==
    ASSUME TypeOK, TypeOK', ForwardInv, due' = due, faults' >= faults,
           \A a \in Agents : /\ \A f \in Mail(a)' : f \in Mail(a)
                             /\ \A f \in Mail(a) : \E g \in Mail(a)' : g.name = f.name,
           \A s \in Runs :
              /\ pc'[s] = "forward" =>
                    /\ pc[s] = "forward"
                    /\ to'[s] = to[s] /\ stamp'[s] = stamp[s] /\ task'[s] = task[s]
              /\ pc[s] = "forward" => pc'[s] = "forward" \/ faults' > 0
    PROVE  ForwardInv'
<1>1. \A d \in due : InFlight(d) => InFlight(d)' \/ faults' > 0
  BY DEF InFlight
<1> QED BY <1>1, ForwardFrame

\* Every step keeps each owed forward in flight, delivered, or lost in a known way.
LEMMA ForwardStep == TypeOK /\ TypeOK' /\ ForwardInv /\ [Next]_vars => ForwardInv'
<1> SUFFICES ASSUME TypeOK, TypeOK', ForwardInv, [Next]_vars PROVE ForwardInv'
  OBVIOUS
<1> USE DEF files, locals, history
<1>0. faults \in Nat /\ MaxFaults \in Nat
  BY DEF TypeOK
<1>1. ASSUME NEW r \in Runs, Start(r) PROVE ForwardInv'
  <2>1. Begin(r)
    BY <1>1 DEF Start, StartOnChange, StartService, StartOnTimer, StartByHand
  <2> QED BY <1>0, <2>1, ForwardQuiet DEF Begin, TypeOK, Mail
<1>2. ASSUME NEW r \in Runs, Pick(r) PROVE ForwardInv'
  BY <1>0, <1>2, ForwardQuiet DEF Pick, Goto, Leave, At, TypeOK, Mail
<1>3. ASSUME NEW r \in Runs, Invoke(r) PROVE ForwardInv'
  <2>1. ASSUME NEW a \in Agents
        PROVE  /\ \A f \in Mail(a)' : f \in Mail(a)
               /\ \A f \in Mail(a) : \E g \in Mail(a)' : g.name = f.name
    <3>1. CASE UNCHANGED <<inbox, processed>>
      BY <3>1 DEF Mail
    <3>2. CASE MoveToProcessed(r)
      BY <3>2, MovedMail
    <3> QED BY <1>3, <3>1, <3>2 DEF Invoke
  <2>2. /\ due' = due /\ faults' = faults /\ UNCHANGED <<stamp, task>>
        /\ pc[r] = "invoke" /\ pc'[r] = "account"
        /\ \A s \in Runs : s # r => pc'[s] = pc[s] /\ to'[s] = to[s]
    BY <1>3 DEF Invoke, At, Goto, TypeOK
  <2> QED BY <1>0, <2>1, <2>2, ForwardQuiet
<1>4. ASSUME NEW r \in Runs, Account(r) \/ Charge(r) \/ Respond(r) PROVE ForwardInv'
  <2>1. /\ UNCHANGED <<inbox, processed, due, faults>>
        /\ \A s \in Runs : s # r => /\ pc'[s] = pc[s] /\ to'[s] = to[s]
                                   /\ stamp'[s] = stamp[s] /\ task'[s] = task[s]
        /\ pc[r] # "forward" /\ pc'[r] # "forward"
    BY <1>4 DEF Account, Charge, Respond, At, Goto, Leave, Forget, TypeOK
  <2> QED BY <1>0, <2>1, ForwardQuiet DEF Mail
<1>5. ASSUME NEW r \in Runs, CheckBudget(r) PROVE ForwardInv'
  <2> DEFINE note == [name |-> [kind |-> "unix", sec |-> now, tag |-> 0], msg |-> 0]
  <2>1. /\ UNCHANGED <<processed, due, faults>>
        /\ \A s \in Runs : s # r => /\ pc'[s] = pc[s] /\ to'[s] = to[s]
                                   /\ stamp'[s] = stamp[s] /\ task'[s] = task[s]
        /\ pc[r] # "forward" /\ pc'[r] # "forward"
    BY <1>5 DEF CheckBudget, At, Goto, Leave, Forget, TypeOK
  <2>2. ASSUME NEW a \in Agents
        PROVE  /\ \A f \in Mail(a)' : f \in Mail(a)
               /\ \A f \in Mail(a) : \E g \in Mail(a)' : g.name = f.name
    <3>1. CASE UNCHANGED inbox
      BY <2>1, <3>1 DEF Mail
    <3>2. CASE inbox' = [b \in Agents |-> IF b # Sysadmin THEN inbox[b] ELSE Put(inbox[b], note)]
      <4>1. CASE Sysadmin \in Agents
        <5>1. note \in Files /\ note.name.kind = "unix"
          BY DEF Files, Names, TypeOK
        <5>2. inbox' = [inbox EXCEPT ![Sysadmin] = Put(@, note)]
          BY <3>2, <4>1 DEF TypeOK
        <5> HIDE DEF note
        <5>3. /\ \A f \in Mail(a)' : f \in Mail(a) \/ (a = Sysadmin /\ f = note)
              /\ \A f \in Mail(a) : \E g \in Mail(a)' : g.name = f.name
          BY <2>1, <4>1, <5>1, <5>2, PutMail
        <5>4. \A f \in Mail(a)' : f.name.kind = "date"
          BY DEF Mail
        <5> QED BY <5>1, <5>3, <5>4
      <4>2. CASE Sysadmin \notin Agents
        <5>1. inbox' = inbox
          BY <3>2, <4>2 DEF TypeOK
        <5> QED BY <2>1, <5>1 DEF Mail
      <4> QED BY <4>1, <4>2
    <3> QED BY <1>5, <3>1, <3>2 DEF CheckBudget
  <2> QED BY <1>0, <2>1, <2>2, ForwardQuiet
<1>6. ASSUME NEW r \in Runs, Retire(r) PROVE ForwardInv'
  <2> DEFINE o == Owed(AgentOf[r], to[r], stamp[r], task[r].msg)
  <2>1. /\ UNCHANGED <<faults, to, stamp, task>>
        /\ pc[r] = "retire" /\ pc'[r] = "forward"
        /\ \A s \in Runs : s # r => pc'[s] = pc[s]
        /\ due' = IF to[r] = NoAgent THEN due ELSE due \cup {o}
    BY <1>6 DEF Retire, At, Goto, TypeOK, Owed
  <2>2. \A a \in Agents : /\ \A f \in Mail(a)' : f \in Mail(a)
                          /\ \A f \in Mail(a) : \E g \in Mail(a)' : g.name = f.name
    BY <1>6, MovedMail DEF Retire
  <2>3. to[r] # NoAgent => \A d : d = o => InFlight(d)'
    BY <2>1 DEF InFlight, Owed
  <2>4. \A s \in Runs : pc'[s] = "forward" /\ to'[s] # NoAgent =>
           \/ pc[s] = "forward" /\ to'[s] = to[s] /\ stamp'[s] = stamp[s] /\ task'[s] = task[s]
           \/ Owed(AgentOf[s], to'[s], stamp'[s], task'[s].msg) \in due'
    BY <2>1
  <2>5. \A d \in due : InFlight(d) => InFlight(d)'
    BY <2>1 DEF InFlight
  <2> HIDE DEF o
  <2>6. due \subseteq due' /\ \A d \in due' : d \in due \/ InFlight(d)'
    BY <2>1, <2>3
  <2>7. faults' >= faults
    BY <1>0, <2>1
  <2>8. \A a \in Agents :
           /\ \A f \in Mail(a)' :
                 f \in Mail(a) \/ Owed(f.name.tag, a, f.name.sec, f.msg) \in due'
           /\ \A f \in Mail(a) : \E g \in Mail(a)' : g.name = f.name
    BY <2>2
  <2> QED BY <2>4, <2>5, <2>6, <2>7, <2>8, ForwardFrame
<1>7. ASSUME NEW r \in Runs, Forward(r) PROVE ForwardInv'
  <2>1. /\ UNCHANGED <<processed, due, faults>>
        /\ \A s \in Runs : s # r => /\ pc'[s] = pc[s] /\ to'[s] = to[s]
                                   /\ stamp'[s] = stamp[s] /\ task'[s] = task[s]
        /\ pc[r] = "forward" /\ pc'[r] # "forward"
    BY <1>7 DEF Forward, At, Goto, Leave, Forget, TypeOK
  <2>2. \A s \in Runs : pc'[s] = "forward" =>
           pc[s] = "forward" /\ to'[s] = to[s] /\ stamp'[s] = stamp[s] /\ task'[s] = task[s]
    BY <2>1
  <2>3. ASSUME NEW d \in due, InFlight(d)
        PROVE  \/ InFlight(d)'
               \/ /\ AgentOf[r] = d.from /\ to[r] = d.to /\ d.to \in Agents
                  /\ stamp[r] = d.sec /\ task[r].msg = d.msg
    <3>1. d.to \in Agents
      BY DEF TypeOK
    <3> QED BY <2>1, <2>3, <3>1 DEF InFlight
  <2>4. CASE UNCHANGED inbox /\ (to[r] = NoAgent \/ Confined(r))
    <3>1. \A d \in due : InFlight(d) => InFlight(d)' \/ d.from \notin Routers
      BY <2>3, <2>4 DEF Confined
    <3> QED BY <1>0, <2>1, <2>2, <2>4, <3>1, ForwardFrame DEF Mail
  <2>5. CASE to[r] # NoAgent /\ inbox' = [inbox EXCEPT ![to[r]] = Put(@, Forwarded(r))]
    <3> DEFINE new == Forwarded(r)
    <3>1. /\ new \in Files /\ new.name.kind = "date" /\ new.name.tag = AgentOf[r]
          /\ new.name.sec = stamp[r] /\ new.msg = task[r].msg /\ to[r] \in Agents
      BY <2>5 DEF Forwarded, Files, Names, TypeOK
    <3>2. inbox' = [inbox EXCEPT ![to[r]] = Put(@, new)]
      BY <2>5
    <3> HIDE DEF new
    <3>3. ASSUME NEW a \in Agents
          PROVE  /\ \A f \in Mail(a)' : f \in Mail(a) \/ (a = to[r] /\ f = new)
                 /\ \A f \in Mail(a) : \E g \in Mail(a)' : g.name = f.name
                 /\ a = to[r] /\ new.name.kind = "date" => new \in Mail(a)'
      BY <2>1, <3>1, <3>2, PutMail
    <3>4. Owed(new.name.tag, to[r], new.name.sec, new.msg) \in due
      BY <2>1, <2>5, <3>1 DEF ForwardInv, MailIsOwed
    <3>5. \A a \in Agents :
             /\ \A f \in Mail(a)' :
                   f \in Mail(a) \/ Owed(f.name.tag, a, f.name.sec, f.msg) \in due'
             /\ \A f \in Mail(a) : \E g \in Mail(a)' : g.name = f.name
      BY <2>1, <3>3, <3>4
    <3>6. \A d \in due : InFlight(d) => InFlight(d)' \/ Arrived(d)'
      BY <2>3, <3>1, <3>3 DEF Arrived
    <3> QED BY <1>0, <2>1, <2>2, <3>5, <3>6, ForwardFrame
  <2> QED BY <1>7, <2>4, <2>5 DEF Forward
<1>8. ASSUME NEW r \in Runs, Exit(r) PROVE ForwardInv'
  BY <1>0, <1>8, ForwardQuiet DEF Exit, At, Goto, TypeOK, Mail
<1>9. ASSUME NEW r \in Runs, Abort(r) \/ Crash(r) PROVE ForwardInv'
  <2>1. /\ UNCHANGED <<inbox, processed, due>> /\ faults' = faults + 1
        /\ \A s \in Runs : s # r => /\ pc'[s] = pc[s] /\ to'[s] = to[s]
                                   /\ stamp'[s] = stamp[s] /\ task'[s] = task[s]
        /\ pc'[r] # "forward"
    BY <1>9 DEF Abort, Crash, At, Goto, Leave, Forget, TypeOK
  <2> QED BY <1>0, <2>1, ForwardQuiet DEF Mail
<1>10. ASSUME NEW a \in Agents, Drop(a) PROVE ForwardInv'
  <2> DEFINE new == [name |-> [kind |-> "micro", sec |-> now, tag |-> drops + 1],
                     msg |-> drops + 1]
  <2>1. /\ UNCHANGED <<processed, due, faults, pc, to, stamp, task>>
        /\ inbox' = [inbox EXCEPT ![a] = Put(@, new)]
    BY <1>10 DEF Drop
  <2>2. new \in Files /\ new.name.kind = "micro"
    BY DEF Files, Names, TypeOK
  <2> HIDE DEF new
  <2>3. ASSUME NEW b \in Agents
        PROVE  /\ \A f \in Mail(b)' : f \in Mail(b)
               /\ \A f \in Mail(b) : \E g \in Mail(b)' : g.name = f.name
    <3>1. /\ \A f \in Mail(b)' : f \in Mail(b) \/ (b = a /\ f = new)
          /\ \A f \in Mail(b) : \E g \in Mail(b)' : g.name = f.name
      BY <2>1, <2>2, PutMail
    <3>2. \A f \in Mail(b)' : f.name.kind = "date"
      BY DEF Mail
    <3> QED BY <2>2, <3>1, <3>2
  <2> QED BY <1>0, <2>1, <2>3, ForwardQuiet
<1>11. CASE Tick
  BY <1>0, <1>11, ForwardQuiet DEF Tick, Mail
<1>12. CASE UNCHANGED vars
  BY <1>0, <1>12, ForwardQuiet DEF vars, Mail
<1> QED
  BY <1>1, <1>2, <1>3, <1>4, <1>5, <1>6, <1>7, <1>8, <1>9, <1>10, <1>11, <1>12
  DEF Next, Step

\* A forward owed when its task was filed is in its run's hands, has reached its
\* target, or was lost in one of the three ways the property names.
THEOREM ForwardsArrive == Spec => []ForwardsAreDelivered
<1>1. Init => ForwardInv
  BY DEF Init, ForwardInv, MailIsOwed, OwedArrives, Mail
<1>2. TypeOK /\ ForwardInv => ForwardsAreDelivered
  <2> SUFFICES ASSUME TypeOK, ForwardInv, NEW d \in due, d.from \in Routers, ~(faults > 0)
               PROVE  \/ Crowded(d)
                      \/ \E r \in Runs : /\ pc[r] = "forward" /\ AgentOf[r] = d.from
                                        /\ to[r] = d.to /\ task[r].msg = d.msg
                      \/ \E f \in inbox[d.to] \cup processed[d.to] :
                            f.name.kind = "date" /\ f.name.sec = d.sec /\ f.msg = d.msg
    BY DEF ForwardsAreDelivered, Crowded, At
  <2>1. Crowded(d) \/ InFlight(d) \/ Arrived(d)
    BY DEF ForwardInv, OwedArrives
  <2> QED BY <2>1 DEF InFlight, Arrived, Mail
<1> QED BY <1>1, <1>2, Typed, ForwardStep, PTL DEF Spec
=============================================================================
