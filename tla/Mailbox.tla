------------------------------- MODULE Mailbox ------------------------------
(***************************************************************************)
(* What the delivery of tasks promises, whatever becomes of the processes  *)
(* that do it: a task goes from its sender to the outer inbox, to the      *)
(* concierge's inbox, to the processed directory, never back and never     *)
(* past one of them, and it is put away only after it was answered.        *)
(***************************************************************************)
CONSTANT Tasks

VARIABLES
    where,    \* how far each task has come
    answered  \* the tasks the model was given

Stages == {"unsent", "outer", "inbox", "processed"}

Advance(t, from, to) == where[t] = from /\ where' = [where EXCEPT ![t] = to]

Send(t) == Advance(t, "unsent", "outer") /\ UNCHANGED answered
Deliver(t) == Advance(t, "outer", "inbox") /\ UNCHANGED answered
PutAway(t) == t \in answered /\ Advance(t, "inbox", "processed") /\ UNCHANGED answered

\* A task may be answered again, also when a copy of it is put away.
Answer(t) ==
    /\ where[t] \in {"inbox", "processed"}
    /\ answered' = answered \cup {t}
    /\ UNCHANGED where

Init == where = [t \in Tasks |-> "unsent"] /\ answered = {}

Next == \E t \in Tasks : Send(t) \/ Deliver(t) \/ Answer(t) \/ PutAway(t)

Spec == Init /\ [][Next]_<<where, answered>>
=============================================================================
