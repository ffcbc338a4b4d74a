----------------------------- MODULE AgentUnits -----------------------------
(***************************************************************************)
(* `conctl kill <agent>`: it stops the agent's path unit, its service and  *)
(* its timer, one systemctl after the other, while tasks arrive, the timer *)
(* elapses, runs end and a failed continuous service is restarted.         *)
(***************************************************************************)
EXTENDS Naturals, Sequences

CONSTANTS
    Modes,      \* the modes to look at
    MaxTasks,   \* bound: tasks that arrive
    MaxTimes,   \* bound: times the timer elapses
    MaxKills,   \* bound: kills of the agent
    MaxHands    \* bound: units started again by hand

\* What the constants must be.
AgentUnitsAssumption ==
    /\ Modes \subseteq {"on-demand", "continuous", "cron"}
    /\ {MaxTasks, MaxTimes, MaxKills, MaxHands} \subseteq Nat

VARIABLES
    mode,
    active,    \* which of path and timer are active
    service,   \* "off", "run", or "wait" for its restart
    todo,      \* the units the kill has still to stop
    failed,    \* a systemctl of the kill failed
    killed,    \* history: a kill is through, and nothing was started by hand since
    tasks, times, kills, hands

bounds == <<tasks, times, kills, hands>>
vars == <<mode, active, service, todo, failed, killed, bounds>>

\* The units an agent has, and those of them that start the service.
UnitsOf(m) == CASE m = "on-demand" -> {"path", "service"}
                [] m = "cron" -> {"path", "service", "timer"}
                [] m = "continuous" -> {"service"}
Watchers(m) == UnitsOf(m) \ {"service"}

\* Mutant: the service is stopped before what starts it.
KillOrderServiceFirst == <<"service", "path", "timer">>

\* The order in which the kill stops them.
KillOrder == <<"path", "service", "timer">>

-----------------------------------------------------------------------------
(* systemd.                                                                 *)

Started(s) == IF s = "off" THEN "run" ELSE s

\* A change of the inbox starts the service if the path unit is active.
Deliver ==
    /\ tasks < MaxTasks /\ tasks' = tasks + 1
    /\ service' = IF "path" \in active THEN Started(service) ELSE service
    /\ UNCHANGED <<mode, active, todo, failed, killed, times, kills, hands>>

Elapse ==
    /\ "timer" \in active /\ times < MaxTimes /\ times' = times + 1
    /\ service' = Started(service)
    /\ UNCHANGED <<mode, active, todo, failed, killed, tasks, kills, hands>>

\* A run ends; that of a continuous agent is restarted if it failed.
RunEnds ==
    /\ service = "run"
    /\ service' \in {"off"} \cup IF mode = "continuous" THEN {"wait"} ELSE {}
    /\ UNCHANGED <<mode, active, todo, failed, killed, bounds>>

Restart ==
    /\ service = "wait" /\ service' = "run"
    /\ UNCHANGED <<mode, active, todo, failed, killed, bounds>>

\* Someone starts units of the agent, but not while it is being killed.
StartByHand ==
    /\ todo = << >> /\ hands < MaxHands /\ hands' = hands + 1
    /\ \E some \in SUBSET UnitsOf(mode) \ {{}} :
         /\ active' = active \cup (some \ {"service"})
         /\ service' = IF "service" \in some THEN Started(service) ELSE service
    /\ killed' = FALSE
    /\ UNCHANGED <<mode, todo, failed, tasks, times, kills>>

-----------------------------------------------------------------------------
(* killAgentUnits.                                                          *)

Begin ==
    /\ todo = << >> /\ kills < MaxKills /\ kills' = kills + 1
    /\ todo' = KillOrder /\ failed' = FALSE /\ killed' = FALSE
    /\ UNCHANGED <<mode, active, service, tasks, times, hands>>

\* systemctl fails for a unit that does not exist; the kill goes on.
Stop ==
    /\ todo # << >>
    /\ LET unit == Head(todo) IN
         /\ active' = active \ {unit}
         /\ service' = IF unit = "service" THEN "off" ELSE service
         /\ failed' = (failed \/ unit \notin UnitsOf(mode))
    /\ todo' = Tail(todo) /\ killed' = (Tail(todo) = << >>)
    /\ UNCHANGED <<mode, bounds>>

Init ==
    /\ mode \in Modes
    /\ active \in SUBSET Watchers(mode)
    /\ service \in {"off", "run"}
    /\ todo = << >> /\ failed = FALSE /\ killed = FALSE
    /\ tasks = 0 /\ times = 0 /\ kills = 0 /\ hands = 0

Next == Deliver \/ Elapse \/ RunEnds \/ Restart \/ StartByHand \/ Begin \/ Stop

Spec == Init /\ [][Next]_vars

-----------------------------------------------------------------------------
(* Properties.                                                              *)

\* Only units that the agent has are active, and only a continuous agent's service
\* waits for a restart.
TypeOK ==
    /\ mode \in Modes /\ active \subseteq Watchers(mode)
    /\ service \in {"off", "run"} \cup IF mode = "continuous" THEN {"wait"} ELSE {}
    /\ todo \in {<< >>, KillOrder, Tail(KillOrder), Tail(Tail(KillOrder))}
    /\ {failed, killed} \subseteq BOOLEAN

\* "Stop a running agent's systemd units" (main.go:43): after a kill nothing of the
\* agent runs, and nothing that could start it again is active, whatever arrived or
\* failed while it was being killed; except that the timer of a cron agent, the last to
\* be stopped, may have started one more run.
KilledIsStopped == killed => active = {} /\ (mode # "cron" => service = "off")
=============================================================================
