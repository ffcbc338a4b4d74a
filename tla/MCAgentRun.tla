----------------------------- MODULE MCAgentRun -----------------------------
(* Instances of AgentRun for TLC.                                           *)
EXTENDS AgentRun

CONSTANTS concierge, worker, sysadmin, unitA, unitB, hand

\* Which process runs which agent: `hand` is a second, manual run of concierge.
RunsOf == [r \in Runs |-> IF r = unitB THEN worker ELSE concierge]
\* Without units of its own a worker is only forwarded to.
Half == [a \in Agents |-> IF a = worker THEN "on-demand" ELSE "continuous"]
Mixed == [a \in Agents |-> IF a = worker THEN "cron" ELSE "on-demand"]
=============================================================================
