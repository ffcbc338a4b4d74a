---------------------------- MODULE MCBootstrap -----------------------------
(* Instances of Bootstrap for TLC.                                          *)
EXTENDS Bootstrap

CONSTANTS a, b

As(mode, tier) == [mode |-> mode, tier |-> tier]
Pair(first, second) == [x \in Agents |-> IF x = a THEN first ELSE second]

\* An officer and a worker; the worker comes, changes its mode, and goes; the
\* officer becomes a worker.
Tomls == {Pair(As("on-demand", "officer"), Undeclared),
          Pair(As("on-demand", "officer"), As("cron", "worker")),
          Pair(As("on-demand", "worker"), As("continuous", "worker"))}
=============================================================================
