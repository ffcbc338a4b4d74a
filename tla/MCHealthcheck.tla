---------------------------- MODULE MCHealthcheck ---------------------------
(* Instances of Healthcheck for TLC.                                        *)
EXTENDS Healthcheck, TLC

CONSTANTS svc, hand, X, Y, Z

\* X escalates, Z stops the agents, Y only warns.
Mixed == [k \in Checks |-> IF k = X THEN "escalate" ELSE IF k = Z THEN "halt_agents" ELSE "warn"]

\* X and Z fail or pass, Y warns, or is exempt, or passes.
Audits == {r \in [Checks -> {"pass", "fail", "warn", "exempt"}] :
             \A k \in Checks : r[k] \in IF k = Y THEN {"pass", "warn", "exempt"}
                                        ELSE {"pass", "fail"}}

Failing == {[k \in Checks |-> "fail"]}

Escalating == [k \in Checks |-> "escalate"]
=============================================================================
