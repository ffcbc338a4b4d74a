------------------------------- MODULE MCHost -------------------------------
(* Instances of Host for TLC.                                               *)
EXTENDS Host, TLC

CONSTANTS web, batch, human, p1, p2, curl, jq

Symmetric == Permutations(Procs)

-----------------------------------------------------------------------------
(* conos.toml and the environment of a run: one agent, "a", that is         *)
(* declared, and one, "c", that was commissioned, or is declared with a     *)
(* provider that only Claude's command line, and so only a token, excuses.  *)

Secrets == {"CONOS_API_KEY", "CONOS_OPENROUTER_API_KEY", "CONOS_AUTH_ANTHROPIC",
            "CONOS_AUTH_OPENAI", "ANTHROPIC_API_KEY", "ANTHROPIC_AUTH_TOKEN",
            "CLAUDE_CODE_OAUTH_TOKEN", "AGENT_KEY"}

Setting(runner, provider, model, keyEnv) ==
    [runner |-> runner, provider |-> provider, model |-> model, keyEnv |-> keyEnv]
Unset == Setting("", "", "", "")
Declare(tier, s) == s @@ [tier |-> tier]

Agent == {Unset, Setting("picoclaw", "anthropic", "", ""),
          Setting("", "gemini", "", "CLAUDE_CODE_OAUTH_TOKEN"),
          Setting("codex", "", "own", ""), Setting("", "", "", "AGENT_KEY")}

Base == {Unset, Setting("", "anthropic", "base", "CONOS_API_KEY"),
         Setting("claude", "gemini", "", "AGENT_KEY"), Setting("", "ollama", "", "")}

Tier == {Unset, Setting("", "openai", "tier", "AGENT_KEY")}

\* Workers take their tier from the new or from the old format, officers only
\* from the old one.
OneAgent ==
    {[base |-> base,
      tiers |-> [t \in {"officer", "operator", "worker"} |-> IF t = "worker" THEN w ELSE Unset],
      legacy |-> [t \in {"officer", "operator", "worker"} |-> l],
      agents |-> [n \in {"a", "c"} |-> IF n = "a" THEN d ELSE Undeclared]] :
        base \in Base, w \in Tier, l \in {Unset, Setting("", "gemini", "old", "")},
        d \in {Declare(t, s) : t \in {"", "officer"}, s \in Agent}}

UsualTomls ==
    OneAgent \cup
    {[f EXCEPT !.agents["c"] = Declare("", Setting("", "gemini", "", "AGENT_KEY"))] :
        f \in {f \in OneAgent : f.legacy["worker"] = Unset /\ f.tiers["worker"] = Unset}}

\* At most two variables are set.
UsualEnvironments ==
    {[v \in Secrets |-> IF v = x THEN k ELSE IF v = y THEN "plain" ELSE ""] :
        x, y \in Secrets, k \in {"", "plain", "oauth"}}

-----------------------------------------------------------------------------
(* One agent that may use two ports, DNS among them, and one that may use   *)
(* none; the second is taken out; the filter is switched off.               *)

UsualFilters ==
    {[filter |-> "strict", ports |-> (web :> {53, 443}) @@ (batch :> {})],
     [filter |-> "strict", ports |-> (web :> {443})],
     [filter |-> "permissive", ports |-> (web :> {443}) @@ (batch :> {80})]}

-----------------------------------------------------------------------------
(* An operator in two groups.  The frames are those of the headings; of the *)
(* lengths four sections fit exactly, by one byte not, and one is over the  *)
(* limit of a file.                                                         *)

UsualCandidates == <<"global", "tier", "group1", "group2", "agent">>
UsualFrame ==
    "global" :> 20 @@ "tier" :> 28 @@ "group1" :> 30 @@ "group2" :> 30 @@ "agent" :> 30

-----------------------------------------------------------------------------
(* conos.toml with its blocks as the documentation writes them: the name    *)
(* first, a blank line after.                                               *)

Line(kind) == [kind |-> kind, of |-> Nobody, pkgs |-> {}]
Name(n) == [kind |-> "name", of |-> n, pkgs |-> {}]
List(ps) == [kind |-> "packages", of |-> Nobody, pkgs |-> ps]

UsualLayouts ==
    {<<Line("block"), Name(web), Line("blank"),
       Line("block"), Name(batch), List({curl}), Line("blank")>>,
     <<Line("section"), Line("other"), Line("blank"),
       Line("block"), Name(web), List({jq}), Line("other"), Line("blank"),
       Line("block"), Name(batch), Line("other")>>}
=============================================================================
