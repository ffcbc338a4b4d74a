---------------------------- MODULE AgentRuntime ----------------------------
(***************************************************************************)
(* How a run finds the model it talks to.  `conctl run <agent>` parses     *)
(* conos.toml, builds one runtime for the whole loop and resolves the      *)
(* agent again for every task.  The in-process runtime, PicoClaw, reads    *)
(* its key at the first task and removes the secrets from the process's    *)
(* environment; the same environment decides, at every resolution, whether *)
(* a key is an OAuth token that only the Claude command line can use.      *)
(* The model is one process: processes share only what they read.         *)
(***************************************************************************)
EXTENDS Naturals, Sequences

CONSTANTS
    Names,         \* agent names
    Undeclared,    \* an agent that conos.toml does not declare
    Files,         \* contents of conos.toml
    Environments,  \* contents of the environment file
    NotCaptured,   \* PicoClaw has not read its key yet
    MaxTasks       \* bound: tasks of the run

\* "" is unset, everywhere: Go's zero string.
Or(a, b) == IF a = "" THEN b ELSE a

Tiers == {"officer", "operator", "worker"}
KnownSecrets == {"CONOS_API_KEY", "CONOS_OPENROUTER_API_KEY", "CONOS_AUTH_ANTHROPIC",
                 "CONOS_AUTH_OPENAI", "TS_AUTHKEY", "TS_AUTH_KEY"}
PicoClawProviders == {"openrouter", "anthropic", "openai", "ollama", ""}
ClaudeAuth == {"ANTHROPIC_API_KEY", "ANTHROPIC_AUTH_TOKEN", "CLAUDE_CODE_OAUTH_TOKEN"}
KeyKinds == {"", "plain", "oauth"}   \* oauth: starts with sk-ant-oat

Fields == {"runner", "provider", "model", "keyEnv"}
Unset == [f \in Fields |-> ""]

\* What the constants must be.
RuntimeAssumption ==
    /\ \A f \in Files : \A n \in Names :
          f.agents[n] = Undeclared \/ f.agents[n].tier \in Tiers \cup {""}
    /\ \A e \in Environments : e \in [DOMAIN e -> KeyKinds]
    /\ NotCaptured \notin [provider : PicoClawProviders, key : KeyKinds]
    /\ MaxTasks \in Nat

VARIABLES
    file,     \* conos.toml
    agent,    \* the agent it runs
    env,      \* its environment
    started,  \* the environment it started with
    rt,       \* its runtime
    pc,
    calls,    \* what each call of a model could use
    ledger    \* what the ledger says of each task

vars == <<file, agent, env, started, rt, pc, calls, ledger>>

Getenv(e, v) == IF v \in DOMAIN e THEN e[v] ELSE ""
Unsetenv(e, names) == [v \in DOMAIN e |-> IF v \in names THEN "" ELSE e[v]]

-----------------------------------------------------------------------------
(* Parsing and resolution.                                                  *)

\* Sections of the old format fill the tiers that the new one leaves empty.
MigrateLegacy(f) ==
    [t \in Tiers |-> IF f.tiers[t] = Unset THEN f.legacy[t] ELSE f.tiers[t]]

\* Tiers default to worker when the file is parsed.
Parsed(f) ==
    [base |-> f.base,
     tiers |-> MigrateLegacy(f),
     agents |-> [n \in Names |->
                   IF f.agents[n] = Undeclared THEN Undeclared
                   ELSE [f.agents[n] EXCEPT !.tier = Or(@, "worker")]]]

DefaultStrategy(runner) ==
    IF runner = "picoclaw" THEN "windowed"
    ELSE IF runner \in {"claude", "claude-code", "codex"} THEN "stateless"
    ELSE "sticky"

\* What config c, read in environment e, makes of a declaration.
Resolve(c, d, e) ==
    LET Inherited(f) == Or(d[f], Or(c.tiers[d.tier][f], c.base[f]))
        isOAuth == \/ Inherited("keyEnv") = "CLAUDE_CODE_OAUTH_TOKEN"
                   \/ Getenv(e, Inherited("keyEnv")) = "oauth"
        runner == IF isOAuth /\ Inherited("runner") \in {"", "picoclaw"}
                  THEN "claude-code" ELSE Or(Inherited("runner"), "picoclaw")
    IN  [runner |-> runner,
         provider |-> Or(Inherited("provider"), "openrouter"),
         model |-> Inherited("model"),
         keyEnv |-> Or(Inherited("keyEnv"), "CONOS_API_KEY"),
         strategy |-> DefaultStrategy(runner)]

\* AgentConfig{}: all that is known of an agent that is not declared.
Nothing == [runner |-> "", provider |-> "", model |-> "", keyEnv |-> "", strategy |-> ""]

ResolvedAgent(c, n, e) ==
    IF c.agents[n] = Undeclared THEN Nothing ELSE Resolve(c, c.agents[n], e)

\* A commissioned agent is resolved as a worker that sets nothing itself.
Commissioned == [tier |-> "worker", runner |-> "", provider |-> "", model |-> "", keyEnv |-> ""]

ResolvedForTask(c, n, e) ==
    IF c.agents[n] = Undeclared THEN Resolve(c, Commissioned, e)
    ELSE Resolve(c, c.agents[n], e)

Valid(c, e) ==
    \A n \in Names : c.agents[n] # Undeclared =>
       LET a == Resolve(c, c.agents[n], e)
       IN  a.runner \in {"picoclaw", ""} => a.provider \in PicoClawProviders

-----------------------------------------------------------------------------
(* The runtimes.                                                            *)

\* Mutant: the Claude command line is taken for a model PicoClaw can call.
NewForClaude(a) ==
    [kind |-> IF a.runner \in {"picoclaw", "", "claude-code"} THEN "picoclaw" ELSE "exec",
     agent |-> a, cfg |-> NotCaptured]

New(a) ==
    [kind |-> IF a.runner \in {"picoclaw", ""} THEN "picoclaw" ELSE "exec",
     agent |-> a, cfg |-> NotCaptured]

\* No runtime was built yet.
NoRuntime == [kind |-> "none"]

\* Where a provider's key may stand besides the agent's own variable.
ProviderVar == [openrouter |-> "CONOS_OPENROUTER_API_KEY",
                anthropic |-> "CONOS_AUTH_ANTHROPIC",
                openai |-> "CONOS_AUTH_OPENAI"]
Cascade == <<"openrouter", "anthropic", "openai">>

\* The provider PicoClaw will call, and with which key.
BuildPicoConfig(a, e) ==
    LET own == Or(Getenv(e, a.keyEnv), Getenv(e, "CONOS_API_KEY"))
        Key(p) == Or(own, Getenv(e, ProviderVar[p]))
        first == {i \in 1..3 : /\ Key(Cascade[i]) # ""
                               /\ \A j \in 1..(i - 1) : Key(Cascade[j]) = ""}
    IN  IF a.provider = "ollama" THEN [provider |-> "ollama", key |-> Or(own, "plain")]
        ELSE IF a.provider \in DOMAIN ProviderVar
             THEN [provider |-> a.provider, key |-> Key(a.provider)]
        ELSE IF first = {} THEN [provider |-> "", key |-> ""]
        ELSE LET p == Cascade[CHOOSE i \in first : TRUE]
             IN  [provider |-> p, key |-> Key(p)]

Visible(e) == {v \in DOMAIN e : e[v] # ""}

\* Mutant: the agent's own variable stays in the environment.
ClearSecretEnvKnown(e, extra) == Unsetenv(e, KnownSecrets)

ClearSecretEnv(e, extra) == Unsetenv(e, KnownSecrets \cup {extra})

\* The environment of an external command line: no secrets, but for Claude the
\* key that was selected for it.
CommandEnv(a, e) ==
    IF a.runner \in {"claude", "claude-code"}
    THEN [v \in DOMAIN e |-> IF v = a.keyEnv THEN e[v]
                             ELSE IF v \in KnownSecrets \cup ClaudeAuth THEN "" ELSE e[v]]
    ELSE Unsetenv(e, KnownSecrets \cup {a.keyEnv})

-----------------------------------------------------------------------------
(* The process.                                                             *)

Config == Parsed(file)

\* The runtime is built from conos.toml alone, once.
Start ==
    /\ pc = "start"
    /\ IF Valid(Config, env)
       THEN rt' = New(ResolvedAgent(Config, agent, env)) /\ pc' = "loop"
       ELSE pc' = "refused" /\ UNCHANGED rt
    /\ UNCHANGED <<file, agent, env, started, calls, ledger>>

Cached == IF rt.cfg = NotCaptured THEN BuildPicoConfig(rt.agent, env) ELSE rt.cfg

InvokePicoClaw ==
    /\ rt.kind = "picoclaw"
    /\ rt' = [rt EXCEPT !.cfg = Cached]
    /\ env' = IF rt.cfg = NotCaptured THEN ClearSecretEnv(env, rt.agent.keyEnv) ELSE env
    /\ calls' = Append(calls, [provider |-> Cached.provider, key |-> Cached.key,
                               sees |-> Visible(env')])

\* An external command line finds its own model and key.
InvokeExec ==
    /\ rt.kind = "exec"
    /\ calls' = Append(calls, [provider |-> "", key |-> "",
                               sees |-> Visible(CommandEnv(rt.agent, env))])
    /\ UNCHANGED <<rt, env>>

\* The task's agent is resolved anew; the ledger says what that resolution says.
Task ==
    /\ pc = "loop" /\ Len(calls) < MaxTasks
    /\ InvokePicoClaw \/ InvokeExec
    /\ LET a == ResolvedForTask(Config, agent, env)
       IN  \/ ledger' = Append(ledger, [model |-> a.model, strategy |-> a.strategy]) /\ UNCHANGED pc
           \/ pc' = "failed" /\ UNCHANGED ledger
    /\ UNCHANGED <<file, agent, started>>

Drained ==
    /\ pc = "loop" /\ pc' = "done"
    /\ UNCHANGED <<file, agent, env, started, rt, calls, ledger>>

Init ==
    /\ file \in Files
    /\ agent \in Names
    /\ env \in Environments /\ started = env
    /\ rt = NoRuntime /\ pc = "start"
    /\ calls = <<>> /\ ledger = <<>>

Next == Start \/ Task \/ Drained

Spec == Init /\ [][Next]_vars
-----------------------------------------------------------------------------
(* Status: what `conctl status` warns of, from a shell without the keys     *)
(* but with the environment file at hand.                                   *)

\* A conos.toml that is not valid in the shell's environment gets no warning at all.
AuthWarnings(c, e) ==
    {n \in Names : /\ Valid(c, <<>>)
                   /\ c.agents[n] # Undeclared
                   /\ LET a == Resolve(c, c.agents[n], <<>>)
                      IN  /\ a.provider = "anthropic" /\ a.runner = "picoclaw"
                          /\ Or(Getenv(e, a.keyEnv), Getenv(e, "CONOS_AUTH_ANTHROPIC"))
                               \in {"", "oauth"}}

-----------------------------------------------------------------------------
(* Properties.                                                              *)

Called(kind) == IF rt.kind = kind THEN DOMAIN calls ELSE {}
Declared == Config.agents[agent] # Undeclared

\* The state has the expected shape.
TypeOK ==
    /\ file \in Files /\ agent \in Names
    /\ env \in [DOMAIN started -> KeyKinds]
    /\ pc \in {"start", "loop", "refused", "failed", "done"}
    /\ rt = NoRuntime <=> pc \in {"start", "refused"}
    /\ Len(ledger) \in {Len(calls), Len(calls) - 1}
    /\ Called("picoclaw") # {} => rt.cfg # NotCaptured

OneKeyPerRun ==
    \A i \in Called("picoclaw") : /\ calls[i].provider = calls[1].provider
                                  /\ calls[i].key = calls[1].key

SecretsStayInside ==
    Declared => \A i \in DOMAIN calls :
       calls[i].sees \cap (KnownSecrets \cup {rt.agent.keyEnv})
          \subseteq (IF rt.kind = "exec" /\ rt.agent.runner \in {"claude", "claude-code"}
                     THEN {rt.agent.keyEnv} ELSE {})

ClaudeGetsItsKey ==
    \A i \in Called("exec") :
       rt.agent.runner \in {"claude", "claude-code"} =>
          calls[i].sees \cap (ClaudeAuth \cup {rt.agent.keyEnv})
             = {rt.agent.keyEnv} \cap Visible(started)

\* Every task of a loop calls the model with the key of the first, though the secrets
\* were removed from the environment meanwhile; whatever the agent's own key variable
\* is called, no tool of a declared agent sees it, nor any key conctl knows; and an
\* agent that runs Claude, or is forced to, gets the key it was given and no other
\* Claude credential that would take its place.
KeysReachTheirModel == OneKeyPerRun /\ SecretsStayInside /\ ClaudeGetsItsKey

SupportedProvider ==
    Declared => \A i \in Called("picoclaw") : rt.agent.provider \in PicoClawProviders

LedgerNamesTheRuntime ==
    Declared => \A i \in DOMAIN ledger :
       ledger[i] = [model |-> rt.agent.model, strategy |-> rt.agent.strategy]

NoWarningMeansKey ==
    \A i \in Called("picoclaw") :
       /\ Declared /\ rt.agent.provider = "anthropic"
       /\ Valid(Config, <<>>) /\ agent \notin AuthWarnings(Config, started)
       => calls[i].key # ""

\* The agent is resolved three times: by the check of conos.toml, for the runtime, and
\* for every task in an environment that the run itself has changed.  They agree: no
\* declared agent gets to a model call with a provider that PicoClaw cannot call; the
\* ledger names the model and the session strategy of the runtime that answered; and
\* an Anthropic agent of which `conctl status` does not warn has a key, if conos.toml is
\* valid in the shell that status is run from too: a key's value may decide that.
ResolutionsAgree == SupportedProvider /\ LedgerNamesTheRuntime /\ NoWarningMeansKey
=============================================================================
