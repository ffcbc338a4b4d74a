---------------------------- MODULE ThreadContext ---------------------------
(***************************************************************************)
(* What an agent remembers of one conversation: the recent turns, a brief  *)
(* of summarised turns, and the open items.  A run reads the three files   *)
(* for its prompt, invokes the model, answers, and then reads them again   *)
(* and writes them one after the other.  Nothing is locked: two runs of    *)
(* the agent may overlap, and a run may be killed between any two files.   *)
(***************************************************************************)
EXTENDS Naturals, Sequences, Functions, FiniteSets

CONSTANTS
    Procs,        \* runs of the agent
    RecentTurns,  \* recent_turns in conos.toml, or its default
    BriefLimits,  \* values of brief_max_bytes, in lines; 0: unlimited,
                  \* where the file has a negative one (0 there means the default)
    Garbled,      \* a file that is no JSON: empty, or with the tail of another
    MaxServed,    \* bound: exchanges
    MaxKills      \* bound: killed runs

VARIABLES
    recent,    \* recent.jsonl
    brief,     \* the summary lines of brief.md
    facts,     \* facts.json: the exchange whose open items it lists, 0 for none
    briefMax,  \* the agent's brief_max_bytes.  It never changes.
    pc,        \* the file operation each run does next
    mem,       \* what each run has read, and later what it is to write
    served,    \* exchanges answered so far
    kills,
    alone      \* history: no two runs have overlapped

disk == <<recent, brief, facts>>
vars == <<disk, briefMax, pc, mem, served, kills, alone>>

Turns == [role : {"user", "assistant"}, msg : 1..MaxServed]
Windows == {s \in Seq(Turns) : Len(s) <= RecentTurns}
Lines == [role : {"user", "assistant"}, msg : 1..MaxServed, latest : BOOLEAN]

Nothing == [recent |-> << >>, brief |-> << >>, facts |-> 0, msg |-> 0, items |-> FALSE]

\* What the constants must be.
ThreadAssumption ==
    /\ RecentTurns \in Nat \ {0}
    /\ BriefLimits \subseteq Nat
    /\ MaxServed \in Nat /\ MaxKills \in Nat
    /\ Garbled \notin Nat /\ Garbled \notin Windows

\* Mutant: the brief is written before the window.
ScriptBriefFirst ==
    <<"seeBrief", "seeRecent", "seeFacts", "invoke",
      "loadRecent", "loadFacts", "loadBrief",
      "truncateBrief", "writeBrief", "truncateRecent", "writeRecent",
      "truncateFacts", "writeFacts", "idle">>

\* The file operations of a run, in their order.
Script ==
    <<"seeBrief", "seeRecent", "seeFacts", "invoke",
      "loadRecent", "loadFacts", "loadBrief",
      "truncateRecent", "writeRecent", "truncateBrief", "writeBrief",
      "truncateFacts", "writeFacts", "idle">>

After(label) == LET i == CHOOSE i \in DOMAIN Script : Script[i] = label IN Script[i + 1]

\* The run does `label` and goes on; after the last operation it has ended.
Do(p, label) ==
    /\ pc[p] = label
    /\ pc' = [pc EXCEPT ![p] = After(label)]
    /\ UNCHANGED <<briefMax, kills, alone>>

\* The run ends before its last operation.
Stop(p, label) ==
    /\ pc[p] = label
    /\ pc' = [pc EXCEPT ![p] = "idle"]
    /\ mem' = [mem EXCEPT ![p] = Nothing]
    /\ UNCHANGED <<disk, briefMax, served, kills, alone>>

Start(p) ==
    /\ pc[p] = "idle" /\ served < MaxServed
    /\ pc' = [pc EXCEPT ![p] = "seeBrief"]
    /\ alone' = (alone /\ \A q \in Procs : pc[q] = "idle")
    /\ UNCHANGED <<disk, briefMax, mem, served, kills>>

SeeBrief(p) ==
    /\ Do(p, "seeBrief")
    /\ mem' = [mem EXCEPT ![p].brief = brief]
    /\ UNCHANGED <<disk, served>>

\* loadThreadContext, for the prompt and again for the update.
ReadRecent(p) ==
    \E label \in {"seeRecent", "loadRecent"} :
       \/ /\ recent # Garbled
          /\ Do(p, label)
          /\ mem' = [mem EXCEPT ![p].recent = recent]
          /\ UNCHANGED <<disk, served>>
       \/ recent = Garbled /\ Stop(p, label)

ReadFacts(p) ==
    \E label \in {"seeFacts", "loadFacts"} :
       \/ /\ facts # Garbled
          /\ Do(p, label)
          /\ mem' = [mem EXCEPT ![p].facts = facts]
          /\ UNCHANGED <<disk, served>>
       \/ facts = Garbled /\ Stop(p, label)

\* The model answers, with or without open items, and the answer is delivered.
Invoke(p) ==
    /\ Do(p, "invoke") /\ served < MaxServed
    /\ served' = served + 1
    /\ \E items \in BOOLEAN :
         mem' = [mem EXCEPT ![p] = [Nothing EXCEPT !.msg = served + 1, !.items = items]]
    /\ UNCHANGED disk

-----------------------------------------------------------------------------
(* persistThreadContext: what is to be written.                             *)

Newest(s, n) == IF Len(s) <= n THEN s ELSE SubSeq(s, Len(s) - n + 1, Len(s))

WithExchange(s, n) ==
    s \o << [role |-> "user", msg |-> n], [role |-> "assistant", msg |-> n] >>

Window(turns) == Newest(turns, RecentTurns)

Overflow(turns) ==
    IF Len(turns) <= RecentTurns THEN << >> ELSE SubSeq(turns, 1, Len(turns) - RecentTurns)

Summary(turn) == [role |-> turn.role, msg |-> turn.msg, latest |-> FALSE]
Summaries(turns) == [i \in DOMAIN turns |-> Summary(turns[i])]

\* Mutant: an earlier line of the latest exchange is left as it is.
WithLatestOnce(lines, n) ==
    IF \E i \in DOMAIN lines : lines[i].latest THEN lines
    ELSE Append(lines, [role |-> "assistant", msg |-> n, latest |-> TRUE])

\* The line of the latest exchange replaces the first one of an earlier exchange.
WithLatest(lines, n) ==
    LET line == [role |-> "assistant", msg |-> n, latest |-> TRUE]
        earlier == {i \in DOMAIN lines : lines[i].latest} IN
    IF earlier = {} THEN Append(lines, line)
    ELSE [lines EXCEPT ![CHOOSE i \in earlier : \A j \in earlier : i <= j] = line]

Trimmed(lines) == IF briefMax = 0 THEN lines ELSE Newest(lines, briefMax)

NewBrief(p) ==
    LET turns == WithExchange(mem[p].recent, mem[p].msg) IN
    Trimmed(WithLatest(brief \o Summaries(Overflow(turns)), mem[p].msg))

NewRecent(p) == Window(WithExchange(mem[p].recent, mem[p].msg))

\* The summary lines are read last; then both documents are made.
LoadBrief(p) ==
    /\ Do(p, "loadBrief")
    /\ mem' = [mem EXCEPT ![p].recent = NewRecent(p), ![p].brief = NewBrief(p)]
    /\ UNCHANGED <<disk, served>>

-----------------------------------------------------------------------------
(* persistThreadContext: the files, each truncated and then written.  Over a *)
(* longer file that another run wrote since the truncation, a tail remains.  *)

\* An empty recent.jsonl has no turns.
TruncateRecent(p) ==
    /\ Do(p, "truncateRecent")
    /\ recent' = << >>
    /\ UNCHANGED <<brief, facts, mem, served>>

WriteRecent(p) ==
    /\ Do(p, "writeRecent")
    /\ \/ recent' = mem[p].recent
       \/ recent # << >> /\ recent' = Garbled
    /\ UNCHANGED <<brief, facts, mem, served>>

TruncateBrief(p) ==
    /\ Do(p, "truncateBrief")
    /\ brief' = << >>
    /\ UNCHANGED <<recent, facts, mem, served>>

WriteBrief(p) ==
    /\ Do(p, "writeBrief")
    /\ \E i \in 1..Len(brief) + 1 : brief' = mem[p].brief \o SubSeq(brief, i, Len(brief))
    /\ UNCHANGED <<recent, facts, mem, served>>

\* An empty facts.json is no JSON.
TruncateFacts(p) ==
    /\ Do(p, "truncateFacts")
    /\ facts' = Garbled
    /\ UNCHANGED <<recent, brief, mem, served>>

\* Open items stay until an output has some of its own.
WriteFacts(p) ==
    /\ Do(p, "writeFacts")
    /\ \/ facts' = IF mem[p].items THEN mem[p].msg ELSE mem[p].facts
       \/ facts # Garbled /\ facts' = Garbled
    /\ mem' = [mem EXCEPT ![p] = Nothing]
    /\ UNCHANGED <<recent, brief, served>>

Kill(p) ==
    /\ pc[p] # "idle" /\ kills < MaxKills
    /\ kills' = kills + 1
    /\ pc' = [pc EXCEPT ![p] = "idle"]
    /\ mem' = [mem EXCEPT ![p] = Nothing]
    /\ UNCHANGED <<disk, briefMax, served, alone>>

Init ==
    /\ recent = << >> /\ brief = << >> /\ facts = 0
    /\ briefMax \in BriefLimits
    /\ pc = [p \in Procs |-> "idle"]
    /\ mem = [p \in Procs |-> Nothing]
    /\ served = 0 /\ kills = 0 /\ alone = TRUE

Next ==
    \E p \in Procs :
       \/ Start(p) \/ SeeBrief(p) \/ ReadRecent(p) \/ ReadFacts(p) \/ Invoke(p)
       \/ LoadBrief(p)
       \/ TruncateRecent(p) \/ WriteRecent(p) \/ TruncateBrief(p) \/ WriteBrief(p)
       \/ TruncateFacts(p) \/ WriteFacts(p) \/ Kill(p)

Spec == Init /\ [][Next]_vars

-----------------------------------------------------------------------------

TypeOK ==
    /\ recent \in Windows \cup {Garbled}
    /\ brief \in Seq(Lines)
    /\ facts \in 0..MaxServed \cup {Garbled}
    /\ briefMax \in BriefLimits
    /\ \A p \in Procs :
         /\ pc[p] \in Range(Script)
         /\ mem[p].recent \in Windows /\ mem[p].brief \in Seq(Lines)
         /\ mem[p].facts \in 0..MaxServed /\ mem[p].msg \in 0..MaxServed
         /\ mem[p].items \in BOOLEAN
    /\ served \in Nat /\ kills \in Nat /\ alone \in BOOLEAN

Undisturbed == alone /\ kills = 0

\* The lines of turns that left the window, and the turn that each of them summarises.
Summarised(lines) == {i \in DOMAIN lines : ~lines[i].latest}
Said(line) == [role |-> line.role, msg |-> line.msg]

\* The turns in a window and a brief: what a run tells the model of the conversation.
Past(turns, lines) == Range(turns) \cup {Said(lines[i]) : i \in Summarised(lines)}
Told(p) == Past(mem[p].recent, mem[p].brief)

PromptKnowsThePast ==
    Undisturbed /\ briefMax = 0 =>
       \A p \in Procs : pc[p] = "invoke" =>
          Told(p) = [role : {"user", "assistant"}, msg : 1..served]

Once(turns, lines) ==
    /\ IsInjective(turns)
    /\ \A i \in Summarised(lines) :
         /\ Said(lines[i]) \notin Range(turns)
         /\ \A j \in Summarised(lines) : Said(lines[j]) = Said(lines[i]) => j = i

NoTurnTwice == alone /\ recent # Garbled => Once(recent, brief)

\* A turn that leaves the window is summarised, once.  So with an unlimited brief the
\* model is told of every earlier turn of its thread (no run was killed, none
\* overlapped); and a turn is in the window or summarised, not both and not twice,
\* also when runs are killed between the two files (none overlapped).
EachTurnIsToldOnce == PromptKnowsThePast /\ NoTurnTwice

\* "Always keep a rolling summary of the latest exchange": with an unlimited brief
\* a thread at rest has exactly one line of the latest exchange.  (A trimmed brief
\* may lose it.)
LatestIsSummarised ==
    Undisturbed /\ briefMax = 0 /\ served > 0 /\ (\A p \in Procs : pc[p] = "idle") =>
       \E i \in DOMAIN brief :
          /\ {j \in DOMAIN brief : brief[j].latest} = {i}
          /\ brief[i].msg = served
=============================================================================
