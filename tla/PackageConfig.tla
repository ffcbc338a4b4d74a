---------------------------- MODULE PackageConfig ---------------------------
(***************************************************************************)
(* `conctl package install` and `remove` with --save edit conos.toml line  *)
(* by line: they read the file, edit the lines in memory, take the         *)
(* immutable bit off, write the file again in place and put the bit back.  *)
(* Nothing locks the file: commands may overlap, and may be killed, at     *)
(* every step.  A line is what the editor can tell of it.                  *)
(***************************************************************************)
EXTENDS Naturals, Sequences, FiniteSets

CONSTANTS
    Procs,        \* processes of `conctl package`
    Agents,       \* agent names
    Pkgs,         \* package names
    Nobody,       \* no agent
    Layouts,      \* what conos.toml may look like at first
    Garbled,      \* one file's head with the tail of another's
    MaxCommands,  \* bound: commands given
    MaxKills      \* bound: commands killed

Headers == {"block", "table", "section"}   \* [[agents]], [[other]], [other]
Lists == {"packages", "open"}              \* on one line, or opened on it
Lines == [kind : Headers \cup Lists \cup {"name", "blank", "other"},
          of : Agents \cup {Nobody}, pkgs : SUBSET Pkgs]

Flags == {"--agent", "--save"}

\* What the constants must be.
PackageAssumption ==
    /\ Nobody \notin Agents /\ \A w \in Agents \cup Pkgs : w \notin Flags
    /\ Garbled \notin Seq(Lines)
    /\ \A l \in Layouts : l \in Seq(Lines)
    /\ MaxCommands \in Nat /\ MaxKills \in Nat

VARIABLES
    conf,       \* conos.toml
    immutable,  \* its immutable bit
    installed,  \* packages apt has installed
    pc,
    job,        \* the command each process carries out, and the lines it holds
    given, kills,
    first,      \* history: conos.toml at first
    asked,      \* history: the installs that were ever given
    intended,   \* history: what the commands that reported success add up to
    alone       \* history: no command overlapped, was killed or failed to write

bounds == <<given, kills>>
history == <<first, asked, intended>>
vars == <<conf, immutable, installed, pc, job, bounds, history, alone>>

-----------------------------------------------------------------------------
(* What TOML makes of the lines.                                            *)

\* The header a line stands under; 0 at the top of the file.
Header(lines, i) ==
    LET above == {h \in 1..i : lines[h].kind \in Headers}
    IN  IF above = {} THEN 0 ELSE CHOOSE h \in above : \A g \in above : g <= h

Owns(lines, i, a) ==
    \E j \in DOMAIN lines :
       /\ lines[j].kind = "name" /\ lines[j].of = a
       /\ Header(lines, j) = Header(lines, i)
       /\ Header(lines, i) # 0 /\ lines[Header(lines, i)].kind = "block"

Listed(lines) ==
    [a \in Agents |->
       UNION {lines[i].pkgs : i \in {k \in DOMAIN lines : /\ lines[k].kind \in Lists
                                                          /\ Owns(lines, k, a)}}]

\* A key must not stand twice under a header.
WellFormed(lines) ==
    \A i, j \in DOMAIN lines :
       /\ lines[i].kind \in Lists /\ lines[j].kind \in Lists
       /\ Header(lines, i) = Header(lines, j)
       => i = j

\* The other lines, each with its number among them.
OtherLines(lines) == {k \in DOMAIN lines : lines[k].kind \notin Lists}
Rest(lines) == {<<Cardinality({k \in OtherLines(lines) : k <= i}), lines[i]>> : i \in OtherLines(lines)}

-----------------------------------------------------------------------------
(* The editor.                                                              *)

\* The first line after i that ends the search, or the end of the file.
Stop(lines, i, kinds) ==
    LET ends == {k \in DOMAIN lines : k > i /\ lines[k].kind \in kinds}
    IN  IF ends = {} THEN Len(lines) + 1 ELSE CHOOSE k \in ends : \A m \in ends : k <= m

KindAt(lines, i) == IF i \in DOMAIN lines THEN lines[i].kind ELSE "end"

\* A search that runs into the next [[agents]] starts over.
Found(lines, a, kinds, wanted) ==
    {i \in DOMAIN lines : /\ lines[i].kind = "name" /\ lines[i].of = a
                          /\ KindAt(lines, Stop(lines, i, kinds)) \in wanted}

FirstOf(S) == CHOOSE i \in S : \A j \in S : i <= j

NotFound == [result |-> "error", lines |-> <<>>]

\* The file with line l inserted at i.
InsertLine(lines, i, l) == SubSeq(lines, 1, i - 1) \o <<l>> \o SubSeq(lines, i, Len(lines))

\* A list that ends on another line is written back as it was.
SavePackage(lines, a, p) ==
    LET ends == Lists \cup {"block", "table", "blank"}
        at == Found(lines, a, ends, (ends \ {"block"}) \cup {"end"})
        stop == Stop(lines, FirstOf(at), ends)
    IN  IF at = {} THEN NotFound
        ELSE IF KindAt(lines, stop) = "packages" /\ p \in lines[stop].pkgs
             THEN [result |-> "present", lines |-> lines]
        ELSE IF KindAt(lines, stop) = "packages"
             THEN [result |-> "write", lines |-> [lines EXCEPT ![stop].pkgs = @ \cup {p}]]
        ELSE IF KindAt(lines, stop) = "open" THEN [result |-> "write", lines |-> lines]
        ELSE [result |-> "write",
              lines |-> InsertLine(lines, stop, [kind |-> "packages", of |-> Nobody, pkgs |-> {p}])]

\* Mutant: the list is emptied.
RemovePackageAll(lines, a, p) ==
    LET ends == Lists \cup {"block"}
        at == Found(lines, a, ends, Lists)
    IN  [result |-> "write",
         lines |-> IF at = {} THEN lines
                   ELSE [lines EXCEPT ![Stop(lines, FirstOf(at), ends)].pkgs = {}]]

\* Blank lines and other tables do not end the search here, and a file without
\* the agent is written back as it was.
RemovePackage(lines, a, p) ==
    LET ends == Lists \cup {"block"}
        at == Found(lines, a, ends, Lists)
        stop == Stop(lines, FirstOf(at), ends)
    IN  [result |-> "write",
         lines |-> IF at = {} \/ KindAt(lines, stop) = "open" THEN lines
                   ELSE [lines EXCEPT ![stop].pkgs = @ \ {p}]]

\* conos.toml as the documentation writes it: each agent is named once, in a block of
\* its own and before its list, and no blank line or other table parts the two.
AsDocumented(lines) ==
    LET names == {i \in DOMAIN lines : lines[i].kind = "name" /\ lines[i].of # Nobody}
        end(i) == Stop(lines, i, Lists \cup {"block", "table", "blank"})
    IN  /\ WellFormed(lines)
        /\ \A i \in names :
             /\ KindAt(lines, Header(lines, i)) = "block"
             /\ \A j \in names :
                  lines[j].of = lines[i].of \/ Header(lines, j) = Header(lines, i) => j = i
             /\ \A k \in DOMAIN lines :
                  lines[k].kind \in Lists /\ Header(lines, k) = Header(lines, i)
                  => lines[k].kind = "packages" /\ k = end(i)
             /\ \A k \in i..(end(i) - 1) : lines[k].kind # "section"

-----------------------------------------------------------------------------
(* The command line: words, of which the flags start with a dash.           *)

IsFlag(w) == w \in Flags

\* Flags, each with the word after it unless that is a flag, then the others: the
\* k-th word of the result is the one that has k - 1 words before it.
ReorderArgs(words) ==
    LET moved(i) == IsFlag(words[i]) \/ (i > 1 /\ IsFlag(words[i - 1]))
        comes(i, j) == (moved(i) /\ ~moved(j)) \/ ((moved(i) <=> moved(j)) /\ i < j)
        before(j) == {i \in DOMAIN words : comes(i, j)}
    IN  [k \in DOMAIN words |->
           words[CHOOSE j \in DOMAIN words : Cardinality(before(j)) = k - 1]]

\* Package flag: --save takes no value, and the flags end at the first word
\* that is neither a flag nor a value.
FlagParse(words) ==
    LET value(i) == i > 1 /\ words[i - 1] = "--agent"
        end == FirstOf({i \in 1..(Len(words) + 1) :
                          i > Len(words) \/ ~(IsFlag(words[i]) \/ value(i))})
        at == {i \in 1..(end - 1) : value(i)}
    IN  [agent |-> IF at = {} THEN Nobody ELSE words[FirstOf(at)],
         save |-> \E i \in 1..(end - 1) : words[i] = "--save",
         pkg |-> IF end > Len(words) THEN Nobody ELSE words[end]]

\* A command given with both flags, in every order of its parts.
Spellings(a, p) ==
    {<<"--agent", a, "--save", p>>, <<"--agent", a, p, "--save">>, <<"--save", "--agent", a, p>>,
     <<"--save", p, "--agent", a>>, <<p, "--agent", a, "--save">>, <<p, "--save", "--agent", a>>}

\* What is typed, and what is understood.
CommandLines ==
    UNION {{[agent |-> a, pkg |-> k, parsed |-> FlagParse(ReorderArgs(words))] :
              words \in Spellings(a, k)} : a \in Agents, k \in Pkgs}

-----------------------------------------------------------------------------
(* The commands.                                                            *)

Idle == [op |-> "none", agent |-> Nobody, save |-> FALSE, pkg |-> Nobody,
         lines |-> <<>>, ok |-> FALSE]

Goto(p, label) == pc' = [pc EXCEPT ![p] = label]

Exit(p) == Goto(p, "idle") /\ job' = [job EXCEPT ![p] = Idle]

\* Install needs an agent; remove without one leaves conos.toml alone.
Start(p) ==
    /\ pc[p] = "idle" /\ given < MaxCommands
    /\ \E op \in {"install", "remove"}, line \in CommandLines :
          LET parsed == line.parsed
          IN  IF parsed.pkg = Nobody \/ (op = "install" /\ parsed.agent = Nobody)
              THEN Exit(p) /\ UNCHANGED asked
              ELSE /\ job' = [job EXCEPT ![p] =
                                [op |-> op, agent |-> parsed.agent, save |-> parsed.save,
                                 pkg |-> parsed.pkg, lines |-> <<>>, ok |-> FALSE]]
                   /\ Goto(p, "apt")
                   /\ asked' = IF op = "install" THEN asked \cup {<<line.agent, line.pkg>>} ELSE asked
    /\ given' = given + 1
    /\ alone' = (alone /\ \A q \in Procs : pc[q] = "idle")
    /\ UNCHANGED <<conf, immutable, installed, kills, first, intended>>

Apt(p) ==
    /\ pc[p] = "apt"
    /\ \/ /\ installed' = IF job[p].op = "install" THEN installed \cup {job[p].pkg}
                          ELSE installed \ {job[p].pkg}
          /\ IF job[p].save /\ job[p].agent # Nobody
             THEN Goto(p, "read") /\ UNCHANGED job ELSE Exit(p)
       \/ Exit(p) /\ UNCHANGED installed
    /\ UNCHANGED <<conf, immutable, bounds, history, alone>>

Edit(lines, j) ==
    IF j.op = "install" THEN SavePackage(lines, j.agent, j.pkg)
    ELSE RemovePackage(lines, j.agent, j.pkg)

Add(m, j) ==
    [m EXCEPT ![j.agent] = IF j.op = "install" THEN @ \cup {j.pkg} ELSE @ \ {j.pkg}]

\* A garbled file has the agent's lines or has lost them, and stays garbled.
Edits(p) ==
    IF conf # Garbled THEN {Edit(conf, job[p])}
    ELSE {NotFound, [result |-> "present", lines |-> Garbled], [result |-> "write", lines |-> Garbled]}

Read(p) ==
    /\ pc[p] = "read"
    /\ \E e \in Edits(p) :
          CASE e.result = "write" ->
                  /\ job' = [job EXCEPT ![p].lines = e.lines]
                  /\ Goto(p, "mutable") /\ UNCHANGED intended
            [] e.result = "present" -> Exit(p) /\ intended' = Add(intended, job[p])
            [] OTHER -> Exit(p) /\ UNCHANGED intended
    /\ UNCHANGED <<conf, immutable, installed, bounds, first, asked, alone>>

Mutable(p) ==
    /\ pc[p] = "mutable"
    /\ immutable' = FALSE
    /\ Goto(p, "truncate")
    /\ UNCHANGED <<conf, installed, job, bounds, history, alone>>

\* Opening an immutable file for writing fails.
Truncate(p) ==
    /\ pc[p] = "truncate"
    /\ IF immutable THEN Goto(p, "immutable") /\ UNCHANGED conf
       ELSE conf' = <<>> /\ Goto(p, "write")
    /\ UNCHANGED <<immutable, installed, job, bounds, history, alone>>

\* The write may fail: the disk is full, or the file became immutable after it
\* was opened, where kernels differ.
Write(p) ==
    /\ pc[p] = "write"
    /\ \/ /\ conf' = job[p].lines \/ (conf # <<>> /\ conf' = Garbled)
          /\ job' = [job EXCEPT ![p].ok = TRUE]
          /\ UNCHANGED alone
       \/ alone' = FALSE /\ UNCHANGED <<conf, job>>
    /\ Goto(p, "immutable")
    /\ UNCHANGED <<immutable, installed, bounds, history>>

\* Mutant: the bit is put back only after a write that succeeded.
ImmutableIfWritten(p) ==
    /\ pc[p] = "immutable"
    /\ immutable' = (immutable \/ job[p].ok)
    /\ intended' = IF job[p].ok THEN Add(intended, job[p]) ELSE intended
    /\ Exit(p)
    /\ UNCHANGED <<conf, installed, bounds, first, asked, alone>>

\* The bit is put back whatever happened, then the command reports.  (An error of
\* chattr is ignored; the model's file system has the bit and lets root set it.)
Immutable(p) ==
    /\ pc[p] = "immutable"
    /\ immutable' = TRUE
    /\ intended' = IF job[p].ok THEN Add(intended, job[p]) ELSE intended
    /\ Exit(p)
    /\ UNCHANGED <<conf, installed, bounds, first, asked, alone>>

Kill(p) ==
    /\ pc[p] # "idle" /\ kills < MaxKills
    /\ kills' = kills + 1 /\ alone' = FALSE
    /\ Exit(p)
    /\ UNCHANGED <<conf, immutable, installed, given, history>>

Init ==
    /\ conf \in Layouts /\ first = conf
    /\ immutable = TRUE
    /\ installed = {}
    /\ pc = [p \in Procs |-> "idle"] /\ job = [p \in Procs |-> Idle]
    /\ given = 0 /\ kills = 0
    /\ asked = {} /\ intended = Listed(conf) /\ alone = TRUE

Next ==
    \E p \in Procs :
       \/ Start(p) \/ Apt(p) \/ Read(p) \/ Mutable(p)
       \/ Truncate(p) \/ Write(p) \/ Immutable(p) \/ Kill(p)

Spec == Init /\ [][Next]_vars

-----------------------------------------------------------------------------
(* Properties.                                                              *)

Quiet == \A p \in Procs : pc[p] = "idle"

\* The state has the expected shape: what a process writes, it has read.
TypeOK ==
    /\ conf = Garbled \/ conf \in Seq(Lines)
    /\ immutable \in BOOLEAN /\ installed \subseteq Pkgs
    /\ pc \in [Procs -> {"idle", "apt", "read", "mutable", "truncate", "write", "immutable"}]
    /\ \A p \in Procs : /\ job[p].lines = Garbled \/ job[p].lines \in Seq(Lines)
                        /\ pc[p] = "idle" <=> job[p] = Idle
    /\ given \in 0..MaxCommands /\ kills \in 0..MaxKills
    /\ intended \in [Agents -> SUBSET Pkgs]
    /\ \A r \in asked : r \in Agents \X Pkgs

QuietFileIsIntended ==
    alone /\ Quiet => conf # Garbled /\ Listed(conf) = intended

RestIsKept ==
    conf \notin {Garbled, <<>>} => Rest(conf) = Rest(first) /\ WellFormed(conf)

NothingInvented ==
    conf # Garbled =>
       \A a \in Agents : \A k \in Listed(conf)[a] :
          k \in Listed(first)[a] \/ <<a, k>> \in asked

\* Commands that do not overlap, are not killed and can write leave conos.toml with
\* exactly the packages their reports add up to, agent by agent.  However they overlap
\* and wherever they are killed, a file that is neither cut nor garbled has all its
\* other lines, no key twice, and no package that an agent neither had nor was to have.
OnlyIntendedChanges == QuietFileIsIntended /\ RestIsKept /\ NothingInvented

\* Through failed writes and overlaps, conos.toml is immutable again when every
\* command has ended and none was killed, if the file system can make it so.
ImmutableAtRest == Quiet /\ kills = 0 => immutable
=============================================================================
