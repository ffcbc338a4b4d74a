---------------------------- MODULE PolicyContext ---------------------------
(***************************************************************************)
(* The standing policy of a run: the policy files that apply to the agent, *)
(* from the most general to the agent's own, each cut to a limit, are put  *)
(* into the prompt as long as the whole stays within another limit.  The   *)
(* run reads them one by one while officers rewrite them.                  *)
(***************************************************************************)
EXTENDS Naturals, Sequences, Functions

CONSTANTS
    Candidates,   \* the files that apply to the agent, in their order
    Frame,        \* bytes that a section takes besides its content
    Intro,        \* bytes of the sentence before the sections
    MaxFile,      \* maxPolicyFileBytes
    MaxTotal,     \* maxPolicyTotalBytes
    Sizes,        \* bytes that an officer may write into a file
    MaxWrites,    \* bound: files rewritten
    MaxRuns       \* bound: runs of the agent

Files == Range(Candidates)

\* What the constants must be.
PolicyContextAssumption ==
    /\ Candidates \in Seq(STRING) /\ \A i, j \in DOMAIN Candidates :
                                        Candidates[i] = Candidates[j] => i = j
    /\ Frame \in [Files -> Nat] /\ Sizes \subseteq Nat
    /\ {Intro, MaxFile, MaxTotal, MaxWrites, MaxRuns} \subseteq Nat /\ MaxFile > 0
    \* Any three sections fit.
    /\ \A f, g, h \in Files : Intro + 3 * MaxFile + Frame[f] + Frame[g] + Frame[h] <= MaxTotal

VARIABLES
    size,      \* bytes of each policy file; an empty one is as good as none
    writing,   \* files that are truncated and not yet written
    next,      \* the candidate that the run reads next; 0 between runs
    got,       \* what the run has read, as bytes of each file's content
    adding,    \* the candidate whose section it adds next; 0 until all are read
    prompt,    \* the sections of the policy in the prompt, and its bytes
    steady,    \* history: files with content that was not touched since the run began
    writes, runs

vars == <<size, writing, next, adding, got, prompt, steady, writes, runs>>

\* clampString.
Clamp(n) == IF n > MaxFile THEN MaxFile ELSE n

\* The files that have content: the others are no sources.
Sources == {f \in Files : got[f] > 0}

Empty == [refs |-> << >>, bytes |-> 0]
Opening == [refs |-> << >>, bytes |-> Intro]

WithSection(f) == [refs |-> Append(prompt.refs, f), bytes |-> prompt.bytes + Frame[f] + got[f]]
Fits(f) == WithSection(f).bytes <= MaxTotal

-----------------------------------------------------------------------------
(* A run reads the candidates and then adds section after section; officers *)
(* write meanwhile.                                                         *)

Begin ==
    /\ next = 0 /\ runs < MaxRuns /\ runs' = runs + 1
    /\ next' = 1 /\ got' = [f \in Files |-> 0]
    /\ steady' = {f \in Files : size[f] > 0}
    /\ UNCHANGED <<size, writing, adding, prompt, writes>>

Read ==
    /\ next \in DOMAIN Candidates /\ next' = next + 1
    /\ got' = [got EXCEPT ![Candidates[next]] = Clamp(size[Candidates[next]])]
    /\ UNCHANGED <<size, writing, adding, prompt, steady, writes, runs>>

\* Nothing applies: the prompt has no policy at all.
NoPolicy ==
    /\ next = Len(Candidates) + 1 /\ adding = 0 /\ Sources = {}
    /\ next' = 0 /\ prompt' = Empty
    /\ UNCHANGED <<size, writing, adding, got, steady, writes, runs>>

Introduce ==
    /\ next = Len(Candidates) + 1 /\ adding = 0 /\ Sources # {}
    /\ adding' = 1 /\ prompt' = Opening
    /\ UNCHANGED <<size, writing, next, got, steady, writes, runs>>

\* Mutant: a section that does not fit is left out, and the next one is tried.
AddSectionThatFits ==
    /\ adding \in DOMAIN Candidates /\ adding' = adding + 1
    /\ LET f == Candidates[adding] IN
       prompt' = IF f \in Sources /\ Fits(f) THEN WithSection(f) ELSE prompt
    /\ UNCHANGED <<size, writing, next, got, steady, writes, runs>>

AddSection ==
    /\ adding \in DOMAIN Candidates /\ adding' = adding + 1
    /\ LET f == Candidates[adding] IN
       /\ f \in Sources => Fits(f)
       /\ prompt' = IF f \in Sources THEN WithSection(f) ELSE prompt
    /\ UNCHANGED <<size, writing, next, got, steady, writes, runs>>

\* The first section that does not fit is the last to be looked at.
Finish ==
    /\ \/ adding = Len(Candidates) + 1
       \/ adding \in DOMAIN Candidates /\ Candidates[adding] \in Sources
          /\ ~Fits(Candidates[adding])
    /\ next' = 0 /\ adding' = 0
    /\ UNCHANGED <<size, writing, got, prompt, steady, writes, runs>>

Truncate(f) ==
    /\ writes < MaxWrites /\ writes' = writes + 1
    /\ size' = [size EXCEPT ![f] = 0]
    /\ writing' = writing \cup {f} /\ steady' = steady \ {f}
    /\ UNCHANGED <<next, adding, got, prompt, runs>>

Write(f) ==
    /\ f \in writing /\ writing' = writing \ {f}
    /\ \E n \in Sizes : size' = [size EXCEPT ![f] = n]
    /\ UNCHANGED <<next, adding, got, prompt, steady, writes, runs>>

Init ==
    /\ size \in [Files -> Sizes \cup {0}] /\ writing = {}
    /\ next = 0 /\ adding = 0 /\ got = [f \in Files |-> 0]
    /\ prompt = Empty /\ steady = {}
    /\ writes = 0 /\ runs = 0

Next ==
    \/ Begin \/ Read \/ NoPolicy \/ Introduce \/ AddSection \/ Finish
    \/ \E f \in Files : Truncate(f) \/ Write(f)

Spec == Init /\ [][Next]_vars

-----------------------------------------------------------------------------
(* Properties.                                                              *)

\* What was read of a file is within the limit of a file.
TypeOK ==
    /\ size \in [Files -> Nat] /\ got \in [Files -> 0..MaxFile]
    /\ writing \subseteq Files /\ steady \subseteq Files
    /\ {next, adding} \subseteq 0..(Len(Candidates) + 1)
    /\ Range(prompt.refs) \subseteq Files /\ prompt.bytes \in Nat
    /\ {writes, runs} \subseteq Nat

Included == Range(prompt.refs)

PolicyFits ==
    /\ prompt.bytes <= MaxTotal
    /\ next = 0 /\ prompt.bytes > 0 => prompt.refs # << >>

GeneralComesFirst ==
    next = 0 => \A i, j \in DOMAIN Candidates :
        i < j /\ Candidates[j] \in Included /\ Candidates[i] \in steady
            => Candidates[i] \in Included

ThreeAreAlwaysIn ==
    next = 0 /\ (\E f, g, h \in Files : Sources \subseteq {f, g, h}) => steady \subseteq Included

\* However long the files are and whatever officers write meanwhile, the standing
\* policy takes no more of the prompt than it may, and is not an introduction to
\* nothing; a special policy never displaces a more general one that was there all the
\* time; and as long as no more than three apply, none of those is left out.
PolicyHolds == PolicyFits /\ GeneralComesFirst /\ ThreeAreAlwaysIn
=============================================================================
