------------------------------ MODULE Artifacts -----------------------------
(***************************************************************************)
(* Artifacts and their signed links.  `conctl artifact create` writes the  *)
(* content, the public view and then the manifest; `conctl artifact link`  *)
(* reads the manifest, signs a link and writes the manifest again; the     *)
(* artifact-auth server checks links against the manifest and the signing  *)
(* key it read when it started.  Commands may overlap and may be killed    *)
(* between any two file operations; the key file may be replaced.  Time is *)
(* counted in half seconds, links expire at whole seconds.                 *)
(***************************************************************************)
EXTENDS Naturals, FiniteSets

CONSTANTS
    Procs,      \* processes of `conctl artifact create` and `link`
    Ids,        \* artifact ids; no two creations draw the same
    NoId,       \* no artifact
    Keys,       \* contents of the signing key file
    NoKey,      \* the server is not running
    Ttls,       \* values of --ttl, in half seconds
    NoFile,     \* the manifest does not exist
    Garbled,    \* a manifest that is no JSON: empty, or with the tail of another
    MaxTime,    \* bound: the clock
    MaxLinks,   \* bound: links
    MaxKills    \* bound: killed commands

VARIABLES
    now,
    keyFile,    \* the signing key
    server,     \* the key the artifact-auth server has read
    files,      \* which files of each artifact are complete
    manifest,   \* artifact.json
    pc,         \* the operation each command does next
    job,        \* its artifact, and the manifest it is to write
    issued,     \* history: the links that were printed, and until when they were said to hold
    kills,
    alone       \* history: no two commands have overlapped

bounds == <<now, kills>>
vars == <<bounds, keyFile, server, files, manifest, pc, job, issued, alone>>

Exposures == {"private", "dashboard_local", "authenticated_dashboard"}
Parts == {"content", "page", "index"}

\* A signature stands for what was signed, with which key.
Links == [id : Ids, exp : Nat, key : Keys]
Manifests == [exposure : Exposures, links : SUBSET Links]

ASSUME ArtifactAssumption ==
    /\ NoId \notin Ids /\ NoKey \notin Keys
    /\ NoFile \notin Links \cup Manifests
    /\ Garbled \notin Manifests /\ NoFile # Garbled
    /\ Ttls \subseteq Nat \ {0}
    /\ MaxTime \in Nat /\ MaxLinks \in Nat /\ MaxKills \in Nat

\* A command holds an artifact, the manifest it is to write, and the link it is
\* to print with its expiry.
Job(id, doc, link, until) == [id |-> id, doc |-> doc, link |-> link, until |-> until]
Idle == Job(NoId, NoFile, NoFile, 0)

Goto(p, label) == pc' = [pc EXCEPT ![p] = label]

\* The command exits or is killed.
Leave(p) == Goto(p, "idle") /\ job' = [job EXCEPT ![p] = Idle]

Start(p, label) ==
    /\ pc[p] = "idle"
    /\ Goto(p, label)
    /\ alone' = (alone /\ \A q \in Procs : pc[q] = "idle")

-----------------------------------------------------------------------------
(* artifact create                                                          *)

Drawn == {id \in Ids : files[id] # {} \/ \E p \in Procs : job[p].id = id}

Create(p) ==
    /\ Start(p, "content")
    /\ \E id \in Ids \ Drawn, e \in Exposures :
         job' = [job EXCEPT ![p] = Job(id, [exposure |-> e, links |-> {}], NoFile, 0)]
    /\ UNCHANGED <<bounds, keyFile, server, files, manifest, issued>>

\* Mutant: no public view for what only authenticated users may see.
AfterPartUnlessAuthenticated(p, part) ==
    IF part = "content" /\ job[p].doc.exposure = "dashboard_local" THEN "page"
    ELSE IF part = "page" THEN "index"
    ELSE "truncate"

\* A private artifact has no public view.
AfterPart(p, part) ==
    IF part = "content" /\ job[p].doc.exposure # "private" THEN "page"
    ELSE IF part = "page" THEN "index"
    ELSE "truncate"

\* The parts of an artifact are written once, and nobody reads them before its
\* manifest is there: one step each.
WritePart(p) ==
    \E part \in Parts :
       /\ pc[p] = part
       /\ files' = [files EXCEPT ![job[p].id] = @ \cup {part}]
       /\ Goto(p, AfterPart(p, part))
       /\ UNCHANGED <<bounds, keyFile, server, manifest, job, issued, alone>>

-----------------------------------------------------------------------------
(* artifact link                                                            *)

\* Show: an artifact without a readable manifest is an error.
Show(p) ==
    /\ Start(p, "mint")
    /\ \E id \in {i \in Ids : manifest[i] \notin {NoFile, Garbled}} :
         job' = [job EXCEPT ![p] = Job(id, manifest[id], NoFile, 0)]
    /\ UNCHANGED <<bounds, keyFile, server, files, manifest, issued>>

\* Mutant: the expiry is cut to two seconds.
UnixCoarse(t) == (t \div 4) * 2

\* Expiries are counted in whole seconds.
Unix(t) == t \div 2

\* Mutant: the list of links is overwritten.
RecordedAlone(doc, link) == [doc EXCEPT !.links = {link}]

Recorded(doc, link) == [doc EXCEPT !.links = @ \cup {link}]

Mint(p) ==
    /\ pc[p] = "mint" /\ Cardinality(issued) < MaxLinks
    /\ \E ttl \in Ttls :
         LET link == [id |-> job[p].id, exp |-> Unix(now + ttl), key |-> keyFile] IN
         job' = [job EXCEPT ![p] = Job(job[p].id, Recorded(job[p].doc, link), link, now + ttl)]
    /\ Goto(p, "truncate")
    /\ UNCHANGED <<bounds, keyFile, server, files, manifest, issued, alone>>

\* Create and Save write the manifest alike: truncate, then write.
Truncate(p) ==
    /\ pc[p] = "truncate"
    /\ manifest' = [manifest EXCEPT ![job[p].id] = Garbled]
    /\ Goto(p, "write")
    /\ UNCHANGED <<bounds, keyFile, server, files, job, issued, alone>>

\* Over a longer manifest written since the truncation its tail remains.  Then a
\* link is printed.
Write(p) ==
    LET id == job[p].id IN
    /\ pc[p] = "write"
    /\ \/ manifest' = [manifest EXCEPT ![id] = job[p].doc]
       \/ manifest[id] # Garbled /\ manifest' = [manifest EXCEPT ![id] = Garbled]
    /\ issued' = IF job[p].link = NoFile THEN issued
                 ELSE issued \cup {[link |-> job[p].link, until |-> job[p].until]}
    /\ Leave(p)
    /\ UNCHANGED <<bounds, keyFile, server, files, alone>>

-----------------------------------------------------------------------------
(* artifact-auth                                                            *)

\* Mutant: a link holds for the whole second after its expiry.
ExpiredLate(link) == Unix(now) > link.exp

Expired(link) == now > 2 * link.exp

\* The server's answer to a request with this link is 200.
Accepted(link) ==
    /\ server # NoKey
    /\ manifest[link.id] \notin {NoFile, Garbled}
    /\ ~Expired(link)
    /\ link.key = server

\* ListenAndServeAuth reads the key once.
Serve ==
    /\ server = NoKey
    /\ server' = keyFile
    /\ UNCHANGED <<bounds, keyFile, files, manifest, pc, job, issued, alone>>

StopServing ==
    /\ server # NoKey
    /\ server' = NoKey
    /\ UNCHANGED <<bounds, keyFile, files, manifest, pc, job, issued, alone>>

-----------------------------------------------------------------------------

Rotate ==
    /\ \E k \in Keys \ {keyFile} : keyFile' = k
    /\ UNCHANGED <<bounds, server, files, manifest, pc, job, issued, alone>>

Kill(p) ==
    /\ pc[p] # "idle" /\ kills < MaxKills
    /\ kills' = kills + 1
    /\ Leave(p)
    /\ UNCHANGED <<now, keyFile, server, files, manifest, issued, alone>>

Tick ==
    /\ now < MaxTime /\ now' = now + 1
    /\ UNCHANGED <<kills, keyFile, server, files, manifest, pc, job, issued, alone>>

Init ==
    /\ now = 0 /\ kills = 0 /\ alone = TRUE
    /\ keyFile \in Keys /\ server = NoKey
    /\ files = [id \in Ids |-> {}]
    /\ manifest = [id \in Ids |-> NoFile]
    /\ pc = [p \in Procs |-> "idle"]
    /\ job = [p \in Procs |-> Idle]
    /\ issued = {}

Next ==
    \/ \E p \in Procs : \/ Create(p) \/ WritePart(p) \/ Show(p) \/ Mint(p)
                        \/ Truncate(p) \/ Write(p) \/ Kill(p)
    \/ Serve \/ StopServing \/ Rotate \/ Tick

Spec == Init /\ [][Next]_vars

-----------------------------------------------------------------------------

TypeOK ==
    /\ now \in Nat /\ kills \in Nat /\ alone \in BOOLEAN
    /\ keyFile \in Keys /\ server \in Keys \cup {NoKey}
    /\ files \in [Ids -> SUBSET Parts]
    /\ manifest \in [Ids -> Manifests \cup {NoFile, Garbled}]
    /\ \A p \in Procs :
         /\ pc[p] \in Parts \cup {"idle", "mint", "truncate", "write"}
         /\ pc[p] # "idle" <=> job[p].id \in Ids
         /\ pc[p] # "idle" => job[p].doc \in Manifests
         /\ job[p].link \in Links \cup {NoFile} /\ job[p].until \in Nat
    /\ issued \subseteq [link : Links, until : Nat]

\* The manifest is written last: a link the server accepts leads to a page that
\* is complete, however commands were killed or overlapped.  (A private artifact
\* has no page for its link to lead to.)
AcceptedLinkHasItsPage ==
    \A i \in issued :
       Accepted(i.link) =>
          /\ "content" \in files[i.link.id]
          /\ manifest[i.link.id].exposure # "private" => files[i.link.id] = Parts

\* No link is accepted after the time it was said to expire, whatever became of
\* the key and the manifest since.
NoLinkOutlivesItsExpiry == \A i \in issued : Accepted(i.link) => now <= i.until

\* A link is accepted by a server that has its key, until less than a second
\* before the time it was said to expire.  (No command was killed, none
\* overlapped, and the manifest is not just being written.)
LinkHoldsUntilItsExpiry ==
    alone /\ kills = 0 =>
       \A i \in issued :
          /\ i.link.key = server /\ now + 2 <= i.until
          /\ \A p \in Procs : pc[p] # "write"
          => Accepted(i.link)

\* The manifest lists every link that was printed.  (None overlapped: two commands
\* that read the same manifest lose a link.)
ManifestListsEveryLink ==
    alone => \A i \in issued :
       manifest[i.link.id] # Garbled => i.link \in manifest[i.link.id].links
=============================================================================
