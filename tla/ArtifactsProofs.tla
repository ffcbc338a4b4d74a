--------------------------- MODULE ArtifactsProofs --------------------------
(***************************************************************************)
(* Proofs about Artifacts: its types, that a link the server accepts leads *)
(* to a complete page, that it is accepted until its expiry and not after, *)
(* and that manifests list the links that were printed.                    *)
(***************************************************************************)
EXTENDS Artifacts, TLAPS

USE ArtifactAssumption

Jobs == [id : Ids \cup {NoId}, doc : Manifests \cup {NoFile}, link : Links \cup {NoFile},
         until : Nat]

\* Every job is a record, and a command that is under way has its artifact and a
\* manifest to write; what was read from the key file is a key.
TypeInv == TypeOK /\ job \in [Procs -> Jobs] /\ pc \in [Procs -> Parts \cup {"idle", "mint", "truncate", "write"}]

\* An idle command's job has the type of a job.
LEMMA IdleType == Idle \in Jobs /\ Idle.id = NoId /\ Idle.link = NoFile /\ Idle.until = 0
BY DEF Idle, Job, Jobs

\* A command that exits or is killed leaves a well-typed state of the commands.
LEMMA LeaveType ==
    ASSUME TypeInv, NEW p \in Procs, Leave(p)
    PROVE  /\ job' \in [Procs -> Jobs]
           /\ pc' \in [Procs -> Parts \cup {"idle", "mint", "truncate", "write"}]
           /\ \A q \in Procs : q # p => pc'[q] = pc[q] /\ job'[q] = job[q]
           /\ pc'[p] = "idle" /\ job'[p] = Idle
BY IdleType DEF TypeInv, Leave, Goto

\* Only the job and the place of one command change in a step of it.
LEMMA JobType ==
    ASSUME TypeInv, NEW p \in Procs, NEW j \in Jobs,
           NEW l \in {"content", "mint", "truncate"},
           j.id \in Ids, j.doc \in Manifests, Goto(p, l), job' = [job EXCEPT ![p] = j]
    PROVE  /\ job' \in [Procs -> Jobs]
           /\ pc' \in [Procs -> Parts \cup {"idle", "mint", "truncate", "write"}]
           /\ \A q \in Procs :
                /\ pc'[q] \in Parts \cup {"idle", "mint", "truncate", "write"}
                /\ pc'[q] # "idle" <=> job'[q].id \in Ids
                /\ pc'[q] # "idle" => job'[q].doc \in Manifests
                /\ job'[q].link \in Links \cup {NoFile} /\ job'[q].until \in Nat
<1>1. job' \in [Procs -> Jobs]
    BY DEF TypeInv
<1>2. pc' \in [Procs -> Parts \cup {"idle", "mint", "truncate", "write"}]
    BY DEF TypeInv, Goto, Parts
<1>3. job'[p] = j /\ pc'[p] = l /\ pc'[p] # "idle"
    BY DEF TypeInv, Goto
<1>4. ASSUME NEW q \in Procs, q # p PROVE job'[q] = job[q] /\ pc'[q] = pc[q]
    BY <1>4 DEF TypeInv, Goto
<1>5. ASSUME NEW q \in Procs PROVE job'[q].link \in Links \cup {NoFile} /\ job'[q].until \in Nat
    BY <1>1 DEF Jobs
<1>6. ASSUME NEW q \in Procs
      PROVE  (pc'[q] # "idle" <=> job'[q].id \in Ids) /\ (pc'[q] # "idle" => job'[q].doc \in Manifests)
    BY <1>3, <1>4 DEF TypeInv, TypeOK
<1> QED BY <1>1, <1>2, <1>5, <1>6

\* Init establishes the types.
LEMMA InitTypes == Init => TypeInv
BY IdleType DEF Init, TypeInv, TypeOK, Manifests, Parts

\* Every step keeps the types.
LEMMA NextTypes == TypeInv /\ [Next]_vars => TypeInv'
<1> SUFFICES ASSUME TypeInv, [Next]_vars PROVE TypeInv'
    OBVIOUS
<1> USE DEF TypeInv, TypeOK
<1>1. ASSUME NEW p \in Procs, Create(p) PROVE TypeInv'
  <2>1. PICK id \in Ids, e \in Exposures :
          job' = [job EXCEPT ![p] = Job(id, [exposure |-> e, links |-> {}], NoFile, 0)]
      BY <1>1 DEF Create
  <2> DEFINE j == Job(id, [exposure |-> e, links |-> {}], NoFile, 0)
  <2>2. [exposure |-> e, links |-> {}] \in Manifests
      BY DEF Manifests
  <2>3. j \in Jobs /\ j.id \in Ids /\ j.doc \in Manifests
      BY <2>2 DEF Jobs, Job
  <2>4. Goto(p, "content") /\ job' = [job EXCEPT ![p] = j]
      BY <1>1, <2>1 DEF Create, Start
  <2> HIDE DEF j
  <2> QED BY <1>1, <2>3, <2>4, JobType DEF Create, Start, bounds
<1>2. ASSUME NEW p \in Procs, WritePart(p) PROVE TypeInv'
  <2>1. PICK part \in Parts :
          /\ pc[p] = part
          /\ files' = [files EXCEPT ![job[p].id] = @ \cup {part}]
          /\ Goto(p, AfterPart(p, part))
          /\ UNCHANGED <<bounds, keyFile, server, manifest, job, issued, alone>>
      BY <1>2 DEF WritePart
  <2>2. pc[p] # "idle" /\ AfterPart(p, part) \in {"page", "index", "truncate"}
      BY <2>1 DEF AfterPart, Parts
  <2> QED BY <2>1, <2>2 DEF Goto, bounds, Parts
<1>3. ASSUME NEW p \in Procs, Show(p) PROVE TypeInv'
  <2>1. PICK id \in {i \in Ids : manifest[i] \notin {NoFile, Garbled}} :
          job' = [job EXCEPT ![p] = Job(id, manifest[id], NoFile, 0)]
      BY <1>3 DEF Show
  <2> DEFINE j == Job(id, manifest[id], NoFile, 0)
  <2>2. manifest[id] \in Manifests
      BY <2>1
  <2>3. j \in Jobs /\ j.id \in Ids /\ j.doc \in Manifests
      BY <2>2 DEF Jobs, Job
  <2>4. Goto(p, "mint") /\ job' = [job EXCEPT ![p] = j]
      BY <1>3, <2>1 DEF Show, Start
  <2> HIDE DEF j
  <2> QED BY <1>3, <2>3, <2>4, JobType DEF Show, Start, bounds
<1>4. ASSUME NEW p \in Procs, Mint(p) PROVE TypeInv'
  <2>1. PICK ttl \in Ttls :
          LET link == [id |-> job[p].id, exp |-> Unix(now + ttl), key |-> keyFile] IN
          job' = [job EXCEPT ![p] = Job(job[p].id, Recorded(job[p].doc, link), link, now + ttl)]
      BY <1>4 DEF Mint
  <2> DEFINE link == [id |-> job[p].id, exp |-> Unix(now + ttl), key |-> keyFile]
             j == Job(job[p].id, Recorded(job[p].doc, link), link, now + ttl)
  <2>2. job[p].id \in Ids /\ job[p].doc \in Manifests
      BY <1>4 DEF Mint
  <2>3. now + ttl \in Nat /\ Unix(now + ttl) \in Nat
      BY DEF Unix
  <2>4. link \in Links
      BY <2>2, <2>3 DEF Links
  <2>5. Recorded(job[p].doc, link) \in Manifests
      BY <2>2, <2>4 DEF Recorded, Manifests
  <2>6. Goto(p, "truncate") /\ job' = [job EXCEPT ![p] = j]
      BY <1>4, <2>1 DEF Mint
  <2> HIDE DEF link
  <2>7. j \in Jobs /\ j.id \in Ids /\ j.doc \in Manifests
      BY <2>2, <2>3, <2>4, <2>5 DEF Jobs, Job
  <2> HIDE DEF j
  <2> QED BY <1>4, <2>6, <2>7, JobType DEF Mint, bounds
<1>5. ASSUME NEW p \in Procs, Truncate(p) PROVE TypeInv'
    BY <1>5 DEF Truncate, Goto, bounds, Parts
<1>6. ASSUME NEW p \in Procs, Write(p) PROVE TypeInv'
  <2>1. job[p].id \in Ids /\ job[p].doc \in Manifests
      BY <1>6 DEF Write
  <2>2. manifest' \in [Ids -> Manifests \cup {NoFile, Garbled}]
      BY <1>6, <2>1 DEF Write
  <2>3. issued' \subseteq [link : Links, until : Nat]
      BY <1>6 DEF Write
  <2> QED BY <1>6, <2>2, <2>3, LeaveType, IdleType DEF Write, bounds
<1>7. ASSUME NEW p \in Procs, Kill(p) PROVE TypeInv'
    BY <1>7, LeaveType, IdleType DEF Kill
<1>8. CASE Serve \/ StopServing \/ Rotate \/ Tick
    BY <1>8 DEF Serve, StopServing, Rotate, Tick, bounds
<1>9. CASE UNCHANGED vars
    BY <1>9 DEF vars, bounds
<1> QED BY <1>1, <1>2, <1>3, <1>4, <1>5, <1>6, <1>7, <1>8, <1>9 DEF Next

\* The strengthened types hold in every reachable state.
LEMMA TypesHold == Spec => []TypeInv
BY InitTypes, NextTypes, PTL DEF Spec

\* In every reachable state the files, the manifests and the commands have the
\* types that the model gives them, for any number of commands and artifacts.
THEOREM ArtifactsTyped == Spec => []TypeOK
BY TypesHold, PTL DEF TypeInv

-----------------------------------------------------------------------------
(* Expiry: what is signed never ends after what is printed.                 *)

\* A signed expiry is the printed one, cut to whole seconds.
Cut(link, until) == 2 * link.exp <= until

ExpiryInv ==
    /\ \A p \in Procs : job[p].link # NoFile => Cut(job[p].link, job[p].until)
    /\ \A i \in issued : Cut(i.link, i.until)

\* Whole seconds are not later than the half seconds they are cut from.
LEMMA UnixBelow == \A t \in Nat : 2 * Unix(t) <= t
BY DEF Unix

\* A step that assigns no job and prints nothing keeps the expiries.
LEMMA ExpiryFrame == ExpiryInv /\ UNCHANGED <<job, issued>> => ExpiryInv'
BY DEF ExpiryInv, Cut

\* A command that starts has signed nothing, so its job has no expiry to keep.
LEMMA ExpiryStart ==
    ASSUME TypeInv, ExpiryInv, NEW p \in Procs, NEW id, NEW doc,
           job' = [job EXCEPT ![p] = Job(id, doc, NoFile, 0)], UNCHANGED issued
    PROVE  ExpiryInv'
<1>1. job'[p].link = NoFile
    BY DEF TypeInv, Job
<1>2. \A q \in Procs : q # p => job'[q] = job[q]
    BY DEF TypeInv
<1> QED BY <1>1, <1>2 DEF ExpiryInv, Cut

\* Every step keeps the expiries.
LEMMA NextExpiry == TypeInv /\ ExpiryInv /\ [Next]_vars => ExpiryInv'
<1> SUFFICES ASSUME TypeInv, ExpiryInv, [Next]_vars PROVE ExpiryInv'
    OBVIOUS
<1>1. ASSUME NEW p \in Procs, Create(p) PROVE ExpiryInv'
    BY <1>1, ExpiryStart DEF Create
<1>2. ASSUME NEW p \in Procs, WritePart(p) PROVE ExpiryInv'
    BY <1>2, ExpiryFrame DEF WritePart
<1>3. ASSUME NEW p \in Procs, Show(p) PROVE ExpiryInv'
    BY <1>3, ExpiryStart DEF Show
<1>4. ASSUME NEW p \in Procs, Mint(p) PROVE ExpiryInv'
  <2>1. PICK ttl \in Ttls :
          LET link == [id |-> job[p].id, exp |-> Unix(now + ttl), key |-> keyFile] IN
          job' = [job EXCEPT ![p] = Job(job[p].id, Recorded(job[p].doc, link), link, now + ttl)]
      BY <1>4 DEF Mint
  <2> DEFINE link == [id |-> job[p].id, exp |-> Unix(now + ttl), key |-> keyFile]
  <2>2. now + ttl \in Nat
    <3>1. now \in Nat
        BY DEF TypeInv, TypeOK
    <3> QED BY <3>1
  <2>3. Cut(link, now + ttl)
      BY <2>2, UnixBelow DEF Cut
  <2>4. job'[p].link = link /\ job'[p].until = now + ttl
      BY <2>1 DEF TypeInv, Job
  <2>5. \A q \in Procs : q # p => job'[q] = job[q]
      BY <2>1 DEF TypeInv
  <2>6. UNCHANGED issued
      BY <1>4 DEF Mint
  <2> HIDE DEF link
  <2> QED BY <2>3, <2>4, <2>5, <2>6 DEF ExpiryInv, Cut
<1>5. ASSUME NEW p \in Procs, Truncate(p) PROVE ExpiryInv'
    BY <1>5, ExpiryFrame DEF Truncate
<1>6. ASSUME NEW p \in Procs, Write(p) PROVE ExpiryInv'
  <2>1. \A q \in Procs : job'[q].link # NoFile => Cut(job'[q].link, job'[q].until)
      BY <1>6, LeaveType, IdleType DEF Write, ExpiryInv
  <2>2. \A i \in issued' : Cut(i.link, i.until)
      BY <1>6 DEF Write, ExpiryInv
  <2> QED BY <2>1, <2>2 DEF ExpiryInv, Cut
<1>7. ASSUME NEW p \in Procs, Kill(p) PROVE ExpiryInv'
    BY <1>7, LeaveType, IdleType DEF Kill, ExpiryInv, Cut
<1>8. CASE Serve \/ StopServing \/ Rotate \/ Tick
    BY <1>8, ExpiryFrame DEF Serve, StopServing, Rotate, Tick
<1>9. CASE UNCHANGED vars
    BY <1>9, ExpiryFrame DEF vars
<1> QED BY <1>1, <1>2, <1>3, <1>4, <1>5, <1>6, <1>7, <1>8, <1>9 DEF Next

\* Where nothing signed ends after what was printed, nothing accepted does.
LEMMA ExpirySuffices == TypeInv /\ ExpiryInv => NoLinkOutlivesItsExpiry
<1> SUFFICES ASSUME TypeInv, ExpiryInv, NEW i \in issued, Accepted(i.link)
             PROVE  now <= i.until
    BY DEF NoLinkOutlivesItsExpiry
<1>1. now \in Nat /\ i.link.exp \in Nat /\ i.until \in Nat
    BY DEF TypeInv, TypeOK, Links
<1>2. now <= 2 * i.link.exp
    BY <1>1 DEF Accepted, Expired
<1> QED BY <1>1, <1>2 DEF ExpiryInv, Cut

\* However often the key is replaced, servers restart, commands overlap or are
\* killed: no server accepts a link after the time printed with it.
THEOREM LinksExpire == Spec => []NoLinkOutlivesItsExpiry
<1>1. Init => ExpiryInv
    BY IdleType DEF Init, ExpiryInv
<1>2. Spec => []ExpiryInv
    BY <1>1, NextExpiry, TypesHold, PTL DEF Spec
<1> QED BY <1>2, TypesHold, ExpirySuffices, PTL

-----------------------------------------------------------------------------
(* Pages: a manifest that can be read is never ahead of its files.          *)

\* The files that a manifest of this exposure speaks of are there.
Complete(id, exposure) ==
    /\ "content" \in files[id]
    /\ exposure # "private" => files[id] = Parts

\* What a command has written by the time it is at each place.
Written(p) ==
    /\ pc[p] = "page" => "content" \in files[job[p].id]
    /\ pc[p] = "index" => {"content", "page"} \subseteq files[job[p].id]
    /\ pc[p] \in {"mint", "truncate", "write"} => Complete(job[p].id, job[p].doc.exposure)

PageInv ==
    /\ \A id \in Ids : manifest[id] \in Manifests => Complete(id, manifest[id].exposure)
    /\ \A p \in Procs : Written(p)

\* Files are only added: what is complete stays so.
LEMMA CompleteStays ==
    ASSUME TypeInv, TypeInv', NEW id \in Ids, NEW e, Complete(id, e), files[id] \subseteq files'[id]
    PROVE  Complete(id, e)'
BY DEF Complete, TypeInv, TypeOK

\* A step that touches neither a file nor the commands keeps the pages.
LEMMA PageFrame ==
    PageInv /\ UNCHANGED <<files, manifest, pc, job>> => PageInv'
BY DEF PageInv, Written, Complete

\* A step of one command that writes no file leaves the others as they were.
LEMMA OthersWritten ==
    ASSUME PageInv, NEW p \in Procs, UNCHANGED files,
           \A q \in Procs : q # p => pc'[q] = pc[q] /\ job'[q] = job[q],
           Written(p)', UNCHANGED manifest
    PROVE  PageInv'
BY DEF PageInv, Written, Complete

\* Writing a part of an artifact keeps the pages.
LEMMA PartKeeps ==
    ASSUME TypeInv, TypeInv', PageInv, NEW p \in Procs, WritePart(p)
    PROVE  PageInv'
<1>1. PICK part \in Parts :
        /\ pc[p] = part
        /\ files' = [files EXCEPT ![job[p].id] = @ \cup {part}]
        /\ Goto(p, AfterPart(p, part))
        /\ UNCHANGED <<bounds, keyFile, server, manifest, job, issued, alone>>
    BY DEF WritePart
<1>2. job[p].id \in Ids
    BY <1>1 DEF TypeInv, TypeOK, Parts
<1>3. \A id \in Ids : files[id] \subseteq files'[id]
    BY <1>1, <1>2 DEF TypeInv, TypeOK
<1>4. files'[job[p].id] = files[job[p].id] \cup {part}
    BY <1>1, <1>2 DEF TypeInv, TypeOK
<1>5. (\A id \in Ids : manifest[id] \in Manifests => Complete(id, manifest[id].exposure))'
    BY <1>1, <1>3, CompleteStays DEF PageInv
<1>6. ASSUME NEW q \in Procs, q # p PROVE Written(q)'
  <2>1. pc'[q] = pc[q] /\ job'[q] = job[q]
      BY <1>1, <1>6 DEF TypeInv, Goto
  <2>2. pc[q] # "idle" => job[q].id \in Ids
      BY DEF TypeInv, TypeOK
  <2>3. Written(q)
      BY DEF PageInv
  <2> QED BY <2>1, <2>2, <2>3, <1>3, CompleteStays DEF Written
<1>7. Written(p)'
  <2>1. pc'[p] = AfterPart(p, part) /\ job'[p] = job[p]
      BY <1>1 DEF TypeInv, Goto
  <2>2. Written(p)
      BY DEF PageInv
  <2>3. CASE part = "content"
    <3>1. "content" \in files'[job[p].id]
        BY <2>3, <1>4
    <3> QED BY <3>1, <2>1, <2>3 DEF Written, AfterPart, Complete
  <2>4. CASE part = "page"
    <3>1. {"content", "page"} \subseteq files'[job[p].id]
        BY <2>4, <2>2, <1>1, <1>4 DEF Written
    <3> QED BY <3>1, <2>1, <2>4 DEF Written, AfterPart
  <2>5. CASE part = "index"
    <3>1. files'[job[p].id] \in SUBSET Parts
        BY <1>2 DEF TypeInv, TypeOK
    <3>2. files'[job[p].id] = Parts
        BY <3>1, <2>5, <2>2, <1>1, <1>4 DEF Written, Parts
    <3> QED BY <3>2, <2>1, <2>5 DEF Written, AfterPart, Complete, Parts
  <2> QED BY <2>3, <2>4, <2>5 DEF Parts
<1> QED BY <1>5, <1>6, <1>7 DEF PageInv

\* Writing a manifest keeps the pages: its files were written before.
LEMMA WriteKeeps ==
    ASSUME TypeInv, PageInv, NEW p \in Procs, Write(p)
    PROVE  PageInv'
<1>1. /\ pc[p] = "write" /\ UNCHANGED files /\ Leave(p)
      /\ \/ manifest' = [manifest EXCEPT ![job[p].id] = job[p].doc]
         \/ manifest' = [manifest EXCEPT ![job[p].id] = Garbled]
    BY DEF Write
<1>2. Written(p) /\ job[p].id \in Ids
    BY <1>1 DEF PageInv, TypeInv, TypeOK
<1>3. ASSUME NEW id \in Ids
      PROVE  \/ manifest'[id] = manifest[id]
             \/ manifest'[id] = Garbled
             \/ id = job[p].id /\ manifest'[id] = job[p].doc
  <2>1. manifest \in [Ids -> Manifests \cup {NoFile, Garbled}]
      BY DEF TypeInv, TypeOK
  <2>2. CASE id = job[p].id
      BY <1>1, <2>1, <2>2
  <2>3. CASE id # job[p].id
      BY <1>1, <2>1, <2>3
  <2> QED BY <2>2, <2>3
<1>4. (\A id \in Ids : manifest[id] \in Manifests => Complete(id, manifest[id].exposure))'
    BY <1>1, <1>2, <1>3 DEF PageInv, Written, Complete
<1>5. \A q \in Procs : Written(q)'
    BY <1>1, LeaveType DEF PageInv, Written, Complete
<1> QED BY <1>4, <1>5 DEF PageInv

\* Every step keeps the pages.
LEMMA NextPage == TypeInv /\ TypeInv' /\ PageInv /\ [Next]_vars => PageInv'
<1> SUFFICES ASSUME TypeInv, TypeInv', PageInv, [Next]_vars PROVE PageInv'
    OBVIOUS
<1>1. ASSUME NEW p \in Procs, Create(p) PROVE PageInv'
    BY <1>1, OthersWritten DEF Create, Start, Goto, Written, TypeInv
<1>2. ASSUME NEW p \in Procs, WritePart(p) PROVE PageInv'
    BY <1>2, PartKeeps
<1>3. ASSUME NEW p \in Procs, Show(p) PROVE PageInv'
  <2>1. PICK id \in {i \in Ids : manifest[i] \notin {NoFile, Garbled}} :
          job' = [job EXCEPT ![p] = Job(id, manifest[id], NoFile, 0)]
      BY <1>3 DEF Show
  <2>2. Complete(id, manifest[id].exposure)
      BY <2>1 DEF PageInv, TypeInv, TypeOK
  <2>3. pc'[p] = "mint" /\ job'[p].id = id /\ job'[p].doc = manifest[id]
      BY <1>3, <2>1 DEF Show, Start, Goto, TypeInv, Job
  <2>4. Written(p)'
      BY <1>3, <2>2, <2>3 DEF Written, Complete, Show
  <2> QED BY <1>3, <2>1, <2>4, OthersWritten DEF Show, Start, Goto, TypeInv
<1>4. ASSUME NEW p \in Procs, Mint(p) PROVE PageInv'
  <2>1. PICK ttl \in Ttls :
          LET link == [id |-> job[p].id, exp |-> Unix(now + ttl), key |-> keyFile] IN
          job' = [job EXCEPT ![p] = Job(job[p].id, Recorded(job[p].doc, link), link, now + ttl)]
      BY <1>4 DEF Mint
  <2>2. job[p].doc \in Manifests /\ Complete(job[p].id, job[p].doc.exposure)
      BY <1>4 DEF Mint, PageInv, Written, TypeInv, TypeOK
  <2>3. \A link : Recorded(job[p].doc, link).exposure = job[p].doc.exposure
      BY <2>2 DEF Recorded, Manifests
  <2>4. job'[p].id = job[p].id /\ job'[p].doc.exposure = job[p].doc.exposure
      BY <2>1, <2>3 DEF TypeInv, Job
  <2>5. pc'[p] = "truncate"
      BY <1>4 DEF Mint, Goto, TypeInv
  <2>6. Written(p)'
      BY <1>4, <2>2, <2>4, <2>5 DEF Written, Complete, Mint
  <2> QED BY <1>4, <2>1, <2>6, OthersWritten DEF Mint, Goto, TypeInv
<1>5. ASSUME NEW p \in Procs, Truncate(p) PROVE PageInv'
  <2>1. \A id \in Ids : manifest'[id] = manifest[id] \/ manifest'[id] = Garbled
      BY <1>5 DEF Truncate, TypeInv, TypeOK
  <2>2. (\A id \in Ids : manifest[id] \in Manifests => Complete(id, manifest[id].exposure))'
      BY <1>5, <2>1 DEF Truncate, PageInv, Complete
  <2>3. \A q \in Procs : Written(q)'
      BY <1>5 DEF Truncate, PageInv, Written, Complete, Goto, TypeInv
  <2> QED BY <2>2, <2>3 DEF PageInv
<1>6. ASSUME NEW p \in Procs, Write(p) PROVE PageInv'
    BY <1>6, WriteKeeps
<1>7. ASSUME NEW p \in Procs, Kill(p) PROVE PageInv'
    BY <1>7, LeaveType, OthersWritten DEF Kill, Written
<1>8. CASE Serve \/ StopServing \/ Rotate \/ Tick
    BY <1>8, PageFrame DEF Serve, StopServing, Rotate, Tick
<1>9. CASE UNCHANGED vars
    BY <1>9, PageFrame DEF vars
<1> QED BY <1>1, <1>2, <1>3, <1>4, <1>5, <1>6, <1>7, <1>8, <1>9 DEF Next

\* A manifest that the server can read has its files.
LEMMA PageSuffices == TypeInv /\ PageInv => AcceptedLinkHasItsPage
<1> SUFFICES ASSUME TypeInv, PageInv, NEW i \in issued, Accepted(i.link)
             PROVE  Complete(i.link.id, manifest[i.link.id].exposure)
    BY DEF AcceptedLinkHasItsPage, Complete
<1>1. i.link.id \in Ids
    BY DEF TypeInv, TypeOK, Links
<1>2. manifest[i.link.id] \in Manifests
    BY <1>1 DEF TypeInv, TypeOK, Accepted
<1> QED BY <1>1, <1>2 DEF PageInv

\* Every state has the pages.
LEMMA PageAlways == Spec => []PageInv
<1>1. Init => PageInv
  <2> SUFFICES ASSUME Init PROVE PageInv
      OBVIOUS
  <2>1. \A id \in Ids : manifest[id] \notin Manifests
      BY DEF Init
  <2>2. \A p \in Procs : Written(p)
      BY DEF Init, Written
  <2> QED BY <2>1, <2>2 DEF PageInv
<1> QED BY <1>1, NextPage, TypesHold, PTL DEF Spec

\* A link that is accepted leads to a complete page, however many commands have
\* overlapped and wherever they were killed.
THEOREM LinksHavePages == Spec => []AcceptedLinkHasItsPage
BY PageAlways, TypesHold, PageSuffices, PTL

-----------------------------------------------------------------------------
(* The list of links, where no two commands overlap.                        *)

\* What one command that has the host to itself relies on: it is the only one, its
\* artifact is new or it has read all links of it, and the manifest is as it left it.
ListInv ==
    alone =>
      /\ \A p, q \in Procs : pc[p] # "idle" /\ pc[q] # "idle" => p = q
      /\ \A i \in issued :
           /\ files[i.link.id] # {}
           /\ manifest[i.link.id] \in Manifests \cup {Garbled}
           /\ manifest[i.link.id] # Garbled => i.link \in manifest[i.link.id].links
           /\ \A p \in Procs : job[p].id = i.link.id =>
                /\ pc[p] \in {"mint", "truncate", "write"}
                /\ i.link \in job[p].doc.links
      /\ \A p \in Procs :
           /\ job[p].link # NoFile =>
                /\ job[p].link.id = job[p].id /\ job[p].link \in job[p].doc.links
                /\ pc[p] \in {"truncate", "write"}
           /\ pc[p] = "write" => manifest[job[p].id] = Garbled

\* A step that touches neither a file nor the commands keeps the list.
LEMMA ListFrame ==
    ListInv /\ UNCHANGED <<files, manifest, pc, job, issued, alone>> => ListInv'
BY DEF ListInv

\* A command that starts alone is the only one.
LEMMA StartsAlone ==
    ASSUME TypeInv, NEW p \in Procs, NEW label, label # "idle", Start(p, label), alone',
           NEW id, NEW doc, job' = [job EXCEPT ![p] = Job(id, doc, NoFile, 0)]
    PROVE  /\ alone
           /\ pc'[p] = label /\ job'[p].id = id /\ job'[p].doc = doc /\ job'[p].link = NoFile
           /\ \A q \in Procs : q # p =>
                pc'[q] = "idle" /\ pc[q] = "idle" /\ job'[q] = job[q] /\ job[q].id \notin Ids
<1>1. alone /\ \A q \in Procs : pc[q] = "idle"
    BY DEF Start, TypeInv, TypeOK
<1>2. job'[p] = Job(id, doc, NoFile, 0) /\ pc'[p] = label
    BY DEF TypeInv, Start, Goto
<1>3. ASSUME NEW q \in Procs, q # p
      PROVE  pc'[q] = pc[q] /\ job'[q] = job[q] /\ job[q].id \notin Ids
    BY <1>1, <1>3 DEF TypeInv, TypeOK, Start, Goto
<1> QED BY <1>1, <1>2, <1>3 DEF Job

\* Nothing was printed of an artifact that is yet to be drawn.
LEMMA ListCreate ==
    ASSUME TypeInv, ListInv, NEW p \in Procs, Create(p)
    PROVE  ListInv'
<1> SUFFICES ASSUME alone' PROVE ListInv'
    BY DEF ListInv
<1>1. PICK id \in Ids \ Drawn, e \in Exposures :
        job' = [job EXCEPT ![p] = Job(id, [exposure |-> e, links |-> {}], NoFile, 0)]
    BY DEF Create
<1> DEFINE doc == [exposure |-> e, links |-> {}]
<1>2. /\ alone /\ pc'[p] = "content" /\ job'[p].id = id /\ job'[p].link = NoFile
      /\ \A q \in Procs : q # p =>
           pc'[q] = "idle" /\ pc[q] = "idle" /\ job'[q] = job[q] /\ job[q].id \notin Ids
  <2>1. Start(p, "content") /\ job' = [job EXCEPT ![p] = Job(id, doc, NoFile, 0)]
      BY <1>1 DEF Create
  <2> HIDE DEF doc
  <2> QED BY <2>1, StartsAlone
<1>3. UNCHANGED <<files, manifest, issued>> /\ files[id] = {}
    BY <1>1 DEF Create, Drawn
<1>4. \A i \in issued : i.link.id \in Ids /\ i.link.id # id
    BY <1>2, <1>3 DEF ListInv, TypeInv, TypeOK, Links
<1>5. \A q \in Procs : q # p => job'[q].link = NoFile
    BY <1>2 DEF ListInv
<1> QED BY <1>2, <1>3, <1>4, <1>5 DEF ListInv

\* A part is written by a command that has printed nothing of its artifact.
LEMMA ListPart ==
    ASSUME TypeInv, ListInv, NEW p \in Procs, WritePart(p)
    PROVE  ListInv'
<1>1. PICK part \in Parts :
        /\ pc[p] = part
        /\ files' = [files EXCEPT ![job[p].id] = @ \cup {part}]
        /\ Goto(p, AfterPart(p, part))
        /\ UNCHANGED <<bounds, keyFile, server, manifest, job, issued, alone>>
    BY DEF WritePart
<1>2. /\ \A q \in Procs : q # p => pc'[q] = pc[q]
      /\ pc'[p] \in {"page", "index", "truncate"} /\ pc[p] \in {"content", "page", "index"}
    BY <1>1 DEF TypeInv, Goto, AfterPart, Parts
<1>3. \A id \in Ids : files[id] # {} => files'[id] # {}
    BY <1>1 DEF TypeInv, TypeOK
<1>4. \A i \in issued : i.link.id \in Ids
    BY DEF TypeInv, TypeOK, Links
<1> QED BY <1>1, <1>2, <1>3, <1>4 DEF ListInv

\* A command that has read a manifest knows all links of it.
LEMMA ListShow ==
    ASSUME TypeInv, ListInv, NEW p \in Procs, Show(p)
    PROVE  ListInv'
<1> SUFFICES ASSUME alone' PROVE ListInv'
    BY DEF ListInv
<1>1. PICK id \in {i \in Ids : manifest[i] \notin {NoFile, Garbled}} :
        job' = [job EXCEPT ![p] = Job(id, manifest[id], NoFile, 0)]
    BY DEF Show
<1>2. /\ alone /\ pc'[p] = "mint" /\ job'[p].id = id /\ job'[p].link = NoFile
      /\ job'[p].doc = manifest[id]
      /\ \A q \in Procs : q # p =>
           pc'[q] = "idle" /\ pc[q] = "idle" /\ job'[q] = job[q] /\ job[q].id \notin Ids
    BY <1>1, StartsAlone DEF Show
<1>3. UNCHANGED <<files, manifest, issued>>
    BY DEF Show
<1>4. \A i \in issued : i.link.id \in Ids
    BY DEF TypeInv, TypeOK, Links
<1>5. \A q \in Procs : q # p => job'[q].link = NoFile
    BY <1>2 DEF ListInv
<1> QED BY <1>1, <1>2, <1>3, <1>4, <1>5 DEF ListInv

\* A new link is in the manifest that is to be written, with all earlier ones.
LEMMA ListMint ==
    ASSUME TypeInv, ListInv, NEW p \in Procs, Mint(p)
    PROVE  ListInv'
<1>1. PICK ttl \in Ttls :
        LET link == [id |-> job[p].id, exp |-> Unix(now + ttl), key |-> keyFile] IN
        job' = [job EXCEPT ![p] = Job(job[p].id, Recorded(job[p].doc, link), link, now + ttl)]
    BY DEF Mint
<1> DEFINE link == [id |-> job[p].id, exp |-> Unix(now + ttl), key |-> keyFile]
<1>2. /\ job'[p].id = job[p].id /\ job'[p].link = link
      /\ job'[p].doc = Recorded(job[p].doc, link)
      /\ \A q \in Procs : q # p => job'[q] = job[q] /\ pc'[q] = pc[q]
      /\ pc[p] = "mint" /\ pc'[p] = "truncate"
    BY <1>1 DEF Mint, Goto, TypeInv, Job
<1>3. link.id = job[p].id
    OBVIOUS
<1> HIDE DEF link
<1>4. job[p].doc \in Manifests
    BY <1>2 DEF TypeInv, TypeOK
<1>5. job'[p].doc.links = job[p].doc.links \cup {link}
    BY <1>2, <1>4 DEF Recorded, Manifests
<1>6. UNCHANGED <<files, manifest, issued, alone>>
    BY DEF Mint
<1> QED BY <1>2, <1>3, <1>5, <1>6 DEF ListInv

LEMMA ListTruncate ==
    ASSUME TypeInv, ListInv, NEW p \in Procs, Truncate(p)
    PROVE  ListInv'
<1>1. /\ pc[p] = "truncate" /\ pc'[p] = "write" /\ UNCHANGED <<files, job, issued, alone>>
      /\ \A q \in Procs : q # p => pc'[q] = pc[q]
    BY DEF Truncate, Goto, TypeInv
<1>2. /\ manifest'[job[p].id] = Garbled
      /\ \A id \in Ids : manifest'[id] = manifest[id] \/ manifest'[id] = Garbled
    BY <1>1 DEF Truncate, TypeInv, TypeOK
<1>3. \A i \in issued : i.link.id \in Ids
    BY DEF TypeInv, TypeOK, Links
<1>4. \A q \in Procs : alone /\ pc[q] = "write" => q = p
    BY <1>1 DEF ListInv
<1> QED BY <1>1, <1>2, <1>3, <1>4 DEF ListInv

\* Nobody has written the manifest since it was truncated, so what the command has is
\* written whole, and its link is printed after that.
LEMMA ListWrite ==
    ASSUME TypeInv, PageInv, ListInv, NEW p \in Procs, Write(p)
    PROVE  ListInv'
<1> SUFFICES ASSUME alone' PROVE ListInv'
    BY DEF ListInv
<1> DEFINE id == job[p].id
<1>1. /\ pc[p] = "write" /\ alone /\ UNCHANGED files /\ id \in Ids
      /\ manifest[id] = Garbled /\ job[p].doc \in Manifests
    BY DEF Write, ListInv, TypeInv, TypeOK
<1>2. /\ manifest'[id] = job[p].doc
      /\ \A other \in Ids : other # id => manifest'[other] = manifest[other]
    BY <1>1 DEF Write, TypeInv, TypeOK
<1>3. /\ pc'[p] = "idle" /\ job'[p] = Idle
      /\ \A q \in Procs : q # p => pc'[q] = "idle" /\ job'[q] = job[q] /\ job[q].id \notin Ids
                                   /\ job'[q].link = NoFile
    BY <1>1, LeaveType DEF Write, ListInv, TypeInv, TypeOK
<1>4. files[id] # {}
    BY <1>1 DEF PageInv, Written, Complete
<1>5. \A i \in issued : i.link.id \in Ids
    BY DEF TypeInv, TypeOK, Links
<1>6. ASSUME NEW i \in issued'
      PROVE  i \in issued \/ (i.link = job[p].link /\ job[p].link # NoFile)
    BY <1>6 DEF Write
<1>7. job[p].link # NoFile => job[p].link.id = id /\ job[p].link \in job[p].doc.links
    BY <1>1 DEF ListInv
<1>8. \A i \in issued : i.link.id = id => i.link \in job[p].doc.links
    BY <1>1 DEF ListInv
<1>9. \A i \in issued' :
        /\ i.link.id \in Ids /\ files'[i.link.id] # {}
        /\ manifest'[i.link.id] \in Manifests \cup {Garbled}
        /\ manifest'[i.link.id] # Garbled => i.link \in manifest'[i.link.id].links
  <2> SUFFICES ASSUME NEW i \in issued'
               PROVE  /\ i.link.id \in Ids /\ files'[i.link.id] # {}
                      /\ manifest'[i.link.id] \in Manifests \cup {Garbled}
                      /\ manifest'[i.link.id] # Garbled => i.link \in manifest'[i.link.id].links
      OBVIOUS
  <2>1. CASE i.link.id = id
    <3>1. i.link \in job[p].doc.links
        BY <2>1, <1>6, <1>7, <1>8
    <3> QED BY <3>1, <2>1, <1>1, <1>2, <1>4
  <2>2. CASE i.link.id # id
    <3>1. i \in issued
        BY <2>2, <1>6, <1>7
    <3> QED BY <3>1, <2>2, <1>1, <1>2, <1>5 DEF ListInv
  <2> QED BY <2>1, <2>2
<1>10. Idle.id \notin Ids /\ Idle.link = NoFile
    BY IdleType
<1> HIDE DEF id
<1> QED BY <1>3, <1>9, <1>10 DEF ListInv

LEMMA ListKill ==
    ASSUME TypeInv, ListInv, NEW p \in Procs, Kill(p)
    PROVE  ListInv'
<1>1. /\ pc'[p] = "idle" /\ job'[p] = Idle /\ UNCHANGED <<files, manifest, issued, alone>>
      /\ \A q \in Procs : q # p => pc'[q] = pc[q] /\ job'[q] = job[q]
    BY LeaveType DEF Kill
<1>2. Idle.id \notin Ids /\ Idle.link = NoFile
    BY IdleType
<1>3. \A i \in issued : i.link.id \in Ids
    BY DEF TypeInv, TypeOK, Links
<1> QED BY <1>1, <1>2, <1>3 DEF ListInv

LEMMA NextList == TypeInv /\ PageInv /\ ListInv /\ [Next]_vars => ListInv'
<1> SUFFICES ASSUME TypeInv, PageInv, ListInv, [Next]_vars PROVE ListInv'
    OBVIOUS
<1>1. CASE Serve \/ StopServing \/ Rotate \/ Tick
    BY <1>1, ListFrame DEF Serve, StopServing, Rotate, Tick
<1>2. CASE UNCHANGED vars
    BY <1>2, ListFrame DEF vars
<1> QED BY <1>1, <1>2, ListCreate, ListPart, ListShow, ListMint, ListTruncate, ListWrite,
           ListKill DEF Next

LEMMA ListAlways == Spec => []ListInv
<1>1. Init => ListInv
    BY IdleType DEF Init, ListInv
<1> QED BY <1>1, NextList, TypesHold, PageAlways, PTL DEF Spec

\* While no two commands have overlapped, a manifest that can be read lists every
\* link that was printed of its artifact, wherever commands were killed.
THEOREM LinksAreListed == Spec => []ManifestListsEveryLink
<1>1. ListInv => ManifestListsEveryLink
    BY DEF ListInv, ManifestListsEveryLink
<1> QED BY <1>1, ListAlways, PTL

-----------------------------------------------------------------------------
(* A link holds until its expiry: no more than a second is cut off, and the *)
(* manifest can be read unless a command is just writing it.                *)

Close(link, until) == until <= 2 * link.exp + 1

HoldInv ==
    /\ \A p \in Procs : job[p].link # NoFile => Close(job[p].link, job[p].until)
    /\ \A i \in issued : Close(i.link, i.until)
    /\ alone /\ kills = 0 =>
         \A id \in Ids : manifest[id] = Garbled => \E p \in Procs : pc[p] = "write" /\ job[p].id = id

LEMMA HoldFrame ==
    HoldInv /\ UNCHANGED <<manifest, pc, job, issued, alone, kills>> => HoldInv'
BY DEF HoldInv, Close

\* Whole seconds are less than a second before the half seconds they are cut from.
LEMMA UnixClose == \A t \in Nat : t <= 2 * Unix(t) + 1
BY DEF Unix

\* A command that is not writing does not make a manifest unreadable.
LEMMA HoldMoves ==
    ASSUME TypeInv, HoldInv, NEW p \in Procs, pc[p] # "write", UNCHANGED <<manifest, issued, kills>>,
           alone' => alone, \A q \in Procs : q # p => pc'[q] = pc[q] /\ job'[q] = job[q],
           job'[p].link # NoFile => Close(job'[p].link, job'[p].until)
    PROVE  HoldInv'
<1>1. ASSUME NEW id \in Ids, alone', kills' = 0, manifest'[id] = Garbled
      PROVE  \E q \in Procs : pc'[q] = "write" /\ job'[q].id = id
  <2>1. PICK q \in Procs : pc[q] = "write" /\ job[q].id = id
      BY <1>1 DEF HoldInv
  <2> QED BY <2>1
<1>2. \A q \in Procs : job'[q].link # NoFile => Close(job'[q].link, job'[q].until)
    BY DEF HoldInv
<1> QED BY <1>1, <1>2 DEF HoldInv, Close

LEMMA NextHold == TypeInv /\ ListInv /\ HoldInv /\ [Next]_vars => HoldInv'
<1> SUFFICES ASSUME TypeInv, ListInv, HoldInv, [Next]_vars PROVE HoldInv'
    OBVIOUS
<1>1. ASSUME NEW p \in Procs, Create(p) PROVE HoldInv'
  <2>1. PICK id \in Ids \ Drawn, e \in Exposures :
          job' = [job EXCEPT ![p] = Job(id, [exposure |-> e, links |-> {}], NoFile, 0)]
      BY <1>1 DEF Create
  <2>2. job'[p].link = NoFile /\ \A q \in Procs : q # p => job'[q] = job[q]
      BY <2>1 DEF TypeInv, Job
  <2>3. /\ pc[p] = "idle" /\ (alone' => alone)
        /\ \A q \in Procs : q # p => pc'[q] = pc[q]
      BY <1>1 DEF Create, Start, Goto, TypeInv, TypeOK
  <2> QED BY <1>1, <2>2, <2>3, HoldMoves DEF Create, bounds
<1>2. ASSUME NEW p \in Procs, WritePart(p) PROVE HoldInv'
  <2>1. /\ pc[p] # "write" /\ UNCHANGED <<manifest, job, issued, alone, kills>>
        /\ \A q \in Procs : q # p => pc'[q] = pc[q]
      BY <1>2 DEF WritePart, Goto, TypeInv, Parts, bounds
  <2> QED BY <2>1, HoldMoves DEF HoldInv
<1>3. ASSUME NEW p \in Procs, Show(p) PROVE HoldInv'
  <2>1. PICK id \in {i \in Ids : manifest[i] \notin {NoFile, Garbled}} :
          job' = [job EXCEPT ![p] = Job(id, manifest[id], NoFile, 0)]
      BY <1>3 DEF Show
  <2>2. job'[p].link = NoFile /\ \A q \in Procs : q # p => job'[q] = job[q]
      BY <2>1 DEF TypeInv, Job
  <2>3. /\ pc[p] = "idle" /\ (alone' => alone)
        /\ \A q \in Procs : q # p => pc'[q] = pc[q]
      BY <1>3 DEF Show, Start, Goto, TypeInv, TypeOK
  <2> QED BY <1>3, <2>2, <2>3, HoldMoves DEF Show, bounds
<1>4. ASSUME NEW p \in Procs, Mint(p) PROVE HoldInv'
  <2>1. PICK ttl \in Ttls :
          LET link == [id |-> job[p].id, exp |-> Unix(now + ttl), key |-> keyFile] IN
          job' = [job EXCEPT ![p] = Job(job[p].id, Recorded(job[p].doc, link), link, now + ttl)]
      BY <1>4 DEF Mint
  <2> DEFINE link == [id |-> job[p].id, exp |-> Unix(now + ttl), key |-> keyFile]
  <2>2. now + ttl \in Nat
    <3>1. now \in Nat
        BY DEF TypeInv, TypeOK
    <3> QED BY <3>1
  <2>3. Close(link, now + ttl)
      BY <2>2, UnixClose DEF Close
  <2>4. /\ job'[p].link = link /\ job'[p].until = now + ttl /\ pc[p] = "mint"
        /\ \A q \in Procs : q # p => pc'[q] = pc[q] /\ job'[q] = job[q]
      BY <1>4, <2>1 DEF Mint, Goto, TypeInv, Job
  <2> HIDE DEF link
  <2> QED BY <1>4, <2>3, <2>4, HoldMoves DEF Mint, bounds
<1>5. ASSUME NEW p \in Procs, Truncate(p) PROVE HoldInv'
  <2>1. /\ pc[p] = "truncate" /\ pc'[p] = "write" /\ UNCHANGED <<job, issued, alone, kills>>
        /\ \A q \in Procs : q # p => pc'[q] = pc[q]
      BY <1>5 DEF Truncate, Goto, TypeInv, bounds
  <2>2. \A id \in Ids : manifest'[id] = manifest[id] \/ id = job[p].id
      BY <1>5 DEF Truncate, TypeInv, TypeOK
  <2>3. ASSUME NEW id \in Ids, alone', kills' = 0, manifest'[id] = Garbled
        PROVE  \E q \in Procs : pc'[q] = "write" /\ job'[q].id = id
    <3>1. CASE id = job[p].id
        BY <3>1, <2>1
    <3>2. CASE id # job[p].id
      <4>1. PICK q \in Procs : pc[q] = "write" /\ job[q].id = id
          BY <2>1, <2>2, <2>3, <3>2 DEF HoldInv
      <4> QED BY <4>1, <2>1
    <3> QED BY <3>1, <3>2
  <2> QED BY <2>1, <2>3 DEF HoldInv, Close
<1>6. ASSUME NEW p \in Procs, Write(p) PROVE HoldInv'
  <2>1. /\ pc[p] = "write" /\ job[p].id \in Ids /\ job[p].doc \in Manifests
        /\ UNCHANGED <<alone, kills>>
      BY <1>6 DEF Write, TypeInv, TypeOK, bounds
  <2>2. \A q \in Procs : /\ job'[q].link # NoFile => q # p
                         /\ q # p => job'[q] = job[q] /\ pc'[q] = pc[q]
      BY <1>6, LeaveType, IdleType DEF Write
  <2>3. \A i \in issued' : Close(i.link, i.until)
      BY <1>6 DEF Write, HoldInv
  <2>4. ASSUME NEW id \in Ids, alone', kills' = 0, manifest'[id] = Garbled
        PROVE  \E q \in Procs : pc'[q] = "write" /\ job'[q].id = id
    <3>1. manifest[job[p].id] = Garbled
        BY <2>1, <2>4 DEF ListInv
    <3>2. /\ manifest'[job[p].id] = job[p].doc
          /\ id # job[p].id => manifest'[id] = manifest[id]
        BY <1>6, <2>1, <3>1 DEF Write, TypeInv, TypeOK
    <3>3. id # job[p].id /\ manifest[id] = Garbled
        BY <3>2, <2>1, <2>4
    <3>4. PICK q \in Procs : pc[q] = "write" /\ job[q].id = id
        BY <2>1, <2>4, <3>3 DEF HoldInv
    <3> QED BY <3>4, <3>3, <2>2
  <2>5. \A q \in Procs : job'[q].link # NoFile => Close(job'[q].link, job'[q].until)
      BY <2>2 DEF HoldInv
  <2> QED BY <2>3, <2>4, <2>5 DEF HoldInv, Close
<1>7. ASSUME NEW p \in Procs, Kill(p) PROVE HoldInv'
  <2>1. kills' # 0 /\ issued' = issued
      BY <1>7 DEF Kill, TypeInv, TypeOK
  <2>2. \A q \in Procs : job'[q].link # NoFile => job'[q] = job[q]
      BY <1>7, LeaveType, IdleType DEF Kill
  <2> QED BY <2>1, <2>2 DEF HoldInv, Close
<1>8. CASE Serve \/ StopServing \/ Rotate \/ Tick
    BY <1>8, HoldFrame DEF Serve, StopServing, Rotate, Tick, bounds
<1>9. CASE UNCHANGED vars
    BY <1>9, HoldFrame DEF vars, bounds
<1> QED BY <1>1, <1>2, <1>3, <1>4, <1>5, <1>6, <1>7, <1>8, <1>9 DEF Next

\* While no command was killed and no two have overlapped, a server with its key
\* accepts a link until less than a second before the time printed with it, except
\* while a manifest is being written.
THEOREM LinksHold == Spec => []LinkHoldsUntilItsExpiry
<1>1. Init => HoldInv
    BY IdleType DEF Init, HoldInv
<1>2. Spec => []HoldInv
    BY <1>1, NextHold, TypesHold, ListAlways, PTL DEF Spec
<1>3. TypeInv /\ ListInv /\ HoldInv => LinkHoldsUntilItsExpiry
  <2> SUFFICES ASSUME TypeInv, ListInv, HoldInv, alone, kills = 0, NEW i \in issued,
                      i.link.key = server, now + 2 <= i.until,
                      \A p \in Procs : pc[p] # "write"
               PROVE  Accepted(i.link)
      BY DEF LinkHoldsUntilItsExpiry
  <2>1. /\ i.link \in Links /\ i.link.id \in Ids /\ i.link.key \in Keys /\ i.link.exp \in Nat
        /\ i.until \in Nat /\ now \in Nat
      BY DEF TypeInv, TypeOK, Links
  <2>2. manifest[i.link.id] \notin {NoFile, Garbled}
      BY <2>1 DEF ListInv, HoldInv
  <2>3. Close(i.link, i.until)
      BY DEF HoldInv
  <2>4. ~Expired(i.link)
      BY <2>1, <2>3 DEF Close, Expired
  <2> QED BY <2>1, <2>2, <2>4 DEF Accepted
<1> QED BY <1>2, <1>3, TypesHold, ListAlways, PTL

=============================================================================
