-------------------------- MODULE TaskDeliveryProofs ------------------------
(***************************************************************************)
(* Proofs about TaskDelivery, for any tasks, movers and kills: writer,     *)
(* movers and run together keep the promise of Mailbox.                    *)
(***************************************************************************)
EXTENDS TaskDelivery, TLAPS

\* One file changes its content.
LEMMA PutEffect ==
    ASSUME TypeOK, NEW k \in Kinds, NEW d \in Dirs, NEW t \in Tasks, NEW c \in Contents,
           file' = [file EXCEPT ![k][d][t] = c]
    PROVE  /\ file' \in [Kinds -> [Dirs -> [Tasks -> Contents]]]
           /\ \A j \in Kinds, e \in Dirs, u \in Tasks :
                 file'[j][e][u] = IF j = k /\ e = d /\ u = t THEN c ELSE file[j][e][u]
  BY DEF TypeOK

\* One file is held by its writer elsewhere, or no longer.
LEMMA AtEffect ==
    ASSUME TypeOK, NEW k \in Kinds, NEW t \in Tasks, NEW d \in Dirs \cup {"never", "gone"},
           at' = [at EXCEPT ![k][t] = d]
    PROVE  /\ at' \in [Kinds -> [Tasks -> Dirs \cup {"never", "gone"}]]
           /\ \A j \in Kinds, u \in Tasks :
                 at'[j][u] = IF j = k /\ u = t THEN d ELSE at[j][u]
  BY DEF TypeOK

\* A rename takes the file and its writer along, and drops what was there.
LEMMA RenameEffect ==
    ASSUME TypeOK, NEW k \in Kinds, NEW t \in Tasks, NEW src \in Dirs, NEW dst \in Dirs,
           src # dst, Rename(k, src, dst, t)
    PROVE  /\ file' \in [Kinds -> [Dirs -> [Tasks -> Contents]]]
           /\ at' \in [Kinds -> [Tasks -> Dirs \cup {"never", "gone"}]]
           /\ mat' \in [Movers -> Dirs \cup {"none", "gone"}]
           /\ \A m \in Movers :
                 /\ mat'[m] = "none" <=> mat[m] = "none"
                 /\ mat'[m] \in {mat[m], dst, "gone"}
                 /\ mkind[m] = k /\ mtask[m] = t => mat'[m] # src
                 /\ ~(mkind[m] = k /\ mtask[m] = t) => mat'[m] = mat[m]
           /\ \A j \in Kinds, e \in Dirs, u \in Tasks :
                 file'[j][e][u] = IF j = k /\ u = t /\ e = src THEN "none"
                                  ELSE IF j = k /\ u = t /\ e = dst THEN file[k][src][t]
                                  ELSE file[j][e][u]
           /\ \A j \in Kinds, u \in Tasks :
                 at'[j][u] = IF j = k /\ u = t
                             THEN IF at[k][t] = src THEN dst
                                  ELSE IF at[k][t] = dst THEN "gone" ELSE at[k][t]
                             ELSE at[j][u]
<1> DEFINE moved == [file EXCEPT ![k][dst][t] = file[k][src][t]]
<1>1. /\ moved \in [Kinds -> [Dirs -> [Tasks -> Contents]]]
      /\ \A j \in Kinds, e \in Dirs, u \in Tasks :
            moved[j][e][u] = IF j = k /\ e = dst /\ u = t THEN file[k][src][t] ELSE file[j][e][u]
  BY DEF TypeOK
<1>2. file' = [moved EXCEPT ![k][src][t] = "none"]
  BY DEF Rename
<1> HIDE DEF moved
<1>3. /\ file' \in [Kinds -> [Dirs -> [Tasks -> Contents]]]
      /\ \A j \in Kinds, e \in Dirs, u \in Tasks :
            file'[j][e][u] = IF j = k /\ e = src /\ u = t THEN "none" ELSE moved[j][e][u]
  BY <1>1, <1>2 DEF Contents
<1>4. /\ at' \in [Kinds -> [Tasks -> Dirs \cup {"never", "gone"}]]
      /\ \A j \in Kinds, u \in Tasks :
            at'[j][u] = IF j = k /\ u = t
                        THEN IF at[k][t] = src THEN dst
                             ELSE IF at[k][t] = dst THEN "gone" ELSE at[k][t]
                        ELSE at[j][u]
  <2> DEFINE to == IF at[k][t] = src THEN dst ELSE IF at[k][t] = dst THEN "gone" ELSE at[k][t]
  <2>1. to \in Dirs \cup {"never", "gone"} /\ at' = [at EXCEPT ![k][t] = to]
    BY DEF TypeOK, Rename, Follow
  <2> HIDE DEF to
  <2>2. /\ at' \in [Kinds -> [Tasks -> Dirs \cup {"never", "gone"}]]
        /\ \A j \in Kinds, u \in Tasks : at'[j][u] = IF j = k /\ u = t THEN to ELSE at[j][u]
    BY <2>1, AtEffect
  <2> QED
    BY <2>2 DEF to
<1>5. /\ mat' \in [Movers -> Dirs \cup {"none", "gone"}]
      /\ \A m \in Movers :
            /\ mat'[m] = "none" <=> mat[m] = "none"
            /\ mat'[m] \in {mat[m], dst, "gone"}
            /\ mkind[m] = k /\ mtask[m] = t => mat'[m] # src
            /\ ~(mkind[m] = k /\ mtask[m] = t) => mat'[m] = mat[m]
  <2>1. \A d \in Dirs \cup {"none", "gone"} :
           /\ Follow(src, dst, d) \in Dirs \cup {"none", "gone"}
           /\ Follow(src, dst, d) = "none" <=> d = "none"
           /\ Follow(src, dst, d) \in {d, dst, "gone"}
           /\ Follow(src, dst, d) # src
    BY DEF Follow, Dirs
  <2>2. mat' = [m \in Movers |-> IF mkind[m] = k /\ mtask[m] = t THEN Follow(src, dst, mat[m])
                                 ELSE mat[m]]
    BY DEF Rename
  <2> QED
    BY <2>1, <2>2 DEF TypeOK
<1> QED
  BY <1>1, <1>3, <1>4, <1>5

\* What a mover does after a file has its types.
LEMMA OnwardType ==
    ASSUME TypeOK, NEW m \in Movers, NEW moved \in BOOLEAN, Onward(m, moved),
           mpc[m] \in {"move", "write", "fill", "remove"}
    PROVE  /\ mpc' \in [Movers -> {"idle", "next", "move", "write", "fill", "remove"}]
           /\ mtask' \in [Movers -> Tasks \cup {Nobody}]
           /\ mkind' \in [Movers -> Kinds]
           /\ mtodo' \in [Movers -> SUBSET Tasks]
           /\ mpc'[m] \in {"next", "move"}
           /\ mpc'[m] = "move" <=> mtask'[m] \in Tasks
           /\ \A q \in Movers \ {m} : mpc'[q] = mpc[q] /\ mtask'[q] = mtask[q] /\ mkind'[q] = mkind[q]
<1> USE DeliveryAssumption
<1>0. /\ mpc \in [Movers -> {"idle", "next", "move", "write", "fill", "remove"}]
      /\ mtask \in [Movers -> Tasks \cup {Nobody}] /\ mtask[m] \in Tasks
      /\ mkind \in [Movers -> Kinds] /\ mtodo \in [Movers -> SUBSET Tasks]
  BY DEF TypeOK
<1>1. CASE moved /\ mkind[m] = "body"
  BY <1>0, <1>1 DEF Onward, Kinds
<1>2. CASE ~(moved /\ mkind[m] = "body")
  BY <1>0, <1>2 DEF Onward, Kinds
<1> QED
  BY <1>1, <1>2

\* A mover that is done with a file leaves the types as they are.
LEMMA OnwardKeeps ==
    ASSUME TypeOK, NEW m \in Movers, NEW moved \in BOOLEAN, Onward(m, moved),
           mpc[m] \in {"move", "write", "fill", "remove"},
           UNCHANGED <<writer, run, served, unfiled, sameDevice>>,
           file' \in [Kinds -> [Dirs -> [Tasks -> Contents]]],
           at' \in [Kinds -> [Tasks -> Dirs \cup {"never", "gone"}]],
           mat' \in [Movers -> Dirs \cup {"none", "gone"}], mat'[m] = "none",
           \A q \in Movers \ {m} : mat'[q] = "none" <=> mat[q] = "none",
           mbuf' \in [Movers -> Contents], mbuf'[m] = "none",
           \A q \in Movers \ {m} : mbuf'[q] = mbuf[q],
           kills' \in Nat, failures' \in Nat
    PROVE  TypeOK'
<1>1. /\ mpc' \in [Movers -> {"idle", "next", "move", "write", "fill", "remove"}]
      /\ mtask' \in [Movers -> Tasks \cup {Nobody}]
      /\ mkind' \in [Movers -> Kinds]
      /\ mtodo' \in [Movers -> SUBSET Tasks]
      /\ mpc'[m] \in {"next", "move"}
      /\ mpc'[m] = "move" <=> mtask'[m] \in Tasks
      /\ \A q \in Movers \ {m} : mpc'[q] = mpc[q] /\ mtask'[q] = mtask[q]
  BY OnwardType
<1>2. \A q \in Movers :
         /\ mpc'[q] \in {"move", "write", "fill", "remove"} <=> mtask'[q] \in Tasks
         /\ mpc'[q] \in {"write", "fill", "remove"} <=> mbuf'[q] # "none"
         /\ mpc'[q] = "fill" <=> mat'[q] # "none"
  <2>1. \A q \in Movers \ {m} :
           /\ mpc[q] \in {"move", "write", "fill", "remove"} <=> mtask[q] \in Tasks
           /\ mpc[q] \in {"write", "fill", "remove"} <=> mbuf[q] # "none"
           /\ mpc[q] = "fill" <=> mat[q] # "none"
    BY DEF TypeOK
  <2> QED
    BY <1>1, <2>1
<1>3. /\ writer' \in [Tasks -> {"create", "fill", "createMeta", "fillMeta", "done"}]
      /\ rpc' \in {"idle", "load", "serve", "file", "fileMeta"}
      /\ rtask' \in Tasks \cup {Nobody}
      /\ rpc' # "idle" <=> rtask' \in Tasks
      /\ rbody' \in Contents /\ rmeta' \in Contents
      /\ served' \in [Tasks -> [times : Nat, body : Contents, meta : Contents]]
      /\ unfiled' \in [Tasks -> Nat]
      /\ sameDevice' \in BOOLEAN
  BY DEF TypeOK, run
<1> QED
  BY <1>1, <1>2, <1>3 DEF TypeOK

\* Every reachable state has its types, for any tasks, movers, kills and failures.
THEOREM DeliveryTyped == Spec => []TypeOK
<1> USE DeliveryAssumption
<1>1. Init => TypeOK
  BY DEF Init, TypeOK, Kinds, Contents
<1>2. TypeOK /\ [Next]_vars => TypeOK'
  <2> SUFFICES ASSUME TypeOK, [Next]_vars
               PROVE  TypeOK'
    OBVIOUS
  <2>1. ASSUME NEW k \in Kinds, NEW t \in Tasks, Create(k, t), UNCHANGED sameDevice
        PROVE  TypeOK'
    <3>1. /\ file' \in [Kinds -> [Dirs -> [Tasks -> Contents]]]
          /\ at' \in [Kinds -> [Tasks -> Dirs \cup {"never", "gone"}]]
      BY <2>1 DEF Create, TypeOK, Dirs, Contents
    <3>2. writer' \in [Tasks -> {"create", "fill", "createMeta", "fillMeta", "done"}]
      BY <2>1 DEF Create, TypeOK
    <3> QED
      BY <2>1, <3>1, <3>2 DEF Create, TypeOK, movers, run, bounds
  <2>2. ASSUME NEW k \in Kinds, NEW t \in Tasks, Fill(k, t), UNCHANGED sameDevice
        PROVE  TypeOK'
    <3>1. file' \in [Kinds -> [Dirs -> [Tasks -> Contents]]]
      <4>1. CASE at[k][t] \in Dirs
        BY <2>2, <4>1, PutEffect DEF Fill, Contents, Dirs
      <4>2. CASE at[k][t] = "gone"
        BY <2>2, <4>2 DEF Fill, TypeOK
      <4>3. CASE at[k][t] = "never"
        <5>1. file' = [file EXCEPT ![k]["never"][t] = "full"]
          BY <2>2, <4>3 DEF Fill
        <5>2. [file[k] EXCEPT !["never"][t] = "full"] = file[k]
          <6>1. file[k] \in [Dirs -> [Tasks -> Contents]] /\ "never" \notin Dirs
            BY DEF TypeOK, Dirs
          <6> QED
            BY <6>1
        <5>3. file' = [file EXCEPT ![k] = [file[k] EXCEPT !["never"][t] = "full"]]
          BY <5>1
        <5>4. file \in [Kinds -> [Dirs -> [Tasks -> Contents]]]
          BY DEF TypeOK
        <5>5. file' = file
          BY <5>2, <5>3, <5>4
        <5> QED
          BY <5>4, <5>5
      <4> QED
        BY <4>1, <4>2, <4>3 DEF TypeOK
    <3>2. writer' \in [Tasks -> {"create", "fill", "createMeta", "fillMeta", "done"}]
      BY <2>2 DEF Fill, TypeOK
    <3> QED
      BY <2>2, <3>1, <3>2 DEF Fill, TypeOK, movers, run, bounds
  <2>3. ASSUME NEW m \in Movers, List(m), UNCHANGED sameDevice
        PROVE  TypeOK'
    <3>1. /\ mpc[m] = "idle" /\ mpc' = [mpc EXCEPT ![m] = "next"]
          /\ UNCHANGED <<files, mtask, mkind, mbuf, writer, run, served, unfiled, bounds>>
      BY <2>3 DEF List, Mover, bounds
    <3>2. mtodo' \in [Movers -> SUBSET Tasks]
      <4>1. {t \in Tasks : Exists("body", "outer", t)} \in SUBSET Tasks
        OBVIOUS
      <4> QED
        BY <2>3, <4>1 DEF List, TypeOK
    <3> QED
      BY <2>3, <3>1, <3>2 DEF TypeOK, run, files, bounds
  <2>4. ASSUME NEW m \in Movers, NextTask(m), UNCHANGED sameDevice
        PROVE  TypeOK'
    <3>1. /\ mpc[m] = "next"
          /\ UNCHANGED <<files, mkind, mbuf, writer, run, served, unfiled, bounds>>
      BY <2>4 DEF NextTask, Mover, bounds
    <3>2. CASE mpc' = [mpc EXCEPT ![m] = "idle"] /\ UNCHANGED <<mtask, mtodo>>
      BY <2>4, <3>1, <3>2 DEF TypeOK, run, files, bounds
    <3>3. ASSUME NEW t \in mtodo[m],
                 mtodo' = [mtodo EXCEPT ![m] = @ \ {t}],
                 mtask' = [mtask EXCEPT ![m] = t],
                 mpc' = [mpc EXCEPT ![m] = "move"]
          PROVE  TypeOK'
      <4>1. t \in Tasks
        BY DEF TypeOK
      <4> QED
        BY <2>4, <3>1, <3>3, <4>1 DEF TypeOK, run, files, bounds
    <3> QED
      BY <2>4, <3>2, <3>3 DEF NextTask
  <2>5. ASSUME NEW m \in Movers, Move(m), UNCHANGED sameDevice
        PROVE  TypeOK'
    <3> DEFINE k == mkind[m]
               t == mtask[m]
    <3>1. /\ k \in Kinds /\ t \in Tasks /\ mpc[m] = "move" /\ mat[m] = "none"
          /\ UNCHANGED <<writer, run, served, unfiled, bounds>>
      BY <2>5 DEF Move, Mover, TypeOK, bounds
    <3>2. CASE Exists(k, "outer", t) /\ sameDevice
      <4>1. Rename(k, "outer", "inbox", t) /\ Onward(m, TRUE) /\ mbuf' = mbuf
        BY <2>5, <3>2 DEF Move
      <4>2. /\ file' \in [Kinds -> [Dirs -> [Tasks -> Contents]]]
            /\ at' \in [Kinds -> [Tasks -> Dirs \cup {"never", "gone"}]]
            /\ mat' \in [Movers -> Dirs \cup {"none", "gone"}]
            /\ \A q \in Movers : mat'[q] = "none" <=> mat[q] = "none"
        BY <3>1, <4>1, RenameEffect DEF Dirs
      <4>3. /\ kills' \in Nat /\ failures' \in Nat
            /\ mbuf' \in [Movers -> Contents] /\ mbuf[m] = "none"
        BY <3>1, <4>1 DEF TypeOK, bounds
      <4> HIDE DEF k, t
      <4> QED
        BY <2>5, <3>1, <4>1, <4>2, <4>3, OnwardKeeps
    <3>3. CASE Exists(k, "outer", t) /\ ~sameDevice
      <4>1. file[k]["outer"][t] \in Contents \ {"none"}
        BY <3>1, <3>3 DEF Exists, TypeOK, Dirs
      <4>2. /\ UNCHANGED <<files, mtask, mkind, mtodo>>
            /\ mbuf' = [mbuf EXCEPT ![m] = file[k]["outer"][t]]
            /\ mpc' = [mpc EXCEPT ![m] = "write"]
        BY <2>5, <3>3 DEF Move
      <4> QED
        BY <2>5, <3>1, <4>1, <4>2 DEF TypeOK, run, files, bounds
    <3>4. CASE ~Exists(k, "outer", t)
      <4>1. Onward(m, FALSE) /\ UNCHANGED <<files, mbuf>>
        BY <2>5, <3>4 DEF Move
      <4> QED
        BY <2>5, <3>1, <4>1, OnwardKeeps DEF TypeOK, files, bounds
    <3> QED
      BY <3>2, <3>3, <3>4
  <2>6. ASSUME NEW m \in Movers, Open(m) \/ Copy(m), UNCHANGED sameDevice
        PROVE  TypeOK'
    <3>1. /\ mkind[m] \in Kinds /\ mtask[m] \in Tasks /\ mbuf[m] \in Contents \ {"none"}
          /\ mpc[m] \in {"write", "fill"}
          /\ UNCHANGED <<at, mtask, mkind, mbuf, mtodo, writer, run, served, unfiled, bounds>>
      BY <2>6 DEF Open, Copy, Mover, TypeOK, bounds
    <3>2. CASE Open(m)
      <4>1. file' \in [Kinds -> [Dirs -> [Tasks -> Contents]]]
        BY <3>1, <3>2, PutEffect DEF Open, Dirs, Contents
      <4>2. mpc' = [mpc EXCEPT ![m] = "fill"] /\ mat' = [mat EXCEPT ![m] = "inbox"]
        BY <3>2 DEF Open
      <4> QED
        BY <2>6, <3>1, <4>1, <4>2 DEF TypeOK, run, bounds, Dirs
    <3>3. CASE Copy(m)
      <4>1. file' \in [Kinds -> [Dirs -> [Tasks -> Contents]]]
        <5>1. mat[m] \in Dirs \cup {"gone"}
          BY <3>3 DEF Copy, Mover, TypeOK
        <5>2. CASE mat[m] = "gone" \/ mbuf[m] = "empty"
          BY <3>3, <5>2 DEF Copy, TypeOK
        <5>3. CASE mat[m] # "gone" /\ mbuf[m] # "empty"
          BY <3>1, <3>3, <5>1, <5>3, PutEffect DEF Copy, Contents
        <5> QED
          BY <5>2, <5>3
      <4>2. mpc' = [mpc EXCEPT ![m] = "remove"] /\ mat' = [mat EXCEPT ![m] = "none"]
        BY <3>3 DEF Copy
      <4> QED
        BY <2>6, <3>1, <4>1, <4>2 DEF TypeOK, run, bounds
    <3> QED
      BY <2>6, <3>2, <3>3
  <2>7. ASSUME NEW m \in Movers, Remove(m), UNCHANGED sameDevice
        PROVE  TypeOK'
    <3>1. /\ mkind[m] \in Kinds /\ mtask[m] \in Tasks /\ mpc[m] = "remove" /\ mat[m] = "none"
          /\ UNCHANGED <<mat, writer, run, served, unfiled, bounds>>
      BY <2>7 DEF Remove, Mover, TypeOK, bounds
    <3>2. file' \in [Kinds -> [Dirs -> [Tasks -> Contents]]]
      BY <2>7, <3>1, PutEffect DEF Remove, Dirs, Contents
    <3>3. at' \in [Kinds -> [Tasks -> Dirs \cup {"never", "gone"}]]
      BY <2>7, <3>1 DEF Remove, TypeOK
    <3>4. Onward(m, TRUE) /\ mbuf' = [mbuf EXCEPT ![m] = "none"]
      BY <2>7 DEF Remove
    <3>5. mbuf' \in [Movers -> Contents] /\ mbuf'[m] = "none"
          /\ \A q \in Movers \ {m} : mbuf'[q] = mbuf[q]
      BY <3>4 DEF TypeOK, Contents
    <3> QED
      BY <2>7, <3>1, <3>2, <3>3, <3>4, <3>5, OnwardKeeps DEF TypeOK, bounds
  <2>8. CASE Pick /\ UNCHANGED sameDevice
    BY <2>8 DEF Pick, Run, Exists, TypeOK, movers, files, bounds, Dirs, Kinds
  <2>9. CASE Load /\ UNCHANGED sameDevice
    BY <2>9 DEF Load, Run, Quit, TypeOK, movers, files, bounds, Dirs, Kinds, Contents
  <2>10. CASE Serve /\ UNCHANGED sameDevice
    <3>1. /\ rtask \in Tasks /\ rbody \in Contents /\ rmeta \in Contents
          /\ served[rtask] \in [times : Nat, body : Contents, meta : Contents]
      BY <2>10 DEF Serve, Run, TypeOK
    <3>2. [times |-> served[rtask].times + 1, body |-> rbody, meta |-> rmeta]
             \in [times : Nat, body : Contents, meta : Contents]
      BY <3>1
    <3> QED
      BY <2>10, <3>1, <3>2 DEF Serve, Run, TypeOK, movers, files, bounds
  <2>11. ASSUME File \/ FileMetadata, UNCHANGED sameDevice
         PROVE  TypeOK'
    <3>1. rtask \in Tasks
      BY <2>11 DEF File, FileMetadata, Run, TypeOK
    <3>2. /\ file' \in [Kinds -> [Dirs -> [Tasks -> Contents]]]
          /\ at' \in [Kinds -> [Tasks -> Dirs \cup {"never", "gone"}]]
          /\ mat' \in [Movers -> Dirs \cup {"none", "gone"}]
          /\ \A m \in Movers : mat'[m] = "none" <=> mat[m] = "none"
      <4>1. CASE \E k \in Kinds : Rename(k, "inbox", "processed", rtask)
        BY <3>1, <4>1, RenameEffect DEF Dirs
      <4>2. CASE UNCHANGED files
        BY <4>2 DEF TypeOK, files
      <4> QED
        BY <2>11, <4>1, <4>2 DEF File, FileMetadata, Kinds
    <3> QED
      BY <2>11, <3>1, <3>2 DEF File, FileMetadata, Run, Quit, TypeOK, movers, bounds, Contents
  <2>12. CASE Kill /\ UNCHANGED sameDevice
    <3>1. ASSUME NEW m \in Movers, KillMover(m)
          PROVE  TypeOK'
      BY <2>12, <3>1 DEF Kill, KillMover, TypeOK, run, Kinds, Contents
    <3>2. ASSUME NEW t \in Tasks, KillWriter(t)
          PROVE  TypeOK'
      BY <2>12, <3>2 DEF Kill, KillWriter, TypeOK, run, movers
    <3>3. CASE KillRun
      <4>1. unfiled' \in [Tasks -> Nat]
        BY <3>3 DEF KillRun, Abandon, TypeOK
      <4> QED
        BY <2>12, <3>3, <4>1 DEF Kill, KillRun, Abandon, Quit, TypeOK, movers, Contents
    <3> QED
      BY <2>12, <3>1, <3>2, <3>3 DEF Kill
  <2>13. CASE UNCHANGED vars
    BY <2>13 DEF vars, TypeOK, movers, run, files, bounds
  <2>14. ASSUME NEW m \in Movers, CopyFails(m), UNCHANGED sameDevice
         PROVE  TypeOK'
    <3>1. /\ mpc[m] \in {"write", "fill"} /\ Onward(m, FALSE)
          /\ failures' = failures + 1
          /\ UNCHANGED <<file, at, writer, run, served, unfiled, kills>>
      BY <2>14 DEF CopyFails, Mover
    <3>2. /\ mbuf' \in [Movers -> Contents] /\ mbuf'[m] = "none"
          /\ \A q \in Movers \ {m} : mbuf'[q] = mbuf[q]
      BY <2>14 DEF CopyFails, TypeOK, Contents
    <3>3. /\ mat' \in [Movers -> Dirs \cup {"none", "gone"}] /\ mat'[m] = "none"
          /\ \A q \in Movers \ {m} : mat'[q] = mat[q]
      BY <2>14 DEF CopyFails, TypeOK
    <3>4. /\ kills' \in Nat /\ failures' \in Nat
          /\ file' \in [Kinds -> [Dirs -> [Tasks -> Contents]]]
          /\ at' \in [Kinds -> [Tasks -> Dirs \cup {"never", "gone"}]]
      BY <3>1 DEF TypeOK
    <3> QED
      BY <2>14, <3>1, <3>2, <3>3, <3>4, OnwardKeeps
  <2>15. CASE Fail /\ UNCHANGED sameDevice
    <3>1. unfiled' \in [Tasks -> Nat]
      BY <2>15 DEF Fail, Abandon, TypeOK
    <3> QED
      BY <2>15, <3>1 DEF Fail, Abandon, Quit, TypeOK, movers, files, Contents
  <2> QED
    BY <2>1, <2>2, <2>3, <2>4, <2>5, <2>6, <2>7, <2>8, <2>9, <2>10, <2>11, <2>12, <2>13,
       <2>14, <2>15 DEF Next, Step
<1> QED
  BY <1>1, <1>2, PTL DEF Spec

-----------------------------------------------------------------------------
(* What the processes rely on while others work on the same files.          *)

Arrived(k, t) == Exists(k, "inbox", t) \/ Exists(k, "processed", t)

\* A file that was created is somewhere, and where its writer has it open.
FileInv ==
    \A k \in Kinds, t \in Tasks :
       /\ at[k][t] = "never" => \A d \in Dirs : ~Exists(k, d, t)
       /\ at[k][t] # "never" => \E d \in Dirs : Exists(k, d, t)
       /\ at[k][t] \in Dirs => Exists(k, at[k][t], t)

\* What is to be created was never there.
WriterInv == \A t \in Tasks : writer[t] = "create" => at["body"][t] = "never"

\* A mover that copies has a file to copy, one that has opened the copy still has it,
\* wherever it was taken, and one that removes has copied.
MoverInv(m) ==
    /\ mpc[m] = "write" => at[mkind[m]][mtask[m]] # "never"
    /\ mpc[m] \in {"fill", "remove"} => Arrived(mkind[m], mtask[m])
    /\ mpc[m] = "fill" => mat[m] \in {"inbox", "processed", "gone"}
    /\ mpc[m] = "fill" /\ mat[m] = "processed" => Exists(mkind[m], "processed", mtask[m])

\* A run has a task that arrived, and files only what it served.
RunInv ==
    /\ rpc # "idle" => Arrived("body", rtask)
    /\ rpc = "file" => served[rtask].times > 0

CourseInv == FileInv /\ WriterInv /\ (\A m \in Movers : MoverInv(m)) /\ RunInv

\* What no step undoes.
Kept ==
    \A k \in Kinds, t \in Tasks :
       /\ at[k][t] # "never" => at'[k][t] # "never"
       /\ Arrived(k, t) => Arrived(k, t)'
       /\ Exists(k, "processed", t) => Exists(k, "processed", t)'

\* What others may do with the copy a mover has open.
HandKept(m) ==
    \/ mat'[m] \in {mat[m], "inbox", "gone"}
    \/ mat'[m] = "processed" /\ file'[mkind[m]]["processed"][mtask[m]] # "none"

\* The files of a step that creates, fills, renames, copies or removes one file.
LEMMA CreateFiles ==
    ASSUME TypeOK, FileInv, NEW k \in Kinds, NEW t \in Tasks, Create(k, t)
    PROVE  /\ FileInv' /\ Kept
           /\ \A e \in Dirs, u \in Tasks :
                 Exists("body", e, u)' = (Exists("body", e, u) \/ (k = "body" /\ e = "outer" /\ u = t))
           /\ \A u \in Tasks : k # "body" \/ u # t => at'["body"][u] = at["body"][u]
<1>1. \A j \in Kinds, e \in Dirs, u \in Tasks :
         file'[j][e][u] = IF j = k /\ e = "outer" /\ u = t THEN "empty" ELSE file[j][e][u]
  <2>1. /\ "outer" \in Dirs /\ "empty" \in Contents
        /\ file' = [file EXCEPT ![k]["outer"][t] = "empty"]
    BY DEF Create, Dirs, Contents
  <2> QED
    BY <2>1 DEF TypeOK
<1>2. \A j \in Kinds, u \in Tasks :
         at'[j][u] = IF j = k /\ u = t THEN "outer" ELSE at[j][u]
  <2>1. "outer" \in Dirs /\ at' = [at EXCEPT ![k][t] = "outer"]
    BY DEF Create, Dirs
  <2> QED
    BY <2>1 DEF TypeOK
<1>3. FileInv'
  <2> SUFFICES ASSUME NEW j \in Kinds, NEW u \in Tasks
               PROVE  /\ at'[j][u] = "never" => \A d \in Dirs : file'[j][d][u] = "none"
                      /\ at'[j][u] # "never" => \E d \in Dirs : file'[j][d][u] # "none"
                      /\ at'[j][u] \in Dirs => file'[j][at'[j][u]][u] # "none"
    BY DEF FileInv, Exists
  <2>1. CASE j = k /\ u = t
    BY <1>1, <1>2, <2>1 DEF Dirs
  <2>2. CASE ~(j = k /\ u = t)
    <3>1. at'[j][u] = at[j][u] /\ \A d \in Dirs : file'[j][d][u] = file[j][d][u]
      BY <1>1, <1>2, <2>2
    <3> QED
      BY <3>1 DEF FileInv, Exists
  <2> QED
    BY <2>1, <2>2
<1>4. Kept
  BY <1>1, <1>2 DEF Kept, Arrived, Exists, Dirs
<1> QED
  BY <1>1, <1>2, <1>3, <1>4 DEF Exists, Dirs, Kinds

LEMMA FillFiles ==
    ASSUME TypeOK, FileInv, NEW k \in Kinds, NEW t \in Tasks, Fill(k, t)
    PROVE  /\ FileInv' /\ Kept /\ at' = at
           /\ \A e \in Dirs, u \in Tasks : Exists("body", e, u)' = Exists("body", e, u)
<1>1. CASE at[k][t] \in Dirs
  <2>1. \A j \in Kinds, e \in Dirs, u \in Tasks :
           file'[j][e][u] = IF j = k /\ e = at[k][t] /\ u = t THEN "full" ELSE file[j][e][u]
    <3>1. "full" \in Contents /\ file' = [file EXCEPT ![k][at[k][t]][t] = "full"]
      BY <1>1 DEF Fill, Dirs, Contents
    <3> QED
      BY <1>1, <3>1 DEF TypeOK
  <2>2. file[k][at[k][t]][t] # "none" /\ at' = at
    BY <1>1 DEF Fill, FileInv, Exists
  <2>3. \A j \in Kinds, e \in Dirs, u \in Tasks : Exists(j, e, u)' = Exists(j, e, u)
    BY <1>1, <2>1, <2>2 DEF Exists
  <2> QED
    BY <1>1, <2>2, <2>3 DEF FileInv, Kept, Arrived, Dirs, Kinds
<1>2. CASE at[k][t] = "gone"
  BY <1>2 DEF Fill, FileInv, Kept, Arrived, Exists
<1>3. CASE at[k][t] = "never"
  <2>1. file' = [file EXCEPT ![k] = [file[k] EXCEPT !["never"][t] = "full"]]
    BY <1>3 DEF Fill
  <2>2. file[k] \in [Dirs -> [Tasks -> Contents]] /\ "never" \notin Dirs
    BY DEF TypeOK, Dirs
  <2>3. [file[k] EXCEPT !["never"][t] = "full"] = file[k]
    BY <2>2
  <2>4. file' = file
    BY <2>1, <2>3 DEF TypeOK
  <2> QED
    BY <2>4 DEF Fill, FileInv, Kept, Arrived, Exists
<1> QED
  BY <1>1, <1>2, <1>3 DEF TypeOK

LEMMA RenameFiles ==
    ASSUME TypeOK, FileInv, NEW k \in Kinds, NEW t \in Tasks, NEW src \in Dirs, NEW dst \in Dirs,
           <<src, dst>> \in {<<"outer", "inbox">>, <<"inbox", "processed">>},
           Exists(k, src, t), Rename(k, src, dst, t)
    PROVE  /\ FileInv' /\ Kept /\ \A m \in Movers : HandKept(m)
           /\ \A e \in Dirs, u \in Tasks :
                 Exists("body", e, u)' = IF k = "body" /\ u = t
                                         THEN e # src /\ (e = dst \/ Exists("body", e, u))
                                         ELSE Exists("body", e, u)
           /\ \A j \in Kinds, u \in Tasks : at[j][u] = "never" => at'[j][u] = "never"
<1>1. /\ src # dst
      /\ \A j \in Kinds, e \in Dirs, u \in Tasks :
            file'[j][e][u] = IF j = k /\ u = t /\ e = src THEN "none"
                             ELSE IF j = k /\ u = t /\ e = dst THEN file[k][src][t]
                             ELSE file[j][e][u]
      /\ \A j \in Kinds, u \in Tasks :
            at'[j][u] = IF j = k /\ u = t
                        THEN IF at[k][t] = src THEN dst
                             ELSE IF at[k][t] = dst THEN "gone" ELSE at[k][t]
                        ELSE at[j][u]
  <2>1. src # dst
    OBVIOUS
  <2> QED
    BY <2>1, RenameEffect
<1>2. at[k][t] # "never" /\ at'[k][t] # "never" /\ file'[k][dst][t] # "none"
  BY <1>1 DEF FileInv, Exists, Dirs
<1>3. FileInv'
  <2> SUFFICES ASSUME NEW j \in Kinds, NEW u \in Tasks
               PROVE  /\ at'[j][u] = "never" => \A d \in Dirs : file'[j][d][u] = "none"
                      /\ at'[j][u] # "never" => \E d \in Dirs : file'[j][d][u] # "none"
                      /\ at'[j][u] \in Dirs => file'[j][at'[j][u]][u] # "none"
    BY DEF FileInv, Exists
  <2>1. CASE j = k /\ u = t
    BY <1>1, <1>2, <2>1 DEF FileInv, Exists, Dirs
  <2>2. CASE ~(j = k /\ u = t)
    <3>1. at'[j][u] = at[j][u] /\ \A d \in Dirs : file'[j][d][u] = file[j][d][u]
      BY <1>1, <2>2
    <3> QED
      BY <3>1 DEF FileInv, Exists
  <2> QED
    BY <2>1, <2>2
<1>4. Kept
  <2> SUFFICES ASSUME NEW j \in Kinds, NEW u \in Tasks
               PROVE  /\ at[j][u] # "never" => at'[j][u] # "never"
                      /\ Arrived(j, u) => Arrived(j, u)'
                      /\ Exists(j, "processed", u) => Exists(j, "processed", u)'
    BY DEF Kept
  <2>1. CASE j = k /\ u = t
    BY <1>1, <1>2, <2>1 DEF Arrived, Exists, Dirs
  <2>2. CASE ~(j = k /\ u = t)
    BY <1>1, <2>2 DEF Arrived, Exists, Dirs
  <2> QED
    BY <2>1, <2>2
<1>5. ASSUME NEW m \in Movers
      PROVE  HandKept(m)
  <2>1. /\ mat'[m] \in {mat[m], dst, "gone"}
        /\ ~(mkind[m] = k /\ mtask[m] = t) => mat'[m] = mat[m]
    BY <1>1, RenameEffect
  <2>2. dst = "inbox" \/ (dst = "processed" /\ file'[k]["processed"][t] # "none")
    BY <1>2
  <2> QED
    BY <2>1, <2>2 DEF HandKept
<1> QED
  BY <1>1, <1>2, <1>3, <1>4, <1>5 DEF Exists, Dirs, Kinds

LEMMA NothingMoves ==
    ASSUME FileInv, UNCHANGED <<file, at>>
    PROVE  FileInv' /\ Kept
  BY DEF FileInv, Kept, Arrived, Exists

LEMMA OpenFiles ==
    ASSUME TypeOK, CourseInv, NEW m \in Movers, Open(m)
    PROVE  /\ FileInv' /\ Kept /\ at' = at /\ UNCHANGED <<mkind, mtask>>
           /\ Arrived(mkind[m], mtask[m])'
           /\ Exists("body", "outer", mtask[m]) \/ Arrived("body", mtask[m]) \/ mkind[m] # "body"
           /\ \A e \in Dirs, u \in Tasks :
                 Exists("body", e, u)' = (Exists("body", e, u)
                                          \/ (mkind[m] = "body" /\ e = "inbox" /\ u = mtask[m]))
<1> DEFINE k == mkind[m]
           t == mtask[m]
<1>1. /\ k \in Kinds /\ t \in Tasks 
      /\ at[k][t] # "never" /\ UNCHANGED <<at, mkind, mtask>>
  BY DEF Open, Mover, TypeOK, CourseInv, MoverInv
<1>2. \A j \in Kinds, e \in Dirs, u \in Tasks :
         file'[j][e][u] = IF j = k /\ e = "inbox" /\ u = t THEN "empty" ELSE file[j][e][u]
  <2>1. "inbox" \in Dirs /\ "empty" \in Contents /\ file' = [file EXCEPT ![k]["inbox"][t] = "empty"]
    BY DEF Open, Dirs, Contents
  <2> QED
    BY <1>1, <2>1 DEF TypeOK
<1>3. \A j \in Kinds, e \in Dirs, u \in Tasks :
         Exists(j, e, u)' = (Exists(j, e, u) \/ (j = k /\ e = "inbox" /\ u = t))
  BY <1>1, <1>2 DEF Exists
<1>4. FileInv'
  <2> SUFFICES ASSUME NEW j \in Kinds, NEW u \in Tasks
               PROVE  /\ at[j][u] = "never" => \A d \in Dirs : ~Exists(j, d, u)'
                      /\ at[j][u] # "never" => \E d \in Dirs : Exists(j, d, u)'
                      /\ at[j][u] \in Dirs => Exists(j, at[j][u], u)'
    BY <1>1 DEF FileInv
  <2> QED
    BY <1>1, <1>3 DEF CourseInv, FileInv
<1>5. Kept /\ Arrived(k, t)'
  BY <1>1, <1>3 DEF Kept, Arrived, Dirs
<1>6. Exists("body", "outer", t) \/ Arrived("body", t) \/ k # "body"
  BY <1>1 DEF CourseInv, FileInv, Arrived, Dirs
<1> QED
  BY <1>1, <1>3, <1>4, <1>5, <1>6 DEF Kinds

LEMMA CopyFiles ==
    ASSUME TypeOK, CourseInv, NEW m \in Movers, Copy(m)
    PROVE  /\ FileInv' /\ Kept /\ Arrived(mkind[m], mtask[m])'
           /\ \A u \in Tasks : Stage(u)' = Stage(u)
<1> DEFINE k == mkind[m]
           t == mtask[m]
<1>1. /\ k \in Kinds /\ t \in Tasks /\ Arrived(k, t) /\ UNCHANGED <<at, mkind, mtask>>
      /\ mat[m] \in {"inbox", "processed", "gone"}
      /\ mat[m] = "processed" => Exists(k, "processed", t)
  BY DEF Copy, Mover, TypeOK, CourseInv, MoverInv
<1>2. CASE mat[m] = "gone" \/ mbuf[m] = "empty"
  <2>1. file' = file /\ UNCHANGED <<mkind, mtask>>
    BY <1>2 DEF Copy
  <2>2. FileInv' /\ Kept
    BY <1>1, <2>1, NothingMoves DEF CourseInv
  <2>3. Arrived(k, t)' /\ \A u \in Tasks : Stage(u)' = Stage(u)
    BY <1>1, <2>1 DEF Arrived, Stage, Exists
  <2> QED
    BY <2>2, <2>3
<1>3. CASE mat[m] \in {"inbox", "processed"} /\ mbuf[m] # "empty"
  <2>1. \A j \in Kinds, e \in Dirs, u \in Tasks :
           file'[j][e][u] = IF j = k /\ e = mat[m] /\ u = t THEN "full" ELSE file[j][e][u]
    <3>1. /\ mat[m] \in Dirs /\ "full" \in Contents
          /\ file' = [file EXCEPT ![k][mat[m]][t] = "full"]
      BY <1>3 DEF Copy, Dirs, Contents
    <3> HIDE DEF k, t
    <3> QED
      BY <1>1, <3>1 DEF TypeOK
  <2>2. \A j \in Kinds, e \in Dirs, u \in Tasks :
           Exists(j, e, u)' = (Exists(j, e, u) \/ (j = k /\ e = mat[m] /\ u = t))
    <3> SUFFICES ASSUME NEW j \in Kinds, NEW e \in Dirs, NEW u \in Tasks
                 PROVE  (file'[j][e][u] # "none")
                           <=> (file[j][e][u] # "none" \/ (j = k /\ e = mat[m] /\ u = t))
      BY DEF Exists
    <3> HIDE DEF k, t
    <3> QED
      BY <2>1
  <2>3. \A j \in Kinds, u \in Tasks : Exists(j, "processed", u)' = Exists(j, "processed", u)
    BY <1>1, <2>2 DEF Dirs, Exists
  <2>4. at[k][t] # "never"
    BY <1>1 DEF CourseInv, FileInv, Arrived, Dirs
  <2>5. FileInv'
    <3> SUFFICES ASSUME NEW j \in Kinds, NEW u \in Tasks
                 PROVE  /\ at[j][u] = "never" => \A d \in Dirs : ~Exists(j, d, u)'
                        /\ at[j][u] # "never" => \E d \in Dirs : Exists(j, d, u)'
                        /\ at[j][u] \in Dirs => Exists(j, at[j][u], u)'
      BY <1>1 DEF FileInv
    <3> QED
      <4> HIDE DEF k, t
      <4>1. /\ at[j][u] = "never" => \A d \in Dirs : ~Exists(j, d, u)
            /\ at[j][u] # "never" => \E d \in Dirs : Exists(j, d, u)
            /\ at[j][u] \in Dirs => Exists(j, at[j][u], u)
        BY DEF CourseInv, FileInv
      <4>2. \A d \in Dirs :
               /\ Exists(j, d, u) => Exists(j, d, u)'
               /\ Exists(j, d, u)' => Exists(j, d, u) \/ (j = k /\ u = t)
        BY <2>2
      <4>3. CASE at[j][u] = "never"
        <5>1. ~(j = k /\ u = t)
          BY <2>4, <4>3
        <5>2. "never" \notin Dirs
          BY DEF Dirs
        <5> QED
          BY <4>1, <4>2, <4>3, <5>1, <5>2
      <4>4. CASE at[j][u] # "never"
        <5>1. \E d \in Dirs : Exists(j, d, u)'
          BY <4>1, <4>2, <4>4
        <5>2. at[j][u] \in Dirs => Exists(j, at[j][u], u)'
          <6>1. at' = at
            BY <1>1
          <6>2. at[j][u] \in Dirs => file'[j][at[j][u]][u] # "none"
            BY <4>1, <4>2 DEF Exists
          <6> QED
            BY <6>1, <6>2 DEF Exists
        <5> QED
          BY <4>4, <5>1, <5>2
      <4> QED
        BY <4>3, <4>4
  <2>6. Kept /\ Arrived(k, t)'
    BY <1>1, <2>2 DEF Kept, Arrived, Dirs
  <2>7. ASSUME NEW u \in Tasks
        PROVE  Stage(u)' = Stage(u)
    <3>1. CASE k = "body" /\ u = t
      BY <1>1, <2>2, <2>3, <3>1 DEF Stage, Arrived, Dirs, Kinds
    <3>2. CASE ~(k = "body" /\ u = t)
      BY <1>1, <2>2, <3>2 DEF Stage, Dirs, Kinds
    <3> QED
      BY <3>1, <3>2
  <2> QED
    BY <2>5, <2>6, <2>7
<1> QED
  BY <1>1, <1>2, <1>3

LEMMA RemoveFiles ==
    ASSUME TypeOK, CourseInv, NEW m \in Movers, Remove(m)
    PROVE  /\ FileInv' /\ Kept /\ Arrived(mkind[m], mtask[m])
           /\ \A j \in Kinds, u \in Tasks : at[j][u] = "never" => at'[j][u] = "never"
           /\ \A e \in Dirs, u \in Tasks :
                 Exists("body", e, u)' = (Exists("body", e, u)
                                          /\ ~(mkind[m] = "body" /\ e = "outer" /\ u = mtask[m]))
<1> DEFINE k == mkind[m]
           t == mtask[m]
<1>1. k \in Kinds /\ t \in Tasks /\ Arrived(k, t)
  BY DEF Remove, Mover, TypeOK, CourseInv, MoverInv
<1>2. \A j \in Kinds, e \in Dirs, u \in Tasks :
         file'[j][e][u] = IF j = k /\ e = "outer" /\ u = t THEN "none" ELSE file[j][e][u]
  <2>1. "outer" \in Dirs /\ file' = [file EXCEPT ![k]["outer"][t] = "none"]
    BY DEF Remove, Dirs
  <2> QED
    BY <1>1, <2>1 DEF TypeOK
<1>3. \A j \in Kinds, u \in Tasks :
         at'[j][u] = IF j = k /\ u = t /\ at[k][t] = "outer" THEN "gone" ELSE at[j][u]
  <2>1. at' = [at EXCEPT ![k][t] = IF at[k][t] = "outer" THEN "gone" ELSE at[k][t]]
    BY <1>1 DEF Remove, TypeOK
  <2> QED
    BY <1>1, <2>1 DEF TypeOK
<1>4. \A j \in Kinds, e \in Dirs, u \in Tasks :
         Exists(j, e, u)' = (Exists(j, e, u) /\ ~(j = k /\ e = "outer" /\ u = t))
  BY <1>2 DEF Exists
<1>5. Kept
  BY <1>1, <1>3, <1>4 DEF Kept, Arrived, Dirs
<1>6. FileInv'
  <2> SUFFICES ASSUME NEW j \in Kinds, NEW u \in Tasks
               PROVE  /\ at'[j][u] = "never" => \A d \in Dirs : file'[j][d][u] = "none"
                      /\ at'[j][u] # "never" => \E d \in Dirs : file'[j][d][u] # "none"
                      /\ at'[j][u] \in Dirs => file'[j][at'[j][u]][u] # "none"
    BY DEF FileInv, Exists
  <2>1. CASE j = k /\ u = t
    <3>1. file[k]["inbox"][t] # "none" \/ file[k]["processed"][t] # "none"
      BY <1>1 DEF Arrived, Exists
    <3>2. /\ file'[k]["inbox"][t] = file[k]["inbox"][t]
          /\ file'[k]["processed"][t] = file[k]["processed"][t]
      BY <1>1, <1>2 DEF Dirs
    <3>3. /\ at'[k][t] = IF at[k][t] = "outer" THEN "gone" ELSE at[k][t]
          /\ at[k][t] # "never"
          /\ at[k][t] \in Dirs => file[k][at[k][t]][t] # "none"
      BY <1>1, <1>3, <3>1 DEF CourseInv, FileInv, Exists, Dirs
    <3> QED
      BY <2>1, <3>1, <3>2, <3>3 DEF Dirs
  <2>2. CASE ~(j = k /\ u = t)
    <3>1. at'[j][u] = at[j][u] /\ \A d \in Dirs : file'[j][d][u] = file[j][d][u]
      BY <1>2, <1>3, <2>2
    <3> QED
      BY <3>1 DEF CourseInv, FileInv, Exists
  <2> QED
    BY <2>1, <2>2
<1> QED
  BY <1>1, <1>3, <1>4, <1>5, <1>6 DEF Kinds

\* Steps of others leave a mover and a run what they rely on.
LEMMA MoverKept ==
    ASSUME TypeOK, Kept, NEW m \in Movers, MoverInv(m),
           mpc'[m] = mpc[m], mkind'[m] = mkind[m], mtask'[m] = mtask[m],
           HandKept(m)
    PROVE  MoverInv(m)'
<1>1. CASE mpc[m] \in {"write", "fill", "remove"}
  <2>1. mkind[m] \in Kinds /\ mtask[m] \in Tasks
    BY <1>1 DEF TypeOK
  <2> QED
    BY <1>1, <2>1 DEF MoverInv, Kept, HandKept, Arrived, Exists
<1>2. CASE mpc[m] \notin {"write", "fill", "remove"}
  BY <1>2 DEF MoverInv
<1> QED
  BY <1>1, <1>2

LEMMA RunKept ==
    ASSUME TypeOK, Kept, RunInv, UNCHANGED <<run, served>>
    PROVE  RunInv'
<1>1. rpc # "idle" => rtask \in Tasks /\ "body" \in Kinds
  BY DEF TypeOK, Kinds
<1> QED
  BY <1>1 DEF RunInv, Kept, Arrived, Exists, run

\* Every step keeps all of them.
LEMMA CourseStep ==
    ASSUME TypeOK, CourseInv, [Next]_vars
    PROVE  CourseInv'
<1> USE DEF CourseInv
<1>1. ASSUME NEW k \in Kinds, NEW t \in Tasks, Create(k, t)
      PROVE  CourseInv'
  <2>1. /\ FileInv' /\ Kept
        /\ \A u \in Tasks : k # "body" \/ u # t => at'["body"][u] = at["body"][u]
    BY <1>1, CreateFiles
  <2>2. WriterInv'
    <3>1. \A u \in Tasks : writer'[u] = "create" => writer[u] = "create" /\ u # t
      BY <1>1 DEF Create, TypeOK
    <3> QED
      BY <2>1, <3>1 DEF WriterInv
  <2> QED
    BY <1>1, <2>1, <2>2, MoverKept, RunKept DEF Create, movers, HandKept
<1>2. ASSUME NEW k \in Kinds, NEW t \in Tasks, Fill(k, t)
      PROVE  CourseInv'
  <2>1. FileInv' /\ Kept /\ at' = at
    BY <1>2, FillFiles
  <2>2. WriterInv'
    <3>1. \A u \in Tasks : writer'[u] = "create" => writer[u] = "create"
      BY <1>2 DEF Fill, TypeOK
    <3> QED
      BY <2>1, <3>1 DEF WriterInv
  <2> QED
    BY <1>2, <2>1, <2>2, MoverKept, RunKept DEF Fill, movers, HandKept
<1>3. ASSUME NEW m \in Movers, List(m) \/ NextTask(m)
      PROVE  CourseInv'
  <2>1. /\ UNCHANGED <<file, at, mat, mkind, writer, run, served>>
        /\ mpc[m] \in {"idle", "next"} /\ mpc'[m] \in {"idle", "next", "move"}
        /\ \A q \in Movers \ {m} : mpc'[q] = mpc[q] /\ mtask'[q] = mtask[q]
    BY <1>3 DEF List, NextTask, Mover, TypeOK, files
  <2>2. FileInv' /\ Kept
    BY <2>1, NothingMoves
  <2>3. \A q \in Movers : MoverInv(q)'
    BY <2>1, <2>2, MoverKept DEF MoverInv, HandKept
  <2> QED
    BY <2>1, <2>2, <2>3, RunKept DEF WriterInv
<1>4. ASSUME NEW m \in Movers, Move(m)
      PROVE  CourseInv'
  <2> DEFINE k == mkind[m]
             t == mtask[m]
  <2>1. /\ k \in Kinds /\ t \in Tasks /\ mpc[m] = "move"
        /\ UNCHANGED <<writer, run, served, kills>>
    BY <1>4 DEF Move, Mover, TypeOK
  <2>2. CASE Exists(k, "outer", t) /\ sameDevice
    <3>1. Rename(k, "outer", "inbox", t) /\ Onward(m, TRUE) /\ mbuf' = mbuf
      BY <1>4, <2>2 DEF Move
    <3>2. /\ FileInv' /\ Kept /\ \A q \in Movers : HandKept(q)
          /\ \A j \in Kinds, u \in Tasks : at[j][u] = "never" => at'[j][u] = "never"
      BY <2>1, <2>2, <3>1, RenameFiles DEF Dirs
    <3>3. \A q \in Movers : MoverInv(q)'
      BY <2>1, <3>1, <3>2, MoverKept, OnwardType DEF MoverInv
    <3> QED
      BY <2>1, <3>2, <3>3, RunKept DEF WriterInv, Kinds
  <2>3. CASE Exists(k, "outer", t) /\ ~sameDevice
    <3>1. /\ UNCHANGED <<file, at, mat, mtask, mkind>>
          /\ mpc' = [mpc EXCEPT ![m] = "write"]
      BY <1>4, <2>3 DEF Move, files
    <3>2. FileInv' /\ Kept
      BY <3>1, NothingMoves
    <3>3. at[k][t] # "never"
      BY <2>1, <2>3 DEF FileInv, Dirs
    <3>4. \A q \in Movers : MoverInv(q)'
      BY <2>1, <3>1, <3>2, <3>3, MoverKept DEF MoverInv, TypeOK, HandKept
    <3> QED
      BY <2>1, <3>1, <3>2, <3>4, RunKept DEF WriterInv
  <2>4. CASE ~Exists(k, "outer", t)
    <3>1. Onward(m, FALSE) /\ UNCHANGED <<file, at, mat, mbuf>>
      BY <1>4, <2>4 DEF Move, files
    <3>2. FileInv' /\ Kept
      BY <3>1, NothingMoves
    <3>3. \A q \in Movers : MoverInv(q)'
      BY <2>1, <3>1, <3>2, MoverKept, OnwardType DEF MoverInv, HandKept
    <3> QED
      BY <2>1, <3>1, <3>2, <3>3, RunKept DEF WriterInv
  <2> QED
    BY <2>2, <2>3, <2>4
<1>5. ASSUME NEW m \in Movers, Open(m)
      PROVE  CourseInv'
  <2>1. /\ FileInv' /\ Kept /\ at' = at /\ UNCHANGED <<mkind, mtask, writer, run, served>>
        /\ Arrived(mkind[m], mtask[m])'
        /\ mpc' = [mpc EXCEPT ![m] = "fill"] /\ mat' = [mat EXCEPT ![m] = "inbox"]
    BY <1>5, OpenFiles DEF Open, Mover
  <2>2. \A q \in Movers : MoverInv(q)'
    BY <2>1, MoverKept DEF MoverInv, TypeOK, HandKept
  <2> QED
    BY <2>1, <2>2, RunKept DEF WriterInv
<1>6. ASSUME NEW m \in Movers, Copy(m)
      PROVE  CourseInv'
  <2>1. FileInv' /\ Kept /\ Arrived(mkind[m], mtask[m])'
    BY <1>6, CopyFiles
  <2>2. /\ UNCHANGED <<at, mkind, mtask, writer, run, served>>
        /\ mpc' = [mpc EXCEPT ![m] = "remove"] /\ mat' = [mat EXCEPT ![m] = "none"]
    BY <1>6 DEF Copy, Mover
  <2>3. \A q \in Movers : MoverInv(q)'
    BY <2>1, <2>2, MoverKept DEF MoverInv, TypeOK, HandKept
  <2> QED
    BY <2>1, <2>2, <2>3, RunKept DEF WriterInv
<1>7. ASSUME NEW m \in Movers, CopyFails(m)
      PROVE  CourseInv'
  <2>1. /\ UNCHANGED <<file, at, writer, run, served>>
        /\ Onward(m, FALSE) /\ mpc[m] \in {"write", "fill"}
        /\ mat' = [mat EXCEPT ![m] = "none"]
    BY <1>7 DEF CopyFails, Mover
  <2>2. FileInv' /\ Kept
    BY <2>1, NothingMoves
  <2>3. \A q \in Movers : MoverInv(q)'
    <3>1. /\ mpc'[m] \in {"next", "move"}
          /\ \A q \in Movers \ {m} : /\ mpc'[q] = mpc[q] /\ mtask'[q] = mtask[q]
                                     /\ mkind'[q] = mkind[q] /\ mat'[q] = mat[q]
      BY <2>1, OnwardType DEF TypeOK
    <3> QED
      BY <2>2, <3>1, MoverKept DEF MoverInv, HandKept
  <2> QED
    BY <2>1, <2>2, <2>3, RunKept DEF WriterInv
<1>8. ASSUME NEW m \in Movers, Remove(m)
      PROVE  CourseInv'
  <2>1. /\ FileInv' /\ Kept
        /\ \A j \in Kinds, u \in Tasks : at[j][u] = "never" => at'[j][u] = "never"
    BY <1>8, RemoveFiles
  <2>2. Onward(m, TRUE) /\ mpc[m] = "remove" /\ UNCHANGED <<mat, writer, run, served>>
    BY <1>8 DEF Remove, Mover
  <2>3. \A q \in Movers : MoverInv(q)'
    BY <2>1, <2>2, MoverKept, OnwardType DEF MoverInv, HandKept
  <2> QED
    BY <2>1, <2>2, <2>3, RunKept DEF WriterInv, Kinds
<1>9. CASE Pick \/ Load \/ Serve
  <2>1. UNCHANGED <<file, at, mat, writer, movers>>
    BY <1>9 DEF Pick, Load, Serve, Run, files
  <2>2. FileInv' /\ Kept
    BY <2>1, NothingMoves
  <2>3. \A q \in Movers : MoverInv(q)'
    BY <2>1, <2>2, MoverKept DEF movers, HandKept
  <2>4. RunInv'
    <3>1. CASE Pick
      BY <2>1, <3>1 DEF Pick, RunInv, Arrived, Exists
    <3>2. CASE Load
      BY <2>1, <3>2 DEF Load, Run, Quit, RunInv, Arrived, Exists
    <3>3. CASE Serve
      <4>1. rtask \in Tasks /\ served[rtask].times \in Nat
        BY <3>3 DEF Serve, Run, TypeOK
      <4>2. served'[rtask].times = served[rtask].times + 1
        BY <3>3, <4>1 DEF Serve, TypeOK
      <4> QED
        BY <2>1, <3>3, <4>1, <4>2 DEF Serve, Run, RunInv, Arrived, Exists
    <3> QED
      BY <1>9, <3>1, <3>2, <3>3
  <2> QED
    BY <2>1, <2>2, <2>3, <2>4 DEF WriterInv
<1>10. CASE File \/ FileMetadata
  <2>1. UNCHANGED <<writer, movers, served>> /\ rtask \in Tasks /\ rpc # "idle"
    BY <1>10 DEF File, FileMetadata, Run, TypeOK
  <2>2. /\ FileInv' /\ Kept /\ \A q \in Movers : HandKept(q)
        /\ \A j \in Kinds, u \in Tasks : at[j][u] = "never" => at'[j][u] = "never"
    <3>1. ASSUME NEW k \in Kinds, Exists(k, "inbox", rtask), Rename(k, "inbox", "processed", rtask)
          PROVE  /\ FileInv' /\ Kept /\ \A q \in Movers : HandKept(q)
                 /\ \A j \in Kinds, u \in Tasks : at[j][u] = "never" => at'[j][u] = "never"
      BY <2>1, <3>1, RenameFiles DEF Dirs
    <3>2. CASE UNCHANGED files
      BY <3>2, NothingMoves DEF files, HandKept
    <3> QED
      BY <1>10, <3>1, <3>2 DEF File, FileMetadata, Kinds
  <2>3. \A q \in Movers : MoverInv(q)'
    BY <2>1, <2>2, MoverKept DEF movers
  <2>4. RunInv'
    <3>1. CASE File
      <4>1. rpc' = "fileMeta" /\ rtask' = rtask /\ Arrived("body", rtask)
        BY <2>1, <3>1 DEF File, RunInv
      <4>2. Arrived("body", rtask)'
        BY <2>1, <2>2, <4>1 DEF Kept, Arrived, Exists, Kinds
      <4> QED
        BY <4>1, <4>2 DEF RunInv
    <3>2. CASE FileMetadata
      BY <3>2 DEF FileMetadata, Quit, RunInv
    <3> QED
      BY <1>10, <3>1, <3>2
  <2> QED
    BY <2>1, <2>2, <2>3, <2>4 DEF WriterInv, Kinds
<1>11. CASE Kill \/ Fail
  <2>1. UNCHANGED <<file, at, served>>
    BY <1>11 DEF Kill, Fail, files
  <2>2. FileInv' /\ Kept
    BY <2>1, NothingMoves
  <2>3. ASSUME NEW m \in Movers, KillMover(m)
        PROVE  CourseInv'
    <3>1. /\ UNCHANGED <<writer, run>> /\ mpc'[m] = "idle"
          /\ \A q \in Movers \ {m} : /\ mpc'[q] = mpc[q] /\ mtask'[q] = mtask[q]
                                     /\ mkind'[q] = mkind[q] /\ mat'[q] = mat[q]
      BY <2>3 DEF KillMover, TypeOK
    <3>2. \A q \in Movers : MoverInv(q)'
      BY <2>2, <3>1, MoverKept DEF MoverInv, HandKept
    <3> QED
      BY <2>1, <2>2, <3>1, <3>2, RunKept DEF WriterInv
  <2>4. ASSUME NEW t \in Tasks, KillWriter(t)
        PROVE  CourseInv'
    <3>1. /\ UNCHANGED <<mat, movers, run>>
          /\ \A u \in Tasks : writer'[u] = "create" => writer[u] = "create"
      BY <2>4 DEF KillWriter, TypeOK
    <3> QED
      BY <2>1, <2>2, <3>1, MoverKept, RunKept DEF WriterInv, movers, HandKept
  <2>5. CASE KillRun \/ Fail
    BY <2>1, <2>2, <2>5, MoverKept
       DEF KillRun, Fail, Abandon, Quit, WriterInv, RunInv, movers, files, HandKept
  <2> QED
    BY <1>11, <2>3, <2>4, <2>5 DEF Kill
<1>12. CASE UNCHANGED vars
  BY <1>12, NothingMoves, MoverKept, RunKept DEF vars, movers, files, WriterInv, HandKept
<1> QED
  BY <1>1, <1>2, <1>3, <1>4, <1>5, <1>6, <1>7, <1>8, <1>9, <1>10, <1>11, <1>12 DEF Next, Step

\* What the processes rely on always holds.
THEOREM CourseHolds == Spec => []CourseInv
<1>1. Init => CourseInv
  BY DEF Init, CourseInv, FileInv, WriterInv, MoverInv, RunInv, Exists, Kinds, Dirs
<1> QED
  BY <1>1, CourseStep, DeliveryTyped, PTL DEF Spec

\* Once a task or its metadata was there it is always somewhere, wherever writer,
\* movers and run are killed or fail: with renames, and with copy and delete.
THEOREM NothingIsLost == Spec => []NothingDisappears
<1>1. CourseInv => NothingDisappears
  BY DEF CourseInv, FileInv, NothingDisappears, Places
<1> QED
  BY <1>1, CourseHolds, PTL

-----------------------------------------------------------------------------
(* The promise of Mailbox.                                                  *)

\* A task that alone goes on, from one stage to the next, advances in Mailbox.
LEMMA Advances ==
    ASSUME NEW t \in Tasks, NEW from, NEW to, Stage(t) = from, Stage(t)' = to,
           \A u \in Tasks \ {t} : Stage(u)' = Stage(u)
    PROVE  Box!Advance(t, from, to)
  BY DEF Box!Advance

LEMMA StagesStay ==
    ASSUME UNCHANGED served, \A u \in Tasks : Stage(u)' = Stage(u)
    PROVE  UNCHANGED <<[u \in Tasks |-> Stage(u)], {u \in Tasks : served[u].times > 0}>>
  OBVIOUS

\* A task whose body comes to the inbox is delivered, unless it was there before.
LEMMA Arrives ==
    ASSUME UNCHANGED served, NEW t \in Tasks, NEW left \in BOOLEAN,
           Exists("body", "outer", t) \/ Arrived("body", t),
           \A e \in Dirs, u \in Tasks :
              Exists("body", e, u)' = IF u = t
                                      THEN (e = "outer" => left) /\ (e = "inbox" \/ Exists("body", e, u))
                                      ELSE Exists("body", e, u)
    PROVE  [Box!Next]_<<[u \in Tasks |-> Stage(u)], {u \in Tasks : served[u].times > 0}>>
<1>1. \A u \in Tasks \ {t} : Stage(u)' = Stage(u)
  BY DEF Stage, Exists, Dirs
<1>2. Exists("body", "processed", t)' = Exists("body", "processed", t) /\ Exists("body", "inbox", t)'
  BY DEF Exists, Dirs
<1>3. CASE Exists("body", "processed", t) \/ Exists("body", "inbox", t)
  <2>1. Stage(t)' = Stage(t)
    <3>1. CASE Exists("body", "processed", t)
      BY <1>2, <3>1 DEF Stage
    <3>2. CASE ~Exists("body", "processed", t) /\ Exists("body", "inbox", t)
      BY <1>2, <3>2 DEF Stage
    <3> QED
      BY <1>3, <3>1, <3>2
  <2>2. \A u \in Tasks : Stage(u)' = Stage(u)
    BY <1>1, <2>1
  <2> QED
    BY <2>2, StagesStay
<1>4. CASE ~Exists("body", "processed", t) /\ ~Exists("body", "inbox", t)
  <2>1. Stage(t) = "outer" /\ Stage(t)' = "inbox"
    BY <1>2, <1>4 DEF Stage, Arrived
  <2>2. Box!Advance(t, "outer", "inbox")
    BY <1>1, <2>1, Advances
  <2> QED
    BY <2>2 DEF Box!Next, Box!Deliver
<1> QED
  BY <1>3, <1>4

\* Every step is a step of Mailbox or none.
LEMMA BoxStep ==
    ASSUME TypeOK, CourseInv, [Next]_vars
    PROVE  [Box!Next]_<<[u \in Tasks |-> Stage(u)], {u \in Tasks : served[u].times > 0}>>
<1> DEFINE Promised == [Box!Next]_<<[u \in Tasks |-> Stage(u)], {u \in Tasks : served[u].times > 0}>>
<1>1. ASSUME NEW k \in Kinds, NEW t \in Tasks, Create(k, t)
      PROVE  Promised
  <2>1. UNCHANGED served
    BY <1>1 DEF Create
  <2>2. \A e \in Dirs, u \in Tasks :
           Exists("body", e, u)' = (Exists("body", e, u) \/ (k = "body" /\ e = "outer" /\ u = t))
    BY <1>1, CreateFiles DEF CourseInv
  <2>3. CASE k = "body"
    <3>1. \A d \in Dirs : ~Exists("body", d, t)
      BY <1>1, <2>3 DEF Create, CourseInv, WriterInv, FileInv, Kinds
    <3>2. Stage(t) = "unsent" /\ Stage(t)' = "outer" /\ \A u \in Tasks \ {t} : Stage(u)' = Stage(u)
      BY <2>2, <2>3, <3>1 DEF Stage, Exists, Dirs
    <3>3. Box!Advance(t, "unsent", "outer")
      BY <3>2, Advances
    <3> QED
      BY <2>1, <3>3 DEF Box!Next, Box!Send
  <2>4. CASE k # "body"
    <3>1. \A u \in Tasks : Stage(u)' = Stage(u)
      BY <2>2, <2>4 DEF Stage, Exists, Dirs
    <3> QED
      BY <2>1, <3>1, StagesStay
  <2> QED
    BY <2>3, <2>4
<1>2. ASSUME NEW k \in Kinds, NEW t \in Tasks, Fill(k, t)
      PROVE  Promised
  <2>1. UNCHANGED served /\ \A e \in Dirs, u \in Tasks : Exists("body", e, u)' = Exists("body", e, u)
    BY <1>2, FillFiles DEF Fill, CourseInv
  <2>2. \A u \in Tasks : Stage(u)' = Stage(u)
    BY <2>1 DEF Stage, Exists, Dirs
  <2> QED
    BY <2>1, <2>2, StagesStay
<1>3. CASE UNCHANGED <<file, served>>
  <2>1. \A u \in Tasks : Stage(u)' = Stage(u)
    BY <1>3 DEF Stage, Exists
  <2> QED
    BY <1>3, <2>1, StagesStay
<1>4. ASSUME NEW m \in Movers, Move(m)
      PROVE  Promised
  <2> DEFINE k == mkind[m]
             t == mtask[m]
  <2>1. k \in Kinds /\ t \in Tasks /\ UNCHANGED served
    BY <1>4 DEF Move, Mover, TypeOK
  <2>2. CASE Exists(k, "outer", t) /\ sameDevice
    <3>1. \A e \in Dirs, u \in Tasks :
             Exists("body", e, u)' = IF k = "body" /\ u = t
                                     THEN e # "outer" /\ (e = "inbox" \/ Exists("body", e, u))
                                     ELSE Exists("body", e, u)
      <4>1. Rename(k, "outer", "inbox", t)
        BY <1>4, <2>2 DEF Move
      <4> QED
        BY <2>1, <2>2, <4>1, RenameFiles DEF CourseInv, Dirs
    <3>2. CASE k = "body"
      <4>1. \A e \in Dirs, u \in Tasks :
               Exists("body", e, u)' = IF u = t
                                       THEN (e = "outer" => FALSE) /\ (e = "inbox" \/ Exists("body", e, u))
                                       ELSE Exists("body", e, u)
        BY <3>1, <3>2 DEF Exists
      <4> QED
        BY <2>1, <2>2, <3>2, <4>1, Arrives
    <3>3. CASE k # "body"
      <4>1. \A e \in Dirs, u \in Tasks : Exists("body", e, u)' = Exists("body", e, u)
        BY <3>1, <3>3 DEF Exists
      <4>2. \A u \in Tasks : Stage(u)' = Stage(u)
        BY <4>1 DEF Stage, Exists, Dirs
      <4> QED
        BY <2>1, <4>2, StagesStay
    <3> QED
      BY <3>2, <3>3
  <2>3. CASE ~(Exists(k, "outer", t) /\ sameDevice)
    BY <1>3, <1>4, <2>1, <2>3 DEF Move, files
  <2> QED
    BY <2>2, <2>3
<1>5. ASSUME NEW m \in Movers, Open(m)
      PROVE  Promised
  <2> DEFINE t == mtask[m]
  <2>1. t \in Tasks /\ UNCHANGED served
    BY <1>5 DEF Open, Mover, TypeOK
  <2>2. /\ Exists("body", "outer", t) \/ Arrived("body", t) \/ mkind[m] # "body"
        /\ \A e \in Dirs, u \in Tasks :
              Exists("body", e, u)' = (Exists("body", e, u)
                                       \/ (mkind[m] = "body" /\ e = "inbox" /\ u = t))
    BY <1>5, OpenFiles
  <2>3. CASE mkind[m] = "body"
    <3>1. \A e \in Dirs, u \in Tasks :
             Exists("body", e, u)' = IF u = t
                                     THEN (e = "outer" => TRUE) /\ (e = "inbox" \/ Exists("body", e, u))
                                     ELSE Exists("body", e, u)
      BY <2>2, <2>3 DEF Exists
    <3> QED
      BY <2>1, <2>2, <2>3, <3>1, Arrives
  <2>4. CASE mkind[m] # "body"
    <3>1. \A u \in Tasks : Stage(u)' = Stage(u)
      BY <2>2, <2>4 DEF Stage, Exists, Dirs
    <3> QED
      BY <2>1, <3>1, StagesStay
  <2> QED
    BY <2>3, <2>4
<1>6. ASSUME NEW m \in Movers, Copy(m)
      PROVE  Promised
  <2>1. UNCHANGED served /\ \A u \in Tasks : Stage(u)' = Stage(u)
    BY <1>6, CopyFiles DEF Copy, Mover
  <2> QED
    BY <2>1, StagesStay
<1>7. ASSUME NEW m \in Movers, Remove(m)
      PROVE  Promised
  <2>1. UNCHANGED served
    BY <1>7 DEF Remove, Mover
  <2>2. /\ Arrived(mkind[m], mtask[m])
        /\ \A e \in Dirs, u \in Tasks :
              Exists("body", e, u)' = (Exists("body", e, u)
                                       /\ ~(mkind[m] = "body" /\ e = "outer" /\ u = mtask[m]))
    BY <1>7, RemoveFiles
  <2>3. \A u \in Tasks : Stage(u)' = Stage(u)
    BY <2>2 DEF Stage, Arrived, Exists, Dirs
  <2> QED
    BY <2>1, <2>3, StagesStay
<1>8. CASE Serve
  <2>1. rtask \in Tasks /\ Arrived("body", rtask) /\ UNCHANGED file
    BY <1>8 DEF Serve, Run, TypeOK, CourseInv, RunInv, Arrived, Exists, files
  <2>2. \A u \in Tasks : Stage(u)' = Stage(u)
    BY <2>1 DEF Stage, Exists
  <2>3. {u \in Tasks : served[u].times > 0}' = {u \in Tasks : served[u].times > 0} \cup {rtask}
    <3>1. /\ served[rtask].times \in Nat
          /\ served'[rtask].times = served[rtask].times + 1
          /\ \A u \in Tasks \ {rtask} : served'[u] = served[u]
      BY <1>8, <2>1 DEF Serve, TypeOK
    <3> QED
      BY <2>1, <3>1
  <2>4. [u \in Tasks |-> Stage(u)][rtask] \in {"inbox", "processed"}
    BY <2>1 DEF Stage, Arrived, Exists
  <2> QED
    BY <2>1, <2>2, <2>3, <2>4 DEF Box!Next, Box!Answer
<1>9. CASE File \/ FileMetadata
  <2>1. rtask \in Tasks /\ UNCHANGED served
    BY <1>9 DEF File, FileMetadata, Run, TypeOK
  <2>2. CASE UNCHANGED file
    BY <1>3, <2>1, <2>2
  <2>3. ASSUME NEW k \in Kinds, NEW t \in Tasks,
               Exists(k, "inbox", t), Rename(k, "inbox", "processed", t),
               t = rtask, k = "body" => File
        PROVE  Promised
    <3>1. \A e \in Dirs, u \in Tasks :
             Exists("body", e, u)' = IF k = "body" /\ u = t
                                     THEN e # "inbox" /\ (e = "processed" \/ Exists("body", e, u))
                                     ELSE Exists("body", e, u)
      BY <2>1, <2>3, RenameFiles DEF CourseInv, Dirs
    <3>2. \A u \in Tasks \ {t} : Stage(u)' = Stage(u)
      BY <3>1 DEF Stage, Exists, Dirs
    <3>3. CASE k # "body" \/ Exists("body", "processed", t)
      <4>1. Stage(t)' = Stage(t)
        BY <2>1, <3>1, <3>3 DEF Stage, Exists, Dirs
      <4> QED
        BY <2>1, <3>2, <4>1, StagesStay
    <3>4. CASE k = "body" /\ ~Exists("body", "processed", t)
      <4>1. Stage(t) = "inbox" /\ Stage(t)' = "processed"
        BY <2>1, <2>3, <3>1, <3>4 DEF Stage, Exists, Dirs
      <4>2. Box!Advance(t, "inbox", "processed")
        BY <2>1, <3>2, <4>1, Advances
      <4>3. t \in {u \in Tasks : served[u].times > 0}
        BY <2>1, <2>3, <3>4 DEF File, Run, CourseInv, RunInv
      <4> QED
        BY <2>1, <4>2, <4>3 DEF Box!Next, Box!PutAway
    <3> QED
      BY <3>3, <3>4
  <2> QED
    BY <1>9, <2>1, <2>2, <2>3 DEF File, FileMetadata, Kinds, files
<1>10. ASSUME NEW m \in Movers, List(m) \/ NextTask(m) \/ CopyFails(m)
       PROVE  UNCHANGED <<file, served>>
  BY <1>10 DEF List, NextTask, CopyFails, Mover, files
<1>11. CASE Pick \/ Load \/ Fail \/ Kill \/ UNCHANGED vars
  <2>1. UNCHANGED <<file, served>>
    BY <1>11 DEF Pick, Load, Fail, Kill, vars, files
  <2> QED
    BY <1>3, <2>1
<1> QED
  BY <1>1, <1>2, <1>3, <1>4, <1>5, <1>6, <1>7, <1>8, <1>9, <1>10, <1>11 DEF Next, Step

\* Writer, movers and run implement Mailbox: a task never goes back or past a
\* stage, and is put away only after it was answered, for any number of tasks,
\* movers and kills.
THEOREM DeliveryKeepsOrder == Spec => KeepsOrder
<1>1. Init => Box!Init
  BY DEF Init, Box!Init, Stage, Exists, Kinds, Dirs
<1>2. TypeOK /\ CourseInv /\ [Next]_vars
         => [Box!Next]_<<[t \in Tasks |-> Stage(t)], {t \in Tasks : served[t].times > 0}>>
  BY BoxStep
<1> QED
  BY <1>1, <1>2, DeliveryTyped, CourseHolds, PTL DEF Spec, KeepsOrder, Box!Spec

-----------------------------------------------------------------------------
(* Where renames work, each file is in one place.                           *)

\* Nobody copies; a file is exactly where its writer has it open, whoever renamed
\* it since, and it keeps what the writer has filled in.
PlaceInv ==
    sameDevice =>
       /\ \A m \in Movers : mpc[m] \notin {"write", "fill", "remove"}
       /\ \A t \in Tasks :
            /\ writer[t] = "create" => at["body"][t] = "never"
            /\ writer[t] \in {"fill", "createMeta", "fillMeta"} => at["body"][t] # "never"
            /\ writer[t] \in {"create", "fill", "createMeta"} => at["meta"][t] = "never"
            /\ writer[t] \in {"createMeta", "fillMeta"} => file["body"][at["body"][t]][t] = "full"
       /\ \A k \in Kinds, t \in Tasks :
            at[k][t] # "gone" /\ \A d \in Dirs : file[k][d][t] # "none" <=> d = at[k][t]

LEMMA PlaceFiles ==
    ASSUME TypeOK, PlaceInv, sameDevice, sameDevice', UNCHANGED writer,
           \A m \in Movers : mpc'[m] \notin {"write", "fill", "remove"},
           NEW k \in Kinds, NEW t \in Tasks, NEW src \in Dirs, NEW dst \in Dirs, src # dst,
           Exists(k, src, t), Rename(k, src, dst, t)
    PROVE  PlaceInv'
<1>1. at[k][t] = src /\ file[k][dst][t] = "none" /\ src # "never" /\ dst # "never" /\ dst # "gone"
  BY DEF PlaceInv, Exists, Dirs
<1>2. /\ \A j \in Kinds, e \in Dirs, u \in Tasks :
            file'[j][e][u] = IF j = k /\ u = t /\ e = src THEN "none"
                             ELSE IF j = k /\ u = t /\ e = dst THEN file[k][src][t]
                             ELSE file[j][e][u]
      /\ \A j \in Kinds, u \in Tasks :
            at'[j][u] = IF j = k /\ u = t
                        THEN IF at[k][t] = src THEN dst
                             ELSE IF at[k][t] = dst THEN "gone" ELSE at[k][t]
                        ELSE at[j][u]
  BY RenameEffect
<1>3. ASSUME NEW j \in Kinds, NEW u \in Tasks
      PROVE  /\ at'[j][u] # "gone"
             /\ \A d \in Dirs : file'[j][d][u] # "none" <=> d = at'[j][u]
             /\ at'[j][u] = "never" <=> at[j][u] = "never"
             /\ at[j][u] \in Dirs => file'[j][at'[j][u]][u] = file[j][at[j][u]][u]
  <2>1. CASE j = k /\ u = t
    <3>1. at'[k][t] = dst /\ \A d \in Dirs : file'[k][d][t] = IF d = src THEN "none"
                                           ELSE IF d = dst THEN file[k][src][t] ELSE file[k][d][t]
      BY <1>1, <1>2
    <3>2. \A d \in Dirs : file[k][d][t] # "none" <=> d = src
      BY <1>1 DEF PlaceInv
    <3> QED
      BY <1>1, <2>1, <3>1, <3>2
  <2>2. CASE ~(j = k /\ u = t)
    <3>1. at'[j][u] = at[j][u] /\ \A d \in Dirs : file'[j][d][u] = file[j][d][u]
      BY <1>2, <2>2
    <3> QED
      BY <3>1 DEF PlaceInv
  <2> QED
    BY <2>1, <2>2
<1>4. \A u \in Tasks : writer[u] \in {"createMeta", "fillMeta"} => at["body"][u] \in Dirs
  BY DEF PlaceInv, TypeOK, Kinds
<1> QED
  BY <1>3, <1>4 DEF PlaceInv, Kinds

\* Where nothing is renamed, created or filled, and nobody begins to copy.
LEMMA PlaceKept ==
    ASSUME PlaceInv, UNCHANGED <<file, at, sameDevice>>,
           \A t \in Tasks : writer'[t] \in {writer[t], "done"},
           sameDevice => \A m \in Movers : mpc'[m] \notin {"write", "fill", "remove"}
    PROVE  PlaceInv'
  BY DEF PlaceInv

LEMMA PlaceStep ==
    ASSUME TypeOK, CourseInv, PlaceInv, [Next]_vars
    PROVE  PlaceInv'
<1>0. UNCHANGED sameDevice
  BY DEF Next, vars
<1> SUFFICES ASSUME sameDevice, sameDevice'
             PROVE  PlaceInv'
  BY <1>0 DEF PlaceInv
<1>1. ASSUME NEW k \in Kinds, NEW t \in Tasks, Create(k, t)
      PROVE  PlaceInv'
  <2>1. at[k][t] = "never" /\ UNCHANGED mpc
    BY <1>1 DEF Create, PlaceInv, Kinds, movers
  <2>2. /\ \A j \in Kinds, e \in Dirs, u \in Tasks :
              file'[j][e][u] = IF j = k /\ e = "outer" /\ u = t THEN "empty" ELSE file[j][e][u]
        /\ \A j \in Kinds, u \in Tasks : at'[j][u] = IF j = k /\ u = t THEN "outer" ELSE at[j][u]
    <3>1. /\ file' = [file EXCEPT ![k]["outer"][t] = "empty"] /\ at' = [at EXCEPT ![k][t] = "outer"]
          /\ "outer" \in Dirs
      BY <1>1 DEF Create, Dirs
    <3> QED
      BY <3>1 DEF TypeOK
  <2>3. \A j \in Kinds, u \in Tasks :
           at'[j][u] # "gone" /\ \A d \in Dirs : file'[j][d][u] # "none" <=> d = at'[j][u]
    BY <2>1, <2>2 DEF PlaceInv, Dirs
  <2>4. \A u \in Tasks :
            /\ writer'[u] = "create" => at'["body"][u] = "never"
            /\ writer'[u] \in {"fill", "createMeta", "fillMeta"} => at'["body"][u] # "never"
            /\ writer'[u] \in {"create", "fill", "createMeta"} => at'["meta"][u] = "never"
    BY <1>1, <2>2 DEF Create, PlaceInv, TypeOK, Kinds
  <2>5. ASSUME NEW u \in Tasks, writer'[u] \in {"createMeta", "fillMeta"}
        PROVE  file'["body"][at'["body"][u]][u] = "full"
    <3>1. writer[u] \in {"createMeta", "fillMeta"} /\ ~(k = "body" /\ u = t)
      BY <1>1, <2>5 DEF Create, TypeOK
    <3>2. at["body"][u] \in Dirs /\ at'["body"][u] = at["body"][u]
      BY <2>2, <3>1 DEF PlaceInv, TypeOK, Kinds
    <3> QED
      BY <2>2, <3>1, <3>2 DEF PlaceInv, Kinds
  <2> QED
    BY <2>1, <2>3, <2>4, <2>5 DEF PlaceInv
<1>2. ASSUME NEW k \in Kinds, NEW t \in Tasks, Fill(k, t)
      PROVE  PlaceInv'
  <2>1. UNCHANGED <<at, mpc>>
    BY <1>2 DEF Fill, movers
  <2>2. CASE at[k][t] \in Dirs
    <3>1. \A j \in Kinds, e \in Dirs, u \in Tasks :
             file'[j][e][u] = IF j = k /\ e = at[k][t] /\ u = t THEN "full" ELSE file[j][e][u]
      <4>1. file' = [file EXCEPT ![k][at[k][t]][t] = "full"]
        BY <1>2, <2>2 DEF Fill, Dirs
      <4> QED
        BY <2>2, <4>1 DEF TypeOK
    <3>2. \A j \in Kinds, u \in Tasks :
             at'[j][u] # "gone" /\ \A d \in Dirs : file'[j][d][u] # "none" <=> d = at'[j][u]
      BY <2>1, <2>2, <3>1 DEF PlaceInv
    <3>3. \A u \in Tasks :
              /\ writer'[u] = "create" => at'["body"][u] = "never"
              /\ writer'[u] \in {"fill", "createMeta", "fillMeta"} => at'["body"][u] # "never"
              /\ writer'[u] \in {"create", "fill", "createMeta"} => at'["meta"][u] = "never"
      BY <1>2, <2>1 DEF Fill, PlaceInv, TypeOK, Kinds
    <3>4. ASSUME NEW u \in Tasks, writer'[u] \in {"createMeta", "fillMeta"}
          PROVE  file'["body"][at'["body"][u]][u] = "full"
      <4>1. (k = "body" /\ u = t) \/ (writer[u] \in {"createMeta", "fillMeta"})
        BY <1>2, <3>4 DEF Fill, TypeOK, Kinds
      <4>2. CASE k = "body" /\ u = t
        BY <2>1, <2>2, <3>1, <4>2
      <4>3. CASE writer[u] \in {"createMeta", "fillMeta"}
        <5>1. at["body"][u] \in Dirs /\ file["body"][at["body"][u]][u] = "full"
          BY <4>3 DEF PlaceInv, TypeOK, Kinds
        <5> QED
          BY <2>1, <3>1, <5>1 DEF Kinds
      <4> QED
        BY <4>1, <4>2, <4>3
    <3> QED
      BY <2>1, <3>2, <3>3, <3>4 DEF PlaceInv
  <2>3. CASE at[k][t] = "never"
    <3>1. k = "meta" /\ writer' = [writer EXCEPT ![t] = "done"]
      BY <1>2, <2>3 DEF Fill, PlaceInv, Kinds
    <3>2. file' = file
      <4>1. file' = [file EXCEPT ![k] = [file[k] EXCEPT !["never"][t] = "full"]]
        BY <1>2, <2>3 DEF Fill
      <4>2. file[k] \in [Dirs -> [Tasks -> Contents]] /\ "never" \notin Dirs
        BY DEF TypeOK, Dirs
      <4>3. [file[k] EXCEPT !["never"][t] = "full"] = file[k]
        BY <4>2
      <4> QED
        BY <4>1, <4>3 DEF TypeOK
    <3>3. \A u \in Tasks : writer'[u] \in {writer[u], "done"}
      BY <3>1 DEF TypeOK
    <3>4. \A m \in Movers : mpc'[m] \notin {"write", "fill", "remove"}
      BY <2>1 DEF PlaceInv
    <3> QED
      BY <1>0, <2>1, <3>2, <3>3, <3>4, PlaceKept
  <2> QED
    BY <2>2, <2>3 DEF PlaceInv, TypeOK
<1>3. ASSUME NEW m \in Movers, List(m) \/ NextTask(m)
      PROVE  PlaceInv'
  <2>1. UNCHANGED <<file, at, writer>>
    BY <1>3 DEF List, NextTask, Mover, files
  <2>2. \A q \in Movers : mpc'[q] \notin {"write", "fill", "remove"}
    BY <1>3 DEF List, NextTask, PlaceInv, TypeOK
  <2> QED
    BY <1>0, <2>1, <2>2, PlaceKept
<1>4. ASSUME NEW m \in Movers, Move(m)
      PROVE  PlaceInv'
  <2> DEFINE k == mkind[m]
             t == mtask[m]
  <2>1. k \in Kinds /\ t \in Tasks /\ mpc[m] = "move" /\ UNCHANGED writer
    BY <1>4 DEF Move, Mover, TypeOK
  <2>2. Onward(m, TRUE) \/ Onward(m, FALSE)
    BY <1>4 DEF Move
  <2>3. \A q \in Movers : mpc'[q] \notin {"write", "fill", "remove"}
    BY <2>1, <2>2, OnwardType DEF PlaceInv
  <2>4. CASE Exists(k, "outer", t)
    <3>1. Rename(k, "outer", "inbox", t)
      BY <1>4, <2>4 DEF Move
    <3> QED
      BY <2>1, <2>3, <2>4, <3>1, PlaceFiles DEF Dirs
  <2>5. CASE ~Exists(k, "outer", t)
    <3>1. UNCHANGED <<file, at>>
      BY <1>4, <2>5 DEF Move, files
    <3> QED
      BY <1>0, <2>1, <2>3, <3>1, PlaceKept
  <2> QED
    BY <2>4, <2>5
<1>5. ASSUME NEW m \in Movers, Open(m) \/ Copy(m) \/ CopyFails(m) \/ Remove(m)
      PROVE  PlaceInv'
  BY <1>5 DEF Open, Copy, CopyFails, Remove, Mover, PlaceInv
<1>6. CASE Pick \/ Load \/ Serve
  <2>1. UNCHANGED <<file, at, writer, mpc>>
    BY <1>6 DEF Pick, Load, Serve, Run, movers, files
  <2>2. \A q \in Movers : mpc'[q] \notin {"write", "fill", "remove"}
    BY <2>1 DEF PlaceInv
  <2> QED
    BY <1>0, <2>1, <2>2, PlaceKept
<1>7. CASE File \/ FileMetadata
  <2>1. rtask \in Tasks /\ UNCHANGED <<writer, mpc>>
    BY <1>7 DEF File, FileMetadata, Run, TypeOK, movers
  <2>2. \A q \in Movers : mpc'[q] \notin {"write", "fill", "remove"}
    BY <2>1 DEF PlaceInv
  <2>3. CASE UNCHANGED <<file, at>>
    BY <1>0, <2>1, <2>2, <2>3, PlaceKept
  <2>4. ASSUME NEW k \in Kinds, Exists(k, "inbox", rtask), Rename(k, "inbox", "processed", rtask)
        PROVE  PlaceInv'
    BY <2>1, <2>2, <2>4, PlaceFiles DEF Dirs
  <2> QED
    BY <1>7, <2>3, <2>4 DEF File, FileMetadata, Kinds, files
<1>8. CASE Kill \/ Fail
  <2>1. UNCHANGED <<file, at>>
    BY <1>8 DEF Kill, Fail, files
  <2>2. /\ \A u \in Tasks : writer'[u] \in {writer[u], "done"}
        /\ \A q \in Movers : mpc'[q] \notin {"write", "fill", "remove"}
    BY <1>8 DEF Kill, KillMover, KillWriter, KillRun, Fail, Abandon, PlaceInv, TypeOK, movers
  <2> QED
    BY <1>0, <2>1, <2>2, PlaceKept
<1>9. CASE UNCHANGED vars
  BY <1>9 DEF vars, movers, files, PlaceInv
<1> QED
  BY <1>1, <1>2, <1>3, <1>4, <1>5, <1>6, <1>7, <1>8, <1>9 DEF Next, Step

\* Where renames work no file is ever doubled or lost, and what the writer wrote
\* stays written, for any number of tasks, movers and kills.
THEOREM RenamesKeepOne == Spec => []EachFileIsInOnePlace
<1>1. Init => PlaceInv
  BY DEF Init, PlaceInv, Kinds, Dirs
<1>2. TypeOK /\ PlaceInv => EachFileIsInOnePlace
  <2> SUFFICES ASSUME TypeOK, PlaceInv, sameDevice, NEW k \in Kinds, NEW t \in Tasks
               PROVE  /\ \A d, e \in Places(k, t) : d = e
                      /\ at[k][t] # "never" => Places(k, t) = {at[k][t]}
                      /\ Written(k, t) => \E d \in Dirs : file[k][d][t] = "full"
    BY DEF EachFileIsInOnePlace
  <2>1. at[k][t] \in Dirs \cup {"never"} /\ \A d \in Dirs : file[k][d][t] # "none" <=> d = at[k][t]
    BY DEF PlaceInv, TypeOK
  <2>2. \A d : d \in Places(k, t) <=> d \in Dirs /\ d = at[k][t]
    BY <2>1 DEF Places, Exists
  <2>3. Written(k, t) => at[k][t] \in Dirs /\ file[k][at[k][t]][t] = "full"
    BY <2>1 DEF Written, PlaceInv, Kinds
  <2> QED
    BY <2>1, <2>2, <2>3
<1> QED
  BY <1>1, <1>2, PlaceStep, DeliveryTyped, CourseHolds, PTL DEF Spec

-----------------------------------------------------------------------------
(* Where renames work, a task is served again only if it was not filed.     *)

\* A task that was served more often than runs of it were cut short is about to be
\* filed, or was; one that a run has in its hands is in the inbox, where only the
\* run can take it from.
ServeInv ==
    sameDevice =>
       /\ \A t \in Tasks :
            /\ served[t].times <= 1 + unfiled[t]
            /\ served[t].times > unfiled[t]
                  => at["body"][t] = "processed" \/ (rpc = "file" /\ rtask = t)
       /\ rpc \in {"load", "serve", "file"} => at["body"][rtask] = "inbox"

\* What writer and movers do leaves a task that has arrived where it is.
LEMMA OthersStay ==
    ASSUME TypeOK, PlaceInv, sameDevice, NEW u \in Tasks, at["body"][u] \in {"inbox", "processed"},
           \/ \E k \in Kinds, t \in Tasks : Create(k, t) \/ Fill(k, t)
           \/ \E m \in Movers : List(m) \/ NextTask(m) \/ Move(m) \/ Open(m) \/ Copy(m)
                             \/ CopyFails(m) \/ Remove(m)
    PROVE  at'["body"][u] = at["body"][u]
<1>1. ASSUME NEW k \in Kinds, NEW t \in Tasks, Create(k, t)
      PROVE  at'["body"][u] = at["body"][u]
  <2>1. ~(k = "body" /\ u = t)
    BY <1>1 DEF Create, PlaceInv
  <2>2. "outer" \in Dirs /\ at' = [at EXCEPT ![k][t] = "outer"]
    BY <1>1 DEF Create, Dirs
  <2> QED
    BY <2>1, <2>2, AtEffect DEF Kinds
<1>2. ASSUME NEW k \in Kinds, NEW t \in Tasks, Fill(k, t)
      PROVE  at'["body"][u] = at["body"][u]
  BY <1>2 DEF Fill
<1>3. ASSUME NEW m \in Movers, Move(m)
      PROVE  at'["body"][u] = at["body"][u]
  <2> DEFINE k == mkind[m]
             t == mtask[m]
  <2>1. k \in Kinds /\ t \in Tasks
    BY <1>3 DEF Move, Mover, TypeOK
  <2>2. CASE Exists(k, "outer", t)
    <3>1. Rename(k, "outer", "inbox", t) /\ at[k][t] = "outer"
      BY <1>3, <2>1, <2>2 DEF Move, PlaceInv, Exists, Dirs
    <3>2. ~(k = "body" /\ u = t)
      BY <3>1
    <3> HIDE DEF k, t
    <3> QED
      BY <2>1, <3>1, <3>2, RenameEffect DEF Dirs, Kinds
  <2>3. CASE ~Exists(k, "outer", t)
    BY <1>3, <2>3 DEF Move, files
  <2> QED
    BY <2>2, <2>3
<1>4. ASSUME NEW m \in Movers, List(m) \/ NextTask(m) \/ Open(m) \/ Copy(m)
                             \/ CopyFails(m) \/ Remove(m)
      PROVE  at'["body"][u] = at["body"][u]
  BY <1>4 DEF List, NextTask, Open, Copy, CopyFails, Remove, Mover, PlaceInv, files
<1> QED
  BY <1>1, <1>2, <1>3, <1>4

LEMMA ServeStep ==
    ASSUME TypeOK, PlaceInv, ServeInv, [Next]_vars
    PROVE  ServeInv'
<1>0. UNCHANGED sameDevice
  BY DEF Next, vars
<1> SUFFICES ASSUME sameDevice, sameDevice'
             PROVE  ServeInv'
  BY <1>0 DEF ServeInv
<1>1. ASSUME UNCHANGED <<served, unfiled, rpc, rtask>>,
             \A u \in Tasks : at["body"][u] \in {"inbox", "processed"}
                                 => at'["body"][u] = at["body"][u]
      PROVE  ServeInv'
  BY <1>1 DEF ServeInv, TypeOK
<1>2. CASE \/ \E k \in Kinds, t \in Tasks : Create(k, t) \/ Fill(k, t)
           \/ \E m \in Movers : List(m) \/ NextTask(m) \/ Move(m) \/ Open(m) \/ Copy(m)
                                \/ CopyFails(m) \/ Remove(m)
  <2>1. UNCHANGED <<served, unfiled, rpc, rtask>>
    BY <1>2 DEF Create, Fill, List, NextTask, Move, Open, Copy, CopyFails, Remove, Mover, run
  <2>2. \A u \in Tasks : at["body"][u] \in {"inbox", "processed"}
                             => at'["body"][u] = at["body"][u]
    BY <1>2, OthersStay
  <2> QED
    BY <1>1, <2>1, <2>2
<1>3. CASE Pick
  <2>1. /\ rtask' \in Tasks /\ file["body"]["inbox"][rtask'] # "none"
        /\ rpc = "idle" /\ rpc' = "load" /\ UNCHANGED <<at, served, unfiled>>
    BY <1>3 DEF Pick, Run, Exists, files
  <2>2. at["body"][rtask'] = "inbox"
    BY <2>1 DEF PlaceInv, Kinds, Dirs
  <2> QED
    BY <2>1, <2>2 DEF ServeInv
<1>4. CASE Load
  <2>1. /\ rpc = "load" /\ rpc' \in {"idle", "serve"} /\ UNCHANGED <<at, served, unfiled>>
        /\ rpc' = "serve" => rtask' = rtask
    BY <1>4 DEF Load, Run, Quit, files
  <2> QED
    BY <2>1 DEF ServeInv
<1>5. CASE Serve
  <2>1. /\ rtask \in Tasks /\ at["body"][rtask] = "inbox" /\ rpc = "serve"
        /\ served[rtask].times \in Nat /\ unfiled[rtask] \in Nat
    BY <1>5 DEF Serve, Run, ServeInv, TypeOK
  <2>2. served[rtask].times <= unfiled[rtask]
    BY <2>1 DEF ServeInv
  <2>3. /\ rpc' = "file" /\ UNCHANGED <<at, rtask, unfiled>>
        /\ \A u \in Tasks : served'[u].times = IF u = rtask THEN served[u].times + 1
                                                 ELSE served[u].times
    BY <1>5 DEF Serve, Run, TypeOK, files
  <2> QED
    BY <2>1, <2>2, <2>3 DEF ServeInv
<1>6. CASE File
  <2>1. /\ rtask \in Tasks /\ at["body"][rtask] = "inbox"
        /\ rpc = "file" /\ rpc' = "fileMeta" /\ UNCHANGED <<served, unfiled, rtask>>
    BY <1>6 DEF File, Run, ServeInv, TypeOK
  <2>2. Exists("body", "inbox", rtask)
    BY <2>1 DEF PlaceInv, Exists, Kinds, Dirs
  <2>3. \A u \in Tasks : at'["body"][u] = IF u = rtask THEN "processed" ELSE at["body"][u]
    <3>1. Rename("body", "inbox", "processed", rtask)
      BY <1>6, <2>2 DEF File
    <3> QED
      BY <2>1, <3>1, RenameEffect DEF Dirs, Kinds
  <2> QED
    BY <2>1, <2>3 DEF ServeInv
<1>7. CASE FileMetadata
  <2>1. /\ rtask \in Tasks /\ rpc = "fileMeta" /\ rpc' = "idle" /\ UNCHANGED <<served, unfiled>>
    BY <1>7 DEF FileMetadata, Run, Quit, TypeOK
  <2>2. \A u \in Tasks : at'["body"][u] = at["body"][u]
    <3>1. CASE Exists("meta", "inbox", rtask)
      <4>1. Rename("meta", "inbox", "processed", rtask)
        BY <1>7, <3>1 DEF FileMetadata
      <4> QED
        BY <2>1, <4>1, RenameEffect DEF Dirs, Kinds
    <3>2. CASE ~Exists("meta", "inbox", rtask)
      BY <1>7, <3>2 DEF FileMetadata, files
    <3> QED
      BY <3>1, <3>2
  <2> QED
    BY <2>1, <2>2 DEF ServeInv
<1>8. CASE Kill \/ Fail
  <2>1. UNCHANGED <<at, served>>
    BY <1>8 DEF Kill, Fail, files
  <2>2. CASE Abandon /\ rpc = "file"
    <3>1. /\ rpc' = "idle" /\ rtask \in Tasks
          /\ \A u \in Tasks : unfiled'[u] = IF u = rtask THEN unfiled[u] + 1 ELSE unfiled[u]
      BY <2>2 DEF Abandon, Quit, TypeOK
    <3>2. \A u \in Tasks : unfiled[u] \in Nat /\ served[u].times \in Nat
      BY DEF TypeOK
    <3> QED
      BY <2>1, <2>2, <3>1, <3>2 DEF ServeInv
  <2>3. CASE Abandon /\ rpc # "file"
    <3>1. rpc' = "idle" /\ UNCHANGED unfiled
      BY <2>3 DEF Abandon, Quit
    <3> QED
      BY <2>1, <2>3, <3>1 DEF ServeInv
  <2>4. CASE ~Abandon
    <3>1. UNCHANGED <<unfiled, rpc, rtask>>
      BY <1>8, <2>4 DEF Kill, Fail, KillMover, KillWriter, KillRun, run
    <3> QED
      BY <1>1, <2>1, <3>1
  <2> QED
    BY <2>2, <2>3, <2>4
<1>9. CASE UNCHANGED vars
  BY <1>1, <1>9 DEF vars, run, files
<1> QED
  BY <1>2, <1>3, <1>4, <1>5, <1>6, <1>7, <1>8, <1>9 DEF Next, Step

\* Where renames work the model is given a task once, and once more for each run that
\* was killed or failed after that and before it had filed the task, for any number of
\* tasks, movers, kills and failures, whatever is moved meanwhile.
THEOREM EachIsServedOnce == Spec => []ServedOnce
<1>1. Init => PlaceInv /\ ServeInv
  <2>1. Init => PlaceInv
    BY DEF Init, PlaceInv, Kinds, Dirs
  <2>2. Init => /\ rpc = "idle"
                /\ \A t \in Tasks : served[t].times = 0 /\ unfiled[t] = 0
    BY DEF Init
  <2> QED
    BY <2>1, <2>2 DEF ServeInv
<1>2. ServeInv => ServedOnce
  BY DEF ServeInv, ServedOnce
<1> QED
  BY <1>1, <1>2, PlaceStep, ServeStep, DeliveryTyped, CourseHolds, PTL DEF Spec
=============================================================================
