----------------------------- MODULE TaskDelivery ---------------------------
(***************************************************************************)
(* How a task and its metadata reach the concierge.  A writer leaves       *)
(* <id>.task in the outer inbox and then, when it has something to say of  *)
(* the sender, <id>.task.meta.json beside it; `conctl route-inbox` moves   *)
(* both to the concierge's inbox, by rename or, across devices, by copy    *)
(* and delete; a run of the concierge reads both and files both.  None of  *)
(* the three waits for another.                                            *)
(***************************************************************************)
EXTENDS Naturals

CONSTANTS
    Tasks,
    Attributed,   \* the tasks that have metadata
    Movers,       \* processes of `conctl route-inbox`
    Nobody,       \* no task
    MaxKills,     \* bound: killed processes
    MaxFailures   \* bound: runs and copies that fail

ASSUME DeliveryAssumption ==
    /\ Attributed \subseteq Tasks
    /\ Nobody \notin Tasks
    /\ MaxKills \in Nat /\ MaxFailures \in Nat

VARIABLES
    file,    \* what each directory holds of each task's two files
    at,      \* where the file is that the task's writer has open
    mat,     \* where the copy is that a mover has open
    writer,  \* the steps of each task's writer
    mpc, mtask, mkind, mbuf, mtodo,   \* the movers
    rpc, rtask, rbody, rmeta,         \* the concierge's run
    sameDevice,  \* does os.Rename work between the two inboxes?  It never changes.
    served,  \* history: what each task looked like when the model was invoked
    unfiled, \* history: the runs of each task that ended after that, and before filing it
    kills, failures

movers == <<mpc, mtask, mkind, mbuf, mtodo>>
run == <<rpc, rtask, rbody, rmeta>>
files == <<file, at, mat>>
bounds == <<kills, failures>>
vars == <<files, writer, movers, run, sameDevice, served, unfiled, bounds>>

Dirs == {"outer", "inbox", "processed"}
Kinds == {"body", "meta"}
Contents == {"none", "empty", "full"}

Exists(k, d, t) == file[k][d][t] # "none"

\* os.Rename: the file keeps whoever has it open, and what it replaces is gone.
Follow(src, dst, d) == IF d = src THEN dst ELSE IF d = dst THEN "gone" ELSE d

Rename(k, src, dst, t) ==
    /\ file' = [file EXCEPT ![k][dst][t] = file[k][src][t], ![k][src][t] = "none"]
    /\ at' = [at EXCEPT ![k][t] = Follow(src, dst, @)]
    /\ mat' = [m \in Movers |-> IF mkind[m] = k /\ mtask[m] = t THEN Follow(src, dst, mat[m])
                                ELSE mat[m]]

-----------------------------------------------------------------------------
(* WriteNamedTaskWithMetadata: two files, each created and then filled.     *)

Create(k, t) ==
    /\ writer[t] = IF k = "body" THEN "create" ELSE "createMeta"
    /\ file' = [file EXCEPT ![k]["outer"][t] = "empty"]
    /\ at' = [at EXCEPT ![k][t] = "outer"]
    /\ writer' = [writer EXCEPT ![t] = IF k = "body" THEN "fill" ELSE "fillMeta"]
    /\ UNCHANGED <<mat, movers, run, served, unfiled, bounds>>

Fill(k, t) ==
    /\ writer[t] = IF k = "body" THEN "fill" ELSE "fillMeta"
    /\ file' = IF at[k][t] = "gone" THEN file ELSE [file EXCEPT ![k][at[k][t]][t] = "full"]
    /\ writer' = [writer EXCEPT ![t] =
                    IF k = "body" /\ t \in Attributed THEN "createMeta" ELSE "done"]
    /\ UNCHANGED <<at, mat, movers, run, served, unfiled, bounds>>

-----------------------------------------------------------------------------
(* moveOuterInboxTasksTo and, for the metadata, moveTaskMetadata.           *)

Mover(m, label) == mpc[m] = label /\ UNCHANGED <<writer, run, served, unfiled, kills>>

\* After a body its metadata is looked for, after the metadata the next task is
\* taken; a body that cannot be read is passed over.
Onward(m, moved) ==
    IF moved /\ mkind[m] = "body"
    THEN /\ mpc' = [mpc EXCEPT ![m] = "move"]
         /\ mkind' = [mkind EXCEPT ![m] = "meta"]
         /\ UNCHANGED <<mtask, mtodo>>
    ELSE /\ mpc' = [mpc EXCEPT ![m] = "next"]
         /\ mkind' = [mkind EXCEPT ![m] = "body"]
         /\ mtask' = [mtask EXCEPT ![m] = Nobody]
         /\ UNCHANGED mtodo

List(m) ==
    /\ Mover(m, "idle")
    /\ \E t \in Tasks : Exists("body", "outer", t)
    /\ mtodo' = [mtodo EXCEPT ![m] = {t \in Tasks : Exists("body", "outer", t)}]
    /\ mpc' = [mpc EXCEPT ![m] = "next"]
    /\ UNCHANGED <<files, mtask, mkind, mbuf, failures>>

NextTask(m) ==
    /\ Mover(m, "next")
    /\ \/ /\ mtodo[m] = {}
          /\ mpc' = [mpc EXCEPT ![m] = "idle"]
          /\ UNCHANGED <<mtask, mtodo>>
       \/ \E t \in mtodo[m] :
          /\ mtodo' = [mtodo EXCEPT ![m] = @ \ {t}]
          /\ mtask' = [mtask EXCEPT ![m] = t]
          /\ mpc' = [mpc EXCEPT ![m] = "move"]
    /\ UNCHANGED <<files, mkind, mbuf, failures>>

\* Mutant: the file is copied and the original stays.
MoveCopying(m) ==
    LET k == mkind[m]
        t == mtask[m] IN
    /\ Mover(m, "move") /\ sameDevice /\ Exists(k, "outer", t)
    /\ file' = [file EXCEPT ![k]["inbox"][t] = file[k]["outer"][t]]
    /\ Onward(m, TRUE)
    /\ UNCHANGED <<at, mat, mbuf, failures>>

\* The rename; or the read of the copy, when renames fail.
Move(m) ==
    LET k == mkind[m]
        t == mtask[m] IN
    /\ Mover(m, "move")
    /\ \/ /\ Exists(k, "outer", t) /\ sameDevice
          /\ Rename(k, "outer", "inbox", t)
          /\ Onward(m, TRUE) /\ UNCHANGED mbuf
       \/ /\ Exists(k, "outer", t) /\ ~sameDevice
          /\ mbuf' = [mbuf EXCEPT ![m] = file[k]["outer"][t]]
          /\ mpc' = [mpc EXCEPT ![m] = "write"]
          /\ UNCHANGED <<files, mtask, mkind, mtodo>>
       \/ /\ ~Exists(k, "outer", t)
          /\ Onward(m, FALSE) /\ UNCHANGED <<files, mbuf>>
    /\ UNCHANGED failures

\* Mutant: the original is removed before the copy is there.
OpenAfterRemove(m) ==
    /\ Mover(m, "write")
    /\ file' = [file EXCEPT ![mkind[m]]["outer"][mtask[m]] = "none"]
    /\ mat' = [mat EXCEPT ![m] = "inbox"]
    /\ mpc' = [mpc EXCEPT ![m] = "fill"]
    /\ UNCHANGED <<at, mtask, mkind, mbuf, mtodo, failures>>

\* os.WriteFile makes or cuts the copy, and then fills it, wherever it is by now.
Open(m) ==
    /\ Mover(m, "write")
    /\ file' = [file EXCEPT ![mkind[m]]["inbox"][mtask[m]] = "empty"]
    /\ mat' = [mat EXCEPT ![m] = "inbox"]
    /\ mpc' = [mpc EXCEPT ![m] = "fill"]
    /\ UNCHANGED <<at, mtask, mkind, mbuf, mtodo, failures>>

Copy(m) ==
    /\ Mover(m, "fill")
    /\ file' = IF mat[m] = "gone" \/ mbuf[m] = "empty" THEN file
               ELSE [file EXCEPT ![mkind[m]][mat[m]][mtask[m]] = "full"]
    /\ mat' = [mat EXCEPT ![m] = "none"]
    /\ mpc' = [mpc EXCEPT ![m] = "remove"]
    /\ UNCHANGED <<at, mtask, mkind, mbuf, mtodo, failures>>

\* A copy that cannot be opened or filled is left as it is, and so is the original.
CopyFails(m) ==
    /\ Mover(m, mpc[m]) /\ mpc[m] \in {"write", "fill"}
    /\ failures < MaxFailures /\ failures' = failures + 1
    /\ mat' = [mat EXCEPT ![m] = "none"]
    /\ mbuf' = [mbuf EXCEPT ![m] = "none"]
    /\ Onward(m, FALSE)
    /\ UNCHANGED <<file, at>>

Remove(m) ==
    LET k == mkind[m]
        t == mtask[m] IN
    /\ Mover(m, "remove")
    /\ file' = [file EXCEPT ![k]["outer"][t] = "none"]
    /\ at' = [at EXCEPT ![k][t] = IF @ = "outer" THEN "gone" ELSE @]
    /\ mbuf' = [mbuf EXCEPT ![m] = "none"]
    /\ Onward(m, TRUE)
    /\ UNCHANGED <<mat, failures>>

-----------------------------------------------------------------------------
(* The concierge's run: read the task, read its metadata, serve, file both. *)

Run(label) == rpc = label /\ UNCHANGED <<writer, movers>>

Pick ==
    /\ Run("idle")
    /\ \E t \in Tasks :
         /\ Exists("body", "inbox", t)
         /\ rtask' = t /\ rbody' = file["body"]["inbox"][t]
    /\ rpc' = "load"
    /\ UNCHANGED <<files, rmeta, served, unfiled, bounds>>

Quit == rpc' = "idle" /\ rtask' = Nobody /\ rbody' = "none" /\ rmeta' = "none"

\* Mutant: the task is filed before it is served.
LoadAndFile ==
    /\ Run("load")
    /\ rmeta' = file["meta"]["inbox"][rtask]
    /\ rpc' = "file"
    /\ UNCHANGED <<files, rtask, rbody, served, unfiled, bounds>>

\* Metadata that is no JSON yet ends the run; absent metadata is no metadata.
Load ==
    /\ Run("load")
    /\ IF file["meta"]["inbox"][rtask] = "empty"
       THEN Quit
       ELSE /\ rmeta' = file["meta"]["inbox"][rtask]
            /\ rpc' = "serve"
            /\ UNCHANGED <<rtask, rbody>>
    /\ UNCHANGED <<files, served, unfiled, bounds>>

Serve ==
    /\ Run("serve")
    /\ served' = [served EXCEPT ![rtask] =
                    [times |-> @.times + 1, body |-> rbody, meta |-> rmeta]]
    /\ rpc' = "file"
    /\ UNCHANGED <<files, rtask, rbody, rmeta, unfiled, bounds>>

\* Mutant: only the metadata is filed.
FileMetadataOnly ==
    /\ Run("file")
    /\ rpc' = "fileMeta"
    /\ UNCHANGED <<files, rtask, rbody, rmeta, served, unfiled, bounds>>

File ==
    /\ Run("file")
    /\ IF Exists("body", "inbox", rtask)
       THEN Rename("body", "inbox", "processed", rtask)
       ELSE UNCHANGED files
    /\ rpc' = "fileMeta"
    /\ UNCHANGED <<rtask, rbody, rmeta, served, unfiled, bounds>>

FileMetadata ==
    /\ Run("fileMeta")
    /\ IF Exists("meta", "inbox", rtask)
       THEN Rename("meta", "inbox", "processed", rtask)
       ELSE UNCHANGED files
    /\ Quit
    /\ UNCHANGED <<served, unfiled, bounds>>

\* The run ends although it had to go on: killed, or with an error.
Abandon ==
    /\ Quit
    /\ unfiled' = IF rpc = "file" THEN [unfiled EXCEPT ![rtask] = @ + 1] ELSE unfiled
    /\ UNCHANGED <<writer, movers>>

\* After the model was invoked: it gave no output, its cost could not be recorded or
\* exceeds the budget, the answer could not be written, a file not be moved.
Fail ==
    /\ rpc \in {"file", "fileMeta"}
    /\ failures < MaxFailures /\ failures' = failures + 1
    /\ Abandon
    /\ UNCHANGED <<files, served, kills>>

-----------------------------------------------------------------------------

KillMover(m) ==
    /\ mpc[m] # "idle"
    /\ mpc' = [mpc EXCEPT ![m] = "idle"]
    /\ mtask' = [mtask EXCEPT ![m] = Nobody]
    /\ mkind' = [mkind EXCEPT ![m] = "body"]
    /\ mbuf' = [mbuf EXCEPT ![m] = "none"]
    /\ mtodo' = [mtodo EXCEPT ![m] = {}]
    /\ mat' = [mat EXCEPT ![m] = "none"]
    /\ UNCHANGED <<writer, run, unfiled>>

KillWriter(t) ==
    /\ writer[t] # "done"
    /\ writer' = [writer EXCEPT ![t] = "done"]
    /\ UNCHANGED <<mat, movers, run, unfiled>>

KillRun == rpc # "idle" /\ Abandon /\ UNCHANGED mat

Kill ==
    /\ kills < MaxKills /\ kills' = kills + 1
    /\ (\E m \in Movers : KillMover(m)) \/ (\E t \in Tasks : KillWriter(t)) \/ KillRun
    /\ UNCHANGED <<file, at, served, failures>>

Init ==
    /\ file = [k \in Kinds |-> [d \in Dirs |-> [t \in Tasks |-> "none"]]]
    /\ at = [k \in Kinds |-> [t \in Tasks |-> "never"]]
    /\ writer = [t \in Tasks |-> "create"]
    /\ mat = [m \in Movers |-> "none"]
    /\ mpc = [m \in Movers |-> "idle"]
    /\ mtask = [m \in Movers |-> Nobody]
    /\ mkind = [m \in Movers |-> "body"]
    /\ mbuf = [m \in Movers |-> "none"]
    /\ mtodo = [m \in Movers |-> {}]
    /\ rpc = "idle" /\ rtask = Nobody /\ rbody = "none" /\ rmeta = "none"
    /\ served = [t \in Tasks |-> [times |-> 0, body |-> "none", meta |-> "none"]]
    /\ unfiled = [t \in Tasks |-> 0]
    /\ sameDevice \in BOOLEAN
    /\ kills = 0 /\ failures = 0

Step ==
    \/ \E k \in Kinds, t \in Tasks : Create(k, t) \/ Fill(k, t)
    \/ \E m \in Movers :
          List(m) \/ NextTask(m) \/ Move(m) \/ Open(m) \/ Copy(m) \/ CopyFails(m) \/ Remove(m)
    \/ Pick \/ Load \/ Serve \/ File \/ FileMetadata \/ Fail
    \/ Kill

Next == Step /\ UNCHANGED sameDevice

Spec == Init /\ [][Next]_vars

-----------------------------------------------------------------------------

TypeOK ==
    /\ file \in [Kinds -> [Dirs -> [Tasks -> Contents]]]
    /\ at \in [Kinds -> [Tasks -> Dirs \cup {"never", "gone"}]]
    /\ writer \in [Tasks -> {"create", "fill", "createMeta", "fillMeta", "done"}]
    /\ mat \in [Movers -> Dirs \cup {"none", "gone"}]
    /\ mpc \in [Movers -> {"idle", "next", "move", "write", "fill", "remove"}]
    /\ mtask \in [Movers -> Tasks \cup {Nobody}]
    /\ mkind \in [Movers -> Kinds]
    /\ mbuf \in [Movers -> Contents]
    /\ mtodo \in [Movers -> SUBSET Tasks]
    /\ \A m \in Movers :
         /\ mpc[m] \in {"move", "write", "fill", "remove"} <=> mtask[m] \in Tasks
         /\ mpc[m] \in {"write", "fill", "remove"} <=> mbuf[m] # "none"
         /\ mpc[m] = "fill" <=> mat[m] # "none"
    /\ rpc \in {"idle", "load", "serve", "file", "fileMeta"}
    /\ rtask \in Tasks \cup {Nobody}
    /\ rpc # "idle" <=> rtask \in Tasks
    /\ rbody \in Contents /\ rmeta \in Contents
    /\ served \in [Tasks -> [times : Nat, body : Contents, meta : Contents]]
    /\ unfiled \in [Tasks -> Nat]
    /\ sameDevice \in BOOLEAN
    /\ kills \in Nat /\ failures \in Nat

Places(k, t) == {d \in Dirs : Exists(k, d, t)}
Written(k, t) == writer[t] \in (IF k = "body" THEN {"createMeta", "fillMeta"} ELSE {})

\* Where renames work, neither two movers, nor a run that files what is being
\* moved, nor a kill, ever lose or double a task or its metadata, and what the
\* writer had written stays written.
EachFileIsInOnePlace ==
    sameDevice =>
       \A k \in Kinds, t \in Tasks :
          /\ \A d, e \in Places(k, t) : d = e
          /\ at[k][t] # "never" => Places(k, t) = {at[k][t]}
          /\ Written(k, t) => \E d \in Dirs : file[k][d][t] = "full"

\* Where renames work, a task is handed to the model once, and once more for each run
\* that was killed or failed after that and before it had filed the task: whatever
\* movers, writer and other runs do, a task that was filed is not served again.
ServedOnce == sameDevice => \A t \in Tasks : served[t].times <= 1 + unfiled[t]

\* Copy and delete may double a file and may lose what the writer adds to it,
\* but once there is a file there is always one.
NothingDisappears ==
    \A k \in Kinds, t \in Tasks : at[k][t] # "never" => Places(k, t) # {}

\* How far a task has come: the furthest place that has its body.
Stage(t) == IF Exists("body", "processed", t) THEN "processed"
            ELSE IF Exists("body", "inbox", t) THEN "inbox"
            ELSE IF Exists("body", "outer", t) THEN "outer" ELSE "unsent"

Box == INSTANCE Mailbox WITH where <- [t \in Tasks |-> Stage(t)],
                             answered <- {t \in Tasks : served[t].times > 0}

\* The delivery keeps the promise of Mailbox, with renames and with copies, through
\* every kill and every overlap of writer, movers and run.
KeepsOrder == Box!Spec
=============================================================================
