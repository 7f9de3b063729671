----------------------------- MODULE SceneStorage -----------------------------
(***************************************************************************)
(* Objects in external storage and the database rows that point to them:   *)
(* assets and thumbnail of an owned scene, assets of its collaboration     *)
(* room, assets of a shared scene.  Uploads (app/api/uploadthing/core.ts,  *)
(* server/collab/assets.ts, server/scene/thumbnail-replace.ts), saves and  *)
(* the cleanup of aborted saves (server/scene/save-owned-scene.ts,         *)
(* server/actions.ts), maintenance jobs and the cleanup queue              *)
(* (server/maintenance/jobs.ts, server/storage/reclaim.ts).                *)
(*                                                                         *)
(* One owner with one scene, one room and one shared scene.  A key is the  *)
(* identity of one uploaded object and is never used again.  Storage calls *)
(* may fail, and any handler may die between two of its steps; a database  *)
(* transaction that throws did not commit, and a completed upload is       *)
(* reported once.  Ages (grace periods, retention) are left out: what a    *)
(* job may reclaim only when it is old, it may reclaim at any time here.   *)
(***************************************************************************)
EXTENDS Naturals

CONSTANTS
  Key,      \* storage keys, numbers from 1; a new object has the least unused one
  File,     \* Excalidraw file ids
  Saver,    \* tabs saving the scene, numbers from 1; the least idle one saves
  MaxGen    \* bound: generations of the room

VARIABLES
  stored,   \* the keys whose object is in storage
  rows,     \* the keys a file_record or collaboration_asset row points to
  upload,   \* per key: the upload that made it
  scene,    \* the scene row: [live, doc, thumb], doc the file ids it references
  room,     \* the room row: [open, gen]
  shared,   \* shared scene: "live", "rolling back", "half" or "gone"
  lock,     \* who holds the lock of the scene row across steps
  save,     \* per saver: the save in progress
  queue,    \* deferred_file_cleanup, per key
  released  \* history: keys whose row a deletion, a job or a rotation removed

storageVars == <<stored, rows, upload, scene, room, shared, lock, save, queue,
                 released>>

(* Keys and tabs are numbered from 1: 0 is none of them.                    *)
NumberedFromOne ==
  /\ Key \subseteq Nat \ {0} /\ Saver \subseteq Nat \ {0} /\ MaxGen \in Nat \ {0}

NoKey == 0
NoFile == "none"
Free == 0
NoUpload == [kind |-> "unused", file |-> NoFile, gen |-> 0, step |-> "none",
             victim |-> NoKey]
NoSave == [step |-> "none", want |-> {}, need |-> {}, keys |-> {},
           stale |-> FALSE, retried |-> FALSE]

RowsOf(kind) == {k \in rows : upload[k].kind = kind}
Recorded == {upload[k].file : k \in RowsOf("scene")}
Thumb == IF scene.thumb = NoKey THEN {} ELSE {scene.thumb}
Referenced == rows \union (IF scene.live THEN Thumb ELSE {})

Init ==
  /\ stored = {} /\ rows = {} /\ released = {}
  /\ upload = [k \in Key |-> NoUpload]
  /\ scene \in [live : BOOLEAN, doc : {{}}, thumb : {NoKey}]
  /\ room \in [open : {FALSE, scene.live}, gen : {1}]
  /\ shared \in {"live", "gone"} /\ lock = Free
  /\ save = [s \in Saver |-> NoSave]
  /\ queue = [k \in Key |-> "none"]

(* Rows are deleted, and in the same transaction enqueueStorageKeyCleanup   *)
(* inserts the keys that were collected from them.                          *)
Release(deleted, collected) ==
  /\ rows' = rows \ deleted
  /\ queue' = [k \in Key |-> IF k \in collected THEN "pending" ELSE queue[k]]
  /\ released' = released \union deleted

-----------------------------------------------------------------------------
(* Uploads                                                                  *)

(* The middleware accepts the upload and the object reaches storage.        *)
Stores(k, kind, f) ==
  /\ upload[k] = NoUpload /\ \A j \in Key : j < k => upload[j] # NoUpload
  /\ CASE kind = "room" -> room.open
       [] kind = "shared" -> shared = "live"
       [] OTHER -> scene.live
  /\ stored' = stored \union {k}
  /\ upload' = [upload EXCEPT ![k] =
       [kind |-> kind, file |-> f, gen |-> room.gen, step |-> "stored",
        victim |-> k]]

UploadStarts(k, kind, f) ==
  /\ kind # "scene" /\ (kind = "thumb") = (f = NoFile)
  /\ Stores(k, kind, f)
  /\ UNCHANGED <<rows, scene, room, shared, lock, save, queue, released>>

Step(k, step) ==
  upload' = [upload EXCEPT ![k].step = step,
                           ![k].victim = IF step = "done" THEN NoKey ELSE @]

(* onUploadComplete of a scene's or a shared scene's asset: a row, unless   *)
(* the parent is gone or has a row for the file already.                    *)
RecordFile(k) ==
  LET u == upload[k] IN
  /\ u.step = "stored" /\ u.kind \in {"scene", "shared"}
  /\ IF /\ IF u.kind = "scene" THEN scene.live ELSE shared # "gone"
        /\ \A r \in RowsOf(u.kind) : upload[r].file # u.file
     THEN rows' = rows \union {k} /\ Step(k, "done")
     ELSE UNCHANGED rows /\ Step(k, "discard")
  /\ UNCHANGED <<stored, scene, room, shared, lock, save, queue, released>>

(* The generations an asset of generation g makes obsolete.                 *)
Obsolete(g) == {r \in RowsOf("room") : upload[r].gen < g}

(* commitRoomAssetUpload: access and generation are checked again under the *)
(* lock of the room; a recorded asset retires those of older generations.   *)
RecordRoomAsset(k) ==
  LET u == upload[k] IN
  /\ u.step = "stored" /\ u.kind = "room"
  /\ IF /\ room.open /\ u.gen = room.gen
        /\ \A r \in RowsOf("room") : upload[r].gen = u.gen => upload[r].file # u.file
     THEN /\ rows' = (rows \ Obsolete(u.gen)) \union {k}
          /\ queue' = [r \in Key |-> IF r \in Obsolete(u.gen) THEN "pending" ELSE queue[r]]
          /\ released' = released \union Obsolete(u.gen)
          /\ Step(k, "done")
     ELSE UNCHANGED <<rows, queue, released>> /\ Step(k, "discard")
  /\ UNCHANGED <<stored, scene, room, shared, lock, save>>

(* replaceSceneThumbnail reads the key the scene has...                     *)
ThumbReads(k) ==
  /\ upload[k].step = "stored" /\ upload[k].kind = "thumb"
  /\ upload' = [upload EXCEPT ![k].step = "swap", ![k].victim = scene.thumb]
  /\ UNCHANGED <<stored, rows, scene, room, shared, lock, save, queue, released>>

(* The key that lost: the old one, or the new one when the update missed.   *)
Loser(old, new, applied) == IF applied THEN old ELSE new

(* ...and replaces it while it is still that one.                           *)
ThumbSwaps(k) ==
  LET old == upload[k].victim
      applied == scene.live /\ scene.thumb = old
      loser == Loser(old, k, applied) IN
  /\ upload[k].step = "swap" /\ lock = Free
  /\ scene' = IF applied THEN [scene EXCEPT !.thumb = k] ELSE scene
  /\ upload' = [upload EXCEPT ![k].victim = loser,
                  ![k].step = IF loser = NoKey THEN "done" ELSE "discard"]
  /\ UNCHANGED <<stored, rows, room, shared, lock, save, queue, released>>

(* The write throws: the object that was uploaded is discarded.             *)
RecordFails(k) ==
  /\ upload[k].step \in {"stored", "swap"}
  /\ upload' = [upload EXCEPT ![k].step = "discard", ![k].victim = k]
  /\ UNCHANGED <<stored, rows, scene, room, shared, lock, save, queue, released>>

(* deleteFileWithRetry, or else the cleanup queue, or else nothing.         *)
Discard(k) ==
  LET v == upload[k].victim IN
  /\ upload[k].step = "discard"
  /\ Step(k, "done")
  /\ \/ stored' = stored \ {v} /\ UNCHANGED queue
     \/ queue' = [queue EXCEPT ![v] = "pending"] /\ UNCHANGED stored
     \/ UNCHANGED <<stored, queue>>
  /\ UNCHANGED <<rows, scene, room, shared, lock, save, released>>

(* The upload's handler dies; the client sees its upload fail.              *)
UploadDies(k) ==
  /\ upload[k].step \in {"stored", "swap", "discard"}
  /\ Step(k, "done")
  /\ UNCHANGED <<stored, rows, scene, room, shared, lock, save, queue, released>>

-----------------------------------------------------------------------------
(* Saves                                                                    *)

SetSave(s, r) == save' = [save EXCEPT ![s] = r]
Aborted(s) == [NoSave EXCEPT !.step = "abort", !.keys = save[s].keys]

(* A save of a document that references want uploads what the scene has no  *)
(* record of.                                                               *)
SaveStarts(s, want) ==
  /\ scene.live /\ save[s] = NoSave /\ \A r \in Saver : r < s => save[r] # NoSave
  /\ SetSave(s, [NoSave EXCEPT !.step = "upload", !.want = want,
                               !.need = want \ Recorded])
  /\ UNCHANGED <<stored, rows, upload, scene, room, shared, lock, queue, released>>

SaveUploads(s, k) ==
  /\ save[s].step = "upload"
  /\ \E f \in save[s].need :
       /\ Stores(k, "scene", f)
       /\ SetSave(s, [save[s] EXCEPT !.need = @ \ {f}, !.keys = @ \union {k}])
  /\ UNCHANGED <<rows, scene, room, shared, lock, queue, released>>

(* saveOwnedScene updates the row, which locks it, when every upload is     *)
(* back; the update misses when the scene is gone or was saved meanwhile.   *)
SaveLocks(s) ==
  /\ save[s].step = "upload" /\ save[s].need = {}
  /\ \A k \in save[s].keys : upload[k].step = "done"
  /\ lock = Free
  /\ IF scene.live /\ ~save[s].stale
     THEN lock' = s /\ SetSave(s, [save[s] EXCEPT !.step = "locked"])
     ELSE UNCHANGED lock /\ SetSave(s, Aborted(s))
  /\ UNCHANGED <<stored, rows, upload, scene, room, shared, queue, released>>

(* assertReferencedAssetsRecorded: missing records roll the update back; the*)
(* client uploads those files and tries once more.                          *)
SaveChecks(s) ==
  /\ save[s].step = "locked"
  /\ IF save[s].want \subseteq Recorded
     THEN UNCHANGED lock /\ SetSave(s, [save[s] EXCEPT !.step = "checked"])
     ELSE /\ lock' = Free
          /\ SetSave(s, IF save[s].retried THEN Aborted(s)
                        ELSE [save[s] EXCEPT !.step = "upload", !.retried = TRUE,
                                             !.need = save[s].want \ Recorded])
  /\ UNCHANGED <<stored, rows, upload, scene, room, shared, queue, released>>

SaveCommits(s) ==
  /\ save[s].step = "checked"
  /\ scene' = [scene EXCEPT !.doc = save[s].want]
  /\ lock' = Free
  /\ save' = [x \in Saver |-> IF x = s THEN NoSave
                              ELSE [save[x] EXCEPT !.stale = @ \/ save[x].step = "upload"]]
  /\ UNCHANGED <<stored, rows, upload, room, shared, queue, released>>

(* An upload or the save throws, or the tab gives it up.                    *)
SaveFails(s) ==
  /\ save[s].step \in {"upload", "locked", "checked"}
  /\ lock' = IF lock = s THEN Free ELSE lock
  /\ SetSave(s, Aborted(s))
  /\ UNCHANGED <<stored, rows, upload, scene, room, shared, queue, released>>

\* Mutation: every key of the aborted save goes, whatever the scene references.
DeletableAll(keys) == keys \intersect Key

(* planSceneAssetCleanup: of the aborted save's keys, those with no record, *)
(* or a record of a file the committed document does not reference.         *)
Deletable(keys) ==
  {k \in keys : k \in rows => upload[k].file \notin scene.doc}

(* cleanupSceneAssetUploadsAction, under the lock of the scene row.         *)
CleanupPlans(s) ==
  /\ save[s].step = "abort"
  /\ \A k \in save[s].keys : upload[k].step = "done"
  /\ lock = Free
  /\ IF scene.live
     THEN /\ rows' = rows \ Deletable(save[s].keys)
          /\ SetSave(s, [NoSave EXCEPT !.step = "sweep",
                                       !.keys = Deletable(save[s].keys)])
     ELSE UNCHANGED rows /\ SetSave(s, NoSave)
  /\ UNCHANGED <<stored, upload, scene, room, shared, lock, queue, released>>

(* Its objects are deleted one by one after the commit, or queued.          *)
CleanupDeletes(s, k) ==
  /\ save[s].step = "sweep" /\ k \in save[s].keys
  /\ \/ stored' = stored \ {k} /\ UNCHANGED queue
     \/ queue' = [queue EXCEPT ![k] = "pending"] /\ UNCHANGED stored
  /\ SetSave(s, [save[s] EXCEPT !.keys = @ \ {k}])
  /\ UNCHANGED <<rows, upload, scene, room, shared, lock, released>>

(* The cleanup is done, or dies before it is.                               *)
SaveEnds(s) ==
  /\ save[s].step \in {"abort", "sweep"}
  /\ SetSave(s, NoSave)
  /\ UNCHANGED <<stored, rows, upload, scene, room, shared, lock, queue, released>>

-----------------------------------------------------------------------------
(* Deletions and maintenance                                                *)

(* createUnreferencedAssetGcJob: a record of the scene no document needs.   *)
CollectGarbage(k) ==
  /\ scene.live /\ lock = Free
  /\ k \in RowsOf("scene") /\ upload[k].file \notin scene.doc
  /\ Release({k}, {k})
  /\ UNCHANGED <<stored, upload, scene, room, shared, lock, save>>

(* collectSceneStorageKeys                                                  *)
SceneKeys == RowsOf("scene") \union RowsOf("room") \union Thumb

(* The scene is deleted, and with it its room; both rows are locked first.  *)
DeleteScene ==
  /\ scene.live /\ lock = Free
  /\ scene' = [live |-> FALSE, doc |-> {}, thumb |-> NoKey]
  /\ room' = [room EXCEPT !.open = FALSE]
  /\ Release(RowsOf("scene") \union RowsOf("room") \union Thumb, SceneKeys)
  /\ UNCHANGED <<stored, upload, shared, lock, save>>

(* The account is deleted or purged: all of it at once.                     *)
DeleteUser ==
  /\ scene.live /\ lock = Free
  /\ scene' = [live |-> FALSE, doc |-> {}, thumb |-> NoKey]
  /\ room' = [room EXCEPT !.open = FALSE] /\ shared' = "gone"
  /\ Release(rows \union Thumb, SceneKeys \union RowsOf("shared"))
  /\ UNCHANGED <<stored, upload, lock, save>>

(* createRoomRetentionJob: an expired room is ended, its assets reclaimed.  *)
RetainRoom ==
  /\ room.open \/ RowsOf("room") # {}
  /\ room' = [room EXCEPT !.open = FALSE]
  /\ Release(RowsOf("room"), RowsOf("room"))
  /\ UNCHANGED <<stored, upload, scene, shared, lock, save>>

(* The room's generation is rotated; its assets wait for a newer one.       *)
RotateRoom ==
  /\ room.open /\ room.gen < MaxGen
  /\ room' = [room EXCEPT !.gen = @ + 1]
  /\ UNCHANGED <<stored, rows, upload, scene, shared, lock, save, queue, released>>

(* createExpiredSharedScenesJob                                             *)
ExpireShared ==
  /\ shared # "gone" /\ shared' = "gone"
  /\ Release(RowsOf("shared"), RowsOf("shared"))
  /\ UNCHANGED <<stored, upload, scene, room, lock, save>>

(* rollbackSharedScene deletes the objects it finds first...                *)
RollbackDeletes ==
  /\ shared = "live" /\ shared' = "rolling back"
  /\ stored' \in {stored \ RowsOf("shared"), stored}
  /\ UNCHANGED <<rows, upload, scene, room, lock, save, queue, released>>

(* ...and the row, and its records with it, afterwards; or dies in between. *)
RollbackEnds ==
  /\ shared = "rolling back"
  /\ \/ shared' = "gone" /\ rows' = rows \ RowsOf("shared")
     \/ shared' = "half" /\ UNCHANGED rows
  /\ UNCHANGED <<stored, upload, scene, room, lock, save, queue, released>>

(* createQueueDrainJob: a task is done, or stays for another attempt, or is *)
(* given up; between the two calls the drain may die.                       *)
Drain(k) ==
  /\ queue[k] = "pending"
  /\ \/ stored' = stored \ {k} /\ queue' = [queue EXCEPT ![k] = "done"]
     \/ stored' = stored \ {k} /\ UNCHANGED queue
     \/ queue' = [queue EXCEPT ![k] = "failed"] /\ UNCHANGED stored
  /\ UNCHANGED <<rows, upload, scene, room, shared, lock, save, released>>

Next ==
  \/ \E k \in Key :
       \/ \E kind \in {"room", "shared", "thumb"}, f \in File \union {NoFile} :
            UploadStarts(k, kind, f)
       \/ RecordFile(k) \/ RecordRoomAsset(k) \/ ThumbReads(k) \/ ThumbSwaps(k)
       \/ RecordFails(k) \/ Discard(k) \/ UploadDies(k)
       \/ CollectGarbage(k) \/ Drain(k)
  \/ \E s \in Saver :
       \/ \E want \in SUBSET File : SaveStarts(s, want)
       \/ \E k \in Key : SaveUploads(s, k) \/ CleanupDeletes(s, k)
       \/ SaveLocks(s) \/ SaveChecks(s) \/ SaveCommits(s) \/ SaveFails(s)
       \/ CleanupPlans(s) \/ SaveEnds(s)
  \/ DeleteScene \/ DeleteUser \/ RetainRoom \/ RotateRoom
  \/ ExpireShared \/ RollbackDeletes \/ RollbackEnds

Spec == Init /\ [][Next]_storageVars
-----------------------------------------------------------------------------
(* Properties                                                               *)

\* Type correctness.
TypeOK ==
  /\ stored \subseteq Key /\ rows \subseteq Key /\ released \subseteq Key
  /\ upload \in [Key -> [kind : {"unused", "scene", "shared", "room", "thumb"},
                         file : File \union {NoFile}, gen : 0..MaxGen,
                         step : {"none", "stored", "swap", "discard", "done"},
                         victim : Key \union {NoKey}]]
  /\ scene \in [live : BOOLEAN, doc : SUBSET File, thumb : Key \union {NoKey}]
  /\ room \in [open : BOOLEAN, gen : 1..MaxGen]
  /\ shared \in {"live", "rolling back", "half", "gone"}
  /\ lock \in Saver \union {Free}
  /\ save \in [Saver -> [step : {"none", "upload", "locked", "checked", "abort", "sweep"},
                         want : SUBSET File, need : SUBSET File, keys : SUBSET Key,
                         stale : BOOLEAN, retried : BOOLEAN]]
  /\ queue \in [Key -> {"none", "pending", "done", "failed"}]

\* A key that a row or the thumbnail points to has its object, through every
\* interleaving of uploads, aborted saves, jobs and crashes; only a rollback of
\* a shared scene that stopped half-way leaves rows without their bytes.
PointersHaveBytes ==
  \A k \in Referenced :
    k \in stored \/ (upload[k].kind = "shared" /\ shared \in {"rolling back", "half"})

\* The stored document references no image the scene has no record of, whoever
\* uploaded it, and whichever save, cleanup or collection comes in between.
ReferencesRecorded == scene.live => scene.doc \subseteq Recorded

\* "A crash between commit and any storage call can no longer strand an object
\* without a pointer" (reclaim.ts:134): what a deletion, a job or a newer
\* generation released is gone from storage or still in the queue.
ReleasedAccounted ==
  \A k \in released : k \in stored => queue[k] \in {"pending", "failed"}

\* What is pointed to is stored, what a stored document references is recorded, and what
\* was released is deleted or queued.
StorageSound == PointersHaveBytes /\ ReferencesRecorded /\ ReleasedAccounted
=============================================================================
