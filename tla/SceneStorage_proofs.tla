-------------------------- MODULE SceneStorage_proofs --------------------------
(***************************************************************************)
(* What a row points to has its object, what a stored document references  *)
(* has its row, and no object that was released is forgotten: for any      *)
(* number of keys, files, saving tabs and generations of the room.         *)
(***************************************************************************)
EXTENDS SceneStorage, TLAPS

-----------------------------------------------------------------------------
(* The inductive invariant.                                                *)

\* The keys nothing points to, and nothing ever will: their upload is over.
Dead ==
  {k \in Key : /\ upload[k].step \in {"discard", "done"}
               /\ k \notin rows /\ scene.thumb # k}

\* An object is stored until its upload has decided what becomes of it, and what it
\* discards then nothing points to.
UploadGood(k) ==
  /\ upload[k].step \in {"stored", "swap"} => k \in stored
  /\ upload[k].step = "stored" => upload[k].victim = k
  /\ upload[k].step = "swap" => upload[k].kind = "thumb"
  /\ upload[k].step = "discard" => upload[k].victim \in Dead

\* Who points to what.
RowsInv ==
  /\ \A k \in rows : upload[k].kind \in {"scene", "shared", "room"} /\ upload[k].step = "done"
  /\ shared = "gone" => \A k \in rows : upload[k].kind # "shared"
  /\ scene.thumb # NoKey => /\ upload[scene.thumb].kind = "thumb"
                            /\ upload[scene.thumb].step \in {"discard", "done"}
  /\ ~scene.live => scene.thumb = NoKey

\* What is to be deleted, or was released, is dead.
DeadInv == \A k \in Key : queue[k] = "pending" \/ k \in released => k \in Dead

\* A save holds the lock of the row from its update to its commit, which keeps every record
\* it has checked; the keys it cleans up are its own, and dead.
SaveGood(s) ==
  /\ save[s].step \in {"locked", "checked"} <=> lock = s
  /\ save[s].step = "checked" => save[s].want \subseteq Recorded
  /\ \A k \in save[s].keys : upload[k].kind = "scene"
  /\ save[s].step = "sweep" => save[s].keys \subseteq Dead

IInv ==
  /\ TypeOK /\ RowsInv /\ DeadInv
  /\ \A k \in Key : UploadGood(k)
  /\ \A s \in Saver : SaveGood(s)
  /\ PointersHaveBytes /\ ReferencesRecorded /\ ReleasedAccounted

-----------------------------------------------------------------------------
(* Types.                                                                  *)

Uploads ==
  [kind : {"unused", "scene", "shared", "room", "thumb"}, file : File \union {NoFile},
   gen : 0..MaxGen, step : {"none", "stored", "swap", "discard", "done"},
   victim : Key \union {NoKey}]

Saves ==
  [step : {"none", "upload", "locked", "checked", "abort", "sweep"},
   want : SUBSET File, need : SUBSET File, keys : SUBSET Key,
   stale : BOOLEAN, retried : BOOLEAN]

Scenes == [live : BOOLEAN, doc : SUBSET File, thumb : Key \union {NoKey}]

Types ==
  /\ stored \subseteq Key /\ rows \subseteq Key /\ released \subseteq Key
  /\ upload \in [Key -> Uploads] /\ save \in [Saver -> Saves] /\ scene \in Scenes
  /\ room \in [open : BOOLEAN, gen : 1..MaxGen]
  /\ shared \in {"live", "rolling back", "half", "gone"}
  /\ lock \in Saver \union {Free}
  /\ queue \in [Key -> {"none", "pending", "done", "failed"}]

LEMMA TypesSame == TypeOK <=> Types
BY DEF TypeOK, Types, Uploads, Saves, Scenes

LEMMA TypesNext == TypeOK' <=> Types'
BY DEF TypeOK, Types, Uploads, Saves, Scenes

LEMMA Numbers ==
  ASSUME NumberedFromOne
  PROVE  NoKey \notin Key /\ Free \notin Saver
BY DEF NumberedFromOne, NoKey, Free

-----------------------------------------------------------------------------
(* What every step respects.                                               *)

\* An upload keeps its kind and its file, and what is over stays over.
Named ==
  \A k \in Key :
    /\ upload[k].kind # "unused" => /\ upload'[k].kind = upload[k].kind
                                    /\ upload'[k].file = upload[k].file
    /\ upload[k].step = "done" => upload'[k].step = "done"
    /\ upload[k].step = "discard" => upload'[k].step \in {"discard", "done"}

\* What a row begins to point to is a new object.
Pointed ==
  /\ \A k \in rows' :
       \/ k \in rows
       \/ /\ k \in Key /\ upload[k].step = "stored" /\ upload'[k].step = "done"
          /\ upload[k].kind \in {"scene", "shared", "room"}
          /\ shared' = "gone" => upload[k].kind # "shared"
  /\ \/ scene'.thumb \in {scene.thumb, NoKey}
     \/ /\ scene'.thumb \in Key /\ upload[scene'.thumb].step = "swap"
        /\ upload'[scene'.thumb].step \in {"discard", "done"}
  /\ ~scene'.live => scene'.thumb = NoKey

\* Only dead objects are deleted, but for those of a shared scene that is rolled back.
Deleted ==
  /\ \A k \in stored : \/ k \in stored'
                       \/ k \in Dead
                       \/ k \in rows /\ upload[k].kind = "shared" /\ shared' = "rolling back"
  /\ \A k \in stored' : k \in stored \/ upload[k].step = "none"
  /\ \/ shared' = shared \/ shared' \in {"rolling back", "half"}
     \/ \A k \in rows' : upload'[k].kind # "shared"

\* The queue takes dead keys, and forgets a key with its object; what is released it takes.
Queued ==
  /\ \A k \in Key : \/ queue'[k] = queue[k]
                    \/ queue'[k] = "pending" /\ k \in Dead'
                    \/ queue'[k] = "failed"
                    \/ queue'[k] = "done" /\ k \notin stored'
  /\ \A k \in released' : \/ k \in released
                          \/ queue'[k] = "pending" /\ k \in Dead'

Tame == Named /\ Pointed /\ Deleted /\ Queued

LEMMA Facts ==
  ASSUME IInv
  PROVE  /\ Types /\ RowsInv /\ DeadInv
         /\ \A k \in Key : UploadGood(k)
         /\ \A s \in Saver : SaveGood(s)
BY TypesSame DEF IInv

\* The dead stay dead.
LEMMA DeadStays ==
  ASSUME IInv, NumberedFromOne, Named, Pointed
  PROVE  Dead \subseteq Dead'
BY Numbers DEF Named, Pointed, Dead

LEMMA TameKept ==
  ASSUME IInv, NumberedFromOne, Types', Tame
  PROVE  RowsInv' /\ DeadInv' /\ PointersHaveBytes' /\ ReleasedAccounted'
<1>1. Dead \subseteq Dead'
  BY DeadStays DEF Tame
<1>2. Types /\ RowsInv /\ DeadInv /\ \A k \in Key : UploadGood(k)
  BY Facts
<1>3. RowsInv'
  <2>1. ASSUME NEW k \in rows'
        PROVE  /\ upload'[k].kind \in {"scene", "shared", "room"} /\ upload'[k].step = "done"
               /\ shared' = "gone" => upload'[k].kind # "shared"
    <3>1. k \in Key
      BY DEF Types
    <3>2. CASE k \in rows
      <4>1. /\ upload[k].kind \in {"scene", "shared", "room"} /\ upload[k].step = "done"
            /\ shared = "gone" => upload[k].kind # "shared"
        BY <1>2, <3>2 DEF RowsInv
      <4>2. upload'[k].kind = upload[k].kind /\ upload'[k].step = "done"
        BY <3>1, <4>1 DEF Tame, Named
      <4>. QED
        BY <4>1, <4>2 DEF Tame, Deleted
    <3>3. CASE k \notin rows
      BY <3>1, <3>3 DEF Tame, Pointed, Named
    <3>. QED
      BY <3>2, <3>3
  <2>2. scene'.thumb # NoKey => /\ upload'[scene'.thumb].kind = "thumb"
                                /\ upload'[scene'.thumb].step \in {"discard", "done"}
    <3>1. CASE scene'.thumb = scene.thumb /\ scene.thumb # NoKey
      <4>1. scene.thumb \in Key
        BY <1>2, <3>1 DEF Types, Scenes
      <4>. QED
        BY <1>2, <3>1, <4>1 DEF Tame, Named, RowsInv
    <3>2. CASE scene'.thumb \in Key /\ upload[scene'.thumb].step = "swap"
        /\ upload'[scene'.thumb].step \in {"discard", "done"}
      BY <1>2, <3>2 DEF Tame, Named, UploadGood
    <3>. QED
      BY <3>1, <3>2 DEF Tame, Pointed
  <2>. QED
    BY <2>1, <2>2 DEF RowsInv, Tame, Pointed
<1>4. DeadInv'
  BY <1>1, <1>2 DEF DeadInv, Tame, Queued, Types
<1>5. PointersHaveBytes'
  <2>1. ASSUME NEW k \in rows'
        PROVE  k \in stored' \/ (upload'[k].kind = "shared" /\ shared' \in {"rolling back", "half"})
    <3>1. k \in Key
      BY DEF Types
    <3>2. CASE k \in rows
      <4>1. k \in stored \/ (upload[k].kind = "shared" /\ shared \in {"rolling back", "half"})
        BY <3>2 DEF IInv, PointersHaveBytes, Referenced
      <4>2. k \notin Dead /\ upload'[k].kind = upload[k].kind
        BY <1>2, <3>1, <3>2 DEF Dead, RowsInv, Tame, Named
      <4>. QED
        BY <4>1, <4>2 DEF Tame, Deleted
    <3>3. CASE k \notin rows
      <4>1. upload[k].step = "stored"
        BY <3>3 DEF Tame, Pointed
      <4>. QED
        BY <1>2, <3>1, <3>3, <4>1 DEF UploadGood, Tame, Deleted, Dead
    <3>. QED
      BY <3>2, <3>3
  <2>2. ASSUME scene'.live, scene'.thumb # NoKey
        PROVE  scene'.thumb \in stored'
    <3>1. CASE scene'.thumb = scene.thumb
      <4>1. scene.thumb \in Key /\ scene.live
        BY <1>2, <2>2, <3>1 DEF Types, Scenes, RowsInv
      <4>2. upload[scene.thumb].kind = "thumb"
        BY <1>2, <2>2, <3>1 DEF RowsInv
      <4>3. scene.thumb \in Referenced
        BY <2>2, <3>1, <4>1 DEF Referenced, Thumb
      <4>4. scene.thumb \in stored
        BY <4>2, <4>3 DEF IInv, PointersHaveBytes
      <4>. QED
        BY <3>1, <4>2, <4>4 DEF Tame, Deleted, Dead
    <3>2. CASE scene'.thumb \in Key /\ upload[scene'.thumb].step = "swap"
      BY <1>2, <3>2 DEF UploadGood, RowsInv, Tame, Deleted, Dead
    <3>. QED
      BY <2>2, <3>1, <3>2 DEF Tame, Pointed
  <2>. QED
    BY <2>1, <2>2 DEF PointersHaveBytes, Referenced, Thumb
<1>6. ReleasedAccounted'
  <2>1. ASSUME NEW k \in released', k \in stored'
        PROVE  queue'[k] \in {"pending", "failed"}
    <3>1. k \in Key
      BY DEF Types
    <3>2. CASE k \in released
      <4>1. upload[k].step # "none"
        BY <1>2, <3>1, <3>2 DEF DeadInv, Dead
      <4>2. queue[k] \in {"pending", "failed"}
        BY <2>1, <3>2, <4>1 DEF Tame, Deleted, IInv, ReleasedAccounted
      <4>. QED
        BY <2>1, <3>1, <4>2 DEF Tame, Queued
    <3>. QED
      BY <3>2 DEF Tame, Queued
  <2>. QED
    BY <2>1 DEF ReleasedAccounted
<1>. QED
  BY <1>3, <1>4, <1>5, <1>6

\* An upload that is left alone.
LEMMA UploadKept ==
  ASSUME IInv, NumberedFromOne, Tame, NEW k \in Key, upload'[k] = upload[k]
  PROVE  UploadGood(k)'
<1>1. Dead \subseteq Dead'
  BY DeadStays DEF Tame
<1>2. UploadGood(k) /\ RowsInv
  BY Facts
<1>3. upload[k].step \in {"stored", "swap"} => k \in stored'
  BY <1>2 DEF UploadGood, RowsInv, Tame, Deleted, Dead
<1>. QED
  BY <1>1, <1>2, <1>3 DEF UploadGood

\* A save that is left alone, while no record it may count on goes.
LEMMA SaveKept ==
  ASSUME IInv, NumberedFromOne, Tame, NEW s \in Saver, save'[s].step = save[s].step,
         save'[s].want = save[s].want, save'[s].keys = save[s].keys, lock' = s <=> lock = s,
         lock = s => RowsOf("scene") \subseteq rows'
  PROVE  SaveGood(s)'
<1>1. Dead \subseteq Dead'
  BY DeadStays DEF Tame
<1>2. SaveGood(s) /\ RowsInv /\ Types
  BY Facts
<1>3. lock = s => Recorded \subseteq Recorded'
  <2>1. ASSUME NEW k \in RowsOf("scene"), RowsOf("scene") \subseteq rows'
        PROVE  k \in RowsOf("scene")' /\ upload'[k].file = upload[k].file
    <3>1. k \in Key /\ upload[k].kind = "scene" /\ k \in rows'
      BY <1>2, <2>1 DEF RowsOf, Types
    <3>2. upload'[k].kind = "scene" /\ upload'[k].file = upload[k].file
      BY <3>1 DEF Tame, Named
    <3>. QED
      BY <3>1, <3>2 DEF RowsOf
  <2>. QED
    BY <2>1 DEF Recorded
<1>4. \A k \in save[s].keys : k \in Key
  BY <1>2 DEF Types, Saves
<1>5. \A k \in save'[s].keys : upload'[k].kind = "scene"
  BY <1>2, <1>4 DEF SaveGood, Tame, Named
<1>. QED
  BY <1>1, <1>2, <1>3, <1>5 DEF SaveGood

\* The document is left alone, or goes, and no record it may count on goes.
LEMMA ReferencesKept ==
  ASSUME IInv, Tame, scene'.live => scene.live /\ scene'.doc = scene.doc,
         \A k \in RowsOf("scene") : upload[k].file \in scene.doc => k \in rows'
  PROVE  ReferencesRecorded'
<1>1. Types
  BY Facts
<1>2. ASSUME NEW f \in scene.doc, scene.live
      PROVE  f \in Recorded'
  <2>1. PICK k \in RowsOf("scene") : upload[k].file = f
    BY <1>2 DEF IInv, ReferencesRecorded, Recorded
  <2>2. k \in rows' /\ upload'[k].kind = "scene" /\ upload'[k].file = f
    BY <1>1, <1>2, <2>1 DEF RowsOf, Types, Tame, Named
  <2>. QED
    BY <2>2 DEF Recorded, RowsOf
<1>. QED
  BY <1>2 DEF ReferencesRecorded

LEMMA AllKept ==
  ASSUME IInv, NumberedFromOne, Types', Tame, \A k \in Key : UploadGood(k)',
         \A s \in Saver : SaveGood(s)', ReferencesRecorded'
  PROVE  IInv'
BY TameKept, TypesNext DEF IInv

-----------------------------------------------------------------------------
(* Deletions and maintenance.                                              *)

\* A step that only takes rows and objects away, and no record that a save counts on.
LEMMA JobKept ==
  ASSUME IInv, NumberedFromOne, Types', Tame, UNCHANGED <<upload, save, lock>>,
         lock = Free \/ RowsOf("scene") \subseteq rows',
         scene'.live => scene.live /\ scene'.doc = scene.doc,
         \A k \in RowsOf("scene") : scene'.live /\ upload[k].file \in scene.doc => k \in rows'
  PROVE  IInv'
<1>1. \A k \in Key : UploadGood(k)'
  BY UploadKept
<1>2. \A s \in Saver : SaveGood(s)'
  BY SaveKept, Numbers
<1>3. ReferencesRecorded'
  <2>1. CASE scene'.live
    BY <2>1, ReferencesKept
  <2>. QED
    BY <2>1 DEF ReferencesRecorded
<1>. QED
  BY <1>1, <1>2, <1>3, AllKept

\* What is released is queued, and dead.
LEMMA ReleaseQueued ==
  ASSUME IInv, NumberedFromOne, NEW deleted \in SUBSET Key,
         deleted \subseteq rows \union {scene.thumb}, Release(deleted, deleted), upload' = upload,
         scene'.thumb \in {scene.thumb, NoKey}, scene.thumb \in deleted => scene'.thumb = NoKey
  PROVE  /\ Queued /\ Named /\ rows' \subseteq rows
         /\ rows' \subseteq Key /\ released' \subseteq Key
         /\ queue' \in [Key -> {"none", "pending", "done", "failed"}]
<1>1. Types /\ RowsInv
  BY Facts
<1>2. /\ rows' = rows \ deleted /\ released' = released \union deleted
      /\ queue' = [k \in Key |-> IF k \in deleted THEN "pending" ELSE queue[k]]
  BY DEF Release
<1>3. \A k \in deleted : k \in Dead'
  <2>1. ASSUME NEW k \in deleted
        PROVE  upload'[k].step \in {"discard", "done"} /\ k \notin rows' /\ scene'.thumb # k
    <3>1. upload[k].step \in {"discard", "done"}
      BY <1>1, Numbers DEF RowsInv
    <3>. QED
      BY <1>2, <3>1, Numbers
  <2>. QED
    BY <2>1 DEF Dead
<1>4. Queued
  BY <1>1, <1>2, <1>3 DEF Queued, Types
<1>5. Named
  BY DEF Named
<1>. QED
  BY <1>1, <1>2, <1>4, <1>5 DEF Types

LEMMA CollectGarbageKept ==
  ASSUME IInv, NumberedFromOne, NEW k \in Key, CollectGarbage(k)
  PROVE  IInv'
<1>1. Types /\ RowsInv
  BY Facts
<1>2. UNCHANGED <<stored, upload, scene, room, shared, lock, save>>
  BY DEF CollectGarbage
<1>3. k \in rows /\ upload[k].kind = "scene" /\ upload[k].file \notin scene.doc /\ lock = Free
  BY DEF CollectGarbage, RowsOf
<1>4. scene.thumb # k
  BY <1>1, <1>3, Numbers DEF RowsInv
<1>5. Release({k}, {k}) /\ {k} \in SUBSET Key
  BY DEF CollectGarbage
<1>6. /\ Queued /\ Named /\ rows' \subseteq rows
      /\ rows' \subseteq Key /\ released' \subseteq Key
      /\ queue' \in [Key -> {"none", "pending", "done", "failed"}]
  BY <1>2, <1>3, <1>4, <1>5, ReleaseQueued
<1>7. Pointed /\ Deleted
  BY <1>1, <1>2, <1>6 DEF Pointed, Deleted, RowsInv
<1>8. Types'
  BY <1>1, <1>2, <1>6 DEF Types
<1>9. \A j \in RowsOf("scene") : upload[j].file \in scene.doc => j \in rows'
  BY <1>3, <1>5 DEF RowsOf, Release
<1>. QED
  BY <1>2, <1>3, <1>6, <1>7, <1>8, <1>9, JobKept DEF Tame

LEMMA DeleteKept ==
  ASSUME IInv, NumberedFromOne, DeleteScene \/ DeleteUser
  PROVE  IInv'
<1>1. Types /\ RowsInv
  BY Facts
<1>2. UNCHANGED <<stored, upload, lock, save>> /\ lock = Free
  BY DEF DeleteScene, DeleteUser
<1>3. scene' = [live |-> FALSE, doc |-> {}, thumb |-> NoKey] /\ room' = [room EXCEPT !.open = FALSE]
      /\ shared' \in {shared, "gone"}
  BY DEF DeleteScene, DeleteUser
<1>4. PICK deleted : /\ Release(deleted, deleted) /\ deleted \subseteq rows \union Thumb
                     /\ shared' = "gone" /\ shared # "gone" => rows \subseteq deleted
  <2>1. CASE DeleteScene
    <3>1. /\ Release(SceneKeys, SceneKeys) /\ SceneKeys \subseteq rows \union Thumb
          /\ shared' = shared
      BY <2>1 DEF DeleteScene, SceneKeys, RowsOf
    <3>. QED
      BY <3>1
  <2>2. CASE DeleteUser
    <3>1. SceneKeys \union RowsOf("shared") = rows \union Thumb
      BY <1>1 DEF SceneKeys, RowsOf, RowsInv
    <3>2. Release(rows \union Thumb, rows \union Thumb)
      BY <2>2, <3>1 DEF DeleteUser
    <3>. QED
      BY <3>2
  <2>. QED
    BY <2>1, <2>2
<1>5. deleted \in SUBSET Key /\ deleted \subseteq rows \union {scene.thumb}
  BY <1>1, <1>4 DEF Thumb, Types, Scenes
<1>6. scene'.thumb = NoKey /\ ~scene'.live /\ scene' \in Scenes
  BY <1>3 DEF Scenes
<1>7. /\ Queued /\ Named /\ rows' \subseteq rows
      /\ rows' \subseteq Key /\ released' \subseteq Key
      /\ queue' \in [Key -> {"none", "pending", "done", "failed"}]
  BY <1>2, <1>4, <1>5, <1>6, ReleaseQueued
<1>8. Pointed
  BY <1>6, <1>7 DEF Pointed
<1>9. Deleted
  <2>1. shared' = shared \/ \A k \in rows' : upload'[k].kind # "shared"
    BY <1>3, <1>4 DEF Release
  <2>. QED
    BY <1>2, <2>1 DEF Deleted
<1>10. Types'
  BY <1>1, <1>2, <1>3, <1>6, <1>7 DEF Types
<1>. QED
  BY <1>2, <1>6, <1>7, <1>8, <1>9, <1>10, JobKept DEF Tame

LEMMA RetainRoomKept ==
  ASSUME IInv, NumberedFromOne, RetainRoom
  PROVE  IInv'
<1>1. Types /\ RowsInv
  BY Facts
<1>2. UNCHANGED <<stored, upload, scene, shared, lock, save>> /\ room' = [room EXCEPT !.open = FALSE]
  BY DEF RetainRoom
<1>3. PICK deleted \in SUBSET Key : deleted = RowsOf("room")
  BY <1>1 DEF RowsOf, Types
<1>4. Release(deleted, deleted) /\ deleted \subseteq rows
  BY <1>3 DEF RetainRoom, RowsOf
<1>5. scene.thumb \notin deleted
  BY <1>1, <1>3, Numbers DEF RowsInv, RowsOf
<1>6. /\ Queued /\ Named /\ rows' \subseteq rows
      /\ rows' \subseteq Key /\ released' \subseteq Key
      /\ queue' \in [Key -> {"none", "pending", "done", "failed"}]
  BY <1>2, <1>4, <1>5, ReleaseQueued
<1>7. Pointed /\ Deleted
  BY <1>1, <1>2, <1>6 DEF Pointed, Deleted, RowsInv
<1>8. Types'
  BY <1>1, <1>2, <1>6 DEF Types
<1>9. RowsOf("scene") \subseteq rows'
  BY <1>3, <1>4 DEF RowsOf, Release
<1>. QED
  BY <1>2, <1>6, <1>7, <1>8, <1>9, JobKept DEF Tame

LEMMA ExpireSharedKept ==
  ASSUME IInv, NumberedFromOne, ExpireShared
  PROVE  IInv'
<1>1. Types /\ RowsInv
  BY Facts
<1>2. UNCHANGED <<stored, upload, scene, room, lock, save>> /\ shared' = "gone"
  BY DEF ExpireShared
<1>3. PICK deleted \in SUBSET Key : deleted = RowsOf("shared")
  BY <1>1 DEF RowsOf, Types
<1>4. Release(deleted, deleted) /\ deleted \subseteq rows
  BY <1>3 DEF ExpireShared, RowsOf
<1>5. scene.thumb \notin deleted
  BY <1>1, <1>3, Numbers DEF RowsInv, RowsOf
<1>6. /\ Queued /\ Named /\ rows' \subseteq rows
      /\ rows' \subseteq Key /\ released' \subseteq Key
      /\ queue' \in [Key -> {"none", "pending", "done", "failed"}]
  BY <1>2, <1>4, <1>5, ReleaseQueued
<1>7. \A k \in rows' : upload'[k].kind # "shared"
  BY <1>2, <1>3, <1>4 DEF Release, RowsOf
<1>8. Pointed /\ Deleted
  BY <1>1, <1>2, <1>6, <1>7 DEF Pointed, Deleted, RowsInv
<1>9. Types'
  BY <1>1, <1>2, <1>6 DEF Types
<1>10. RowsOf("scene") \subseteq rows'
  BY <1>3, <1>4 DEF RowsOf, Release
<1>. QED
  BY <1>2, <1>6, <1>8, <1>9, <1>10, JobKept DEF Tame

\* A rollback deletes the objects of its rows, and they are in nobody else's.
LEMMA RollbackKept ==
  ASSUME IInv, NumberedFromOne, RollbackDeletes \/ RollbackEnds
  PROVE  IInv'
<1>1. Types /\ RowsInv
  BY Facts
<1>2. UNCHANGED <<upload, scene, room, lock, save, queue, released>>
  BY DEF RollbackDeletes, RollbackEnds
<1>3. Named /\ Queued
  BY <1>2 DEF Named, Queued
<1>4. /\ Deleted /\ rows' \subseteq rows /\ RowsOf("scene") \subseteq rows'
      /\ stored' \subseteq stored /\ shared' \in {"live", "rolling back", "half", "gone"}
  <2>1. CASE RollbackDeletes
    <3>1. shared' = "rolling back" /\ rows' = rows /\ stored' \in {stored \ RowsOf("shared"), stored}
      BY <2>1 DEF RollbackDeletes
    <3>. QED
      BY <3>1 DEF Deleted, RowsOf
  <2>2. CASE RollbackEnds
    <3>1. stored' = stored
      BY <2>2 DEF RollbackEnds
    <3>2. \/ shared' = "gone" /\ rows' = rows \ RowsOf("shared")
          \/ shared' = "half" /\ rows' = rows
      BY <2>2 DEF RollbackEnds
    <3>. QED
      BY <1>2, <3>1, <3>2 DEF Deleted, RowsOf
  <2>. QED
    BY <2>1, <2>2
<1>5. Pointed
  BY <1>1, <1>2, <1>4 DEF Pointed, RowsInv
<1>6. Types'
  BY <1>1, <1>2, <1>4 DEF Types
<1>. QED
  BY <1>2, <1>3, <1>4, <1>5, <1>6, JobKept DEF Tame

LEMMA RotateRoomKept ==
  ASSUME IInv, NumberedFromOne, RotateRoom
  PROVE  IInv'
<1>1. Types /\ RowsInv
  BY Facts
<1>2. UNCHANGED <<stored, rows, upload, scene, shared, lock, save, queue, released>>
  BY DEF RotateRoom
<1>3. Tame
  BY <1>1, <1>2 DEF Tame, Named, Queued, Deleted, Pointed, RowsInv
<1>4. room' \in [open : BOOLEAN, gen : 1..MaxGen]
  <2>1. PICK g \in 1..MaxGen : g = room.gen + 1
    <3>1. room.gen \in 1..MaxGen /\ room.gen < MaxGen /\ MaxGen \in Nat
      BY <1>1 DEF RotateRoom, Types, NumberedFromOne
    <3>. QED
      BY <3>1
  <2>2. room' = [room EXCEPT !.gen = g]
    BY <2>1 DEF RotateRoom
  <2>. QED
    BY <1>1, <2>2 DEF Types
<1>5. Types'
  BY <1>1, <1>2, <1>4 DEF Types
<1>6. RowsOf("scene") \subseteq rows'
  BY <1>2 DEF RowsOf
<1>. QED
  BY <1>2, <1>3, <1>5, <1>6, JobKept

LEMMA DrainKept ==
  ASSUME IInv, NumberedFromOne, NEW k \in Key, Drain(k)
  PROVE  IInv'
<1>1. Types /\ RowsInv /\ DeadInv
  BY Facts
<1>2. UNCHANGED <<rows, upload, scene, room, shared, lock, save, released>>
  BY DEF Drain
<1>3. k \in Dead
  BY <1>1 DEF Drain, DeadInv
<1>4. /\ \/ stored' = stored \ {k} /\ queue' = [queue EXCEPT ![k] = "done"]
         \/ stored' = stored \ {k} /\ queue' = queue
         \/ queue' = [queue EXCEPT ![k] = "failed"] /\ stored' = stored
  BY DEF Drain
<1>5. Named /\ Pointed
  BY <1>1, <1>2 DEF Named, Pointed, RowsInv
<1>6. Deleted /\ Queued
  BY <1>1, <1>2, <1>3, <1>4 DEF Deleted, Queued, Types
<1>7. Types'
  BY <1>1, <1>2, <1>4 DEF Types
<1>8. RowsOf("scene") \subseteq rows'
  BY <1>2 DEF RowsOf
<1>. QED
  BY <1>2, <1>5, <1>6, <1>7, <1>8, JobKept DEF Tame

-----------------------------------------------------------------------------
(* Uploads.                                                                *)

\* A step of one upload that takes no record of the scene away.
LEMMA OneUpload ==
  ASSUME IInv, NumberedFromOne, Types', Tame, NEW k \in Key, UploadGood(k)',
         \A j \in Key \ {k} : upload'[j] = upload[j], UNCHANGED <<save, lock>>,
         RowsOf("scene") \subseteq rows', scene'.live = scene.live, scene'.doc = scene.doc
  PROVE  IInv'
<1>1. \A j \in Key : UploadGood(j)'
  BY UploadKept
<1>2. \A s \in Saver : SaveGood(s)'
  BY SaveKept
<1>3. ReferencesRecorded'
  BY ReferencesKept
<1>. QED
  BY <1>1, <1>2, <1>3, AllKept

\* What a step of an upload leaves as it was.
LEMMA StepSets ==
  ASSUME IInv, NEW k \in Key, NEW step \in {"discard", "done"}, Step(k, step)
  PROVE  /\ upload' \in [Key -> Uploads] /\ \A j \in Key \ {k} : upload'[j] = upload[j]
         /\ upload'[k].kind = upload[k].kind /\ upload'[k].file = upload[k].file
         /\ upload'[k].step = step
         /\ upload'[k].victim = IF step = "done" THEN NoKey ELSE upload[k].victim
<1>1. upload \in [Key -> Uploads]
  BY Facts DEF Types
<1>2. PICK v : v = IF step = "done" THEN NoKey ELSE upload[k].victim
  OBVIOUS
<1>3. v \in Key \union {NoKey}
  BY <1>1, <1>2 DEF Uploads
<1>4. PICK u \in Uploads : u = [upload[k] EXCEPT !.step = step, !.victim = v]
  BY <1>1, <1>3 DEF Uploads
<1>5. upload' = [upload EXCEPT ![k] = u]
  BY <1>1, <1>2, <1>4 DEF Step
<1>6. /\ u.kind = upload[k].kind /\ u.file = upload[k].file
      /\ u.step = step /\ u.victim = v
  BY <1>1, <1>4 DEF Uploads
<1>. QED
  BY <1>1, <1>2, <1>5, <1>6

\* What an accepted upload adds.
LEMMA StoresSets ==
  ASSUME IInv, NumberedFromOne, NEW k \in Key, NEW kind \in {"scene", "shared", "room", "thumb"},
         NEW f \in File \union {NoFile}, Stores(k, kind, f),
         UNCHANGED <<rows, scene, shared, queue, released>>
  PROVE  /\ upload' \in [Key -> Uploads] /\ \A j \in Key \ {k} : upload'[j] = upload[j]
         /\ upload'[k].kind = kind /\ stored' = stored \union {k}
         /\ upload[k].kind = "unused" /\ UploadGood(k)' /\ Tame
<1>1. Types /\ RowsInv /\ DeadInv
  BY Facts
<1>2. PICK u : u = [kind |-> kind, file |-> f, gen |-> room.gen, step |-> "stored", victim |-> k]
  OBVIOUS
<1>3. u \in Uploads /\ u.kind = kind /\ u.step = "stored" /\ u.victim = k
  <2>1. room.gen \in 0..MaxGen
    <3>1. room.gen \in 1..MaxGen /\ MaxGen \in Nat
      BY <1>1 DEF Types, NumberedFromOne
    <3>. QED
      BY <3>1
  <2>. QED
    BY <1>2, <2>1 DEF Uploads
<1>4. upload' = [upload EXCEPT ![k] = u] /\ stored' = stored \union {k} /\ upload[k] = NoUpload
  BY <1>2 DEF Stores
<1>5. upload[k].kind = "unused" /\ upload[k].step = "none"
  BY <1>4 DEF NoUpload
<1>6. upload'[k] = u /\ upload' \in [Key -> Uploads] /\ \A j \in Key \ {k} : upload'[j] = upload[j]
  BY <1>1, <1>3, <1>4 DEF Types
<1>7. UploadGood(k)'
  BY <1>3, <1>4, <1>6 DEF UploadGood
<1>8. Named /\ Pointed
  BY <1>1, <1>5, <1>6 DEF Named, Pointed, RowsInv
<1>9. Deleted /\ Queued
  BY <1>4, <1>5 DEF Deleted, Queued
<1>. QED
  BY <1>3, <1>4, <1>5, <1>6, <1>7, <1>8, <1>9 DEF Tame

LEMMA UploadStartsKept ==
  ASSUME IInv, NumberedFromOne, NEW k \in Key, NEW kind \in {"room", "shared", "thumb"},
         NEW f \in File \union {NoFile}, UploadStarts(k, kind, f)
  PROVE  IInv'
<1>1. UNCHANGED <<rows, scene, room, shared, lock, save, queue, released>> /\ Stores(k, kind, f)
  BY DEF UploadStarts
<1>2. /\ upload' \in [Key -> Uploads] /\ \A j \in Key \ {k} : upload'[j] = upload[j]
      /\ stored' = stored \union {k} /\ UploadGood(k)' /\ Tame
  BY <1>1, StoresSets
<1>3. Types'
  BY <1>1, <1>2, Facts DEF Types
<1>4. RowsOf("scene") \subseteq rows'
  BY <1>1 DEF RowsOf
<1>. QED
  BY <1>1, <1>2, <1>3, <1>4, OneUpload

LEMMA RecordFileKept ==
  ASSUME IInv, NumberedFromOne, NEW k \in Key, RecordFile(k)
  PROVE  IInv'
<1>1. Types /\ RowsInv /\ UploadGood(k)
  BY Facts
<1>2. UNCHANGED <<stored, scene, room, shared, lock, save, queue, released>>
  BY DEF RecordFile
<1>3. upload[k].step = "stored" /\ upload[k].kind \in {"scene", "shared"}
  BY DEF RecordFile
<1>4. \/ /\ rows' = rows \union {k} /\ Step(k, "done")
         /\ shared = "gone" => upload[k].kind # "shared"
      \/ rows' = rows /\ Step(k, "discard")
  BY <1>3 DEF RecordFile
<1>5. PICK step \in {"discard", "done"} : Step(k, step)
                          /\ (step = "done" => /\ rows' = rows \union {k}
                                               /\ shared = "gone" => upload[k].kind # "shared")
                          /\ (step = "discard" => rows' = rows)
  BY <1>4
<1>6. /\ upload' \in [Key -> Uploads] /\ \A j \in Key \ {k} : upload'[j] = upload[j]
      /\ upload'[k].kind = upload[k].kind /\ upload'[k].file = upload[k].file
      /\ upload'[k].step = step
      /\ upload'[k].victim = IF step = "done" THEN NoKey ELSE upload[k].victim
  BY <1>5, StepSets
<1>7. Named
  BY <1>3, <1>6 DEF Named
<1>8. Pointed
  BY <1>1, <1>2, <1>3, <1>5, <1>6 DEF Pointed, RowsInv
<1>9. Deleted /\ Queued
  BY <1>2 DEF Deleted, Queued
<1>10. UploadGood(k)'
  <2>1. CASE step = "done"
    BY <1>6, <2>1 DEF UploadGood
  <2>2. CASE step = "discard"
    <3>1. upload[k].victim = k /\ k \notin rows /\ scene.thumb # k
      BY <1>1, <1>3, Numbers DEF UploadGood, RowsInv
    <3>2. k \in Dead'
      BY <1>2, <1>5, <1>6, <2>2, <3>1 DEF Dead
    <3>. QED
      BY <1>6, <2>2, <3>1, <3>2 DEF UploadGood
  <2>. QED
    BY <2>1, <2>2
<1>11. Types'
  BY <1>1, <1>2, <1>5, <1>6 DEF Types
<1>12. RowsOf("scene") \subseteq rows'
  BY <1>5 DEF RowsOf
<1>. QED
  BY <1>2, <1>6, <1>7, <1>8, <1>9, <1>10, <1>11, <1>12, OneUpload DEF Tame

LEMMA RecordRoomAssetKept ==
  ASSUME IInv, NumberedFromOne, NEW k \in Key, RecordRoomAsset(k)
  PROVE  IInv'
<1>1. Types /\ RowsInv /\ UploadGood(k)
  BY Facts
<1>2. UNCHANGED <<stored, scene, room, shared, lock, save>>
  BY DEF RecordRoomAsset
<1>3. /\ upload[k].step = "stored" /\ upload[k].kind = "room" /\ k \notin rows
      /\ scene.thumb # k
  BY <1>1, Numbers DEF RecordRoomAsset, RowsInv
<1>4. PICK old \in SUBSET Key : /\ old = Obsolete(upload[k].gen) /\ old \subseteq rows
                                /\ \A r \in old : upload[r].kind = "room"
  <2>1. PICK old : old = Obsolete(upload[k].gen)
    OBVIOUS
  <2>2. old \subseteq rows /\ \A r \in old : upload[r].kind = "room"
    BY <2>1 DEF Obsolete, RowsOf
  <2>3. old \subseteq Key
    BY <1>1, <2>2 DEF Types
  <2>. QED
    BY <2>1, <2>2, <2>3
<1>5. CASE /\ rows' = (rows \ old) \union {k} /\ released' = released \union old
           /\ queue' = [r \in Key |-> IF r \in old THEN "pending" ELSE queue[r]]
           /\ Step(k, "done")
  <2>1. /\ upload' \in [Key -> Uploads] /\ \A j \in Key \ {k} : upload'[j] = upload[j]
        /\ upload'[k].kind = upload[k].kind /\ upload'[k].file = upload[k].file
        /\ upload'[k].step = "done"
    BY <1>5, StepSets
  <2>2. Named /\ Deleted
    BY <1>2, <1>3, <2>1 DEF Named, Deleted
  <2>3. Pointed
    BY <1>1, <1>2, <1>3, <1>5, <2>1 DEF Pointed, RowsInv
  <2>4. old \subseteq Dead'
    <3>1. ASSUME NEW r \in old
          PROVE  upload'[r].step = "done" /\ r \notin rows' /\ scene'.thumb # r
      <4>1. r \in rows /\ upload[r].kind = "room" /\ upload[r].step = "done" /\ r # k
        BY <1>1, <1>3, <1>4 DEF RowsInv
      <4>2. scene.thumb # r
        BY <1>1, <4>1, Numbers DEF RowsInv
      <4>. QED
        BY <1>2, <1>4, <1>5, <2>1, <4>1, <4>2
    <3>. QED
      BY <3>1 DEF Dead
  <2>5. Queued
    BY <1>1, <1>5, <2>4 DEF Queued, Types
  <2>6. UploadGood(k)'
    BY <2>1 DEF UploadGood
  <2>7. Types'
    <3>1. rows' \subseteq Key /\ released' \subseteq Key
          /\ queue' \in [Key -> {"none", "pending", "done", "failed"}]
      BY <1>1, <1>5 DEF Types
    <3>. QED
      BY <1>1, <1>2, <2>1, <3>1 DEF Types
  <2>8. RowsOf("scene") \subseteq rows'
    BY <1>4, <1>5 DEF RowsOf
  <2>. QED
    BY <1>2, <2>1, <2>2, <2>3, <2>5, <2>6, <2>7, <2>8, OneUpload DEF Tame
<1>6. CASE UNCHANGED <<rows, queue, released>> /\ Step(k, "discard")
  <2>1. /\ upload' \in [Key -> Uploads] /\ \A j \in Key \ {k} : upload'[j] = upload[j]
        /\ upload'[k].kind = upload[k].kind /\ upload'[k].file = upload[k].file
        /\ upload'[k].step = "discard" /\ upload'[k].victim = upload[k].victim
    BY <1>6, StepSets
  <2>2. Named /\ Deleted /\ Queued
    BY <1>2, <1>3, <1>6, <2>1 DEF Named, Deleted, Queued
  <2>3. Pointed
    BY <1>1, <1>2, <1>6 DEF Pointed, RowsInv
  <2>4. UploadGood(k)'
    <3>1. k \in Dead'
      BY <1>2, <1>3, <1>6, <2>1 DEF Dead
    <3>. QED
      BY <1>1, <1>3, <2>1, <3>1 DEF UploadGood
  <2>5. Types'
    BY <1>1, <1>2, <1>6, <2>1 DEF Types
  <2>6. RowsOf("scene") \subseteq rows'
    BY <1>6 DEF RowsOf
  <2>. QED
    BY <1>2, <2>1, <2>2, <2>3, <2>4, <2>5, <2>6, OneUpload DEF Tame
<1>. QED
  BY <1>4, <1>5, <1>6 DEF RecordRoomAsset

LEMMA UploadSets ==
  ASSUME IInv, NEW k \in Key, NEW step \in {"swap", "discard", "done"},
         NEW v \in Key \union {NoKey},
         upload' = [upload EXCEPT ![k].step = step, ![k].victim = v]
  PROVE  /\ upload' \in [Key -> Uploads] /\ \A j \in Key \ {k} : upload'[j] = upload[j]
         /\ upload'[k].kind = upload[k].kind /\ upload'[k].file = upload[k].file
         /\ upload'[k].step = step /\ upload'[k].victim = v
<1>1. upload \in [Key -> Uploads]
  BY Facts DEF Types
<1>2. PICK u \in Uploads : u = [upload[k] EXCEPT !.step = step, !.victim = v]
  BY <1>1 DEF Uploads
<1>3. upload' = [upload EXCEPT ![k] = u]
  BY <1>1, <1>2
<1>4. /\ u.kind = upload[k].kind /\ u.file = upload[k].file
      /\ u.step = step /\ u.victim = v
  BY <1>1, <1>2 DEF Uploads
<1>. QED
  BY <1>1, <1>3, <1>4

LEMMA ThumbReadsKept ==
  ASSUME IInv, NumberedFromOne, NEW k \in Key, ThumbReads(k)
  PROVE  IInv'
<1>1. Types /\ RowsInv /\ UploadGood(k)
  BY Facts
<1>2. UNCHANGED <<stored, rows, scene, room, shared, lock, save, queue, released>>
  BY DEF ThumbReads
<1>3. PICK v \in Key \union {NoKey} : v = scene.thumb
  BY <1>1 DEF Types, Scenes
<1>4. upload' = [upload EXCEPT ![k].step = "swap", ![k].victim = v]
  BY <1>3 DEF ThumbReads
<1>5. /\ upload' \in [Key -> Uploads] /\ \A j \in Key \ {k} : upload'[j] = upload[j]
      /\ upload'[k].kind = upload[k].kind /\ upload'[k].file = upload[k].file
      /\ upload'[k].step = "swap"
  BY <1>4, UploadSets
<1>6. upload[k].step = "stored" /\ upload[k].kind = "thumb"
  BY DEF ThumbReads
<1>7. Named /\ Deleted /\ Queued
  BY <1>2, <1>5, <1>6 DEF Named, Deleted, Queued
<1>8. Pointed
  BY <1>1, <1>2 DEF Pointed, RowsInv
<1>9. UploadGood(k)'
  BY <1>1, <1>2, <1>5, <1>6 DEF UploadGood
<1>10. Types'
  BY <1>1, <1>2, <1>5 DEF Types
<1>11. RowsOf("scene") \subseteq rows'
  BY <1>2 DEF RowsOf
<1>. QED
  BY <1>2, <1>5, <1>7, <1>8, <1>9, <1>10, <1>11, OneUpload DEF Tame

\* The thumbnail that loses is pointed to by nothing, whichever of the two it is.
LEMMA ThumbSwapsKept ==
  ASSUME IInv, NumberedFromOne, NEW k \in Key, ThumbSwaps(k)
  PROVE  IInv'
<1>1. Types /\ RowsInv /\ UploadGood(k)
  BY Facts
<1>2. UNCHANGED <<stored, rows, room, shared, lock, save, queue, released>>
  BY DEF ThumbSwaps
<1>3. PICK old \in Key \union {NoKey} : old = upload[k].victim
  BY <1>1 DEF Types, Uploads
<1>4. PICK applied \in BOOLEAN : applied = (scene.live /\ scene.thumb = old)
  OBVIOUS
<1>5. PICK loser \in Key \union {NoKey} : loser = Loser(old, k, applied)
  BY DEF Loser
<1>6. PICK step \in {"discard", "done"} : step = IF loser = NoKey THEN "done" ELSE "discard"
  OBVIOUS
<1>7. /\ scene' = IF applied THEN [scene EXCEPT !.thumb = k] ELSE scene
      /\ upload' = [upload EXCEPT ![k].victim = loser, ![k].step = step]
  BY <1>3, <1>4, <1>5, <1>6 DEF ThumbSwaps
<1>8. upload' = [upload EXCEPT ![k].step = step, ![k].victim = loser]
  BY <1>1, <1>7 DEF Types, Uploads
<1>9. /\ upload' \in [Key -> Uploads] /\ \A j \in Key \ {k} : upload'[j] = upload[j]
      /\ upload'[k].kind = upload[k].kind /\ upload'[k].file = upload[k].file
      /\ upload'[k].step = step /\ upload'[k].victim = loser
  BY <1>8, UploadSets
<1>10. upload[k].step = "swap" /\ upload[k].kind = "thumb" /\ k \notin rows /\ scene.thumb # k
       /\ k # NoKey
  BY <1>1, Numbers DEF ThumbSwaps, UploadGood, RowsInv
<1>11. /\ scene' \in Scenes /\ scene'.live = scene.live /\ scene'.doc = scene.doc
       /\ scene'.thumb = IF applied THEN k ELSE scene.thumb
  BY <1>1, <1>7 DEF Types, Scenes
<1>12. Named /\ Deleted /\ Queued
  BY <1>2, <1>9, <1>10 DEF Named, Deleted, Queued
<1>13. Pointed
  BY <1>1, <1>2, <1>4, <1>9, <1>10, <1>11 DEF Pointed, RowsInv
<1>14. UploadGood(k)'
  <2>1. step = "discard" => loser \in Dead'
    <3>1. CASE applied /\ step = "discard"
      <4>1. loser = scene.thumb /\ loser \in Key
        BY <1>4, <1>5, <1>6, <3>1 DEF Loser
      <4>2. /\ upload[loser].kind = "thumb" /\ upload[loser].step \in {"discard", "done"}
            /\ loser # k
        BY <1>1, <1>10, <4>1, Numbers DEF RowsInv
      <4>3. loser \notin rows
        BY <1>1, <4>2 DEF RowsInv
      <4>. QED
        BY <1>2, <1>9, <1>11, <3>1, <4>1, <4>2, <4>3 DEF Dead
    <3>2. CASE ~applied
      <4>1. loser = k /\ scene'.thumb # k
        BY <1>5, <1>10, <1>11, <3>2 DEF Loser
      <4>. QED
        BY <1>2, <1>9, <1>10, <4>1 DEF Dead
    <3>. QED
      BY <3>1, <3>2
  <2>. QED
    BY <1>9, <2>1 DEF UploadGood
<1>15. Types'
  BY <1>1, <1>2, <1>9, <1>11 DEF Types
<1>16. RowsOf("scene") \subseteq rows'
  BY <1>2 DEF RowsOf
<1>. QED
  BY <1>2, <1>9, <1>11, <1>12, <1>13, <1>14, <1>15, <1>16, OneUpload DEF Tame

LEMMA RecordFailsKept ==
  ASSUME IInv, NumberedFromOne, NEW k \in Key, RecordFails(k)
  PROVE  IInv'
<1>1. Types /\ RowsInv /\ UploadGood(k)
  BY Facts
<1>2. UNCHANGED <<stored, rows, scene, room, shared, lock, save, queue, released>>
  BY DEF RecordFails
<1>3. upload' = [upload EXCEPT ![k].step = "discard", ![k].victim = k]
  BY DEF RecordFails
<1>4. /\ upload' \in [Key -> Uploads] /\ \A j \in Key \ {k} : upload'[j] = upload[j]
      /\ upload'[k].kind = upload[k].kind /\ upload'[k].file = upload[k].file
      /\ upload'[k].step = "discard" /\ upload'[k].victim = k
  BY <1>3, UploadSets
<1>5. upload[k].step \in {"stored", "swap"} /\ k \notin rows /\ scene.thumb # k
  BY <1>1, Numbers DEF RecordFails, RowsInv
<1>6. Named /\ Deleted /\ Queued
  BY <1>2, <1>4, <1>5 DEF Named, Deleted, Queued
<1>7. Pointed
  BY <1>1, <1>2 DEF Pointed, RowsInv
<1>8. UploadGood(k)'
  <2>1. k \in Dead'
    BY <1>2, <1>4, <1>5 DEF Dead
  <2>. QED
    BY <1>4, <2>1 DEF UploadGood
<1>9. Types'
  BY <1>1, <1>2, <1>4 DEF Types
<1>10. RowsOf("scene") \subseteq rows'
  BY <1>2 DEF RowsOf
<1>. QED
  BY <1>2, <1>4, <1>6, <1>7, <1>8, <1>9, <1>10, OneUpload DEF Tame

\* What is discarded is dead, so its object may go or be queued.
LEMMA DiscardKept ==
  ASSUME IInv, NumberedFromOne, NEW k \in Key, Discard(k) \/ UploadDies(k)
  PROVE  IInv'
<1>1. Types /\ RowsInv /\ UploadGood(k)
  BY Facts
<1>2. UNCHANGED <<rows, scene, room, shared, lock, save, released>>
  BY DEF Discard, UploadDies
<1>3. Step(k, "done") /\ upload[k].step \in {"stored", "swap", "discard"}
  BY DEF Discard, UploadDies
<1>4. /\ upload' \in [Key -> Uploads] /\ \A j \in Key \ {k} : upload'[j] = upload[j]
      /\ upload'[k].kind = upload[k].kind /\ upload'[k].file = upload[k].file
      /\ upload'[k].step = "done"
  BY <1>3, StepSets
<1>5. Named
  BY <1>3, <1>4 DEF Named
<1>6. Pointed
  BY <1>1, <1>2 DEF Pointed, RowsInv
<1>7. Dead \subseteq Dead'
  BY <1>5, <1>6, DeadStays
<1>8. \/ stored' = stored /\ queue' = queue
      \/ \E v \in Dead : \/ stored' = stored \ {v} /\ queue' = queue
                         \/ stored' = stored /\ queue' = [queue EXCEPT ![v] = "pending"]
  <2>1. CASE Discard(k)
    <3>1. upload[k].victim \in Dead
      BY <1>1, <2>1 DEF UploadGood, Discard
    <3>. QED
      BY <2>1, <3>1 DEF Discard
  <2>2. CASE UploadDies(k)
    BY <2>2 DEF UploadDies
  <2>. QED
    BY <2>1, <2>2
<1>9. /\ Deleted /\ Queued /\ stored' \subseteq Key
      /\ queue' \in [Key -> {"none", "pending", "done", "failed"}]
  <2>1. CASE stored' = stored /\ queue' = queue
    BY <1>1, <1>2, <2>1 DEF Deleted, Queued, Types
  <2>2. ASSUME NEW v \in Dead, \/ stored' = stored \ {v} /\ queue' = queue
                               \/ stored' = stored /\ queue' = [queue EXCEPT ![v] = "pending"]
        PROVE  /\ Deleted /\ Queued /\ stored' \subseteq Key
               /\ queue' \in [Key -> {"none", "pending", "done", "failed"}]
    BY <1>1, <1>2, <1>7, <2>2 DEF Deleted, Queued, Types
  <2>. QED
    BY <1>8, <2>1, <2>2
<1>10. UploadGood(k)'
  BY <1>4 DEF UploadGood
<1>11. Types'
  BY <1>1, <1>2, <1>4, <1>9 DEF Types
<1>12. RowsOf("scene") \subseteq rows'
  BY <1>2 DEF RowsOf
<1>. QED
  BY <1>2, <1>4, <1>5, <1>6, <1>9, <1>10, <1>11, <1>12, OneUpload DEF Tame

-----------------------------------------------------------------------------
(* Saves.                                                                  *)

\* A step of one save that leaves the document alone, and no record goes that another save
\* counts on.
LEMMA OneSave ==
  ASSUME IInv, NumberedFromOne, Types', Tame, \A k \in Key : UploadGood(k)',
         NEW s \in Saver, SaveGood(s)',
         \A r \in Saver \ {s} : save'[r] = save[r] /\ (lock' = r <=> lock = r),
         \A r \in Saver \ {s} : lock = r => RowsOf("scene") \subseteq rows',
         scene' = scene,
         \A k \in RowsOf("scene") : upload[k].file \in scene.doc => k \in rows'
  PROVE  IInv'
<1>1. \A r \in Saver : SaveGood(r)'
  BY SaveKept
<1>2. ReferencesRecorded'
  BY ReferencesKept
<1>. QED
  BY <1>1, <1>2, AllKept

\* A step of one save that changes nothing but the save and the lock.
LEMMA SaveOnly ==
  ASSUME IInv, NumberedFromOne, NEW s \in Saver, NEW r \in Saves, SetSave(s, r),
         lock' \in Saver \union {Free}, \A q \in Saver \ {s} : lock' = q <=> lock = q,
         UNCHANGED <<stored, rows, upload, scene, room, shared, queue, released>>,
         r.step \in {"locked", "checked"} <=> lock' = s,
         r.step = "checked" => r.want \subseteq Recorded,
         r.step # "sweep", r.keys \subseteq save[s].keys
  PROVE  IInv'
<1>1. Types /\ RowsInv /\ SaveGood(s)
  BY Facts
<1>2. save' = [save EXCEPT ![s] = r]
  BY DEF SetSave
<1>3. /\ save' \in [Saver -> Saves] /\ save'[s] = r
      /\ \A q \in Saver \ {s} : save'[q] = save[q]
  BY <1>1, <1>2 DEF Types
<1>4. Types'
  BY <1>1, <1>3 DEF Types
<1>5. Tame
  BY <1>1 DEF Tame, Named, Deleted, Queued, Pointed, RowsInv
<1>6. \A k \in Key : UploadGood(k)'
  BY <1>5, UploadKept
<1>7. SaveGood(s)'
  <2>1. Recorded' = Recorded
    BY DEF Recorded, RowsOf
  <2>2. \A k \in r.keys : upload'[k].kind = "scene"
    BY <1>1 DEF SaveGood
  <2>. QED
    BY <1>3, <2>1, <2>2 DEF SaveGood
<1>8. RowsOf("scene") \subseteq rows'
  BY DEF RowsOf
<1>. QED
  BY <1>3, <1>4, <1>5, <1>6, <1>7, <1>8, OneSave

LEMMA SaveFacts ==
  ASSUME IInv, NEW s \in Saver
  PROVE  /\ SaveGood(s) /\ save[s] \in Saves /\ lock \in Saver \union {Free}
         /\ NoSave \in Saves /\ NoSave.step = "none" /\ NoSave.keys = {}
         /\ Aborted(s) \in Saves /\ Aborted(s).step = "abort" /\ Aborted(s).keys = save[s].keys
<1>1. save[s] \in Saves /\ SaveGood(s) /\ lock \in Saver \union {Free}
  BY Facts DEF Types
<1>2. NoSave \in Saves /\ NoSave.step = "none" /\ NoSave.keys = {}
  BY DEF NoSave, Saves
<1>3. PICK keys \in SUBSET Key : keys = save[s].keys
  BY <1>1 DEF Saves
<1>4. Aborted(s) = [NoSave EXCEPT !.step = "abort", !.keys = keys]
  BY <1>3 DEF Aborted
<1>5. Aborted(s) \in Saves /\ Aborted(s).step = "abort" /\ Aborted(s).keys = keys
  BY <1>2, <1>4 DEF Saves
<1>. QED
  BY <1>1, <1>2, <1>3, <1>5

LEMMA SaveStartsKept ==
  ASSUME IInv, NumberedFromOne, NEW s \in Saver, NEW want \in SUBSET File, SaveStarts(s, want)
  PROVE  IInv'
<1>1. save[s] = NoSave /\ UNCHANGED <<stored, rows, upload, scene, room, shared, lock, queue, released>>
  BY DEF SaveStarts
<1>2. PICK need \in SUBSET File : need = want \ Recorded
  OBVIOUS
<1>3. PICK r : r = [NoSave EXCEPT !.step = "upload", !.want = want, !.need = need]
  OBVIOUS
<1>4. r \in Saves /\ r.step = "upload" /\ r.keys = {}
  BY <1>3, SaveFacts DEF Saves, NoSave
<1>5. SetSave(s, r)
  BY <1>2, <1>3 DEF SaveStarts
<1>6. lock # s /\ lock \in Saver \union {Free}
  BY <1>1, SaveFacts DEF SaveGood
<1>. QED
  BY <1>1, <1>4, <1>5, <1>6, SaveOnly

LEMMA SaveLocksKept ==
  ASSUME IInv, NumberedFromOne, NEW s \in Saver, SaveLocks(s)
  PROVE  IInv'
<1>1. /\ UNCHANGED <<stored, rows, upload, scene, room, shared, queue, released>>
      /\ lock = Free /\ save[s] \in Saves
  BY SaveFacts DEF SaveLocks
<1>2. PICK r : r = [save[s] EXCEPT !.step = "locked"]
  OBVIOUS
<1>3. r \in Saves /\ r.step = "locked" /\ r.keys = save[s].keys
  BY <1>1, <1>2 DEF Saves
<1>4. CASE lock' = s /\ SetSave(s, r)
  BY <1>1, <1>3, <1>4, Numbers, SaveOnly
<1>5. CASE lock' = lock /\ SetSave(s, Aborted(s))
  BY <1>1, <1>5, SaveFacts, Numbers, SaveOnly
<1>. QED
  BY <1>2, <1>4, <1>5 DEF SaveLocks

LEMMA SaveChecksKept ==
  ASSUME IInv, NumberedFromOne, NEW s \in Saver, SaveChecks(s)
  PROVE  IInv'
<1>1. /\ UNCHANGED <<stored, rows, upload, scene, room, shared, queue, released>>
      /\ lock = s /\ save[s] \in Saves
  BY SaveFacts DEF SaveChecks, SaveGood
<1>2. CASE save[s].want \subseteq Recorded
  <2>1. PICK r : r = [save[s] EXCEPT !.step = "checked"]
    OBVIOUS
  <2>2. r \in Saves /\ r.step = "checked" /\ r.keys = save[s].keys /\ r.want = save[s].want
    BY <1>1, <2>1 DEF Saves
  <2>3. lock' = lock /\ SetSave(s, r)
    BY <1>2, <2>1 DEF SaveChecks
  <2>. QED
    BY <1>1, <1>2, <2>2, <2>3, SaveOnly
<1>3. CASE ~(save[s].want \subseteq Recorded) /\ save[s].retried
  <2>1. lock' = Free /\ SetSave(s, Aborted(s))
    BY <1>3 DEF SaveChecks
  <2>. QED
    BY <1>1, <2>1, SaveFacts, Numbers, SaveOnly
<1>4. CASE ~(save[s].want \subseteq Recorded) /\ ~save[s].retried
  <2>1. PICK need \in SUBSET File : need = save[s].want \ Recorded
    BY <1>1 DEF Saves
  <2>2. PICK r : r = [save[s] EXCEPT !.step = "upload", !.retried = TRUE, !.need = need]
    OBVIOUS
  <2>3. r \in Saves /\ r.step = "upload" /\ r.keys = save[s].keys
    BY <1>1, <2>2 DEF Saves
  <2>4. lock' = Free /\ SetSave(s, r)
    BY <1>4, <2>1, <2>2 DEF SaveChecks
  <2>. QED
    BY <1>1, <2>3, <2>4, Numbers, SaveOnly
<1>. QED
  BY <1>2, <1>3, <1>4

LEMMA SaveFailsKept ==
  ASSUME IInv, NumberedFromOne, NEW s \in Saver, SaveFails(s) \/ SaveEnds(s)
  PROVE  IInv'
<1>1. UNCHANGED <<stored, rows, upload, scene, room, shared, queue, released>>
  BY DEF SaveFails, SaveEnds
<1>2. CASE SaveFails(s)
  <2>1. lock' = (IF lock = s THEN Free ELSE lock) /\ SetSave(s, Aborted(s))
    BY <1>2 DEF SaveFails
  <2>. QED
    BY <1>1, <2>1, SaveFacts, Numbers, SaveOnly
<1>3. CASE SaveEnds(s)
  <2>1. lock' = lock /\ SetSave(s, NoSave) /\ save[s].step \in {"abort", "sweep"}
    BY <1>3 DEF SaveEnds
  <2>2. lock # s
    BY <2>1, SaveFacts DEF SaveGood
  <2>. QED
    BY <1>1, <2>1, <2>2, SaveFacts, SaveOnly
<1>. QED
  BY <1>2, <1>3

LEMMA SaveUploadsKept ==
  ASSUME IInv, NumberedFromOne, NEW s \in Saver, NEW k \in Key, SaveUploads(s, k)
  PROVE  IInv'
<1>1. /\ UNCHANGED <<rows, scene, room, shared, lock, queue, released>>
      /\ save[s] \in Saves /\ save[s].step = "upload" /\ lock # s /\ SaveGood(s)
  BY SaveFacts DEF SaveUploads, SaveGood
<1>2. PICK f \in save[s].need :
        /\ Stores(k, "scene", f)
        /\ SetSave(s, [save[s] EXCEPT !.need = @ \ {f}, !.keys = @ \union {k}])
  BY DEF SaveUploads
<1>3. f \in File \union {NoFile}
  BY <1>1 DEF Saves
<1>4. PICK need \in SUBSET File, keys \in SUBSET Key :
        need = save[s].need \ {f} /\ keys = save[s].keys \union {k}
  <2>1. save[s].need \ {f} \in SUBSET File /\ save[s].keys \union {k} \in SUBSET Key
    BY <1>1 DEF Saves
  <2>. QED
    BY <2>1
<1>5. PICK r : r = [save[s] EXCEPT !.need = need, !.keys = keys]
  OBVIOUS
<1>6. r \in Saves /\ r.step = "upload" /\ r.keys = keys
  BY <1>1, <1>5 DEF Saves
<1>7. SetSave(s, r)
  BY <1>1, <1>2, <1>4, <1>5 DEF Saves
<1>8. /\ save' \in [Saver -> Saves] /\ save'[s] = r
      /\ \A q \in Saver \ {s} : save'[q] = save[q]
  BY <1>6, <1>7, Facts DEF SetSave, Types
<1>9. /\ upload' \in [Key -> Uploads] /\ \A j \in Key \ {k} : upload'[j] = upload[j]
      /\ upload'[k].kind = "scene" /\ stored' = stored \union {k}
      /\ UploadGood(k)' /\ Tame
  BY <1>1, <1>2, <1>3, StoresSets
<1>10. Types'
  BY <1>1, <1>8, <1>9, Facts DEF Types
<1>11. \A j \in Key : UploadGood(j)'
  BY <1>9, UploadKept
<1>12. SaveGood(s)'
  <2>1. \A j \in keys : upload'[j].kind = "scene"
    BY <1>1, <1>4, <1>9 DEF SaveGood, Saves
  <2>. QED
    BY <1>1, <1>6, <1>8, <2>1 DEF SaveGood
<1>13. RowsOf("scene") \subseteq rows'
  BY <1>1 DEF RowsOf
<1>. QED
  BY <1>1, <1>8, <1>9, <1>10, <1>11, <1>12, <1>13, OneSave

\* The commit stores the document that was checked under the lock.
LEMMA SaveCommitsKept ==
  ASSUME IInv, NumberedFromOne, NEW s \in Saver, SaveCommits(s)
  PROVE  IInv'
<1>1. Types /\ RowsInv /\ SaveGood(s) /\ save[s] \in Saves
  BY Facts, SaveFacts
<1>2. UNCHANGED <<stored, rows, upload, room, shared, queue, released>> /\ lock' = Free
  BY DEF SaveCommits
<1>3. lock = s /\ save[s].want \subseteq Recorded
  BY <1>1 DEF SaveCommits, SaveGood
<1>4. PICK want \in SUBSET File : want = save[s].want
  BY <1>1 DEF Saves
<1>5. /\ scene' \in Scenes /\ scene'.live = scene.live /\ scene'.doc = want
      /\ scene'.thumb = scene.thumb
  BY <1>1, <1>4 DEF SaveCommits, Types, Scenes
<1>6. /\ save' = [x \in Saver |-> IF x = s THEN NoSave
                              ELSE [save[x] EXCEPT !.stale = @ \/ save[x].step = "upload"]]
  BY DEF SaveCommits
<1>7. ASSUME NEW q \in Saver \ {s}
      PROVE  /\ save'[q] \in Saves /\ save'[q].step = save[q].step
             /\ save'[q].want = save[q].want /\ save'[q].keys = save[q].keys
  <2>1. save[q] \in Saves
    BY SaveFacts
  <2>2. PICK stale \in BOOLEAN : stale = (save[q].stale \/ save[q].step = "upload")
    BY <2>1 DEF Saves
  <2>3. save'[q] = [save[q] EXCEPT !.stale = stale]
    BY <1>6, <2>2
  <2>. QED
    BY <2>1, <2>3 DEF Saves
<1>8. save'[s] = NoSave
  BY <1>6
<1>9. save' \in [Saver -> Saves]
  <2>1. \A q \in Saver : save'[q] \in Saves
    BY <1>7, <1>8, SaveFacts
  <2>. QED
    BY <1>6, <2>1
<1>10. Types'
  BY <1>1, <1>2, <1>5, <1>9 DEF Types
<1>11. Tame
  BY <1>1, <1>2, <1>5 DEF Tame, Named, Deleted, Queued, Pointed, RowsInv
<1>12. \A k \in Key : UploadGood(k)'
  BY <1>2, <1>11, UploadKept
<1>13. \A q \in Saver : SaveGood(q)'
  <2>1. ASSUME NEW q \in Saver \ {s}
        PROVE  SaveGood(q)'
    BY <1>2, <1>3, <1>7, <1>11, Numbers, SaveKept
  <2>2. SaveGood(s)'
    BY <1>2, <1>8, SaveFacts, Numbers DEF SaveGood
  <2>. QED
    BY <2>1, <2>2
<1>14. ReferencesRecorded'
  <2>1. Recorded' = Recorded
    BY <1>2 DEF Recorded, RowsOf
  <2>. QED
    BY <1>3, <1>4, <1>5, <2>1 DEF ReferencesRecorded
<1>. QED
  BY <1>10, <1>11, <1>12, <1>13, <1>14, AllKept

\* The cleanup of an aborted save takes what the document does not reference, and its own.
LEMMA CleanupPlansKept ==
  ASSUME IInv, NumberedFromOne, NEW s \in Saver, CleanupPlans(s)
  PROVE  IInv'
<1>1. Types /\ RowsInv /\ SaveGood(s) /\ save[s] \in Saves /\ NoSave \in Saves
  BY Facts, SaveFacts
<1>2. /\ UNCHANGED <<stored, upload, scene, room, shared, lock, queue, released>>
      /\ lock = Free /\ save[s].step = "abort"
      /\ \A k \in save[s].keys : upload[k].step = "done"
  BY DEF CleanupPlans
<1>3. CASE rows' = rows /\ SetSave(s, NoSave)
  BY <1>1, <1>2, <1>3, SaveFacts, Numbers, SaveOnly
<1>4. CASE /\ rows' = rows \ Deletable(save[s].keys)
           /\ SetSave(s, [NoSave EXCEPT !.step = "sweep", !.keys = Deletable(save[s].keys)])
  <2>1. PICK keys \in SUBSET Key : /\ keys = Deletable(save[s].keys) /\ keys \subseteq save[s].keys
                                   /\ \A k \in keys : k \in rows => upload[k].file \notin scene.doc
    <3>1. PICK keys : keys = Deletable(save[s].keys)
      OBVIOUS
    <3>2. keys \subseteq save[s].keys /\ \A k \in keys : k \in rows => upload[k].file \notin scene.doc
      BY <3>1 DEF Deletable
    <3>3. keys \in SUBSET Key
      BY <1>1, <3>2 DEF Saves
    <3>. QED
      BY <3>1, <3>2, <3>3
  <2>2. PICK r : r = [NoSave EXCEPT !.step = "sweep", !.keys = keys]
    OBVIOUS
  <2>3. r \in Saves /\ r.step = "sweep" /\ r.keys = keys
    BY <1>1, <2>2 DEF Saves, NoSave
  <2>4. /\ save' \in [Saver -> Saves] /\ save'[s] = r
        /\ \A q \in Saver \ {s} : save'[q] = save[q]
    BY <1>1, <1>4, <2>1, <2>2, <2>3 DEF SetSave, Types
  <2>5. rows' = rows \ keys
    BY <1>4, <2>1
  <2>6. Types'
    BY <1>1, <1>2, <2>4, <2>5 DEF Types
  <2>7. Tame
    BY <1>1, <1>2, <2>5 DEF Tame, Named, Deleted, Queued, Pointed, RowsInv
  <2>8. \A k \in Key : UploadGood(k)'
    BY <1>2, <2>7, UploadKept
  <2>9. keys \subseteq Dead'
    <3>1. ASSUME NEW k \in keys
          PROVE  upload'[k].step = "done" /\ k \notin rows' /\ scene'.thumb # k
      <4>1. upload[k].kind = "scene" /\ upload[k].step = "done"
        BY <1>1, <1>2, <2>1 DEF SaveGood
      <4>. QED
        BY <1>1, <1>2, <2>5, <4>1, Numbers DEF RowsInv
    <3>. QED
      BY <3>1 DEF Dead
  <2>10. SaveGood(s)'
    <3>1. \A k \in keys : upload'[k].kind = "scene"
      BY <1>1, <1>2, <2>1 DEF SaveGood
    <3>. QED
      BY <1>2, <2>3, <2>4, <2>9, <3>1, Numbers DEF SaveGood
  <2>11. \A k \in RowsOf("scene") : upload[k].file \in scene.doc => k \in rows'
    BY <2>1, <2>5 DEF RowsOf
  <2>12. \A q \in Saver \ {s} : lock # q /\ lock' = lock
    BY <1>2, Numbers
  <2>. QED
    BY <1>2, <2>4, <2>6, <2>7, <2>8, <2>10, <2>11, <2>12, OneSave
<1>. QED
  BY <1>3, <1>4 DEF CleanupPlans

LEMMA CleanupDeletesKept ==
  ASSUME IInv, NumberedFromOne, NEW s \in Saver, NEW k \in Key, CleanupDeletes(s, k)
  PROVE  IInv'
<1>1. Types /\ RowsInv /\ SaveGood(s) /\ save[s] \in Saves
  BY Facts, SaveFacts
<1>2. UNCHANGED <<rows, upload, scene, room, shared, lock, released>>
      /\ save[s].step = "sweep" /\ k \in save[s].keys
  BY DEF CleanupDeletes
<1>3. k \in Dead /\ save[s].keys \subseteq Dead /\ lock # s
  BY <1>1, <1>2 DEF SaveGood
<1>4. \/ stored' = stored \ {k} /\ queue' = queue
      \/ queue' = [queue EXCEPT ![k] = "pending"] /\ stored' = stored
  BY DEF CleanupDeletes
<1>5. PICK keys \in SUBSET Key : keys = save[s].keys \ {k}
  BY <1>1 DEF Saves
<1>6. PICK r : r = [save[s] EXCEPT !.keys = keys]
  OBVIOUS
<1>7. r \in Saves /\ r.step = "sweep" /\ r.keys = keys
  BY <1>1, <1>2, <1>6 DEF Saves
<1>8. SetSave(s, r)
  BY <1>5, <1>6 DEF CleanupDeletes
<1>9. /\ save' \in [Saver -> Saves] /\ save'[s] = r
      /\ \A q \in Saver \ {s} : save'[q] = save[q]
  BY <1>1, <1>7, <1>8 DEF SetSave, Types
<1>10. Named /\ Pointed
  BY <1>1, <1>2 DEF Named, Pointed, RowsInv
<1>11. Dead' = Dead
  BY <1>2 DEF Dead
<1>12. Deleted /\ Queued
  BY <1>1, <1>2, <1>3, <1>4, <1>11 DEF Deleted, Queued, Types
<1>13. Types'
  <2>1. stored' \subseteq Key /\ queue' \in [Key -> {"none", "pending", "done", "failed"}]
    BY <1>1, <1>4 DEF Types
  <2>. QED
    BY <1>1, <1>2, <1>9, <2>1 DEF Types
<1>14. \A j \in Key : UploadGood(j)'
  BY <1>2, <1>10, <1>12, UploadKept DEF Tame
<1>15. SaveGood(s)'
  <2>1. \A j \in keys : upload'[j].kind = "scene"
    BY <1>1, <1>2, <1>5 DEF SaveGood
  <2>. QED
    BY <1>2, <1>3, <1>5, <1>7, <1>9, <1>11, <2>1 DEF SaveGood
<1>16. RowsOf("scene") \subseteq rows'
  BY <1>2 DEF RowsOf
<1>. QED
  BY <1>2, <1>9, <1>10, <1>12, <1>13, <1>14, <1>15, <1>16, OneSave DEF Tame

-----------------------------------------------------------------------------
(* The invariant.                                                          *)

LEMMA IInvInit ==
  ASSUME NumberedFromOne, Init
  PROVE  IInv
<1>1. NoUpload \in Uploads /\ NoUpload.step = "none"
  <2>1. 0 \in 0..MaxGen
    BY DEF NumberedFromOne
  <2>. QED
    BY <2>1 DEF NoUpload, Uploads
<1>2. NoSave \in Saves /\ NoSave.step = "none" /\ NoSave.keys = {}
  BY DEF NoSave, Saves
<1>3. /\ stored = {} /\ rows = {} /\ released = {} /\ upload = [k \in Key |-> NoUpload]
      /\ shared \in {"live", "gone"} /\ lock = Free /\ save = [s \in Saver |-> NoSave]
      /\ queue = [k \in Key |-> "none"]
  BY DEF Init
<1>4. scene \in Scenes /\ scene.thumb = NoKey /\ scene.doc = {}
  <2>1. scene \in [live : BOOLEAN, doc : {{}}, thumb : {NoKey}]
    BY DEF Init
  <2>. QED
    BY <2>1 DEF Scenes
<1>5. room \in [open : BOOLEAN, gen : 1..MaxGen]
  <2>1. room \in [open : {FALSE, scene.live}, gen : {1}]
    BY DEF Init
  <2>2. 1 \in 1..MaxGen
    BY DEF NumberedFromOne
  <2>3. scene.live \in BOOLEAN
    BY <1>4 DEF Scenes
  <2>. QED
    BY <2>1, <2>2, <2>3
<1>6. Types
  BY <1>1, <1>2, <1>3, <1>4, <1>5 DEF Types
<1>7. RowsInv /\ DeadInv
  BY <1>3, <1>4 DEF RowsInv, DeadInv
<1>8. \A k \in Key : UploadGood(k)
  BY <1>1, <1>3 DEF UploadGood
<1>9. \A s \in Saver : SaveGood(s)
  BY <1>2, <1>3, Numbers DEF SaveGood
<1>10. PointersHaveBytes /\ ReferencesRecorded /\ ReleasedAccounted
  BY <1>3, <1>4 DEF PointersHaveBytes, Referenced, Thumb, ReferencesRecorded, ReleasedAccounted
<1>. QED
  BY <1>6, <1>7, <1>8, <1>9, <1>10, TypesSame DEF IInv

LEMMA IInvStep ==
  ASSUME IInv, NumberedFromOne, [Next]_storageVars
  PROVE  IInv'
<1>1. CASE UNCHANGED storageVars
  <2>1. UNCHANGED <<stored, rows, upload, scene, room, shared, lock, save, queue, released>>
    BY <1>1 DEF storageVars
  <2>2. Types' /\ Tame /\ RowsOf("scene") \subseteq rows'
    BY <2>1, Facts DEF Types, Tame, Named, Deleted, Queued, Pointed, RowsInv, RowsOf
  <2>. QED
    BY <2>1, <2>2, JobKept
<1>2. ASSUME NEW k \in Key,
             \/ \E kind \in {"room", "shared", "thumb"}, f \in File \union {NoFile} :
                  UploadStarts(k, kind, f)
             \/ RecordFile(k) \/ RecordRoomAsset(k) \/ ThumbReads(k) \/ ThumbSwaps(k)
             \/ RecordFails(k) \/ Discard(k) \/ UploadDies(k)
             \/ CollectGarbage(k) \/ Drain(k)
      PROVE  IInv'
  BY <1>2, UploadStartsKept, RecordFileKept, RecordRoomAssetKept, ThumbReadsKept, ThumbSwapsKept,
     RecordFailsKept, DiscardKept, CollectGarbageKept, DrainKept
<1>3. ASSUME NEW s \in Saver,
             \/ \E want \in SUBSET File : SaveStarts(s, want)
             \/ \E k \in Key : SaveUploads(s, k) \/ CleanupDeletes(s, k)
             \/ SaveLocks(s) \/ SaveChecks(s) \/ SaveCommits(s) \/ SaveFails(s)
             \/ CleanupPlans(s) \/ SaveEnds(s)
      PROVE  IInv'
  BY <1>3, SaveStartsKept, SaveUploadsKept, CleanupDeletesKept, SaveLocksKept, SaveChecksKept,
     SaveCommitsKept, SaveFailsKept, CleanupPlansKept
<1>4. CASE \/ DeleteScene \/ DeleteUser \/ RetainRoom \/ RotateRoom
           \/ ExpireShared \/ RollbackDeletes \/ RollbackEnds
  BY <1>4, DeleteKept, RetainRoomKept, RotateRoomKept, ExpireSharedKept, RollbackKept
<1>. QED
  BY <1>1, <1>2, <1>3, <1>4 DEF Next

\* What uploads, saves, jobs and the queue may count on, for any number of keys, files, tabs
\* and generations.
THEOREM Inductive ==
  ASSUME NumberedFromOne
  PROVE  Spec => []IInv
<1>1. Init => IInv
  BY IInvInit
<1>2. IInv /\ [Next]_storageVars => IInv'
  BY IInvStep
<1>. QED
  BY <1>1, <1>2, PTL DEF Spec

-----------------------------------------------------------------------------
(* What it gives.                                                          *)

\* Type correctness of the rows, the objects and the saves.
THEOREM TypeCorrect ==
  ASSUME NumberedFromOne
  PROVE  Spec => []TypeOK
<1>1. IInv => TypeOK
  BY DEF IInv
<1>. QED
  BY <1>1, Inductive, PTL

\* A key that a row or the thumbnail points to has its object, the stored document references
\* no image without a record, and what was released is gone from storage or in the queue
\* (reclaim.ts:134), through every interleaving of uploads, saves, jobs and crashes.
THEOREM StorageKept ==
  ASSUME NumberedFromOne
  PROVE  Spec => []StorageSound
<1>1. IInv => StorageSound
  BY DEF IInv, StorageSound
<1>. QED
  BY <1>1, Inductive, PTL
=============================================================================
