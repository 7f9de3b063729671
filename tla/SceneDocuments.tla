---------------------------- MODULE SceneDocuments ----------------------------
(* A scene as a document: what a canvas is written as, what the server      *)
(* accepts, and what each of its readers makes of it: the owner's editor,   *)
(* a shared link, the published page, and the server that looks which       *)
(* images are still needed.                                                 *)
EXTENDS Containers, FiniteSets

CONSTANTS Element,            \* the elements of a canvas
          FileOf,             \* of the elements that are images, the file they show
          Name,               \* the names of scenes
          MaxStored,          \* SCENE_DATA_MAX_LENGTH, in cells
          MaxInflated         \* the most the guard inflates

VARIABLES row,                \* the row of the owner's scene
          share,              \* the row of a shared copy
          object,             \* per file, the payload stored under its record
          read                \* the last read
vars == <<row, share, object, read>>

FileId == {FileOf[e] : e \in DOMAIN FileOf}
Untitled == "Untitled"
ContractKeys == {"grid"}
Keys == ContractKeys \cup {"theme"}
NoLimit == 100
ShareKey == "k"
Nothing == [state |-> "none"]

(* A canvas: its elements, the images it has the bytes of, the name and the *)
(* settings of its state.                                                   *)
Canvas == [elements : [Element -> {"absent", "live", "deleted"}],
           files : [FileId -> {"none", "small", "big"}], name : {"", "n"}, keys : {Keys}]
Present(canvas) == {e \in Element : canvas.elements[e] # "absent"}
Live(canvas) == {e \in Element : canvas.elements[e] = "live"}
Native(canvas, es) == [e \in es |-> [deleted |-> canvas.elements[e] = "deleted", native |-> TRUE]]

(* createDrawstuffDocumentV4, serializeDrawstuffDocumentV4.                 *)
Normalized(name) == IF name = "" THEN Untitled ELSE name
Contracted(keys) == keys \cap ContractKeys
AssetEntries(canvas) == {f \in FileId : canvas.files[f] # "none"}
Document(canvas, profile) ==
  [format |-> "v4",
   elements |-> Native(canvas, IF profile = "owned" THEN Present(canvas) ELSE Live(canvas)),
   keys |-> Contracted(canvas.keys),
   assets |-> IF profile = "owned" THEN AssetEntries(canvas) ELSE {},
   name |-> Normalized(canvas.name)]
Text(document) == Cells("json", 1 + Cardinality(DOMAIN document.elements), document)

(* parseDrawstuffDocument: V4 in its canonical shape, V3 refused, what has  *)
(* elements taken for an export of the editor.                              *)
IsV4(payload) == payload.format = "v4"
IsV3(payload) == payload.format = "v3"
Parses(payload) == IsV4(payload) \/ (~IsV3(payload) /\ payload.format = "legacy")
Canonical(payload) ==
  [payload EXCEPT !.format = "v4", !.keys = Contracted(@),
                  !.assets = IF IsV4(payload) THEN @ ELSE {},
                  !.name = IF IsV4(payload) THEN @ ELSE Normalized(@)]

(* extractImageFiles: the images of live elements the canvas has bytes of;  *)
(* one that is too big fails the whole preparation.                         *)
Images(canvas) == {FileOf[e] : e \in Live(canvas) \cap DOMAIN FileOf} \cap AssetEntries(canvas)
Fits(canvas) == \A f \in Images(canvas) : canvas.files[f] = "small"
ImagePayload(f, key) == Pack(f, Cells("text", 1, f), key, 1)

(* validateOpaqueV4Write, validateStoredV4Write.                            *)
OpaqueVerdict(bytes) == IF Len(bytes) > MaxStored THEN "too-large" ELSE "safe"
Verdict(bytes) ==
  IF Len(bytes) > MaxStored THEN "too-large"
  ELSE LET got == Unpack(bytes, "", MaxInflated)
       IN  IF ~got.ok THEN got.why
           ELSE IF ~IsV4(got.contents[1].value) THEN "stale-version"
           ELSE IF Parses(got.contents[1].value) THEN "safe" ELSE "invalid"

NeverRead == [by |-> "none"]
(* A row may be of an earlier release: an export of the editor, without the *)
(* fields the engine needs now, or a retired whiteboard.                    *)
Older(format) ==
  [format |-> format, elements |-> [e \in Element |-> [deleted |-> FALSE, native |-> FALSE]],
   keys |-> Keys, assets |-> {}, name |-> ""]
Init ==
  /\ row \in {Nothing} \cup {[state |-> "stored", by |-> format, name |-> CHOOSE n \in Name : TRUE,
                              elements |-> Older(format).elements, needs |-> FileId,
                              bytes |-> Pack("null", Text(Older(format)), NoKey, 1)] : format \in {"legacy", "v3"}}
  /\ share = Nothing
  /\ object = [f \in FileId |-> <<>>]
  /\ read = NeverRead

(* prepareSceneDataForExport without a key, saveOwnedScene: the content may *)
(* shrink to any number of cells.                                           *)
Accepted(canvas, bytes) == Fits(canvas) /\ Verdict(bytes) = "safe"
Save(canvas, name, cells) ==
  LET document == Document(canvas, "owned")
      bytes == Pack("null", Text(document), NoKey, cells)
  IN  /\ cells <= Len(Text(document)) /\ Accepted(canvas, bytes)
      /\ row' = [state |-> "stored", by |-> "v4", name |-> name, elements |-> document.elements,
                 needs |-> {FileOf[e] : e \in Live(canvas) \cap DOMAIN FileOf}, bytes |-> bytes]
      /\ object' = [f \in FileId |-> IF f \in Images(canvas) THEN ImagePayload(f, NoKey) ELSE <<>>]
      /\ UNCHANGED <<share, read>>

(* The same with a key and without deleted elements; handleSceneSave.       *)
Share(canvas, cells) ==
  LET document == Document(canvas, "share")
      bytes == Pack("null", Text(document), ShareKey, cells)
  IN  /\ cells <= Len(Text(document)) /\ Fits(canvas) /\ OpaqueVerdict(bytes) = "safe"
      /\ share' = [state |-> "stored", elements |-> document.elements, bytes |-> bytes]
      /\ object' = [f \in FileId |-> IF f \in Images(canvas) THEN ImagePayload(f, ShareKey) ELSE <<>>]
      /\ UNCHANGED <<row, read>>

Rename(name) ==
  /\ row.state = "stored" /\ row.by = "v4" /\ row.name # name
  /\ row' = [row EXCEPT !.name = name] /\ read' = NeverRead /\ UNCHANGED <<share, object>>

(* The storage returns less of an object, or that of another one.           *)
Cut(f) ==
  /\ object[f] # <<>>
  /\ \E n \in 0..Len(object[f]) - 1 : object' = [object EXCEPT ![f] = SubSeq(@, 1, n)]
  /\ UNCHANGED <<row, share, read>>
Misfile(f, g) ==
  /\ f # g /\ object[g] # <<>> /\ object' = [object EXCEPT ![f] = object[g]]
  /\ UNCHANGED <<row, share, read>>

(* decodePersistedScene: parsed, native, restored.                          *)
Restored(elements) == [e \in DOMAIN elements |-> [elements[e] EXCEPT !.native = TRUE]]
Decoded(bytes, key) ==
  LET got == Unpack(bytes, key, NoLimit)
  IN  IF got.ok /\ Parses(got.contents[1].value)
      THEN LET document == Canonical(got.contents[1].value)
           IN  [ok |-> TRUE, elements |-> Restored(document.elements),
                keys |-> document.keys, name |-> document.name]
      ELSE [ok |-> FALSE]

(* importSceneFilesFromRecords: what opens, under its own identity.         *)
\* Mutation: whatever opens is injected.
FilesAny(key) == {f \in FileId : Unpack(object[f], key, NoLimit).ok}

Files(key) ==
  {f \in FileId : LET got == Unpack(object[f], key, NoLimit) IN got.ok /\ got.metadata = f}
(* The bytes the readers show under the record of f.                        *)
Shown(key) == [f \in Files(key) |-> Unpack(object[f], key, NoLimit).contents[1].value]

Keep(reader, scene, key) ==
  read' = [by |-> reader, scene |-> scene, files |-> Shown(key)]

(* importSceneDataBySceneId: the name of the row is the authority.          *)
OwnerLoads ==
  LET scene == Decoded(row.bytes, "") IN
  /\ row.state = "stored" /\ UNCHANGED <<row, share, object>>
  /\ Keep("owner", IF scene.ok THEN [scene EXCEPT !.name = row.name] ELSE scene, "")
(* importDataFromBackend, with the key of the link or another.              *)
LinkLoads(key) ==
  /\ share.state = "stored" /\ UNCHANGED <<row, share, object>>
  /\ Keep("link", Decoded(share.bytes, key), key)
(* The published page shows what is not deleted.                            *)
PageLoads ==
  LET scene == Decoded(row.bytes, "")
      shown == {e \in DOMAIN scene.elements : ~scene.elements[e].deleted} IN
  /\ row.state = "stored" /\ UNCHANGED <<row, share, object>>
  /\ Keep("page", IF scene.ok THEN [scene EXCEPT !.elements = [e \in shown |-> @[e]]] ELSE scene, "")
(* readReferencedSceneAssetIds: no answer when the document is unreadable.  *)
ServerReads ==
  LET got == Unpack(row.bytes, "", NoLimit)
      payload == got.contents[1].value
      needed == {e \in DOMAIN FileOf \cap DOMAIN payload.elements : ~payload.elements[e].deleted} IN
  /\ row.state = "stored" /\ UNCHANGED <<row, share, object>>
  /\ read' = [by |-> "server", known |-> got.ok /\ Parses(payload),
              ids |-> IF got.ok /\ Parses(payload) THEN {FileOf[e] : e \in needed} ELSE {}]

(* One scene or one copy is followed at a time.                             *)
Next ==
  \/ /\ row = Nothing /\ share = Nothing
     /\ \E c \in Canvas, cells \in 1..MaxStored : (\E n \in Name : Save(c, n, cells)) \/ Share(c, cells)
  \/ \E n \in Name : Rename(n)
  \/ \E f \in FileId : Cut(f) \/ \E g \in FileId : Misfile(f, g)
  \/ OwnerLoads \/ PageLoads \/ ServerReads
  \/ \E key \in {ShareKey, "other"} : LinkLoads(key)

(***************************************************************************)
TypeOK ==
  /\ row.state \in {"none", "stored"} /\ share.state \in {"none", "stored"}
  /\ (row.state = "stored") => row.by \in {"v4", "legacy", "v3"} /\ row.name \in Name /\ row.needs \subseteq FileId
  /\ \A f \in FileId : \A i \in DOMAIN object[f] : object[f][i].tag \in {"word", "json", "iv", "deflated", "sealed"}
  /\ read.by \in {"none", "owner", "link", "page", "server"}

(* What the server accepted, and what an earlier release stored and is not  *)
(* retired, each reader reads: with all its elements, fit for the engine,   *)
(* under the name of the row (persisted-scene.ts, persistence-guard.ts).    *)
Readable(r, elements) ==
  (read.by = r) => /\ read.scene.ok /\ \A e \in DOMAIN read.scene.elements : read.scene.elements[e].native
                   /\ DOMAIN read.scene.elements = elements /\ read.scene.keys \subseteq ContractKeys
AcceptedIsReadable ==
  (row.state = "stored" /\ row.by # "v3") =>
    /\ Readable("owner", DOMAIN row.elements)
    /\ read.by = "owner" => read.scene.name = row.name
    /\ Readable("page", {e \in DOMAIN row.elements : ~row.elements[e].deleted})

(* A link opens its copy with its own key and nothing with another: an      *)
(* empty scene, never a part of it (import-data-from-db.ts).                *)
LinkIsWholeOrNothing ==
  (read.by = "link" /\ read.scene.ok) =>
    /\ DOMAIN read.scene.elements = DOMAIN share.elements
    /\ \A e \in DOMAIN share.elements : ~share.elements[e].deleted

(* No reader shows an image that is not the one its record names, however   *)
(* the storage cuts or swaps objects.                                       *)
ImagesAreTheirOwn ==
  read.by \in {"owner", "link", "page"} => \A f \in DOMAIN read.files : read.files[f] = f

(* What the server takes for needed are the images the readers show, or it  *)
(* says that it cannot tell (referenced-assets.ts).                         *)
NeededIsKnown ==
  read.by = "server" => /\ read.known <=> row.by # "v3"
                        /\ read.known => read.ids = row.needs

DocumentsSound == AcceptedIsReadable /\ LinkIsWholeOrNothing /\ ImagesAreTheirOwn /\ NeededIsKnown
=============================================================================
