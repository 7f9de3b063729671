----------------------------- MODULE StoredFormats -----------------------------
(* The sealed pieces of a room, its snapshot and its images, from the       *)
(* encoder of one release to the decoder of another, with the sizes and     *)
(* versions every stage between them checks.  Sizes are in units small      *)
(* enough that each limit can be met, missed by one and reached.            *)
EXTENDS Naturals, FiniteSets

CONSTANTS File,               \* the images
          MaxSnapshot,        \* MAX_SNAPSHOT_PLAINTEXT_BYTES
          MaxDataUrl,         \* MAX_ASSET_DATA_URL_BYTES
          MaxMetadata,        \* MAX_ASSET_METADATA_BYTES
          Header, Overhead,   \* of an image payload; of a sealed envelope
          Megabyte,           \* the unit of the upload limits
          MaxRevision         \* bound: snapshots

VARIABLES changed,            \* the formats a second release changes
          release,            \* the release each part runs
          snapshot,           \* the row of the room's snapshot
          record, object,     \* per image: its row, and what is stored at its address
          answer,             \* what the last write came to
          meant, harmed,      \* history: what was written where, and what was harmed
          read                \* the last read
vars == <<changed, release, snapshot, record, object, answer, meant, harmed, read>>

Format == {"snapshot envelope", "snapshot", "asset envelope", "asset", "protocol"}
Part == {"writer", "server", "reader"}
Place == {"snapshot"} \cup File
Version(part, format) == IF release[part] = 2 /\ format \in changed THEN 2 ELSE 1
Nothing == [stored |-> FALSE]
NeverRead == [place |-> "none"]
Failed(why) == [ok |-> FALSE, why |-> why]

(* sealEnvelope, openEnvelope.  What is authenticated besides the text is   *)
(* the label; a bit that changed fails like another label.                  *)
Seal(version, label, text) ==
  [version |-> version, label |-> label, of |-> text, length |-> text.length + Overhead, whole |-> TRUE]
Open(sealed, version, label, max) ==
  IF sealed.length < Overhead + 1 \/ sealed.length > max + Overhead THEN Failed("malformed")
  ELSE IF sealed.version # version THEN Failed("unknown-version")
  ELSE IF sealed.whole /\ sealed.label = label THEN [ok |-> TRUE, text |-> sealed.of]
  ELSE Failed("authentication-failed")

(* snapshotAdditionalDataLabel, assetAdditionalDataLabel: no version of the *)
(* transport in what is stored.                                             *)
SnapshotLabel(part, revision) == <<"snapshot", Version(part, "snapshot envelope"), revision>>
AssetLabel(part, f) == <<"asset", Version(part, "asset envelope"), f>>

Init ==
  /\ changed \in {{}, Format} \cup {{format} : format \in Format}
  /\ release = [part \in Part |-> 1]
  /\ snapshot = Nothing /\ record = [f \in File |-> Nothing] /\ object = record
  /\ answer = "none" /\ meant = [p \in Place |-> Nothing] /\ harmed = {} /\ read = NeverRead

(* A deployment of the server, or a tab that is loaded again.               *)
Upgrade(part) ==
  /\ release[part] = 1 /\ changed # {}
  /\ release' = [release EXCEPT ![part] = 2] /\ read' = NeverRead /\ answer' = "none"
  /\ UNCHANGED <<changed, snapshot, record, object, meant, harmed>>

(***************************************************************************)
(* The snapshot.                                                            *)
(***************************************************************************)
(* encodeCollaborationSnapshot, decodeCollaborationSnapshot.                *)
EncodeSnapshot(part, size) ==
  IF size > MaxSnapshot THEN Failed("oversize")
  ELSE [ok |-> TRUE, text |-> [version |-> Version(part, "snapshot"), length |-> size]]
DecodeSnapshot(part, text) ==
  /\ text.length <= MaxSnapshot /\ text.version = Version(part, "snapshot")

(* sealCollaborationSnapshot, openCollaborationSnapshot.                    *)
SealSnapshot(part, revision, text) ==
  Seal(Version(part, "snapshot envelope"), SnapshotLabel(part, revision), text)
OpenSnapshot(part, row) ==
  Open(row.bytes, Version(part, "snapshot envelope"), SnapshotLabel(part, row.revision), MaxSnapshot)

(* toBase64, and the length of what it gives.                               *)
Base64Length(n) == ((n + 2) \div 3) * 4
(* What put takes: the version it knows, the length of the text, the length *)
(* of the bytes; writeRoomSnapshot checks the length again.                 *)
FitsColumn(n) == n > 0 /\ n <= MaxSnapshot + Overhead
TakesSnapshot(sealed) ==
  /\ sealed.version = Version("server", "snapshot envelope")
  /\ Base64Length(sealed.length) \in 4..Base64Length(MaxSnapshot + Overhead)
  /\ sealed.length >= Overhead + 1 /\ FitsColumn(sealed.length)

(* save, put: the revision sealed in is the one the row will have.          *)
SaveSnapshot(size) ==
  LET revision == IF snapshot.stored THEN snapshot.revision + 1 ELSE 1
      encoded == EncodeSnapshot("writer", size)
      sealed == SealSnapshot("writer", revision, encoded.text)
  IN  /\ revision <= MaxRevision /\ read' = NeverRead
      /\ UNCHANGED <<changed, release, record, object>>
      /\ IF ~encoded.ok
         THEN answer' = encoded.why /\ UNCHANGED <<snapshot, meant, harmed>>
         ELSE IF ~TakesSnapshot(sealed)
         THEN answer' = "refused" /\ UNCHANGED <<snapshot, meant, harmed>>
         ELSE /\ answer' = "stored" /\ harmed' = harmed \ {"snapshot"}
              /\ snapshot' = [stored |-> TRUE, revision |-> revision, version |-> sealed.version,
                              bytes |-> sealed, length |-> sealed.length, checksum |-> sealed]
              /\ meant' = [meant EXCEPT !["snapshot"] = [stored |-> TRUE, text |-> encoded.text,
                                                         revision |-> revision,
                                                         envelope |-> sealed.version]]

(* load.                                                                    *)
LoadSnapshot ==
  LET opened == OpenSnapshot("reader", snapshot)
      outcome ==
        IF ~snapshot.stored THEN "empty"
        ELSE IF snapshot.version # Version("reader", "snapshot envelope") THEN "wrong-key"
        ELSE IF snapshot.bytes.length # snapshot.length \/ snapshot.checksum # snapshot.bytes THEN "malformed"
        ELSE IF ~opened.ok THEN "wrong-key"
        ELSE IF ~DecodeSnapshot("reader", opened.text) THEN "malformed" ELSE "loaded"
  IN  /\ answer' = "none"
      /\ read' = [place |-> "snapshot", outcome |-> outcome,
                  text |-> IF outcome = "loaded" THEN opened.text ELSE Nothing]
      /\ UNCHANGED <<changed, release, snapshot, record, object, meant, harmed>>

(* The store returns other bytes than it took, the checksum with them or    *)
(* not, or pairs them with another revision; bound: one harm at a time.     *)
HarmSnapshot ==
  /\ snapshot.stored /\ harmed = {} /\ harmed' = {"snapshot"}
  /\ read' = NeverRead /\ answer' = "none"
  /\ \/ \E bytes \in {[snapshot.bytes EXCEPT !.whole = FALSE],
                      [snapshot.bytes EXCEPT !.whole = FALSE, !.length = @ - 1],
                      [snapshot.bytes EXCEPT !.whole = FALSE, !.length = Overhead]} :
          \E checksum \in {bytes, snapshot.checksum}, length \in {bytes.length, snapshot.length} :
            snapshot' = [snapshot EXCEPT !.bytes = bytes, !.checksum = checksum, !.length = length]
     \/ \E revision \in 1..MaxRevision \ {snapshot.revision} :
          snapshot' = [snapshot EXCEPT !.revision = revision]
  /\ UNCHANGED <<changed, release, record, object, meant>>

(***************************************************************************)
(* The images.                                                              *)
(***************************************************************************)
MaxPayload == Header + MaxMetadata + MaxDataUrl

(* dataUrlMatchesMimeType: a prefix that names the type, and something      *)
(* behind it.  An engine's data URL can also be of another kind.            *)
Matches(url) == url.kind = "named" /\ url.length > 1

(* encodeCollaborationAssetPayload.                                         *)
EncodeAsset(part, f, url) ==
  IF ~Matches(url) THEN Failed("malformed")
  ELSE IF url.length > MaxDataUrl THEN Failed("oversize")
  ELSE [ok |-> TRUE, text |-> [version |-> Version(part, "asset"), of |-> f, url |-> url,
                               length |-> Header + MaxMetadata + url.length]]
(* decodeCollaborationAssetPayload.                                         *)
DecodeAsset(part, f, text) ==
  /\ text.length <= MaxPayload /\ text.length > Header + MaxMetadata
  /\ text.version = Version(part, "asset") /\ text.of = f /\ Matches(text.url)

(* seal and open of the codec of images.                                    *)
SealAsset(part, f, text) == Seal(Version(part, "asset envelope"), AssetLabel(part, f), text)
OpenAsset(part, f, bytes) ==
  Open(bytes, Version(part, "asset envelope"), AssetLabel(part, f), MaxPayload)

(* getMaxFileSizeString: the next size the upload service knows.            *)
UploadLimit(n) ==
  LET rounded == (2 * n + Megabyte) \div (2 * Megabyte)
  IN  Megabyte * (CHOOSE s \in {1, 2, 4, 8} : s >= rounded /\ \A t \in {1, 2, 4, 8} : t >= rounded => s <= t)
(* collaborationAssetUploader, recordRoomAsset.                             *)
TakesAsset(sealed) ==
  /\ sealed.version = Version("server", "asset envelope")
  /\ sealed.length <= UploadLimit(MaxPayload + Overhead)
  /\ sealed.length \in Overhead + 1..MaxPayload + Overhead

(* publish: an image that is recorded already stays as it is.               *)
PublishAsset(f, url) ==
  LET encoded == EncodeAsset("writer", f, url)
      sealed == SealAsset("writer", f, encoded.text)
  IN  /\ read' = NeverRead /\ UNCHANGED <<changed, release, snapshot>>
      /\ IF ~encoded.ok \/ ~TakesAsset(sealed) \/ record[f].stored
         THEN /\ answer' = IF ~encoded.ok THEN encoded.why ELSE IF record[f].stored THEN "duplicate" ELSE "refused"
              /\ UNCHANGED <<record, object, meant, harmed>>
         ELSE /\ answer' = "stored" /\ harmed' = harmed \ {f}
              /\ record' = [record EXCEPT ![f] = [stored |-> TRUE, version |-> sealed.version, length |-> sealed.length]]
              /\ object' = [object EXCEPT ![f] = sealed]
              /\ meant' = [meant EXCEPT ![f] = [stored |-> TRUE, text |-> encoded.text,
                                                envelope |-> sealed.version]]

(* readBoundedBody: what is longer than its record says is not read.        *)
Arrives(f) == object[f].length <= record[f].length /\ object[f].length <= MaxPayload + Overhead

(* openRecord.                                                              *)
OpenRecord(f) ==
  LET opened == OpenAsset("reader", f, object[f])
      outcome ==
        IF record[f].version # Version("reader", "asset envelope") THEN "undecryptable"
        ELSE IF ~Arrives(f) \/ object[f].length # record[f].length THEN "abandon"
        ELSE IF ~opened.ok THEN "undecryptable"
        ELSE IF ~DecodeAsset("reader", f, opened.text) THEN "abandon" ELSE "resolved"
  IN  /\ record[f].stored /\ answer' = "none"
      /\ read' = [place |-> f, outcome |-> outcome,
                  text |-> IF outcome = "resolved" THEN opened.text ELSE Nothing]
      /\ UNCHANGED <<changed, release, snapshot, record, object, meant, harmed>>

(* The storage returns a damaged or shortened object, or that of another    *)
(* record.                                                                  *)
HarmAsset(f) ==
  /\ record[f].stored /\ harmed = {} /\ harmed' = {f}
  /\ read' = NeverRead /\ answer' = "none"
  /\ \E bytes \in {[object[f] EXCEPT !.whole = FALSE], [object[f] EXCEPT !.whole = FALSE, !.length = @ - 1]}
                    \cup {object[g] : g \in {g \in File \ {f} : record[g].stored}} :
       bytes # object[f] /\ object' = [object EXCEPT ![f] = bytes]
  /\ UNCHANGED <<changed, release, snapshot, record, meant>>

SnapshotSizes == {1, MaxSnapshot, MaxSnapshot + 1}
DataUrls ==
  {[kind |-> "named", length |-> n] : n \in {1, 2, MaxDataUrl, MaxDataUrl + 1}} \cup {[kind |-> "other", length |-> 2]}

SnapshotNext == LoadSnapshot \/ HarmSnapshot \/ \E size \in SnapshotSizes : SaveSnapshot(size)
AssetNext ==
  \E f \in File : OpenRecord(f) \/ HarmAsset(f) \/ \E url \in DataUrls : PublishAsset(f, url)
UpgradeNext == \E part \in Part : Upgrade(part)

(***************************************************************************)
TypeOK ==
  /\ changed \subseteq Format /\ release \in [Part -> 1..2] /\ harmed \subseteq Place
  /\ answer \in {"none", "stored", "duplicate", "refused", "oversize", "malformed"}
  /\ snapshot.stored => snapshot.revision \in 1..MaxRevision
  /\ \A p \in Place : meant[p].stored <=> (IF p = "snapshot" THEN snapshot.stored ELSE record[p].stored)
  /\ read.place \in Place \cup {"none"}

Formats(place) ==
  IF place = "snapshot" THEN {"snapshot envelope", "snapshot"} ELSE {"asset envelope", "asset"}
Envelope(place) == IF place = "snapshot" THEN "snapshot envelope" ELSE "asset envelope"
Payload(place) == IF place = "snapshot" THEN "snapshot" ELSE "asset"
SameFormats(place) ==
  /\ meant[place].envelope = Version("reader", Envelope(place))
  /\ meant[place].text.version = Version("reader", Payload(place))

(* What was stored and not harmed is read by every release that knows its   *)
(* two formats, whatever the transport between them is now, and up to the   *)
(* largest piece that was taken (snapshot.ts, asset-crypto.ts).             *)
StoredIsReadable ==
  read.place \in Place =>
    LET p == read.place IN
    (meant[p].stored /\ p \notin harmed) =>
      IF SameFormats(p) THEN read.outcome \in {"loaded", "resolved"}
      ELSE read.outcome \notin {"loaded", "resolved"}

(* What is handed over is what was written at that place.                   *)
HandedOverIsMeant ==
  (read.place \in Place /\ read.outcome \in {"loaded", "resolved"}) => read.text = meant[read.place].text

(* The key or the link is blamed for a piece only if its envelope is of     *)
(* another version or it was harmed (asset-unreadable-verdict.ts).          *)
BlamesTheKeyRightly ==
  (read.place \in Place /\ read.outcome \in {"wrong-key", "undecryptable"}) =>
    \/ read.place \in harmed
    \/ meant[read.place].envelope # Version("reader", Envelope(read.place))

(* What the encoder takes no later stage of the same formats refuses: too   *)
(* large is told where the user can act on it.                              *)
EncodedIsTaken ==
  (answer = "refused") =>
    \E format \in {"snapshot envelope", "asset envelope"} : Version("writer", format) # Version("server", format)

StoredFormatsSound == StoredIsReadable /\ HandedOverIsMeant /\ BlamesTheKeyRightly /\ EncodedIsTaken
=============================================================================
