------------------------------ MODULE SharedLinks ------------------------------
(***************************************************************************)
(* Links to a read-only copy of a scene: the export that makes one         *)
(* (use-scene-export.ts, server/actions.ts, the sharedSceneFileUploader of *)
(* uploadthing/core.ts), and the page that opens it and fetches its images *)
(* (use-fetch-and-inject-shared-scene-files.ts).                           *)
(*                                                                         *)
(* A scene with the images File.  Export: the exports of one tab; each     *)
(* makes a row of its own.  The key is in the link: whoever has the link   *)
(* can decode.  Bounds: MaxRuns runs of the page's effect, MaxTurns turns  *)
(* of a run; MaxRetries is 3 in the code.                                  *)
(***************************************************************************)
EXTENDS Naturals, Sequences

CONSTANTS File, Export, MaxRetries, MaxRuns, MaxTurns

VARIABLES
  status,    \* exportStatus
  export,    \* [pc, answer] of each export
  row,       \* [state, files]: shared_scene and its file_records
  shown,     \* history: the links handed out
  listing,   \* the images the page was told of
  load,      \* the effect's runs, the last is current: [on, pc, turns, at]
  retry,     \* retryBySceneRef: failed attempts, 0 without an entry
  notified,  \* notifiedBySceneRef
  canvas,    \* the images injected
  slipped    \* history: images whose entry a run already aborted removed

exportVars == <<status, export, row, shown>>
pageVars == <<listing, load, retry, notified, canvas, slipped>>

-----------------------------------------------------------------------------
(* Making a link                                                            *)

InitExport ==
  /\ status = "idle" /\ shown = {}
  /\ export = [x \in Export |-> [pc |-> "idle", answer |-> [f \in File |-> "none"]]]
  /\ row = [x \in Export |-> [state |-> "none", files |-> {}]]

(* A click during an export reports an error, and so allows the next one.   *)
ExportScene(x) ==
  /\ IF status = "exporting"
     THEN status' = "error" /\ UNCHANGED export
     ELSE /\ export[x].pc = "idle"
          /\ status' = "exporting"
          /\ export' = [export EXCEPT ![x].pc = "preparing"]
  /\ UNCHANGED <<row, shown, pageVars>>

(* prepareSceneDataForExport: a key, the sealed scene and images; one too   *)
(* big throws.                                                              *)
Prepare(x) ==
  /\ export[x].pc = "preparing"
  /\ \E fits \in BOOLEAN :
       /\ export' = [export EXCEPT ![x].pc = IF fits THEN "saving" ELSE "failed"]
       /\ status' = IF fits THEN status ELSE "error"
  /\ UNCHANGED <<row, shown, pageVars>>

(* The row may be there although the answer is an error.                    *)
HandleSceneSave(x) ==
  /\ export[x].pc = "saving"
  /\ \E made, answered \in BOOLEAN :
       /\ answered => made
       /\ row' = IF made THEN [row EXCEPT ![x].state = "live"] ELSE row
       /\ export' = [export EXCEPT ![x] =
            [pc |-> IF answered THEN "uploading" ELSE "failed",
             answer |-> [f \in File |-> IF answered THEN "pending" ELSE "none"]]]
       /\ status' = IF answered THEN status ELSE "error"
  /\ UNCHANGED <<shown, pageVars>>

(* sharedSceneFileUploader: the answer waits for the record; it or the      *)
(* upload may fail, and onUploadError shows that at once.                   *)
UploadFile(x, f) ==
  /\ export[x].answer[f] = "pending"
  /\ \E recorded, answered \in BOOLEAN :
       /\ answered => recorded
       /\ recorded => row[x].state = "live"
       /\ row' = IF recorded THEN [row EXCEPT ![x].files = @ \union {f}] ELSE row
       /\ export' = [export EXCEPT ![x].answer[f] = IF answered THEN "ok" ELSE "failed"]
       /\ status' = IF answered THEN status ELSE "error"
  /\ UNCHANGED <<shown, pageVars>>

Settled(x) ==
  export[x].pc = "uploading" /\ \A f \in File : export[x].answer[f] # "pending"

\* Mutation: one upload that succeeded is enough.
UploadFailedAll(x) == \A f \in File : export[x].answer[f] = "failed"

UploadFailed(x) == \E f \in File : export[x].answer[f] = "failed"

HandOut(x) ==
  /\ Settled(x) /\ ~UploadFailed(x)
  /\ status' = "success" /\ shown' = shown \union {x}
  /\ export' = [export EXCEPT ![x].pc = "done"]
  /\ UNCHANGED <<row, pageVars>>

(* Objects first, then the row with its records; whatever it answers, the   *)
(* export ends.                                                             *)
RollbackSharedScene(x) ==
  /\ Settled(x) /\ UploadFailed(x)
  /\ \E rolled \in BOOLEAN :
       row' = IF rolled THEN [row EXCEPT ![x] = [state |-> "gone", files |-> {}]] ELSE row
  /\ export' = [export EXCEPT ![x].pc = "failed"]
  /\ status' = "error"
  /\ UNCHANGED <<shown, pageVars>>

(* The cleanup job, thirty days later.                                      *)
Expire(x) ==
  /\ export[x].pc \in {"done", "failed"} /\ row[x].state = "live"
  /\ row' = [row EXCEPT ![x] = [state |-> "expired", files |-> {}]]
  /\ UNCHANGED <<status, export, shown, pageVars>>

ExportNext ==
  \E x \in Export :
    \/ ExportScene(x) \/ Prepare(x) \/ HandleSceneSave(x) \/ HandOut(x)
    \/ RollbackSharedScene(x) \/ Expire(x)
    \/ \E f \in File : UploadFile(x, f)

-----------------------------------------------------------------------------
(* Opening one                                                              *)

InitPage ==
  /\ listing = {} /\ load = <<>> /\ notified = {} /\ canvas = {} /\ slipped = {}
  /\ retry = [f \in File |-> 0]

Pending == {f \in File : retry[f] \in 1..MaxRetries - 1}

(* load: what has no entry, and what has come due; a success removes its    *)
(* entry, so an image on the canvas is fetched again with the next turn.    *)
Turn(due, turns) ==
  [on |-> TRUE, pc |-> "loading", turns |-> turns,
   at |-> [f \in File |-> IF f \in listing' /\ (retry[f] = 0 \/ f \in due)
                          THEN "fetching" ELSE "over"]]

(* The cleanup of the effect: a fetch ends without an entry, a decoding     *)
(* goes on, the timer is gone.                                              *)
Aborted(l) ==
  [l EXCEPT !.on = FALSE, !.pc = IF @ = "timer" THEN "rest" ELSE @,
            !.at = [f \in File |-> IF @[f] = "fetching" THEN "over" ELSE @[f]]]

(* The effect runs again: the listing has come or has changed, the editor   *)
(* is another one.  Without images nothing is loaded.                       *)
RunEffect ==
  /\ Len(load) < MaxRuns
  /\ \E x \in shown : listing' \in {row[x].files, listing}
  /\ LET before == [i \in 1..Len(load) |-> Aborted(load[i])] IN
     IF listing' = {} THEN load' = before
     ELSE \E due \in SUBSET Pending : load' = Append(before, Turn(due, 1))
  /\ UNCHANGED <<retry, notified, canvas, slipped, exportVars>>

Stage(i, f, stage) == load' = [load EXCEPT ![i].at[f] = stage]

Fail(i, f) ==
  /\ Stage(i, f, "over")
  /\ retry' = [retry EXCEPT ![f] = @ + 1]
  /\ UNCHANGED slipped

FetchFile(i, f) ==
  /\ load[i].at[f] = "fetching"
  /\ \/ Fail(i, f)
     \/ Stage(i, f, "decoding") /\ UNCHANGED <<retry, slipped>>
  /\ UNCHANGED <<listing, notified, canvas, exportVars>>

(* decompressData: it throws, or there is an image and the id stored in it. *)
Decoded(f) == {"throws", "another"} \union {f}

(* Another image's bytes are given up at once.                              *)
DecodeFile(i, f) ==
  /\ load[i].at[f] = "decoding"
  /\ \E id \in Decoded(f) :
     \/ id = "throws" /\ Fail(i, f)
     \/ /\ id = "another" /\ Stage(i, f, "over")
        /\ retry' = [retry EXCEPT ![f] = MaxRetries] /\ UNCHANGED slipped
     \/ /\ id = f /\ Stage(i, f, "loaded")
        /\ retry' = [retry EXCEPT ![f] = 0]
        /\ slipped' = IF ~load[i].on /\ retry[f] > 0 THEN slipped \union {f} ELSE slipped
  /\ UNCHANGED <<listing, notified, canvas, exportVars>>

Over(i) ==
  /\ load[i].pc = "loading"
  /\ \A f \in File : load[i].at[f] \in {"loaded", "over"}

EndAborted(i) ==
  /\ Over(i) /\ ~load[i].on
  /\ load' = [load EXCEPT ![i].pc = "rest"]
  /\ UNCHANGED <<listing, retry, notified, canvas, slipped, exportVars>>

(* Inject; then a timer for what may be tried again, or the report of what  *)
(* has reached the limit.                                                   *)
EndTurn(i) ==
  /\ Over(i) /\ load[i].on
  /\ canvas' = canvas \union {f \in File : load[i].at[f] = "loaded"}
  /\ LET reached == {f \in File : retry[f] >= MaxRetries} \ notified IN
     IF Pending # {}
     THEN /\ load' = [load EXCEPT ![i].pc = "timer"]
          /\ UNCHANGED <<retry, notified>>
     ELSE /\ load' = [load EXCEPT ![i].pc = "rest"]
          /\ notified' = notified \union reached
          /\ retry' = [f \in File |-> IF f \in reached THEN 0 ELSE retry[f]]
  /\ UNCHANGED <<listing, slipped, exportVars>>

TimerFires(i) ==
  /\ load[i].on /\ load[i].pc = "timer" /\ load[i].turns < MaxTurns
  /\ UNCHANGED listing
  /\ \E due \in SUBSET Pending :
       /\ Pending # {} => due # {}
       /\ load' = [load EXCEPT ![i] = Turn(due, load[i].turns + 1)]
  /\ UNCHANGED <<retry, notified, canvas, slipped, exportVars>>

PageNext ==
  \/ RunEffect
  \/ \E i \in DOMAIN load :
       \/ EndAborted(i) \/ EndTurn(i) \/ TimerFires(i)
       \/ \E f \in File : FetchFile(i, f) \/ DecodeFile(i, f)

-----------------------------------------------------------------------------

TypeOK ==
  /\ status \in {"idle", "exporting", "success", "error"}
  /\ \A x \in Export :
       /\ export[x].pc \in {"idle", "preparing", "saving", "uploading", "done", "failed"}
       /\ export[x].answer \in [File -> {"none", "pending", "ok", "failed"}]
       /\ row[x].state \in {"none", "live", "gone", "expired"} /\ row[x].files \subseteq File
  /\ shown \subseteq Export /\ notified \cup canvas \cup slipped \cup listing \subseteq File
  /\ retry \in [File -> 0..MaxRetries + MaxRuns]
  /\ \A i \in DOMAIN load : load[i].pc \in {"loading", "timer", "rest"}

\* A link that was handed out opens the whole scene until it expires, whatever failed,
\* was rolled back or was clicked while its export or another one was running
\* (exportScene, rollbackSharedScene).
LinkOpensWhole ==
  \A x \in shown : row[x].state = "expired" \/ row[x] = [state |-> "live", files |-> File]

\* A page that has come to rest has every image of the listing on its canvas or has
\* reported it.  The exception is an image whose failure the decoding of an aborted run
\* wiped from the shared entries (load, the cleanup of the effect).
NothingStranded ==
  \A i \in DOMAIN load :
    load[i].on /\ load[i].pc = "rest" => listing \subseteq canvas \union notified \union slipped

-----------------------------------------------------------------------------
(* The invariant the proof of LinkOpensWhole goes by (RoomKeys_proofs).     *)

ExportShapes ==
  /\ export \in [Export -> [pc : {"idle", "preparing", "saving", "uploading", "done", "failed"},
                            answer : [File -> {"none", "pending", "ok", "failed"}]]]
  /\ row \in [Export -> [state : {"none", "live", "gone", "expired"}, files : SUBSET File]]
  /\ shown \subseteq Export

\* While images are uploaded the row is there, and has each one whose answer is good; no
\* upload is left when the export has ended.
UploadsInv ==
  \A x \in Export :
    /\ export[x].pc = "uploading" =>
         /\ row[x].state = "live"
         /\ \A f \in File : /\ export[x].answer[f] # "none"
                            /\ export[x].answer[f] = "ok" => f \in row[x].files
    /\ (\E f \in File : export[x].answer[f] = "pending") => export[x].pc = "uploading"

ShownInv == \A x \in shown : export[x].pc = "done"

ExportInv == ExportShapes /\ UploadsInv /\ ShownInv /\ LinkOpensWhole
=============================================================================
