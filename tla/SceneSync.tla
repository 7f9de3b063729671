------------------------------- MODULE SceneSync -------------------------------
(***************************************************************************)
(* One editor tab and the owned scenes it saves to and loads from the      *)
(* cloud (apps/web/src/hooks/use-cloud-upload.ts, scene-session-context.tsx *)
(* and excalidraw/use-scene-remote-revision-check.ts,                      *)
(* excalidraw/use-apply-remote-scene.ts,                                   *)
(* server/scene/save-owned-scene.ts).  Other devices of the owner are part *)
(* of the environment: each of their saves is one step that adds an edit   *)
(* to what the row holds, because they loaded it first.                    *)
(*                                                                         *)
(* What a scene contains is the set of the edits it holds.  The upload of  *)
(* assets and thumbnails and the frames in which dirty tracking is         *)
(* suppressed are left out.  Bounds: MaxEdits edits, MaxRev revisions of a *)
(* row, MaxMishaps renames, deletions, reloads and failed saves, and       *)
(* MaxFlights of the tab's saves, fetches and renames under way at once.   *)
(***************************************************************************)
EXTENDS Naturals, FiniteSets

CONSTANTS Scene, MaxEdits, MaxRev, MaxMishaps, MaxFlights

VARIABLES
  row,      \* scene rows: [state, rev, edits]
  session,  \* SceneSessionContext: [scene, rev, dirty]; revision 0: none known
  canvas,   \* the edits on the canvas
  save,     \* uploadSceneToCloud in flight
  pull,     \* what the tab is fetching: "check" and "load", a flight each
  rename,   \* the scene and the revision of a rename's response in flight
  dialog,   \* pendingConflict: the scene the conflict dialog is open for
  used,     \* edits made so far, and mishaps
  descends, \* history: the canvas descends from the version session names
  owed      \* history: the edits on the canvas that no row has held and that
            \* were drawn with no save and no fetch in flight

syncVars == <<row, session, canvas, save, pull, rename, dialog, used,
              descends, owed>>

NoScene == "none"
NoVersion == [scene |-> NoScene, rev |-> 0]
Version == [scene : Scene \union {NoScene}, rev : 0..MaxRev]
Edits == SUBSET (1..MaxEdits)
NoRow == [state |-> "gone", rev |-> 0, edits |-> {}]
NewRow == [NoRow EXCEPT !.state = "unused"]
Idle == [step |-> "none", mode |-> "auto", snap |-> {}, own |-> TRUE, same |-> TRUE,
         at |-> NoVersion, created |-> FALSE, answer |-> "none"]
NoPull == [step |-> "none", at |-> NoVersion, edits |-> {}]
NoSession == [scene |-> NoScene, rev |-> 0, dirty |-> FALSE]
Live(s) == row[s].state = "live"
InFlight == save # Idle \/ \E f \in {"check", "load"} : pull[f] # NoPull
CanFly ==
  MaxFlights > Cardinality({f \in {"check", "load"} : pull[f] # NoPull})
               + (IF save # Idle THEN 1 ELSE 0)
               + (IF rename # NoVersion THEN 1 ELSE 0)

(* Some scenes are saved once, the rest do not exist; the tab has one of    *)
(* the saved ones open, or has lost its revision, or has none open.         *)
Init ==
  /\ row \in [Scene -> {NewRow, [state |-> "live", rev |-> 1, edits |-> {}]}]
  /\ session \in {NoSession} \union
       {[scene |-> s, rev |-> r, dirty |-> FALSE] :
          s \in {x \in Scene : Live(x)}, r \in 0..1}
  /\ canvas = {} /\ save = Idle
  /\ pull = [f \in {"check", "load"} |-> NoPull]
  /\ rename = NoVersion
  /\ dialog = NoScene
  /\ used = [edits |-> 0, mishaps |-> 0]
  /\ descends = (session.rev = 1)
  /\ owed = {}

(* One of the events that are bounded together.                             *)
Mishap == used.mishaps < MaxMishaps /\ used' = [used EXCEPT !.mishaps = @ + 1]

(* markCurrentSceneDirty                                                    *)
MarkDirty == session' = [session EXCEPT !.dirty = TRUE]

(* syncCurrentScene                                                         *)
Sync(v) == session' = [scene |-> v.scene, rev |-> v.rev, dirty |-> FALSE]

(* handleSceneChange: an edit, on a canvas no dialog covers.                *)
Edit ==
  LET e == used.edits + 1 IN
  /\ e <= MaxEdits /\ dialog = NoScene
  /\ used' = [used EXCEPT !.edits = e]
  /\ canvas' = canvas \union {e}
  /\ IF session.scene # NoScene THEN MarkDirty ELSE UNCHANGED session
  /\ owed' = IF InFlight THEN owed ELSE owed \union {e}
  /\ UNCHANGED <<row, save, pull, rename, dialog, descends>>

-----------------------------------------------------------------------------
(* Saving                                                                   *)

(* uploadSceneToCloud takes its snapshot of the canvas first and then waits *)
(* for it to be compressed.                                                 *)
SaveStarts(mode) ==
  /\ save = Idle /\ CanFly
  /\ (mode = "auto") = (dialog = NoScene)
  /\ save' = [Idle EXCEPT !.step = "prepare", !.mode = mode,
                          !.snap = canvas, !.own = descends]
  /\ UNCHANGED <<row, session, canvas, pull, rename, dialog, used, descends,
                 owed>>

(* Then it reads the target and the revision of the session as they are     *)
(* now, asks the server for a revision it does not know, or creates a draft.*)
SaveAims ==
  /\ save.step = "prepare"
  /\ \/ /\ save.mode = "auto" /\ session.scene # NoScene
        /\ LET s == session.scene
               r == IF session.rev # 0 THEN session.rev ELSE row[s].rev IN
           save' = IF r = 0 THEN Idle
                   ELSE [save EXCEPT !.step = "commit",
                                     !.own = @ /\ descends,
                                     !.at = [scene |-> s, rev |-> r]]
        /\ UNCHANGED row
     \/ /\ save.mode = "create" \/ session.scene = NoScene
        /\ \E s \in Scene :
             /\ row[s] = NewRow
             /\ row' = [row EXCEPT ![s] = [state |-> "draft", rev |-> 1, edits |-> {}]]
             /\ save' = [save EXCEPT !.step = "commit", !.mode = "auto",
                                     !.created = TRUE, !.own = TRUE,
                                     !.at = [scene |-> s, rev |-> 1]]
  /\ UNCHANGED <<session, canvas, pull, rename, dialog, used, descends, owed>>

\* Mutation: the update names the scene only, without the expected revision.
MatchesAny(s, rev) == row[s].state # "gone" /\ rev > 0

(* The revision the update of the row is conditional on.                    *)
Matches(s, rev) == row[s].state # "gone" /\ row[s].rev = rev

(* saveOwnedScene: one transaction; finalising a draft keeps its revision.  *)
SaveCommits ==
  LET s == save.at.scene
      r == IF row[s].state = "draft" THEN row[s].rev ELSE row[s].rev + 1 IN
  /\ save.step = "commit"
  /\ IF Matches(s, save.at.rev)
     THEN /\ r <= MaxRev
          /\ row' = [row EXCEPT ![s] = [state |-> "live", rev |-> r,
                                        edits |-> save.snap]]
          /\ save' = [save EXCEPT !.step = "answered", !.answer = "saved",
                        !.at.rev = r, !.snap = {}, !.own = TRUE]
          /\ owed' = owed \ save.snap
     ELSE /\ save' = [save EXCEPT !.step = "answered", !.snap = {}, !.own = TRUE,
                        !.answer = IF row[s] = NoRow THEN "missing" ELSE "conflict"]
          /\ UNCHANGED <<row, owed>>
  /\ UNCHANGED <<session, canvas, pull, rename, dialog, used, descends>>

(* The session takes the scene and the revision that were saved.  History:  *)
(* the canvas descends from that version if it still is the canvas saved.   *)
SaveLands ==
  /\ save.step = "answered" /\ save.answer = "saved"
  /\ Sync(save.at)
  /\ descends' = save.same
  /\ dialog' = IF save.created THEN NoScene ELSE dialog
  /\ save' = Idle
  /\ UNCHANGED <<row, canvas, pull, rename, used, owed>>

(* rollbackCreatedDraft: the draft is deleted, or that call fails as well.  *)
Rollback ==
  \/ UNCHANGED row
  \/ save.created /\ row' = [row EXCEPT ![save.at.scene] = NoRow]

(* The save was refused: the scene is gone, or was changed elsewhere.       *)
SaveRefused ==
  /\ save.step = "answered" /\ save.answer \in {"missing", "conflict"}
  /\ Rollback
  /\ IF save.answer = "missing" /\ ~save.created
     THEN session' = NoSession /\ descends' = FALSE
     ELSE MarkDirty /\ UNCHANGED descends
  /\ dialog' = IF save.answer = "conflict"
               THEN save.at.scene ELSE dialog
  /\ save' = Idle
  /\ UNCHANGED <<canvas, pull, rename, used, owed>>

(* A request of the save throws: before the commit, or after it when its    *)
(* response is lost.                                                        *)
SaveFails ==
  /\ save.step # "none" /\ Mishap
  /\ IF save.step = "prepare" THEN UNCHANGED <<row, session>>
     ELSE Rollback /\ MarkDirty
  /\ save' = Idle
  /\ UNCHANGED <<canvas, pull, rename, dialog, descends, owed>>

-----------------------------------------------------------------------------
(* Noticing and loading what other devices saved                            *)

(* checkRemoteRevision: on focus, and once for a scene that was opened.     *)
CheckStarts ==
  /\ session.scene # NoScene /\ pull["check"] = NoPull
  /\ save.step = "none" /\ dialog = NoScene /\ CanFly
  /\ pull' = [pull EXCEPT !["check"] =
       [step |-> "meta asked", edits |-> {},
        at |-> [scene |-> session.scene, rev |-> 0]]]
  /\ UNCHANGED <<row, session, canvas, save, rename, dialog, used, descends,
                 owed>>

(* getSceneMeta and getScene read the row when the request reaches them.    *)
ServerAnswers(f) ==
  /\ pull[f].step \in {"meta asked", "data asked"}
  /\ LET r == row[pull[f].at.scene] IN
     pull' = [pull EXCEPT ![f] =
       [step |-> IF @.step = "meta asked" THEN "meta read" ELSE "data read",
        at |-> [@.at EXCEPT !.rev = r.rev],
        edits |-> IF @.step = "meta asked" THEN {} ELSE r.edits]]
  /\ UNCHANGED <<row, session, canvas, save, rename, dialog, used, descends,
                 owed>>

(* resolveSceneSyncAction                                                   *)
SyncAction(local, remote, dirty) ==
  IF remote = 0 \/ (local # 0 /\ remote <= local) THEN "noop"
  ELSE IF dirty THEN "prompt" ELSE "refresh"

(* The check's first answer, seen with the session as it is now.            *)
CheckDecides ==
  LET p == pull["check"]
      do == IF session.scene # p.at.scene THEN "noop"
            ELSE SyncAction(session.rev, p.at.rev, session.dirty) IN
  /\ p.step = "meta read"
  /\ pull' = [pull EXCEPT !["check"] =
       IF do = "refresh" THEN [p EXCEPT !.step = "data asked", !.at.rev = 0] ELSE NoPull]
  /\ \/ dialog' = IF do = "prompt" THEN p.at.scene ELSE dialog
     \/ do = "prompt" /\ UNCHANGED dialog    \* the user chose to ignore it
  /\ UNCHANGED <<row, session, canvas, save, rename, used, descends, owed>>

(* applyRemoteScene replaces the canvas and the session with what it read;  *)
(* a scene that could not be read changes nothing.                          *)
Apply(f) ==
  LET p == pull[f] IN
  /\ p.step = "data read"
  /\ pull' = [pull EXCEPT ![f] = NoPull]
  /\ IF p.at.rev = 0 THEN UNCHANGED <<session, canvas, save, dialog, descends, owed>>
     ELSE /\ canvas' = p.edits /\ descends' = TRUE /\ owed' = {}
          /\ save' = IF save = Idle THEN Idle
                     ELSE [save EXCEPT !.same = FALSE, !.own = @ /\ save.step # "prepare"]
          /\ Sync(p.at)
          /\ dialog' = IF f = "check" THEN dialog ELSE NoScene
  /\ UNCHANGED <<row, rename, used>>

(* The fetch fails on its way.                                              *)
PullFails(f) ==
  /\ pull[f] # NoPull
  /\ pull' = [pull EXCEPT ![f] = NoPull]
  /\ UNCHANGED <<row, session, canvas, save, rename, dialog, used, descends,
                 owed>>

(* The user's load of scene s: another scene, over what the canvas holds    *)
(* (the choice "switch"), or the scene in conflict ("loadRemote").          *)
LoadStarts(s) ==
  /\ pull["load"] = NoPull /\ CanFly
  /\ \/ dialog = NoScene /\ s # session.scene /\ Live(s)
     \/ dialog = s /\ save.step = "none"
  /\ pull' = [pull EXCEPT !["load"] =
       [step |-> "data asked", edits |-> {}, at |-> [scene |-> s, rev |-> 0]]]
  /\ UNCHANGED <<row, session, canvas, save, rename, dialog, used, descends,
                 owed>>

(* The choice "keepLocal", or closing the dialog.                           *)
KeepLocal ==
  /\ dialog # NoScene /\ save.step = "none" /\ pull["load"] = NoPull
  /\ dialog' = NoScene
  /\ UNCHANGED <<row, session, canvas, save, pull, rename, used, descends, owed>>

-----------------------------------------------------------------------------
(* Renaming and moving, other devices, reloading                            *)

(* renameScene (and moveToWorkspace): the row's revision rises whatever the *)
(* tab believed it to be.                                                   *)
RenameSent ==
  /\ session.scene # NoScene /\ Live(session.scene) /\ rename = NoVersion /\ CanFly
  /\ row[session.scene].rev < MaxRev /\ Mishap
  /\ row' = [row EXCEPT ![session.scene].rev = @ + 1]
  /\ rename' = [scene |-> session.scene, rev |-> row[session.scene].rev + 1]
  /\ UNCHANGED <<session, canvas, save, pull, dialog, descends, owed>>

(* updateLastSyncedRevision takes the response's revision for its own.      *)
(* History: nothing came between when it is the next one.                   *)
RenameLands ==
  /\ rename # NoVersion
  /\ session' = [session EXCEPT !.rev = rename.rev]
  /\ descends' = (descends /\ rename.scene = session.scene
                     /\ rename.rev \in {session.rev, session.rev + 1})
  /\ rename' = NoVersion
  /\ UNCHANGED <<row, canvas, save, pull, dialog, used, owed>>

(* Another device saves scene s, having loaded what the row holds.          *)
OtherSaves(s) ==
  /\ Live(s) /\ row[s].rev < MaxRev /\ used.edits < MaxEdits
  /\ used' = [used EXCEPT !.edits = @ + 1]
  /\ row' = [row EXCEPT ![s].rev = @ + 1, ![s].edits = @ \union {used.edits + 1}]
  /\ UNCHANGED <<session, canvas, save, pull, rename, dialog, descends, owed>>

(* Another device deletes scene s.                                          *)
OtherDeletes(s) ==
  /\ row[s].state \in {"draft", "live"}
  /\ Mishap
  /\ row' = [row EXCEPT ![s] = NoRow]
  /\ UNCHANGED <<session, canvas, save, pull, rename, dialog, descends, owed>>

(* The tab reloads: what was in flight is gone, the session and the canvas  *)
(* come back from localStorage.                                             *)
Reload ==
  /\ Mishap
  /\ save' = Idle /\ rename' = NoVersion
  /\ pull' = [f \in {"check", "load"} |-> NoPull]
  /\ dialog' = NoScene
  /\ UNCHANGED <<row, session, canvas, descends, owed>>

Next ==
  \/ Edit \/ \E mode \in {"auto", "create"} : SaveStarts(mode)
  \/ SaveAims \/ SaveCommits \/ SaveLands \/ SaveRefused \/ SaveFails
  \/ CheckStarts \/ CheckDecides
  \/ \E f \in {"check", "load"} : ServerAnswers(f) \/ Apply(f) \/ PullFails(f)
  \/ \E s \in Scene : LoadStarts(s) \/ OtherSaves(s) \/ OtherDeletes(s)
  \/ KeepLocal \/ RenameSent \/ RenameLands \/ Reload

Spec == Init /\ [][Next]_syncVars
-----------------------------------------------------------------------------
(* Properties                                                               *)

\* Type correctness.
TypeOK ==
  /\ row \in [Scene -> [state : {"unused", "gone", "draft", "live"}, rev : 0..MaxRev,
                        edits : Edits]]
  /\ session \in [scene : Scene \union {NoScene}, rev : 0..MaxRev, dirty : BOOLEAN]
  /\ canvas \in Edits /\ owed \in Edits
  /\ save \in [step : {"none", "prepare", "commit", "answered"},
               mode : {"auto", "create"}, snap : Edits, own : BOOLEAN, same : BOOLEAN,
               at : Version, created : BOOLEAN,
               answer : {"none", "saved", "missing", "conflict"}]
  /\ pull \in [{"check", "load"} ->
       [step : {"none", "meta asked", "meta read", "data asked", "data read"},
        at : Version, edits : Edits]]
  /\ rename \in Version /\ descends \in BOOLEAN
  /\ dialog \in Scene \union {NoScene}
  /\ used \in [edits : 0..MaxEdits, mishaps : 0..MaxMishaps]

(* A saved scene loses an edit in this step.                                *)
Loses(s) == /\ Live(s) /\ row'[s].state = "live"
            /\ ~(row[s].edits \subseteq row'[s].edits)

\* The optimistic lock keeps what other devices saved: a save replaces content
\* its snapshot does not hold only when the revision it was sent with is not
\* the one its snapshot descends from - taken over from a rename or from the
\* server, or read after the session had moved on under the snapshot.
LosesByAdoption ==
  \A s \in Scene : Loses(s) =>
    save.step = "commit" /\ save.at.scene = s /\ ~save.own
LockProtects == [][LosesByAdoption]_syncVars

\* "The server-side optimistic lock is the real safety net - if another client
\* updated in between, the server rejects with SCENE_CONFLICT"
\* (use-cloud-upload.ts:182): no save removes what another device saved.
NoLostUpdate == [][\A s \in Scene : ~Loses(s)]_syncVars

\* A check replaces the canvas without asking only when it is clean: what it
\* throws away was stored, or was drawn while a save or a fetch was under way.
RefreshesClean == Apply("check") => canvas' = canvas \/ owed = {}
RefreshKeepsWork == [][RefreshesClean]_syncVars

-----------------------------------------------------------------------------
(* The invariant the proofs of LosesByAdoption and RefreshesClean go by     *)
(* (RoomEntry_proofs).                                                      *)

ScenesApart == NoScene \notin Scene

Shapes ==
  /\ row \in [Scene -> [state : {"unused", "gone", "draft", "live"}, rev : Nat,
                        edits : SUBSET Nat]]
  /\ session \in [scene : Scene \union {NoScene}, rev : Nat, dirty : BOOLEAN]
  /\ save \in [step : {"none", "prepare", "commit", "answered"},
               mode : {"auto", "create"}, snap : SUBSET Nat, own : BOOLEAN, same : BOOLEAN,
               at : [scene : Scene \union {NoScene}, rev : Nat], created : BOOLEAN,
               answer : {"none", "saved", "missing", "conflict"}]
  /\ pull \in [{"check", "load"} ->
       [step : {"none", "meta asked", "meta read", "data asked", "data read"},
        at : [scene : Scene \union {NoScene}, rev : Nat], edits : SUBSET Nat]]
  /\ rename \in [scene : Scene \union {NoScene}, rev : Nat]
  /\ dialog \in Scene \union {NoScene} /\ descends \in BOOLEAN
  /\ canvas \subseteq Nat /\ used \in [edits : Nat, mishaps : Nat]

\* Revision r of scene s, and the one a rename under way made of it, hold nothing that C
\* lacks; so C descends from r.
Held(rows, renamed, s, r, C) ==
  s \in Scene /\ rows[s].state = "live" =>
    /\ r <= rows[s].rev
    /\ \/ rows[s].rev = r
       \/ renamed.scene = s /\ renamed.rev = r + 1 /\ rows[s].rev = r + 1
       => rows[s].edits \subseteq C

\* What is sent to the server names a scene.
AimsInv ==
  /\ save.step \in {"commit", "answered"} => save.at.scene \in Scene
  /\ \A f \in {"check", "load"} : pull[f].step # "none" => pull[f].at.scene \in Scene

\* A scene that was never saved is known to the save that makes it, if to any.
NamesInv ==
  \A s \in Scene : row[s].state \in {"unused", "draft"} =>
    /\ session.scene # s /\ dialog # s /\ rename.scene # s
    /\ \A f \in {"check", "load"} : pull[f].at.scene # s
    /\ row[s].state = "draft" => row[s].rev = 1
    /\ save.at.scene = s => row[s].state = "draft" /\ save.step = "commit" /\ save.at.rev = 1

\* What descends from a revision holds what it holds: the canvas, the snapshot of a save
\* that is its own, the canvas a save was taken of, what was fetched.
CanvasHeld ==
  descends => session.rev # 0 /\ Held(row, rename, session.scene, session.rev, canvas)
SnapHeld ==
  /\ save.step = "prepare" /\ save.own /\ descends
       => Held(row, rename, session.scene, session.rev, save.snap)
  /\ save.step = "commit" /\ save.own
       => Held(row, rename, save.at.scene, save.at.rev, save.snap)
SavedHeld ==
  /\ save.same => save.snap \subseteq canvas
  /\ save.step = "answered" /\ save.answer = "saved" =>
       save.at.rev # 0 /\ (save.same => Held(row, rename, save.at.scene, save.at.rev, canvas))
PullHeld ==
  \A f \in {"check", "load"} : pull[f].step = "data read" =>
    Held(row, rename, pull[f].at.scene, pull[f].at.rev, pull[f].edits)
RenameBehind ==
  \A s \in Scene : Live(s) /\ rename.scene = s => rename.rev <= row[s].rev
HeldInv == CanvasHeld /\ SnapHeld /\ SavedHeld /\ PullHeld /\ RenameBehind

\* What is owed is on the canvas and in the snapshot, and the session knows of it.
OwedInv ==
  /\ owed \subseteq canvas
  /\ save.step \in {"prepare", "commit"} => owed \subseteq save.snap
  /\ save.step = "answered" /\ save.answer = "saved" => owed = {}
  /\ owed # {} => session.dirty \/ session.scene = NoScene
  /\ pull["check"].step \in {"data asked", "data read"} => owed = {}

SyncInv == Shapes /\ AimsInv /\ NamesInv /\ HeldInv /\ OwedInv
=============================================================================
