------------------------------- MODULE RoomEntry -------------------------------
(***************************************************************************)
(* One editor tab enters, leaves and re-enters rooms while its user draws, *)
(* loads scenes and saves: the join effect of the room hook, the handoff   *)
(* of the canvas, the canvas claim and the hook's visible state            *)
(* (apps/web/src/hooks/excalidraw/use-collaboration-room.ts,               *)
(* use-canvas-handoff.ts, lib/collab/canvas-room-marker.ts,                *)
(* room-state-reducer.ts, join-failure.ts).                                *)
(*                                                                         *)
(* What the canvas holds is a set of tags: a room stands for the content   *)
(* of that room and of the scene it is for, Private for anything else.  A  *)
(* step of an effect that was torn down does nothing, so only the current  *)
(* attempt is kept; a session is only seen as connecting, live, down or    *)
(* ended.  Bound: MaxMoves entries, loads, reloads, role changes and       *)
(* losses of a connection.                                                 *)
(***************************************************************************)
EXTENDS Naturals

CONSTANTS Room, MaxMoves

VARIABLES
  attempt,   \* the join effect that is running: [room, step, tries]
  canvas,    \* the tags of what is on the canvas
  scene,     \* currentSceneId: none, a scene of the user, or the scene of a room
  claim,     \* the room sessionStorage says the canvas belongs to
  session,   \* the session of the attempt
  role,      \* the role the server gives this user now
  ui,        \* the reducer's state
  received,  \* what each room was sent by this tab
  slipped,   \* history: what a room is owed nothing of and gets: see Slips
  moves

entryVars == <<attempt, canvas, scene, claim, session, role, ui, received, slipped, moves>>

None == "none"
Private == "private"
Tags == Room \union {Private}

(* The constants: a room is told from what is none.                         *)
RoomsApart == None \notin Room /\ Private \notin Room /\ MaxMoves \in Nat

NoAttempt == [room |-> None, step |-> "none", tries |-> 0]
InitialRoomState == [status |-> "idle", role |-> None, owns |-> FALSE, withdrawn |-> FALSE]
MaxTries == 3   \* MAX_INITIAL_JOIN_ATTEMPTS

Init ==
  /\ scene \in {None, Private} \union Room
  /\ canvas = IF scene = None THEN {} ELSE {scene}
  /\ attempt = NoAttempt /\ session = "none" /\ claim = None
  /\ role \in {"editor", "viewer"}
  /\ ui = InitialRoomState
  /\ received = [r \in Room |-> {}]
  /\ slipped = [r \in Room |-> {}] /\ moves = 0

Move == moves < MaxMoves /\ moves' = moves + 1
At(step) == attempt.step = step
Goto(step) == attempt' = [attempt EXCEPT !.step = step]
Show(status) == ui' = [ui EXCEPT !.status = status]

(* canvasBelongsToRoom, asked before every read and write of the canvas.    *)
CanSync == session \in {"connecting", "live"} /\ claim = attempt.room

(* The window in which the attempt relies on a canvas it has not claimed.   *)
InHandoff == At("joining") \/ At("waiting")
Claimed == claim # None /\ claim = attempt.room /\ attempt.step \in {"building", "running"}

(* History: what comes onto the canvas in that window comes to the room.    *)
(* Where that was another room's scene, which so is open on a canvas of     *)
(* this one, what the canvas gets under the claim comes to the other.       *)
Slips(tags) ==
  slipped' = IF InHandoff THEN [slipped EXCEPT ![attempt.room] = @ \union tags]
             ELSE IF Claimed /\ scene \in Room \intersect slipped[attempt.room]
             THEN [slipped EXCEPT ![scene] = @ \union tags] ELSE slipped

-----------------------------------------------------------------------------
(* The join effect                                                          *)

(* The link names room r: the running effect is cleaned up, a new one asks  *)
(* for the room; leaving only cleans up.                                    *)
Enter(r) ==
  /\ Move
  /\ attempt' = IF r = None THEN NoAttempt ELSE [room |-> r, step |-> "asked", tries |-> 0]
  /\ session' = "none"
  /\ claim' = IF attempt = NoAttempt THEN claim ELSE None
  /\ ui' = IF r = None THEN InitialRoomState
           ELSE [InitialRoomState EXCEPT !.status = "joining"]
  /\ UNCHANGED <<canvas, scene, role, received, slipped>>

(* join-blocked and failed before there is a session: the effect has ended. *)
Blocked(status) ==
  /\ Goto("stopped") /\ Show(status)
  /\ UNCHANGED <<canvas, scene, claim, session, role, received, slipped, moves>>

(* prepareCanvasForRoom's last block: the scene session and the canvas go.  *)
Cleared == canvas' = {}

(* collaborationRoom.get answered and the key check passed: an owner's open *)
(* scene is the room's, any other canvas has to be given up.                *)
RoomKnown ==
  /\ At("asked")
  /\ \/ \E status \in {"failed", "unauthorized", "join-failed"} : Blocked(status)
     \/ /\ scene = attempt.room /\ Goto("joining")
        /\ UNCHANGED <<canvas, scene, claim, session, role, ui, received, slipped, moves>>
     \/ /\ scene # attempt.room /\ canvas # {}
        /\ Goto("prompt") /\ Show("preparing")
        /\ UNCHANGED <<canvas, scene, claim, session, role, received, slipped, moves>>
     \/ /\ scene # attempt.room /\ canvas = {}
        /\ Goto("joining") /\ Cleared /\ scene' = None /\ claim' = None
        /\ UNCHANGED <<session, role, ui, received, slipped, moves>>

(* The user's choice: cancel, save first, or replace the canvas.            *)
Decided ==
  \/ /\ At("prompt")
     /\ \/ Blocked("cancelled")
        \/ /\ Goto("saving")
           /\ UNCHANGED <<canvas, scene, claim, session, role, ui, received, slipped, moves>>
  \/ At("saving") /\ Blocked("cancelled")                   \* save-failed
  \/ /\ At("prompt") \/ At("saving")
     /\ Goto("joining") /\ Cleared /\ scene' = None /\ claim' = None /\ Show("joining")
     /\ UNCHANGED <<session, role, received, slipped, moves>>

\* Mutation: a rate-limited join is retried for ever.
RateLimitedForever ==
  /\ At("joining") \/ At("waiting")
  /\ attempt' = [attempt EXCEPT !.step = IF @ = "joining" THEN "waiting" ELSE "joining",
                                !.tries = IF At("joining") THEN @ + 1 ELSE @]
  /\ UNCHANGED <<canvas, scene, claim, session, role, ui, received, slipped, moves>>

(* joinWithRateLimitRetry: the wait after a refusal, and the last refusal.  *)
RateLimited ==
  \/ /\ At("joining") /\ attempt.tries < MaxTries - 1
     /\ attempt' = [attempt EXCEPT !.step = "waiting", !.tries = @ + 1]
     /\ UNCHANGED <<canvas, scene, claim, session, role, ui, received, slipped, moves>>
  \/ /\ At("waiting") /\ Goto("joining")
     /\ UNCHANGED <<canvas, scene, claim, session, role, ui, received, slipped, moves>>
  \/ At("joining") /\ attempt.tries = MaxTries - 1 /\ Blocked("rate-limited")

(* The join is refused, fails, or names another generation.                 *)
Refused ==
  /\ At("joining")
  /\ \E status \in {"failed", "unauthorized", "join-failed"} : Blocked(status)

(* The join succeeds: the canvas is claimed and the session built.          *)
Claim ==
  /\ At("joining") /\ Goto("building")
  /\ claim' = attempt.room
  /\ ui' = [ui EXCEPT !.owns = TRUE]
  /\ UNCHANGED <<canvas, scene, session, role, received, slipped, moves>>

(* startCollaborationRoomSession resolves, connecting; or rejects, and the  *)
(* claim is rolled back.                                                    *)
Built ==
  /\ At("building")
  /\ \/ /\ Goto("running") /\ session' = "connecting"
        /\ UNCHANGED <<claim, ui>>
     \/ /\ Goto("stopped") /\ claim' = None
        /\ ui' = [ui EXCEPT !.owns = FALSE, !.status = "join-failed"]
        /\ UNCHANGED session
  /\ UNCHANGED <<canvas, scene, role, received, slipped, moves>>

-----------------------------------------------------------------------------
(* The session                                                              *)

(* The relay grants a role; the baseline is applied and an editor publishes *)
(* the canvas - unless the canvas is no longer the room's.                  *)
Synced ==
  LET r == attempt.room IN
  /\ session = "connecting"
  /\ session' = "live"
  /\ canvas' = IF CanSync THEN canvas \union {r} ELSE canvas
  /\ received' = IF CanSync /\ role = "editor"
                 THEN [received EXCEPT ![r] = @ \union canvas] ELSE received
  /\ ui' = [ui EXCEPT !.status = "connected", !.role = role, !.withdrawn = FALSE]
  /\ Slips({r})
  /\ UNCHANGED <<attempt, scene, claim, role, moves>>

(* The connection is lost, for a revoked membership or for any reason.      *)
Lost ==
  /\ session = "live" /\ Move
  /\ session' = "connecting"
  /\ \E revoked \in BOOLEAN :
       /\ role' \in IF revoked THEN {"editor", "viewer"} ELSE {role}
       /\ ui' = [ui EXCEPT !.status = "reconnecting", !.withdrawn = @ \/ revoked]
  /\ UNCHANGED <<attempt, canvas, scene, claim, received, slipped>>

(* Recovery stops: the status says so, the canvas stays claimed.            *)
Fails ==
  /\ session \in {"connecting", "live"}
  /\ session' = "ended" /\ Show("failed")
  /\ UNCHANGED <<attempt, canvas, scene, claim, role, received, slipped, moves>>

-----------------------------------------------------------------------------
(* The user                                                                 *)

(* Whose content something new on the canvas is.                            *)
NewTag == IF Claimed THEN claim ELSE IF scene \in Room THEN scene ELSE Private

IsReadOnly == ui.owns /\ (ui.withdrawn \/ ui.role = "viewer")

(* What a live session of an editor flushes of the changed canvas.          *)
Flushed ==
  received' = IF CanSync /\ session = "live" /\ role = "editor"
              THEN [received EXCEPT ![attempt.room] = @ \union canvas'] ELSE received

(* handleSceneChange: something is drawn.                                   *)
Draw ==
  /\ ~IsReadOnly /\ ~At("prompt") /\ ~At("saving")
  /\ canvas' = canvas \union {NewTag}
  /\ Flushed
  /\ Slips({NewTag})
  /\ UNCHANGED <<attempt, scene, claim, session, role, ui, moves>>

\* Mutation: loading a scene leaves the claim to the hook.
ClaimAfterLoadKept == claim' = claim

(* applyRemoteScene and clearCurrentSceneSessionFromStorage release the     *)
(* claim in the block that replaces the canvas.                             *)
ClaimAfterLoad == claim' = None

(* Another scene is loaded, or a new one begun, in place of what is there.  *)
LoadScene(s) ==
  /\ Move /\ ~At("prompt") /\ ~At("saving")
  /\ scene' = s
  /\ canvas' = IF s = None THEN {} ELSE {s}
  /\ ClaimAfterLoad
  /\ slipped' = IF InHandoff THEN [slipped EXCEPT ![attempt.room] = @ \union canvas'] ELSE slipped
  /\ UNCHANGED <<attempt, session, role, ui, received>>

(* A file is imported over the canvas, and no claim is released.  The menu  *)
(* withholds it while a room owns the canvas, the welcome screen of an      *)
(* empty canvas does not: like a drawing, the file then is the room's.      *)
ImportFile ==
  /\ Move /\ ~At("prompt") /\ ~At("saving")
  /\ ui.owns => canvas = {} /\ ~IsReadOnly
  /\ canvas' = {NewTag}
  /\ Flushed
  /\ Slips({NewTag})
  /\ UNCHANGED <<attempt, scene, claim, session, role, ui>>

(* A canvas without a scene is saved as a new scene of the user: the claim  *)
(* stays (saveCurrentSceneIdToStorage).                                     *)
SaveCopy ==
  /\ scene = None /\ canvas # {}
  /\ scene' = Private
  /\ UNCHANGED <<attempt, canvas, claim, session, role, ui, received, slipped, moves>>

(* The page is reloaded: the claim and the scene survive it, and the effect *)
(* starts over.  Of an unsaved canvas there is only what was cached.        *)
Reload ==
  /\ Move
  /\ attempt' = IF attempt = NoAttempt THEN NoAttempt
                ELSE [room |-> attempt.room, step |-> "asked", tries |-> 0]
  /\ session' = "none"
  /\ \E cached \in SUBSET {Private} :
       canvas' = IF scene # None THEN canvas ELSE cached
  /\ ui' = [InitialRoomState EXCEPT !.status = IF attempt = NoAttempt THEN "idle" ELSE "joining"]
  /\ UNCHANGED <<scene, claim, role, received, slipped>>

Next ==
  \/ \E r \in Room \union {None} : Enter(r)
  \/ RoomKnown \/ Decided \/ RateLimited \/ Refused \/ Claim \/ Built
  \/ Synced \/ Lost \/ Fails
  \/ Draw \/ ImportFile \/ SaveCopy \/ Reload
  \/ \E s \in Tags \union {None} : LoadScene(s)

Spec == Init /\ [][Next]_entryVars
-----------------------------------------------------------------------------
(* Properties                                                               *)

\* Type correctness.
TypeOK ==
  /\ attempt \in [room : Room \union {None}, tries : 0..MaxTries,
       step : {"none", "asked", "prompt", "saving", "joining", "waiting", "building",
               "running", "stopped"}]
  /\ canvas \subseteq Tags /\ scene \in Tags \union {None} /\ claim \in Room \union {None}
  /\ session \in {"none", "connecting", "live", "ended"}
  /\ role \in {"editor", "viewer"}
  /\ ui \in [status : {"idle", "preparing", "joining", "connected", "reconnecting", "failed",
                       "unauthorized", "join-failed", "rate-limited", "cancelled"},
             role : {None, "editor", "viewer"}, owns : BOOLEAN, withdrawn : BOOLEAN]
  /\ received \in [Room -> SUBSET Tags]
  /\ slipped \in [Room -> SUBSET Tags] /\ moves \in 0..MaxMoves

\* A room is sent nothing but what is the room's: not the work that was on the
\* canvas before, not another room's scene, nothing that is loaded or begun while
\* the session lives on.  Only what came onto the canvas after it was handed to the
\* room and before it was claimed (use-collaboration-room.ts:103-115) goes with it,
\* and where that was another room's scene, the work that it was mixed with goes to
\* that room when it is entered.
RoomGetsItsOwn == \A r \in Room : received[r] \subseteq {r} \union slipped[r]
=============================================================================
