--------------------------- MODULE RoomEntry_proofs ---------------------------
(***************************************************************************)
(* A room is sent nothing but its own, for any rooms and however often the *)
(* user enters, leaves, loads, imports, reloads and reconnects.  After it  *)
(* RoomSession, the session an entry builds, and SceneSync, the saves and  *)
(* loads of a scene: instances of their modules, with variables of their   *)
(* own.                                                                    *)
(***************************************************************************)
EXTENDS RoomEntry, TLAPS

-----------------------------------------------------------------------------
(* The inductive invariant.                                                *)

\* An effect that runs has a room, and a session an effect that runs.
AttemptInv ==
  /\ IF attempt.step = "none" THEN attempt = NoAttempt ELSE attempt.room \in Room
  /\ session # "none" => At("running")

\* What a room may get, and a canvas that may become its: of what the room may get, as the
\* scene that is open is, if it is a room's.
Its(r) == {r} \union slipped[r]
Holds(r) == canvas \subseteq Its(r) /\ (scene \in Room => scene \in Its(r))

\* A canvas that was handed to the room, or is claimed, holds no more than what the room may get.
HandoffInv == InHandoff => Holds(attempt.room)
ClaimInv == Claimed => Holds(attempt.room)

\* The scene of a room is drawn by what that room may get.
SceneInv == scene \in Room => canvas \subseteq Its(scene)

SentInv == \A r \in Room : received[r] \subseteq Its(r)

\* The part of the invariant that is about the canvas.
Clean == HandoffInv /\ ClaimInv /\ SceneInv /\ SentInv

IInv == TypeOK /\ AttemptInv /\ Clean

-----------------------------------------------------------------------------
(* Types.                                                                  *)

Attempts ==
  [room : Room \union {None}, tries : 0..MaxTries,
   step : {"none", "asked", "prompt", "saving", "joining", "waiting", "building",
           "running", "stopped"}]

Shown ==
  [status : {"idle", "preparing", "joining", "connected", "reconnecting", "failed",
             "unauthorized", "join-failed", "rate-limited", "cancelled"},
   role : {None, "editor", "viewer"}, owns : BOOLEAN, withdrawn : BOOLEAN]

\* The history grows, by what it is told of.
LEMMA SlipsKeep ==
  ASSUME TypeOK, NEW r \in Room, NEW tags \in SUBSET Tags,
         slipped' = [slipped EXCEPT ![r] = @ \union tags]
  PROVE  /\ slipped' \in [Room -> SUBSET Tags] /\ tags \subseteq slipped'[r]
         /\ \A o \in Room : slipped[o] \subseteq slipped'[o]
BY DEF TypeOK

LEMMA SlipsTyped ==
  ASSUME TypeOK, AttemptInv, NEW tags \in SUBSET Tags, Slips(tags)
  PROVE  /\ slipped' \in [Room -> SUBSET Tags]
         /\ \A o \in Room : slipped[o] \subseteq slipped'[o]
         /\ InHandoff => tags \subseteq slipped'[attempt.room]
         /\ Claimed /\ scene \in Room \intersect slipped[attempt.room] => tags \subseteq slipped'[scene]
<1>1. InHandoff \/ Claimed => attempt.room \in Room
  BY DEF AttemptInv, InHandoff, Claimed, At
<1>2. CASE InHandoff
  <2>1. ~Claimed
    BY <1>2 DEF InHandoff, Claimed, At
  <2>. QED
    BY <1>1, <1>2, <2>1, SlipsKeep DEF Slips
<1>3. CASE ~InHandoff /\ Claimed /\ scene \in Room \intersect slipped[attempt.room]
  BY <1>3, SlipsKeep DEF Slips
<1>4. CASE ~InHandoff /\ ~(Claimed /\ scene \in Room \intersect slipped[attempt.room])
  BY <1>4 DEF Slips, TypeOK
<1>. QED
  BY <1>2, <1>3, <1>4

LEMMA JoinTyped ==
  ASSUME TypeOK, RoomsApart,
         RoomKnown \/ Decided \/ RateLimited \/ Refused \/ Claim \/ Built
  PROVE  TypeOK'
<1>. USE DEF RoomsApart
<1>1. attempt' \in Attempts
  <2>1. ASSUME NEW step \in {"prompt", "saving", "joining", "building", "running", "stopped"},
               Goto(step)
        PROVE  attempt' \in Attempts
    BY <2>1 DEF TypeOK, Goto, Attempts
  <2>2. CASE RateLimited
    <3>1. CASE At("joining") /\ attempt.tries < MaxTries - 1
               /\ attempt' = [attempt EXCEPT !.step = "waiting", !.tries = @ + 1]
      <4>1. attempt \in Attempts /\ attempt.tries \in 0..3
        BY DEF TypeOK, Attempts, MaxTries
      <4>2. PICK n \in 0..3 : n = attempt.tries + 1
        BY <3>1, <4>1 DEF MaxTries
      <4>3. attempt' = [attempt EXCEPT !.step = "waiting", !.tries = n]
        BY <3>1, <4>2
      <4>. QED
        BY <4>1, <4>3 DEF Attempts, MaxTries
    <3>2. CASE Goto("joining") \/ Goto("stopped")
      BY <2>1, <3>2
    <3>. QED
      BY <2>2, <3>1, <3>2 DEF RateLimited, Blocked
  <2>3. CASE RoomKnown \/ Decided \/ Refused \/ Claim \/ Built
    <3>1. \/ Goto("prompt") \/ Goto("saving") \/ Goto("joining") \/ Goto("building")
          \/ Goto("running") \/ Goto("stopped")
      BY <2>3 DEF RoomKnown, Decided, Refused, Claim, Built, Blocked
    <3>. QED
      BY <2>1, <3>1
  <2>. QED
    BY <2>2, <2>3
<1>2. ui' \in Shown
  BY DEF TypeOK, RoomKnown, Decided, RateLimited, Refused, Claim, Built, Show, Blocked, Shown
<1>3. /\ canvas' \subseteq Tags /\ scene' \in Tags \union {None} /\ claim' \in Room \union {None}
      /\ session' \in {"none", "connecting", "live", "ended"}
  BY DEF TypeOK, RoomKnown, Decided, RateLimited, Refused, Claim, Built, Blocked, Cleared, Attempts
<1>4. UNCHANGED <<role, received, slipped, moves>>
  BY DEF RoomKnown, Decided, RateLimited, Refused, Claim, Built, Blocked
<1>. QED
  BY <1>1, <1>2, <1>3, <1>4 DEF TypeOK, Attempts, Shown

LEMMA SessionTyped ==
  ASSUME TypeOK, AttemptInv, RoomsApart, Synced \/ Lost \/ Fails
  PROVE  TypeOK'
<1>. USE DEF RoomsApart
<1>1. ui' \in Shown
  <2>1. CASE Synced
    BY <2>1 DEF TypeOK, Synced, Shown
  <2>2. CASE Lost
    <3>1. PICK revoked \in BOOLEAN :
            ui' = [ui EXCEPT !.status = "reconnecting", !.withdrawn = @ \/ revoked]
      BY <2>2 DEF Lost
    <3>. QED
      BY <3>1 DEF TypeOK, Shown
  <2>3. CASE Fails
    BY <2>3 DEF TypeOK, Fails, Show, Shown
  <2>. QED
    BY <2>1, <2>2, <2>3
<1>2. canvas' \subseteq Tags /\ received' \in [Room -> SUBSET Tags]
  <2>1. CASE Synced
    <3>1. CASE CanSync
      <4>1. attempt.room \in Room
        BY <3>1 DEF CanSync, TypeOK, AttemptInv, At
      <4>. QED
        BY <2>1, <3>1, <4>1 DEF Synced, TypeOK, Tags
    <3>2. CASE ~CanSync
      BY <2>1, <3>2 DEF Synced, TypeOK
    <3>. QED
      BY <3>1, <3>2
  <2>2. CASE Lost \/ Fails
    BY <2>2 DEF Lost, Fails, TypeOK
  <2>. QED
    BY <2>1, <2>2
<1>3. session' \in {"none", "connecting", "live", "ended"} /\ moves' \in 0..MaxMoves
      /\ role' \in {"editor", "viewer"}
  <2>1. CASE Synced \/ Fails
    BY <2>1 DEF TypeOK, Synced, Fails
  <2>2. CASE Lost
    <3>1. PICK revoked \in BOOLEAN : role' \in IF revoked THEN {"editor", "viewer"} ELSE {role}
      BY <2>2 DEF Lost
    <3>2. role' \in {"editor", "viewer"}
      BY <3>1 DEF TypeOK
    <3>3. session' = "connecting" /\ moves < MaxMoves /\ moves' = moves + 1
      BY <2>2 DEF Lost, Move
    <3>. QED
      BY <3>2, <3>3 DEF TypeOK
  <2>. QED
    BY <2>1, <2>2
<1>4. UNCHANGED <<attempt, scene, claim>>
  BY DEF Synced, Lost, Fails
<1>5. slipped' \in [Room -> SUBSET Tags]
  <2>1. CASE Synced
    <3>1. Slips({attempt.room}) /\ attempt.room \in Room
      BY <2>1 DEF Synced, AttemptInv, At
    <3>2. {attempt.room} \in SUBSET Tags
      BY <3>1 DEF Tags
    <3>. QED
      BY <3>1, <3>2, SlipsTyped
  <2>2. CASE Lost \/ Fails
    BY <2>2 DEF Lost, Fails, TypeOK
  <2>. QED
    BY <2>1, <2>2
<1>. QED
  BY <1>1, <1>2, <1>3, <1>4, <1>5 DEF TypeOK, Shown

\* Whatever is drawn or imported is of a room, or private.
LEMMA NewTagTyped ==
  ASSUME TypeOK
  PROVE  NewTag \in Tags /\ (NewTag = claim \/ NewTag = scene \/ NewTag = Private)
BY DEF TypeOK, NewTag, Claimed, Tags

LEMMA UserTyped ==
  ASSUME TypeOK, AttemptInv, RoomsApart, Draw \/ ImportFile \/ SaveCopy \/ Reload
  PROVE  TypeOK'
<1>. USE DEF RoomsApart
<1>1. canvas' \subseteq Tags
  BY NewTagTyped DEF TypeOK, Draw, ImportFile, SaveCopy, Reload, Tags
<1>2. received' \in [Room -> SUBSET Tags]
  BY <1>1 DEF TypeOK, Draw, ImportFile, SaveCopy, Reload, Flushed
<1>3. attempt' \in Attempts
  BY DEF TypeOK, Draw, ImportFile, SaveCopy, Reload, Attempts, MaxTries, NoAttempt
<1>4. ui' \in Shown
  BY DEF TypeOK, Draw, ImportFile, SaveCopy, Reload, Shown, InitialRoomState
<1>5. /\ scene' \in Tags \union {None} /\ claim' \in Room \union {None}
      /\ session' \in {"none", "connecting", "live", "ended"}
      /\ role' \in {"editor", "viewer"} /\ moves' \in 0..MaxMoves
  BY DEF TypeOK, Draw, ImportFile, SaveCopy, Reload, Tags, Move
<1>6. slipped' \in [Room -> SUBSET Tags]
  <2>1. CASE Draw \/ ImportFile
    <3>1. Slips({NewTag}) /\ {NewTag} \in SUBSET Tags
      BY <2>1, NewTagTyped DEF Draw, ImportFile
    <3>. QED
      BY <3>1, SlipsTyped
  <2>2. CASE SaveCopy \/ Reload
    BY <2>2 DEF SaveCopy, Reload, TypeOK
  <2>. QED
    BY <2>1, <2>2
<1>. QED
  BY <1>1, <1>2, <1>3, <1>4, <1>5, <1>6 DEF TypeOK, Attempts, Shown

LEMMA MovesTyped ==
  ASSUME TypeOK, AttemptInv, RoomsApart,
         (\E r \in Room \union {None} : Enter(r)) \/ (\E s \in Tags \union {None} : LoadScene(s))
  PROVE  TypeOK'
<1>. USE DEF RoomsApart
<1>1. ASSUME NEW r \in Room \union {None}, Enter(r)
      PROVE  TypeOK'
  <2>1. attempt' \in Attempts
    BY <1>1 DEF Enter, Attempts, NoAttempt, MaxTries
  <2>2. ui' \in Shown
    BY <1>1 DEF Enter, Shown, InitialRoomState
  <2>3. /\ session' = "none" /\ claim' \in Room \union {None} /\ moves' \in 0..MaxMoves
        /\ UNCHANGED <<canvas, scene, role, received, slipped>>
    BY <1>1 DEF Enter, Move, TypeOK
  <2>. QED
    BY <2>1, <2>2, <2>3 DEF TypeOK, Attempts, Shown
<1>2. ASSUME NEW s \in Tags \union {None}, LoadScene(s)
      PROVE  TypeOK'
  <2>1. scene' \in Tags \union {None} /\ canvas' \subseteq Tags /\ claim' = None
        /\ moves' \in 0..MaxMoves /\ UNCHANGED <<attempt, session, role, ui, received>>
    BY <1>2 DEF LoadScene, ClaimAfterLoad, Move, TypeOK
  <2>2. slipped' \in [Room -> SUBSET Tags]
    <3>1. CASE InHandoff
      <4>1. attempt.room \in Room
        BY <3>1 DEF AttemptInv, InHandoff, At
      <4>. QED
        BY <1>2, <2>1, <3>1, <4>1, SlipsKeep DEF LoadScene
    <3>2. CASE ~InHandoff
      BY <1>2, <3>2 DEF LoadScene, TypeOK
    <3>. QED
      BY <3>1, <3>2
  <2>. QED
    BY <2>1, <2>2 DEF TypeOK
<1>. QED
  BY <1>1, <1>2

-----------------------------------------------------------------------------
(* What a room is sent.                                                    *)

LEMMA GotoFields ==
  ASSUME TypeOK, NEW step, Goto(step)
  PROVE  attempt'.step = step /\ attempt'.room = attempt.room
BY DEF TypeOK, Goto

\* An effect that has stopped, or is about to build its session or to ask its user,
\* relies on nothing but the claim.
LEMMA BlockedClean ==
  ASSUME IInv, NEW status, Blocked(status), session = "none", attempt.room \in Room
  PROVE  AttemptInv' /\ Clean'
<1>1. attempt'.step = "stopped" /\ attempt'.room = attempt.room
  BY GotoFields DEF IInv, Blocked
<1>2. UNCHANGED <<canvas, scene, claim, session, received, slipped>>
  BY DEF Blocked
<1>. QED
  BY <1>1, <1>2 DEF IInv, AttemptInv, Clean, HandoffInv, ClaimInv, SceneInv, SentInv, InHandoff, At, Claimed, Holds, Its

\* The canvas is given up: it is empty, and no scene is open.
LEMMA ClearedClean ==
  ASSUME IInv, Goto("joining"), Cleared, scene' = None, claim' = None, session = "none",
         UNCHANGED <<session, received, slipped>>, attempt.room \in Room, RoomsApart
  PROVE  AttemptInv' /\ Clean'
<1>1. attempt'.step = "joining" /\ attempt'.room = attempt.room
  BY GotoFields DEF IInv
<1>. QED
  BY <1>1 DEF IInv, Cleared, AttemptInv, Clean, HandoffInv, ClaimInv, SceneInv, SentInv, InHandoff, At, Claimed, Holds, Its,
              RoomsApart

LEMMA JoinClean ==
  ASSUME IInv, RoomsApart, RoomKnown \/ Decided \/ RateLimited \/ Refused \/ Claim \/ Built
  PROVE  AttemptInv' /\ Clean'
<1>1. attempt.step \in {"asked", "prompt", "saving", "joining", "waiting", "building"}
  BY DEF RoomKnown, Decided, RateLimited, Refused, Claim, Built, At
<1>2. session = "none" /\ attempt.room \in Room /\ TypeOK /\ Clean
  BY <1>1 DEF IInv, AttemptInv, At, Clean
<1>3. ASSUME NEW status, Blocked(status)
      PROVE  AttemptInv' /\ Clean'
  BY <1>2, <1>3, BlockedClean
<1>4. CASE RoomKnown
  <2>1. CASE scene = attempt.room /\ Goto("joining") /\ UNCHANGED <<canvas, scene, claim, session, received, slipped>>
    <3>1. attempt'.step = "joining" /\ attempt'.room = attempt.room
      BY <1>2, <2>1, GotoFields
    <3>. QED
      BY <1>2, <2>1, <3>1 DEF AttemptInv, Clean, HandoffInv, ClaimInv, SceneInv, SentInv,
                              InHandoff, At, Claimed, Holds, Its
  <2>2. CASE Goto("prompt") /\ UNCHANGED <<canvas, scene, claim, session, received, slipped>>
    <3>1. attempt'.step = "prompt" /\ attempt'.room = attempt.room
      BY <1>2, <2>2, GotoFields
    <3>. QED
      BY <1>2, <2>2, <3>1 DEF AttemptInv, Clean, HandoffInv, ClaimInv, SceneInv, SentInv,
                              InHandoff, At, Claimed, Holds, Its
  <2>3. CASE Goto("joining") /\ Cleared /\ scene' = None /\ claim' = None
             /\ UNCHANGED <<session, received, slipped>>
    BY <1>2, <2>3, ClearedClean
  <2>4. CASE \E status \in {"failed", "unauthorized", "join-failed"} : Blocked(status)
    BY <1>3, <2>4
  <2>. QED
    BY <1>4, <2>1, <2>2, <2>3, <2>4 DEF RoomKnown
<1>5. CASE Decided
  <2>1. CASE \E status \in {"cancelled"} : Blocked(status)
    BY <1>3, <2>1
  <2>2. CASE Goto("saving") /\ UNCHANGED <<canvas, scene, claim, session, received, slipped>>
    <3>1. attempt'.step = "saving" /\ attempt'.room = attempt.room
      BY <1>2, <2>2, GotoFields
    <3>. QED
      BY <1>2, <2>2, <3>1 DEF AttemptInv, Clean, HandoffInv, ClaimInv, SceneInv, SentInv,
                              InHandoff, At, Claimed, Holds, Its
  <2>3. CASE Goto("joining") /\ Cleared /\ scene' = None /\ claim' = None
             /\ UNCHANGED <<session, received, slipped>>
    BY <1>2, <2>3, ClearedClean
  <2>. QED
    BY <1>5, <2>1, <2>2, <2>3 DEF Decided
<1>6. CASE RateLimited
  <2>1. CASE \E status \in {"rate-limited"} : Blocked(status)
    BY <1>3, <2>1
  <2>2. CASE ~\E status \in {"rate-limited"} : Blocked(status)
    <3>1. /\ attempt'.step \in {"waiting", "joining"} /\ attempt'.room = attempt.room
          /\ attempt.step \in {"waiting", "joining"}
          /\ UNCHANGED <<canvas, scene, claim, session, received, slipped>>
      BY <1>2, <1>6, <2>2 DEF RateLimited, TypeOK, Goto, At
    <3>. QED
      BY <1>2, <3>1 DEF AttemptInv, Clean, HandoffInv, ClaimInv, SceneInv, SentInv, InHandoff, At, Claimed, Holds, Its
  <2>. QED
    BY <2>1, <2>2
<1>7. CASE Refused
  BY <1>3, <1>7 DEF Refused
<1>8. CASE Claim
  <2>1. attempt'.step = "building" /\ attempt'.room = attempt.room
    BY <1>2, <1>8, GotoFields DEF Claim
  <2>. QED
    BY <1>2, <1>8, <2>1 DEF Claim, AttemptInv, Clean, HandoffInv, ClaimInv, SceneInv, SentInv,
                            InHandoff, At, Claimed, Holds, Its, RoomsApart
<1>9. CASE Built
  <2>1. CASE Goto("running") /\ UNCHANGED <<canvas, scene, claim, received, slipped>> /\ At("building")
    <3>1. attempt'.step = "running" /\ attempt'.room = attempt.room
      BY <1>2, <2>1, GotoFields
    <3>. QED
      BY <1>2, <2>1, <3>1 DEF AttemptInv, Clean, HandoffInv, ClaimInv, SceneInv, SentInv,
                              InHandoff, At, Claimed, Holds, Its
  <2>2. CASE Goto("stopped") /\ UNCHANGED <<canvas, scene, session, received, slipped>>
    <3>1. attempt'.step = "stopped" /\ attempt'.room = attempt.room
      BY <1>2, <2>2, GotoFields
    <3>. QED
      BY <1>2, <2>2, <3>1 DEF AttemptInv, Clean, HandoffInv, ClaimInv, SceneInv, SentInv,
                              InHandoff, At, Claimed, Holds, Its
  <2>. QED
    BY <1>9, <2>1, <2>2 DEF Built
<1>. QED
  BY <1>4, <1>5, <1>6, <1>7, <1>8, <1>9

\* A session writes to the canvas, and sends it, only where the canvas is claimed.
LEMMA SyncClaimed ==
  ASSUME IInv, RoomsApart, session # "none"
  PROVE  /\ attempt.room \in Room /\ ~InHandoff /\ (claim = attempt.room => Claimed)
         /\ CanSync => Claimed /\ canvas \subseteq Its(attempt.room)
BY DEF IInv, AttemptInv, CanSync, Claimed, InHandoff, At, RoomsApart, Clean, ClaimInv, Holds

\* What is new on the canvas is of the room where the canvas is claimed, and of the scene
\* where it is not.
LEMMA TagClean ==
  ASSUME IInv
  PROVE  /\ NewTag \in Tags /\ (Claimed => NewTag = attempt.room)
         /\ ~Claimed /\ scene \in Room => NewTag = scene
BY NewTagTyped DEF IInv, NewTag, Claimed

\* A canvas that something is added to, or that is replaced by it: of the room where the
\* canvas is claimed, of the scene where it is not.
LEMMA AddedClean ==
  ASSUME IInv, RoomsApart, NEW tag \in Tags, Slips({tag}), UNCHANGED <<attempt, scene, claim>>,
         canvas' \in {canvas \union {tag}, {tag}},
         Claimed => tag = attempt.room, ~Claimed /\ scene \in Room => tag = scene
  PROVE  /\ HandoffInv' /\ ClaimInv' /\ SceneInv'
         /\ \A r \in Room : Its(r) \subseteq Its(r)'
<1>1. TypeOK /\ AttemptInv /\ HandoffInv /\ ClaimInv /\ SceneInv
  BY DEF IInv, Clean
<1>2. {tag} \in SUBSET Tags
  OBVIOUS
<1>3. /\ \A o \in Room : slipped[o] \subseteq slipped'[o]
      /\ InHandoff => tag \in slipped'[attempt.room]
      /\ Claimed /\ scene \in Room \intersect slipped[attempt.room] => tag \in slipped'[scene]
  BY <1>1, <1>2, SlipsTyped
<1>4. \A r \in Room : Its(r) \subseteq Its(r)'
  BY <1>3 DEF Its
<1>5. InHandoff \/ Claimed => attempt.room \in Room
  BY <1>1 DEF AttemptInv, InHandoff, Claimed, At
<1>6. InHandoff' = InHandoff /\ Claimed' = Claimed
  BY DEF InHandoff, Claimed, At
<1>7. HandoffInv'
  <2>1. SUFFICES ASSUME InHandoff PROVE Holds(attempt.room)'
    BY <1>6 DEF HandoffInv
  <2>2. tag \in Its(attempt.room)'
    BY <1>3, <2>1 DEF Its
  <2>. QED
    BY <1>1, <1>4, <1>5, <2>1, <2>2 DEF HandoffInv, Holds
<1>8. ClaimInv'
  <2>1. SUFFICES ASSUME Claimed PROVE Holds(attempt.room)'
    BY <1>6 DEF ClaimInv
  <2>2. tag \in Its(attempt.room)'
    BY <2>1 DEF Its
  <2>. QED
    BY <1>1, <1>4, <1>5, <2>1, <2>2 DEF ClaimInv, Holds
<1>9. SceneInv'
  <2>1. SUFFICES ASSUME scene \in Room PROVE canvas' \subseteq Its(scene)'
    BY DEF SceneInv
  <2>2. tag \in Its(scene)'
    <3>1. CASE ~Claimed
      BY <2>1, <3>1 DEF Its
    <3>2. CASE Claimed
      <4>1. scene \in Its(attempt.room) /\ tag = attempt.room
        BY <1>1, <2>1, <3>2 DEF ClaimInv, Holds
      <4>2. CASE scene = attempt.room
        BY <4>1, <4>2 DEF Its
      <4>3. CASE scene # attempt.room
        BY <1>3, <2>1, <3>2, <4>1, <4>3 DEF Its
      <4>. QED
        BY <4>2, <4>3
    <3>. QED
      BY <3>1, <3>2
  <2>. QED
    BY <1>1, <1>4, <2>1, <2>2 DEF SceneInv
<1>. QED
  BY <1>4, <1>7, <1>8, <1>9

\* A canvas that may be synchronised is the room's.
LEMMA SyncedClean ==
  ASSUME IInv, RoomsApart, Synced
  PROVE  AttemptInv' /\ Clean'
<1>1. /\ session = "connecting" /\ UNCHANGED <<attempt, scene, claim>> /\ Slips({attempt.room})
      /\ received \in [Room -> SUBSET Tags] /\ SentInv /\ TypeOK /\ AttemptInv
  BY DEF Synced, IInv, TypeOK, Clean
<1>2. AttemptInv'
  BY <1>1 DEF Synced, AttemptInv, At
<1>3. /\ attempt.room \in Room /\ attempt.room \in Tags /\ ~InHandoff
      /\ CanSync => Claimed /\ canvas \subseteq Its(attempt.room)
      /\ Claimed => CanSync
  BY <1>1, SyncClaimed DEF Tags, CanSync, Claimed
<1>4. CASE CanSync
  <2>1. canvas' \in {canvas \union {attempt.room}, {attempt.room}}
    BY <1>4 DEF Synced
  <2>2. /\ HandoffInv' /\ ClaimInv' /\ SceneInv'
        /\ \A r \in Room : Its(r) \subseteq Its(r)'
    BY <1>1, <1>3, <1>4, <2>1, AddedClean
  <2>3. received' = received
        \/ received' = [received EXCEPT ![attempt.room] = @ \union canvas]
    BY DEF Synced
  <2>4. SentInv'
    BY <1>1, <1>3, <1>4, <2>2, <2>3 DEF SentInv
  <2>. QED
    BY <1>2, <2>2, <2>4 DEF Clean
<1>5. CASE ~CanSync
  <2>1. UNCHANGED <<attempt, canvas, scene, claim, received, slipped>>
    BY <1>1, <1>3, <1>5 DEF Synced, Slips
  <2>. QED
    BY <1>2, <2>1 DEF IInv, Clean, HandoffInv, ClaimInv, SceneInv, SentInv, InHandoff, At, Claimed, Holds, Its
<1>. QED
  BY <1>4, <1>5

LEMMA ConnectionClean ==
  ASSUME IInv, Lost \/ Fails
  PROVE  AttemptInv' /\ Clean'
<1>1. UNCHANGED <<attempt, canvas, scene, claim, received, slipped>> /\ session # "none"
  BY DEF Lost, Fails
<1>. QED
  BY <1>1 DEF IInv, AttemptInv, Clean, HandoffInv, ClaimInv, SceneInv, SentInv, InHandoff, At,
              Claimed, Holds, Its

\* What is flushed of a canvas that is the room's.
LEMMA FlushedClean ==
  ASSUME IInv, RoomsApart, Flushed, ClaimInv', UNCHANGED <<attempt, claim>>,
         \A r \in Room : Its(r) \subseteq Its(r)'
  PROVE  SentInv'
<1>1. SentInv /\ received \in [Room -> SUBSET Tags]
  BY DEF Clean, IInv, TypeOK
<1>2. CASE CanSync
  <2>1. Claimed /\ attempt.room \in Room
    BY <1>2, SyncClaimed DEF CanSync
  <2>2. canvas' \subseteq Its(attempt.room)'
    BY <2>1 DEF ClaimInv, Claimed, Holds
  <2>3. received' = received \/ received' = [received EXCEPT ![attempt.room] = @ \union canvas']
    BY DEF Flushed
  <2>. QED
    BY <1>1, <2>1, <2>2, <2>3 DEF SentInv
<1>3. CASE ~CanSync
  BY <1>1, <1>3 DEF Flushed, SentInv
<1>. QED
  BY <1>2, <1>3

LEMMA DrawClean ==
  ASSUME IInv, RoomsApart, Draw \/ ImportFile
  PROVE  AttemptInv' /\ Clean'
<1>1. /\ UNCHANGED <<attempt, scene, claim, session>> /\ Flushed /\ Slips({NewTag})
      /\ canvas' \in {canvas \union {NewTag}, {NewTag}}
  BY DEF Draw, ImportFile
<1>2. AttemptInv'
  BY <1>1 DEF IInv, AttemptInv, At
<1>3. /\ HandoffInv' /\ ClaimInv' /\ SceneInv'
      /\ \A r \in Room : Its(r) \subseteq Its(r)'
  BY <1>1, TagClean, AddedClean
<1>4. SentInv'
  BY <1>1, <1>3, FlushedClean
<1>. QED
  BY <1>2, <1>3, <1>4 DEF Clean

LEMMA SaveCopyClean ==
  ASSUME IInv, RoomsApart, SaveCopy
  PROVE  AttemptInv' /\ Clean'
<1>1. /\ UNCHANGED <<attempt, canvas, claim, session, received, slipped>> /\ scene' = Private
  BY DEF SaveCopy
<1>. QED
  BY <1>1 DEF IInv, AttemptInv, Clean, HandoffInv, ClaimInv, SceneInv, SentInv, InHandoff, At,
              Claimed, Holds, Its, RoomsApart

LEMMA ReloadClean ==
  ASSUME IInv, RoomsApart, Reload
  PROVE  AttemptInv' /\ Clean'
<1>1. /\ UNCHANGED <<scene, claim, received, slipped>> /\ session' = "none"
      /\ scene # None => canvas' = canvas
      /\ attempt' = IF attempt = NoAttempt THEN NoAttempt
                    ELSE [room |-> attempt.room, step |-> "asked", tries |-> 0]
  BY DEF Reload
<1>2. /\ attempt'.step \in {"none", "asked"}
      /\ attempt'.step # "none" => attempt'.room = attempt.room /\ attempt # NoAttempt
  BY <1>1 DEF NoAttempt
<1>3. attempt'.step = "none" => attempt' = NoAttempt
  BY <1>1 DEF NoAttempt
<1>. QED
  BY <1>1, <1>2, <1>3 DEF IInv, AttemptInv, Clean, HandoffInv, ClaimInv, SceneInv, SentInv,
                          InHandoff, At, Claimed, Holds, Its, RoomsApart

LEMMA EnterClean ==
  ASSUME IInv, RoomsApart, NEW r \in Room \union {None}, Enter(r)
  PROVE  AttemptInv' /\ Clean'
<1>1. /\ UNCHANGED <<canvas, scene, received, slipped>> /\ session' = "none"
      /\ attempt' = IF r = None THEN NoAttempt ELSE [room |-> r, step |-> "asked", tries |-> 0]
  BY DEF Enter
<1>2. /\ attempt'.step \in {"none", "asked"}
      /\ IF attempt'.step = "none" THEN attempt' = NoAttempt ELSE attempt'.room \in Room
  BY <1>1 DEF NoAttempt
<1>. QED
  BY <1>1, <1>2 DEF IInv, AttemptInv, Clean, HandoffInv, ClaimInv, SceneInv, SentInv, InHandoff, At,
                    Claimed, Holds, Its

LEMMA LoadClean ==
  ASSUME IInv, RoomsApart, NEW s \in Tags \union {None}, LoadScene(s)
  PROVE  AttemptInv' /\ Clean'
<1>1. /\ UNCHANGED <<attempt, session, received>> /\ scene' = s /\ claim' = None
      /\ canvas' = (IF s = None THEN {} ELSE {s})
      /\ slipped' = IF InHandoff THEN [slipped EXCEPT ![attempt.room] = @ \union canvas'] ELSE slipped
  BY DEF LoadScene, ClaimAfterLoad
<1>2. AttemptInv'
  BY <1>1 DEF IInv, AttemptInv, At
<1>3. /\ \A o \in Room : slipped[o] \subseteq slipped'[o]
      /\ InHandoff => canvas' \subseteq slipped'[attempt.room]
  <2>1. CASE InHandoff
    <3>1. attempt.room \in Room /\ TypeOK
      BY <2>1 DEF IInv, AttemptInv, InHandoff, At
    <3>2. canvas' \in SUBSET Tags
      BY <1>1
    <3>. QED
      BY <1>1, <2>1, <3>1, <3>2, SlipsKeep
  <2>2. CASE ~InHandoff
    BY <1>1, <2>2
  <2>. QED
    BY <2>1, <2>2
<1>4. HandoffInv'
  BY <1>1, <1>3 DEF HandoffInv, InHandoff, At, Holds, Its, RoomsApart
<1>5. ClaimInv'
  BY <1>1 DEF ClaimInv, Claimed
<1>6. SceneInv' /\ SentInv'
  BY <1>1, <1>3 DEF IInv, Clean, SceneInv, SentInv, Its, RoomsApart
<1>. QED
  BY <1>2, <1>4, <1>5, <1>6 DEF Clean

-----------------------------------------------------------------------------
(* The promises.                                                           *)

LEMMA IInvInit ==
  ASSUME RoomsApart, Init
  PROVE  IInv
<1>1. attempt.step = "none" /\ attempt = NoAttempt /\ session = "none"
  BY DEF Init, NoAttempt
<1>2. TypeOK
  <2>1. attempt \in Attempts /\ ui \in Shown
    BY DEF Init, Attempts, Shown, NoAttempt, InitialRoomState, MaxTries
  <2>2. canvas \subseteq Tags /\ scene \in Tags \union {None} /\ claim \in Room \union {None}
    BY DEF Init, Tags
  <2>3. /\ session = "none" /\ role \in {"editor", "viewer"}
        /\ received \in [Room -> SUBSET Tags] /\ slipped \in [Room -> SUBSET Tags] /\ moves = 0
    BY DEF Init
  <2>4. moves \in 0..MaxMoves
    BY <2>3 DEF RoomsApart
  <2>. QED
    BY <2>1, <2>2, <2>3, <2>4 DEF TypeOK, Attempts, Shown
<1>3. AttemptInv /\ HandoffInv /\ ClaimInv
  BY <1>1 DEF AttemptInv, HandoffInv, ClaimInv, InHandoff, Claimed, At
<1>4. SceneInv /\ SentInv
  BY DEF Init, SceneInv, SentInv, Its, RoomsApart
<1>. QED
  BY <1>2, <1>3, <1>4 DEF IInv, Clean

LEMMA IInvStep ==
  ASSUME RoomsApart, IInv, [Next]_entryVars
  PROVE  IInv'
<1>0. TypeOK /\ AttemptInv
  BY DEF IInv
<1>1. CASE RoomKnown \/ Decided \/ RateLimited \/ Refused \/ Claim \/ Built
  <2>1. TypeOK'
    BY <1>0, <1>1, JoinTyped
  <2>2. AttemptInv' /\ Clean'
    BY <1>1, JoinClean
  <2>. QED
    BY <2>1, <2>2 DEF IInv
<1>2. CASE Synced \/ Lost \/ Fails
  <2>1. TypeOK'
    BY <1>0, <1>2, SessionTyped
  <2>2. AttemptInv' /\ Clean'
    BY <1>2, SyncedClean, ConnectionClean
  <2>. QED
    BY <2>1, <2>2 DEF IInv
<1>3. CASE Draw \/ ImportFile \/ SaveCopy \/ Reload
  <2>1. TypeOK'
    BY <1>0, <1>3, UserTyped
  <2>2. AttemptInv' /\ Clean'
    BY <1>3, DrawClean, SaveCopyClean, ReloadClean
  <2>. QED
    BY <2>1, <2>2 DEF IInv
<1>4. CASE \E r \in Room \union {None} : Enter(r)
  <2>1. TypeOK'
    BY <1>0, <1>4, MovesTyped
  <2>2. AttemptInv' /\ Clean'
    BY <1>4, EnterClean
  <2>. QED
    BY <2>1, <2>2 DEF IInv
<1>5. CASE \E s \in Tags \union {None} : LoadScene(s)
  <2>1. TypeOK'
    BY <1>0, <1>5, MovesTyped
  <2>2. AttemptInv' /\ Clean'
    BY <1>5, LoadClean
  <2>. QED
    BY <2>1, <2>2 DEF IInv
<1>6. CASE UNCHANGED entryVars
  BY <1>6 DEF entryVars, IInv, TypeOK, AttemptInv, Clean, HandoffInv, ClaimInv, SceneInv, SentInv,
              InHandoff, At, Claimed, Holds, Its
<1>. QED
  BY <1>1, <1>2, <1>3, <1>4, <1>5, <1>6 DEF Next

\* What the canvas holds, what the session was built from and what the claim says agree at
\* every step of an entry.
THEOREM Inductive ==
  ASSUME RoomsApart
  PROVE  Spec => []IInv
BY IInvInit, IInvStep, PTL DEF Spec

\* Every part of the state of the tab has its type.
THEOREM TypeCorrect ==
  ASSUME RoomsApart
  PROVE  Spec => []TypeOK
<1>1. IInv => TypeOK
  BY DEF IInv
<1>. QED
  BY <1>1, Inductive, PTL

\* A room is sent nothing but what is the room's, whatever the user enters, leaves,
\* loads, imports, saves or reloads, but for what came onto the canvas between the handoff
\* and the claim (canvasBelongsToRoom, prepareCanvasForRoom, applyRemoteScene).
THEOREM RoomGetsNothingElse ==
  ASSUME RoomsApart
  PROVE  Spec => []RoomGetsItsOwn
<1>1. IInv => RoomGetsItsOwn
  BY DEF IInv, Clean, SentInv, Its, RoomGetsItsOwn
<1>. QED
  BY <1>1, Inductive, PTL

-----------------------------------------------------------------------------
(***************************************************************************)
(* RoomSession: the session that one entry builds, and what of it runs.    *)
(***************************************************************************)
CONSTANT MaxHostMoves
VARIABLES tab, hostMoves
Host == INSTANCE RoomSession WITH MaxMoves <- MaxHostMoves, moves <- hostMoves

(* What a step keeps of a record it changes elsewhere.                      *)
Kept(s, t) ==
  /\ t.build = s.build /\ t.wanted = s.wanted /\ t.idle = s.idle /\ t.hidden = s.hidden
  /\ t.told = s.told /\ t.owns = s.owns /\ t.late = s.late /\ t.dropped = s.dropped
  /\ t.slipped = s.slipped

LEMMA StopKeeps ==
  ASSUME NEW s \in Host!HostTab, NEW P
  PROVE  /\ Host!Stop(s, P) \in Host!HostTab /\ Kept(s, Host!Stop(s, P)) /\ Host!Stop(s, P).running = s.running \ P
         /\ Host!Stop(s, P).session = s.session /\ Host!Stop(s, P).socket = s.socket
         /\ Host!Stop(s, P).heard = s.heard /\ Host!Stop(s, P).shown = s.shown
BY DEF Host!HostTab, Host!Stop, Kept

LEMMA RunKeeps ==
  ASSUME NEW s \in Host!HostTab, NEW P \in SUBSET (Host!HostParts \cup Host!SessionParts \cup {"leave flush"})
  PROVE  /\ Host!Run(s, P) \in Host!HostTab /\ Kept(s, Host!Run(s, P)) /\ Host!Run(s, P).running = s.running \cup P
         /\ Host!Run(s, P).session = s.session /\ Host!Run(s, P).socket = s.socket
         /\ Host!Run(s, P).heard = s.heard /\ Host!Run(s, P).shown = s.shown
BY DEF Host!HostTab, Host!Run, Kept

(* A change of what is running, and of nothing else.                        *)
Alike(s, t) ==
  Kept(s, t) /\ t.session = s.session /\ t.socket = s.socket /\ t.heard = s.heard /\ t.shown = s.shown

LEMMA StopIs ==
  ASSUME NEW s \in Host!HostTab, NEW P
  PROVE  \E t \in Host!HostTab : t = Host!Stop(s, P) /\ Alike(s, t) /\ t.running = s.running \ P
BY StopKeeps DEF Alike

LEMMA RunIs ==
  ASSUME NEW s \in Host!HostTab, NEW P \in SUBSET (Host!HostParts \cup Host!SessionParts \cup {"leave flush"})
  PROVE  \E t \in Host!HostTab : t = Host!Run(s, P) /\ Alike(s, t) /\ t.running = s.running \cup P
BY RunKeeps DEF Alike

LEMMA SocketSet ==
  ASSUME NEW s \in Host!HostTab, NEW x \in {"none", "off", "connecting", "joined", "closed"}
  PROVE  LET t == [s EXCEPT !.socket = x] IN
         /\ t \in Host!HostTab /\ Kept(s, t) /\ t.socket = x /\ t.session = s.session /\ t.heard = s.heard
         /\ t.shown = s.shown /\ t.running = s.running
BY DEF Host!HostTab, Kept

LEMMA NobodySeen ==
  ASSUME NEW s \in Host!HostTab
  PROVE  LET t == [s EXCEPT !.heard = FALSE, !.shown = FALSE] IN
         /\ t \in Host!HostTab /\ Kept(s, t) /\ t.socket = s.socket /\ t.session = s.session /\ ~t.heard
         /\ ~t.shown /\ t.running = s.running
BY DEF Host!HostTab, Kept

EndedAs(s, x, k) == [s EXCEPT !.session = x, !.socket = k]

LEMMA SessionSet ==
  ASSUME NEW s \in Host!HostTab, NEW x \in {"none", "live", "terminated", "destroyed"},
         NEW k \in {"none", "off", "connecting", "joined", "closed"}
  PROVE  \E t \in Host!HostTab : /\ t = EndedAs(s, x, k) /\ Kept(s, t)
                                 /\ t.session = x /\ t.socket = k /\ t.running = s.running /\ t.shown = s.shown
<1>1. PICK t : t = EndedAs(s, x, k)
  OBVIOUS
<1>2. t \in Host!HostTab /\ Kept(s, t) /\ t.session = x /\ t.socket = k /\ t.running = s.running /\ t.shown = s.shown
  BY <1>1 DEF EndedAs, Host!HostTab, Kept
<1>. QED
  BY <1>1, <1>2

SessionAs(s, x) == [s EXCEPT !.session = x]

LEMMA SessionNamed ==
  ASSUME NEW s \in Host!HostTab, NEW x \in {"none", "live", "terminated", "destroyed"}
  PROVE  \E t \in Host!HostTab : /\ t = SessionAs(s, x) /\ Kept(s, t) /\ t.session = x /\ t.socket = s.socket
                                 /\ t.running = s.running /\ t.shown = s.shown
<1>1. PICK t : t = SessionAs(s, x)
  OBVIOUS
<1>2. /\ t \in Host!HostTab /\ Kept(s, t) /\ t.session = x /\ t.socket = s.socket /\ t.running = s.running
      /\ t.shown = s.shown
  BY <1>1 DEF SessionAs, Host!HostTab, Kept
<1>. QED
  BY <1>1, <1>2

LEMMA PresenceCleared ==
  ASSUME NEW s \in Host!HostTab
  PROVE  LET t == Host!ClearPresence(s) IN
         /\ t \in Host!HostTab /\ Kept(s, t) /\ t.running = s.running \ {"cursor apply", "presence timer"}
         /\ t.session = s.session /\ t.socket = s.socket /\ ~t.heard /\ ~t.shown
<1>1. PICK r \in Host!HostTab : /\ r = Host!Stop(s, {"cursor apply", "presence timer"}) /\ Kept(s, r)
                                /\ r.running = s.running \ {"cursor apply", "presence timer"}
                                /\ r.session = s.session /\ r.socket = s.socket
  BY StopKeeps
<1>2. Host!ClearPresence(s) = [r EXCEPT !.heard = FALSE, !.shown = FALSE]
  BY <1>1 DEF Host!ClearPresence
<1>3. PICK t \in Host!HostTab : /\ t = [r EXCEPT !.heard = FALSE, !.shown = FALSE] /\ Kept(r, t) /\ ~t.heard /\ ~t.shown
                                /\ t.socket = r.socket /\ t.session = r.session /\ t.running = r.running
  BY NobodySeen
<1>4. Kept(s, t)
  BY <1>1, <1>3 DEF Kept
<1>. QED
  BY <1>1, <1>2, <1>3, <1>4

LEMMA DisconnectedKeeps ==
  ASSUME NEW s \in Host!HostTab
  PROVE  LET t == Host!Disconnected(s) IN
         /\ t \in Host!HostTab /\ Kept(s, t) /\ t.session = s.session /\ t.socket = "off" /\ ~t.heard /\ ~t.shown
         /\ t.running = s.running \ {"cursor apply", "presence timer", "barrier", "cadence", "repair"}
<1>1. PICK r \in Host!HostTab : r = Host!Stop(s, {"barrier", "cadence", "repair"}) /\ Kept(s, r)
                 /\ r.running = s.running \ {"barrier", "cadence", "repair"} /\ r.session = s.session
  BY StopKeeps
<1>2. PICK q \in Host!HostTab : /\ q = Host!ClearPresence(r) /\ Kept(r, q) /\ ~q.heard /\ ~q.shown
                                /\ q.running = r.running \ {"cursor apply", "presence timer"} /\ q.session = r.session
  BY PresenceCleared
<1>3. Host!Disconnected(s) = [q EXCEPT !.socket = "off"]
  BY <1>1, <1>2 DEF Host!Disconnected
<1>4. Kept(s, q)
  BY <1>1, <1>2 DEF Kept
<1>5. PICK t \in Host!HostTab : /\ t = [q EXCEPT !.socket = "off"] /\ Kept(q, t) /\ t.socket = "off"
                                /\ t.session = q.session /\ t.heard = q.heard /\ t.shown = q.shown
                                /\ t.running = q.running
  BY SocketSet
<1>6. Kept(s, t)
  BY <1>4, <1>5 DEF Kept
<1>. QED
  BY <1>1, <1>2, <1>3, <1>5, <1>6

LEMMA Released ==
  ASSUME NEW s \in Host!HostTab, s.socket # "closed"
  PROVE  LET t == Host!Release(s) IN
         /\ t \in Host!HostTab /\ Kept(s, t) /\ t.session = s.session /\ t.socket = "closed"
         /\ t.running \subseteq s.running \ Host!HostParts
         /\ "subscription" \in s.running => ~t.shown /\ "cursor apply" \notin t.running
         /\ "subscription" \notin s.running => t.shown = s.shown
<1>1. PICK h \in Host!HostTab :
        /\ Kept(s, h) /\ h.session = s.session /\ h.running \subseteq s.running
        /\ "subscription" \in s.running => ~h.shown /\ "cursor apply" \notin h.running
        /\ "subscription" \notin s.running => h.shown = s.shown
        /\ Host!Release(s) = [Host!Stop(h, Host!HostParts) EXCEPT !.socket = "closed"]
  <2>1. CASE "subscription" \in s.running
    <3>1. PICK d \in Host!HostTab : /\ d = Host!Disconnected(s) /\ Kept(s, d) /\ d.session = s.session /\ ~d.shown
                                    /\ d.running = s.running \ {"cursor apply", "presence timer", "barrier", "cadence", "repair"}
      BY DisconnectedKeeps
    <3>2. PICK h \in Host!HostTab : /\ h = Host!Stop(d, {"reconnect"}) /\ Kept(d, h) /\ h.session = d.session
                                    /\ h.shown = d.shown /\ h.running = d.running \ {"reconnect"}
      BY StopKeeps
    <3>3. Host!Release(s) = [Host!Stop(h, Host!HostParts) EXCEPT !.socket = "closed"]
      BY <2>1, <3>1, <3>2 DEF Host!Release
    <3>4. Kept(s, h)
      BY <3>1, <3>2 DEF Kept
    <3>. QED
      BY <2>1, <3>1, <3>2, <3>3, <3>4
  <2>2. CASE "subscription" \notin s.running
    BY <2>2 DEF Host!Release, Kept
  <2>. QED
    BY <2>1, <2>2
<1>2. PICK r \in Host!HostTab : /\ r = Host!Stop(h, Host!HostParts) /\ Kept(h, r) /\ r.session = h.session
                                /\ r.running = h.running \ Host!HostParts /\ r.shown = h.shown
  BY StopKeeps
<1>3. PICK t \in Host!HostTab : /\ t = [r EXCEPT !.socket = "closed"] /\ Kept(r, t) /\ t.session = r.session
                                /\ t.socket = "closed" /\ t.running = r.running /\ t.shown = r.shown
  BY SocketSet
<1>4. Kept(s, t)
  BY <1>1, <1>2, <1>3 DEF Kept
<1>. QED
  BY <1>1, <1>2, <1>3, <1>4

LEMMA ReleasedClosed ==
  ASSUME NEW s, s.socket = "closed"
  PROVE  Host!Release(s) = s
BY DEF Host!Release

(* The end of a session by itself.                                          *)
LEMMA Terminated ==
  ASSUME NEW s \in Host!HostTab
  PROVE  LET t == Host!Terminate(s) IN
         /\ t \in Host!HostTab /\ Kept(s, t) /\ t.session = "terminated" /\ t.socket = "closed" /\ ~t.shown
         /\ t.running \subseteq s.running \ Host!SessionParts
         /\ s.socket # "closed" => t.running \cap Host!HostParts = {}
<1>1. PICK r \in Host!HostTab : r = Host!Stop(s, Host!SessionParts) /\ Kept(s, r) /\ r.running = s.running \ Host!SessionParts
                 /\ r.socket = s.socket
  BY StopKeeps
<1>2. PICK q \in Host!HostTab : /\ q = Host!ClearPresence(r) /\ Kept(r, q) /\ ~q.shown
                                /\ q.running = r.running \ {"cursor apply", "presence timer"} /\ q.socket = r.socket
  BY PresenceCleared
<1>3. PICK d \in Host!HostTab : /\ d = Host!Teardown(s) /\ Kept(s, d) /\ d.session = "terminated" /\ ~d.shown
                                /\ d.running \subseteq s.running \ Host!SessionParts
                                /\ d.socket = IF s.socket = "closed" THEN "closed" ELSE "off"
  <2>1. PICK k \in {"none", "off", "connecting", "joined", "closed"} : k = IF s.socket = "closed" THEN "closed" ELSE "off"
    OBVIOUS
  <2>2. PICK x \in {"none", "live", "terminated", "destroyed"} : x = "terminated"
    OBVIOUS
  <2>3. PICK d \in Host!HostTab : /\ d = EndedAs(q, x, k) /\ Kept(q, d)
                                  /\ d.session = x /\ d.socket = k /\ d.running = q.running /\ d.shown = q.shown
    BY SessionSet
  <2>4. Host!Teardown(s) = d
    <3>1. q = Host!ClearPresence(Host!Stop(s, Host!SessionParts))
      BY <1>1, <1>2
    <3>2. Host!Teardown(s) = [q EXCEPT !.session = "terminated", !.socket = IF q.socket = "closed" THEN q.socket ELSE "off"]
      BY <3>1, Zenon DEF Host!Teardown
    <3>3. k = IF q.socket = "closed" THEN q.socket ELSE "off"
      BY <1>1, <1>2, <2>1
    <3>4. d = EndedAs(q, x, k)
      BY <2>3
    <3>. QED
      BY <3>2, <3>3, <3>4, <2>2, Zenon DEF EndedAs
  <2>5. Kept(s, d)
    BY <1>1, <1>2, <2>3 DEF Kept
  <2>. QED
    BY <1>1, <1>2, <2>1, <2>2, <2>3, <2>4, <2>5
<1>4. CASE s.socket = "closed"
  BY <1>3, <1>4, ReleasedClosed DEF Host!Terminate
<1>5. CASE s.socket # "closed"
  <2>1. PICK t \in Host!HostTab : /\ t = Host!Release(d) /\ Kept(d, t) /\ t.session = d.session /\ t.socket = "closed"
                                  /\ t.running \subseteq d.running \ Host!HostParts
                                  /\ "subscription" \notin d.running => t.shown = d.shown
    BY <1>3, <1>5, Released
  <2>2. "subscription" \notin d.running
    BY <1>3 DEF Host!SessionParts
  <2>3. Host!Terminate(s) = t
    BY <1>3, <2>1 DEF Host!Terminate
  <2>4. Kept(s, t)
    BY <1>3, <2>1 DEF Kept
  <2>. QED
    BY <1>3, <2>1, <2>2, <2>3, <2>4
<1>. QED
  BY <1>4, <1>5

(* Nothing was written late and no flush was left out.                      *)
Faultless(s) == (~s.slipped => s.late = {}) /\ ~s.dropped

LEMMA OverOrderly ==
  ASSUME NEW t \in Host!HostTab, Faultless(t), Host!Stopped(t), t.build = "done", t.socket = "closed",
         t.running \subseteq Host!Leftover(t), ~t.shown
  PROVE  Host!Orderly(t)
BY DEF Host!Orderly, Faultless, Host!Stopped, Host!Building, Host!Living, Host!Over, Host!Leftover,
   Host!CursorsLive, Host!Watching

LEMMA TerminateOrderly ==
  ASSUME NEW s \in Host!HostTab, Faultless(s), s.build = "done",
         s.socket = "closed" => s.running \subseteq {"leave flush", "idle timer"} \cup Host!SessionParts
  PROVE  /\ Host!Orderly(Host!Terminate(s)) /\ Host!Terminate(s) \in Host!HostTab /\ Host!Stopped(Host!Terminate(s)) /\ Kept(s, Host!Terminate(s))
         /\ Host!Terminate(s).socket = "closed" /\ ~Host!Terminate(s).shown /\ Faultless(Host!Terminate(s))
         /\ Host!Terminate(s).running \subseteq {"leave flush", "idle timer"}
         /\ s.socket # "closed" => Host!Terminate(s).running \subseteq {"leave flush"}
<1>1. PICK t : t = Host!Terminate(s)
  OBVIOUS
<1>2. /\ t \in Host!HostTab /\ Kept(s, t) /\ t.session = "terminated" /\ t.socket = "closed" /\ ~t.shown
      /\ t.running \subseteq s.running \ Host!SessionParts /\ (s.socket # "closed" => t.running \cap Host!HostParts = {})
  BY <1>1, Terminated
<1>3. s.running \subseteq Host!HostParts \cup Host!SessionParts \cup {"leave flush"} /\ "idle timer" \in Host!HostParts
  BY DEF Host!HostTab, Host!HostParts
<1>4. t.running \subseteq {"leave flush", "idle timer"} /\ (s.socket # "closed" => t.running \subseteq {"leave flush"})
  BY <1>2, <1>3
<1>5. Faultless(t) /\ Host!Stopped(t) /\ t.build = "done"
  BY <1>2 DEF Kept, Host!Stopped, Faultless
<1>6. Host!Orderly(t)
  BY <1>2, <1>4, <1>5, OverOrderly DEF Host!Leftover
<1>. QED
  BY <1>1, <1>2, <1>4, <1>5, <1>6

(* A live session that is changed in what does not show.                    *)
LEMMA LiveOrderly ==
  ASSUME NEW s \in Host!HostTab, Host!Orderly(s), s.session = "live",
         NEW t \in Host!HostTab, Kept(s, t), t.session = "live", t.socket \in {"off", "connecting", "joined"},
         {"subscription", "visibility"} \subseteq t.running,
         t.running \cap {"reconnect", "refresh"} # {} => t.socket = "off",
         ~({"reconnect", "refresh"} \subseteq t.running),
         ("idle timer" \in t.running) <=> ("idle timer" \in s.running),
         t.shown \/ "cursor apply" \in t.running => t.socket = "joined"
  PROVE  Host!Orderly(t)
BY DEF Host!Orderly, Kept, Host!Stopped, Host!Building, Host!Living, Host!Over, Host!CursorsLive,
   Host!Watching

(* Where it can be told that a session lives.                               *)
LEMMA LivesBy ==
  ASSUME NEW s, Host!Orderly(s),
         \/ s.socket \in {"connecting", "joined"}
         \/ \E part \in s.running : part \notin {"leave flush", "idle timer", "states", "store", "barrier",
                                                 "baseline load", "cadence"}
         \/ s.build = "done" /\ ~Host!Stopped(s)
  PROVE  s.session = "live" /\ s.build = "done" /\ ~Host!Ended(s)
<1>1. s.session \in {"none", "live", "terminated", "destroyed"} /\ s.socket \in {"none", "off", "connecting", "joined", "closed"}
  BY DEF Host!Orderly, Host!HostTab
<1>2. s.session # "none"
  BY DEF Host!Orderly, Host!Building
<1>3. ~Host!Stopped(s)
  BY DEF Host!Orderly, Host!Over, Host!Leftover
<1>. QED
  BY <1>1, <1>2, <1>3 DEF Host!Orderly, Host!Living, Host!Stopped, Host!Ended

LEMMA LiveApplies ==
  ASSUME NEW s, NEW what, ~Host!Ended(s)
  PROVE  Host!Apply(s, what) = s
BY DEF Host!Apply, Host!Write

(* The end of a session by its host.                                        *)
LEMMA Destroyed ==
  ASSUME NEW s \in Host!HostTab, Host!Orderly(s), s.build = "done"
  PROVE  LET t == Host!Destroy(s) IN
         /\ t \in Host!HostTab /\ Kept(s, t) /\ t.session = "destroyed" /\ t.socket = "closed" /\ ~t.shown
         /\ t.running \subseteq {"leave flush", "idle timer"}
         /\ Host!MayPublish(s) => "leave flush" \in t.running
<1>1. s.session \in {"live", "terminated", "destroyed"} /\ s.running \subseteq Host!HostParts \cup Host!SessionParts \cup {"leave flush"}
  BY DEF Host!Orderly, Host!HostTab, Host!Building
<1>2. PICK r \in Host!HostTab : /\ r = Host!Release(s) /\ Kept(s, r) /\ r.socket = "closed" /\ ~r.shown
                                /\ r.running \subseteq {"leave flush", "idle timer"} \cup Host!SessionParts
  <2>1. CASE s.session = "live"
    <3>1. s.socket # "closed" /\ "subscription" \in s.running
      BY <2>1 DEF Host!Orderly, Host!Living
    <3>. QED
      BY <3>1, <1>1, Released
  <2>2. CASE s.session # "live"
    <3>1. s.socket = "closed" /\ s.running \subseteq Host!Leftover(s) /\ ~s.shown
      BY <1>1, <2>2 DEF Host!Orderly, Host!Over, Host!Stopped, Host!CursorsLive
    <3>2. s.running \subseteq {"leave flush", "idle timer"} \cup Host!SessionParts
      BY <3>1 DEF Host!Leftover, Host!SessionParts
    <3>. QED
      BY <3>1, <3>2, ReleasedClosed DEF Kept
  <2>. QED
    BY <2>1, <2>2
<1>3. PICK q \in Host!HostTab : /\ q = Host!Stop(r, Host!SessionParts) /\ Kept(r, q) /\ q.running = r.running \ Host!SessionParts
                                /\ q.socket = r.socket /\ q.shown = r.shown
  BY StopKeeps
<1>4. PICK x \in {"none", "live", "terminated", "destroyed"} : x = "destroyed"
  OBVIOUS
<1>5. PICK d \in Host!HostTab : /\ d = SessionAs(q, x) /\ Kept(q, d) /\ d.session = x /\ d.socket = q.socket
                                /\ d.running = q.running /\ d.shown = q.shown
  BY SessionNamed
<1>6. d = [Host!Stop(Host!Release(s), Host!SessionParts) EXCEPT !.session = "destroyed"]
  BY <1>2, <1>3, <1>4, <1>5, Zenon DEF SessionAs
<1>7. d.running \subseteq {"leave flush", "idle timer"}
  BY <1>2, <1>3, <1>5
<1>8. Kept(s, d) /\ d.session = "destroyed" /\ d.socket = "closed" /\ ~d.shown
  <2>1. Kept(s, q) /\ q.socket = "closed" /\ ~q.shown
    BY <1>2, <1>3 DEF Kept
  <2>. QED
    BY <2>1, <1>4, <1>5 DEF Kept
<1>9. CASE Host!MayPublish(s)
  <2>1. Host!Destroy(s) = Host!Run(d, {"leave flush"})
    BY <1>6, <1>9 DEF Host!Destroy
  <2>2. PICK t \in Host!HostTab : /\ t = Host!Run(d, {"leave flush"}) /\ Kept(d, t) /\ t.running = d.running \cup {"leave flush"}
                                  /\ t.session = d.session /\ t.socket = d.socket /\ t.shown = d.shown
    BY RunKeeps
  <2>3. Kept(s, t) /\ Host!Destroy(s) = t
    BY <1>8, <2>1, <2>2 DEF Kept
  <2>4. t.session = "destroyed" /\ t.socket = "closed" /\ ~t.shown
    BY <2>2, <1>8
  <2>5. t.running \subseteq {"leave flush", "idle timer"} /\ "leave flush" \in t.running
    BY <2>2, <1>7
  <2>. QED
    BY <2>3, <2>4, <2>5
<1>10. CASE ~Host!MayPublish(s)
  <2>1. Host!Destroy(s) = d
    BY <1>6, <1>10 DEF Host!Destroy
  <2>. QED
    BY <2>1, <1>7, <1>8, <1>10
<1>. QED
  BY <1>9, <1>10

LEMMA DestroyOrderly ==
  ASSUME NEW s \in Host!HostTab, Host!Orderly(s), s.build = "done"
  PROVE  Host!Orderly(Host!Destroy(s))
<1>1. PICK t \in Host!HostTab : /\ t = Host!Destroy(s) /\ Kept(s, t) /\ t.session = "destroyed" /\ t.socket = "closed" /\ ~t.shown
                                /\ t.running \subseteq {"leave flush", "idle timer"}
  BY Destroyed
<1>2. Faultless(t) /\ Host!Stopped(t) /\ t.build = "done" /\ t.running \subseteq Host!Leftover(t)
  BY <1>1 DEF Host!Orderly, Kept, Faultless, Host!Stopped, Host!Leftover
<1>. QED
  BY <1>1, <1>2, OverOrderly

(* Setters of the steps that build.                                         *)
Rest(s, t) ==
  /\ t.wanted = s.wanted /\ t.running = s.running /\ t.shown = s.shown /\ t.idle = s.idle
  /\ t.hidden = s.hidden /\ t.told = s.told /\ t.late = s.late /\ t.dropped = s.dropped
  /\ t.slipped = s.slipped

BuiltAs(s, b) == [s EXCEPT !.build = b]
LinkedAs(s, b, k) == [s EXCEPT !.build = b, !.socket = k]
StartedAs(s) == [s EXCEPT !.build = "done", !.session = "live", !.socket = "connecting"]

LEMMA StageSet ==
  ASSUME NEW s \in Host!HostTab, NEW b \in {"codec", "assets", "snapshots", "done", "failed"},
         NEW k \in {"none", "off", "connecting", "joined", "closed"}
  PROVE  /\ \E t \in Host!HostTab : /\ t = BuiltAs(s, b) /\ Rest(s, t) /\ t.build = b /\ t.socket = s.socket
                                    /\ t.session = s.session
         /\ \E t \in Host!HostTab : /\ t = LinkedAs(s, b, k) /\ Rest(s, t) /\ t.build = b /\ t.socket = k
                                    /\ t.session = s.session
<1>1. PICK t : t = BuiltAs(s, b)
  OBVIOUS
<1>2. t \in Host!HostTab /\ Rest(s, t) /\ t.build = b /\ t.socket = s.socket /\ t.session = s.session
  BY <1>1 DEF BuiltAs, Host!HostTab, Rest
<1>3. PICK u : u = LinkedAs(s, b, k)
  OBVIOUS
<1>4. u \in Host!HostTab /\ Rest(s, u) /\ u.build = b /\ u.socket = k /\ u.session = s.session
  BY <1>3 DEF LinkedAs, Host!HostTab, Rest
<1>7. \E x \in Host!HostTab : x = BuiltAs(s, b) /\ Rest(s, x) /\ x.build = b /\ x.socket = s.socket /\ x.session = s.session
  BY <1>1, <1>2
<1>8. \E x \in Host!HostTab : x = LinkedAs(s, b, k) /\ Rest(s, x) /\ x.build = b /\ x.socket = k /\ x.session = s.session
  BY <1>3, <1>4
<1>. QED
  BY <1>7, <1>8

LEMMA StartSet ==
  ASSUME NEW s \in Host!HostTab
  PROVE  \E t \in Host!HostTab : /\ t = StartedAs(s) /\ Rest(s, t) /\ t.build = "done" /\ t.socket = "connecting"
                                 /\ t.session = "live"
<1>1. PICK t : t = StartedAs(s)
  OBVIOUS
<1>2. t \in Host!HostTab /\ Rest(s, t) /\ t.build = "done" /\ t.socket = "connecting" /\ t.session = "live"
  BY <1>1 DEF StartedAs, Host!HostTab, Rest
<1>. QED
  BY <1>1, <1>2

LEMMA StageOrderly ==
  ASSUME NEW t \in Host!HostTab, Faultless(t), Host!Building(t), t.session = "none", ~t.shown, t.running \subseteq {"states", "store"}
  PROVE  Host!Orderly(t)
BY DEF Host!Orderly, Faultless, Host!Stopped, Host!Living, Host!Over, Host!CursorsLive,
   Host!Watching

(* The steps.                                                               *)
LEMMA BuildingNow ==
  ASSUME Host!Orderly(tab), tab.build \in {"codec", "assets", "snapshots"}
  PROVE  /\ tab \in Host!HostTab /\ tab.session = "none" /\ tab.running \subseteq {"states", "store"}
         /\ tab.socket \in {"none", "off", "closed"} /\ ~tab.shown
         /\ ~tab.slipped /\ ~tab.told /\ tab.idle = "active" /\ Faultless(tab)
         /\ tab.build = "codec" => tab.running = {} /\ tab.socket \in {"none", "closed"}
         /\ tab.build = "assets" => tab.running \subseteq {"states"}
BY DEF Host!Orderly, Host!Building, Host!Living, Host!Over, Host!Stopped, Host!CursorsLive,
   Host!HostTab, Faultless

(* Nothing is running yet that could be left.                               *)
Quiet(t) == ~t.shown /\ ~t.slipped /\ ~t.told /\ t.idle = "active" /\ Faultless(t)

LEMMA QuietRests ==
  ASSUME NEW s, NEW t, Quiet(s), Rest(s, t)
  PROVE  Quiet(t) /\ t.running = s.running
BY DEF Quiet, Rest, Faultless

LEMMA QuietAlike ==
  ASSUME NEW s, NEW t, Quiet(s), Alike(s, t)
  PROVE  Quiet(t)
BY DEF Quiet, Kept, Alike, Faultless

LEMMA SessionCodecDerived ==
  ASSUME Host!Orderly(tab), Host!CodecDerived
  PROVE  Host!Orderly(tab')
<1>1. tab \in Host!HostTab /\ tab.session = "none" /\ tab.running = {} /\ tab.socket \in {"none", "closed"} /\ Quiet(tab)
  BY BuildingNow DEF Host!CodecDerived, Quiet
<1>2. CASE tab' = LinkedAs(Host!Run(tab, {"states"}), "assets", "off")
  <2>0. {"states"} \in SUBSET (Host!HostParts \cup Host!SessionParts \cup {"leave flush"})
    BY DEF Host!HostParts
  <2>1. PICK r \in Host!HostTab : r = Host!Run(tab, {"states"}) /\ Alike(tab, r) /\ r.running = tab.running \cup {"states"}
    BY <2>0, <1>1, RunIs
  <2>2. PICK t \in Host!HostTab : /\ t = LinkedAs(r, "assets", "off") /\ Rest(r, t) /\ t.build = "assets" /\ t.socket = "off"
                                  /\ t.session = r.session
    BY StageSet
  <2>3. Quiet(t) /\ t.running = {"states"} /\ t.session = "none"
    <3>1. Quiet(r) /\ r.session = "none" /\ r.running = {"states"}
      BY <1>1, <2>1, QuietAlike DEF Alike
    <3>. QED
      BY <3>1, <2>2, QuietRests
  <2>4. Host!Orderly(t)
    BY <2>2, <2>3, StageOrderly DEF Quiet, Host!Building
  <2>. QED
    BY <1>2, <2>1, <2>2, <2>4
<1>3. CASE tab' = BuiltAs(tab, "failed")
  <2>1. PICK t \in Host!HostTab : /\ t = BuiltAs(tab, "failed") /\ Rest(tab, t) /\ t.build = "failed" /\ t.socket = tab.socket
                                  /\ t.session = tab.session
    BY <1>1, StageSet
  <2>2. Quiet(t) /\ t.running = {}
    BY <1>1, <2>1, QuietRests
  <2>3. Host!Orderly(t)
    BY <1>1, <2>1, <2>2, StageOrderly DEF Quiet, Host!Building
  <2>. QED
    BY <1>3, <2>1, <2>3
<1>. QED
  BY <1>2, <1>3, Zenon DEF Host!CodecDerived, Host!Becomes, LinkedAs, BuiltAs

LEMMA Abandoned ==
  ASSUME Host!Orderly(tab), tab.build \in {"assets", "snapshots"}, tab' = Host!Abandon(tab)
  PROVE  Host!Orderly(tab')
<1>1. tab \in Host!HostTab /\ tab.session = "none" /\ tab.running \subseteq {"states", "store"} /\ Quiet(tab)
  BY BuildingNow DEF Quiet
<1>2. PICK r \in Host!HostTab : /\ r = Host!Stop(tab, {"states", "store", "download"}) /\ Alike(tab, r)
                                /\ r.running = tab.running \ {"states", "store", "download"}
  BY <1>1, StopIs
<1>3. PICK t \in Host!HostTab : /\ t = LinkedAs(r, "failed", "closed") /\ Rest(r, t) /\ t.build = "failed" /\ t.socket = "closed"
                                /\ t.session = r.session
  BY StageSet
<1>4. tab' = t
  BY <1>2, <1>3, Zenon DEF Host!Abandon, LinkedAs
<1>5. Quiet(t) /\ t.running = {} /\ t.session = "none"
  <2>1. Quiet(r) /\ r.session = "none" /\ r.running = {}
    BY <1>1, <1>2, QuietAlike DEF Alike
  <2>. QED
    BY <2>1, <1>3, QuietRests
<1>. QED
  BY <1>2, <1>3, <1>4, <1>5, StageOrderly DEF Quiet, Host!Building

LEMMA SessionAssetKeysDerived ==
  ASSUME Host!Orderly(tab), Host!AssetKeysDerived
  PROVE  Host!Orderly(tab')
<1>1. /\ tab \in Host!HostTab /\ tab.build = "assets" /\ tab.session = "none" /\ tab.running \subseteq {"states"} /\ Quiet(tab)
      /\ tab.socket \in {"none", "off", "closed"}
  BY BuildingNow DEF Host!AssetKeysDerived, Quiet
<1>2. CASE tab' = BuiltAs(Host!Run(tab, {"store"}), "snapshots")
  <2>0. {"store"} \in SUBSET (Host!HostParts \cup Host!SessionParts \cup {"leave flush"})
    BY DEF Host!HostParts
  <2>1. PICK r \in Host!HostTab : r = Host!Run(tab, {"store"}) /\ Alike(tab, r) /\ r.running = tab.running \cup {"store"}
    BY <2>0, <1>1, RunIs
  <2>2. PICK t \in Host!HostTab : /\ t = BuiltAs(r, "snapshots") /\ Rest(r, t) /\ t.build = "snapshots" /\ t.socket = r.socket
                                  /\ t.session = r.session
    BY StageSet
  <2>3. Quiet(t) /\ t.running \subseteq {"states", "store"} /\ t.session = "none" /\ t.socket \in {"none", "off", "closed"}
    <3>1. Quiet(r) /\ r.session = "none" /\ r.running \subseteq {"states", "store"} /\ r.socket \in {"none", "off", "closed"}
      BY <1>1, <2>1, QuietAlike DEF Alike
    <3>. QED
      BY <3>1, <2>2, QuietRests
  <2>4. Host!Orderly(t)
    BY <1>1, <2>1, <2>2, <2>3, StageOrderly DEF Quiet, Host!Building
  <2>. QED
    BY <1>2, <2>1, <2>2, <2>4
<1>3. CASE tab' = Host!Abandon(tab)
  BY <1>1, <1>3, Abandoned
<1>. QED
  BY <1>2, <1>3, Zenon DEF Host!AssetKeysDerived, Host!Becomes, BuiltAs

LEMMA SessionSnapshotKeysDerived ==
  ASSUME Host!Orderly(tab), Host!SnapshotKeysDerived
  PROVE  Host!Orderly(tab')
<1>1. /\ tab \in Host!HostTab /\ tab.build = "snapshots" /\ tab.session = "none" /\ Quiet(tab)
      /\ tab.running \subseteq {"states", "store"}
  BY BuildingNow DEF Host!SnapshotKeysDerived, Quiet
<1>2. PICK P \in SUBSET (Host!HostParts \cup Host!SessionParts \cup {"leave flush"}) :
        P = {"target", "visibility", "follows", "subscription", "idle timer"}
  BY DEF Host!HostParts, Host!SessionParts
<1>3. PICK r \in Host!HostTab : r = Host!Run(tab, P) /\ Alike(tab, r) /\ r.running = tab.running \cup P
  BY <1>1, RunIs
<1>4. PICK t \in Host!HostTab : /\ t = StartedAs(r) /\ Rest(r, t) /\ t.build = "done" /\ t.socket = "connecting"
                                /\ t.session = "live"
  BY StartSet
<1>5. t = Host!Started(tab)
  BY <1>2, <1>3, <1>4, Zenon DEF Host!Started, StartedAs
<1>6. Quiet(t) /\ t.running = tab.running \cup P
  <2>1. Quiet(r)
    BY <1>1, <1>3, QuietAlike
  <2>. QED
    BY <2>1, <1>3, <1>4, QuietRests
<1>7. Host!Orderly(t)
  <2>1. Host!Building(t) /\ Host!Living(t) /\ Host!Over(t)
    BY <1>1, <1>2, <1>4, <1>6 DEF Host!Building, Host!Living, Host!Over, Host!Stopped, Quiet
  <2>2. Host!CursorsLive(t) /\ Host!Watching(t)
    BY <1>1, <1>2, <1>4, <1>6 DEF Host!CursorsLive, Host!Watching, Quiet
  <2>. QED
    BY <2>1, <2>2, <1>6 DEF Host!Orderly, Quiet, Faultless
<1>8. Host!Orderly(Host!Destroy(t))
  BY <1>4, <1>7, DestroyOrderly
<1>. QED
  BY <1>1, <1>5, <1>7, <1>8, Abandoned DEF Host!SnapshotKeysDerived, Host!Becomes

LEMMA CleanKept ==
  ASSUME NEW s, NEW t, Host!Orderly(s), Kept(s, t)
  PROVE  Faultless(t) /\ (s.build = "done" => t.build = "done")
BY DEF Host!Orderly, Kept, Faultless

LEMMA SessionLost ==
  ASSUME Host!Orderly(tab), Host!Lost
  PROVE  Host!Orderly(tab')
<1>1. tab \in Host!HostTab /\ tab.session = "live" /\ tab.build = "done"
  BY LivesBy DEF Host!Lost, Host!Orderly
<1>2. {"subscription", "visibility"} \subseteq tab.running /\ tab.running \cap {"reconnect", "refresh"} = {}
  BY <1>1 DEF Host!Orderly, Host!Living, Host!Lost
<1>3. PICK d \in Host!HostTab :
        /\ d = Host!Disconnected(tab) /\ Kept(tab, d) /\ d.session = tab.session /\ d.socket = "off" /\ ~d.shown
        /\ d.running = tab.running \ {"cursor apply", "presence timer", "barrier", "cadence", "repair"}
  BY <1>1, DisconnectedKeeps
<1>4. CASE tab' = Host!Run(d, {"reconnect"})
  <2>0. {"reconnect"} \in SUBSET (Host!HostParts \cup Host!SessionParts \cup {"leave flush"})
    BY DEF Host!SessionParts
  <2>1. PICK t \in Host!HostTab : t = Host!Run(d, {"reconnect"}) /\ Alike(d, t) /\ t.running = d.running \cup {"reconnect"}
    BY <2>0, RunIs
  <2>2. Kept(tab, t) /\ t.session = "live" /\ t.socket = "off" /\ ~t.shown
    BY <1>1, <1>3, <2>1 DEF Alike, Kept
  <2>3. /\ {"subscription", "visibility"} \subseteq t.running /\ ~({"reconnect", "refresh"} \subseteq t.running)
        /\ "cursor apply" \notin t.running
        /\ ("idle timer" \in t.running) <=> ("idle timer" \in tab.running)
    BY <1>2, <1>3, <2>1
  <2>4. Host!Orderly(t)
    BY <1>1, <2>2, <2>3, LiveOrderly
  <2>. QED
    BY <1>4, <2>1, <2>4
<1>5. CASE tab' = Host!Terminate(d)
  <2>1. Faultless(d) /\ d.build = "done"
    BY <1>1, <1>3, CleanKept
  <2>. QED
    BY <1>3, <1>5, <2>1, TerminateOrderly
<1>. QED
  BY <1>3, <1>4, <1>5 DEF Host!Lost, Host!Becomes, Host!Moves

(* The session ends by itself, and what a live one may start and stop.       *)
LEMMA LiveEnds ==
  ASSUME NEW s \in Host!HostTab, Host!Orderly(s), s.session = "live", NEW t \in Host!HostTab, Kept(s, t), t.socket # "closed"
  PROVE  Host!Orderly(Host!Terminate(t))
<1>1. Faultless(t) /\ t.build = "done"
  BY CleanKept DEF Host!Orderly, Host!Living
<1>. QED
  BY <1>1, TerminateOrderly

LEMMA LiveIs ==
  ASSUME NEW s \in Host!HostTab, Host!Orderly(s), s.session = "live"
  PROVE  /\ s.build = "done" /\ s.socket \in {"off", "connecting", "joined"} /\ ~Host!Ended(s) /\ ~Host!Stopped(s)
         /\ {"subscription", "visibility"} \subseteq s.running
         /\ s.running \cap {"reconnect", "refresh"} # {} => s.socket = "off"
         /\ ~({"reconnect", "refresh"} \subseteq s.running)
         /\ s.shown \/ "cursor apply" \in s.running => s.socket = "joined"
BY DEF Host!Orderly, Host!Living, Host!CursorsLive, Host!Ended, Host!Stopped

LEMMA LiveAlike ==
  ASSUME NEW s \in Host!HostTab, Host!Orderly(s), s.session = "live", NEW t \in Host!HostTab, Alike(s, t),
         {"subscription", "visibility"} \subseteq t.running,
         t.running \cap {"reconnect", "refresh"} \subseteq s.running,
         ("idle timer" \in t.running) <=> ("idle timer" \in s.running),
         "cursor apply" \in t.running => "cursor apply" \in s.running \/ s.socket = "joined"
  PROVE  Host!Orderly(t)
<1>1. /\ s.socket \in {"off", "connecting", "joined"}
      /\ s.running \cap {"reconnect", "refresh"} # {} => s.socket = "off"
      /\ ~({"reconnect", "refresh"} \subseteq s.running)
      /\ s.shown \/ "cursor apply" \in s.running => s.socket = "joined"
  BY LiveIs
<1>2. t.socket = s.socket /\ t.session = s.session /\ t.shown = s.shown /\ Kept(s, t)
  BY DEF Alike
<1>3. /\ t.running \cap {"reconnect", "refresh"} # {} => t.socket = "off"
      /\ ~({"reconnect", "refresh"} \subseteq t.running)
      /\ t.shown \/ "cursor apply" \in t.running => t.socket = "joined"
  BY <1>1, <1>2
<1>. QED
  BY <1>1, <1>2, <1>3, LiveOrderly

LEMMA LiveStops ==
  ASSUME NEW s \in Host!HostTab, Host!Orderly(s), s.session = "live", NEW P,
         P \cap {"subscription", "visibility", "idle timer"} = {}
  PROVE  /\ Host!Stop(s, P) \in Host!HostTab /\ Host!Orderly(Host!Stop(s, P)) /\ Alike(s, Host!Stop(s, P)) /\ Host!Stop(s, P).session = "live"
         /\ Host!Stop(s, P).running = s.running \ P
         /\ Host!Orderly(Host!Terminate(Host!Stop(s, P)))
<1>1. PICK t \in Host!HostTab : t = Host!Stop(s, P) /\ Alike(s, t) /\ t.running = s.running \ P
  BY StopIs
<1>2. {"subscription", "visibility"} \subseteq t.running
  BY <1>1, LiveIs
<1>3. Host!Orderly(t)
  BY <1>1, <1>2, LiveAlike
<1>4. t.session = "live" /\ Kept(s, t) /\ t.socket # "closed"
  BY <1>1, LiveIs DEF Alike
<1>. QED
  BY <1>1, <1>3, <1>4, LiveEnds

LEMMA LiveRuns ==
  ASSUME NEW s \in Host!HostTab, Host!Orderly(s), s.session = "live",
         NEW P \in SUBSET (Host!HostParts \cup Host!SessionParts \cup {"leave flush"}),
         P \cap {"reconnect", "refresh", "idle timer"} = {}, "cursor apply" \in P => s.socket = "joined"
  PROVE  /\ Host!Run(s, P) \in Host!HostTab /\ Host!Orderly(Host!Run(s, P)) /\ Alike(s, Host!Run(s, P)) /\ Host!Run(s, P).session = "live"
         /\ Host!Run(s, P).running = s.running \cup P
<1>1. PICK t \in Host!HostTab : t = Host!Run(s, P) /\ Alike(s, t) /\ t.running = s.running \cup P
  BY RunIs
<1>2. {"subscription", "visibility"} \subseteq t.running
  BY <1>1, LiveIs
<1>3. Host!Orderly(t)
  BY <1>1, <1>2, LiveAlike
<1>. QED
  BY <1>1, <1>3 DEF Alike

LEMMA OverIs ==
  ASSUME NEW s \in Host!HostTab, Host!Orderly(s), Host!Stopped(s)
  PROVE  /\ s.build = "done" /\ s.socket = "closed" /\ s.running \subseteq Host!Leftover(s) /\ ~s.shown /\ Faultless(s)
         /\ s.running \subseteq {"leave flush", "idle timer", "barrier", "baseline load", "cadence"}
BY DEF Host!Orderly, Host!Over, Host!CursorsLive, Host!Leftover, Faultless

LEMMA OverAlike ==
  ASSUME NEW s \in Host!HostTab, Host!Orderly(s), Host!Stopped(s), NEW t \in Host!HostTab, Alike(s, t), t.running \subseteq Host!Leftover(s)
  PROVE  Host!Orderly(t) /\ Host!Stopped(t)
<1>1. t.build = "done" /\ t.socket = "closed" /\ ~t.shown /\ Faultless(t) /\ Host!Stopped(t)
  BY OverIs DEF Alike, Kept, Faultless, Host!Stopped
<1>2. t.running \subseteq Host!Leftover(t)
  BY DEF Alike, Kept, Host!Leftover
<1>. QED
  BY <1>1, <1>2, OverOrderly

LEMMA OverStops ==
  ASSUME NEW s \in Host!HostTab, Host!Orderly(s), Host!Stopped(s), NEW P
  PROVE  Host!Stop(s, P) \in Host!HostTab /\ Host!Orderly(Host!Stop(s, P)) /\ Host!Stopped(Host!Stop(s, P)) /\ Alike(s, Host!Stop(s, P))
<1>1. PICK t \in Host!HostTab : t = Host!Stop(s, P) /\ Alike(s, t) /\ t.running = s.running \ P
  BY StopIs
<1>2. t.running \subseteq Host!Leftover(s)
  BY <1>1, OverIs
<1>. QED
  BY <1>1, <1>2, OverAlike

JoinedAs(s) == [s EXCEPT !.socket = "joined"]
ConnectsAs(s) == [s EXCEPT !.socket = "connecting"]
SlippedAs(s) == [s EXCEPT !.slipped = TRUE]

LEMMA SlippedSet ==
  ASSUME NEW s \in Host!HostTab
  PROVE  \E t \in Host!HostTab : /\ t = SlippedAs(s) /\ t.slipped /\ t.running = s.running /\ t.session = s.session
                                 /\ t.socket = s.socket /\ t.shown = s.shown /\ t.build = s.build
                                 /\ t.dropped = s.dropped
<1>1. PICK t : t = SlippedAs(s)
  OBVIOUS
<1>2. t \in Host!HostTab
  BY <1>1 DEF SlippedAs, Host!HostTab
<1>3. /\ t.slipped /\ t.running = s.running /\ t.session = s.session
      /\ t.socket = s.socket /\ t.shown = s.shown /\ t.build = s.build /\ t.dropped = s.dropped
  BY <1>1 DEF SlippedAs, Host!HostTab
<1>. QED
  BY <1>1, <1>2, <1>3

LEMMA SocketIs ==
  ASSUME NEW s \in Host!HostTab
  PROVE  /\ \E t \in Host!HostTab : /\ t = JoinedAs(s) /\ Kept(s, t) /\ t.socket = "joined" /\ t.session = s.session
                                    /\ t.shown = s.shown /\ t.running = s.running
         /\ \E t \in Host!HostTab : /\ t = ConnectsAs(s) /\ Kept(s, t) /\ t.socket = "connecting" /\ t.session = s.session
                                    /\ t.shown = s.shown /\ t.running = s.running
BY SocketSet DEF JoinedAs, ConnectsAs

LEMMA SessionJoined ==
  ASSUME Host!Orderly(tab), Host!Joined
  PROVE  Host!Orderly(tab')
<1>1. tab \in Host!HostTab /\ tab.socket = "connecting" /\ tab.session = "live"
  BY LivesBy DEF Host!Joined, Host!Orderly
<1>2. PICK P \in SUBSET (Host!HostParts \cup Host!SessionParts \cup {"leave flush"}) : P = {"barrier", "baseline load", "cadence"}
  BY DEF Host!SessionParts
<1>3. PICK r \in Host!HostTab : /\ r = Host!Stop(tab, {"presence timer"}) /\ Alike(tab, r)
                                /\ r.running = tab.running \ {"presence timer"}
  BY <1>1, StopIs
<1>4. PICK s \in Host!HostTab : /\ s = JoinedAs(r) /\ Kept(r, s) /\ s.socket = "joined" /\ s.session = r.session
                                /\ s.shown = r.shown /\ s.running = r.running
  BY SocketIs
<1>5. Kept(tab, s) /\ s.session = "live"
  BY <1>1, <1>3, <1>4 DEF Alike, Kept
<1>6. Host!Orderly(s)
  <2>1. /\ {"subscription", "visibility"} \subseteq s.running /\ s.running \cap {"reconnect", "refresh"} = {}
        /\ ("idle timer" \in s.running) <=> ("idle timer" \in tab.running)
    BY <1>1, <1>3, <1>4, LiveIs
  <2>. QED
    BY <1>1, <1>4, <1>5, <2>1, LiveOrderly
<1>7. CASE tab' = Host!Run(s, P)
  BY <1>2, <1>4, <1>5, <1>6, <1>7, LiveRuns
<1>8. CASE tab' = SlippedAs(Host!Run(Host!Terminate(s), P))
  <2>1. Faultless(s) /\ s.build = "done"
    BY <1>1, <1>5, CleanKept, LiveIs
  <2>2. PICK e \in Host!HostTab : /\ e = Host!Terminate(s) /\ Host!Stopped(e) /\ Kept(s, e) /\ e.socket = "closed" /\ ~e.shown
                                  /\ Faultless(e) /\ e.running \subseteq {"leave flush", "idle timer"}
    BY <1>4, <2>1, TerminateOrderly
  <2>3. PICK q \in Host!HostTab : q = Host!Run(e, P) /\ Alike(e, q) /\ q.running = e.running \cup P
    BY RunIs
  <2>4. PICK t \in Host!HostTab : /\ t = SlippedAs(q) /\ t.slipped /\ t.running = q.running /\ t.session = q.session
                                  /\ t.socket = q.socket /\ t.shown = q.shown /\ t.build = q.build /\ t.dropped = q.dropped
    BY SlippedSet
  <2>5. ~q.dropped /\ q.build = "done" /\ q.socket = "closed" /\ ~q.shown /\ Host!Stopped(q)
    BY <2>1, <2>2, <2>3 DEF Alike, Kept, Faultless, Host!Stopped
  <2>6. Faultless(t) /\ Host!Stopped(t)
    BY <2>4, <2>5 DEF Faultless, Host!Stopped
  <2>7. t.running \subseteq Host!Leftover(t)
    BY <1>2, <2>2, <2>3, <2>4 DEF Host!Leftover
  <2>8. Host!Orderly(t)
    BY <2>4, <2>5, <2>6, <2>7, OverOrderly
  <2>. QED
    BY <1>8, <2>2, <2>3, <2>4, <2>8
<1>. QED
  BY <1>2, <1>3, <1>4, <1>7, <1>8, Zenon DEF Host!Joined, Host!Becomes, JoinedAs, SlippedAs

LEMMA SessionReconnectFires ==
  ASSUME Host!Orderly(tab), Host!ReconnectFires
  PROVE  Host!Orderly(tab')
<1>1. tab \in Host!HostTab /\ tab.session = "live" /\ "reconnect" \in tab.running
  BY LivesBy DEF Host!ReconnectFires, Host!Is, Host!Orderly
<1>2. PICK r \in Host!HostTab : r = Host!Stop(tab, {"reconnect"}) /\ Alike(tab, r) /\ r.running = tab.running \ {"reconnect"}
  BY <1>1, StopIs
<1>3. {"refresh"} \in SUBSET (Host!HostParts \cup Host!SessionParts \cup {"leave flush"})
  BY DEF Host!SessionParts
<1>4. PICK t \in Host!HostTab : t = Host!Run(r, {"refresh"}) /\ Alike(r, t) /\ t.running = r.running \cup {"refresh"}
  BY <1>3, RunIs
<1>5. Kept(tab, t) /\ t.session = "live" /\ t.socket = tab.socket /\ t.shown = tab.shown
  BY <1>1, <1>2, <1>4 DEF Alike, Kept
<1>6. tab.socket = "off" /\ ~tab.shown /\ "cursor apply" \notin tab.running
  BY <1>1, LiveIs
<1>7. /\ {"subscription", "visibility"} \subseteq t.running /\ ~({"reconnect", "refresh"} \subseteq t.running)
      /\ ("idle timer" \in t.running) <=> ("idle timer" \in tab.running)
      /\ "cursor apply" \notin t.running
  BY <1>1, <1>2, <1>4, <1>6, LiveIs
<1>8. Host!Orderly(t)
  BY <1>1, <1>5, <1>6, <1>7, LiveOrderly
<1>. QED
  BY <1>2, <1>4, <1>8 DEF Host!ReconnectFires, Host!Becomes

LEMMA SessionRefreshSettles ==
  ASSUME Host!Orderly(tab), Host!RefreshSettles
  PROVE  Host!Orderly(tab')
<1>1. tab \in Host!HostTab /\ tab.session = "live" /\ "refresh" \in tab.running
  BY LivesBy DEF Host!RefreshSettles, Host!Is, Host!Orderly
<1>2. PICK s \in Host!HostTab : s = Host!Stop(tab, {"refresh"}) /\ Alike(tab, s) /\ s.running = tab.running \ {"refresh"}
  BY <1>1, StopIs
<1>3. Host!Orderly(s) /\ s.session = "live" /\ Host!Orderly(Host!Terminate(s))
  BY <1>1, <1>2, LiveStops
<1>4. /\ s.running \cap {"reconnect", "refresh"} = {} /\ s.socket = "off" /\ ~s.shown
      /\ "cursor apply" \notin s.running /\ {"subscription", "visibility"} \subseteq s.running
  <2>1. tab.socket = "off" /\ "reconnect" \notin tab.running
    BY <1>1, LiveIs
  <2>2. s.socket = "off"
    BY <1>2, <2>1 DEF Alike
  <2>. QED
    BY <1>2, <1>3, <2>1, <2>2, LiveIs
<1>5. CASE tab' = ConnectsAs(s)
  <2>1. PICK t \in Host!HostTab : /\ t = ConnectsAs(s) /\ Kept(s, t) /\ t.socket = "connecting" /\ t.session = s.session
                                  /\ t.shown = s.shown /\ t.running = s.running
    BY SocketIs
  <2>2. Host!Orderly(t)
    BY <1>3, <1>4, <2>1, LiveOrderly
  <2>. QED
    BY <1>5, <2>1, <2>2
<1>6. CASE tab' = Host!Run(s, {"reconnect"})
  <2>0. {"reconnect"} \in SUBSET (Host!HostParts \cup Host!SessionParts \cup {"leave flush"})
    BY DEF Host!SessionParts
  <2>1. PICK t \in Host!HostTab : t = Host!Run(s, {"reconnect"}) /\ Alike(s, t) /\ t.running = s.running \cup {"reconnect"}
    BY <2>0, RunIs
  <2>2. t.socket = "off" /\ ~t.shown /\ t.session = "live" /\ Kept(s, t)
    BY <1>3, <1>4, <2>1 DEF Alike
  <2>3. /\ {"subscription", "visibility"} \subseteq t.running /\ ~({"reconnect", "refresh"} \subseteq t.running)
        /\ ("idle timer" \in t.running) <=> ("idle timer" \in s.running)
        /\ "cursor apply" \notin t.running
    BY <1>4, <2>1
  <2>4. Host!Orderly(t)
    BY <1>3, <2>2, <2>3, LiveOrderly
  <2>. QED
    BY <1>6, <2>1, <2>4
<1>. QED
  BY <1>2, <1>3, <1>5, <1>6, Zenon DEF Host!RefreshSettles, Host!Becomes, Host!Moves, ConnectsAs

LEMMA SessionRoomUnreadable ==
  ASSUME Host!Orderly(tab), Host!RoomUnreadable
  PROVE  Host!Orderly(tab')
<1>1. tab \in Host!HostTab /\ tab.session = "live" /\ tab.socket = "joined"
  BY LivesBy DEF Host!RoomUnreadable, Host!Orderly
<1>2. Kept(tab, tab)
  BY DEF Kept
<1>. QED
  BY <1>1, <1>2, LiveEnds DEF Host!RoomUnreadable, Host!Becomes

LateAs(s, what) == [s EXCEPT !.late = @ \cup {what}]

LEMMA LateSet ==
  ASSUME NEW s \in Host!HostTab, NEW what \in {"scene", "images", "cursors"}
  PROVE  \E t \in Host!HostTab : /\ t = LateAs(s, what) /\ t.slipped = s.slipped /\ t.running = s.running
                                 /\ t.session = s.session /\ t.socket = s.socket /\ t.shown = s.shown
                                 /\ t.build = s.build /\ t.dropped = s.dropped
<1>1. PICK t : t = LateAs(s, what)
  OBVIOUS
<1>2. t \in Host!HostTab
  BY <1>1 DEF LateAs, Host!HostTab
<1>3. /\ t.slipped = s.slipped /\ t.running = s.running /\ t.session = s.session
      /\ t.socket = s.socket /\ t.shown = s.shown /\ t.build = s.build /\ t.dropped = s.dropped
  BY <1>1 DEF LateAs, Host!HostTab
<1>. QED
  BY <1>1, <1>2, <1>3

LEMMA SessionBaselineSettles ==
  ASSUME Host!Orderly(tab), Host!BaselineSettles
  PROVE  Host!Orderly(tab')
<1>1. tab \in Host!HostTab /\ "baseline load" \in tab.running
  BY DEF Host!Orderly, Host!BaselineSettles, Host!Is
<1>2. tab.session = "live" \/ (Host!Stopped(tab) /\ tab.slipped)
  <2>1. tab.session # "none"
    BY <1>1 DEF Host!Orderly, Host!Building
  <2>2. Host!Stopped(tab) => tab.slipped
    BY <1>1 DEF Host!Orderly, Host!Over, Host!Leftover
  <2>. QED
    BY <1>1, <2>1, <2>2 DEF Host!HostTab, Host!Stopped
<1>3. PICK s \in Host!HostTab : s = Host!Stop(tab, {"baseline load"}) /\ Alike(tab, s) /\ s.running = tab.running \ {"baseline load"}
  BY <1>1, StopIs
<1>4. Host!Orderly(s) /\ (tab.session = "live" => Host!Orderly(Host!Terminate(s))) /\ s.session = tab.session
  <2>1. s.session = tab.session
    BY <1>3 DEF Alike
  <2>2. CASE tab.session = "live"
    BY <1>1, <1>3, <2>1, <2>2, LiveStops
  <2>3. CASE Host!Stopped(tab)
    BY <1>1, <1>3, <2>1, <2>3, OverStops DEF Host!Stopped
  <2>. QED
    BY <1>2, <2>2, <2>3
<1>5. CASE tab' = Host!Terminate(s)
  <2>1. CASE tab.session = "live"
    BY <1>4, <1>5, <2>1
  <2>2. CASE Host!Stopped(tab)
    <3>1. Host!Stopped(s)
      BY <1>4, <2>2 DEF Host!Stopped
    <3>2. s.running \subseteq {"leave flush", "idle timer"} \cup Host!SessionParts
      BY <1>4, <3>1, OverIs DEF Host!SessionParts
    <3>. QED
      BY <1>4, <1>5, <3>1, <3>2, OverIs, TerminateOrderly
  <2>. QED
    BY <1>2, <2>1, <2>2
<1>6. CASE tab' = Host!Stop(Host!Apply(s, "scene"), {"barrier"})
  <2>1. CASE tab.session = "live"
    <3>1. Host!Apply(s, "scene") = s
      BY <1>4, <2>1, LiveIs, LiveApplies
    <3>. QED
      BY <1>4, <1>6, <2>1, <3>1, LiveStops
  <2>2. CASE Host!Stopped(tab) /\ tab.slipped
    <3>1. Host!Stopped(s) /\ s.slipped
      BY <1>3, <1>4, <2>2 DEF Host!Stopped, Alike, Kept
    <3>2. PICK l \in Host!HostTab : /\ l = LateAs(s, "scene") /\ l.slipped = s.slipped /\ l.running = s.running
                                    /\ l.session = s.session /\ l.socket = s.socket /\ l.shown = s.shown
                                    /\ l.build = s.build /\ l.dropped = s.dropped
      BY LateSet
    <3>3. Host!Orderly(l) /\ Host!Stopped(l)
      <4>1. /\ s.build = "done" /\ s.socket = "closed" /\ s.running \subseteq Host!Leftover(s) /\ ~s.shown /\ Faultless(s)
        BY <1>4, <3>1, OverIs
      <4>2. Faultless(l) /\ Host!Stopped(l) /\ l.running \subseteq Host!Leftover(l)
        BY <3>1, <3>2, <4>1 DEF Faultless, Host!Stopped, Host!Leftover
      <4>. QED
        BY <3>2, <4>1, <4>2, OverOrderly
    <3>4. PICK a \in Host!HostTab : a = Host!Apply(s, "scene") /\ Host!Orderly(a) /\ Host!Stopped(a)
      <4>1. Host!Apply(s, "scene") \in {s, l}
        BY <3>2, Zenon DEF Host!Apply, Host!Write, LateAs
      <4>. QED
        BY <4>1, <1>4, <3>1, <3>3
    <3>. QED
      BY <1>6, <3>4, OverStops
  <2>. QED
    BY <1>2, <2>1, <2>2
<1>. QED
  BY <1>3, <1>5, <1>6, Zenon DEF Host!BaselineSettles, Host!Becomes

LEMMA SessionBaselineTimeout ==
  ASSUME Host!Orderly(tab), Host!BaselineTimeout
  PROVE  Host!Orderly(tab')
<1>1. tab \in Host!HostTab /\ "barrier" \in tab.running /\ tab' = Host!Stop(tab, {"barrier"})
  BY DEF Host!Orderly, Host!BaselineTimeout, Host!Is, Host!Becomes
<1>2. tab.session = "live" \/ Host!Stopped(tab)
  BY <1>1 DEF Host!Orderly, Host!Building, Host!HostTab, Host!Stopped
<1>. QED
  BY <1>1, <1>2, LiveStops, OverStops

LEMMA SessionSceneArrives ==
  ASSUME Host!Orderly(tab), Host!SceneArrives
  PROVE  Host!Orderly(tab')
<1>1. tab \in Host!HostTab /\ tab.session = "live" /\ ~Host!Ended(tab)
  BY LivesBy DEF Host!SceneArrives, Host!Orderly
<1>2. Host!Apply(tab, "scene") = tab
  BY <1>1, LiveApplies
<1>3. {"download"} \in SUBSET (Host!HostParts \cup Host!SessionParts \cup {"leave flush"})
  BY DEF Host!HostParts
<1>4. Host!Orderly(Host!Run(tab, {"download"}))
  BY <1>1, <1>3, LiveRuns
<1>. QED
  BY <1>2, <1>4 DEF Host!SceneArrives, Host!Becomes

LEMMA SessionDownloadSettles ==
  ASSUME Host!Orderly(tab), Host!DownloadSettles
  PROVE  Host!Orderly(tab')
<1>1. tab \in Host!HostTab /\ tab.session = "live"
  BY LivesBy DEF Host!DownloadSettles, Host!Is, Host!Orderly
<1>2. Host!Orderly(Host!Stop(tab, {"download"})) /\ ~Host!Ended(Host!Stop(tab, {"download"}))
  BY <1>1, LiveStops, LiveIs
<1>3. Host!Apply(Host!Stop(tab, {"download"}), "images") = Host!Stop(tab, {"download"})
  BY <1>2, LiveApplies
<1>. QED
  BY <1>2, <1>3 DEF Host!DownloadSettles, Host!Becomes

HeardAs(s) == [s EXCEPT !.heard = TRUE]
ShownAs(s) == [s EXCEPT !.shown = s.heard]
PrunedAs(s) == [s EXCEPT !.heard = FALSE, !.shown = FALSE]

LEMMA SeenSet ==
  ASSUME NEW s \in Host!HostTab
  PROVE  /\ \E t \in Host!HostTab : /\ t = HeardAs(s) /\ Kept(s, t) /\ t.socket = s.socket /\ t.session = s.session
                                    /\ t.shown = s.shown /\ t.running = s.running
         /\ \E t \in Host!HostTab : /\ t = ShownAs(s) /\ Kept(s, t) /\ t.socket = s.socket /\ t.session = s.session
                                    /\ t.running = s.running
         /\ \E t \in Host!HostTab : /\ t = PrunedAs(s) /\ Kept(s, t) /\ t.socket = s.socket /\ t.session = s.session
                                    /\ ~t.shown /\ t.running = s.running
<1>1. /\ HeardAs(s) \in Host!HostTab /\ Kept(s, HeardAs(s)) /\ HeardAs(s).socket = s.socket
      /\ HeardAs(s).session = s.session /\ HeardAs(s).shown = s.shown /\ HeardAs(s).running = s.running
  BY DEF Host!HostTab, Kept, HeardAs
<1>2. /\ ShownAs(s) \in Host!HostTab /\ Kept(s, ShownAs(s)) /\ ShownAs(s).socket = s.socket
      /\ ShownAs(s).session = s.session /\ ShownAs(s).running = s.running
  BY DEF Host!HostTab, Kept, ShownAs
<1>3. /\ PrunedAs(s) \in Host!HostTab /\ Kept(s, PrunedAs(s)) /\ PrunedAs(s).socket = s.socket
      /\ PrunedAs(s).session = s.session /\ ~PrunedAs(s).shown /\ PrunedAs(s).running = s.running
  BY DEF Host!HostTab, Kept, PrunedAs
<1>. QED
  BY <1>1, <1>2, <1>3

(* A live session whose socket and running parts are left as they are.       *)
LEMMA LiveSame ==
  ASSUME NEW s \in Host!HostTab, Host!Orderly(s), s.session = "live", NEW t \in Host!HostTab, Kept(s, t), t.session = "live",
         t.socket = s.socket, t.running = s.running, t.shown => t.socket = "joined"
  PROVE  Host!Orderly(t)
BY LiveIs, LiveOrderly

LEMMA SessionPresenceArrives ==
  ASSUME Host!Orderly(tab), Host!PresenceArrives
  PROVE  Host!Orderly(tab')
<1>1. tab \in Host!HostTab /\ tab.session = "live" /\ tab.socket = "joined"
  BY LivesBy DEF Host!PresenceArrives, Host!Orderly
<1>2. {"cursor apply"} \in SUBSET (Host!HostParts \cup Host!SessionParts \cup {"leave flush"})
  BY DEF Host!SessionParts
<1>3. PICK r \in Host!HostTab : r = Host!Run(tab, {"cursor apply"}) /\ Host!Orderly(r) /\ r.session = "live" /\ Alike(tab, r)
  BY <1>1, <1>2, LiveRuns
<1>4. PICK t \in Host!HostTab : /\ t = HeardAs(r) /\ Kept(r, t) /\ t.socket = r.socket /\ t.session = r.session
                                /\ t.shown = r.shown /\ t.running = r.running
  BY SeenSet
<1>5. r.socket = "joined"
  BY <1>1, <1>3 DEF Alike
<1>6. Host!Orderly(t)
  BY <1>3, <1>4, <1>5, LiveSame
<1>. QED
  BY <1>3, <1>4, <1>6, Zenon DEF Host!PresenceArrives, Host!Becomes, HeardAs

LEMMA SessionCursorsApply ==
  ASSUME Host!Orderly(tab), Host!CursorsApply
  PROVE  Host!Orderly(tab')
<1>1. tab \in Host!HostTab /\ tab.session = "live" /\ "cursor apply" \in tab.running
  BY LivesBy DEF Host!CursorsApply, Host!Is, Host!Orderly
<1>2. tab.socket = "joined"
  BY <1>1, LiveIs
<1>3. PICK s \in Host!HostTab : s = Host!Stop(tab, {"cursor apply"}) /\ Host!Orderly(s) /\ s.session = "live" /\ Alike(tab, s)
  BY <1>1, LiveStops
<1>4. PICK t \in Host!HostTab : /\ t = ShownAs(s) /\ Kept(s, t) /\ t.socket = s.socket /\ t.session = s.session
                                /\ t.running = s.running
  BY SeenSet
<1>5. s.socket = "joined"
  BY <1>2, <1>3 DEF Alike
<1>6. Host!Orderly(t)
  BY <1>3, <1>4, <1>5, LiveSame
<1>. QED
  BY <1>3, <1>4, <1>6, Zenon DEF Host!CursorsApply, Host!Becomes, ShownAs

LEMMA SessionPeersPruned ==
  ASSUME Host!Orderly(tab), Host!PeersPruned
  PROVE  Host!Orderly(tab')
<1>1. tab \in Host!HostTab /\ tab.session = "live"
  BY LivesBy DEF Host!PeersPruned, Host!Orderly
<1>3. PICK s \in Host!HostTab : s = Host!Stop(tab, {"cursor apply"}) /\ Host!Orderly(s) /\ s.session = "live"
  BY <1>1, LiveStops
<1>4. PICK t \in Host!HostTab : /\ t = PrunedAs(s) /\ Kept(s, t) /\ t.socket = s.socket /\ t.session = s.session
                                /\ ~t.shown /\ t.running = s.running
  BY SeenSet
<1>6. Host!Orderly(t)
  BY <1>3, <1>4, LiveSame
<1>. QED
  BY <1>3, <1>4, <1>6, Zenon DEF Host!PeersPruned, Host!Becomes, PrunedAs

LEMMA SessionFlushFires ==
  ASSUME Host!Orderly(tab), Host!FlushFires
  PROVE  Host!Orderly(tab')
<1>1. tab \in Host!HostTab /\ tab.session = "live"
  BY LivesBy DEF Host!FlushFires, Host!Is, Host!Orderly
<1>2. PICK s \in Host!HostTab : s = Host!Stop(tab, {"flush"}) /\ Host!Orderly(s) /\ s.session = "live" /\ Host!Orderly(Host!Terminate(s))
  BY <1>1, LiveStops
<1>3. {"repair"} \in SUBSET (Host!HostParts \cup Host!SessionParts \cup {"leave flush"})
  BY DEF Host!SessionParts
<1>4. Host!Orderly(Host!Run(s, {"repair"}))
  BY <1>2, <1>3, LiveRuns
<1>. QED
  BY <1>2, <1>4 DEF Host!FlushFires, Host!Becomes

LEMMA SessionRepairFires ==
  ASSUME Host!Orderly(tab), Host!RepairFires
  PROVE  Host!Orderly(tab')
<1>1. tab \in Host!HostTab /\ tab.session = "live"
  BY LivesBy DEF Host!RepairFires, Host!Is, Host!Orderly
<1>2. PICK s \in Host!HostTab : s = Host!Stop(tab, {"repair"}) /\ Host!Orderly(s) /\ s.session = "live"
  BY <1>1, LiveStops
<1>3. {"flush"} \in SUBSET (Host!HostParts \cup Host!SessionParts \cup {"leave flush"})
  BY DEF Host!SessionParts
<1>4. Host!Orderly(Host!Run(s, {"flush"}))
  BY <1>2, <1>3, LiveRuns
<1>. QED
  BY <1>2, <1>4 DEF Host!RepairFires, Host!Becomes

LEMMA SessionPresenceTimerFires ==
  ASSUME Host!Orderly(tab), Host!PresenceTimerFires
  PROVE  Host!Orderly(tab')
<1>1. tab \in Host!HostTab /\ tab.session = "live"
  BY LivesBy DEF Host!PresenceTimerFires, Host!Is, Host!Orderly
<1>2. PICK s \in Host!HostTab : s = Host!Stop(tab, {"presence timer"}) /\ Host!Orderly(s) /\ Host!Orderly(Host!Terminate(s))
  BY <1>1, LiveStops
<1>. QED
  BY <1>2 DEF Host!PresenceTimerFires, Host!Becomes

LEMMA SessionEdit ==
  ASSUME Host!Orderly(tab), Host!Edit \/ Host!Scroll
  PROVE  Host!Orderly(tab')
<1>1. tab \in Host!HostTab /\ tab.session = "live"
  BY LivesBy DEF Host!Edit, Host!Scroll, Host!HasHandle, Host!Orderly
<1>2. /\ {"flush"} \in SUBSET (Host!HostParts \cup Host!SessionParts \cup {"leave flush"})
      /\ {"presence timer"} \in SUBSET (Host!HostParts \cup Host!SessionParts \cup {"leave flush"})
  BY DEF Host!SessionParts
<1>3. Host!Orderly(Host!Run(tab, {"flush"})) /\ Host!Orderly(Host!Run(tab, {"presence timer"}))
  BY <1>1, <1>2, LiveRuns
<1>. QED
  BY <1>3 DEF Host!Edit, Host!Scroll, Host!Moves

(* The host tells what it knows of the user.                                *)
IdleAs(s, idle) == [s EXCEPT !.idle = idle]

LEMMA IdleSet ==
  ASSUME NEW s \in Host!HostTab, NEW x \in {"active", "idle", "away"}
  PROVE  \E t \in Host!HostTab : /\ t = IdleAs(s, x) /\ t.idle = x /\ t.build = s.build /\ t.hidden = s.hidden
                                 /\ t.told = s.told /\ t.late = s.late /\ t.dropped = s.dropped
                                 /\ t.slipped = s.slipped /\ t.socket = s.socket /\ t.session = s.session
                                 /\ t.shown = s.shown /\ t.running = s.running
<1>1. PICK t : t = IdleAs(s, x)
  OBVIOUS
<1>2. t \in Host!HostTab
  BY <1>1 DEF IdleAs, Host!HostTab
<1>3. /\ t.idle = x /\ t.build = s.build /\ t.hidden = s.hidden
      /\ t.told = s.told /\ t.late = s.late /\ t.dropped = s.dropped
      /\ t.slipped = s.slipped /\ t.socket = s.socket /\ t.session = s.session
      /\ t.shown = s.shown /\ t.running = s.running
  BY <1>1 DEF IdleAs, Host!HostTab
<1>. QED
  BY <1>1, <1>2, <1>3

(* A live session in all but what it has told.                              *)
Lively(s) == s \in Host!HostTab /\ s.session = "live" /\ Host!Living(s) /\ Host!CursorsLive(s) /\ Faultless(s)

LEMMA LivelyOrderly ==
  ASSUME NEW s, Lively(s), Host!Watching(s)
  PROVE  Host!Orderly(s)
BY DEF Lively, Host!Orderly, Host!Building, Host!Over, Host!Stopped, Faultless

LEMMA OrderlyLively ==
  ASSUME NEW s, Host!Orderly(s), s.session = "live"
  PROVE  Lively(s) /\ Host!Watching(s)
BY DEF Lively, Host!Orderly, Faultless

LEMMA Announced ==
  ASSUME NEW s, Lively(s), NEW x \in {"active", "idle", "away"}, NEW spent \in BOOLEAN
  PROVE  \E t \in Host!HostTab :
           /\ t = Host!Announce(s, x, spent)
           /\ \/ /\ Lively(t) /\ t.idle = x /\ t.hidden = s.hidden /\ t.told = s.told
                 /\ t.running = s.running
              \/ /\ Host!Orderly(t) /\ Host!Stopped(t) /\ t.running \subseteq {"leave flush"}
<1>1. s \in Host!HostTab /\ ~Host!Stopped(s)
  BY DEF Lively, Host!Stopped
<1>2. CASE s.idle = x
  BY <1>1, <1>2 DEF Host!Announce
<1>3. CASE s.idle # x
  <2>1. PICK t \in Host!HostTab :
          /\ t = IdleAs(s, x) /\ t.idle = x /\ t.build = s.build /\ t.hidden = s.hidden
          /\ t.told = s.told /\ t.late = s.late /\ t.dropped = s.dropped
          /\ t.slipped = s.slipped /\ t.socket = s.socket /\ t.session = s.session
          /\ t.shown = s.shown /\ t.running = s.running
    BY <1>1, IdleSet
  <2>2. Lively(t)
    BY <2>1 DEF Lively, Host!Living, Host!CursorsLive, Faultless
  <2>3. Faultless(t) /\ t.build = "done" /\ t.socket # "closed"
    BY <2>2 DEF Lively, Host!Living
  <2>4. Host!Orderly(Host!Terminate(t)) /\ Host!Stopped(Host!Terminate(t)) /\ Host!Terminate(t).running \subseteq {"leave flush"}
        /\ Host!Terminate(t) \in Host!HostTab
    BY <2>3, TerminateOrderly
  <2>5. Host!Announce(s, x, spent) \in {t, Host!Terminate(t)}
    BY <1>1, <1>3, <2>1, Zenon DEF Host!Announce, IdleAs
  <2>. QED
    BY <2>1, <2>2, <2>4, <2>5
<1>. QED
  BY <1>2, <1>3

(* The timer may be started over whatever is left.                          *)
LEMMA TimerStarts ==
  ASSUME NEW s \in Host!HostTab
  PROVE  \E t \in Host!HostTab : t = Host!Run(s, {"idle timer"}) /\ Alike(s, t) /\ t.running = s.running \cup {"idle timer"}
<1>1. {"idle timer"} \in SUBSET (Host!HostParts \cup Host!SessionParts \cup {"leave flush"})
  BY DEF Host!HostParts
<1>. QED
  BY <1>1, RunIs

LEMMA OverTimer ==
  ASSUME NEW s \in Host!HostTab, Host!Orderly(s), Host!Stopped(s)
  PROVE  Host!Orderly(Host!Run(s, {"idle timer"}))
<1>1. PICK t \in Host!HostTab : t = Host!Run(s, {"idle timer"}) /\ Alike(s, t) /\ t.running = s.running \cup {"idle timer"}
  BY TimerStarts
<1>2. t.running \subseteq Host!Leftover(s)
  BY <1>1, OverIs DEF Host!Leftover
<1>. QED
  BY <1>1, <1>2, OverAlike

LEMMA LivelyAlike ==
  ASSUME NEW s, Lively(s), NEW t \in Host!HostTab, Alike(s, t),
         s.running \ {"idle timer"} = t.running \ {"idle timer"}
  PROVE  Lively(t)
BY DEF Lively, Host!Living, Alike, Kept, Host!CursorsLive, Faultless

LEMMA ActiveMarked ==
  ASSUME NEW s, Lively(s), ~s.hidden, NEW spent \in BOOLEAN
  PROVE  Host!Orderly(Host!MarkActive(s, spent))
<1>1. PICK a \in Host!HostTab :
        /\ a = Host!Announce(s, "active", spent)
        /\ \/ Lively(a) /\ a.idle = "active" /\ a.hidden = s.hidden /\ a.told = s.told
           \/ Host!Orderly(a) /\ Host!Stopped(a)
  BY Announced
<1>2. Host!MarkActive(s, spent) = Host!Run(a, {"idle timer"})
  BY <1>1 DEF Host!MarkActive
<1>3. CASE Host!Orderly(a) /\ Host!Stopped(a)
  BY <1>2, <1>3, OverTimer
<1>4. CASE Lively(a) /\ a.idle = "active" /\ a.hidden = s.hidden /\ a.told = s.told
  <2>1. PICK t \in Host!HostTab : t = Host!Run(a, {"idle timer"}) /\ Alike(a, t) /\ t.running = a.running \cup {"idle timer"}
    BY TimerStarts
  <2>2. Lively(t)
    BY <1>4, <2>1, LivelyAlike
  <2>3. ~t.hidden /\ t.hidden \in BOOLEAN /\ t.idle = "active" /\ "idle timer" \in t.running
    BY <1>4, <2>1 DEF Alike, Kept, Host!HostTab
  <2>4. Host!Watching(t)
    BY <2>3 DEF Host!Watching
  <2>. QED
    BY <1>2, <2>1, <2>2, <2>4, LivelyOrderly
<1>. QED
  BY <1>1, <1>3, <1>4

LEMMA SessionPointerMoves ==
  ASSUME Host!Orderly(tab), Host!PointerMoves
  PROVE  Host!Orderly(tab')
<1>1. PICK spent \in BOOLEAN : tab' = Host!MarkActive(tab, spent)
  BY DEF Host!PointerMoves, Host!Becomes
<1>2. tab \in Host!HostTab /\ tab.build = "done" /\ ~tab.hidden
  BY DEF Host!Orderly, Host!PointerMoves, Host!HasHandle
<1>3. CASE Host!Stopped(tab)
  <2>1. Host!MarkActive(tab, spent) = Host!Run(tab, {"idle timer"})
    BY <1>3 DEF Host!MarkActive, Host!Announce
  <2>. QED
    BY <1>1, <1>2, <1>3, <2>1, OverTimer
<1>4. CASE ~Host!Stopped(tab)
  <2>1. tab.session = "live"
    BY <1>2, <1>4, LivesBy
  <2>. QED
    BY <1>1, <1>2, <2>1, OrderlyLively, ActiveMarked
<1>. QED
  BY <1>3, <1>4

LEMMA SessionIdleTimerFires ==
  ASSUME Host!Orderly(tab), Host!IdleTimerFires
  PROVE  Host!Orderly(tab')
<1>1. tab \in Host!HostTab /\ "idle timer" \in tab.running
  BY DEF Host!Orderly, Host!IdleTimerFires, Host!Is
<1>2. PICK s \in Host!HostTab : s = Host!Stop(tab, {"idle timer"}) /\ Alike(tab, s) /\ s.running = tab.running \ {"idle timer"}
  BY <1>1, StopIs
<1>3. PICK spent \in BOOLEAN : tab' = Host!Announce(s, "idle", spent)
  BY <1>2 DEF Host!IdleTimerFires, Host!Becomes
<1>4. tab.session = "live" \/ Host!Stopped(tab)
  BY <1>1 DEF Host!Orderly, Host!Building, Host!HostTab, Host!Stopped
<1>5. CASE Host!Stopped(tab)
  <2>1. Host!Orderly(s) /\ Host!Stopped(s)
    BY <1>1, <1>2, <1>5, OverStops
  <2>. QED
    BY <1>3, <2>1 DEF Host!Announce
<1>6. CASE tab.session = "live"
  <2>1. Lively(tab) /\ Host!Watching(tab)
    BY <1>6, OrderlyLively
  <2>2. Lively(s)
    BY <1>2, <2>1, LivelyAlike
  <2>3. /\ s.told = tab.told /\ s.hidden = tab.hidden /\ s.idle = tab.idle
        /\ ~(tab.hidden /\ tab.told) /\ tab.told \in BOOLEAN /\ tab.hidden \in BOOLEAN
    BY <1>1, <1>2, <1>6, <2>1 DEF Alike, Kept, Host!Watching, Host!HostTab
  <2>4. PICK t \in Host!HostTab :
          /\ t = Host!Announce(s, "idle", spent)
          /\ \/ /\ Lively(t) /\ t.idle = "idle" /\ t.hidden = s.hidden /\ t.told = s.told
                /\ t.running = s.running
             \/ Host!Orderly(t)
    BY <2>2, Announced
  <2>5. CASE Lively(t) /\ t.idle = "idle" /\ t.hidden = s.hidden /\ t.told = s.told /\ t.running = s.running
    <3>1. Host!Watching(t)
      BY <1>2, <2>3, <2>5 DEF Host!Watching
    <3>. QED
      BY <1>3, <2>4, <2>5, <3>1, LivelyOrderly
  <2>. QED
    BY <1>3, <2>4, <2>5
<1>. QED
  BY <1>4, <1>5, <1>6

SeenAs(s, told) == [s EXCEPT !.hidden = ~@, !.told = told]

LEMMA VisibilitySet ==
  ASSUME NEW s \in Host!HostTab, NEW told \in BOOLEAN
  PROVE  \E t \in Host!HostTab : /\ t = SeenAs(s, told) /\ t.idle = s.idle /\ t.build = s.build /\ (t.hidden <=> ~s.hidden)
                                 /\ (t.told <=> told) /\ t.late = s.late /\ t.dropped = s.dropped
                                 /\ t.slipped = s.slipped /\ t.socket = s.socket /\ t.session = s.session
                                 /\ t.shown = s.shown /\ t.running = s.running
<1>1. PICK t : t = SeenAs(s, told)
  OBVIOUS
<1>2. t \in Host!HostTab
  BY <1>1 DEF SeenAs, Host!HostTab
<1>3. /\ t.idle = s.idle /\ t.build = s.build /\ (t.hidden <=> ~s.hidden)
      /\ (t.told <=> told) /\ t.late = s.late /\ t.dropped = s.dropped
      /\ t.slipped = s.slipped /\ t.socket = s.socket /\ t.session = s.session
      /\ t.shown = s.shown /\ t.running = s.running
  BY <1>1 DEF SeenAs, Host!HostTab
<1>. QED
  BY <1>1, <1>2, <1>3

LEMMA SessionVisibilityChanges ==
  ASSUME Host!Orderly(tab), Host!VisibilityChanges
  PROVE  Host!Orderly(tab')
<1>1. tab \in Host!HostTab /\ tab.session \in {"none", "live", "terminated", "destroyed"}
  BY DEF Host!Orderly, Host!HostTab
<1>2. PICK s \in Host!HostTab :
        /\ s = SeenAs(tab, Host!Is("visibility")) /\ s.idle = tab.idle /\ s.build = tab.build
        /\ (s.hidden <=> ~tab.hidden)
        /\ (s.told <=> Host!Is("visibility")) /\ s.late = tab.late /\ s.dropped = tab.dropped
        /\ s.slipped = tab.slipped /\ s.socket = tab.socket /\ s.session = tab.session
        /\ s.shown = tab.shown /\ s.running = tab.running
  <2>1. Host!Is("visibility") \in BOOLEAN
    BY DEF Host!Is
  <2>. QED
    BY <1>1, <2>1, VisibilitySet
<1>3. PICK spent \in BOOLEAN :
        tab' = IF ~Host!Is("visibility") THEN s
               ELSE IF s.hidden THEN Host!Announce(Host!Stop(s, {"idle timer"}), "away", spent)
               ELSE Host!MarkActive(s, spent)
  BY <1>2, Zenon DEF Host!VisibilityChanges, SeenAs
<1>4. CASE ~Host!Is("visibility")
  <2>1. tab.session # "live" /\ ~s.told
    BY <1>1, <1>2, <1>4, LiveIs DEF Host!Is
  <2>2. Host!Building(s) /\ Host!Living(s) /\ Host!Over(s)
    BY <1>2, <2>1 DEF Host!Orderly, Host!Building, Host!Living, Host!Over, Host!Stopped,
       Host!Leftover
  <2>3. Host!CursorsLive(s) /\ Host!Watching(s)
    BY <1>2, <2>1 DEF Host!Orderly, Host!CursorsLive, Host!Watching
  <2>4. Host!Orderly(s)
    BY <1>2, <2>2, <2>3 DEF Host!Orderly
  <2>. QED
    BY <1>3, <1>4, <2>4
<1>5. CASE Host!Is("visibility")
  <2>1. tab.session = "live" /\ s.told
    BY <1>2, <1>5, LivesBy DEF Host!Is
  <2>2. Lively(tab)
    BY <2>1, OrderlyLively
  <2>3. Lively(s)
    BY <1>2, <2>2 DEF Lively, Host!Living, Host!CursorsLive, Faultless
  <2>4. CASE ~s.hidden
    BY <1>3, <1>5, <2>3, <2>4, ActiveMarked
  <2>5. CASE s.hidden
    <3>1. PICK r \in Host!HostTab : r = Host!Stop(s, {"idle timer"}) /\ Alike(s, r) /\ r.running = s.running \ {"idle timer"}
      BY StopIs
    <3>2. Lively(r)
      BY <2>3, <3>1, LivelyAlike
    <3>3. r.hidden = s.hidden /\ r.told = s.told /\ "idle timer" \notin r.running
      BY <3>1 DEF Alike, Kept
    <3>4. PICK t \in Host!HostTab :
            /\ t = Host!Announce(r, "away", spent)
            /\ \/ /\ Lively(t) /\ t.idle = "away" /\ t.hidden = r.hidden /\ t.told = r.told
                  /\ t.running = r.running
               \/ Host!Orderly(t)
      BY <3>2, Announced
    <3>6. Host!Orderly(t)
      <4>1. CASE Lively(t) /\ t.idle = "away" /\ t.hidden = r.hidden /\ t.told = r.told /\ t.running = r.running
        <5>1. t.hidden \in BOOLEAN /\ t.hidden
          BY <2>5, <3>3, <4>1 DEF Host!HostTab
        <5>2. Host!Watching(t)
          BY <3>3, <4>1, <5>1 DEF Host!Watching
        <5>. QED
          BY <4>1, <5>2, LivelyOrderly
      <4>. QED
        BY <3>4, <4>1
    <3>. QED
      BY <1>3, <1>5, <2>5, <3>1, <3>4, <3>6
  <2>. QED
    BY <2>4, <2>5
<1>. QED
  BY <1>4, <1>5

LeftAs(s, dropped) == [s EXCEPT !.wanted = FALSE, !.owns = FALSE, !.dropped = dropped]
AloneAs(s) == [s EXCEPT !.owns = FALSE]

SameElse(s, t) ==
  /\ t.build = s.build /\ t.idle = s.idle /\ t.hidden = s.hidden /\ t.told = s.told
  /\ t.late = s.late /\ ~t.dropped /\ t.slipped = s.slipped /\ t.socket = s.socket
  /\ t.session = s.session /\ t.shown = s.shown /\ t.running = s.running

LEMMA LeaveSet ==
  ASSUME NEW s \in Host!HostTab, NEW dropped \in BOOLEAN, ~dropped
  PROVE  \E t \in Host!HostTab : t = LeftAs(s, dropped) /\ SameElse(s, t)
<1>1. PICK t : t = LeftAs(s, dropped)
  OBVIOUS
<1>2. t \in Host!HostTab
  BY <1>1 DEF LeftAs, Host!HostTab
<1>3. SameElse(s, t)
  BY <1>1 DEF LeftAs, Host!HostTab, SameElse
<1>. QED
  BY <1>1, <1>2, <1>3

LEMMA AloneSet ==
  ASSUME NEW s \in Host!HostTab, ~s.dropped
  PROVE  \E t \in Host!HostTab : t = AloneAs(s) /\ SameElse(s, t)
<1>1. PICK t : t = AloneAs(s)
  OBVIOUS
<1>2. t \in Host!HostTab
  BY <1>1 DEF AloneAs, Host!HostTab
<1>3. SameElse(s, t)
  BY <1>1 DEF AloneAs, Host!HostTab, SameElse
<1>. QED
  BY <1>1, <1>2, <1>3

(* What the invariant looks at is the same.                                 *)
LEMMA OrderlySame ==
  ASSUME NEW s, Host!Orderly(s), NEW t \in Host!HostTab, SameElse(s, t)
  PROVE  Host!Orderly(t)
<1>1. Host!Building(t) /\ Host!Living(t) /\ Host!Over(t)
  BY DEF SameElse, Host!Orderly, Host!Building, Host!Living, Host!Over, Host!Stopped, Host!Leftover
<1>2. Host!CursorsLive(t) /\ Host!Watching(t)
  BY DEF SameElse, Host!Orderly, Host!CursorsLive, Host!Watching
<1>. QED
  BY <1>1, <1>2 DEF SameElse, Host!Orderly

LEMMA SessionSwitchScene ==
  ASSUME Host!Orderly(tab), Host!SwitchScene
  PROVE  Host!Orderly(tab')
<1>1. tab' = AloneAs(tab)
  BY Zenon DEF Host!SwitchScene, Host!Becomes, AloneAs
<1>2. tab \in Host!HostTab /\ ~tab.dropped
  BY DEF Host!Orderly
<1>3. PICK t \in Host!HostTab : t = AloneAs(tab) /\ SameElse(tab, t)
  BY <1>2, AloneSet
<1>. QED
  BY <1>1, <1>3, OrderlySame

LEMMA SessionLeave ==
  ASSUME Host!Orderly(tab), Host!Leave
  PROVE  Host!Orderly(tab')
<1>1. tab \in Host!HostTab
  BY DEF Host!Orderly
<1>2. PICK s \in Host!HostTab :
        /\ s = (IF tab.build = "done" THEN Host!Destroy(tab) ELSE tab)
        /\ Host!Orderly(s)
        /\ tab.build = "done" /\ Host!MayPublish(tab) => "leave flush" \in s.running
  BY <1>1, Destroyed, DestroyOrderly
<1>3. PICK d \in BOOLEAN :
        /\ d = ((tab.build = "done" /\ Host!MayPublish(tab)) /\ "leave flush" \notin s.running)
        /\ ~d
  BY <1>2
<1>4. tab' = LeftAs(s, d)
  BY <1>2, <1>3, Zenon DEF Host!Leave, Host!Becomes, LeftAs
<1>5. PICK t \in Host!HostTab : t = LeftAs(s, d) /\ SameElse(s, t)
  BY <1>3, LeaveSet
<1>. QED
  BY <1>2, <1>4, <1>5, OrderlySame

LEMMA SessionFlushSettles ==
  ASSUME Host!Orderly(tab), Host!FlushSettles
  PROVE  Host!Orderly(tab')
<1>1. tab \in Host!HostTab /\ "leave flush" \in tab.running /\ tab' = Host!Stop(tab, {"leave flush"})
  BY DEF Host!Orderly, Host!FlushSettles, Host!Is, Host!Becomes
<1>2. tab.session = "live" \/ Host!Stopped(tab)
  BY <1>1 DEF Host!Orderly, Host!Building, Host!HostTab, Host!Stopped
<1>. QED
  BY <1>1, <1>2, LiveStops, OverStops

LEMMA SessionStarts ==
  Host!Init => Host!SessionInv
<1> SUFFICES ASSUME Host!Init PROVE Host!SessionInv
  OBVIOUS
<1>1. /\ tab \in Host!HostTab /\ tab.build = "codec" /\ tab.session = "none" /\ tab.socket = "none"
      /\ tab.running = {} /\ ~tab.shown /\ tab.idle = "active" /\ ~tab.told /\ tab.late = {}
      /\ ~tab.dropped /\ ~tab.slipped
  BY DEF Host!Init, Host!HostTab
<1>2. Host!Orderly(tab)
  BY <1>1, StageOrderly DEF Faultless, Host!Building
<1>. QED
  BY <1>2 DEF Host!Init, Host!SessionInv

LEMMA MovesStay ==
  ASSUME hostMoves \in Nat, Host!Next
  PROVE  hostMoves' \in Nat
<1>1. \A s : Host!Becomes(s) \/ Host!Moves(s) => hostMoves' \in Nat
  BY DEF Host!Becomes, Host!Moves
<1>2. CASE Host!CodecDerived \/ Host!AssetKeysDerived \/ Host!SnapshotKeysDerived \/ Host!Joined \/ Host!Lost
  BY <1>1, <1>2, Zenon DEF Host!CodecDerived, Host!AssetKeysDerived, Host!SnapshotKeysDerived,
     Host!Joined, Host!Lost
<1>3. CASE Host!ReconnectFires \/ Host!RefreshSettles \/ Host!RoomUnreadable \/ Host!BaselineSettles \/ Host!BaselineTimeout
  BY <1>1, <1>3, Zenon DEF Host!ReconnectFires, Host!RefreshSettles, Host!RoomUnreadable,
     Host!BaselineSettles, Host!BaselineTimeout
<1>4. CASE Host!SceneArrives \/ Host!DownloadSettles \/ Host!PresenceArrives \/ Host!CursorsApply \/ Host!PeersPruned
  BY <1>1, <1>4, Zenon DEF Host!SceneArrives, Host!DownloadSettles, Host!PresenceArrives,
     Host!CursorsApply, Host!PeersPruned
<1>5. CASE Host!FlushFires \/ Host!RepairFires \/ Host!PresenceTimerFires \/ Host!Edit \/ Host!Scroll \/ Host!PointerMoves
  BY <1>1, <1>5, Zenon DEF Host!FlushFires, Host!RepairFires, Host!PresenceTimerFires, Host!Edit,
     Host!Scroll, Host!PointerMoves
<1>6. CASE Host!IdleTimerFires \/ Host!SwitchScene \/ Host!Leave \/ Host!FlushSettles
  BY <1>1, <1>6, Zenon DEF Host!IdleTimerFires, Host!SwitchScene, Host!Leave, Host!FlushSettles
<1>7. CASE Host!VisibilityChanges
  <2>1. hostMoves' = hostMoves + 1
    BY <1>7, Zenon DEF Host!VisibilityChanges
  <2>. QED
    BY <2>1
<1>. QED
  BY <1>2, <1>3, <1>4, <1>5, <1>6, <1>7, Zenon DEF Host!Next

LEMMA SessionStep ==
  Host!SessionInv /\ [Host!Next]_Host!vars => Host!SessionInv'
<1> SUFFICES ASSUME Host!SessionInv, [Host!Next]_Host!vars PROVE Host!SessionInv'
  OBVIOUS
<1>1. Host!Orderly(tab) /\ hostMoves \in Nat
  BY DEF Host!SessionInv
<1>2. CASE Host!Next
  <2>1. Host!Orderly(tab')
    BY <1>1, <1>2, SessionCodecDerived, SessionAssetKeysDerived, SessionSnapshotKeysDerived,
       SessionJoined, SessionLost, SessionReconnectFires, SessionRefreshSettles,
       SessionRoomUnreadable, SessionBaselineSettles, SessionBaselineTimeout, SessionSceneArrives,
       SessionDownloadSettles, SessionPresenceArrives, SessionCursorsApply, SessionPeersPruned,
       SessionFlushFires, SessionRepairFires, SessionPresenceTimerFires, SessionEdit,
       SessionPointerMoves, SessionIdleTimerFires, SessionVisibilityChanges, SessionSwitchScene,
       SessionLeave, SessionFlushSettles DEF Host!Next
  <2>2. hostMoves' \in Nat
    BY <1>1, <1>2, MovesStay
  <2>. QED
    BY <2>1, <2>2 DEF Host!SessionInv
<1>3. CASE UNCHANGED Host!vars
  BY <1>1, <1>3 DEF Host!SessionInv, Host!vars
<1>. QED
  BY <1>2, <1>3

LEMMA SessionHolds ==
  Host!SessionInv => Host!RoomSessionSound
<1> SUFFICES ASSUME Host!SessionInv PROVE Host!RoomSessionSound
  OBVIOUS
<1>1. tab \in Host!HostTab /\ Host!Building(tab) /\ Host!Living(tab) /\ Host!Over(tab) /\ Host!CursorsLive(tab) /\ Host!Watching(tab)
      /\ (~tab.slipped => tab.late = {}) /\ ~tab.dropped
  BY DEF Host!SessionInv, Host!Orderly
<1>2. Host!EndedIsQuiet
  <2>1. tab.session \in {"none", "live", "terminated", "destroyed"}
    BY <1>1 DEF Host!HostTab
  <2>2. CASE Host!Stopped(tab)
    BY <1>1, <2>2 DEF Host!EndedIsQuiet, Host!Over, Host!Leftover
  <2>3. CASE ~Host!Stopped(tab)
    BY <1>1, <2>1, <2>3 DEF Host!EndedIsQuiet, Host!Ended, Host!Stopped, Host!Building, Host!Living
  <2>. QED
    BY <2>2, <2>3
<1>3. Host!IdleIsTrue
  BY <1>1 DEF Host!IdleIsTrue, Host!Watching
<1>. QED
  BY <1>1, <1>2, <1>3 DEF Host!RoomSessionSound, Host!NothingWrittenLate, Host!CursorsAreLive,
     Host!LeavingFlushes, Host!CursorsLive

\* Of RoomSession by itself: once a session has ended, by whatever road, nothing of it can
\* act but the flush on leaving, which a room that was joined and read is always given; and
\* who is announced as away looks elsewhere (use-collaboration-room, collaboration-session).
THEOREM SessionKept == Host!Spec => []Host!RoomSessionSound
<1>1. Host!Spec => []Host!SessionInv
  BY SessionStarts, SessionStep, PTL DEF Host!Spec
<1>. QED
  BY <1>1, SessionHolds, PTL

-----------------------------------------------------------------------------
(***************************************************************************)
(* SceneSync: what a tab saves to a scene and loads from it, and what may  *)
(* be lost on the way.                                                     *)
(***************************************************************************)
CONSTANTS Scene, MaxEdits, MaxRev, MaxMishaps, MaxFlights
VARIABLES row, syncSession, syncCanvas, save, pull, rename, dialog, used, descends, owed
Sync == INSTANCE SceneSync WITH session <- syncSession, canvas <- syncCanvas

Pulls == {"check", "load"}
Versions == [scene : Scene \union {Sync!NoScene}, rev : Nat]
Rows == [state : {"unused", "gone", "draft", "live"}, rev : Nat, edits : SUBSET Nat]
Sessions == [scene : Scene \union {Sync!NoScene}, rev : Nat, dirty : BOOLEAN]
Saves == [step : {"none", "prepare", "commit", "answered"},
          mode : {"auto", "create"}, snap : SUBSET Nat, own : BOOLEAN, same : BOOLEAN,
          at : Versions, created : BOOLEAN, answer : {"none", "saved", "missing", "conflict"}]
Fetches == [step : {"none", "meta asked", "meta read", "data asked", "data read"},
            at : Versions, edits : SUBSET Nat]

LEMMA SyncShapes ==
  Sync!Shapes <=> /\ row \in [Scene -> Rows] /\ syncSession \in Sessions /\ save \in Saves
                  /\ pull \in [Pulls -> Fetches] /\ rename \in Versions
                  /\ dialog \in Scene \union {Sync!NoScene} /\ syncCanvas \subseteq Nat /\ descends \in BOOLEAN
                  /\ used \in [edits : Nat, mishaps : Nat]
BY DEF Sync!Shapes, Rows, Sessions, Saves, Fetches, Versions, Pulls

LEMMA SyncShapesNext ==
  Sync!Shapes' <=> /\ row' \in [Scene -> Rows] /\ syncSession' \in Sessions /\ save' \in Saves
                   /\ pull' \in [Pulls -> Fetches] /\ rename' \in Versions
                   /\ dialog' \in Scene \union {Sync!NoScene} /\ syncCanvas' \subseteq Nat /\ descends' \in BOOLEAN
                   /\ used' \in [edits : Nat, mishaps : Nat]
BY DEF Sync!Shapes, Rows, Sessions, Saves, Fetches, Versions, Pulls

(* How the row of s, and the rename under way, go from one state to another:*)
(* the row stays, or a rename raises its revision, or another save does.    *)
Goes(rows, next, renamed, then, s) ==
  next[s].state = "live" =>
    /\ rows[s].state = "live"
    /\ \/ /\ next[s].rev = rows[s].rev /\ next[s].edits = rows[s].edits
          /\ then = renamed \/ then.scene # s
       \/ /\ next[s].rev > rows[s].rev
          /\ then.scene = s => then.rev <= rows[s].rev
       \/ /\ next[s].rev = rows[s].rev + 1 /\ next[s].edits = rows[s].edits
          /\ then.scene = s => then.rev = next[s].rev

(* What descends from a revision still does.                                *)
LEMMA HeldGoes ==
  ASSUME NEW rows \in [Scene -> Rows], NEW next \in [Scene -> Rows],
         NEW renamed \in Versions, NEW then \in Versions,
         NEW s, NEW r \in Nat, NEW C, NEW D,
         Sync!Held(rows, renamed, s, r, C), C \subseteq D,
         s \in Scene => Goes(rows, next, renamed, then, s)
  PROVE  Sync!Held(next, then, s, r, D)
<1>. SUFFICES ASSUME s \in Scene, next[s].state = "live"
              PROVE  /\ r <= next[s].rev
                     /\ \/ next[s].rev = r
                        \/ then.scene = s /\ then.rev = r + 1 /\ next[s].rev = r + 1
                        => next[s].edits \subseteq D
  BY DEF Sync!Held
<1>1. rows[s].rev \in Nat /\ next[s].rev \in Nat /\ then.rev \in Nat
  BY DEF Rows, Versions
<1>2. /\ rows[s].state = "live" /\ r <= rows[s].rev
      /\ \/ rows[s].rev = r
         \/ renamed.scene = s /\ renamed.rev = r + 1 /\ rows[s].rev = r + 1
         => rows[s].edits \subseteq C
  BY DEF Sync!Held, Goes
<1>3. CASE /\ next[s].rev = rows[s].rev /\ next[s].edits = rows[s].edits
           /\ then = renamed \/ then.scene # s
  BY <1>1, <1>2, <1>3
<1>4. CASE /\ next[s].rev > rows[s].rev
           /\ then.scene = s => then.rev <= rows[s].rev
  BY <1>1, <1>2, <1>4
<1>5. CASE /\ next[s].rev = rows[s].rev + 1 /\ next[s].edits = rows[s].edits
           /\ then.scene = s => then.rev = next[s].rev
  BY <1>1, <1>2, <1>5
<1>. QED
  BY <1>3, <1>4, <1>5 DEF Goes

(* No scene, or one that is not live, holds nothing.                        *)
LEMMA HeldIdly ==
  ASSUME NEW rows, NEW renamed, NEW s, NEW r, NEW C, s \in Scene => rows[s].state # "live"
  PROVE  Sync!Held(rows, renamed, s, r, C)
BY DEF Sync!Held

(* What was just read of a row, or written to it, is held.                  *)
LEMMA HeldNow ==
  ASSUME NEW rows \in [Scene -> Rows], NEW renamed, NEW s, NEW C,
         s \in Scene => rows[s].edits \subseteq C
  PROVE  Sync!Held(rows, renamed, s, rows[s].rev, C)
BY DEF Sync!Held, Rows

SomeGo ==
  \A s \in Scene : IF row[s].state = "draft" THEN rename'.scene # s
                   ELSE Goes(row, row', rename, rename', s)
AllGo == \A s \in Scene : Goes(row, row', rename, rename', s)

LEMMA StaysBehind ==
  ASSUME Sync!Shapes, Sync!Shapes', Sync!NamesInv, Sync!RenameBehind, SomeGo
  PROVE  Sync!RenameBehind'
<1>. SUFFICES ASSUME NEW s \in Scene, row'[s].state = "live", rename'.scene = s
              PROVE  rename'.rev <= row'[s].rev
  BY DEF Sync!RenameBehind, Sync!Live
<1>1. row[s].rev \in Nat /\ row'[s].rev \in Nat /\ rename'.rev \in Nat
  BY SyncShapes, SyncShapesNext DEF Rows, Versions
<1>2. Goes(row, row', rename, rename', s)
  BY DEF SomeGo
<1>3. row[s].state = "live" /\ (rename.scene = s => rename.rev <= row[s].rev)
  BY <1>2 DEF Goes, Sync!RenameBehind, Sync!Live
<1>. QED
  BY <1>1, <1>2, <1>3 DEF Goes

(* What keeps each part of the invariant.                                   *)
LEMMA CanvasKept ==
  ASSUME Sync!Shapes, Sync!Shapes', Sync!NamesInv, Sync!CanvasHeld, SomeGo, syncCanvas \subseteq syncCanvas',
         descends' => descends /\ syncSession'.scene = syncSession.scene /\ syncSession'.rev = syncSession.rev
  PROVE  Sync!CanvasHeld'
<1>. SUFFICES ASSUME descends'
              PROVE  /\ syncSession'.rev # 0
                     /\ Sync!Held(row', rename', syncSession'.scene, syncSession'.rev, syncCanvas')
  BY DEF Sync!CanvasHeld
<1>1. /\ syncSession.rev # 0 /\ Sync!Held(row, rename, syncSession.scene, syncSession.rev, syncCanvas)
      /\ syncSession'.scene = syncSession.scene /\ syncSession'.rev = syncSession.rev
  BY DEF Sync!CanvasHeld
<1>2. syncSession.scene \in Scene => Goes(row, row', rename, rename', syncSession.scene)
  BY DEF SomeGo, Sync!NamesInv
<1>3. /\ row \in [Scene -> Rows] /\ row' \in [Scene -> Rows]
      /\ rename \in Versions /\ rename' \in Versions /\ syncSession.rev \in Nat
  BY SyncShapes, SyncShapesNext DEF Sessions
<1>4. Sync!Held(row', rename', syncSession.scene, syncSession.rev, syncCanvas')
  BY <1>1, <1>2, <1>3, HeldGoes
<1>. QED
  BY <1>1, <1>4

LEMMA SnapKept ==
  ASSUME Sync!Shapes, Sync!Shapes', Sync!SnapHeld, AllGo,
         save'.step \in {"prepare", "commit"} =>
           /\ save'.step = save.step /\ save'.snap = save.snap /\ save'.at = save.at
           /\ save'.own => save.own,
         save'.step = "prepare" /\ descends' =>
           descends /\ syncSession'.scene = syncSession.scene /\ syncSession'.rev = syncSession.rev
  PROVE  Sync!SnapHeld'
<1>1. /\ row \in [Scene -> Rows] /\ row' \in [Scene -> Rows]
      /\ rename \in Versions /\ rename' \in Versions /\ syncSession.rev \in Nat
      /\ save.at.rev \in Nat
  BY SyncShapes, SyncShapesNext DEF Sessions, Saves, Versions
<1>2. ASSUME save'.step = "prepare", save'.own, descends'
      PROVE  Sync!Held(row', rename', syncSession'.scene, syncSession'.rev, save'.snap)
  <2>1. Sync!Held(row, rename, syncSession.scene, syncSession.rev, save.snap)
    BY <1>2 DEF Sync!SnapHeld
  <2>2. syncSession.scene \in Scene => Goes(row, row', rename, rename', syncSession.scene)
    BY DEF AllGo
  <2>3. Sync!Held(row', rename', syncSession.scene, syncSession.rev, save.snap)
    BY <1>1, <2>1, <2>2, HeldGoes
  <2>. QED
    BY <1>2, <2>3
<1>3. ASSUME save'.step = "commit", save'.own
      PROVE  Sync!Held(row', rename', save'.at.scene, save'.at.rev, save'.snap)
  <2>1. Sync!Held(row, rename, save.at.scene, save.at.rev, save.snap)
    BY <1>3 DEF Sync!SnapHeld
  <2>2. save.at.scene \in Scene => Goes(row, row', rename, rename', save.at.scene)
    BY DEF AllGo
  <2>3. Sync!Held(row', rename', save.at.scene, save.at.rev, save.snap)
    BY <1>1, <2>1, <2>2, HeldGoes
  <2>. QED
    BY <1>3, <2>3
<1>. QED
  BY <1>2, <1>3 DEF Sync!SnapHeld

LEMMA SavedKept ==
  ASSUME Sync!Shapes, Sync!Shapes', Sync!SavedHeld, AllGo,
         save'.same => /\ save'.snap \subseteq syncCanvas'
                       /\ save'.step = "answered" /\ save'.answer = "saved"
                            => save.same /\ syncCanvas \subseteq syncCanvas',
         save'.step = "answered" /\ save'.answer = "saved" =>
           save.step = "answered" /\ save.answer = "saved" /\ save'.at = save.at
  PROVE  Sync!SavedHeld'
<1>1. /\ row \in [Scene -> Rows] /\ row' \in [Scene -> Rows]
      /\ rename \in Versions /\ rename' \in Versions /\ save.at.rev \in Nat
  BY SyncShapes, SyncShapesNext DEF Saves, Versions
<1>2. ASSUME save'.step = "answered", save'.answer = "saved"
      PROVE  /\ save'.at.rev # 0
             /\ save'.same => Sync!Held(row', rename', save'.at.scene, save'.at.rev, syncCanvas')
  <2>1. /\ save.at.rev # 0
        /\ save.same => Sync!Held(row, rename, save.at.scene, save.at.rev, syncCanvas)
    BY <1>2 DEF Sync!SavedHeld
  <2>2. save.at.scene \in Scene => Goes(row, row', rename, rename', save.at.scene)
    BY DEF AllGo
  <2>3. save'.same => Sync!Held(row', rename', save.at.scene, save.at.rev, syncCanvas')
    BY <1>1, <1>2, <2>1, <2>2, HeldGoes
  <2>. QED
    BY <1>2, <2>1, <2>3
<1>. QED
  BY <1>2 DEF Sync!SavedHeld

LEMMA FetchGoes ==
  ASSUME Sync!Shapes, Sync!Shapes', Sync!NamesInv, Sync!PullHeld, SomeGo,
         NEW f \in Pulls, pull[f].step = "data read", NEW p, p = pull[f]
  PROVE  Sync!Held(row', rename', p.at.scene, p.at.rev, p.edits)
<1>1. /\ row \in [Scene -> Rows] /\ row' \in [Scene -> Rows]
      /\ rename \in Versions /\ rename' \in Versions /\ p \in Fetches
  BY SyncShapes, SyncShapesNext
<1>2. Sync!Held(row, rename, p.at.scene, p.at.rev, p.edits) /\ p.at.rev \in Nat
  BY <1>1 DEF Sync!PullHeld, Pulls, Fetches, Versions
<1>3. ASSUME NEW s \in Scene, p.at.scene = s
      PROVE  Goes(row, row', rename, rename', s)
  <2>1. row[s].state # "draft"
    BY <1>3 DEF Sync!NamesInv, Pulls
  <2>. QED
    BY <2>1 DEF SomeGo
<1>4. PICK s, r, C : s = p.at.scene /\ r = p.at.rev /\ C = p.edits
  OBVIOUS
<1>5. r \in Nat /\ Sync!Held(row, rename, s, r, C) /\ (s \in Scene => Goes(row, row', rename, rename', s))
  BY <1>2, <1>3, <1>4
<1>6. Sync!Held(row', rename', s, r, C)
  BY <1>1, <1>5, HeldGoes
<1>. QED
  BY <1>4, <1>6

LEMMA PullKept ==
  ASSUME Sync!Shapes, Sync!Shapes', Sync!NamesInv, Sync!PullHeld, SomeGo,
         \A f \in Pulls : pull'[f] = pull[f] \/ pull'[f].step # "data read"
  PROVE  Sync!PullHeld'
<1>. SUFFICES ASSUME NEW f \in Pulls, pull'[f].step = "data read"
              PROVE  Sync!Held(row', rename', pull'[f].at.scene, pull'[f].at.rev, pull'[f].edits)
  BY DEF Sync!PullHeld, Pulls
<1>1. PICK p : p = pull[f]
  OBVIOUS
<1>2. p = pull'[f]
  BY <1>1
<1>3. Sync!Held(row', rename', p.at.scene, p.at.rev, p.edits)
  BY <1>1, <1>2, FetchGoes
<1>. QED
  BY <1>2, <1>3

LEMMA AllGoSome ==
  ASSUME Sync!NamesInv, AllGo, rename' = rename \/ rename'.scene = Sync!NoScene \/ Sync!Live(rename'.scene),
         Sync!ScenesApart
  PROVE  SomeGo
<1>1. ASSUME NEW s \in Scene, row[s].state = "draft" PROVE rename'.scene # s
  BY <1>1 DEF Sync!NamesInv, Sync!Live, Sync!ScenesApart
<1>. QED
  BY <1>1 DEF SomeGo, AllGo

-----------------------------------------------------------------------------
(* The types stay.                                                          *)
LEMMA SyncValues ==
  /\ Sync!NoRow \in Rows /\ Sync!NewRow \in Rows /\ Sync!NoVersion \in Versions /\ Sync!Idle \in Saves
  /\ Sync!NoPull \in Fetches /\ Sync!NoSession \in Sessions
  /\ Sync!NoVersion.scene = Sync!NoScene /\ Sync!Idle.step = "none" /\ Sync!NoPull.step = "none"
  /\ Sync!NoRow.state = "gone" /\ Sync!NewRow.state = "unused" /\ Sync!Idle.snap = {} /\ Sync!NoSession.scene = Sync!NoScene
  /\ Sync!Idle.at = Sync!NoVersion /\ Sync!Idle.same /\ Sync!NoPull.at = Sync!NoVersion
BY DEF Sync!NoRow, Sync!NewRow, Sync!NoVersion, Sync!Idle, Sync!NoPull, Sync!NoSession, Rows,
   Versions, Saves, Fetches, Sessions

LEMMA SyncEditTypes ==
  ASSUME Sync!Shapes, Sync!Edit
  PROVE  Sync!Shapes'
<1>. DEFINE e == used.edits + 1
<1>1. /\ used' = [used EXCEPT !.edits = e] /\ syncCanvas' = syncCanvas \union {e}
      /\ syncSession' = syncSession \/ syncSession' = [syncSession EXCEPT !.dirty = TRUE]
      /\ UNCHANGED <<row, save, pull, rename, dialog, descends>>
  BY DEF Sync!Edit, Sync!MarkDirty
<1>2. e \in Nat /\ used' \in [edits : Nat, mishaps : Nat]
  BY <1>1, SyncShapes
<1>3. syncSession' \in Sessions
  BY <1>1, SyncShapes DEF Sessions
<1>. QED
  BY <1>1, <1>2, <1>3, SyncShapes, SyncShapesNext

LEMMA MishapType == Sync!Shapes /\ Sync!Mishap => used' \in [edits : Nat, mishaps : Nat]
<1>. SUFFICES ASSUME Sync!Shapes, Sync!Mishap PROVE used' \in [edits : Nat, mishaps : Nat]
  OBVIOUS
<1>1. used \in [edits : Nat, mishaps : Nat] /\ used' = [used EXCEPT !.mishaps = @ + 1]
  BY SyncShapes DEF Sync!Mishap
<1>. QED
  BY <1>1

(* What SaveStarts, SaveAims and SaveCommits leave of the save.             *)
LEMMA StartsEffect ==
  ASSUME Sync!Shapes, NEW mode \in {"auto", "create"}, Sync!SaveStarts(mode)
  PROVE  /\ save' \in Saves /\ save'.step = "prepare" /\ save'.snap = syncCanvas
         /\ (save'.own <=> descends) /\ save'.at.scene = Sync!NoScene
         /\ UNCHANGED <<row, syncSession, syncCanvas, pull, rename, dialog, used, descends, owed>>
<1>1. save' = [Sync!Idle EXCEPT !.step = "prepare", !.mode = mode,
                               !.snap = syncCanvas, !.own = descends]
      /\ UNCHANGED <<row, syncSession, syncCanvas, pull, rename, dialog, used, descends, owed>>
  BY DEF Sync!SaveStarts
<1>2. syncCanvas \in SUBSET Nat /\ descends \in BOOLEAN
  BY SyncShapes
<1>3. /\ save' \in Saves /\ save'.step = "prepare" /\ save'.snap = syncCanvas
      /\ save'.own = descends /\ save'.at = Sync!NoVersion
  BY <1>1, <1>2, SyncValues DEF Saves
<1>. QED
  BY <1>1, <1>3, SyncValues

LEMMA AimsEffect ==
  ASSUME Sync!Shapes, Sync!SaveAims
  PROVE  /\ save.step = "prepare"
         /\ UNCHANGED <<syncSession, syncCanvas, pull, rename, dialog, used, descends, owed>>
         /\ \/ save' = Sync!Idle /\ UNCHANGED row
            \/ /\ syncSession.scene # Sync!NoScene /\ UNCHANGED row /\ save' \in Saves
               /\ save'.step = "commit" /\ save'.at.scene = syncSession.scene
               /\ save'.at.rev = IF syncSession.rev # 0 THEN syncSession.rev ELSE row[syncSession.scene].rev
               /\ (save'.own <=> save.own /\ descends) /\ save'.snap = save.snap
               /\ (save'.same <=> save.same)
            \/ /\ save' \in Saves /\ save'.step = "commit" /\ save'.own
               /\ save'.snap = save.snap /\ (save'.same <=> save.same)
               /\ \E s \in Scene :
                    /\ row[s] = Sync!NewRow /\ save'.at = [scene |-> s, rev |-> 1]
                    /\ row' = [row EXCEPT ![s] = [state |-> "draft", rev |-> 1, edits |-> {}]]
<1>1. /\ save.step = "prepare"
      /\ UNCHANGED <<syncSession, syncCanvas, pull, rename, dialog, used, descends, owed>>
  BY DEF Sync!SaveAims
<1>. DEFINE r == IF syncSession.rev # 0 THEN syncSession.rev ELSE row[syncSession.scene].rev
            auto == [save EXCEPT !.step = "commit", !.own = @ /\ descends,
                                 !.at = [scene |-> syncSession.scene, rev |-> r]]
<1>2. save \in Saves /\ syncSession \in Sessions /\ row \in [Scene -> Rows]
  BY SyncShapes
<1>3. CASE /\ save.mode = "auto" /\ syncSession.scene # Sync!NoScene
           /\ save' = IF r = 0 THEN Sync!Idle ELSE auto
           /\ UNCHANGED row
  <2>1. r \in Nat /\ syncSession.scene \in Scene
    BY <1>2, <1>3 DEF Sessions, Rows
  <2>2. [scene |-> syncSession.scene, rev |-> r] \in Versions
    BY <2>1 DEF Versions
  <2>3. /\ auto \in Saves /\ auto.step = "commit" /\ auto.at = [scene |-> syncSession.scene, rev |-> r]
        /\ (auto.own <=> save.own /\ descends) /\ auto.snap = save.snap
        /\ (auto.same <=> save.same)
    <3>. DEFINE v == [scene |-> syncSession.scene, rev |-> r]
                o == save.own /\ descends
    <3>1. auto = [save EXCEPT !.step = "commit", !.own = o, !.at = v] /\ o \in BOOLEAN
      OBVIOUS
    <3>2. v \in Versions
      BY <2>2
    <3>. HIDE DEF v, o, auto
    <3>3. /\ auto \in Saves /\ auto.step = "commit" /\ auto.at = v
          /\ auto.own = o /\ auto.snap = save.snap /\ auto.same = save.same
      BY <1>2, <3>1, <3>2 DEF Saves
    <3>. QED
      BY <3>3 DEF v, o
  <2>. QED
    BY <1>1, <1>3, <2>3
<1>4. CASE /\ save.mode = "create" \/ syncSession.scene = Sync!NoScene
           /\ \E s \in Scene :
                /\ row[s] = Sync!NewRow
                /\ row' = [row EXCEPT ![s] = [state |-> "draft", rev |-> 1, edits |-> {}]]
                /\ save' = [save EXCEPT !.step = "commit", !.mode = "auto",
                                        !.created = TRUE, !.own = TRUE,
                                        !.at = [scene |-> s, rev |-> 1]]
  <2>1. PICK s \in Scene :
                /\ row[s] = Sync!NewRow
                /\ row' = [row EXCEPT ![s] = [state |-> "draft", rev |-> 1, edits |-> {}]]
                /\ save' = [save EXCEPT !.step = "commit", !.mode = "auto",
                                        !.created = TRUE, !.own = TRUE,
                                        !.at = [scene |-> s, rev |-> 1]]
    BY <1>4
  <2>2. PICK v : v = [scene |-> s, rev |-> 1]
    OBVIOUS
  <2>3. v \in Versions
    BY <2>2 DEF Versions
  <2>4. save' = [save EXCEPT !.step = "commit", !.mode = "auto",
                                        !.created = TRUE, !.own = TRUE, !.at = v]
    BY <2>1, <2>2
  <2>5. /\ save' \in Saves /\ save'.step = "commit" /\ save'.own /\ save'.at = v
        /\ save'.snap = save.snap /\ (save'.same <=> save.same)
    BY <1>2, <2>3, <2>4 DEF Saves
  <2>. QED
    BY <1>1, <2>1, <2>2, <2>5
<1>. QED
  BY <1>3, <1>4 DEF Sync!SaveAims

LEMMA CommitsEffect ==
  ASSUME Sync!Shapes, Sync!AimsInv, Sync!NamesInv, Sync!SaveCommits
  PROVE  /\ save.step = "commit" /\ save.at.scene \in Scene /\ save' \in Saves /\ save'.step = "answered"
         /\ save'.at.scene = save.at.scene /\ save'.snap = {} /\ (save'.same <=> save.same)
         /\ UNCHANGED <<syncSession, syncCanvas, pull, rename, dialog, used, descends>>
         /\ \/ save'.answer # "saved" /\ UNCHANGED <<row, owed>>
               /\ row[save.at.scene].state # "draft"
            \/ /\ save'.answer = "saved" /\ owed' = owed \ save.snap
               /\ \E r \in Nat \ {0} :
                    /\ save'.at.rev = r
                    /\ row' = [row EXCEPT ![save.at.scene]
                                = [state |-> "live", rev |-> r, edits |-> save.snap]]
                    /\ row[save.at.scene].state \in {"draft", "live"}
                    /\ row[save.at.scene].rev = save.at.rev
                    /\ row[save.at.scene].state = "live" => r = row[save.at.scene].rev + 1
<1>. DEFINE s == save.at.scene
            r == IF row[s].state = "draft" THEN row[s].rev ELSE row[s].rev + 1
            saved == [save EXCEPT !.step = "answered", !.answer = "saved",
                        !.at.rev = r, !.snap = {}, !.own = TRUE]
            refused(a) == [save EXCEPT !.step = "answered", !.snap = {}, !.own = TRUE,
                             !.answer = a]
<1>1. /\ save.step = "commit"
      /\ UNCHANGED <<syncSession, syncCanvas, pull, rename, dialog, used, descends>>
  BY DEF Sync!SaveCommits
<1>2. save \in Saves /\ row \in [Scene -> Rows] /\ save.at \in Versions /\ s \in Scene
  BY <1>1, SyncShapes DEF Saves, Sync!AimsInv
<1>3. CASE /\ ~Sync!Matches(s, save.at.rev) /\ UNCHANGED <<row, owed>>
           /\ save' = refused(IF row[s] = Sync!NoRow THEN "missing" ELSE "conflict")
  <2>1. ASSUME NEW a \in {"missing", "conflict"}
        PROVE  /\ refused(a) \in Saves /\ refused(a).step = "answered" /\ refused(a).answer = a
               /\ refused(a).at = save.at /\ refused(a).snap = {} /\ refused(a).same = save.same
    BY <1>2 DEF Saves
  <2>2. row[s].state # "draft"
    BY <1>2, <1>3 DEF Sync!Matches, Sync!NamesInv
  <2>. HIDE DEF refused
  <2>3. PICK a \in {"missing", "conflict"} : save' = refused(a)
    BY <1>3
  <2>4. /\ save' \in Saves /\ save'.step = "answered" /\ save'.answer # "saved"
        /\ save'.at = save.at /\ save'.snap = {} /\ save'.same = save.same
    BY <2>1, <2>3
  <2>. QED
    BY <1>1, <1>2, <1>3, <2>2, <2>4
<1>4. CASE /\ Sync!Matches(s, save.at.rev) /\ save' = saved /\ owed' = owed \ save.snap
           /\ row' = [row EXCEPT ![s] = [state |-> "live", rev |-> r, edits |-> save.snap]]
  <2>. DEFINE v == [save.at EXCEPT !.rev = r]
  <2>1. saved = [save EXCEPT !.step = "answered", !.answer = "saved",
                             !.at = v, !.snap = {}, !.own = TRUE]
    BY <1>2 DEF Saves
  <2>2. r \in Nat \ {0} /\ row[s].state \in {"draft", "live"} /\ row[s].rev = save.at.rev
    BY <1>2, <1>4 DEF Sync!Matches, Rows, Sync!NamesInv
  <2>3. v \in Versions /\ v.scene = s /\ v.rev = r
    BY <1>2, <2>2 DEF Versions
  <2>4. row[s].state = "live" => r = row[s].rev + 1
    OBVIOUS
  <2>. HIDE DEF v, r
  <2>5. /\ saved \in Saves /\ saved.step = "answered" /\ saved.answer = "saved" /\ saved.at = v
        /\ saved.snap = {} /\ saved.same = save.same
    BY <1>2, <2>1, <2>3 DEF Saves
  <2>. HIDE DEF saved
  <2>. QED
    BY <1>1, <1>2, <1>4, <2>2, <2>3, <2>4, <2>5
<1>. QED
  BY <1>3, <1>4 DEF Sync!SaveCommits

LEMMA DirtyType ==
  Sync!Shapes => /\ [syncSession EXCEPT !.dirty = TRUE] \in Sessions
                 /\ [syncSession EXCEPT !.dirty = TRUE].scene = syncSession.scene
                 /\ [syncSession EXCEPT !.dirty = TRUE].rev = syncSession.rev
                 /\ [syncSession EXCEPT !.dirty = TRUE].dirty
BY SyncShapes DEF Sessions

LEMMA SyncType ==
  ASSUME NEW v \in Versions, NEW t, t = [scene |-> v.scene, rev |-> v.rev, dirty |-> FALSE]
  PROVE  t \in Sessions /\ t.scene = v.scene /\ t.rev = v.rev
BY DEF Sessions, Versions

LEMMA RollbackType ==
  ASSUME Sync!Shapes, Sync!Rollback
  PROVE  row' \in [Scene -> Rows] /\ \E s : row' = row \/ row' = [row EXCEPT ![s] = Sync!NoRow]
BY SyncShapes, SyncValues DEF Sync!Rollback

LEMMA SavingTypes ==
  ASSUME Sync!Shapes, Sync!AimsInv, Sync!NamesInv,
         \/ \E mode \in {"auto", "create"} : Sync!SaveStarts(mode)
         \/ Sync!SaveAims \/ Sync!SaveCommits \/ Sync!SaveLands \/ Sync!SaveRefused \/ Sync!SaveFails
  PROVE  Sync!Shapes'
<1>1. CASE \E mode \in {"auto", "create"} : Sync!SaveStarts(mode)
  BY <1>1, StartsEffect, SyncShapes, SyncShapesNext
<1>2. CASE Sync!SaveAims
  <2>1. [state |-> "draft", rev |-> 1, edits |-> {}] \in Rows
    BY DEF Rows
  <2>2. row' \in [Scene -> Rows] /\ save' \in Saves
    BY <1>2, <2>1, AimsEffect, SyncShapes, SyncValues
  <2>. QED
    BY <1>2, <2>2, AimsEffect, SyncShapes, SyncShapesNext
<1>3. CASE Sync!SaveCommits
  <2>1. save.snap \in SUBSET Nat
    BY SyncShapes DEF Saves
  <2>2. ASSUME NEW r \in Nat PROVE [state |-> "live", rev |-> r, edits |-> save.snap] \in Rows
    BY <2>1 DEF Rows
  <2>3. row' \in [Scene -> Rows]
    BY <1>3, <2>2, CommitsEffect, SyncShapes
  <2>. QED
    BY <1>3, <2>3, CommitsEffect, SyncShapes, SyncShapesNext
<1>4. CASE Sync!SaveLands
  <2>1. save.at \in Versions /\ save.same \in BOOLEAN
    BY SyncShapes DEF Saves
  <2>2. /\ syncSession' = [scene |-> save.at.scene, rev |-> save.at.rev, dirty |-> FALSE]
        /\ descends' = save.same /\ dialog' \in {Sync!NoScene, dialog} /\ save' = Sync!Idle
        /\ UNCHANGED <<row, syncCanvas, pull, rename, used>>
    BY <1>4 DEF Sync!SaveLands, Sync!Sync
  <2>3. syncSession' \in Sessions
    BY <2>1, <2>2, SyncType
  <2>. QED
    BY <2>1, <2>2, <2>3, SyncValues, SyncShapes, SyncShapesNext
<1>5. CASE Sync!SaveRefused
  <2>1. /\ Sync!Rollback /\ syncSession' \in {Sync!NoSession, [syncSession EXCEPT !.dirty = TRUE]}
        /\ descends' \in {FALSE, descends} /\ dialog' \in {save.at.scene, dialog}
        /\ save' = Sync!Idle /\ UNCHANGED <<syncCanvas, pull, rename, used>>
    BY <1>5 DEF Sync!SaveRefused, Sync!MarkDirty
  <2>2. save.at.scene \in Scene
    BY <1>5 DEF Sync!SaveRefused, Sync!AimsInv
  <2>. QED
    BY <2>1, <2>2, RollbackType, DirtyType, SyncValues, SyncShapes, SyncShapesNext
<1>6. CASE Sync!SaveFails
  <2>1. /\ Sync!Mishap /\ (UNCHANGED row \/ Sync!Rollback)
        /\ syncSession' \in {syncSession, [syncSession EXCEPT !.dirty = TRUE]}
        /\ save' = Sync!Idle /\ UNCHANGED <<syncCanvas, pull, rename, dialog, descends>>
    BY <1>6 DEF Sync!SaveFails, Sync!MarkDirty
  <2>. QED
    BY <2>1, RollbackType, MishapType, DirtyType, SyncValues, SyncShapes, SyncShapesNext
<1>. QED
  BY <1>1, <1>2, <1>3, <1>4, <1>5, <1>6

(* What the fetches become.                                                 *)
LEMMA PullType ==
  ASSUME Sync!Shapes, NEW f \in Pulls, NEW p \in Fetches, pull' = [pull EXCEPT ![f] = p]
  PROVE  /\ pull' \in [Pulls -> Fetches] /\ pull'[f] = p
         /\ \A g \in Pulls : g # f => pull'[g] = pull[g]
BY SyncShapes

LEMMA CheckStartsEffect ==
  ASSUME Sync!Shapes, Sync!CheckStarts
  PROVE  /\ syncSession.scene \in Scene /\ pull' \in [Pulls -> Fetches]
         /\ pull'["check"].step = "meta asked" /\ pull'["check"].at.scene = syncSession.scene
         /\ pull'["load"] = pull["load"]
         /\ UNCHANGED <<row, syncSession, syncCanvas, save, rename, dialog, used, descends, owed>>
<1>1. syncSession \in Sessions /\ syncSession.scene \in Scene
  BY SyncShapes DEF Sync!CheckStarts, Sessions
<1>2. PICK p : p = [step |-> "meta asked", edits |-> {}, at |-> [scene |-> syncSession.scene, rev |-> 0]]
  OBVIOUS
<1>3. p \in Fetches /\ p.step = "meta asked" /\ p.at.scene = syncSession.scene
  BY <1>1, <1>2 DEF Fetches, Versions
<1>4. /\ pull' = [pull EXCEPT !["check"] = p]
      /\ UNCHANGED <<row, syncSession, syncCanvas, save, rename, dialog, used, descends, owed>>
  BY <1>2 DEF Sync!CheckStarts
<1>. QED
  BY <1>1, <1>3, <1>4, PullType DEF Pulls

LEMMA AnswersEffect ==
  ASSUME Sync!Shapes, Sync!AimsInv, NEW f \in Pulls, Sync!ServerAnswers(f)
  PROVE  /\ pull[f].step \in {"meta asked", "data asked"} /\ pull[f].at.scene \in Scene
         /\ pull' \in [Pulls -> Fetches]
         /\ \A g \in Pulls : g # f => pull'[g] = pull[g]
         /\ pull'[f].step = IF pull[f].step = "meta asked" THEN "meta read" ELSE "data read"
         /\ pull'[f].at.scene = pull[f].at.scene
         /\ pull'[f].at.rev = row[pull[f].at.scene].rev
         /\ pull'[f].step = "data read" => pull'[f].edits = row[pull[f].at.scene].edits
         /\ UNCHANGED <<row, syncSession, syncCanvas, save, rename, dialog, used, descends, owed>>
<1>1. PICK p : p = pull[f]
  OBVIOUS
<1>2. /\ p \in Fetches /\ p.step \in {"meta asked", "data asked"} /\ p.at.scene \in Scene
      /\ UNCHANGED <<row, syncSession, syncCanvas, save, rename, dialog, used, descends, owed>>
  BY <1>1, SyncShapes DEF Sync!ServerAnswers, Sync!AimsInv, Pulls
<1>3. PICK r : r = row[p.at.scene]
  OBVIOUS
<1>4. r \in Rows
  BY <1>2, <1>3, SyncShapes
<1>. DEFINE step == IF p.step = "meta asked" THEN "meta read" ELSE "data read"
            at == [p.at EXCEPT !.rev = r.rev]
            edits == IF p.step = "meta asked" THEN {} ELSE r.edits
<1>5. PICK q : q = [step |-> step, at |-> at, edits |-> edits]
  OBVIOUS
<1>6. pull' = [pull EXCEPT ![f] = q]
  BY <1>1, <1>3, <1>5 DEF Sync!ServerAnswers
<1>7. at \in Versions /\ at.scene = p.at.scene /\ at.rev = r.rev
  BY <1>2, <1>4 DEF Fetches, Versions, Rows
<1>8. edits \in SUBSET Nat
  BY <1>4 DEF Rows
<1>9. q \in Fetches
  BY <1>5, <1>7, <1>8 DEF Fetches
<1>10. /\ pull' \in [Pulls -> Fetches] /\ pull'[f] = q
       /\ \A g \in Pulls : g # f => pull'[g] = pull[g]
  BY <1>6, <1>9, PullType
<1>. HIDE DEF at
<1>11. /\ q.step = step /\ q.at.scene = p.at.scene /\ q.at.rev = r.rev
       /\ step = "data read" => q.edits = r.edits
  BY <1>5, <1>7
<1>. QED
  BY <1>1, <1>2, <1>3, <1>10, <1>11

LEMMA DecidesEffect ==
  ASSUME Sync!Shapes, Sync!AimsInv, Sync!CheckDecides
  PROVE  /\ pull["check"].step = "meta read" /\ pull["check"].at.scene \in Scene
         /\ pull' \in [Pulls -> Fetches] /\ pull'["load"] = pull["load"]
         /\ dialog' \in {dialog, pull["check"].at.scene}
         /\ \/ pull'["check"] = Sync!NoPull
            \/ /\ pull'["check"].step = "data asked"
               /\ pull'["check"].at.scene = pull["check"].at.scene
               /\ syncSession.scene = pull["check"].at.scene /\ ~syncSession.dirty
         /\ UNCHANGED <<row, syncSession, syncCanvas, save, rename, used, descends, owed>>
<1>1. PICK p : p = pull["check"]
  OBVIOUS
<1>. DEFINE do == IF syncSession.scene # p.at.scene THEN "noop"
                  ELSE Sync!SyncAction(syncSession.rev, p.at.rev, syncSession.dirty)
<1>2. /\ p.step = "meta read" /\ UNCHANGED <<row, syncSession, syncCanvas, save, rename, used, descends, owed>>
      /\ pull' = [pull EXCEPT !["check"] =
           IF do = "refresh" THEN [p EXCEPT !.step = "data asked", !.at.rev = 0] ELSE Sync!NoPull]
      /\ dialog' \in {dialog, p.at.scene}
  BY <1>1 DEF Sync!CheckDecides
<1>3. p \in Fetches /\ p.at.scene \in Scene
  BY <1>1, <1>2, SyncShapes DEF Sync!AimsInv, Pulls
<1>4. do = "refresh" => syncSession.scene = p.at.scene /\ ~syncSession.dirty
  BY DEF Sync!SyncAction
<1>. HIDE DEF do
<1>5. CASE do = "refresh"
  <2>1. PICK v : v = [p.at EXCEPT !.rev = 0]
    OBVIOUS
  <2>2. v \in Versions /\ v.scene = p.at.scene
    BY <1>3, <2>1 DEF Fetches, Versions
  <2>3. PICK q : q = [p EXCEPT !.step = "data asked", !.at = v]
    OBVIOUS
  <2>4. q \in Fetches /\ q.step = "data asked" /\ q.at = v
    BY <1>3, <2>2, <2>3 DEF Fetches
  <2>5. pull' = [pull EXCEPT !["check"] = q]
    BY <1>2, <1>3, <1>5, <2>1, <2>3 DEF Fetches
  <2>6. pull' \in [Pulls -> Fetches] /\ pull'["load"] = pull["load"] /\ pull'["check"] = q
    BY <2>4, <2>5, PullType DEF Pulls
  <2>. QED
    BY <1>1, <1>2, <1>3, <1>4, <1>5, <2>2, <2>4, <2>6
<1>6. CASE do # "refresh"
  <2>1. pull' = [pull EXCEPT !["check"] = Sync!NoPull]
    BY <1>2, <1>6
  <2>2. pull' \in [Pulls -> Fetches] /\ pull'["load"] = pull["load"] /\ pull'["check"] = Sync!NoPull
    BY <2>1, PullType, SyncValues DEF Pulls
  <2>. QED
    BY <1>1, <1>2, <1>3, <2>2
<1>. QED
  BY <1>5, <1>6

LEMMA FailsEffect ==
  ASSUME Sync!Shapes, NEW f \in Pulls, Sync!PullFails(f)
  PROVE  /\ pull' \in [Pulls -> Fetches] /\ pull'[f] = Sync!NoPull
         /\ \A g \in Pulls : g # f => pull'[g] = pull[g]
         /\ UNCHANGED <<row, syncSession, syncCanvas, save, rename, dialog, used, descends, owed>>
BY PullType, SyncValues DEF Sync!PullFails

LEMMA LoadsEffect ==
  ASSUME Sync!Shapes, NEW s \in Scene, Sync!LoadStarts(s)
  PROVE  /\ pull' \in [Pulls -> Fetches] /\ pull'["check"] = pull["check"]
         /\ pull'["load"].step = "data asked" /\ pull'["load"].at.scene = s
         /\ Sync!Live(s) \/ dialog = s
         /\ UNCHANGED <<row, syncSession, syncCanvas, save, rename, dialog, used, descends, owed>>
<1>1. PICK p : p = [step |-> "data asked", edits |-> {}, at |-> [scene |-> s, rev |-> 0]]
  OBVIOUS
<1>2. p \in Fetches /\ p.step = "data asked" /\ p.at.scene = s
  BY <1>1 DEF Fetches, Versions
<1>3. /\ pull' = [pull EXCEPT !["load"] = p] /\ (Sync!Live(s) \/ dialog = s)
      /\ UNCHANGED <<row, syncSession, syncCanvas, save, rename, dialog, used, descends, owed>>
  BY <1>1 DEF Sync!LoadStarts
<1>. QED
  BY <1>2, <1>3, PullType DEF Pulls

LEMMA AppliesEffect ==
  ASSUME Sync!Shapes, Sync!AimsInv, NEW f \in Pulls, Sync!Apply(f)
  PROVE  /\ pull[f].step = "data read" /\ pull[f].at.scene \in Scene
         /\ pull' \in [Pulls -> Fetches] /\ pull'[f] = Sync!NoPull
         /\ \A g \in Pulls : g # f => pull'[g] = pull[g]
         /\ UNCHANGED <<row, rename, used>>
         /\ \/ UNCHANGED <<syncSession, syncCanvas, save, dialog, descends, owed>>
            \/ /\ pull[f].at.rev # 0 /\ syncCanvas' = pull[f].edits /\ syncCanvas' \subseteq Nat
               /\ descends' /\ descends' \in BOOLEAN /\ owed' = {}
               /\ syncSession' \in Sessions /\ syncSession'.scene = pull[f].at.scene
               /\ syncSession'.rev = pull[f].at.rev
               /\ dialog' \in {dialog, Sync!NoScene}
               /\ save' \in Saves
               /\ save' = Sync!Idle \/ ~save'.same
               /\ save'.step # "none" =>
                    /\ save'.step = save.step /\ save'.snap = save.snap /\ save'.at = save.at
                    /\ save'.answer = save.answer
                    /\ save'.own => save.own /\ save.step # "prepare"
<1>1. PICK p : p = pull[f]
  OBVIOUS
<1>2. p \in Fetches /\ p.step = "data read" /\ p.at.scene \in Scene /\ UNCHANGED <<row, rename, used>>
  BY <1>1, SyncShapes DEF Sync!Apply, Sync!AimsInv, Pulls
<1>3. pull' \in [Pulls -> Fetches] /\ pull'[f] = Sync!NoPull /\ \A g \in Pulls : g # f => pull'[g] = pull[g]
  BY PullType, SyncValues DEF Sync!Apply
<1>4. CASE UNCHANGED <<syncSession, syncCanvas, save, dialog, descends, owed>>
  BY <1>1, <1>2, <1>3, <1>4
<1>5. CASE /\ p.at.rev # 0 /\ syncCanvas' = p.edits /\ descends' = TRUE /\ owed' = {}
           /\ save' = IF save = Sync!Idle THEN Sync!Idle
                      ELSE [save EXCEPT !.same = FALSE, !.own = @ /\ save.step # "prepare"]
           /\ Sync!Sync(p.at)
           /\ dialog' = IF f = "check" THEN dialog ELSE Sync!NoScene
  <2>1. p.at \in Versions /\ p.edits \subseteq Nat
    BY <1>2 DEF Fetches
  <2>2. syncSession' \in Sessions /\ syncSession'.scene = p.at.scene /\ syncSession'.rev = p.at.rev
    BY <1>5, <2>1, SyncType DEF Sync!Sync
  <2>3. /\ save' \in Saves /\ (save' = Sync!Idle \/ ~save'.same)
        /\ save'.step # "none" =>
             /\ save'.step = save.step /\ save'.snap = save.snap /\ save'.at = save.at
             /\ save'.answer = save.answer
             /\ save'.own => save.own /\ save.step # "prepare"
    <3>1. CASE save' = Sync!Idle
      BY <3>1, SyncValues
    <3>. DEFINE o == save.own /\ save.step # "prepare"
    <3>2. CASE save' = [save EXCEPT !.same = FALSE, !.own = o]
      <4>1. o \in BOOLEAN /\ save \in Saves
        BY SyncShapes
      <4>. HIDE DEF o
      <4>2. /\ save' \in Saves /\ save'.same = FALSE /\ save'.step = save.step /\ save'.snap = save.snap
            /\ save'.at = save.at /\ save'.answer = save.answer /\ save'.own = o
        BY <3>2, <4>1 DEF Saves
      <4>. QED
        BY <4>2 DEF o
    <3>. QED
      BY <1>5, <3>1, <3>2
  <2>. QED
    BY <1>1, <1>2, <1>3, <1>5, <2>1, <2>2, <2>3
<1>. QED
  BY <1>1, <1>4, <1>5 DEF Sync!Apply

LEMMA RenamesEffect ==
  ASSUME Sync!Shapes, Sync!RenameSent
  PROVE  /\ syncSession.scene \in Scene /\ Sync!Live(syncSession.scene) /\ rename = Sync!NoVersion
         /\ row' \in [Scene -> Rows] /\ rename' \in Versions /\ rename'.scene = syncSession.scene
         /\ \A s \in Scene : s # syncSession.scene => row'[s] = row[s]
         /\ row'[syncSession.scene].rev = row[syncSession.scene].rev + 1
         /\ row'[syncSession.scene].edits = row[syncSession.scene].edits
         /\ row'[syncSession.scene].state = row[syncSession.scene].state
         /\ rename'.rev = row'[syncSession.scene].rev
         /\ used' \in [edits : Nat, mishaps : Nat]
         /\ UNCHANGED <<syncSession, syncCanvas, save, pull, dialog, descends, owed>>
<1>1. PICK s : s = syncSession.scene
  OBVIOUS
<1>2. /\ s # Sync!NoScene /\ Sync!Live(s) /\ rename = Sync!NoVersion /\ Sync!Mishap
      /\ row' = [row EXCEPT ![s].rev = @ + 1]
      /\ rename' = [scene |-> s, rev |-> row[s].rev + 1]
      /\ UNCHANGED <<syncSession, syncCanvas, save, pull, dialog, descends, owed>>
  BY <1>1 DEF Sync!RenameSent
<1>3. s \in Scene /\ row \in [Scene -> Rows]
  BY <1>1, <1>2, SyncShapes DEF Sessions
<1>4. PICK r : r = [row[s] EXCEPT !.rev = @ + 1]
  OBVIOUS
<1>5. /\ r \in Rows /\ r.rev = row[s].rev + 1 /\ r.edits = row[s].edits /\ r.state = row[s].state
      /\ row[s].rev + 1 \in Nat
  BY <1>3, <1>4 DEF Rows
<1>6. row' = [row EXCEPT ![s] = r]
  BY <1>2, <1>4
<1>7. rename' \in Versions /\ rename'.scene = s /\ rename'.rev = row[s].rev + 1
  BY <1>2, <1>3, <1>5 DEF Versions
<1>. QED
  BY <1>1, <1>2, <1>3, <1>5, <1>6, <1>7, MishapType

LEMMA OthersSaveEffect ==
  ASSUME Sync!Shapes, NEW s \in Scene, Sync!OtherSaves(s)
  PROVE  /\ Sync!Live(s) /\ row' \in [Scene -> Rows]
         /\ \A x \in Scene : x # s => row'[x] = row[x]
         /\ row'[s].rev = row[s].rev + 1 /\ row'[s].state = "live"
         /\ row[s].edits \subseteq row'[s].edits
         /\ used' \in [edits : Nat, mishaps : Nat]
         /\ UNCHANGED <<syncSession, syncCanvas, save, pull, rename, dialog, descends, owed>>
<1>1. /\ Sync!Live(s) /\ used' = [used EXCEPT !.edits = @ + 1]
      /\ row' = [row EXCEPT ![s].rev = @ + 1, ![s].edits = @ \union {used.edits + 1}]
      /\ UNCHANGED <<syncSession, syncCanvas, save, pull, rename, dialog, descends, owed>>
  BY DEF Sync!OtherSaves
<1>2. used.edits + 1 \in Nat /\ used' \in [edits : Nat, mishaps : Nat]
  BY <1>1, SyncShapes
<1>3. PICK e : e = used.edits + 1
  OBVIOUS
<1>4. PICK old, new : old = row[s] /\ new = old.edits \union {e}
  OBVIOUS
<1>5. old \in Rows
  BY <1>4, SyncShapes
<1>6. new \in SUBSET Nat
  <2>1. old.edits \in SUBSET Nat
    BY <1>5 DEF Rows
  <2>2. e \in Nat
    BY <1>2, <1>3
  <2>. QED
    BY <1>4, <2>1, <2>2
<1>7. PICK r : r = [old EXCEPT !.rev = old.rev + 1, !.edits = new]
  OBVIOUS
<1>8. r \in Rows /\ r.rev = old.rev + 1 /\ r.edits = new /\ r.state = old.state
  <2>1. PICK n \in Nat : n = old.rev + 1
    BY <1>5 DEF Rows
  <2>2. r = [old EXCEPT !.rev = n, !.edits = new]
    BY <1>7, <2>1
  <2>3. r \in Rows /\ r.rev = n /\ r.edits = new /\ r.state = old.state
    BY <1>5, <1>6, <2>2 DEF Rows
  <2>. QED
    BY <2>1, <2>3
<1>9. row' = [row EXCEPT ![s] = r]
  BY <1>1, <1>3, <1>4, <1>7, SyncShapes
<1>. QED
  BY <1>1, <1>2, <1>4, <1>8, <1>9, SyncShapes DEF Sync!Live

LEMMA LandsEffect ==
  ASSUME Sync!Shapes, Sync!RenameLands
  PROVE  /\ syncSession' \in Sessions /\ syncSession'.scene = syncSession.scene
         /\ syncSession'.rev = rename.rev /\ (syncSession'.dirty <=> syncSession.dirty)
         /\ rename # Sync!NoVersion /\ rename' = Sync!NoVersion /\ descends' \in BOOLEAN
         /\ descends' <=> /\ descends /\ rename.scene = syncSession.scene
                          /\ rename.rev \in {syncSession.rev, syncSession.rev + 1}
         /\ UNCHANGED <<row, syncCanvas, save, pull, dialog, used, owed>>
<1>1. /\ syncSession' = [syncSession EXCEPT !.rev = rename.rev] /\ rename # Sync!NoVersion /\ rename' = Sync!NoVersion
      /\ descends' = (descends /\ rename.scene = syncSession.scene
                       /\ rename.rev \in {syncSession.rev, syncSession.rev + 1})
      /\ UNCHANGED <<row, syncCanvas, save, pull, dialog, used, owed>>
  BY DEF Sync!RenameLands
<1>2. syncSession \in Sessions /\ rename.rev \in Nat
  BY SyncShapes DEF Versions
<1>3. /\ syncSession' \in Sessions /\ syncSession'.scene = syncSession.scene
      /\ syncSession'.rev = rename.rev /\ (syncSession'.dirty <=> syncSession.dirty)
  BY <1>1, <1>2 DEF Sessions
<1>. QED
  BY <1>1, <1>3

LEMMA SyncTypesStay ==
  ASSUME Sync!Shapes, Sync!AimsInv, Sync!NamesInv, [Sync!Next]_Sync!syncVars
  PROVE  Sync!Shapes'
<1>1. CASE UNCHANGED Sync!syncVars
  BY <1>1, SyncShapes, SyncShapesNext DEF Sync!syncVars
<1>2. CASE Sync!CheckStarts
  BY <1>2, CheckStartsEffect, SyncShapes, SyncShapesNext
<1>3. CASE Sync!CheckDecides
  BY <1>3, DecidesEffect, SyncShapes, SyncShapesNext
<1>4. ASSUME NEW f \in Pulls, Sync!ServerAnswers(f) \/ Sync!Apply(f) \/ Sync!PullFails(f) PROVE Sync!Shapes'
  <2>1. CASE Sync!ServerAnswers(f)
    BY <2>1, AnswersEffect, SyncShapes, SyncShapesNext
  <2>2. CASE Sync!Apply(f)
    <3>1. pull[f].at.scene \in Scene
      BY <2>2, AppliesEffect
    <3>. QED
      BY <2>2, AppliesEffect, SyncShapes, SyncShapesNext
  <2>3. CASE Sync!PullFails(f)
    BY <2>3, FailsEffect, SyncShapes, SyncShapesNext
  <2>. QED
    BY <1>4, <2>1, <2>2, <2>3
<1>5. ASSUME NEW s \in Scene, Sync!LoadStarts(s) \/ Sync!OtherSaves(s) \/ Sync!OtherDeletes(s) PROVE Sync!Shapes'
  <2>1. CASE Sync!LoadStarts(s)
    BY <2>1, LoadsEffect, SyncShapes, SyncShapesNext
  <2>2. CASE Sync!OtherSaves(s)
    BY <2>2, OthersSaveEffect, SyncShapes, SyncShapesNext
  <2>3. CASE Sync!OtherDeletes(s)
    BY <2>3, MishapType, SyncValues, SyncShapes, SyncShapesNext DEF Sync!OtherDeletes
  <2>. QED
    BY <1>5, <2>1, <2>2, <2>3
<1>6. CASE Sync!KeepLocal
  BY <1>6, SyncShapes, SyncShapesNext DEF Sync!KeepLocal
<1>7. CASE Sync!RenameSent
  BY <1>7, RenamesEffect, SyncShapes, SyncShapesNext
<1>8. CASE Sync!RenameLands
  BY <1>8, LandsEffect, SyncValues, SyncShapes, SyncShapesNext
<1>9. CASE Sync!Reload
  <2>1. pull' \in [Pulls -> Fetches]
    BY <1>9, SyncValues DEF Sync!Reload, Pulls
  <2>. QED
    BY <1>9, <2>1, MishapType, SyncValues, SyncShapes, SyncShapesNext DEF Sync!Reload
<1>. QED
  BY <1>1, <1>2, <1>3, <1>4, <1>5, <1>6, <1>7, <1>8, <1>9, SyncEditTypes, SavingTypes
     DEF Sync!Next, Pulls

-----------------------------------------------------------------------------
(* What names a scene, and how the rows go.                                 *)
OldName(x) == x \in Scene => row[x].state \notin {"unused", "draft"}
RowsAge ==
  \A s \in Scene : row'[s].state \in {"unused", "draft"} =>
    /\ row[s].state \in {"unused", "draft"}
    /\ row'[s].state = "draft" => row'[s].rev = 1
SaveNames ==
  \A s \in Scene : row'[s].state \in {"unused", "draft"} /\ save'.at.scene = s =>
    row'[s].state = "draft" /\ save'.step = "commit" /\ save'.at.rev = 1

LEMMA NamesOld ==
  ASSUME Sync!ScenesApart, Sync!NamesInv
  PROVE  /\ OldName(syncSession.scene) /\ OldName(dialog) /\ OldName(rename.scene) /\ OldName(Sync!NoScene)
         /\ \A f \in Pulls : OldName(pull[f].at.scene)
         /\ save.step # "commit" => OldName(save.at.scene)
         /\ \A s \in Scene : Sync!Live(s) => OldName(s)
BY DEF OldName, Sync!NamesInv, Sync!ScenesApart, Pulls, Sync!Live

LEMMA NamesKept ==
  ASSUME RowsAge, SaveNames, OldName(syncSession'.scene), OldName(dialog'), OldName(rename'.scene),
         \A f \in Pulls : OldName(pull'[f].at.scene)
  PROVE  Sync!NamesInv'
<1>. SUFFICES ASSUME NEW s \in Scene, row'[s].state \in {"unused", "draft"}
              PROVE  /\ syncSession'.scene # s /\ dialog' # s /\ rename'.scene # s
                     /\ \A f \in Pulls : pull'[f].at.scene # s
                     /\ row'[s].state = "draft" => row'[s].rev = 1
                     /\ save'.at.scene = s =>
                          row'[s].state = "draft" /\ save'.step = "commit" /\ save'.at.rev = 1
  BY DEF Sync!NamesInv, Pulls
<1>1. row[s].state \in {"unused", "draft"} /\ (row'[s].state = "draft" => row'[s].rev = 1)
  BY DEF RowsAge
<1>2. \A x : OldName(x) => x # s
  BY <1>1 DEF OldName
<1>. QED
  BY <1>1, <1>2 DEF SaveNames

(* Most steps leave every row as it is, or remove it.                       *)
RowsLeft == \A s \in Scene : row'[s] = row[s] \/ row'[s] = Sync!NoRow
SaveLeft ==
  \/ save' = Sync!Idle
  \/ save'.step = save.step /\ save'.at = save.at
  \/ save'.step = "prepare" /\ save'.at.scene = Sync!NoScene

LEMMA LeftNames ==
  ASSUME Sync!ScenesApart, Sync!NamesInv, RowsLeft, SaveLeft
  PROVE  RowsAge /\ SaveNames
<1>1. RowsAge
  BY SyncValues DEF RowsAge, RowsLeft, Sync!NamesInv
<1>2. ASSUME NEW s \in Scene, row'[s].state \in {"unused", "draft"}, save'.at.scene = s
      PROVE  row'[s].state = "draft" /\ save'.step = "commit" /\ save'.at.rev = 1
  <2>1. row'[s] = row[s]
    BY <1>2, SyncValues DEF RowsLeft
  <2>2. save'.step = save.step /\ save'.at = save.at
    BY <1>2, SyncValues DEF SaveLeft, Sync!ScenesApart
  <2>. QED
    BY <1>2, <2>1, <2>2 DEF Sync!NamesInv
<1>. QED
  BY <1>1, <1>2 DEF SaveNames

LEMMA LeftGoes ==
  ASSUME Sync!Shapes, Sync!ScenesApart, Sync!NamesInv, RowsLeft, rename' = rename \/ rename' = Sync!NoVersion
  PROVE  AllGo /\ SomeGo
<1>1. ASSUME NEW s \in Scene PROVE Goes(row, row', rename, rename', s)
  BY SyncValues DEF RowsLeft, Goes, Sync!ScenesApart
<1>2. ASSUME NEW s \in Scene, row[s].state = "draft" PROVE rename'.scene # s
  BY <1>2, SyncValues DEF Sync!NamesInv, Sync!ScenesApart
<1>. QED
  BY <1>1, <1>2 DEF AllGo, SomeGo

(* The four steps that write a row.                                         *)
LEMMA AimsRows ==
  ASSUME Sync!Shapes, Sync!ScenesApart, Sync!NamesInv, Sync!SaveAims
  PROVE  RowsAge /\ SaveNames /\ AllGo /\ SomeGo
<1>1. CASE UNCHANGED row /\ (save' = Sync!Idle \/ save'.at.scene = syncSession.scene)
  <2>1. RowsLeft /\ rename' = rename
    BY <1>1, AimsEffect DEF RowsLeft
  <2>2. RowsAge
    BY <1>1 DEF RowsAge, Sync!NamesInv
  <2>3. SaveNames
    BY <1>1, SyncValues DEF SaveNames, Sync!NamesInv, Sync!ScenesApart
  <2>. QED
    BY <2>1, <2>2, <2>3, LeftGoes
<1>2. ASSUME NEW s \in Scene, row[s] = Sync!NewRow, save'.at = [scene |-> s, rev |-> 1],
             row' = [row EXCEPT ![s] = [state |-> "draft", rev |-> 1, edits |-> {}]],
             save'.step = "commit", rename' = rename
      PROVE  RowsAge /\ SaveNames /\ AllGo /\ SomeGo
  <2>1. row[s].state = "unused"
    BY <1>2, SyncValues
  <2>2. /\ \A x \in Scene : x # s => row'[x] = row[x]
        /\ row'[s].state = "draft" /\ row'[s].rev = 1
        /\ save'.at.scene = s /\ save'.at.rev = 1
    BY <1>2, SyncShapes
  <2>3. RowsAge
    BY <2>1, <2>2 DEF RowsAge, Sync!NamesInv
  <2>4. SaveNames
    BY <1>2, <2>2 DEF SaveNames
  <2>5. AllGo
    BY <1>2, <2>2 DEF AllGo, Goes
  <2>6. SomeGo
    BY <1>2, <2>5 DEF SomeGo, AllGo, Sync!NamesInv
  <2>. QED
    BY <2>3, <2>4, <2>5, <2>6
<1>. QED
  BY <1>1, <1>2, AimsEffect

LEMMA CommitsRows ==
  ASSUME Sync!Shapes, Sync!ScenesApart, Sync!AimsInv, Sync!NamesInv, Sync!RenameBehind, Sync!SaveCommits
  PROVE  RowsAge /\ SaveNames /\ SomeGo
<1>1. rename' = rename /\ \A s \in Scene : row[s].state = "draft" => rename.scene # s
  BY CommitsEffect DEF Sync!NamesInv
<1>2. CASE UNCHANGED row /\ row[save.at.scene].state # "draft"
  <2>1. RowsLeft
    BY <1>2 DEF RowsLeft
  <2>2. RowsAge
    BY <1>2 DEF RowsAge, Sync!NamesInv
  <2>3. SaveNames
    BY <1>2, CommitsEffect DEF SaveNames, Sync!NamesInv
  <2>. QED
    BY <1>1, <2>1, <2>2, <2>3, LeftGoes
<1>3. ASSUME NEW r \in Nat \ {0},
             row' = [row EXCEPT ![save.at.scene]
                       = [state |-> "live", rev |-> r, edits |-> save.snap]],
             row[save.at.scene].state \in {"draft", "live"},
             row[save.at.scene].state = "live" => r = row[save.at.scene].rev + 1
      PROVE  RowsAge /\ SaveNames /\ SomeGo
  <2>1. PICK s \in Scene : s = save.at.scene
    BY CommitsEffect
  <2>2. /\ \A x \in Scene : x # s => row'[x] = row[x]
        /\ row'[s].state = "live" /\ row'[s].rev = r
        /\ row[s].state = "live" => r = row[s].rev + 1 /\ row[s].rev \in Nat
    BY <1>3, <2>1, SyncShapes DEF Rows
  <2>3. save'.at.scene = s
    BY <2>1, CommitsEffect
  <2>4. RowsAge
    BY <2>2 DEF RowsAge, Sync!NamesInv
  <2>5. SaveNames
    BY <2>2, <2>3, <2>1 DEF SaveNames, Sync!NamesInv
  <2>6. ASSUME NEW x \in Scene, row[x].state # "draft"
        PROVE  Goes(row, row', rename, rename', x)
    <3>1. CASE x # s
      BY <1>1, <2>2, <3>1 DEF Goes
    <3>2. CASE x = s
      <4>1. row[s].state = "live" /\ row'[s].rev > row[s].rev
        BY <1>3, <2>1, <2>2, <2>6, <3>2
      <4>2. rename'.scene = s => rename'.rev <= row[s].rev
        BY <1>1, <4>1 DEF Sync!RenameBehind, Sync!Live
      <4>. QED
        BY <3>2, <4>1, <4>2 DEF Goes
    <3>. QED
      BY <3>1, <3>2
  <2>7. SomeGo
    BY <1>1, <2>6 DEF SomeGo
  <2>. QED
    BY <2>4, <2>5, <2>7
<1>. QED
  BY <1>2, <1>3, CommitsEffect

LEMMA RenamesRows ==
  ASSUME Sync!Shapes, Sync!ScenesApart, Sync!NamesInv, Sync!RenameSent
  PROVE  RowsAge /\ SaveNames /\ AllGo /\ SomeGo
<1>1. PICK s \in Scene : s = syncSession.scene
  BY RenamesEffect
<1>2. /\ row[s].state = "live" /\ rename'.scene = s /\ \A x \in Scene : x # s => row'[x] = row[x]
      /\ row'[s].state = "live" /\ row'[s].rev = row[s].rev + 1 /\ row'[s].edits = row[s].edits
      /\ rename'.rev = row'[s].rev /\ save' = save
  BY <1>1, RenamesEffect DEF Sync!Live
<1>3. RowsAge /\ SaveNames
  BY <1>2 DEF RowsAge, SaveNames, Sync!NamesInv
<1>4. AllGo
  BY <1>2 DEF AllGo, Goes
<1>5. SomeGo
  BY <1>2, <1>4 DEF SomeGo, AllGo
<1>. QED
  BY <1>3, <1>4, <1>5

LEMMA OthersRows ==
  ASSUME Sync!Shapes, Sync!ScenesApart, Sync!NamesInv, Sync!RenameBehind, NEW s \in Scene, Sync!OtherSaves(s)
  PROVE  RowsAge /\ SaveNames /\ AllGo /\ SomeGo
<1>1. /\ row[s].state = "live" /\ rename' = rename /\ \A x \in Scene : x # s => row'[x] = row[x]
      /\ row'[s].state = "live" /\ row'[s].rev = row[s].rev + 1 /\ save' = save
      /\ row[s].rev \in Nat
  BY OthersSaveEffect, SyncShapes DEF Sync!Live, Rows
<1>2. RowsAge /\ SaveNames
  BY <1>1 DEF RowsAge, SaveNames, Sync!NamesInv
<1>3. rename'.scene = s => rename'.rev <= row[s].rev
  BY <1>1 DEF Sync!RenameBehind, Sync!Live
<1>4. AllGo
  BY <1>1, <1>3 DEF AllGo, Goes
<1>5. SomeGo
  BY <1>1, <1>4 DEF SomeGo, AllGo, Sync!NamesInv
<1>. QED
  BY <1>2, <1>4, <1>5

(* The other steps leave the rows, or remove one, and leave what the save   *)
(* names.                                                                   *)
LeavesRows ==
\/ UNCHANGED Sync!syncVars \/ Sync!Edit \/ \E mode \in {"auto", "create"} : Sync!SaveStarts(mode)
\/ Sync!SaveLands \/ Sync!SaveRefused \/ Sync!SaveFails \/ Sync!CheckStarts \/ Sync!CheckDecides
\/ \E f \in Pulls : Sync!ServerAnswers(f) \/ Sync!Apply(f) \/ Sync!PullFails(f)
\/ \E s \in Scene : Sync!LoadStarts(s) \/ Sync!OtherDeletes(s)
\/ Sync!KeepLocal \/ Sync!RenameLands \/ Sync!Reload

LEMMA NextIsQuietOrWrites ==
  [Sync!Next]_Sync!syncVars => \/ LeavesRows \/ Sync!SaveAims \/ Sync!SaveCommits \/ Sync!RenameSent
                               \/ \E s \in Scene : Sync!OtherSaves(s)
BY DEF Sync!Next, LeavesRows, Pulls

LEMMA LeftRows ==
  ASSUME Sync!Shapes, Sync!AimsInv, Sync!ScenesApart, Sync!NamesInv, LeavesRows
  PROVE  RowsLeft /\ SaveLeft /\ (rename' = rename \/ rename' = Sync!NoVersion)
<1>1. ASSUME Sync!Rollback PROVE RowsLeft
  <2>1. PICK s : row' = row \/ row' = [row EXCEPT ![s] = Sync!NoRow]
    BY <1>1, RollbackType
  <2>. QED
    BY <2>1, SyncShapes DEF RowsLeft
<1>2. ASSUME UNCHANGED row PROVE RowsLeft
  BY <1>2 DEF RowsLeft
<1>3. ASSUME UNCHANGED save PROVE SaveLeft
  BY <1>3 DEF SaveLeft
<1>4. ASSUME NEW mode \in {"auto", "create"}, Sync!SaveStarts(mode)
      PROVE  RowsLeft /\ SaveLeft /\ rename' = rename
  BY <1>2, <1>4, StartsEffect DEF SaveLeft
<1>5. ASSUME Sync!SaveLands \/ Sync!SaveRefused \/ Sync!SaveFails
      PROVE  RowsLeft /\ SaveLeft /\ rename' = rename
  BY <1>1, <1>2, <1>5 DEF Sync!SaveLands, Sync!SaveRefused, Sync!SaveFails, SaveLeft
<1>6. ASSUME NEW f \in Pulls, Sync!ServerAnswers(f) \/ Sync!Apply(f) \/ Sync!PullFails(f)
      PROVE  RowsLeft /\ SaveLeft /\ rename' = rename
  <2>1. CASE Sync!ServerAnswers(f)
    BY <1>2, <1>3, <2>1 DEF Sync!ServerAnswers
  <2>2. CASE Sync!PullFails(f)
    BY <1>2, <1>3, <2>2 DEF Sync!PullFails
  <2>3. CASE Sync!Apply(f)
    <3>1. row' = row /\ rename' = rename
      BY <2>3, AppliesEffect
    <3>2. save' = save \/ save' = Sync!Idle \/ (save'.step = save.step /\ save'.at = save.at)
      <4>1. CASE save'.step # "none"
        BY <2>3, <4>1, AppliesEffect
      <4>2. CASE save'.step = "none"
        <5>1. save' = save \/ save' = Sync!Idle \/ save' = [save EXCEPT !.same = FALSE, !.own = @ /\ save.step # "prepare"]
          BY <2>3 DEF Sync!Apply
        <5>2. ASSUME NEW o \in BOOLEAN, save' = [save EXCEPT !.same = FALSE, !.own = o]
              PROVE  save'.step = save.step /\ save'.at = save.at
          BY <5>2, SyncShapes DEF Saves
        <5>3. (save.own /\ save.step # "prepare") \in BOOLEAN
          OBVIOUS
        <5>. QED
          BY <5>1, <5>2, <5>3
      <4>. QED
        BY <4>1, <4>2
    <3>. QED
      BY <1>2, <3>1, <3>2 DEF SaveLeft
  <2>. QED
    BY <1>6, <2>1, <2>2, <2>3
<1>7. ASSUME NEW s \in Scene, Sync!LoadStarts(s) \/ Sync!OtherDeletes(s)
      PROVE  RowsLeft /\ SaveLeft /\ rename' = rename
  <2>1. CASE Sync!LoadStarts(s)
    BY <1>2, <1>3, <2>1 DEF Sync!LoadStarts
  <2>2. CASE Sync!OtherDeletes(s)
    BY <1>3, <2>2, SyncShapes DEF Sync!OtherDeletes, RowsLeft
  <2>. QED
    BY <1>7, <2>1, <2>2
<1>8. ASSUME UNCHANGED Sync!syncVars \/ Sync!Edit \/ Sync!CheckStarts \/ Sync!CheckDecides \/ Sync!KeepLocal \/ Sync!RenameLands
      PROVE  RowsLeft /\ SaveLeft /\ (rename' = rename \/ rename' = Sync!NoVersion)
  BY <1>2, <1>3, <1>8 DEF Sync!syncVars, Sync!Edit, Sync!CheckStarts, Sync!CheckDecides,
     Sync!KeepLocal, Sync!RenameLands
<1>9. ASSUME Sync!Reload PROVE RowsLeft /\ SaveLeft /\ rename' = Sync!NoVersion
  BY <1>2, <1>9 DEF Sync!Reload, SaveLeft
<1>. QED
  BY <1>4, <1>5, <1>6, <1>7, <1>8, <1>9 DEF LeavesRows

LEMMA RowsGo ==
  ASSUME Sync!Shapes, Sync!ScenesApart, Sync!AimsInv, Sync!NamesInv, Sync!RenameBehind, [Sync!Next]_Sync!syncVars
  PROVE  RowsAge /\ SaveNames /\ SomeGo /\ (Sync!SaveCommits \/ AllGo)
<1>1. CASE LeavesRows
  BY <1>1, LeftRows, LeftNames, LeftGoes
<1>. QED
  BY <1>1, NextIsQuietOrWrites, AimsRows, CommitsRows, RenamesRows, OthersRows

(* No step makes a scene that was never saved known.                        *)
LEMMA NamesStayOld ==
  ASSUME Sync!Shapes, Sync!ScenesApart, Sync!AimsInv, Sync!NamesInv, [Sync!Next]_Sync!syncVars
  PROVE  /\ OldName(syncSession'.scene) /\ OldName(dialog') /\ OldName(rename'.scene)
         /\ \A f \in Pulls : OldName(pull'[f].at.scene)
<1>. DEFINE Goal == /\ OldName(syncSession'.scene) /\ OldName(dialog') /\ OldName(rename'.scene)
                    /\ \A f \in Pulls : OldName(pull'[f].at.scene)
<1>1. ASSUME syncSession'.scene = syncSession.scene, dialog' = dialog \/ dialog' = Sync!NoScene,
             rename' = rename \/ rename' = Sync!NoVersion, UNCHANGED pull
      PROVE  Goal
  BY <1>1, NamesOld, SyncValues
<1>2. ASSUME UNCHANGED Sync!syncVars PROVE Goal
  BY <1>1, <1>2 DEF Sync!syncVars
<1>3. ASSUME Sync!Edit PROVE Goal
  <2>1. syncSession' = syncSession \/ syncSession' = [syncSession EXCEPT !.dirty = TRUE]
    BY <1>3 DEF Sync!Edit, Sync!MarkDirty
  <2>2. syncSession'.scene = syncSession.scene
    BY <2>1, DirtyType
  <2>. QED
    BY <1>1, <1>3, <2>2 DEF Sync!Edit
<1>4. ASSUME NEW mode \in {"auto", "create"}, Sync!SaveStarts(mode) PROVE Goal
  BY <1>1, <1>4 DEF Sync!SaveStarts
<1>5. ASSUME Sync!SaveAims \/ Sync!SaveCommits PROVE Goal
  BY <1>1, <1>5 DEF Sync!SaveAims, Sync!SaveCommits
<1>6. ASSUME Sync!SaveLands PROVE Goal
  <2>1. syncSession'.scene = save.at.scene /\ save.step # "commit" /\ dialog' \in {Sync!NoScene, dialog}
        /\ UNCHANGED <<pull, rename>>
    BY <1>6 DEF Sync!SaveLands, Sync!Sync
  <2>. QED
    BY <2>1, NamesOld
<1>7. ASSUME Sync!SaveRefused PROVE Goal
  <2>1. /\ syncSession' \in {Sync!NoSession, [syncSession EXCEPT !.dirty = TRUE]} /\ save.step # "commit"
        /\ dialog' \in {save.at.scene, dialog} /\ UNCHANGED <<pull, rename>>
    BY <1>7 DEF Sync!SaveRefused, Sync!MarkDirty
  <2>2. syncSession'.scene \in {Sync!NoScene, syncSession.scene}
    BY <2>1, DirtyType, SyncValues
  <2>. QED
    BY <2>1, <2>2, NamesOld
<1>8. ASSUME Sync!SaveFails PROVE Goal
  <2>1. syncSession' \in {syncSession, [syncSession EXCEPT !.dirty = TRUE]}
    BY <1>8 DEF Sync!SaveFails, Sync!MarkDirty
  <2>2. syncSession'.scene = syncSession.scene
    BY <2>1, DirtyType
  <2>. QED
    BY <1>1, <1>8, <2>2 DEF Sync!SaveFails
<1>9. ASSUME Sync!CheckStarts PROVE Goal
  BY <1>9, CheckStartsEffect, NamesOld DEF Pulls
<1>10. ASSUME Sync!CheckDecides PROVE Goal
  BY <1>10, DecidesEffect, NamesOld, SyncValues DEF Pulls
<1>11. ASSUME NEW f \in Pulls, Sync!ServerAnswers(f) PROVE Goal
  <2>1. \A g \in Pulls : OldName(pull'[g].at.scene)
    <3>. TAKE g \in Pulls
    <3>1. pull'[g].at.scene = pull[g].at.scene
      BY <1>11, AnswersEffect
    <3>. QED
      BY <3>1, NamesOld
  <2>. QED
    BY <1>11, <2>1, AnswersEffect, NamesOld
<1>12. ASSUME NEW f \in Pulls, Sync!Apply(f) PROVE Goal
  <2>1. \A g \in Pulls : OldName(pull'[g].at.scene)
    <3>. TAKE g \in Pulls
    <3>1. pull'[g] = pull[g] \/ pull'[g] = Sync!NoPull
      BY <1>12, AppliesEffect
    <3>2. pull'[g].at.scene \in {pull[g].at.scene, Sync!NoScene}
      BY <3>1, SyncValues
    <3>. QED
      BY <3>2, NamesOld
  <2>2. OldName(syncSession'.scene) /\ OldName(dialog') /\ OldName(rename'.scene)
    BY <1>12, AppliesEffect, NamesOld
  <2>. QED
    BY <2>1, <2>2
<1>13. ASSUME NEW f \in Pulls, Sync!PullFails(f) PROVE Goal
  BY <1>13, FailsEffect, NamesOld, SyncValues
<1>14. ASSUME NEW s \in Scene, Sync!LoadStarts(s) PROVE Goal
  BY <1>14, LoadsEffect, NamesOld DEF Pulls
<1>15. ASSUME NEW s \in Scene, Sync!OtherSaves(s) \/ Sync!OtherDeletes(s) PROVE Goal
  BY <1>1, <1>15 DEF Sync!OtherSaves, Sync!OtherDeletes
<1>16. ASSUME Sync!KeepLocal PROVE Goal
  BY <1>1, <1>16 DEF Sync!KeepLocal
<1>17. ASSUME Sync!RenameSent PROVE Goal
  BY <1>17, RenamesEffect, NamesOld
<1>18. ASSUME Sync!RenameLands PROVE Goal
  BY <1>1, <1>18, LandsEffect
<1>19. ASSUME Sync!Reload PROVE Goal
  BY <1>19, NamesOld, SyncValues DEF Sync!Reload, Pulls
<1>. HIDE DEF Goal
<1>20. Goal
  BY <1>2, <1>3, <1>4, <1>5, <1>6, <1>7, <1>8, <1>9, <1>10, <1>11, <1>12, <1>13, <1>14, <1>15,
     <1>16, <1>17, <1>18, <1>19 DEF Sync!Next, Pulls
<1>. QED
  BY <1>20 DEF Goal

LEMMA NamesStay ==
  ASSUME Sync!Shapes, Sync!ScenesApart, Sync!AimsInv, Sync!NamesInv, Sync!RenameBehind, [Sync!Next]_Sync!syncVars
  PROVE  Sync!NamesInv'
BY RowsGo, NamesStayOld, NamesKept

LEMMA AimsStay ==
  ASSUME Sync!Shapes, Sync!ScenesApart, Sync!AimsInv, Sync!NamesInv, [Sync!Next]_Sync!syncVars
  PROVE  Sync!AimsInv'
<1>1. save'.step \in {"commit", "answered"} => save'.at.scene \in Scene
  <2>1. CASE LeavesRows
    <3>1. SaveLeft
      BY <2>1, LeftRows
    <3>2. save' = Sync!Idle => save'.step = "none"
      BY SyncValues
    <3>. QED
      BY <3>1, <3>2 DEF SaveLeft, Sync!AimsInv
  <2>2. CASE Sync!SaveAims
    <3>1. syncSession.scene # Sync!NoScene => syncSession.scene \in Scene
      BY SyncShapes DEF Sessions
    <3>2. CASE save' = Sync!Idle
      BY <3>2, SyncValues
    <3>3. CASE syncSession.scene # Sync!NoScene /\ save'.at.scene = syncSession.scene
      BY <3>1, <3>3
    <3>4. ASSUME NEW s \in Scene, save'.at = [scene |-> s, rev |-> 1] PROVE save'.at.scene \in Scene
      BY <3>4
    <3>. QED
      BY <2>2, <3>2, <3>3, <3>4, AimsEffect
  <2>3. CASE Sync!SaveCommits
    BY <2>3, CommitsEffect
  <2>4. CASE UNCHANGED save
    BY <2>4 DEF Sync!AimsInv
  <2>. QED
    BY <2>1, <2>2, <2>3, <2>4, NextIsQuietOrWrites, RenamesEffect, OthersSaveEffect
<1>. DEFINE Goal == \A f \in Pulls : pull'[f].step # "none" => pull'[f].at.scene \in Scene
<1>2. UNCHANGED pull => Goal
  BY DEF Sync!AimsInv, Pulls
<1>3. ASSUME Sync!CheckStarts PROVE Goal
  BY <1>3, CheckStartsEffect DEF Pulls, Sync!AimsInv
<1>4. ASSUME Sync!CheckDecides PROVE Goal
  BY <1>4, DecidesEffect, SyncValues DEF Pulls, Sync!AimsInv
<1>5. ASSUME NEW f \in Pulls, Sync!ServerAnswers(f) PROVE Goal
  BY <1>5, AnswersEffect DEF Sync!AimsInv, Pulls
<1>6. ASSUME NEW f \in Pulls, Sync!Apply(f) \/ Sync!PullFails(f) PROVE Goal
  BY <1>6, AppliesEffect, FailsEffect, SyncValues DEF Sync!AimsInv, Pulls
<1>7. ASSUME NEW s \in Scene, Sync!LoadStarts(s) PROVE Goal
  BY <1>7, LoadsEffect DEF Sync!AimsInv, Pulls
<1>8. ASSUME Sync!Reload PROVE Goal
  BY <1>8, SyncValues DEF Sync!Reload, Pulls
<1>9. ASSUME \/ UNCHANGED Sync!syncVars \/ Sync!Edit \/ \E mode \in {"auto", "create"} : Sync!SaveStarts(mode)
             \/ Sync!SaveAims \/ Sync!SaveCommits \/ Sync!SaveLands \/ Sync!SaveRefused \/ Sync!SaveFails
             \/ \E s \in Scene : Sync!OtherSaves(s) \/ Sync!OtherDeletes(s)
             \/ Sync!KeepLocal \/ Sync!RenameSent \/ Sync!RenameLands
      PROVE  UNCHANGED pull
  BY <1>9 DEF Sync!syncVars, Sync!Edit, Sync!SaveStarts, Sync!SaveAims, Sync!SaveCommits,
     Sync!SaveLands, Sync!SaveRefused, Sync!SaveFails, Sync!OtherSaves, Sync!OtherDeletes,
     Sync!KeepLocal, Sync!RenameSent, Sync!RenameLands
<1>. HIDE DEF Goal
<1>10. Goal
  BY <1>2, <1>3, <1>4, <1>5, <1>6, <1>7, <1>8, <1>9 DEF Sync!Next, Pulls
<1>. QED
  BY <1>1, <1>10 DEF Sync!AimsInv, Goal, Pulls

-----------------------------------------------------------------------------
(* What is held stays held.                                                 *)
LEMMA FrameHeld ==
  ASSUME Sync!Shapes, Sync!Shapes', Sync!NamesInv, Sync!HeldInv, SomeGo, AllGo, Sync!RenameBehind',
         syncCanvas \subseteq syncCanvas', save' = save \/ save' = Sync!Idle,
         descends' => descends /\ syncSession'.scene = syncSession.scene /\ syncSession'.rev = syncSession.rev,
         \A f \in Pulls : pull'[f] = pull[f] \/ pull'[f].step # "data read"
  PROVE  Sync!HeldInv'
<1>1. Sync!CanvasHeld /\ Sync!SnapHeld /\ Sync!SavedHeld /\ Sync!PullHeld
  BY DEF Sync!HeldInv
<1>2. Sync!CanvasHeld'
  BY <1>1, CanvasKept
<1>3. Sync!PullHeld'
  BY <1>1, PullKept
<1>4. CASE save' = save
  <2>1. Sync!SnapHeld'
    BY <1>1, <1>4, SnapKept
  <2>2. save'.same => save'.snap \subseteq syncCanvas'
    BY <1>1, <1>4 DEF Sync!SavedHeld
  <2>3. Sync!SavedHeld'
    BY <1>1, <1>4, <2>2, SavedKept
  <2>. QED
    BY <1>2, <1>3, <2>1, <2>3 DEF Sync!HeldInv
<1>5. CASE save' = Sync!Idle
  <2>1. Sync!SnapHeld'
    BY <1>5, SyncValues DEF Sync!SnapHeld
  <2>2. Sync!SavedHeld'
    BY <1>5, SyncValues DEF Sync!SavedHeld
  <2>. QED
    BY <1>2, <1>3, <2>1, <2>2 DEF Sync!HeldInv
<1>. QED
  BY <1>4, <1>5

(* The steps of a save.                                                     *)
LEMMA StartsHeld ==
  ASSUME Sync!Shapes, Sync!Shapes', Sync!NamesInv, Sync!HeldInv, SomeGo, Sync!RenameBehind',
         NEW mode \in {"auto", "create"}, Sync!SaveStarts(mode)
  PROVE  Sync!HeldInv'
<1>1. Sync!CanvasHeld /\ Sync!SnapHeld /\ Sync!SavedHeld /\ Sync!PullHeld
  BY DEF Sync!HeldInv
<1>2. /\ save'.step = "prepare" /\ save'.snap = syncCanvas /\ (save'.own <=> descends)
      /\ UNCHANGED <<row, syncSession, syncCanvas, pull, rename, descends>>
  BY StartsEffect
<1>3. Sync!CanvasHeld' /\ Sync!PullHeld'
  BY <1>1, <1>2 DEF Sync!CanvasHeld, Sync!PullHeld
<1>4. Sync!SnapHeld'
  BY <1>1, <1>2 DEF Sync!SnapHeld, Sync!CanvasHeld
<1>5. Sync!SavedHeld'
  BY <1>2 DEF Sync!SavedHeld
<1>. QED
  BY <1>3, <1>4, <1>5 DEF Sync!HeldInv

LEMMA AimsHeld ==
  ASSUME Sync!Shapes, Sync!Shapes', Sync!NamesInv, Sync!HeldInv, SomeGo, Sync!RenameBehind', Sync!SaveAims
  PROVE  Sync!HeldInv'
<1>1. Sync!CanvasHeld /\ Sync!SnapHeld /\ Sync!SavedHeld /\ Sync!PullHeld
  BY DEF Sync!HeldInv
<1>2. save.step = "prepare" /\ UNCHANGED <<syncSession, syncCanvas, pull, rename, descends>>
  BY AimsEffect
<1>3. Sync!CanvasHeld' /\ Sync!PullHeld'
  BY <1>1, <1>2, CanvasKept, PullKept
<1>4. CASE save' = Sync!Idle
  BY <1>3, <1>4, SyncValues DEF Sync!HeldInv, Sync!SnapHeld, Sync!SavedHeld
<1>5. CASE /\ UNCHANGED row /\ save'.step = "commit" /\ save'.at.scene = syncSession.scene
           /\ save'.at.rev = IF syncSession.rev # 0 THEN syncSession.rev ELSE row[syncSession.scene].rev
           /\ (save'.own <=> save.own /\ descends) /\ save'.snap = save.snap
           /\ (save'.same <=> save.same)
  <2>1. ASSUME save'.own
        PROVE  Sync!Held(row', rename', save'.at.scene, save'.at.rev, save'.snap)
    <3>1. save.own /\ descends /\ syncSession.rev # 0
      BY <1>1, <1>5, <2>1 DEF Sync!CanvasHeld
    <3>2. Sync!Held(row, rename, syncSession.scene, syncSession.rev, save.snap)
      BY <1>1, <1>2, <3>1 DEF Sync!SnapHeld
    <3>. QED
      BY <1>2, <1>5, <3>1, <3>2
  <2>2. Sync!SnapHeld'
    BY <1>5, <2>1 DEF Sync!SnapHeld
  <2>3. Sync!SavedHeld'
    BY <1>1, <1>2, <1>5 DEF Sync!SavedHeld
  <2>. QED
    BY <1>3, <2>2, <2>3 DEF Sync!HeldInv
<1>6. ASSUME NEW s \in Scene, save'.at = [scene |-> s, rev |-> 1], save'.step = "commit",
             save'.snap = save.snap, save'.same <=> save.same,
             row' = [row EXCEPT ![s] = [state |-> "draft", rev |-> 1, edits |-> {}]]
      PROVE  Sync!HeldInv'
  <2>1. row'[s].state = "draft" /\ save'.at.scene = s
    BY <1>6, SyncShapes
  <2>2. Sync!SnapHeld'
    BY <1>6, <2>1, HeldIdly DEF Sync!SnapHeld
  <2>3. Sync!SavedHeld'
    BY <1>1, <1>2, <1>6 DEF Sync!SavedHeld
  <2>. QED
    BY <1>3, <2>2, <2>3 DEF Sync!HeldInv
<1>. QED
  BY <1>4, <1>5, <1>6, AimsEffect

LEMMA CommitsHeld ==
  ASSUME Sync!Shapes, Sync!Shapes', Sync!AimsInv, Sync!NamesInv, Sync!HeldInv, SomeGo, Sync!RenameBehind', Sync!SaveCommits
  PROVE  Sync!HeldInv'
<1>1. Sync!CanvasHeld /\ Sync!SnapHeld /\ Sync!SavedHeld /\ Sync!PullHeld
  BY DEF Sync!HeldInv
<1>2. /\ save'.step = "answered" /\ save'.at.scene = save.at.scene /\ save'.snap = {}
      /\ (save'.same <=> save.same) /\ save.at.scene \in Scene
      /\ UNCHANGED <<syncSession, syncCanvas, pull, rename, descends>>
  BY CommitsEffect
<1>3. Sync!CanvasHeld' /\ Sync!PullHeld'
  BY <1>1, <1>2, CanvasKept, PullKept
<1>4. Sync!SnapHeld'
  BY <1>2 DEF Sync!SnapHeld
<1>5. CASE save'.answer # "saved"
  BY <1>2, <1>3, <1>4, <1>5 DEF Sync!SavedHeld, Sync!HeldInv
<1>6. ASSUME NEW r \in Nat \ {0}, save'.at.rev = r,
             row' = [row EXCEPT ![save.at.scene]
                       = [state |-> "live", rev |-> r, edits |-> save.snap]]
      PROVE  Sync!HeldInv'
  <2>1. PICK s, snap : s \in Scene /\ s = save.at.scene /\ snap = save.snap
    BY <1>2
  <2>2. row' \in [Scene -> Rows] /\ row'[s].rev = r /\ row'[s].edits = snap
    BY <1>6, <2>1, SyncShapes, SyncShapesNext
  <2>3. save.same => snap \subseteq syncCanvas
    BY <1>1, <2>1 DEF Sync!SavedHeld
  <2>4. save.same => Sync!Held(row', rename', s, row'[s].rev, syncCanvas)
    BY <2>2, <2>3, HeldNow
  <2>5. save'.at.scene = s /\ save'.at.rev = row'[s].rev
    BY <1>2, <1>6, <2>1, <2>2
  <2>6. Sync!SavedHeld'
    BY <1>2, <1>6, <2>4, <2>5 DEF Sync!SavedHeld
  <2>. QED
    BY <1>3, <1>4, <2>6 DEF Sync!HeldInv
<1>. QED
  BY <1>5, <1>6, CommitsEffect

LEMMA SaveLandsHeld ==
  ASSUME Sync!Shapes, Sync!Shapes', Sync!NamesInv, Sync!HeldInv, SomeGo, Sync!RenameBehind', Sync!SaveLands
  PROVE  Sync!HeldInv'
<1>1. Sync!CanvasHeld /\ Sync!SnapHeld /\ Sync!SavedHeld /\ Sync!PullHeld
  BY DEF Sync!HeldInv
<1>2. /\ save.step = "answered" /\ save.answer = "saved" /\ save' = Sync!Idle
      /\ syncSession'.scene = save.at.scene /\ syncSession'.rev = save.at.rev
      /\ descends' = save.same /\ UNCHANGED <<row, syncCanvas, pull, rename>>
  BY DEF Sync!SaveLands, Sync!Sync
<1>3. Sync!CanvasHeld'
  BY <1>1, <1>2 DEF Sync!CanvasHeld, Sync!SavedHeld
<1>4. Sync!PullHeld'
  BY <1>1, <1>2 DEF Sync!PullHeld
<1>. QED
  BY <1>2, <1>3, <1>4, SyncValues DEF Sync!HeldInv, Sync!SnapHeld, Sync!SavedHeld

(* The steps of a fetch.                                                    *)
LEMMA AnswersHeld ==
  ASSUME Sync!Shapes, Sync!Shapes', Sync!AimsInv, Sync!NamesInv, Sync!HeldInv, SomeGo, Sync!RenameBehind',
         NEW f \in Pulls, Sync!ServerAnswers(f)
  PROVE  Sync!HeldInv'
<1>1. Sync!CanvasHeld /\ Sync!SnapHeld /\ Sync!SavedHeld /\ Sync!PullHeld
  BY DEF Sync!HeldInv
<1>2. UNCHANGED <<row, syncSession, syncCanvas, save, rename, descends>>
  BY AnswersEffect
<1>3. Sync!CanvasHeld' /\ Sync!SnapHeld' /\ Sync!SavedHeld'
  BY <1>1, <1>2 DEF Sync!CanvasHeld, Sync!SnapHeld, Sync!SavedHeld
<1>4. ASSUME NEW g \in Pulls, pull'[g].step = "data read"
      PROVE  Sync!Held(row', rename', pull'[g].at.scene, pull'[g].at.rev, pull'[g].edits)
  <2>1. CASE g # f
    <3>1. pull'[g] = pull[g]
      BY <2>1, AnswersEffect
    <3>. QED
      BY <1>1, <1>2, <1>4, <3>1 DEF Sync!PullHeld, Pulls
  <2>2. CASE g = f
    <3>1. PICK s : s = pull[f].at.scene
      OBVIOUS
    <3>2. pull'[g].at.scene = s /\ pull'[g].at.rev = row[s].rev /\ pull'[g].edits = row[s].edits
      BY <1>4, <2>2, <3>1, AnswersEffect
    <3>3. Sync!Held(row, rename, s, row[s].rev, row[s].edits)
      BY SyncShapes, HeldNow
    <3>. QED
      BY <1>2, <3>2, <3>3
  <2>. QED
    BY <2>1, <2>2
<1>5. Sync!PullHeld'
  BY <1>4 DEF Sync!PullHeld, Pulls
<1>. QED
  BY <1>3, <1>5 DEF Sync!HeldInv

LEMMA AppliesHeld ==
  ASSUME Sync!Shapes, Sync!Shapes', Sync!AimsInv, Sync!NamesInv, Sync!HeldInv, SomeGo, AllGo, Sync!RenameBehind',
         NEW f \in Pulls, Sync!Apply(f)
  PROVE  Sync!HeldInv'
<1>1. Sync!CanvasHeld /\ Sync!SnapHeld /\ Sync!SavedHeld /\ Sync!PullHeld
  BY DEF Sync!HeldInv
<1>2. Sync!PullHeld'
  BY <1>1, AppliesEffect, PullKept, SyncValues
<1>3. CASE UNCHANGED <<syncSession, syncCanvas, save, descends>>
  BY <1>3, AppliesEffect, FrameHeld, SyncValues
<1>4. CASE /\ pull[f].at.rev # 0 /\ syncCanvas' = pull[f].edits
           /\ syncSession'.scene = pull[f].at.scene /\ syncSession'.rev = pull[f].at.rev
           /\ save' = Sync!Idle \/ ~save'.same
           /\ save'.step # "none" =>
                /\ save'.step = save.step /\ save'.snap = save.snap /\ save'.at = save.at
                /\ save'.answer = save.answer
                /\ save'.own => save.own /\ save.step # "prepare"
  <2>1. pull[f].step = "data read" /\ UNCHANGED <<row, rename>>
    BY AppliesEffect
  <2>2. Sync!Held(row, rename, pull[f].at.scene, pull[f].at.rev, pull[f].edits)
    BY <1>1, <2>1 DEF Sync!PullHeld, Pulls
  <2>3. Sync!CanvasHeld'
    BY <1>4, <2>1, <2>2 DEF Sync!CanvasHeld
  <2>4. Sync!SnapHeld'
    BY <1>1, <1>4, <2>1 DEF Sync!SnapHeld
  <2>5. Sync!SavedHeld'
    <3>1. CASE save' = Sync!Idle
      BY <3>1, SyncValues DEF Sync!SavedHeld
    <3>2. CASE ~save'.same
      BY <1>1, <1>4, <3>2 DEF Sync!SavedHeld
    <3>. QED
      BY <1>4, <3>1, <3>2
  <2>. QED
    BY <1>2, <2>3, <2>4, <2>5 DEF Sync!HeldInv
<1>. QED
  BY <1>3, <1>4, AppliesEffect

(* A rename lands: the revision it made of the one the session named holds  *)
(* what that one held.                                                      *)
LEMMA RenamedHolds ==
  ASSUME Sync!Shapes, Sync!ScenesApart, Sync!RenameBehind, NEW s, NEW r \in Nat, NEW C,
         Sync!Held(row, rename, s, r, C), rename.scene = s, rename.rev \in {r, r + 1}
  PROVE  Sync!Held(row, Sync!NoVersion, s, rename.rev, C)
<1>. SUFFICES ASSUME s \in Scene, row[s].state = "live"
              PROVE  /\ rename.rev <= row[s].rev
                     /\ row[s].rev = rename.rev => row[s].edits \subseteq C
  BY SyncValues DEF Sync!Held, Sync!ScenesApart
<1>1. rename.rev \in Nat /\ row[s].rev \in Nat
  BY SyncShapes DEF Versions, Rows
<1>2. rename.rev <= row[s].rev
  BY DEF Sync!RenameBehind, Sync!Live
<1>3. \/ row[s].rev = r
      \/ rename.scene = s /\ rename.rev = r + 1 /\ row[s].rev = r + 1
      => row[s].edits \subseteq C
  BY DEF Sync!Held
<1>. QED
  BY <1>1, <1>2, <1>3

LEMMA RenameLandsHeld ==
  ASSUME Sync!Shapes, Sync!Shapes', Sync!ScenesApart, Sync!NamesInv, Sync!HeldInv, AllGo, SomeGo, Sync!RenameBehind',
         Sync!RenameLands
  PROVE  Sync!HeldInv'
<1>1. Sync!CanvasHeld /\ Sync!SnapHeld /\ Sync!SavedHeld /\ Sync!PullHeld /\ Sync!RenameBehind
  BY DEF Sync!HeldInv
<1>2. /\ rename' = Sync!NoVersion /\ syncSession'.scene = syncSession.scene /\ syncSession'.rev = rename.rev
      /\ descends' => /\ descends /\ rename.scene = syncSession.scene
                      /\ rename.rev \in {syncSession.rev, syncSession.rev + 1}
      /\ UNCHANGED <<row, syncCanvas, save, pull>>
  BY LandsEffect
<1>3. syncSession.rev \in Nat /\ rename.rev \in Nat
  BY SyncShapes DEF Sessions, Versions
<1>4. ASSUME descends', NEW C, Sync!Held(row, rename, syncSession.scene, syncSession.rev, C)
      PROVE  Sync!Held(row', rename', syncSession'.scene, syncSession'.rev, C)
  <2>1. Sync!Held(row, Sync!NoVersion, syncSession.scene, rename.rev, C)
    BY <1>1, <1>2, <1>3, <1>4, RenamedHolds
  <2>. QED
    BY <1>2, <2>1
<1>5. Sync!CanvasHeld'
  <2>1. descends' => syncSession'.rev # 0
    BY <1>1, <1>2, <1>3 DEF Sync!CanvasHeld
  <2>2. descends' => Sync!Held(row', rename', syncSession'.scene, syncSession'.rev, syncCanvas)
    BY <1>1, <1>2, <1>4 DEF Sync!CanvasHeld
  <2>. QED
    BY <1>2, <2>1, <2>2 DEF Sync!CanvasHeld
<1>6. Sync!SnapHeld'
  <2>1. save'.step = "prepare" /\ save'.own /\ descends'
          => Sync!Held(row', rename', syncSession'.scene, syncSession'.rev, save'.snap)
    BY <1>1, <1>2, <1>4 DEF Sync!SnapHeld
  <2>2. ASSUME save'.step = "commit", save'.own
        PROVE  Sync!Held(row', rename', save'.at.scene, save'.at.rev, save'.snap)
    <3>1. Sync!Held(row, rename, save.at.scene, save.at.rev, save.snap)
      BY <1>1, <1>2, <2>2 DEF Sync!SnapHeld
    <3>2. PICK s, r, C : s = save.at.scene /\ r = save.at.rev /\ C = save.snap
      OBVIOUS
    <3>3. r \in Nat
      BY <3>2, SyncShapes DEF Saves, Versions
    <3>4. row \in [Scene -> Rows] /\ row' \in [Scene -> Rows] /\ rename \in Versions
          /\ rename' \in Versions /\ (s \in Scene => Goes(row, row', rename, rename', s))
      BY SyncShapes, SyncShapesNext DEF AllGo
    <3>5. Sync!Held(row', rename', s, r, C)
      BY <3>1, <3>2, <3>3, <3>4, HeldGoes
    <3>. QED
      BY <1>2, <3>2, <3>5
  <2>. QED
    BY <2>1, <2>2 DEF Sync!SnapHeld
<1>7. save'.same => save'.snap \subseteq syncCanvas'
  BY <1>1, <1>2 DEF Sync!SavedHeld
<1>8. Sync!SavedHeld'
  BY <1>1, <1>2, <1>7, SavedKept
<1>9. Sync!PullHeld'
  BY <1>1, <1>2, PullKept
<1>. QED
  BY <1>5, <1>6, <1>8, <1>9 DEF Sync!HeldInv

LEMMA HeldStay ==
  ASSUME Sync!Shapes, Sync!Shapes', Sync!ScenesApart, Sync!AimsInv, Sync!NamesInv, Sync!HeldInv, [Sync!Next]_Sync!syncVars
  PROVE  Sync!HeldInv'
<1>1. SomeGo /\ (Sync!SaveCommits \/ AllGo) /\ Sync!RenameBehind
  BY RowsGo DEF Sync!HeldInv
<1>2. Sync!RenameBehind'
  BY <1>1, StaysBehind
<1>. DEFINE Frame == /\ syncCanvas \subseteq syncCanvas' /\ (save' = save \/ save' = Sync!Idle)
                     /\ descends' => /\ descends /\ syncSession'.scene = syncSession.scene
                                     /\ syncSession'.rev = syncSession.rev
                     /\ \A f \in Pulls : pull'[f] = pull[f] \/ pull'[f].step # "data read"
<1>3. ASSUME Frame, AllGo PROVE Sync!HeldInv'
  BY <1>1, <1>2, <1>3, FrameHeld
<1>0. ASSUME syncCanvas \subseteq syncCanvas', save' = save \/ save' = Sync!Idle, descends' = descends,
             syncSession'.scene = syncSession.scene, syncSession'.rev = syncSession.rev,
             \A f \in Pulls : pull'[f] = pull[f] \/ pull'[f].step # "data read"
       PROVE  Frame
  BY <1>0
<1>4. ASSUME UNCHANGED Sync!syncVars \/ Sync!KeepLocal PROVE Frame
  <2>1. UNCHANGED <<syncSession, syncCanvas, save, pull, descends>>
    BY <1>4 DEF Sync!syncVars, Sync!KeepLocal
  <2>. QED
    BY <2>1, <1>0
<1>5. ASSUME Sync!Edit PROVE Frame
  <2>1. syncCanvas \subseteq syncCanvas' /\ UNCHANGED <<save, pull, descends>>
    BY <1>5 DEF Sync!Edit
  <2>2. syncSession' = syncSession \/ syncSession' = [syncSession EXCEPT !.dirty = TRUE]
    BY <1>5 DEF Sync!Edit, Sync!MarkDirty
  <2>3. syncSession'.scene = syncSession.scene /\ syncSession'.rev = syncSession.rev
    BY <2>2, DirtyType
  <2>. QED
    BY <2>1, <2>3, <1>0
<1>6. ASSUME Sync!SaveRefused PROVE Frame
  <2>1. syncCanvas' = syncCanvas /\ save' = Sync!Idle /\ pull' = pull
    BY <1>6 DEF Sync!SaveRefused
  <2>2. CASE descends' = FALSE
    BY <2>1, <2>2
  <2>3. CASE syncSession' = [syncSession EXCEPT !.dirty = TRUE] /\ descends' = descends
    <3>1. syncSession'.scene = syncSession.scene /\ syncSession'.rev = syncSession.rev
      BY <2>3, DirtyType
    <3>. QED
      BY <2>1, <2>3, <3>1, <1>0
  <2>. QED
    BY <1>6, <2>2, <2>3 DEF Sync!SaveRefused, Sync!MarkDirty
<1>7. ASSUME Sync!SaveFails PROVE Frame
  <2>1. syncCanvas' = syncCanvas /\ save' = Sync!Idle /\ pull' = pull /\ descends' = descends
    BY <1>7 DEF Sync!SaveFails
  <2>2. syncSession' = syncSession \/ syncSession' = [syncSession EXCEPT !.dirty = TRUE]
    BY <1>7 DEF Sync!SaveFails, Sync!MarkDirty
  <2>3. syncSession'.scene = syncSession.scene /\ syncSession'.rev = syncSession.rev
    BY <2>2, DirtyType
  <2>. QED
    BY <2>1, <2>3, <1>0
<1>8. ASSUME Sync!CheckStarts PROVE Frame
  <2>1. UNCHANGED <<syncSession, syncCanvas, save, descends>>
    BY <1>8, CheckStartsEffect
  <2>2. \A f \in Pulls : pull'[f] = pull[f] \/ pull'[f].step # "data read"
    BY <1>8, CheckStartsEffect DEF Pulls
  <2>. QED
    BY <2>1, <2>2, <1>0
<1>9. ASSUME Sync!CheckDecides PROVE Frame
  <2>1. UNCHANGED <<syncSession, syncCanvas, save, descends>>
    BY <1>9, DecidesEffect
  <2>2. \A f \in Pulls : pull'[f] = pull[f] \/ pull'[f].step # "data read"
    BY <1>9, DecidesEffect, SyncValues DEF Pulls
  <2>. QED
    BY <2>1, <2>2, <1>0
<1>10. ASSUME NEW f \in Pulls, Sync!PullFails(f) PROVE Frame
  BY <1>10, FailsEffect, SyncValues DEF Pulls
<1>11. ASSUME NEW s \in Scene, Sync!LoadStarts(s) \/ Sync!OtherSaves(s) \/ Sync!OtherDeletes(s) PROVE Frame
  <2>1. CASE Sync!LoadStarts(s)
    BY <2>1, LoadsEffect DEF Pulls
  <2>2. CASE Sync!OtherSaves(s)
    BY <2>2, OthersSaveEffect
  <2>3. CASE Sync!OtherDeletes(s)
    BY <2>3 DEF Sync!OtherDeletes
  <2>. QED
    BY <1>11, <2>1, <2>2, <2>3
<1>12. ASSUME Sync!RenameSent PROVE Frame
  BY <1>12 DEF Sync!RenameSent
<1>13. ASSUME Sync!Reload PROVE Frame
  BY <1>13, SyncValues DEF Sync!Reload, Pulls
<1>14. ASSUME Sync!SaveCommits PROVE Sync!HeldInv'
  BY <1>1, <1>2, <1>14, CommitsHeld
<1>15. ASSUME NEW mode \in {"auto", "create"}, Sync!SaveStarts(mode) PROVE Sync!HeldInv'
  BY <1>1, <1>2, <1>15, StartsHeld
<1>16. ASSUME Sync!SaveAims PROVE Sync!HeldInv'
  BY <1>1, <1>2, <1>16, AimsHeld
<1>17. ASSUME Sync!SaveLands PROVE Sync!HeldInv'
  BY <1>1, <1>2, <1>17, SaveLandsHeld
<1>18. ASSUME NEW f \in Pulls, Sync!ServerAnswers(f) PROVE Sync!HeldInv'
  BY <1>1, <1>2, <1>18, AnswersHeld
<1>19. ASSUME NEW f \in Pulls, Sync!Apply(f), AllGo PROVE Sync!HeldInv'
  BY <1>1, <1>2, <1>19, AppliesHeld
<1>20. ASSUME Sync!RenameLands, AllGo PROVE Sync!HeldInv'
  BY <1>1, <1>2, <1>20, RenameLandsHeld
<1>. HIDE DEF Frame
<1>21. Sync!Next => \/ Sync!SaveCommits \/ Sync!Edit \/ \E mode \in {"auto", "create"} : Sync!SaveStarts(mode)
                    \/ Sync!SaveAims \/ Sync!SaveLands \/ Sync!SaveRefused \/ Sync!SaveFails
                    \/ Sync!CheckStarts \/ Sync!CheckDecides
                    \/ \E f \in Pulls : Sync!ServerAnswers(f) \/ Sync!Apply(f) \/ Sync!PullFails(f)
                    \/ \E s \in Scene : Sync!LoadStarts(s) \/ Sync!OtherSaves(s) \/ Sync!OtherDeletes(s)
                    \/ Sync!KeepLocal \/ Sync!RenameSent \/ Sync!RenameLands \/ Sync!Reload
  BY DEF Sync!Next, Pulls
<1>. QED
  BY <1>1, <1>3, <1>4, <1>5, <1>6, <1>7, <1>8, <1>9, <1>10, <1>11, <1>12, <1>13, <1>14, <1>15,
     <1>16, <1>17, <1>18, <1>19, <1>20, <1>21

-----------------------------------------------------------------------------
(* What is owed.                                                            *)
LEMMA OwedStay ==
  ASSUME Sync!Shapes, Sync!Shapes', Sync!ScenesApart, Sync!AimsInv, Sync!NamesInv, Sync!OwedInv, [Sync!Next]_Sync!syncVars
  PROVE  Sync!OwedInv'
<1>. DEFINE Quietly == /\ UNCHANGED <<syncCanvas, owed>>
                       /\ save' = Sync!Idle \/ UNCHANGED save
                       /\ owed # {} /\ (syncSession.dirty \/ syncSession.scene = Sync!NoScene)
                            => syncSession'.dirty \/ syncSession'.scene = Sync!NoScene
                       /\ \/ pull'["check"].step \in {"data asked", "data read"}
                               => pull["check"].step \in {"data asked", "data read"}
                          \/ ~syncSession.dirty /\ syncSession.scene # Sync!NoScene
<1>1. ASSUME Quietly PROVE Sync!OwedInv'
  <2>1. owed' \subseteq syncCanvas'
    BY <1>1 DEF Sync!OwedInv
  <2>2. /\ save'.step \in {"prepare", "commit"} => owed' \subseteq save'.snap
        /\ save'.step = "answered" /\ save'.answer = "saved" => owed' = {}
    BY <1>1, SyncValues DEF Sync!OwedInv
  <2>3. owed' # {} => syncSession'.dirty \/ syncSession'.scene = Sync!NoScene
    BY <1>1 DEF Sync!OwedInv
  <2>4. pull'["check"].step \in {"data asked", "data read"} => owed' = {}
    BY <1>1 DEF Sync!OwedInv
  <2>. QED
    BY <2>1, <2>2, <2>3, <2>4 DEF Sync!OwedInv
<1>2. ASSUME UNCHANGED Sync!syncVars \/ Sync!KeepLocal \/ Sync!RenameSent
             \/ \E s \in Scene : Sync!OtherSaves(s) \/ Sync!OtherDeletes(s)
      PROVE  Quietly
  BY <1>2 DEF Sync!syncVars, Sync!KeepLocal, Sync!RenameSent, Sync!OtherSaves, Sync!OtherDeletes
<1>3. ASSUME Sync!RenameLands PROVE Quietly
  BY <1>3, LandsEffect
<1>4. ASSUME Sync!Reload PROVE Quietly
  BY <1>4, SyncValues DEF Sync!Reload
<1>5. ASSUME NEW s \in Scene, Sync!LoadStarts(s) PROVE Quietly
  BY <1>5, LoadsEffect
<1>6. ASSUME NEW f \in Pulls, Sync!PullFails(f) PROVE Quietly
  <2>1. pull'["check"] = pull["check"] \/ pull'["check"] = Sync!NoPull
    BY <1>6, FailsEffect DEF Pulls
  <2>. QED
    BY <1>6, <2>1, FailsEffect, SyncValues
<1>7. ASSUME Sync!CheckStarts PROVE Quietly
  BY <1>7, CheckStartsEffect
<1>8. ASSUME Sync!CheckDecides PROVE Quietly
  <2>1. \/ pull'["check"].step = "none"
        \/ syncSession.scene # Sync!NoScene /\ ~syncSession.dirty
    BY <1>8, DecidesEffect, SyncValues DEF Sync!ScenesApart
  <2>. QED
    BY <1>8, <2>1, DecidesEffect
<1>9. ASSUME NEW f \in Pulls, Sync!ServerAnswers(f) PROVE Quietly
  <2>1. UNCHANGED <<syncSession, syncCanvas, save, owed>>
    BY <1>9, AnswersEffect
  <2>2. pull'["check"].step \in {"data asked", "data read"}
          => pull["check"].step \in {"data asked", "data read"}
    <3>1. CASE f = "check"
      BY <1>9, <3>1, AnswersEffect
    <3>2. CASE f # "check"
      BY <1>9, <3>2, AnswersEffect DEF Pulls
    <3>. QED
      BY <3>1, <3>2
  <2>. QED
    BY <2>1, <2>2
<1>10. ASSUME NEW f \in Pulls, Sync!Apply(f) PROVE Sync!OwedInv'
  <2>1. pull'["check"] = pull["check"] \/ pull'["check"] = Sync!NoPull
    BY <1>10, AppliesEffect DEF Pulls
  <2>2. CASE UNCHANGED <<syncSession, syncCanvas, save, dialog, descends, owed>>
    <3>1. Quietly
      BY <2>1, <2>2, SyncValues
    <3>. QED
      BY <1>1, <3>1
  <2>3. CASE owed' = {}
    BY <2>3 DEF Sync!OwedInv
  <2>. QED
    BY <1>10, <2>2, <2>3, AppliesEffect
<1>11. ASSUME Sync!SaveRefused \/ Sync!SaveFails PROVE Quietly
  <2>1. UNCHANGED <<syncCanvas, owed, pull>> /\ save' = Sync!Idle
    BY <1>11 DEF Sync!SaveRefused, Sync!SaveFails
  <2>2. \/ syncSession' = syncSession \/ syncSession' = Sync!NoSession
        \/ syncSession' = [syncSession EXCEPT !.dirty = TRUE]
    BY <1>11 DEF Sync!SaveRefused, Sync!SaveFails, Sync!MarkDirty
  <2>3. syncSession' = syncSession \/ syncSession'.scene = Sync!NoScene \/ syncSession'.dirty
    BY <2>2, DirtyType, SyncValues
  <2>. QED
    BY <2>1, <2>3
<1>12. ASSUME Sync!SaveLands PROVE Sync!OwedInv'
  <2>1. UNCHANGED <<syncCanvas, owed>> /\ save' = Sync!Idle /\ owed = {}
    BY <1>12 DEF Sync!SaveLands, Sync!OwedInv
  <2>. QED
    BY <2>1, SyncValues DEF Sync!OwedInv
<1>13. ASSUME NEW mode \in {"auto", "create"}, Sync!SaveStarts(mode) PROVE Sync!OwedInv'
  <2>1. /\ UNCHANGED <<syncSession, syncCanvas, pull, owed>> /\ save'.step = "prepare"
        /\ save'.snap = syncCanvas
    BY <1>13, StartsEffect
  <2>. QED
    BY <2>1 DEF Sync!OwedInv
<1>14. ASSUME Sync!SaveAims PROVE Sync!OwedInv'
  <2>1. UNCHANGED <<syncSession, syncCanvas, pull, owed>> /\ save.step = "prepare"
    BY <1>14, AimsEffect
  <2>2. save' = Sync!Idle \/ (save'.step = "commit" /\ save'.snap = save.snap)
    BY <1>14, AimsEffect
  <2>. QED
    BY <2>1, <2>2, SyncValues DEF Sync!OwedInv
<1>15. ASSUME Sync!SaveCommits PROVE Sync!OwedInv'
  <2>1. /\ UNCHANGED <<syncSession, syncCanvas, pull>> /\ save'.step = "answered" /\ save.step = "commit"
        /\ \/ save'.answer # "saved" /\ owed' = owed
           \/ owed' = owed \ save.snap
    BY <1>15, CommitsEffect
  <2>2. CASE save'.answer # "saved" /\ owed' = owed
    BY <2>1, <2>2 DEF Sync!OwedInv
  <2>3. CASE owed' = owed \ save.snap
    <3>1. owed' = {}
      BY <2>1, <2>3 DEF Sync!OwedInv
    <3>. QED
      BY <3>1 DEF Sync!OwedInv
  <2>. QED
    BY <2>1, <2>2, <2>3
<1>16. ASSUME Sync!Edit PROVE Sync!OwedInv'
  <2>1. PICK e : /\ syncCanvas' = syncCanvas \union {e}
                 /\ owed' = IF Sync!InFlight THEN owed ELSE owed \union {e}
    BY <1>16 DEF Sync!Edit
  <2>2. /\ UNCHANGED <<row, save, pull>>
        /\ syncSession' = IF syncSession.scene # Sync!NoScene THEN [syncSession EXCEPT !.dirty = TRUE] ELSE syncSession
    BY <1>16 DEF Sync!Edit, Sync!MarkDirty
  <2>3. syncSession'.dirty \/ syncSession'.scene = Sync!NoScene
    BY <2>2, DirtyType
  <2>4. CASE Sync!InFlight
    <3>1. owed' = owed /\ syncCanvas \subseteq syncCanvas'
      BY <2>1, <2>4
    <3>. QED
      BY <2>2, <2>3, <3>1 DEF Sync!OwedInv
  <2>5. CASE ~Sync!InFlight
    <3>1. save = Sync!Idle /\ pull["check"] = Sync!NoPull
      BY <2>5 DEF Sync!InFlight
    <3>2. owed' \subseteq syncCanvas'
      BY <2>1, <2>5 DEF Sync!OwedInv
    <3>. QED
      BY <2>2, <2>3, <3>1, <3>2, SyncValues DEF Sync!OwedInv
  <2>. QED
    BY <2>4, <2>5
<1>. HIDE DEF Quietly
<1>. QED
  BY <1>1, <1>2, <1>3, <1>4, <1>5, <1>6, <1>7, <1>8, <1>9, <1>10, <1>11, <1>12, <1>13, <1>14,
     <1>15, <1>16 DEF Sync!Next, Pulls

-----------------------------------------------------------------------------
(* The invariant starts and stays.                                          *)
LEMMA SyncStarts ==
  ASSUME Sync!ScenesApart, Sync!Init
  PROVE  Sync!SyncInv
<1>1. /\ syncCanvas = {} /\ save = Sync!Idle /\ pull = [f \in Pulls |-> Sync!NoPull] /\ rename = Sync!NoVersion
      /\ dialog = Sync!NoScene /\ used = [edits |-> 0, mishaps |-> 0]
      /\ descends = (syncSession.rev = 1) /\ owed = {}
      /\ row \in [Scene -> {Sync!NewRow, [state |-> "live", rev |-> 1, edits |-> {}]}]
  BY DEF Sync!Init, Pulls
<1>2. \/ syncSession = Sync!NoSession
      \/ \E s \in Scene, r \in 0..1 : Sync!Live(s) /\ syncSession = [scene |-> s, rev |-> r, dirty |-> FALSE]
  BY DEF Sync!Init
<1>3. [state |-> "live", rev |-> 1, edits |-> {}] \in Rows
  BY DEF Rows
<1>4. syncSession \in Sessions /\ (syncSession.scene # Sync!NoScene => syncSession.scene \in Scene /\ Sync!Live(syncSession.scene))
      /\ (syncSession.scene = Sync!NoScene => syncSession.rev = 0)
  <2>1. CASE syncSession = Sync!NoSession
    BY <2>1, SyncValues DEF Sync!NoSession
  <2>2. ASSUME NEW s \in Scene, NEW r \in 0..1, Sync!Live(s),
               syncSession = [scene |-> s, rev |-> r, dirty |-> FALSE]
        PROVE  syncSession \in Sessions /\ syncSession.scene \in Scene /\ Sync!Live(syncSession.scene)
    <3>1. r \in Nat /\ syncSession.scene = s
      BY <2>2
    <3>2. syncSession \in Sessions
      BY <2>2, <3>1 DEF Sessions
    <3>. QED
      BY <2>2, <3>1, <3>2
  <2>. QED
    BY <1>2, <2>1, <2>2 DEF Sync!ScenesApart
<1>5. Sync!Shapes
  <2>1. used \in [edits : Nat, mishaps : Nat]
    BY <1>1
  <2>2. row \in [Scene -> Rows] /\ pull \in [Pulls -> Fetches]
    BY <1>1, <1>3, SyncValues
  <2>3. descends \in BOOLEAN
    BY <1>1
  <2>. QED
    BY <1>1, <1>4, <2>1, <2>2, <2>3, SyncShapes, SyncValues
<1>6. Sync!AimsInv
  BY <1>1, SyncValues DEF Sync!AimsInv, Pulls
<1>7. Sync!NamesInv
  <2>. SUFFICES ASSUME NEW s \in Scene, row[s].state \in {"unused", "draft"}
                PROVE  /\ syncSession.scene # s /\ dialog # s /\ rename.scene # s
                       /\ \A f \in Pulls : pull[f].at.scene # s
                       /\ row[s].state # "draft" /\ save.at.scene # s
    BY DEF Sync!NamesInv, Pulls
  <2>1. row[s].state # "draft"
    BY <1>1, SyncValues
  <2>2. syncSession.scene # s
    BY <1>4 DEF Sync!Live, Sync!ScenesApart
  <2>. QED
    BY <1>1, <2>1, <2>2, SyncValues DEF Sync!ScenesApart
<1>8. Sync!HeldInv
  <2>1. Sync!CanvasHeld
    <3>. SUFFICES ASSUME syncSession.rev = 1
                  PROVE  syncSession.rev # 0 /\ Sync!Held(row, rename, syncSession.scene, syncSession.rev, syncCanvas)
      BY <1>1 DEF Sync!CanvasHeld
    <3>1. PICK s \in Scene : s = syncSession.scene /\ row[s].state = "live"
      BY <1>4 DEF Sync!Live
    <3>2. row[s] \in {Sync!NewRow, [state |-> "live", rev |-> 1, edits |-> {}]}
      BY <1>1
    <3>3. row[s].rev = 1 /\ row[s].edits = {}
      BY <3>1, <3>2, SyncValues
    <3>4. Sync!Held(row, rename, s, row[s].rev, syncCanvas)
      BY <1>5, <3>3, HeldNow, SyncShapes
    <3>. QED
      BY <3>1, <3>3, <3>4
  <2>2. Sync!SnapHeld /\ Sync!SavedHeld
    BY <1>1, SyncValues DEF Sync!SnapHeld, Sync!SavedHeld
  <2>3. Sync!PullHeld /\ Sync!RenameBehind
    BY <1>1, SyncValues DEF Sync!PullHeld, Sync!RenameBehind, Pulls, Sync!ScenesApart
  <2>. QED
    BY <2>1, <2>2, <2>3 DEF Sync!HeldInv
<1>9. Sync!OwedInv
  BY <1>1, SyncValues DEF Sync!OwedInv, Pulls
<1>. QED
  BY <1>5, <1>6, <1>7, <1>8, <1>9 DEF Sync!SyncInv

LEMMA SyncStep ==
  ASSUME Sync!ScenesApart, Sync!SyncInv, [Sync!Next]_Sync!syncVars
  PROVE  Sync!SyncInv'
<1>1. Sync!Shapes'
  BY SyncTypesStay DEF Sync!SyncInv
<1>. QED
  BY <1>1, AimsStay, NamesStay, HeldStay, OwedStay DEF Sync!SyncInv, Sync!HeldInv

(* Only a save takes an edit away from a row, and only one that is not its  *)
(* snapshot's own.                                                          *)
LEMMA LosesOnlyByAdoption ==
  ASSUME Sync!ScenesApart, Sync!SyncInv, [Sync!Next]_Sync!syncVars
  PROVE  Sync!LosesByAdoption
<1>. SUFFICES ASSUME NEW s \in Scene, Sync!Loses(s)
              PROVE  save.step = "commit" /\ save.at.scene = s /\ ~save.own
  BY DEF Sync!LosesByAdoption
<1>1. /\ Sync!Shapes /\ Sync!AimsInv /\ Sync!NamesInv /\ Sync!HeldInv /\ row \in [Scene -> Rows]
      /\ row[s].state = "live" /\ row'[s].state = "live" /\ ~(row[s].edits \subseteq row'[s].edits)
  BY SyncShapes DEF Sync!SyncInv, Sync!Loses, Sync!Live
<1>2. CASE LeavesRows
  BY <1>1, <1>2, LeftRows, SyncValues DEF RowsLeft
<1>3. CASE Sync!SaveAims
  <2>1. row'[s] = row[s]
    BY <1>1, <1>3, AimsEffect, SyncValues
  <2>. QED
    BY <1>1, <2>1
<1>4. CASE Sync!RenameSent
  <2>1. row'[s].edits = row[s].edits
    BY <1>1, <1>4, RenamesEffect
  <2>. QED
    BY <1>1, <2>1
<1>5. ASSUME NEW x \in Scene, Sync!OtherSaves(x) PROVE FALSE
  <2>1. row[s].edits \subseteq row'[s].edits
    BY <1>1, <1>5, OthersSaveEffect
  <2>. QED
    BY <1>1, <2>1
<1>6. CASE Sync!SaveCommits
  <2>1. save.step = "commit" /\ save.at.scene \in Scene
    BY <1>1, <1>6, CommitsEffect
  <2>2. PICK r \in Nat \ {0} :
          /\ row' = [row EXCEPT ![save.at.scene] = [state |-> "live", rev |-> r, edits |-> save.snap]]
          /\ row[save.at.scene].rev = save.at.rev
    BY <1>1, <1>6, CommitsEffect
  <2>3. save.at.scene = s /\ row'[s].edits = save.snap
    BY <1>1, <2>1, <2>2
  <2>4. ASSUME save.own PROVE FALSE
    <3>1. Sync!Held(row, rename, save.at.scene, save.at.rev, save.snap)
      BY <1>1, <2>1, <2>4 DEF Sync!HeldInv, Sync!SnapHeld
    <3>2. row[s].edits \subseteq save.snap
      BY <1>1, <2>2, <2>3, <3>1 DEF Sync!Held
    <3>. QED
      BY <1>1, <2>3, <3>2
  <2>. QED
    BY <2>1, <2>3, <2>4
<1>. QED
  BY <1>2, <1>3, <1>4, <1>5, <1>6, NextIsQuietOrWrites

(* A check that asked for the scene asked when nothing was owed.            *)
LEMMA RefreshesOnlyClean ==
  ASSUME Sync!SyncInv
  PROVE  Sync!RefreshesClean
<1>1. ASSUME Sync!Apply("check") PROVE owed = {}
  <2>1. pull["check"].step = "data read"
    BY <1>1 DEF Sync!Apply
  <2>. QED
    BY <2>1 DEF Sync!SyncInv, Sync!OwedInv
<1>. QED
  BY <1>1 DEF Sync!RefreshesClean

\* Of SceneSync by itself: a save takes an edit of another device out of a scene only when
\* it is sent with a revision that its snapshot does not descend from; and a check that
\* replaces the canvas without asking throws away nothing but what was stored, or drawn
\* during a save or a fetch (use-cloud-upload, use-scene-remote-revision-check).
THEOREM EditsHeld ==
  ASSUME Sync!ScenesApart
  PROVE  Sync!Spec => []Sync!SyncInv /\ Sync!LockProtects /\ Sync!RefreshKeepsWork
<1>1. Sync!Init => Sync!SyncInv
  BY SyncStarts
<1>2. Sync!SyncInv /\ [Sync!Next]_Sync!syncVars => Sync!SyncInv'
  BY SyncStep
<1>3. Sync!SyncInv /\ [Sync!Next]_Sync!syncVars => Sync!LosesByAdoption /\ Sync!RefreshesClean
  BY LosesOnlyByAdoption, RefreshesOnlyClean
<1>. QED
  BY <1>1, <1>2, <1>3, PTL DEF Sync!Spec, Sync!LockProtects, Sync!RefreshKeepsWork
=============================================================================
