------------------------------- MODULE RoomSession -------------------------------
(***************************************************************************)
(* What one entry into a room builds around its session, from the first    *)
(* key that is derived to the effect's cleanup, and what of it is running: *)
(* subscriptions, timers, requests, the socket.  Whatever ends the session *)
(* must stop all of it, except the snapshot that is flushed on leaving.    *)
(*                                                                         *)
(* `running` holds what could still act.  A request that was abandoned by  *)
(* an epoch, an abort or a flag checked when it settles is no longer in    *)
(* it.  The retry budget, the tokens, the role and what the barrier holds  *)
(* are those of ClientSession.  Bound: MaxMoves losses, edits, scrolls and *)
(* changes of visibility.                                                  *)
(***************************************************************************)
EXTENDS Naturals

CONSTANT MaxMoves

VARIABLES tab, moves
vars == <<tab, moves>>

HostParts == {"states", "store", "download", "target", "visibility", "follows", "idle timer"}
SessionParts == {"subscription", "barrier", "baseline load", "cadence", "repair", "flush",
                 "cursor apply", "presence timer", "reconnect", "refresh"}

HostTab ==
       [build   : {"codec", "assets", "snapshots", "done", "failed"},
        wanted  : BOOLEAN,      \* the effect that asked for it has not been cleaned up
        session : {"none", "live", "terminated", "destroyed"},
        socket  : {"none", "off", "connecting", "joined", "closed"},
        running : SUBSET (HostParts \cup SessionParts \cup {"leave flush"}),
        heard   : BOOLEAN,      \* collaborators is not empty
        shown   : BOOLEAN,      \* their cursors are on the canvas
        idle    : {"active", "idle", "away"},
        hidden  : BOOLEAN,      \* the document is
        told    : BOOLEAN,      \* the host has heard of a change of it
        owns    : BOOLEAN,      \* canSyncScene: the canvas holds this room's scene
        late    : SUBSET {"scene", "images", "cursors"},  \* history: writes after the end
        dropped : BOOLEAN,      \* history: a flush that was owed was not made
        slipped : BOOLEAN]      \* history: the presence sent on joining ended the session

Init ==
  /\ tab \in [build : {"codec"}, wanted : {TRUE}, session : {"none"}, socket : {"none"},
              running : {{}}, heard : {FALSE}, shown : {FALSE}, idle : {"active"},
              hidden : BOOLEAN, told : {FALSE}, owns : {TRUE}, late : {{}}, dropped : {FALSE},
              slipped : {FALSE}]
  /\ moves = 0

Stopped(s) == s.session \in {"terminated", "destroyed"}
Ended(s) == Stopped(s) \/ s.build = "failed"

Is(part) == part \in tab.running
Stop(s, parts) == [s EXCEPT !.running = @ \ parts]
Run(s, parts) == [s EXCEPT !.running = @ \cup parts]
Write(s, what) ==
  IF Ended(s) \/ ~s.owns THEN [s EXCEPT !.late = @ \cup {what}] ELSE s

Becomes(s) == tab' = s /\ UNCHANGED moves
Moves(s) == moves < MaxMoves /\ moves' = moves + 1 /\ tab' = s

(***************************************************************************)
(* What ends a connection, a session, and everything.                       *)
(***************************************************************************)
ClearPresence(s) ==
  [Stop(s, {"cursor apply", "presence timer"}) EXCEPT !.heard = FALSE, !.shown = FALSE]

\* The session learns that its socket is gone; a load of the baseline goes on.
Disconnected(s) ==
  [ClearPresence(Stop(s, {"barrier", "cadence", "repair"})) EXCEPT !.socket = "off"]

\* The host's own: the session, if it still listens, hears that the transport is closed.
Release(s) ==
  LET heard == IF "subscription" \in s.running
               THEN Stop(Disconnected(s), {"reconnect"}) ELSE s
  IN  IF s.socket = "closed" THEN s
      ELSE [Stop(heard, HostParts) EXCEPT !.socket = "closed"]

Teardown(s) ==
  [ClearPresence(Stop(s, SessionParts))
     EXCEPT !.session = "terminated", !.socket = IF @ = "closed" THEN @ ELSE "off"]

\* A terminal state stops the session, and then what was built around it.
Terminate(s) == Release(Teardown(s))

\* What a publish asks for, the forced snapshot included, before anything is awaited.
\* Whether the stored revision is known is SnapshotCadence's.
MayPublish(s) ==
  /\ s.session = "live" /\ s.socket = "joined" /\ s.owns
  /\ "barrier" \notin s.running

Destroy(s) ==
  LET ended == [Stop(Release(s), SessionParts) EXCEPT !.session = "destroyed"]
  IN  IF MayPublish(s) THEN Run(ended, {"leave flush"}) ELSE ended

(***************************************************************************)
(* Building it.                                                             *)
(***************************************************************************)
\* The transport exists once its codec does.
CodecDerived ==
  /\ tab.build = "codec"
  /\ \/ Becomes([Run(tab, {"states"}) EXCEPT !.build = "assets", !.socket = "off"])
     \/ Becomes([tab EXCEPT !.build = "failed"])

Abandon(s) ==
  [Stop(s, {"states", "store", "download"}) EXCEPT !.build = "failed", !.socket = "closed"]

AssetKeysDerived ==
  /\ tab.build = "assets"
  /\ \/ Becomes([Run(tab, {"store"}) EXCEPT !.build = "snapshots"])
     \/ Becomes(Abandon(tab))

\* The session is made and connects, whether or not the document is in front; and a caller
\* that has gone destroys it at once.
Started(s) ==
  [Run(s, {"target", "visibility", "follows", "subscription", "idle timer"})
     EXCEPT !.build = "done", !.session = "live", !.socket = "connecting"]

SnapshotKeysDerived ==
  /\ tab.build = "snapshots"
  /\ \/ Becomes(IF tab.wanted THEN Started(tab) ELSE Destroy(Started(tab)))
     \/ Becomes(Abandon(tab))

(***************************************************************************)
(* The connection.                                                          *)
(***************************************************************************)
\* The presence that is sent on joining may be the one send too many for the key.  The
\* session then ends in the middle of this handler, which goes on to open the barrier.
Joined ==
  /\ tab.socket = "connecting"
  /\ LET s == [Stop(tab, {"presence timer"}) EXCEPT !.socket = "joined"]
         opened == {"barrier", "baseline load", "cadence"}
     IN  \/ Becomes(Run(s, opened))
         \/ Becomes([Run(Terminate(s), opened) EXCEPT !.slipped = TRUE])

Lost ==
  /\ tab.socket \in {"connecting", "joined"}
  /\ \/ Moves(Run(Disconnected(tab), {"reconnect"}))
     \/ Becomes(Terminate(Disconnected(tab)))

ReconnectFires == Is("reconnect") /\ Becomes(Run(Stop(tab, {"reconnect"}), {"refresh"}))

RefreshSettles ==
  /\ Is("refresh")
  /\ LET s == Stop(tab, {"refresh"}) IN
     \/ Becomes([s EXCEPT !.socket = "connecting"])
     \/ Becomes(Terminate(s))
     \/ Moves(Run(s, {"reconnect"}))

\* The transport finds that nothing in this room opens.
RoomUnreadable ==
  /\ tab.socket = "joined" /\ Is("subscription")
  /\ Becomes(Terminate(tab))

(***************************************************************************)
(* What the room, the stores and the timers bring.                          *)
(***************************************************************************)
\* It is applied only to a canvas that is the room's.
Apply(s, what) == IF s.owns THEN Write(s, what) ELSE s

BaselineSettles ==
  /\ Is("baseline load")
  /\ LET s == Stop(tab, {"baseline load"}) IN
     \/ Becomes(Stop(Apply(s, "scene"), {"barrier"}))
     \/ Becomes(Terminate(s))

BaselineTimeout == Is("barrier") /\ Becomes(Stop(tab, {"barrier"}))

\* Elements of a peer, and the images they need.
SceneArrives ==
  /\ Is("subscription") /\ tab.socket = "joined" /\ ~Is("barrier")
  /\ Becomes(IF tab.owns /\ Is("store") THEN Run(Apply(tab, "scene"), {"download"})
             ELSE Apply(tab, "scene"))

DownloadSettles ==
  /\ Is("download")
  /\ LET s == Stop(tab, {"download"})
     IN  Becomes(IF Is("target") /\ tab.session # "destroyed" THEN Apply(s, "images") ELSE s)

PresenceArrives ==
  /\ Is("subscription") /\ tab.socket = "joined"
  /\ Becomes([Run(tab, {"cursor apply"}) EXCEPT !.heard = TRUE])

CursorsApply ==
  /\ Is("cursor apply")
  /\ LET s == Stop(tab, {"cursor apply"})
     IN  Becomes(IF Stopped(s) THEN s ELSE [s EXCEPT !.shown = s.heard])

\* The last other member leaves.
PeersPruned ==
  /\ Is("subscription") /\ tab.socket = "joined" /\ tab.heard
  /\ Becomes([Stop(tab, {"cursor apply"}) EXCEPT !.heard = FALSE, !.shown = FALSE])

FlushFires ==
  /\ Is("flush")
  /\ LET s == Stop(tab, {"flush"})
     IN  \/ Becomes(IF MayPublish(tab) THEN Run(s, {"repair"}) ELSE s)
         \/ MayPublish(tab) /\ Becomes(Terminate(s))  \* crypto-exhausted

RepairFires == Is("repair") /\ Becomes(Run(Stop(tab, {"repair"}), {"flush"}))

PresenceTimerFires ==
  /\ Is("presence timer")
  /\ LET s == Stop(tab, {"presence timer"})
     IN  \/ Becomes(s)
         \/ tab.socket = "joined" /\ Becomes(Terminate(s))  \* crypto-exhausted

(***************************************************************************)
(* What the user does.                                                      *)
(***************************************************************************)
HasHandle == tab.build = "done" /\ tab.wanted

Edit ==
  /\ HasHandle /\ ~Stopped(tab)
  /\ Moves(Run(tab, {"flush"}))

Scroll ==
  /\ HasHandle /\ ~Stopped(tab) /\ tab.owns
  /\ Moves(Run(tab, {"presence timer"}))

\* setIdleState tells the room at once, and that send may be the one that ends the session.
Announce(s, idle, spent) ==
  IF Stopped(s) \/ s.idle = idle THEN s
  ELSE LET said == [s EXCEPT !.idle = idle]
       IN  IF spent /\ s.socket = "joined" THEN Terminate(said) ELSE said

\* The timer is started whether or not anything is left that it could tell.
MarkActive(s, spent) == Run(Announce(s, "active", spent), {"idle timer"})

PointerMoves ==
  /\ HasHandle /\ ~tab.hidden /\ (tab.idle # "active" \/ ~Is("idle timer"))
  /\ \E spent \in BOOLEAN : Becomes(MarkActive(tab, spent))

IdleTimerFires ==
  /\ Is("idle timer")
  /\ \E spent \in BOOLEAN : Becomes(Announce(Stop(tab, {"idle timer"}), "idle", spent))

VisibilityChanges ==
  LET s == [tab EXCEPT !.hidden = ~@, !.told = Is("visibility")]
  IN  /\ moves < MaxMoves /\ moves' = moves + 1
      /\ \E spent \in BOOLEAN :
           tab' = IF ~Is("visibility") THEN s
                  ELSE IF s.hidden THEN Announce(Stop(s, {"idle timer"}), "away", spent)
                  ELSE MarkActive(s, spent)

\* Another scene takes the canvas.
SwitchScene == HasHandle /\ tab.owns /\ Becomes([tab EXCEPT !.owns = FALSE])

\* The effect's cleanup: the handle is destroyed, and then the claim given up.
Leave ==
  /\ tab.wanted
  /\ LET s == IF tab.build = "done" THEN Destroy(tab) ELSE tab
         owed == tab.build = "done" /\ MayPublish(tab)
     IN  Becomes([s EXCEPT !.wanted = FALSE, !.owns = FALSE,
                           !.dropped = owed /\ "leave flush" \notin s.running])

FlushSettles == Is("leave flush") /\ Becomes(Stop(tab, {"leave flush"}))

Next ==
  \/ CodecDerived \/ AssetKeysDerived \/ SnapshotKeysDerived
  \/ Joined \/ Lost \/ ReconnectFires \/ RefreshSettles \/ RoomUnreadable
  \/ BaselineSettles \/ BaselineTimeout \/ SceneArrives \/ DownloadSettles
  \/ PresenceArrives \/ CursorsApply \/ PeersPruned \/ FlushFires \/ RepairFires
  \/ PresenceTimerFires \/ Edit \/ Scroll \/ PointerMoves \/ IdleTimerFires
  \/ VisibilityChanges \/ SwitchScene \/ Leave \/ FlushSettles

Spec == Init /\ [][Next]_vars

(***************************************************************************)
(* Properties.                                                              *)
(***************************************************************************)
TypeOK == tab \in HostTab /\ moves \in 0..MaxMoves

\* Once the session has ended, or its start failed, nothing of it can act but the flush on
\* leaving: no subscription, request or timer is left, and the socket is closed.  (A pointer
\* that moves while the failure is shown starts the idle timer, which then does nothing; a
\* session that ended while it joined is excluded, as the code goes on to open the barrier.)
EndedIsQuiet == Ended(tab) /\ ~tab.slipped =>
  /\ tab.running \subseteq {"leave flush", "idle timer"}
  /\ tab.socket \in {"none", "closed"}

\* Nothing of the room is written on a canvas that is no longer the room's; the session
\* that ended while it joined still loads the stored scene.
NothingWrittenLate == ~tab.slipped => tab.late = {}

\* Cursors are shown only while the room is joined, and no apply is left to bring them back.
CursorsAreLive == tab.shown \/ "cursor apply" \in tab.running => tab.socket = "joined"

\* Leaving a room that is joined and read flushes the snapshot, whatever is released then.
LeavingFlushes == ~tab.dropped

\* A member who looks elsewhere is announced as away once the host has heard of it, one
\* who looks at the room is not, and one who is active has the timer that ends it.
IdleIsTrue == tab.session = "live" /\ tab.build = "done" =>
  /\ tab.told => (tab.hidden = (tab.idle = "away"))
  /\ ~tab.hidden => tab.idle # "away"
  /\ ~tab.hidden /\ tab.idle = "active" => "idle timer" \in tab.running

RoomSessionSound ==
  EndedIsQuiet /\ NothingWrittenLate /\ CursorsAreLive /\ LeavingFlushes /\ IdleIsTrue

(***************************************************************************)
(* The invariant the proof of RoomSessionSound goes by (RoomEntry_proofs). *)
(***************************************************************************)
\* While it is being built there is no more of it than was built.
Building(s) == s.session = "none" =>
  /\ s.build # "done" /\ s.running \subseteq {"states", "store"} /\ ~s.slipped
  /\ s.socket \in {"none", "off", "closed"} /\ ~s.told /\ s.idle = "active"
  /\ s.build \in {"codec", "failed"} => s.running = {} /\ s.socket \in {"none", "closed"}
  /\ s.build = "assets" => "store" \notin s.running

\* A session that lives listens, to its transport and to the document; between two
\* connections it waits, for the next attempt or for its token.
Living(s) == s.session = "live" =>
  /\ s.build = "done" /\ ~s.slipped /\ s.socket \in {"off", "connecting", "joined"}
  /\ {"subscription", "visibility"} \subseteq s.running
  /\ s.running \cap {"reconnect", "refresh"} # {} => s.socket = "off"
  /\ ~({"reconnect", "refresh"} \subseteq s.running)

\* What joining opens after the end of the session is all that is left of it.
Leftover(s) ==
  {"leave flush", "idle timer"} \cup (IF s.slipped THEN {"barrier", "baseline load", "cadence"} ELSE {})
Over(s) == Stopped(s) =>
  s.build = "done" /\ s.running \subseteq Leftover(s) /\ s.socket = "closed"

CursorsLive(s) == s.shown \/ "cursor apply" \in s.running => s.socket = "joined"

Watching(s) == s.session = "live" =>
  /\ s.told => (s.hidden = (s.idle = "away"))
  /\ ~s.hidden => s.idle # "away"
  /\ ~s.hidden /\ s.idle = "active" => "idle timer" \in s.running
  /\ s.hidden /\ s.told => "idle timer" \notin s.running

Orderly(s) ==
  /\ s \in HostTab /\ Building(s) /\ Living(s) /\ Over(s) /\ CursorsLive(s) /\ Watching(s)
  /\ ~s.slipped => s.late = {}
  /\ ~s.dropped

SessionInv == Orderly(tab) /\ moves \in Nat
===============================================================================
