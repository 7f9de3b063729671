---------------------------- MODULE ClientSession ----------------------------
(***************************************************************************)
(* The collaboration session of one browser tab: its connection attempts   *)
(* and what ends them, the join barrier, and the stored baseline that      *)
(* races a peer's snapshot and a deadline to open it.                      *)
(*                                                                         *)
(* The tab has one thread, so a handler runs to its end, with every        *)
(* handler it calls: an action is one event.  What it awaits settles in a  *)
(* later event, when anything may have happened in between: the token of   *)
(* the next attempt (`refresh`), the stored snapshot (`loads`), the        *)
(* reconnect timer, the baseline deadline, the socket.                     *)
(*                                                                         *)
(* attemptEpoch and joinEpoch are counters that are only compared for      *)
(* equality with the value noted when the work began.  Such work is        *)
(* "current" until the counter moves, and "stale" for ever after.          *)
(***************************************************************************)
EXTENDS Recovery

VARIABLES
  recovery,  \* the recovery machine
  tab,       \* the session, its timers and what it awaits
  world,     \* what the backend would answer, and the nonce budget of the key
  writes     \* flips with every write of remote elements onto the canvas

vars == <<recovery, tab, world, writes>>

\* What a load of the stored snapshot was begun for: the join, a lost conditional
\* write or an overflowed join, the release of a barrier that stopped the session.
Loads == {"join", "reload", "late"}

\* The transport: no connection, socket opened, joined, or closed for good.
Sockets == {"none", "opening", "joined", "closed"}

Tab == [
  timer      : BOOLEAN,                      \* reconnect timer armed
  refresh    : SUBSET {"current", "stale"},  \* token requests in flight
  socket     : Sockets,
  token      : {"own", "moved"},             \* generation the last token was minted at
  connected  : BOOLEAN,                      \* connected # undefined
  editor     : BOOLEAN,                      \* the role of the socket
  barrier    : {"none", "holding", "overflowed"},
  deadline   : {"none", "current", "stale"},
  loads      : SUBSET (Loads \cup {"stale"}),
  revision   : {"unknown", "current", "stale"}, \* of which join the cadence knows the baseline
  hasSynced  : BOOLEAN,
  offline    : {"none", "delta", "full"},    \* what the offline queue would answer
  subscribed : BOOLEAN,
  terminated : BOOLEAN,
  destroyed  : BOOLEAN]

World == [access : {"member", "removed", "ended"}, rotated : BOOLEAN, exhausted : BOOLEAN]

Both == [r : RecoveryState, t : Tab]

Stopped(t) == t.destroyed \/ t.terminated
CanEdit(t) == t.connected /\ t.editor

Init ==
  /\ recovery = InitialRecovery
  /\ tab = [timer |-> FALSE, refresh |-> {}, socket |-> "none", token |-> "own",
            connected |-> FALSE, editor |-> TRUE, barrier |-> "none", deadline |-> "none",
            loads |-> {}, revision |-> "unknown", hasSynced |-> FALSE, offline |-> "none",
            subscribed |-> TRUE, terminated |-> FALSE, destroyed |-> FALSE]
  /\ world = [access |-> "member", rotated |-> FALSE, exhausted |-> FALSE]
  /\ writes = 0

(***************************************************************************)
(* What the handlers share.  Each takes and returns s, the machine and the *)
(* tab together: [r, t].                                                   *)
(***************************************************************************)
\* Mutation: a token request survives what supersedes it.
AttemptEpochKept(t) == t

AttemptEpochMoves(t) ==
  [t EXCEPT !.refresh = IF @ = {} THEN {} ELSE {"stale"}]

JoinEpochMoves(t) ==
  [t EXCEPT !.loads = IF @ = {} THEN {} ELSE {"stale"},
            !.deadline = IF @ = "none" THEN "none" ELSE "stale"]

DisposeBarrier(t) == [t EXCEPT !.barrier = "none", !.deadline = "none"]

\* Mutation: the teardown forgets the join epoch.
TerminateKeepsLoads(s) ==
  [s EXCEPT !.t = [DisposeBarrier(AttemptEpochMoves(s.t)) EXCEPT
     !.timer = FALSE, !.socket = "closed", !.connected = FALSE, !.offline = "none",
     !.subscribed = FALSE, !.terminated = TRUE]]

\* terminate and the session's teardown, then releaseRoomResources when the phase is
\* announced: the transport is closed, and no callback runs because the session has
\* unsubscribed first.
Terminate(s) ==
  [s EXCEPT !.t = [DisposeBarrier(JoinEpochMoves(AttemptEpochMoves(s.t))) EXCEPT
     !.timer = FALSE, !.socket = "closed", !.connected = FALSE, !.offline = "none",
     !.subscribed = FALSE, !.terminated = TRUE]]

FailRecovery(s, reason) == Terminate([s EXCEPT !.r = Fail(s.r, reason)])

HandleConnectionLoss(s, reason) ==
  LET n == [s EXCEPT !.r = Lost(s.r, reason)]
  IN  CASE n.r.phase = "failed"  -> Terminate(n)
        [] n.r.phase = "waiting" -> [n EXCEPT !.t.timer = TRUE]
        [] OTHER                 -> n

\* The session's handler of a disconnected state; an unsubscribed session hears nothing.
OnDisconnected(s, reason) ==
  IF ~s.t.subscribed THEN s
  ELSE HandleConnectionLoss(
         [s EXCEPT !.t = [DisposeBarrier(s.t) EXCEPT !.connected = FALSE]], reason)

\* transport.disconnect, and the callback it makes when there was a connection.
TransportDisconnect(s) ==
  IF s.t.socket \notin {"opening", "joined"} THEN s
  ELSE OnDisconnected([s EXCEPT !.t.socket = "none"], "idle")

\* The single send at the end of a join: the whole scene, or the elements the baseline
\* lacked, if there are any (`pending`).  A send fails for good when the key's nonces
\* are spent.  An unreadable baseline, a failed session and a viewer send nothing.
PublishAfterBaseline(s, knowledge, pending) ==
  IF knowledge = "unreadable" \/ s.r.phase = "failed" \/ ~CanEdit(s.t) THEN s
  ELSE LET drained == [s EXCEPT !.t.offline = "none"]
           whole   == ~s.t.hasSynced \/ knowledge = "unknown" \/ s.t.offline = "full"
       IN  IF (whole \/ pending) /\ world.exhausted
           THEN FailRecovery(drained, "crypto-exhausted")
           ELSE drained

\* Opens the barrier with a baseline.  A session that may not publish re-reads the
\* store when its buffer overflowed, also when the publish has just stopped it.
ReleaseBarrier(s, knowledge, pending) ==
  IF s.t.barrier = "none" THEN s
  ELSE LET opened == [r |-> IF s.r.phase = "syncing" THEN Synced(s.r) ELSE s.r,
                      t |-> DisposeBarrier(s.t)]
           sent   == PublishAfterBaseline(opened, knowledge, pending)
           again  == s.t.barrier = "overflowed" /\ ~CanEdit(sent.t)
       IN  [sent EXCEPT
              !.t.hasSynced = TRUE,
              !.t.loads = IF again THEN @ \cup {IF sent.t.terminated THEN "late" ELSE "reload"}
                                   ELSE @]

Apply(s) == recovery' = s.r /\ tab' = s.t
Now      == [r |-> recovery, t |-> tab]
Quietly  == UNCHANGED writes
Painted  == writes' = 1 - writes

(***************************************************************************)
(* Connection attempts.                                                    *)
(***************************************************************************)
\* connect(): idempotent while an attempt or a session exists.  The room session calls
\* it once; a session that recovery has stopped is not connected again by anyone.
Connect ==
  /\ ~Stopped(tab)
  /\ recovery.phase = "idle"
  /\ Apply([r |-> IF tab.socket = "none" THEN Start(recovery) ELSE Throw(recovery),
            t |-> [tab EXCEPT !.socket = IF @ = "none" THEN "opening" ELSE @]])
  /\ Quietly /\ UNCHANGED world

\* The reconnect timer fires: a new attempt epoch, and a token is asked for.
TimerFires ==
  /\ tab.timer
  /\ LET fired == [tab EXCEPT !.timer = FALSE]
     IN  IF Stopped(tab) THEN Apply([r |-> recovery, t |-> fired])
         ELSE Apply([r |-> Start(recovery),
                     t |-> [AttemptEpochMoves(fired) EXCEPT !.refresh = @ \cup {"current"}]])
  /\ Quietly /\ UNCHANGED world

\* What the backend can answer: a token at the generation there is, a refusal, or a
\* failure that says nothing.
Answers ==
  IF world.access # "member" THEN {"refused", "retry"}
  ELSE {IF world.rotated THEN "moved" ELSE "own", "retry"}

Refusal == IF world.access = "ended" THEN "room-ended" ELSE "membership-revoked"

\* A refreshed token opens the socket.  connect() throws on a transport that has a
\* connection or is closed.
OpenSocket(s, answer) ==
  IF s.t.socket # "none" THEN [s EXCEPT !.r = Throw(s.r)]
  ELSE [s EXCEPT !.t.socket = "opening", !.t.token = answer]

Refreshed(s, answer) ==
  CASE answer = "refused" -> FailRecovery(s, Refusal)
    [] answer = "retry"   -> HandleConnectionLoss(s, "transient")
    [] answer = "moved"   -> FailRecovery(s, "generation-rotated")
    [] OTHER              -> OpenSocket(s, answer)

RefreshSettles(epoch, answer) ==
  /\ epoch \in tab.refresh
  /\ answer \in Answers
  /\ LET settled == [Now EXCEPT !.t.refresh = @ \ {epoch}]
     IN  IF tab.destroyed \/ epoch # "current" THEN Apply(settled)
         ELSE Apply(Refreshed(settled, answer))
  /\ Quietly /\ UNCHANGED world

\* The relay acknowledges the join with a role: a new join epoch, a fresh barrier, its
\* deadline and the stored baseline.  A transport nobody listens to just joins.
Joined(editor) ==
  /\ tab.socket = "opening"
  /\ LET joined == [tab EXCEPT !.socket = "joined"]
     IN  IF ~tab.subscribed THEN Apply([r |-> recovery, t |-> joined])
         ELSE Apply([r |-> IF recovery.phase = "connecting" THEN Connected(recovery)
                           ELSE recovery,
                     t |-> [JoinEpochMoves(joined) EXCEPT
                              !.connected = TRUE, !.editor = editor,
                              !.barrier = "holding", !.deadline = "current",
                              !.loads = @ \cup {"join"}, !.revision = "unknown"]])
  /\ Quietly /\ UNCHANGED world

\* The socket goes away, for any reason the relay or the network may state.
SocketLost(reason) ==
  /\ tab.socket \in {"opening", "joined"}
  /\ reason # "idle"
  /\ reason = "room-ended" => world.access = "ended"
  /\ Apply(OnDisconnected([Now EXCEPT !.t.socket = "none"], reason))
  /\ Quietly /\ UNCHANGED world

(***************************************************************************)
(* The join baseline.                                                      *)
(***************************************************************************)
\* Held traffic goes over the buffer's bounds: it is dropped and a repair is owed.
HoldOverflows ==
  /\ tab.barrier = "holding"
  /\ Apply([Now EXCEPT !.t.barrier = "overflowed"])
  /\ Quietly /\ UNCHANGED world

\* The first snapshot of a peer is the baseline.
PeerSnapshot ==
  /\ tab.barrier # "none"
  /\ \E pending \in BOOLEAN : Apply(ReleaseBarrier(Now, "known", pending))
  /\ Painted /\ UNCHANGED world

\* Mutation: the deadline only gives up on an empty buffer.
DeadlineSparesOverflow ==
  /\ tab.deadline # "none"
  /\ LET fired == [Now EXCEPT !.t.deadline = "none"]
     IN  IF tab.deadline = "current" /\ tab.barrier # "overflowed"
         THEN Apply(ReleaseBarrier(fired, "unknown", TRUE))
         ELSE Apply(fired)
  /\ Quietly /\ UNCHANGED world

\* No baseline came in time.  The timer of an earlier join does nothing.
DeadlineFires ==
  /\ tab.deadline # "none"
  /\ LET fired == [Now EXCEPT !.t.deadline = "none"]
     IN  IF tab.deadline = "current" THEN Apply(ReleaseBarrier(fired, "unknown", TRUE))
         ELSE Apply(fired)
  /\ Quietly /\ UNCHANGED world

\* The cadence's knowledge of the stored revision comes from the load `load`.
Adopt(s, load) == [s EXCEPT !.t.revision = IF load = "stale" THEN "stale" ELSE "current"]

Current(load) == load # "stale"

\* The stored snapshot arrives and is merged into the canvas, barrier or not.
SnapshotLoaded(load, pending) ==
  /\ load \in tab.loads
  /\ LET settled == [Now EXCEPT !.t.loads = @ \ {load}]
     IN  IF tab.destroyed \/ ~Current(load) THEN Apply(settled) /\ Quietly
         ELSE Apply(ReleaseBarrier(Adopt(settled, load), "known", pending)) /\ Painted
  /\ UNCHANGED world

\* Nothing is stored: a baseline too, and nothing to merge.
SnapshotEmpty(load, pending) ==
  /\ load \in tab.loads
  /\ LET settled == [Now EXCEPT !.t.loads = @ \ {load}]
     IN  IF tab.destroyed \/ ~Current(load) THEN Apply(settled)
         ELSE Apply(ReleaseBarrier(Adopt(settled, load), "known", pending))
  /\ Quietly /\ UNCHANGED world

\* The stored snapshot cannot be had, or does not open: then the link's key is wrong and
\* recovery stops after the outcome has been reported.
SnapshotUnavailable(load, wrongKey) ==
  /\ load \in tab.loads
  /\ LET settled == [Now EXCEPT !.t.loads = @ \ {load}]
         unknown == [settled EXCEPT !.t.revision = "unknown"]
         opened  == ReleaseBarrier(unknown, IF wrongKey THEN "unreadable" ELSE "unknown", TRUE)
     IN  IF tab.destroyed \/ ~Current(load) THEN Apply(settled)
         ELSE Apply(IF wrongKey THEN FailRecovery(opened, "unreadable-room") ELSE opened)
  /\ Quietly /\ UNCHANGED world

\* The cadence lost a conditional write and re-learns the stored revision.
WriteConflicts ==
  /\ tab.connected /\ tab.barrier = "none" /\ ~Stopped(tab) /\ CanEdit(tab)
  /\ Apply([Now EXCEPT !.t.loads = @ \cup {"reload"}])
  /\ Quietly /\ UNCHANGED world

(***************************************************************************)
(* A session at work.                                                      *)
(***************************************************************************)
\* The session has been live for the stability window.
StablyLive ==
  /\ recovery.phase = "live" /\ ~recovery.stable
  /\ Apply([Now EXCEPT !.r = Settle(recovery)])
  /\ Quietly /\ UNCHANGED world

\* An edit while there is no connection is accounted for, up to the queue's bounds; what
\* it holds may also just get too old.
OfflineEdit ==
  /\ ~Stopped(tab) /\ ~tab.connected /\ tab.offline # "full"
  /\ \E verdict \in {"delta", "full"} :
       Apply([Now EXCEPT !.t.offline = verdict])
  /\ Quietly /\ UNCHANGED world

\* A peer's elements arrive while nothing holds them back.
RemoteElements ==
  /\ tab.connected /\ tab.subscribed /\ tab.barrier = "none"
  /\ Apply(Now) /\ Painted /\ UNCHANGED world

\* A flush is refused because the nonces of the key are spent.
SendRefused ==
  /\ world.exhausted /\ CanEdit(tab) /\ tab.barrier = "none" /\ ~Stopped(tab)
  /\ Apply(FailRecovery(Now, "crypto-exhausted"))
  /\ Quietly /\ UNCHANGED world

\* Frames arrived and none ever opened.
RoomUnreadable ==
  /\ tab.socket = "joined" /\ tab.subscribed /\ ~Stopped(tab)
  /\ Apply(FailRecovery(Now, "unreadable-room"))
  /\ Quietly /\ UNCHANGED world

(***************************************************************************)
(* The caller, and the world.                                              *)
(***************************************************************************)
\* disconnect(): recovery is disarmed before the socket goes away.
Disconnect ==
  /\ ~tab.destroyed
  /\ LET disarmed == [r |-> Stop(recovery),
                      t |-> [AttemptEpochMoves(tab) EXCEPT !.timer = FALSE, !.offline = "none"]]
     IN  Apply(TransportDisconnect(disarmed))
  /\ Quietly /\ UNCHANGED world

\* The room session's destroy(): the transport is closed first, which the session hears
\* as a disconnect and then as the end, and the session is destroyed after it.
Destroy ==
  /\ ~tab.destroyed
  /\ LET closed == TransportDisconnect(Now)
         ended  == AttemptEpochMoves(DisposeBarrier(closed.t))
     IN  Apply([r |-> Stop(closed.r),
                t |-> [ended EXCEPT !.timer = FALSE, !.socket = "closed",
                         !.connected = FALSE, !.offline = "none",
                         !.subscribed = FALSE, !.destroyed = TRUE]])
  /\ Quietly /\ UNCHANGED world

WorldMoves ==
  /\ \/ \E access \in {"removed", "ended"} :
          world.access = "member" /\ world' = [world EXCEPT !.access = access]
     \/ ~world.rotated /\ world' = [world EXCEPT !.rotated = TRUE]
     \/ ~world.exhausted /\ world' = [world EXCEPT !.exhausted = TRUE]
  /\ UNCHANGED <<recovery, tab, writes>>

RefreshAnswered == \E epoch \in {"current", "stale"}, answer \in {"own", "moved", "refused", "retry"} :
                     RefreshSettles(epoch, answer)
SocketSettles   == (\E editor \in BOOLEAN : Joined(editor))
                   \/ \E reason \in DisconnectReasons : SocketLost(reason)
LoadSettles     == \E load \in Loads \cup {"stale"} :
                     \/ \E pending \in BOOLEAN : SnapshotLoaded(load, pending)
                     \/ \E pending \in BOOLEAN : SnapshotEmpty(load, pending)
                     \/ \E wrongKey \in BOOLEAN : SnapshotUnavailable(load, wrongKey)

Next ==
  \/ Connect \/ TimerFires \/ RefreshAnswered \/ SocketSettles
  \/ HoldOverflows \/ PeerSnapshot \/ DeadlineFires \/ LoadSettles \/ WriteConflicts
  \/ StablyLive \/ OfflineEdit \/ RemoteElements \/ SendRefused \/ RoomUnreadable
  \/ Disconnect \/ Destroy \/ WorldMoves

\* Timers fire, a token request settles (a request that throws is a retry) and a socket
\* that is opening joins or fails.  Nothing is assumed of the store, the peers, the
\* network or the caller.
Fairness ==
  /\ WF_vars(TimerFires)
  /\ WF_vars(RefreshAnswered)
  /\ WF_vars(tab.socket = "opening" /\ SocketSettles)
  /\ WF_vars(DeadlineFires)

Spec == Init /\ [][Next]_vars /\ Fairness

(***************************************************************************)
(* Properties.                                                             *)
(***************************************************************************)
\* Every part of the state has its type (RecoveryState, the session's variables).
TypeOK ==
  /\ recovery \in RecoveryState
  /\ tab \in Tab
  /\ world \in World
  /\ writes \in 0..1

\* The work a session has in hand is the work of its phase, and no handler has called
\* into recovery or the transport when it throws: waiting has the timer, connecting one
\* token request or one socket, syncing and live one joined socket, syncing the barrier;
\* every socket was opened with a token of the generation the keys are derived from; and
\* the budget is never exceeded.  A session that has stopped has nothing in hand
\* (start, connected, synced, lost, handleConnectionLoss, reconnect, terminate, destroy).
WorkMatchesPhase ==
  LET requested == "current" \in tab.refresh
      opening   == tab.socket = "opening"
      joined    == tab.socket = "joined"
  IN  /\ ~recovery.illegal
      /\ recovery.attempt <= MaxAttempts
      /\ (opening \/ joined) => tab.token = "own"
      /\ tab.timer <=> recovery.phase = "waiting"
      /\ (requested \/ opening) <=> recovery.phase = "connecting"
      /\ ~(requested /\ opening)
      /\ joined <=> recovery.phase \in {"syncing", "live"}
      /\ tab.connected <=> joined
      /\ tab.barrier # "none" <=> recovery.phase = "syncing"
      /\ tab.deadline # "none" <=> recovery.phase = "syncing"
      /\ Stopped(tab) => recovery.phase \in {"idle", "failed"} /\ tab.socket = "closed"

\* The stored revision a session writes against is one it has loaded for the connection
\* it has, whatever loads of earlier ones settle late (loadDurableBaseline's epoch).
BaselineOfThisJoin == tab.revision # "stale"

\* Nothing that settles after a session stopped changes the canvas, which may be another
\* scene's by then.  The exception is the load that a viewer's repair begins: an editor
\* whose last send has just spent its nonces counts as a viewer (loadDurableBaseline,
\* teardown's joinEpoch, releaseBarrier).
StoppedLeavesCanvas ==
  [][Stopped(tab) /\ ~("late" \in tab.loads /\ ~tab.destroyed) => writes' = writes]_vars

\* Whatever settles late touches neither the revision nor the canvas.
LateLoadsHarmless == [](BaselineOfThisJoin) /\ StoppedLeavesCanvas

\* A session that loses its connection again and again gives up, unless it is stably
\* live or disconnected by its caller in between (attempt, liveStabilityMs, maxAttempts).
RetriesEnd ==
  []<>(recovery.phase = "waiting") =>
    \/ []<>(recovery.phase = "live" /\ recovery.stable)
    \/ []<>(recovery.phase = "idle")

\* The barrier does not hold the canvas for ever, whether or not the store and the
\* peers answer (openBarrier's deadline).
SyncingEnds == recovery.phase = "syncing" ~> recovery.phase # "syncing"
=============================================================================
