----------------------------- MODULE RelayFanout -----------------------------
(***************************************************************************)
(* The rooms of one relay process: who is in them, what every member is    *)
(* told, and how a socket leaves.                                          *)
(*                                                                         *)
(* The process has one thread and every event handler runs to completion,  *)
(* but it runs through callbacks that call back: delivering a membership   *)
(* list to a slow member closes that member, which leaves the room, which  *)
(* delivers a newer list to the members that are left, one of which may be *)
(* slow too, all inside the loop that was still delivering the first one.  *)
(* `stack` holds the loops that are in progress, the innermost first.  An  *)
(* event is accepted only when it is empty.                                *)
(*                                                                         *)
(* What a socket's outbound buffer holds is between the network and the    *)
(* peer: each delivery to a joined connection may find it over budget.     *)
(***************************************************************************)
EXTENDS Naturals, FiniteSets, Sequences

CONSTANTS
  Conns,           \* sockets; a closed one may be used for a new connection
  Channels,        \* rooms, by channel key
  Silent,          \* the sockets whose peer may vanish without a word
  NoRoom,          \* the membership of a connection that is in none
  MaxConnections,  \* limits.maxConnections
  MaxRooms,        \* limits.maxRooms
  MaxPerRoom       \* limits.maxConnectionsPerRoom

ASSUME LimitAssumption == MaxConnections \in Nat /\ MaxRooms \in Nat /\ MaxPerRoom \in Nat
ASSUME NoRoomAssumption == NoRoom \notin Channels
ASSUME ConnsAssumption == IsFiniteSet(Conns) /\ IsFiniteSet(Channels)

VARIABLES
  sock,        \* readyState of the socket
  conn,        \* what the relay makes of it
  membership,  \* the room a connection has joined
  members,     \* the fanout's rooms
  view,        \* the last membership list sent to the socket
  records,     \* disconnects recorded for the connection, oldest first
  ping,        \* the socket's heartbeat state
  gone,        \* the peer is there no more, and nothing has told the relay
  draining,
  stack

rooms == <<membership, members>>
vars  == <<sock, conn, rooms, view, records, ping, gone, draining, stack>>

\* A refused socket never had a connection; an ended connection has been released.
ConnStates == {"none", "refused", "open", "ended"}
\* isAlive, then !isAlive, then terminationReason = "heartbeatTimeout".
PingStates == {"answered", "pending", "missed"}

Live(c)   == conn[c] = "open"
Tracked   == {c \in Conns : sock[c] # "closed"}
Served    == {c \in Tracked : conn[c] # "refused"}
OpenRooms == {r \in Channels : members[r] # {}}

\* A loop, or what is left of a handler.  to: the members to visit; list: what a
\* membership broadcast announces; all: a publish's recipients when it began; sent:
\* those it has reached.
Frame == [op : {"peers", "scene", "presence", "joined", "close", "revoke", "drain"},
          room : Channels \cup {NoRoom}, to : SUBSET Conns, list : SUBSET Conns,
          stale : BOOLEAN, sent : SUBSET Conns]
Loop(op, r, to, list) ==
  [op |-> op, room |-> r, to |-> to, list |-> list, stale |-> FALSE, sent |-> {}]

Idle == stack = <<>>
Top  == Head(stack)
Rest == Tail(stack)
Running(op) == ~Idle /\ Top.op = op
\* Mutation: a member that cannot be written to is tried again.
AfterRetry(c) ==
  <<[Top EXCEPT !.to = IF sock[c] = "open" THEN @ \ {c} ELSE @]>> \o Rest

\* The innermost loop once it has dealt with c, over what encloses it.
After(c) == <<[Top EXCEPT !.to = @ \ {c}]>> \o Rest

Init ==
  /\ sock = [c \in Conns |-> "closed"]
  /\ conn = [c \in Conns |-> "none"]
  /\ membership = [c \in Conns |-> NoRoom]
  /\ members = [r \in Channels |-> {}]
  /\ view = [c \in Conns |-> {}]
  /\ records = [c \in Conns |-> <<>>]
  /\ ping = [c \in Conns |-> "answered"]
  /\ gone = [c \in Conns |-> FALSE]
  /\ draining = FALSE
  /\ stack = <<>>

-----------------------------------------------------------------------------
(* Leaving.                                                                *)

\* Mutation: a broadcast goes on after the membership it announces has changed.
MarkStaleNever(r, st) == st

\* membershipVersion moved on: the broadcasts of r that are in progress will stop.
MarkStale(r, st) ==
  [i \in DOMAIN st |->
     IF st[i].op = "peers" /\ st[i].room = r THEN [st[i] EXCEPT !.stale = TRUE]
                                              ELSE st[i]]

\* Mutation: the connection ends, its place in the room stays taken.
ReleaseKeepsMember(c, st) ==
  /\ conn' = [conn EXCEPT ![c] = "ended"]
  /\ membership' = [membership EXCEPT ![c] = NoRoom]
  /\ view' = [view EXCEPT ![c] = {}]
  /\ stack' = st
  /\ UNCHANGED members

\* release, with fanout.leave: the room's other members are told, st runs after that.
Release(c, st) ==
  /\ conn' = [conn EXCEPT ![c] = "ended"]
  /\ membership' = [membership EXCEPT ![c] = NoRoom]
  /\ view' = [view EXCEPT ![c] = {}]
  /\ LET r == membership[c] IN
     IF r = NoRoom
     THEN UNCHANGED members /\ stack' = st
     ELSE LET left == members[r] \ {c} IN
          /\ members' = [members EXCEPT ![r] = left]
          /\ stack' = (IF left = {} THEN <<>> ELSE <<Loop("peers", r, left, left)>>)
                      \o MarkStale(r, st)

Record(c, why) == records' = [records EXCEPT ![c] = Append(@, why)]

\* end: record, release, and only then close the socket.
End(c, why, st) ==
  /\ Record(c, why)
  /\ Release(c, <<Loop("close", NoRoom, {c}, {})>> \o st)

Undisturbed == UNCHANGED <<conn, rooms, view, records>>

-----------------------------------------------------------------------------
(* The loops.                                                              *)

Writable(c) == Live(c) /\ sock[c] = "open"

\* A joiner that has not been acknowledged has received next to nothing.
MayBeSlow(c) == membership[c] # NoRoom

\* One turn of broadcastPeers: the next member, through its deliverPeers, or the end
\* of the loop.
StepPeers ==
  /\ Running("peers")
  /\ \/ (Top.stale \/ Top.to = {}) /\ stack' = Rest /\ Undisturbed
     \/ ~Top.stale /\ \E c \in Top.to :
          \/ ~Writable(c) /\ stack' = After(c) /\ Undisturbed
          \/ Writable(c) /\ MayBeSlow(c) /\ End(c, "slowConsumer", After(c))
          \/ /\ Writable(c)
             /\ view' = [view EXCEPT ![c] = Top.list]
             /\ stack' = After(c)
             /\ UNCHANGED <<conn, rooms, records>>
  /\ UNCHANGED <<sock, ping, gone, draining>>

Delivered(c) == <<[After(c)[1] EXCEPT !.sent = @ \cup {c}]>> \o Rest

\* Mutation: backpressure drops a scene frame, as it does a presence frame.
PublishDrops(c) ==
  LET reachable == c \in members[Top.room] /\ Writable(c) IN
  \/ stack' = After(c) /\ Undisturbed
  \/ reachable /\ stack' = Delivered(c) /\ Undisturbed

\* publish, for one recipient: not in the room any more or not writable, over the
\* budget of its channel, or sent to.
PublishTo(c) ==
  LET reachable == c \in members[Top.room] /\ Writable(c) IN
  \/ (~reachable \/ Top.op = "presence") /\ stack' = After(c) /\ Undisturbed
  \/ reachable /\ Top.op = "scene" /\ End(c, "slowConsumer", After(c))
  \/ reachable /\ stack' = Delivered(c) /\ Undisturbed

StepPublish ==
  /\ Running("scene") \/ Running("presence")
  /\ \/ Top.to = {} /\ stack' = Rest /\ Undisturbed
     \/ \E c \in Top.to : PublishTo(c)
  /\ UNCHANGED <<sock, ping, gone, draining>>

\* The rest of a join, once the room has been told: the membership and the
\* acknowledgment, which carries the members there are now.
StepJoined ==
  /\ Running("joined")
  /\ \E c \in Top.to :
       /\ membership' = [membership EXCEPT ![c] = Top.room]
       /\ view' = [view EXCEPT ![c] = members[Top.room]]
  /\ stack' = Rest
  /\ UNCHANGED <<sock, conn, members, records, ping, gone, draining>>

\* socket.close at the end of `end`.
StepClose ==
  /\ Running("close")
  /\ sock' = [c \in Conns |-> IF c \in Top.to THEN "closing" ELSE sock[c]]
  /\ stack' = Rest
  /\ UNCHANGED <<conn, rooms, view, records, ping, gone, draining>>

\* The next socket of closeMatching, or of the drain's second phase.
StepCloseAll ==
  /\ Running("revoke") \/ Running("drain")
  /\ \/ Top.to = {} /\ stack' = Rest /\ Undisturbed
     \/ \E c \in Top.to :
          \/ ~Live(c) /\ stack' = After(c) /\ Undisturbed
          \/ Live(c) /\ End(c, IF Top.op = "drain" THEN "relayRestarting" ELSE "ended",
                            After(c))
  /\ UNCHANGED <<sock, ping, gone, draining>>

Step == StepPeers \/ StepPublish \/ StepJoined \/ StepClose \/ StepCloseAll

-----------------------------------------------------------------------------
(* The events.                                                             *)

\* server.clients.size > maxConnections, where the size counts the new socket too.
AtCapacity == Cardinality(Tracked) >= MaxConnections

\* A socket arrives.  ws tracks it already, and a refused one until it closes.
Connect(c) ==
  /\ Idle /\ sock[c] = "closed"
  /\ ping' = [ping EXCEPT ![c] = "answered"]
  /\ gone' = [gone EXCEPT ![c] = FALSE]
  /\ IF draining \/ AtCapacity
     THEN /\ sock' = [sock EXCEPT ![c] = "closing"]
          /\ conn' = [conn EXCEPT ![c] = "refused"]
          /\ records' = [records EXCEPT ![c] =
               <<IF draining THEN "relayRestarting" ELSE "ended">>]
     ELSE /\ sock' = [sock EXCEPT ![c] = "open"]
          /\ conn' = [conn EXCEPT ![c] = "open"]
          /\ records' = [records EXCEPT ![c] = <<>>]
  /\ UNCHANGED <<rooms, view, draining, stack>>

\* A handler or one of the connection's timers ends it: a protocol violation, a
\* refused token or role, a rate budget, the join deadline, the idle budget, the room's
\* expiry.  None of them depends on the others here.
CloseConnection(c) ==
  /\ Idle /\ Live(c)
  /\ End(c, "ended", <<>>)
  /\ UNCHANGED <<sock, ping, gone, draining>>

RoomFull(r)  == Cardinality(members[r]) >= MaxPerRoom
RelayFull(r) == members[r] = {} /\ Cardinality(OpenRooms) >= MaxRooms

\* A join with a token that verifies and that nothing has revoked.
HandleJoin(c, r) ==
  /\ Idle /\ Writable(c) /\ membership[c] = NoRoom
  /\ IF RoomFull(r) \/ RelayFull(r)
     THEN End(c, "ended", <<>>)
     ELSE /\ members' = [members EXCEPT ![r] = @ \cup {c}]
          /\ stack' = <<Loop("peers", r, members[r], members'[r]),
                        Loop("joined", r, {c}, {})>>
          /\ UNCHANGED <<conn, membership, view, records>>
  /\ UNCHANGED <<sock, ping, gone, draining>>

\* An accepted data frame: publish snapshots its recipients.
HandleFrame(c, kind) ==
  /\ Idle /\ Writable(c) /\ membership[c] # NoRoom
  /\ LET to == members[membership[c]] \ {c} IN
     stack' = <<Loop(kind, membership[c], to, to)>>
  /\ UNCHANGED <<sock, conn, rooms, view, records, ping, gone, draining>>

\* closeMatching, for the sessions of r that a revocation or a room end outranks.
Revoke(r, cs) ==
  /\ Idle /\ cs # {} /\ cs \subseteq {c \in Conns : membership[c] = r}
  /\ stack' = <<Loop("revoke", r, cs, {})>>
  /\ UNCHANGED <<sock, conn, rooms, view, records, ping, gone, draining>>

\* The peer starts a close handshake: the socket is not writable any more, and the
\* connection has not heard of it.
PeerCloses(c) ==
  /\ Idle /\ sock[c] = "open" /\ ~gone[c]
  /\ sock' = [sock EXCEPT ![c] = "closing"]
  /\ UNCHANGED <<conn, rooms, view, records, ping, gone, draining, stack>>

\* The peer, or the path to it, is gone without a word.
PeerVanishes(c) ==
  /\ Idle /\ sock[c] = "open" /\ ~gone[c] /\ c \in Silent
  /\ gone' = [gone EXCEPT ![c] = TRUE]
  /\ UNCHANGED <<sock, conn, rooms, view, records, ping, draining, stack>>

\* The socket's close event: handleSocketClosed.
SocketClosed(c) ==
  /\ Idle /\ sock[c] # "closed"
  /\ sock' = [sock EXCEPT ![c] = "closed"]
  /\ IF Live(c)
     THEN /\ Record(c, IF ping[c] = "missed" THEN "heartbeatTimeout" ELSE "ended")
          /\ Release(c, <<>>)
     ELSE UNCHANGED stack /\ Undisturbed
  /\ UNCHANGED <<ping, gone, draining>>

Pong(c) ==
  /\ Idle /\ sock[c] # "closed" /\ ~gone[c] /\ ping[c] = "pending"
  /\ ping' = [ping EXCEPT ![c] = "answered"]
  /\ UNCHANGED <<sock, conn, rooms, view, records, gone, draining, stack>>

\* Mutation: a ping that was not answered is sent again.
HeartbeatRepeats ==
  /\ Idle
  /\ ping' = [c \in Conns |-> IF c \in Served THEN "pending" ELSE ping[c]]
  /\ UNCHANGED <<sock, conn, rooms, view, records, gone, draining, stack>>

\* One turn of the heartbeat interval: terminate what has not answered, ping the rest.
Heartbeat ==
  /\ Idle
  /\ LET dead == {c \in Served : ping[c] # "answered"} IN
     /\ ping' = [c \in Conns |-> IF c \in dead THEN "missed"
                                 ELSE IF c \in Served THEN "pending" ELSE ping[c]]
     /\ sock' = [c \in Conns |-> IF c \in dead THEN "closing" ELSE sock[c]]
  /\ UNCHANGED <<conn, rooms, view, records, gone, draining, stack>>

\* Mutation: each socket is closed in turn, together with its connection.
DrainInOnePhase ==
  /\ Idle /\ ~draining
  /\ draining' = TRUE
  /\ stack' = <<Loop("drain", NoRoom, Served, {})>>
  /\ UNCHANGED <<sock, conn, rooms, view, records, ping, gone>>

\* drain: every socket stops being writable first, then each connection is closed.
Drain ==
  /\ Idle /\ ~draining
  /\ draining' = TRUE
  /\ sock' = [c \in Conns |-> IF c \in Tracked THEN "closing" ELSE "closed"]
  /\ stack' = <<Loop("drain", NoRoom, Served, {})>>
  /\ UNCHANGED <<conn, rooms, view, records, ping, gone>>

Event ==
  \/ \E c \in Conns :
       \/ Connect(c) \/ CloseConnection(c) \/ PeerCloses(c) \/ PeerVanishes(c)
       \/ SocketClosed(c) \/ Pong(c)
       \/ \E r \in Channels : HandleJoin(c, r)
       \/ \E kind \in {"scene", "presence"} : HandleFrame(c, kind)
  \/ \E r \in Channels, cs \in SUBSET Conns : Revoke(r, cs)
  \/ Heartbeat \/ Drain

Next == Step \/ Event

Spec == Init /\ [][Next]_vars

\* A handler runs to its end.  The event loop comes round to its due timers and to the
\* closed sockets however busy the other sockets keep it: the heartbeat interval keeps
\* ticking, and a closing socket is given up (the close timeout of ws, the refusal grace,
\* terminate).  Strong fairness, for between two turns of the loop other handlers run.
\* Nothing is assumed of the peers.
FairSpec ==
  /\ Spec
  /\ WF_vars(Step)
  /\ SF_vars(Heartbeat)
  /\ \A c \in Conns : SF_vars(sock[c] = "closing" /\ SocketClosed(c))

-----------------------------------------------------------------------------
(* What the relay promises.                                                *)

TypeOK ==
  /\ sock \in [Conns -> {"closed", "open", "closing"}]
  /\ conn \in [Conns -> ConnStates]
  /\ membership \in [Conns -> Channels \cup {NoRoom}]
  /\ members \in [Channels -> SUBSET Conns]
  /\ view \in [Conns -> SUBSET Conns]
  /\ records \in [Conns -> Seq({"ended", "slowConsumer", "heartbeatTimeout",
                                "relayRestarting"})]
  /\ ping \in [Conns -> PingStates]
  /\ gone \in [Conns -> BOOLEAN]
  /\ draining \in BOOLEAN
  /\ stack \in Seq(Frame)

\* Between events the rooms hold exactly the live connections that joined them, and
\* only tracked sockets have one: whatever cascade closed a connection, its place is
\* not leaked (release, fanout.join, fanout.leave).
RoomsMatchConnections ==
  Idle => /\ \A c \in Conns : Live(c) => sock[c] # "closed"
          /\ \A c \in Conns, r \in Channels :
               c \in members[r] <=> Live(c) /\ membership[c] = r

\* Between events every member that can be written to has last been told exactly the
\* members there are, however many lists one event has sent it (broadcastPeers: the
\* outdated broadcast aborts).
ViewsConverge ==
  Idle => \A c \in Conns :
            Writable(c) /\ membership[c] # NoRoom => view[c] = members[membership[c]]

\* A disconnect is recorded exactly once, whichever close path or cascade ran first
\* (recordClose in end and in handleSocketClosed, release).
ClosedOnce ==
  \A c \in Conns : Len(records[c]) = IF conn[c] \in {"ended", "refused"} THEN 1 ELSE 0

\* The limits hold at every instant, cascades included (the capacity checks of the
\* connection handler and of the join).
WithinLimits ==
  /\ \A r \in Channels : Cardinality(members[r]) <= MaxPerRoom
  /\ Cardinality(OpenRooms) <= MaxRooms
  /\ Cardinality(Served) <= MaxConnections

\* The relay's records of its rooms and connections agree, within its limits.
RoomsSound == TypeOK /\ RoomsMatchConnections /\ ClosedOnce /\ WithinLimits

\* No silent gap in the scene channel: when a scene frame has been published, every
\* member it was published to has been sent it, or can be sent nothing any more, and
\* will come back through recovery (publish, deliverData).
SceneNotSkipped ==
  Running("scene") /\ Top.to = {} => \A c \in Top.list \ Top.sent : ~Writable(c)

\* Whatever disconnect is recorded from the start of a drain on is attributed to the
\* restart: no slow consumer, missed heartbeat or late timer is first (drain).
DrainAttributed ==
  [][draining => \A c \in Conns :
       records'[c] # records[c] => records'[c] = <<"relayRestarting">>]_vars

\* Every event is handled to its end: the cascades terminate.
CascadesEnd == ~Idle ~> Idle

\* A peer that has gone silently gives its place up: the heartbeat finds it.
GoneIsReleased == \A c \in Conns : gone[c] /\ Live(c) ~> ~Live(c)
=============================================================================
