------------------------------- MODULE WirePath -------------------------------
(* The path of a message: the join that opens it, with a token the backend   *)
(* signs and the relay verifies, and every check a message passes between    *)
(* the canvas that sends it and the one that applies it.  Releases differ    *)
(* in the version of the protocol they speak.                                *)
EXTENDS Integers

CONSTANTS Client, Room,
          Budget,                 \* per channel: MAX_SCENE_MESSAGE_BYTES, MAX_PRESENCE_MESSAGE_BYTES
          Overhead, Header,       \* of a sealed frame, of a data frame
          Lifetime, MaxLifetime,  \* of a join token
          Skew,                   \* ROOM_TOKEN_CLOCK_SKEW_SECONDS
          MaxTime, MaxSessions, MaxMessages, MaxMishaps    \* bounds

VARIABLES clock,
          relay,      \* [version, secret, ahead]: its clock is ahead of the backend's
          backend,    \* [secret, gen, role]: the tokens it signs
          client,
          wire,       \* data frames under way, up to the relay or down to a client
          spoilt,     \* history: what went wrong with an accepted message or a good token
          used
vars == <<clock, relay, backend, client, wire, spoilt, used>>

Channels == {"scene", "presence"}
Type == {"scene-update", "presence"}
ChannelOf(type) == IF type = "presence" THEN "presence" ELSE "scene"        \* messageChannelOf
MaxSealed(channel) == Budget[channel] + Overhead                            \* maxSealedFrameBytesFor
MaxFrame(channel) == MaxSealed(channel) + Header                            \* maxRelayDataFrameBytesFor
CanEdit(role) == role \in {"owner", "editor"}                               \* roomRoleCanEditScene
NoDraft == [type |-> "none"]
NoToken == [aud |-> "none"]

(* disconnectReasonForCloseCode, and the reasons that are retried.          *)
Reason(code) ==
  CASE code = "unauthorized" -> "unauthorized"
    [] code \in {"protocolViolation", "readOnlyRole"} -> "protocol"
    [] code = "unsupportedProtocolVersion" -> "unsupported-protocol-version"
    [] OTHER -> "transient"
Retried == {"idle", "transient", "unauthorized"}

Init ==
  /\ clock = 0 /\ wire = {} /\ spoilt = {}
  /\ relay \in [version : {1, 2}, secret : {1}, ahead : -Skew..Skew]
  /\ backend \in [secret : {1}, gen : {1}, role : [Client -> {"editor", "viewer"}]]
  /\ client = [c \in Client |-> [version |-> 1, stage |-> "out", room |-> "none", gen |-> 0, role |-> "viewer",
                                token |-> NoToken, session |-> 0, reason |-> "idle", draft |-> NoDraft]]
  /\ used = [sessions |-> 0, messages |-> 0, mishaps |-> 0]
Mishap == used.mishaps < MaxMishaps /\ used' = [used EXCEPT !.mishaps = @ + 1]

(* teardown, onclose: what was under way on the connection is gone.         *)
Closed(c, reason) ==
  [client EXCEPT ![c].stage = "out", ![c].reason = reason, ![c].token = NoToken, ![c].session = 0]
WireWithout(cs) == {f \in wire : f.conn \notin {client[c].session : c \in cs}}

(***************************************************************************)
(* The token and the join.                                                  *)
(***************************************************************************)
(* signJoinToken.                                                           *)
Sign(c, room) == [aud |-> "join", secret |-> backend.secret, rid |-> room, gen |-> backend.gen,
                  role |-> backend.role[c], iat |-> clock, exp |-> clock + Lifetime]
(* checkLifetime, verifyJoinToken.                                          *)
Lives(token) ==
  /\ token.exp > token.iat /\ token.exp - token.iat <= MaxLifetime
  /\ clock + relay.ahead + Skew >= token.iat /\ clock + relay.ahead < token.exp + Skew
Verified(token, room) ==
  /\ token.secret = relay.secret                        \* verifySignedPayload
  /\ token.aud = "join" /\ Lives(token) /\ token.rid = room

(* connect, with a token fetched for it; a session keeps the generation its *)
(* key was derived for.                                                     *)
Connect(c, room) ==
  /\ client[c].stage = "out" /\ client[c].reason \in Retried
  /\ client[c].reason = "idle" \/ client[c].room = room
  /\ used.sessions < MaxSessions /\ used' = [used EXCEPT !.sessions = @ + 1]
  /\ client' = IF client[c].reason # "idle" /\ client[c].gen # backend.gen
               THEN [client EXCEPT ![c].reason = "rotated"]
               ELSE [client EXCEPT ![c].stage = "connecting", ![c].room = room, ![c].gen = backend.gen,
                                   ![c].token = Sign(c, room), ![c].session = used.sessions + 1, ![c].reason = "idle"]
  /\ UNCHANGED <<clock, relay, backend, wire, spoilt>>

(* unsupportedJoinProtocolVersionOf: older only.                            *)
Outdated(version) == version < relay.version
(* handleTextFrame of the relay, and the close or the notice at the client. *)
Join(c) ==
  /\ client[c].stage = "connecting" /\ UNCHANGED <<clock, relay, backend, wire, used>>
  /\ client' =
       IF client[c].version # relay.version          \* relayJoinRequestSchema
       THEN Closed(c, Reason(IF Outdated(client[c].version) THEN "unsupportedProtocolVersion"
                             ELSE "protocolViolation"))
       ELSE IF ~Verified(client[c].token, client[c].room) THEN Closed(c, Reason("unauthorized"))
       ELSE [client EXCEPT ![c].stage = "in", ![c].role = client[c].token.role]
  /\ spoilt' = spoilt \cup
       IF /\ client'[c].reason = "unauthorized"
          /\ client[c].token.secret = relay.secret /\ clock < client[c].token.exp
       THEN {"turned away"} ELSE {}

(* disconnect, or a connection lost.                                        *)
Disconnect(c) ==
  /\ client[c].stage # "out" /\ wire' = WireWithout({c}) /\ UNCHANGED <<clock, relay, backend, spoilt>>
  /\ \/ client' = [Closed(c, "idle") EXCEPT ![c].draft = NoDraft] /\ UNCHANGED used
     \/ client' = Closed(c, Reason("none")) /\ Mishap

(***************************************************************************)
(* A message.                                                               *)
(***************************************************************************)
(* What the canvas makes of its state, for the session it was made in.      *)
Draft(c, type, size, fits) ==
  /\ client[c].stage = "in" /\ client[c].draft = NoDraft
  /\ used.messages < MaxMessages /\ used' = [used EXCEPT !.messages = @ + 1]
  /\ client' = [client EXCEPT ![c].draft = [type |-> type, size |-> size, fits |-> fits,
                                            room |-> client[c].room, session |-> client[c].session]]
  /\ UNCHANGED <<clock, relay, backend, wire, spoilt>>

(* encodeCollaborationMessage: fits is what the schema of the message says. *)
Encodes(message) == message.fits /\ message.size <= Budget[ChannelOf(message.type)]
(* additionalDataFor: the key and the label a frame is sealed under.        *)
Label(c, channel) == [room |-> client[c].room, gen |-> client[c].gen, version |-> client[c].version, channel |-> channel]
(* send: of a live session, of a role that may, of this session, encoded,   *)
(* sealed and framed.                                                       *)
Accepts(c) ==
  LET message == client[c].draft IN
  /\ client[c].stage = "in"
  /\ ChannelOf(message.type) = "scene" => CanEdit(client[c].role)
  /\ message.session = client[c].session /\ message.room = client[c].room
  /\ Encodes(message)
Send(c) ==
  LET message == client[c].draft
      channel == ChannelOf(message.type)
  IN /\ message # NoDraft /\ client' = [client EXCEPT ![c].draft = NoDraft]
     /\ wire' = IF ~Accepts(c) THEN wire
                ELSE wire \cup {[way |-> "up", at |-> c, conn |-> client[c].session, channel |-> channel,
                                 seal |-> Label(c, channel), message |-> message,
                                 size |-> message.size + Overhead + Header, mixed |-> FALSE]}
     /\ UNCHANGED <<clock, relay, backend, spoilt, used>>

(* The server's maxPayload, then handleBinaryFrame: a refusal closes the    *)
(* connection, anything else goes to the rest of the room's generation.     *)
Refusal(f) ==
  IF f.size > MaxFrame("scene") THEN "1009"
  ELSE IF f.channel = "scene" /\ ~CanEdit(client[f.at].role) THEN "readOnlyRole"
  ELSE IF f.size > MaxFrame(f.channel) THEN "protocolViolation" ELSE "none"
Relay(f) ==
  LET c == f.at
      others == {d \in Client \ {c} : client[d].stage = "in" /\ client[d].room = client[c].room
                                     /\ client[d].gen = client[c].gen}
  IN /\ f.way = "up" /\ UNCHANGED <<clock, relay, backend, used>>
     /\ IF Refusal(f) # "none"
        THEN /\ client' = Closed(c, Reason(Refusal(f))) /\ wire' = WireWithout({c})
             /\ spoilt' = spoilt \cup {"refused by the relay"}
        ELSE /\ wire' = (wire \ {f}) \cup {[f EXCEPT !.way = "down", !.at = d, !.conn = client[d].session] : d \in others}
             /\ UNCHANGED <<client, spoilt>>

(* open of the codec, decodeCollaborationMessage.                           *)
Opens(f) ==
  /\ f.seal = Label(f.at, f.channel)
  /\ f.size - Header <= MaxSealed(f.channel)
Decodes(f) ==
  /\ f.message.size <= Budget[f.channel] /\ f.seal.version = client[f.at].version
  /\ f.message.fits /\ ChannelOf(f.message.type) = f.channel
Receive(f) ==
  /\ f.way = "down" /\ wire' = wire \ {f} /\ UNCHANGED <<clock, relay, backend, client, used>>
  /\ spoilt' = spoilt \cup
       IF Opens(f) /\ Decodes(f)
       THEN IF f.mixed THEN {"delivered elsewhere"} ELSE {}
       ELSE IF f.mixed THEN {} ELSE {"refused by a peer"}

(***************************************************************************)
(* Faults and releases.                                                     *)
(***************************************************************************)
(* A frame that comes out on another channel or at another client.          *)
Mix(f) ==
  /\ f.way = "down" /\ ~f.mixed /\ Mishap
  /\ \E c \in Client, channel \in Channels :
       /\ client[c].stage = "in" /\ (c # f.at \/ channel # f.channel)
       /\ c = f.at \/ client[c].room # client[f.at].room \/ client[c].gen # client[f.at].gen
       /\ wire' = (wire \ {f}) \cup {[f EXCEPT !.at = c, !.conn = client[c].session, !.channel = channel, !.mixed = TRUE]}
  /\ UNCHANGED <<clock, relay, backend, client, spoilt>>
(* The page is loaded again, the relay is replaced, a secret is changed on  *)
(* one side, the room's generation is rotated.                              *)
Reload(c) ==
  /\ client[c].stage = "out" /\ \E v \in {1, 2} :
       /\ v >= client[c].version
       /\ client' = [client EXCEPT ![c].version = v, ![c].reason = "idle", ![c].draft = NoDraft]
  /\ UNCHANGED <<clock, relay, backend, wire, spoilt, used>>
Deploy ==
  /\ \E next \in [version : {relay.version, 2}, secret : {1, 2}, ahead : {relay.ahead}] : next # relay /\ relay' = next
  /\ Mishap /\ wire' = {} /\ UNCHANGED <<clock, backend, spoilt>>
  /\ client' = [c \in Client |-> IF client[c].stage = "out" THEN client[c]
                                 ELSE Closed(c, Reason("relayRestarting"))[c]]
ChangeBackend ==
  /\ \/ backend.secret = 1 /\ backend' = [backend EXCEPT !.secret = 2] /\ Mishap
     \/ backend.gen = 1 /\ backend' = [backend EXCEPT !.gen = 2] /\ UNCHANGED used
  /\ UNCHANGED <<clock, relay, client, wire, spoilt>>
Tick == clock < MaxTime /\ clock' = clock + 1 /\ UNCHANGED <<relay, backend, client, wire, spoilt, used>>

Next ==
  \/ \E c \in Client :
       \/ \E room \in Room : Connect(c, room)
       \/ Join(c) \/ Disconnect(c) \/ Send(c) \/ Reload(c)
       \/ \E type \in Type, over \in {0, 1}, fits \in BOOLEAN : Draft(c, type, Budget[ChannelOf(type)] + over, fits)
  \/ \E f \in wire : Relay(f) \/ Receive(f) \/ Mix(f)
  \/ Deploy \/ ChangeBackend \/ Tick

(***************************************************************************)
TypeOK ==
  /\ clock \in 0..MaxTime
  /\ \A c \in Client : client[c].stage \in {"out", "connecting", "in"} /\ client[c].version \in {1, 2}
  /\ \A f \in wire : f.way \in {"up", "down"} /\ f.channel \in Channels

(* What the sender's transport accepts is refused nowhere, by no bound, no  *)
(* version and no role, and reaches nothing but its own channel, room and   *)
(* generation, mixed up or not; and a token that has not expired, under the *)
(* secret both sides hold, opens its room though their clocks differ.       *)
AcceptedArrives == spoilt = {}

(* Who is in a room speaks what the relay speaks, so its members understand *)
(* one another, through a rollout of either side.                           *)
OneVersion == \A c \in Client : client[c].stage = "in" => client[c].version = relay.version

(* Only a page older than the relay is told to reload, and no such page is  *)
(* told that it is broken.                                                  *)
ToldTheTruth ==
  \A c \in Client :
    /\ client[c].reason = "unsupported-protocol-version" => client[c].version < relay.version
    /\ client[c].reason = "protocol" => client[c].version = 2

WireSound == AcceptedArrives /\ OneVersion /\ ToldTheTruth

(***************************************************************************)
(* The invariant the proof of WireSound goes by (RoomKeys_proofs).          *)
(***************************************************************************)
\* A token lives for some time, and no longer than the relay lets it; presence is the
\* smaller of the two budgets.
WireBounds ==
  /\ Lifetime \in Nat /\ MaxLifetime \in Nat /\ Skew \in Nat
  /\ 0 < Lifetime /\ Lifetime <= MaxLifetime
  /\ Budget \in [Channels -> Nat] /\ Budget["presence"] <= Budget["scene"]
  /\ Overhead \in Nat /\ Header \in Nat

Roles == {"editor", "viewer"}
Rooms == Room \cup {"none"}
Drafts == [type : Type, size : Int, fits : BOOLEAN, room : Rooms, session : Nat]
Tokens == [aud : {"join"}, secret : {1, 2}, rid : Room, gen : {1, 2}, role : Roles, iat : Int, exp : Int]
ClientState ==
  [version : {1, 2}, stage : {"out", "connecting", "in"}, room : Rooms, gen : 0..2, role : Roles,
   token : Tokens \cup {NoToken}, session : Nat,
   reason : Retried \cup {"protocol", "unsupported-protocol-version", "rotated"},
   draft : Drafts \cup {NoDraft}]
Frames == [way : {"up", "down"}, at : Client, conn : Nat, channel : Channels,
           seal : [room : Rooms, gen : 0..2, version : {1, 2}, channel : Channels],
           message : Drafts, size : Int, mixed : BOOLEAN]

WireShapes ==
  /\ clock \in Nat /\ used \in [sessions : Nat, messages : Nat, mishaps : Nat]
  /\ relay \in [version : {1, 2}, secret : {1, 2}, ahead : -Skew..Skew]
  /\ backend \in [secret : {1, 2}, gen : {1, 2}, role : [Client -> Roles]]
  /\ client \in [Client -> ClientState] /\ wire \in SUBSET Frames

\* A client that connects has a token for the room, not from the future; one that is in
\* speaks the relay's version.
ClientSound(n, version, now) ==
  /\ n.session = 0 <=> n.stage = "out"
  /\ n.stage = "connecting" =>
       /\ n.reason = "idle" /\ n.token \in Tokens /\ n.token.rid = n.room
       /\ n.token.exp = n.token.iat + Lifetime /\ n.token.iat <= now
  /\ n.stage = "in" => n.version = version /\ n.reason = "idle"
  /\ n.reason = "unsupported-protocol-version" => n.version < version
  /\ n.reason = "protocol" => n.version = 2

\* A frame under way belongs to a client that is in, on the connection it has; it is within
\* its budget, and carries the label of where it is unless it was mixed up.
FrameSound(f, n) ==
  /\ n.stage = "in" /\ f.conn = n.session
  /\ f.message.fits /\ f.message.size <= Budget[ChannelOf(f.message.type)]
  /\ f.size = f.message.size + Overhead + Header
  /\ f.mixed <=> f.seal # [room |-> n.room, gen |-> n.gen, version |-> n.version, channel |-> f.channel]
  /\ ~f.mixed => f.channel = ChannelOf(f.message.type)
  /\ f.way = "up" => ~f.mixed /\ (f.channel = "scene" => CanEdit(n.role))

WireInv ==
  /\ WireShapes /\ spoilt = {}
  /\ \A c \in Client : ClientSound(client[c], relay.version, clock)
  /\ \A f \in wire : FrameSound(f, client[f.at])
=============================================================================
