----------------------------- MODULE RelayTransport -----------------------------
(***************************************************************************)
(* The relay transport of one client (relay-client.ts, relay-protocol.ts   *)
(* and the codec of realtime-crypto.ts in packages/collaboration).         *)
(*                                                                         *)
(* Sealing and opening are asynchronous.  Each channel of a connection     *)
(* hands its frames on one after another, in both directions, within a     *)
(* budget; what a former connection left behind is passed over.  Frames    *)
(* are numbered in the order they were sealed; the relay may deliver one   *)
(* again, and some were sealed under another key.  Sizes are abstracted to *)
(* a number of frames.                                                     *)
(*                                                                         *)
(* Bounds: MaxFrames sealed by others for a channel, MaxArrivals of them   *)
(* admitted, MaxConnections, and the limits of the code: MaxInbound,       *)
(* MaxBuffered, MaxSealed, Threshold.                                      *)
(***************************************************************************)
EXTENDS Naturals, Sequences, FiniteSets, SequencesExt

CONSTANTS MaxFrames, MaxArrivals, MaxConnections, MaxInbound, MaxBuffered, MaxSealed, Threshold

VARIABLES
  link,      \* [number, state, reason]: the connection the transport holds
  inbound,   \* channels: frames that wait to be opened
  seen,      \* the frames the codec has opened, as its replay cache knows them
  delivered, \* history: channels: the frames delivered in this connection
  verdict,   \* the evidence that the room is unreadable
  missed,    \* scene frames over the budget: [reported]; history: [told] in this episode, and
             \* [amiss]: one was told twice, or not at all
  sealed,    \* the codec's count of seals
  outbound,  \* channels: frames being sealed, in the order they were sent
  buffered,  \* frames the socket has taken and not yet sent
  onWire     \* history: channels: the frames the socket took in this connection

Channels == {"scene", "presence"}
Forged == {1, 2}       \* the frames sealed under another key, on presence
Good(channel, n) == channel = "scene" \/ n \notin Forged
NoEvidence == [opened |-> FALSE, failed |-> 0, pending |-> 0, last |-> 0, fence |-> 0,
               remaining |-> 0, reported |-> FALSE, skipped |-> FALSE]
Untold == [reported |-> FALSE, told |-> FALSE, amiss |-> FALSE]
Joined == link.state = "connected"
Empty == [c \in Channels |-> <<>>]

(* The first of each connection's frames in a queue: the connections wait   *)
(* for themselves only.  The numbers of a queue's frames are all different.  *)
Firsts(queue) == {i \in DOMAIN queue : \A j \in 1..(i - 1) : queue[j].number # queue[i].number}
Mine(queue) == {e \in ToSet(queue) : e.number = link.number}

Init ==
  /\ link = [number |-> 0, state |-> "disconnected", reason |-> "idle"]
  /\ inbound = Empty /\ seen = {} /\ delivered = Empty /\ verdict = NoEvidence
  /\ missed = Untold
  /\ sealed = 0 /\ outbound = Empty /\ buffered = 0 /\ onWire = Empty

-----------------------------------------------------------------------------
(* Connections                                                              *)

Connect ==
  /\ link.state = "disconnected" /\ link.number < MaxConnections
  /\ link' = [number |-> link.number + 1, state |-> "connecting", reason |-> "idle"]
  /\ delivered' = Empty /\ onWire' = Empty /\ buffered' = 0
  /\ missed' = [Untold EXCEPT !.amiss = missed.amiss]
  /\ UNCHANGED <<inbound, seen, verdict, sealed, outbound>>

(* The connection goes.  The opens under way go on.                         *)
Drop(reason) ==
  /\ link' = [link EXCEPT !.state = "disconnected", !.reason = reason]
  /\ inbound' = [c \in Channels |-> [i \in DOMAIN inbound[c] |->
       [inbound[c][i] EXCEPT !.begun =
         \/ inbound[c][i].begun
         \/ i \in Firsts(inbound[c]) /\ inbound[c][i].number = link.number]]]
  /\ UNCHANGED <<seen, delivered, verdict, missed, sealed, outbound, buffered, onWire>>

(* A "joined" that comes twice or for another room breaks the connection.   *)
ReceiveJoined(sameRoom) ==
  /\ link.state \in {"connecting", "connected"}
  /\ IF Joined \/ ~sameRoom THEN Drop("protocol")
     ELSE /\ link' = [link EXCEPT !.state = "connected"]
          /\ UNCHANGED <<inbound, seen, delivered, verdict, missed, sealed, outbound, buffered, onWire>>

(* Why a socket closed, by the relay's code.                                *)
Reason(code) ==
  CASE code = "unauthorized"       -> "unauthorized"
    [] code = "membershipRevoked"  -> "membership-revoked"
    [] code = "roomEnded"          -> "room-ended"
    [] code \in {"protocolViolation", "readOnlyRole"} -> "protocol"
    [] code = "unsupportedProtocolVersion" -> "unsupported-protocol-version"
    [] OTHER -> "transient"

SocketCloses(code) ==
  /\ link.state \in {"connecting", "connected"} /\ Drop(Reason(code))

Disconnect == link.state \in {"connecting", "connected"} /\ Drop("idle")

-----------------------------------------------------------------------------
(* Frames that arrive                                                       *)

\* Mutation: only a message that is delivered clears it.
RearmedWhenHeard(channel, heard, drained) ==
  IF channel = "scene" /\ heard THEN FALSE ELSE missed.reported

(* sceneSyncReported is cleared by a message that is delivered, and again   *)
(* when the queue of the connection has drained.                            *)
Rearmed(channel, heard, drained) ==
  IF channel = "scene" /\ (heard \/ drained) THEN FALSE ELSE missed.reported

Entry(n) == [n |-> n, id |-> verdict.last + 1, number |-> link.number, begun |-> FALSE]

(* Admitted into the channel's queue, or over its budget.                   *)
FrameArrives(channel, n) ==
  /\ Joined
  /\ IF Cardinality(Mine(inbound[channel])) < MaxInbound
     THEN /\ verdict.last < MaxArrivals
          /\ inbound' = [inbound EXCEPT ![channel] = Append(@, Entry(n))]
          /\ verdict' = [verdict EXCEPT !.pending = @ + 1, !.last = @ + 1]
          /\ UNCHANGED missed
     ELSE /\ missed' = IF channel = "presence" THEN missed
                       ELSE [reported |-> TRUE, told |-> missed.told \/ ~missed.reported,
                             amiss |-> missed.amiss \/ missed.told # missed.reported]
          /\ UNCHANGED <<inbound, verdict>>
  /\ UNCHANGED <<link, seen, delivered, sealed, outbound, buffered, onWire>>

(* noteFrameOpenFailed: the failures that arm the verdict.                  *)
NoteFailed(v) ==
  LET failed == IF v.failed < Threshold THEN v.failed + 1 ELSE v.failed IN
  IF v.opened \/ v.reported THEN v
  ELSE IF failed < Threshold \/ v.fence # 0 THEN [v EXCEPT !.failed = failed]
  ELSE [v EXCEPT !.failed = failed, !.fence = v.last, !.remaining = v.pending]

(* settleUnreadableVerdict.                                                 *)
Settles(v, id) ==
  LET remaining == IF id <= v.fence THEN v.remaining - 1 ELSE v.remaining IN
  IF v.fence = 0 THEN v
  ELSE [v EXCEPT !.remaining = remaining,
                 !.reported = @ \/ (remaining = 0 /\ ~v.opened)]

Replayed(e, channel) == <<channel, e.n>> \in seen

(* The first frame of a connection's channel settles: skipped where the     *)
(* connection went before its turn, otherwise opened, or not; and delivered *)
(* where the connection is still there.                                     *)
OpenSettles(channel, i) ==
  LET e == inbound[channel][i]
      current == Joined /\ e.number = link.number
      drained == current /\ Cardinality(Mine(inbound[channel])) = 1
      begun == current \/ e.begun
      opens == begun /\ Good(channel, e.n) /\ ~Replayed(e, channel)
      after == IF opens THEN [verdict EXCEPT !.opened = TRUE]
               ELSE IF begun THEN NoteFailed(verdict)
               ELSE [verdict EXCEPT !.skipped = @ \/ (Good(channel, e.n) /\ ~Replayed(e, channel))]
  IN
  /\ inbound' = [inbound EXCEPT ![channel] = RemoveAt(@, i)]
  /\ verdict' = Settles([after EXCEPT !.pending = @ - 1], e.id)
  /\ seen' = IF opens THEN seen \union {<<channel, e.n>>} ELSE seen
  /\ delivered' = IF opens /\ current THEN [delivered EXCEPT ![channel] = Append(@, e.n)] ELSE delivered
  /\ missed' = [missed EXCEPT
       !.reported = Rearmed(channel, current /\ opens, drained),
       !.told = @ /\ ~(drained /\ channel = "scene") /\ delivered'["scene"] = delivered["scene"]]
  /\ UNCHANGED <<link, sealed, outbound, buffered, onWire>>

-----------------------------------------------------------------------------
(* Frames that are sent                                                     *)

Pending == Cardinality(Mine(outbound["scene"])) + Cardinality(Mine(outbound["presence"]))

Fits == buffered + Pending + 1 <= MaxBuffered

(* Within the key's budget and the buffer's: sealed in the order sent.      *)
Send(channel) ==
  /\ Joined /\ sealed < MaxSealed /\ Fits
  /\ sealed' = sealed + 1
  /\ outbound' = [outbound EXCEPT ![channel] =
       Append(@, [n |-> sealed', number |-> link.number, done |-> "no"])]
  /\ UNCHANGED <<link, inbound, seen, delivered, verdict, missed, buffered, onWire>>

SealSettles(channel, i, outcome) ==
  /\ i \in DOMAIN outbound[channel] /\ outbound[channel][i].done = "no"
  /\ outbound' = [outbound EXCEPT ![channel][i].done = outcome]
  /\ UNCHANGED <<link, inbound, seen, delivered, verdict, missed, sealed, buffered, onWire>>

(* The chain hands the first frame to the socket it was sent on.            *)
HandOver(channel, i) ==
  LET e == outbound[channel][i] IN
  /\ e.done # "no"
  /\ outbound' = [outbound EXCEPT ![channel] = RemoveAt(@, i)]
  /\ IF e.done = "sealed" /\ Joined /\ e.number = link.number
     THEN buffered' = buffered + 1 /\ onWire' = [onWire EXCEPT ![channel] = Append(@, e)]
     ELSE UNCHANGED <<buffered, onWire>>
  /\ UNCHANGED <<link, inbound, seen, delivered, verdict, missed, sealed>>

SocketDrains ==
  /\ buffered > 0 /\ buffered' = buffered - 1
  /\ UNCHANGED <<link, inbound, seen, delivered, verdict, missed, sealed, outbound, onWire>>

Codes == {"membershipRevoked", "rateLimited"}

LinkNext ==
  \/ Connect \/ Disconnect
  \/ \E sameRoom \in BOOLEAN : ReceiveJoined(sameRoom)
  \/ \E code \in Codes : SocketCloses(code)

InboundNext ==
  \E channel \in Channels :
    \/ \E i \in Firsts(inbound[channel]) : OpenSettles(channel, i)
    \/ \E n \in 1..MaxFrames : FrameArrives(channel, n)

OutboundNext ==
  \/ SocketDrains
  \/ \E channel \in Channels :
       \/ Send(channel)
       \/ \E i \in Firsts(outbound[channel]) : HandOver(channel, i)
       \/ \E i \in 1..MaxSealed, outcome \in {"sealed", "failed"} : SealSettles(channel, i, outcome)

transportVars == <<link, inbound, seen, delivered, verdict, missed, sealed, outbound, buffered, onWire>>
Next == LinkNext \/ InboundNext \/ OutboundNext
Spec == Init /\ [][Next]_transportVars

-----------------------------------------------------------------------------
TypeOK ==
  /\ link.number \in 0..MaxConnections
  /\ link.state \in {"disconnected", "connecting", "connected"}
  /\ sealed \in 0..MaxSealed /\ verdict.failed \in 0..Threshold
  /\ verdict.pending = Len(inbound["scene"]) + Len(inbound["presence"])
  /\ \A c \in Channels : Cardinality(Mine(inbound[c])) <= MaxInbound

(* A frame is delivered once, whatever the relay repeats.                   *)
OpenedOnce ==
  \A c \in Channels : \A i, j \in DOMAIN delivered[c] : i # j => delivered[c][i] # delivered[c][j]

(* The frames of a channel reach the socket in the order they were sent, on *)
(* the connection they were sent on, within the buffer's bound.             *)
SentInOrder ==
  /\ \A c \in Channels : \A i, j \in DOMAIN onWire[c] :
       /\ i < j => onWire[c][i].n < onWire[c][j].n
       /\ onWire[c][i].number = link.number
  /\ buffered + Pending <= MaxBuffered

(* The room is called unreadable only where nothing opened and nothing that *)
(* would have opened was waiting when it was decided, unless a connection   *)
(* took it along; and it is, once the frames it waits for have settled.     *)
VerdictSound ==
  /\ verdict.reported => verdict.skipped \/
       \A c \in Channels : \A i \in DOMAIN inbound[c] :
         inbound[c][i].id <= verdict.fence => ~Good(c, inbound[c][i].n)
  /\ (verdict.fence # 0 /\ ~verdict.opened
       /\ \A c \in Channels : \A i \in DOMAIN inbound[c] : inbound[c][i].id > verdict.fence)
     => verdict.reported

(* A scene frame over the budget is reported unless one before it was since *)
(* the last message was delivered, and since the queue was last empty; and  *)
(* then it is not.                                                          *)
DropsAreReported == ~missed.amiss

\* Relay transport: no frame is delivered twice, frames leave in the order they were sent
\* and within their bound, and the room is reported unreadable when, and only when, the
\* frames that were there to tell have failed; a scene frame that found no
\* room is reported, once for all that find none until one is delivered.
TransportSound == OpenedOnce /\ SentInOrder /\ VerdictSound /\ DropsAreReported

-----------------------------------------------------------------------------
(* The invariant the proof of TransportSound goes by (RoomKeys_proofs).     *)

TransportBounds == MaxBuffered \in Nat /\ MaxFrames \in Nat

InEntry == [n : Nat, id : Nat, number : Nat, begun : BOOLEAN]
OutEntry == [n : Nat, number : Nat, done : {"no", "sealed", "failed"}]
TransportShapes ==
  /\ link \in [number : Nat, state : {"disconnected", "connecting", "connected"},
               reason : {"idle", "protocol", "unauthorized", "membership-revoked", "room-ended",
                         "unsupported-protocol-version", "transient"}]
  /\ inbound \in [Channels -> Seq(InEntry)] /\ delivered \in [Channels -> Seq(Nat)]
  /\ outbound \in [Channels -> Seq(OutEntry)] /\ onWire \in [Channels -> Seq(OutEntry)]
  /\ sealed \in Nat /\ buffered \in Nat
  /\ missed \in [reported : BOOLEAN, told : BOOLEAN, amiss : BOOLEAN]
  /\ verdict \in [opened : BOOLEAN, failed : Nat, pending : Int, last : Nat, fence : Nat,
                  remaining : Int, reported : BOOLEAN, skipped : BOOLEAN]

\* What was delivered is known to the replay cache, and was not known before.
DeliveredInv ==
  /\ OpenedOnce
  /\ \A c \in Channels : \A i \in DOMAIN delivered[c] : <<c, delivered[c][i]>> \in seen

\* The frames that wait to be opened, by the number of their arrival.
WaitingOn(c) == {inbound[c][i].id : i \in DOMAIN inbound[c]}
Waiting == WaitingOn("scene") \union WaitingOn("presence")
Fenced == {id \in Waiting : id <= verdict.fence}

\* They are numbered apart; what the verdict still waits for is what waits before its fence.
NumberedInv ==
  /\ \A c, d \in Channels : \A i \in DOMAIN inbound[c], j \in DOMAIN inbound[d] :
       inbound[c][i].id = inbound[d][j].id => c = d /\ i = j
  /\ \A c \in Channels : \A i \in DOMAIN inbound[c] : inbound[c][i].id \in 1..verdict.last
VerdictInv ==
  /\ IsFiniteSet(Waiting) /\ verdict.pending = Cardinality(Waiting)
  /\ verdict.fence # 0 =>
       /\ verdict.fence <= verdict.last /\ verdict.remaining = Cardinality(Fenced)
       /\ verdict.remaining = 0 /\ ~verdict.opened => verdict.reported
  /\ verdict.reported => verdict.fence # 0 /\ verdict.remaining = 0

MissedInv == ~missed.amiss /\ missed.reported = missed.told

\* The frames being sealed are in the order they were sent, and behind what this connection
\* has on the wire.
OrderInv ==
  /\ \A c \in Channels : \A i, j \in DOMAIN outbound[c] : i < j => outbound[c][i].n < outbound[c][j].n
  /\ \A c \in Channels : \A i \in DOMAIN outbound[c] :
       outbound[c][i].n <= sealed /\ outbound[c][i].number <= link.number
  /\ \A c \in Channels : \A i \in DOMAIN onWire[c], j \in DOMAIN outbound[c] :
       outbound[c][j].number = link.number => onWire[c][i].n < outbound[c][j].n
  /\ \A c \in Channels : \A i \in DOMAIN onWire[c] : onWire[c][i].n <= sealed
BoundInv == SentInOrder /\ \A c \in Channels : IsFiniteSet(Mine(outbound[c]))

TransportInv ==
  TransportShapes /\ DeliveredInv /\ NumberedInv /\ VerdictInv /\ MissedInv /\ OrderInv /\ BoundInv
=============================================================================
