------------------------------ MODULE FollowMode ------------------------------
(***************************************************************************)
(* Presence and follow mode among the members of a room                    *)
(* (lib/collab/session/presence-channel.ts and follow-mode.ts of apps/web).*)
(*                                                                         *)
(* Every presence frame carries the sender's whole state: its viewport,    *)
(* whom it follows and since when.  The relay may drop frames.  Each       *)
(* client keeps the follow edges it has heard of and releases its own      *)
(* where that one is the oldest of a cycle.  A viewport is its version; 0  *)
(* is none yet.  Pointers, names and selections are left out.              *)
(*                                                                         *)
(* Bounds: MaxTime of the clocks, MaxFollows, MaxViews, MaxLosses, and two *)
(* frames on the way between two peers, a third one replacing the first.   *)
(***************************************************************************)
EXTENDS Naturals, Sequences, FiniteSets

CONSTANTS Peer, MaxTime, MaxFollows, MaxViews, MaxLosses

VARIABLES
  member,   \* peers: "new", "in" or "gone"
  self,     \* what each client announces, its timers and the newest stamp it saw
  remote,   \* remote[p][q]: what p last heard of q
  canvas,   \* what the engine shows: the target, the viewport and the cursors
  known,    \* the members each client was told of
  net,      \* net[q][p]: the frames of q on their way to p
  last,     \* history: the last follow, and whether its actor knew every edge
  used      \* [follows, losses]

NoEdge == [peer |-> 0, since |-> 0]
Unheard == [heard |-> FALSE, follow |-> NoEdge, view |-> 0]
Fresh == [follow |-> NoEdge, view |-> 0, observed |-> 0, trailing |-> FALSE, resend |-> FALSE]
Blank == [target |-> 0, view |-> 0, cursors |-> {}, applied |-> FALSE]
NoFollow == [peer |-> 0, informed |-> FALSE]

In == {p \in Peer : member[p] = "in"}
Max2(a, b) == IF a > b THEN a ELSE b

(* All have met, or they meet.                                              *)
InitWith(late, met) ==
  /\ member = [p \in Peer |-> IF p \in late THEN "new" ELSE "in"]
  /\ self = [p \in Peer |-> Fresh]
  /\ remote = [p \in Peer |-> [q \in Peer |-> [Unheard EXCEPT !.heard = met /\ p # q]]]
  /\ canvas = [p \in Peer |-> [Blank EXCEPT !.cursors = IF met THEN Peer \ {p} ELSE {}]]
  /\ known = [p \in Peer |-> IF p \in late THEN {} ELSE Peer \ late]
  /\ net = [q \in Peer |-> [p \in Peer |-> <<>>]]
  /\ last = NoFollow /\ used = [follows |-> 0, losses |-> 0]

InitGraph == InitWith({}, TRUE)
InitViews == \E late \in SUBSET Peer : InitWith(late, FALSE)

-----------------------------------------------------------------------------
(* Frames                                                                   *)

Queue(frames, f) == IF Len(frames) = 2 THEN <<frames[2], f>> ELSE Append(frames, f)

(* p publishes its state s; the frame may be lost to some of the others.    *)
Publish(p, s) ==
  \E lost \in SUBSET (In \ {p}) :
    /\ used.losses + Cardinality(lost) <= MaxLosses
    /\ used' = [used EXCEPT !.losses = @ + Cardinality(lost)]
    /\ net' = [net EXCEPT ![p] = [q \in Peer |->
         IF q \in In \ ({p} \union lost) THEN Queue(@[q], [follow |-> s.follow, view |-> s.view])
         ELSE @[q]]]
    /\ self' = [self EXCEPT ![p] = [s EXCEPT !.trailing = FALSE]]

Silent(p, s) == self' = [self EXCEPT ![p] = s] /\ UNCHANGED <<net, used>>

-----------------------------------------------------------------------------
(* The follow graph                                                         *)

\* Mutation: the newest edge of a cycle is released.
IsOlderReversed(p, a, q, b) == a.since > b.since \/ (a.since = b.since /\ p < q)

IsOlder(p, a, q, b) == a.since < b.since \/ (a.since = b.since /\ p < q)

(* The peers met along the edges p knows, from its own target; the walk     *)
(* ends where it comes back to p, repeats, or finds no edge.                *)
Chain(heard, start) ==
  LET reach[n \in Nat] ==
        IF n = 0 THEN {start}
        ELSE reach[n - 1] \union
             {heard[q].follow.peer : q \in {r \in reach[n - 1] : r \in Peer /\ heard[r].follow # NoEdge}}
  IN  reach[Cardinality(Peer)]

ShouldRelease(p, mine, heard) ==
  LET others == [heard EXCEPT ![p] = Unheard]
      chain == Chain(others, mine.peer)
  IN  /\ mine # NoEdge /\ p \in chain
      /\ \A q \in chain \ {p} : IsOlder(p, mine, q, others[q].follow)

(* The state of p after the rule: its own edge may be gone.                 *)
Released(p, s, heard) ==
  IF ShouldRelease(p, s.follow, heard) THEN [s EXCEPT !.follow = NoEdge, !.resend = TRUE] ELSE s

(* What the engine shows once p's state is s and it has heard what it has:  *)
(* the viewport of the peer it follows.                                     *)
Shown(c, s, moved, heard) ==
  [c EXCEPT !.target = s.follow.peer,
            !.view = IF moved /\ s.follow # NoEdge /\ heard[s.follow.peer].view # 0
                     THEN heard[s.follow.peer].view ELSE @]

-----------------------------------------------------------------------------
(* Events of the user                                                       *)

Knows(p) == \A q \in In \ {p} : remote[p][q].follow = self[q].follow

Stamp(p, now) == Max2(now, self[p].observed + 1)

(* handleUserFollow with a peer the engine shows.                           *)
Follow(p, q, now) ==
  LET mine == [peer |-> q, since |-> Stamp(p, now)]
      s == Released(p, [self[p] EXCEPT !.follow = mine, !.resend = TRUE], remote[p])
  IN
  /\ p \in In /\ q \in canvas[p].cursors /\ self[p].follow.peer # q
  /\ used.follows < MaxFollows
  /\ \E lost \in SUBSET (In \ {p}) :
       /\ used.losses + Cardinality(lost) <= MaxLosses
       /\ used' = [follows |-> used.follows + 1, losses |-> used.losses + Cardinality(lost)]
       /\ net' = [net EXCEPT ![p] = [r \in Peer |->
            IF r \in In \ ({p} \union lost) THEN Queue(@[r], [follow |-> s.follow, view |-> s.view])
            ELSE @[r]]]
  /\ self' = [self EXCEPT ![p] = [s EXCEPT !.trailing = FALSE]]
  /\ canvas' = [canvas EXCEPT ![p] = [Shown(@, [s EXCEPT !.follow = mine], TRUE, remote[p])
                                      EXCEPT !.target = s.follow.peer]]
  /\ last' = [peer |-> p, informed |-> Knows(p)]
  /\ UNCHANGED <<member, remote, known>>

Unfollow(p) ==
  /\ p \in In /\ self[p].follow # NoEdge
  /\ Publish(p, [self[p] EXCEPT !.follow = NoEdge, !.resend = TRUE])
  /\ canvas' = [canvas EXCEPT ![p].target = 0]
  /\ last' = IF last.peer = p THEN NoFollow ELSE last
  /\ UNCHANGED <<member, remote, known>>

(* handleViewportChange: sent at once, or by the trailing timer where the   *)
(* last frame was less than the throttle ago.                               *)
ChangeViewport(p) ==
  /\ p \in In /\ self[p].view < MaxViews
  /\ LET s == [self[p] EXCEPT !.view = @ + 1] IN
     Publish(p, s) \/ Silent(p, [s EXCEPT !.trailing = TRUE])
  /\ UNCHANGED <<member, remote, canvas, known, last>>

-----------------------------------------------------------------------------
(* Timers                                                                   *)

TrailingSend(p) ==
  /\ p \in In /\ self[p].trailing /\ Publish(p, self[p])
  /\ UNCHANGED <<member, remote, canvas, known, last>>

(* The heartbeat of a follow, or the confirmation of its end; the two       *)
(* seconds before it are longer than a frame takes, and it brings nothing   *)
(* to those who know the state.                                             *)
FollowResend(p) ==
  /\ p \in In /\ self[p].resend /\ \A q \in Peer : net[p][q] = <<>>
  /\ \E q \in In \ {p} : remote[q][p].follow # self[p].follow
  /\ Publish(p, [self[p] EXCEPT !.resend = self[p].follow # NoEdge])
  /\ UNCHANGED <<member, remote, canvas, known, last>>

(* The coalesced write of the cursors.                                      *)
ApplyCollaborators(p) ==
  /\ canvas[p].applied
  /\ canvas' = [canvas EXCEPT ![p].applied = FALSE,
                              ![p].cursors = {q \in Peer : remote[p][q].heard}]
  /\ UNCHANGED <<member, self, remote, known, net, last, used>>

-----------------------------------------------------------------------------
(* Frames and membership arriving                                           *)

Answers(p, before, frame) == frame.follow.peer = p /\ before.follow.peer # p

(* receivePresence.                                                         *)
Receive(p, q) ==
  LET frame == Head(net[q][p])
      heard == [remote[p] EXCEPT ![q] =
                  [heard |-> TRUE, follow |-> frame.follow,
                   view |-> IF frame.view # 0 THEN frame.view ELSE @.view]]
      stamped == [self[p] EXCEPT !.observed = Max2(@, frame.follow.since)]
      s == Released(p, stamped, heard)
      moved == self[p].follow.peer = q
      rest == [net EXCEPT ![q][p] = Tail(@)]
  IN
  /\ p \in In /\ q \in known[p] /\ net[q][p] # <<>>
  /\ remote' = [remote EXCEPT ![p] = heard]
  /\ canvas' = [canvas EXCEPT ![p] = [Shown(@, stamped, moved, heard)
                                      EXCEPT !.target = s.follow.peer, !.applied = TRUE]]
  /\ IF s.follow # stamped.follow \/ Answers(p, remote[p][q], frame)
     THEN \E lost \in SUBSET (In \ {p}) :
            /\ used.losses + Cardinality(lost) <= MaxLosses
            /\ used' = [used EXCEPT !.losses = @ + Cardinality(lost)]
            /\ net' = [rest EXCEPT ![p] = [r \in Peer |->
                 IF r \in In \ ({p} \union lost)
                 THEN Queue(@[r], [follow |-> s.follow, view |-> s.view]) ELSE @[r]]]
            /\ self' = [self EXCEPT ![p] = [s EXCEPT !.trailing = FALSE]]
     ELSE net' = rest /\ self' = [self EXCEPT ![p] = s] /\ UNCHANGED used
  /\ UNCHANGED <<member, known, last>>

WithoutDeparted(s, members) ==
  IF s.follow # NoEdge /\ s.follow.peer \notin members
  THEN [s EXCEPT !.follow = NoEdge, !.resend = TRUE] ELSE s

(* A membership list: pruneToPeers.                                         *)
Prune(p) ==
  LET s == WithoutDeparted(self[p], In) IN
  /\ p \in In /\ known[p] # In
  /\ known' = [known EXCEPT ![p] = In]
  /\ remote' = [remote EXCEPT ![p] = [q \in Peer |-> IF q \in In THEN @[q] ELSE Unheard]]
  /\ canvas' = [canvas EXCEPT ![p] =
       IF \E q \in Peer \ In : remote[p][q].heard
       THEN [@ EXCEPT !.target = s.follow.peer, !.applied = FALSE,
                      !.cursors = {q \in In : remote[p][q].heard}]
       ELSE [@ EXCEPT !.target = s.follow.peer]]
  /\ IF s.follow # self[p].follow THEN Publish(p, s) ELSE Silent(p, s)
  /\ UNCHANGED <<member, last>>

(* A socket opens: resetForConnection announces a viewport the host seeded. *)
Join(p) ==
  /\ member[p] = "new" /\ member' = [member EXCEPT ![p] = "in"]
  /\ known' = [known EXCEPT ![p] = In \union {p}]
  /\ \E view \in {0, 1} :
       /\ self' = [self EXCEPT ![p].view = view]
       /\ net' = IF view = 0 THEN net
                 ELSE [net EXCEPT ![p] = [q \in Peer |->
                        IF q \in In THEN <<[follow |-> NoEdge, view |-> view]>> ELSE <<>>]]
  /\ UNCHANGED <<remote, canvas, last, used>>

(* A connection ends: clear; its peer id never comes back.                  *)
Leave(p) ==
  /\ p \in In /\ member' = [member EXCEPT ![p] = "gone"]
  /\ self' = [self EXCEPT ![p] = Fresh]
  /\ remote' = [remote EXCEPT ![p] = [q \in Peer |-> Unheard]]
  /\ canvas' = [canvas EXCEPT ![p] = Blank] /\ known' = [known EXCEPT ![p] = {}]
  /\ net' = [q \in Peer |-> [net[q] EXCEPT ![p] = <<>>]]
  /\ last' = IF last.peer = p THEN NoFollow ELSE last
  /\ UNCHANGED used

Follows == \E p, q \in Peer, now \in 1..MaxTime : Follow(p, q, now)
Deliveries == \E p, q \in Peer : Receive(p, q)

GraphNext == Follows \/ Deliveries \/ \E p \in Peer : FollowResend(p)
ViewsNext ==
  \/ Follows \/ Deliveries
  \/ \E p \in Peer : \/ ChangeViewport(p) \/ TrailingSend(p) \/ ApplyCollaborators(p)
                     \/ Unfollow(p) \/ Join(p) \/ Leave(p) \/ Prune(p)

-----------------------------------------------------------------------------
TypeOK ==
  /\ member \in [Peer -> {"new", "in", "gone"}]
  /\ \A p \in Peer : /\ self[p].follow.peer \in Peer \union {0}
                     /\ self[p].view \in 0..MaxViews
                     /\ canvas[p].target \in Peer \union {0} /\ canvas[p].cursors \subseteq Peer
  /\ \A p, q \in Peer : Len(net[p][q]) <= 2
  /\ used.follows \in 0..MaxFollows /\ used.losses \in 0..MaxLosses

Settled == /\ \A p \in In : Knows(p) /\ known[p] = In
           /\ \A p, q \in In : net[q][p] = <<>>

(* Where everyone has heard of everyone's edge, nobody chases itself, and   *)
(* the last one to act, knowing all edges, has kept its own unless its      *)
(* target left.                                                             *)
NoCycles ==
  Settled => \A p \in In : self[p].follow # NoEdge =>
    p \notin Chain([q \in Peer |-> [Unheard EXCEPT !.follow = self[q].follow]], self[p].follow.peer)

LastActorDecides ==
  (Settled /\ last.informed /\ \A p \in Peer : member[p] = "in") => self[last.peer].follow # NoEdge

(* Without losses a follower ends on the viewport its target ended on.      *)
FollowersArrive ==
  (Settled /\ used.losses = 0) =>
    \A p \in In : LET q == self[p].follow.peer IN
      (self[p].follow # NoEdge /\ ~self[q].trailing) => self[q].view = 0 \/ canvas[p].view = self[q].view

(* The engine follows whom the session says, among those still there.       *)
TargetsAgree ==
  \A p \in In : /\ canvas[p].target = self[p].follow.peer
                /\ (known[p] = In /\ self[p].follow # NoEdge) => self[p].follow.peer \in In

\* Presence: once the clients have heard of each other nobody follows itself through
\* others; an informed last actor keeps its direction; a follower ends where its
\* target ended; and nobody is left following a member that went.
FollowsSettle == NoCycles /\ LastActorDecides /\ FollowersArrive /\ TargetsAgree
=============================================================================
