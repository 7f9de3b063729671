------------------------- MODULE RoomAuthorization -------------------------
(***************************************************************************)
(* Who may hold a live relay session in one collaboration room.            *)
(*                                                                         *)
(* Two processes decide it without sharing a clock or a transaction:       *)
(*                                                                         *)
(*   - the web backend owns the room row.  Every mutation runs under the   *)
(*     row lock (lockRoom), bumps authRevision when it withdraws something *)
(*     and, after the commit, pushes one control request to the relay;     *)
(*   - the relay admits sockets that present a signed join token and       *)
(*     remembers every control request as a revision cutoff, which it      *)
(*     retires on its own clock and loses when it restarts.                *)
(*                                                                         *)
(* The push is sent once and may be lost, late or overtaken by a later     *)
(* one: a request in flight is answered at any time or never.  A client    *)
(* may present any token it was ever given.  Time counts the relay's       *)
(* seconds.  A locked section is one step: the row lock serializes them.   *)
(***************************************************************************)
EXTENDS Integers, FiniteSets

CONSTANTS
  Users,          \* authenticated user ids
  Owner,          \* the room's ownerId
  Keys,           \* what a sealed key-check value may be
  Conns,          \* relay sockets
  AllMembers,     \* the subject of an "end-room" request
  NoKeyCheck,     \* keyCheck = null
  NoSession,      \* a socket that has not joined
  TokenTTL,       \* DEFAULT_JOIN_TOKEN_TTL_SECONDS
  MaxTokenTTL,    \* MAX_JOIN_TOKEN_TTL_SECONDS
  ControlTTL,     \* DEFAULT_CONTROL_TOKEN_TTL_SECONDS
  Skew,           \* ROOM_TOKEN_CLOCK_SKEW_SECONDS
  MaxLead,        \* how far a backend clock may run ahead of the relay's
  MaxLag,         \* how far it may run behind, time spent waiting for the lock included
  GrantedRoles,   \* roles the owner may grant: ownerRoleSchema
  LinkRoles,      \* link roles the owner may choose: linkRoleSchema
  RoomTTLs,       \* lifetimes `create` may ask for
  MaxRoomTTL,     \* MAX_ROOM_TTL_MINUTES
  RetentionGrace, \* graceMs of the room retention job
  \* Bounds of the state space; no behaviour of the code depends on them.
  MaxTime, MaxRevision, MaxTokens, MaxPushes, MaxRestarts

(***************************************************************************)
(* What the deployment promises.  ClockAssumption is what cutoff retention *)
(* needs: a token outlives the cutoff above it unless its lifetime plus    *)
(* the clock error fits into the longest lifetime the relay accepts.       *)
(***************************************************************************)
ASSUME UserAssumption ==
  /\ Owner \in Users
  /\ AllMembers \notin Users
  /\ GrantedRoles \subseteq {"editor", "viewer"}
  /\ LinkRoles \subseteq {"none", "viewer", "editor"}
ASSUME NullAssumption ==
  /\ NoSession \notin [gen : Nat, sub : Users, role : {"owner", "editor", "viewer"},
                       arev : Nat, rexp : Nat, joinedAt : Nat]
  /\ NoKeyCheck \notin [gen : Nat, key : Keys]
ASSUME ClockAssumption ==
  /\ {TokenTTL, MaxTokenTTL, ControlTTL, Skew, MaxLead, MaxLag} \subseteq Nat
  /\ TokenTTL > 0
  /\ TokenTTL + MaxLead <= MaxTokenTTL
ASSUME LifetimeAssumption ==
  /\ RoomTTLs \subseteq 1..MaxRoomTTL
  /\ MaxRoomTTL \in Nat
  /\ RetentionGrace \in Nat
  /\ RetentionGrace >= MaxRoomTTL + 2 * MaxLead + MaxLag
ASSUME BoundAssumption ==
  /\ {MaxTime, MaxRevision, MaxTokens, MaxPushes, MaxRestarts} \subseteq Nat

VARIABLES
  \* backend: the collaboration_room row and its member rows
  status, gen, rev, keyCheck, expiresAt, linkRole, member,
  \* what the backend has signed: join tokens, and every control request ever pushed
  tokens, pushed,
  \* the network: control requests on their way to the relay
  inFlight,
  \* relay: its clock, the session of each socket, its cutoffs, its process number
  now, session, cutoffs, epoch,
  \* history: the control requests the relay answered, with the process that did
  enforced

roomVars  == <<status, gen, rev, keyCheck, expiresAt, linkRole, member>>
relayVars == <<session, cutoffs, epoch, enforced>>
vars == <<roomVars, tokens, pushed, inFlight, now, relayVars>>

Roles    == {"owner", "editor", "viewer"}
Subjects == Users \cup {AllMembers}

KeyCheck == [gen : Nat, key : Keys]
\* verifier is history: the key check the row held when the token was signed.
Token   == [gen : Nat, sub : Users, role : Roles, arev : Nat,
            iat : Nat, exp : Nat, rexp : Nat, verifier : KeyCheck]
Session == [gen : Nat, sub : Users, role : Roles, arev : Nat,
            rexp : Nat, joinedAt : Nat]
\* committedAt is history: when the change behind the request was committed.
Push    == [gen : Nat, sub : Subjects, arev : Nat, iat : Nat, committedAt : Nat]
Cutoff  == [gen : Nat, sub : Subjects, arev : Nat, recordedAt : Nat]
Answer  == [gen : Nat, sub : Subjects, arev : Nat, epoch : Nat]

(***************************************************************************)
(* x is a cutoff, a control request or the answer to one; y a token or a   *)
(* session.  The relay refuses or closes y on account of x exactly when x  *)
(* speaks about y's channel and subject and outranks y's revision.         *)
(***************************************************************************)
SameScope(x, y) == x.gen = y.gen /\ x.sub \in {y.sub, AllMembers}
Covers(x, y) == SameScope(x, y) /\ y.arev < x.arev

(***************************************************************************)
(* The clock a request reads before it waits for the row lock.             *)
(***************************************************************************)
RequestTimes == {t \in (now - MaxLag)..(now + MaxLead) : t >= 0}

CanAccessRoom(at) == status = "active" /\ expiresAt > at

\* resolveRoomAccess, for a room that is open: "none" is a refusal.  A user whose
\* account is gone cannot ask at all.
RoleOf(u) ==
  IF u = Owner THEN "owner"
  ELSE IF member[u] \in {"revoked", "gone"} THEN "none"
  ELSE IF member[u] # "none" THEN member[u]
  ELSE linkRole

Init ==
  /\ status = "active" /\ gen = 1 /\ rev = 1
  /\ keyCheck = NoKeyCheck
  /\ expiresAt \in RoomTTLs
  /\ linkRole \in LinkRoles
  /\ member = [u \in Users |-> IF u = Owner THEN "owner" ELSE "none"]
  /\ tokens = {} /\ pushed = {} /\ inFlight = {}
  /\ now = 0
  /\ session = [c \in Conns |-> NoSession]
  /\ cutoffs = {} /\ enforced = {} /\ epoch = 0

-----------------------------------------------------------------------------
(* The backend.                                                            *)

\* pushRelayRoomControl, after the commit of a change that produced revision r.
PushControl(g, u, r, at) ==
  LET p == [gen |-> g, sub |-> u, arev |-> r, iat |-> at, committedAt |-> now]
  IN  /\ Cardinality(pushed) < MaxPushes
      /\ pushed' = pushed \cup {p}
      /\ inFlight' = inFlight \cup {p}

\* `create` on a scene whose room is still active: the window is refreshed,
\* whether or not it has run out, and the link role only when one is given.
RefreshRoom(at, ttl, link) ==
  /\ status = "active"
  /\ at + ttl <= MaxTime
  /\ expiresAt' = at + ttl
  /\ linkRole' \in {link, linkRole}
  /\ UNCHANGED <<status, gen, rev, keyCheck, member, tokens, pushed, inFlight,
                 now, relayVars>>

\* Mutation: an upsert, as the doc comment of setKeyCheck still describes it.
SetKeyCheckUpsert(at, g, k) ==
  /\ CanAccessRoom(at)
  /\ g = gen
  /\ keyCheck' = [gen |-> g, key |-> k]
  /\ UNCHANGED <<status, gen, rev, expiresAt, linkRole, member, tokens, pushed,
                 inFlight, now, relayVars>>

\* g is the generation the owner's client minted the key for: the one some
\* earlier create or rotate answered with.
SetKeyCheck(at, g, k) ==
  /\ CanAccessRoom(at)
  /\ g = gen
  /\ keyCheck = NoKeyCheck
  /\ keyCheck' = [gen |-> g, key |-> k]
  /\ UNCHANGED <<status, gen, rev, expiresAt, linkRole, member, tokens, pushed,
                 inFlight, now, relayVars>>

\* Mutation: a link-role joiner is not recorded as a member.
IssueJoinTokenUnrecorded(u, at) ==
  /\ Cardinality(tokens) < MaxTokens
  /\ CanAccessRoom(at)
  /\ RoleOf(u) \in Roles
  /\ keyCheck # NoKeyCheck
  /\ tokens' = tokens \cup
       {[gen |-> gen, sub |-> u, role |-> RoleOf(u), arev |-> rev,
         iat |-> at, exp |-> at + TokenTTL, rexp |-> expiresAt,
         verifier |-> keyCheck]}
  /\ UNCHANGED <<status, gen, rev, keyCheck, expiresAt, linkRole, member, pushed,
                 inFlight, now, relayVars>>

\* `join`: the first join of a user without a row records one.
IssueJoinToken(u, at) ==
  /\ Cardinality(tokens) < MaxTokens
  /\ CanAccessRoom(at)
  /\ RoleOf(u) \in Roles
  /\ keyCheck # NoKeyCheck
  /\ member' = [member EXCEPT ![u] = IF @ = "none" THEN RoleOf(u) ELSE @]
  /\ tokens' = tokens \cup
       {[gen |-> gen, sub |-> u, role |-> RoleOf(u), arev |-> rev,
         iat |-> at, exp |-> at + TokenTTL, rexp |-> expiresAt,
         verifier |-> keyCheck]}
  /\ UNCHANGED <<status, gen, rev, keyCheck, expiresAt, linkRole, pushed,
                 inFlight, now, relayVars>>

\* Mutation: the pushed revision is not stored.
ChangeMemberNoBump(u, newState, at) ==
  /\ rev < MaxRevision
  /\ member' = [member EXCEPT ![u] = newState]
  /\ PushControl(gen, u, rev + 1, at)
  /\ UNCHANGED <<status, gen, rev, keyCheck, expiresAt, linkRole, tokens, now, relayVars>>

\* Every change that bumps the revision and revokes one member's sessions.
ChangeMember(u, newState, at) ==
  /\ rev < MaxRevision
  /\ member' = [member EXCEPT ![u] = newState]
  /\ rev' = rev + 1
  /\ PushControl(gen, u, rev + 1, at)
  /\ UNCHANGED <<status, gen, keyCheck, expiresAt, linkRole, tokens, now, relayVars>>

\* Mutation: a state no member row has.
LeaveRoomUnknownState(u, at) ==
  /\ CanAccessRoom(at)
  /\ RoleOf(u) \in {"editor", "viewer"}
  /\ ChangeMember(u, "left", at)

LeaveRoom(u, at) ==
  /\ CanAccessRoom(at)
  /\ RoleOf(u) \in {"editor", "viewer"}
  /\ ChangeMember(u, IF member[u] = "none" THEN "none" ELSE "revoked", at)

SetMemberRole(u, role, at) ==
  /\ CanAccessRoom(at)
  /\ u # Owner
  /\ member[u] # "gone"
  /\ ChangeMember(u, role, at)

RemoveMember(u, at) ==
  /\ CanAccessRoom(at)
  /\ u # Owner
  /\ member[u] \in {"editor", "viewer"}
  /\ ChangeMember(u, "revoked", at)

SetLinkRole(at, link) ==
  /\ CanAccessRoom(at)
  /\ linkRole' = link
  /\ UNCHANGED <<status, gen, rev, keyCheck, expiresAt, member, tokens, pushed,
                 inFlight, now, relayVars>>

RotateGeneration(at) ==
  /\ rev < MaxRevision
  /\ CanAccessRoom(at)
  /\ gen' = gen + 1
  /\ rev' = rev + 1
  /\ keyCheck' = NoKeyCheck
  /\ PushControl(gen, AllMembers, rev + 1, at)
  /\ UNCHANGED <<status, expiresAt, linkRole, member, tokens, now, relayVars>>

\* endRoom looks at the owner only: an expired room can still be ended, and
\* ending an ended one pushes again at the revision the first end produced.
EndRoom(at) ==
  /\ \/ /\ status = "active"
        /\ rev < MaxRevision
        /\ status' = "ended"
        /\ rev' = rev + 1
        /\ PushControl(gen, AllMembers, rev + 1, at)
     \/ /\ status = "ended"
        /\ PushControl(gen, AllMembers, rev, at)
        /\ UNCHANGED <<status, rev>>
  /\ UNCHANGED <<gen, keyCheck, expiresAt, linkRole, member, tokens, now, relayVars>>

\* retireAccount of the owner: the row goes with the user, and a room that was
\* still active is pushed at the revision a lifecycle change would have produced.
RetireAccount(at) ==
  /\ status \in {"active", "ended"}
  /\ status' = "deleted"
  /\ IF status = "active" THEN PushControl(gen, AllMembers, rev + 1, at)
                          ELSE UNCHANGED <<pushed, inFlight>>
  /\ UNCHANGED <<gen, rev, keyCheck, expiresAt, linkRole, member, tokens, now, relayVars>>

\* retireScene, the deletion of a workspace and the account purge job: the row
\* goes with its scene or its owner, and nobody is told.
EraseRoom ==
  /\ status \in {"active", "ended"}
  /\ status' = "erased"
  /\ UNCHANGED <<gen, rev, keyCheck, expiresAt, linkRole, member, tokens, pushed,
                 inFlight, now, relayVars>>

\* The account of a user who does not own the room is deleted: the member rows go
\* with it, with neither a revision bump nor a push.
EraseAccount(u) ==
  /\ u # Owner
  /\ member[u] # "gone"
  /\ member' = [member EXCEPT ![u] = "gone"]
  /\ UNCHANGED <<status, gen, rev, keyCheck, expiresAt, linkRole, tokens, pushed,
                 inFlight, now, relayVars>>

\* Mutation: no grace period.
RetireExpiredRoomAtOnce(at) ==
  /\ status = "active"
  /\ expiresAt < at
  /\ status' = "ended"
  /\ UNCHANGED <<gen, rev, keyCheck, expiresAt, linkRole, member, tokens, pushed,
                 inFlight, now, relayVars>>

\* The retention job ends a room whose window ran out a grace period ago, with
\* neither a revision bump nor a push.
RetireExpiredRoom(at) ==
  /\ status = "active"
  /\ expiresAt < at - RetentionGrace
  /\ status' = "ended"
  /\ UNCHANGED <<gen, rev, keyCheck, expiresAt, linkRole, member, tokens, pushed,
                 inFlight, now, relayVars>>

Backend ==
  \E at \in RequestTimes :
    \/ \E ttl \in RoomTTLs, link \in LinkRoles : RefreshRoom(at, ttl, link)
    \/ \E g \in 1..gen, k \in Keys : SetKeyCheck(at, g, k)
    \/ \E u \in Users : IssueJoinToken(u, at) \/ LeaveRoom(u, at) \/ RemoveMember(u, at)
    \/ \E u \in Users, role \in GrantedRoles : SetMemberRole(u, role, at)
    \/ \E link \in LinkRoles : SetLinkRole(at, link)
    \/ RotateGeneration(at) \/ EndRoom(at) \/ RetireAccount(at) \/ RetireExpiredRoom(at)
    \/ EraseRoom \/ \E u \in Users : EraseAccount(u)

-----------------------------------------------------------------------------
(* The relay.                                                              *)

\* Mutation: the expiry is not looked at.
InLifetimeNoExpiry(iat, exp) == iat <= now + Skew

\* checkLifetime
InLifetime(iat, exp) == iat <= now + Skew /\ now - Skew < exp

Retention == MaxTokenTTL + Skew

Sweep(cs) == {k \in cs : k.recordedAt > now - Retention}

Refused(t, cs) == \E k \in cs : Covers(k, t)

\* Cutoffs only move forward: an older or equal request leaves the scope's
\* cutoff, and the moment it was recorded, alone.
MergeCutoff(cs, p) ==
  LET scope == {k \in cs : k.gen = p.gen /\ k.sub = p.sub}
  IN  IF \E k \in scope : p.arev <= k.arev
      THEN cs
      ELSE (cs \ scope) \cup
           {[gen |-> p.gen, sub |-> p.sub, arev |-> p.arev, recordedAt |-> now]}

\* A join that passes verifyJoinToken, the cutoffs and the room's expiry.
\* Capacity and the join rate can only refuse it on top.
RelayJoin(c, t) ==
  /\ session[c] = NoSession
  /\ InLifetime(t.iat, t.exp)
  /\ cutoffs' = Sweep(cutoffs)
  /\ ~Refused(t, Sweep(cutoffs))
  /\ now < t.rexp
  /\ session' = [session EXCEPT ![c] =
       [gen |-> t.gen, sub |-> t.sub, role |-> t.role, arev |-> t.arev,
        rexp |-> t.rexp, joinedAt |-> now]]
  /\ UNCHANGED <<roomVars, tokens, pushed, inFlight, now, epoch, enforced>>

\* Mutation: the cutoff is recorded, the sockets stay open.
RelayControlKeepsSockets(p) ==
  /\ InLifetime(p.iat, p.iat + ControlTTL)
  /\ cutoffs' = MergeCutoff(Sweep(cutoffs), p)
  /\ enforced' = enforced \cup
       {[gen |-> p.gen, sub |-> p.sub, arev |-> p.arev, epoch |-> epoch]}
  /\ inFlight' = inFlight \ {p}
  /\ UNCHANGED <<roomVars, tokens, pushed, now, session, epoch>>

\* The control endpoint: revokeMember or endChannel.
RelayControl(p) ==
  /\ InLifetime(p.iat, p.iat + ControlTTL)
  /\ cutoffs' = MergeCutoff(Sweep(cutoffs), p)
  /\ session' = [c \in Conns |->
       IF session[c] # NoSession /\ Covers(p, session[c]) THEN NoSession ELSE session[c]]
  /\ enforced' = enforced \cup
       {[gen |-> p.gen, sub |-> p.sub, arev |-> p.arev, epoch |-> epoch]}
  /\ inFlight' = inFlight \ {p}
  /\ UNCHANGED <<roomVars, tokens, pushed, now, epoch>>

\* The socket goes away on its own: leave, idle, heartbeat, peer.
CloseSocket(c) ==
  /\ session[c] # NoSession
  /\ session' = [session EXCEPT ![c] = NoSession]
  /\ UNCHANGED <<roomVars, tokens, pushed, inFlight, now, cutoffs, epoch, enforced>>

\* Mutation: the timer compares for equality and misses a late tick.
RoomExpiryOnTheDot(c) ==
  /\ session[c] # NoSession
  /\ session[c].rexp = now
  /\ session' = [session EXCEPT ![c] = NoSession]
  /\ UNCHANGED <<roomVars, tokens, pushed, inFlight, now, cutoffs, epoch, enforced>>

\* The room-expiry timer of a joined socket.
RoomExpiry(c) ==
  /\ session[c] # NoSession
  /\ session[c].rexp <= now
  /\ session' = [session EXCEPT ![c] = NoSession]
  /\ UNCHANGED <<roomVars, tokens, pushed, inFlight, now, cutoffs, epoch, enforced>>

\* A metrics scrape counts the cutoffs, which sweeps them; so does a join that
\* one of them refuses.
CountCutoffs ==
  /\ cutoffs' = Sweep(cutoffs)
  /\ UNCHANGED <<roomVars, tokens, pushed, inFlight, now, session, epoch, enforced>>

RelayRestart ==
  /\ epoch < MaxRestarts
  /\ epoch' = epoch + 1
  /\ session' = [c \in Conns |-> NoSession]
  /\ cutoffs' = {}
  /\ UNCHANGED <<roomVars, tokens, pushed, inFlight, now, enforced>>

Tick ==
  /\ now < MaxTime
  /\ now' = now + 1
  /\ UNCHANGED <<roomVars, tokens, pushed, inFlight, relayVars>>

Relay ==
  \/ \E c \in Conns, t \in tokens : RelayJoin(c, t)
  \/ \E p \in inFlight : RelayControl(p)
  \/ \E c \in Conns : CloseSocket(c) \/ RoomExpiry(c)
  \/ CountCutoffs \/ RelayRestart \/ Tick

Next == Backend \/ Relay

Spec == Init /\ [][Next]_vars

\* The relay's timers and the clock run; nothing is assumed of users, of the
\* backend or of the delivery of control requests.
FairSpec == Spec /\ WF_vars(Tick) /\ \A c \in Conns : WF_vars(RoomExpiry(c))

-----------------------------------------------------------------------------
(* What the two processes promise together.                                *)

\* Every variable stays within the records of this module.
TypeOK ==
  /\ status \in {"active", "ended", "deleted", "erased"}
  /\ gen \in Nat /\ rev \in Nat
  /\ keyCheck \in KeyCheck \cup {NoKeyCheck}
  /\ expiresAt \in Nat
  /\ linkRole \in LinkRoles
  /\ member \in [Users -> Roles \cup {"none", "revoked", "gone"}]
  /\ tokens \subseteq Token
  /\ pushed \subseteq Push /\ inFlight \subseteq pushed
  /\ now \in Nat /\ epoch \in Nat
  /\ session \in [Conns -> Session \cup {NoSession}]
  /\ cutoffs \subseteq Cutoff
  /\ enforced \subseteq Answer

\* What this relay process has answered stays enforced: no socket it serves was
\* admitted on a token that an answered revocation or room end outranks, even
\* after the cutoff has been retired and however late, early or out of order the
\* requests arrived (sessions.ts: isRefused, revokeMember, endChannel, sweep).
EnforcedRevocationHolds ==
  \A a \in enforced, c \in Conns :
    a.epoch = epoch /\ session[c] # NoSession => ~Covers(a, session[c])

\* A token signed since the room's last change is never refused, and no request
\* still on its way can close the session it opens: re-granting a member works
\* at once, whatever happens to the earlier revocation.
FreshTokenAdmitted ==
  status = "active" =>
    \A t \in tokens, x \in cutoffs \cup inFlight :
      t.gen = gen /\ t.arev = rev => ~Covers(x, t)

\* A live session that disagrees with the database about its generation, its
\* member's role or the room being open is covered by a request the backend has
\* pushed, so by EnforcedRevocationHolds only a lost, late or forgotten push can
\* explain it.  Only the cascades that delete the room's row or the member's forget
\* to push.
Agrees(s) ==
  /\ s.gen = gen
  /\ s.role = RoleOf(s.sub)
  /\ status = "active" \/ s.rexp <= now
Erased(s) == status = "erased" \/ member[s.sub] = "gone"
DivergenceIsOwed ==
  \A c \in Conns :
    session[c] # NoSession =>
      \/ Agrees(session[c])
      \/ Erased(session[c])
      \/ \E p \in pushed : Covers(p, session[c])

\* With every push lost and the relay restarting at will, a superseded token
\* still buys no session later than its own lifetime, the skew the relay allows
\* and the backend's clock error after the change that superseded it.
StaleJoinBounded ==
  \A c \in Conns, p \in pushed :
    session[c] # NoSession /\ Covers(p, session[c]) =>
      session[c].joinedAt < p.committedAt + MaxLead + TokenTTL + Skew

\* Everybody admitted to a channel was admitted under one key check, the one
\* sealed for that generation (setKeyCheck, rotateGeneration, join).
OneVerifierPerGeneration ==
  /\ \A t \in tokens : t.verifier.gen = t.gen
  /\ \A t, t2 \in tokens : t.gen = t2.gen => t.verifier = t2.verifier

\* The retention job needs no push: when it ends a room, the room expiry carried
\* by every token ever signed for it has passed (jobs.ts: "every session and
\* token died with the room days ago").
SilentEndIsLate ==
  [][status = "active" /\ status' = "ended" /\ rev' = rev
       => \A t \in tokens : t.rexp <= now]_vars

\* No session lives for ever, even when no control request ever arrives.
EverySessionEnds ==
  \A c \in Conns : session[c] # NoSession ~> session[c] = NoSession

\* README.md: "membership and lifecycle changes are pushed to the relay through a
\* signed server-to-server control endpoint."  While the room's lifetime lasts, a
\* session whose room is no longer open or whose member is no longer one is
\* covered by a request that was pushed.
LifecycleChangesArePushed ==
  \A c \in Conns :
    session[c] # NoSession /\ now < session[c].rexp =>
      \/ status = "active" /\ RoleOf(session[c].sub) # "none"
      \/ \E p \in pushed : Covers(p, session[c])

\* connection.ts: "The room's own lifetime bounds the session: an
\* already-connected socket must not outlive it."  Once the window of an active
\* room has run out, the expiry timer of each of its sessions is due.
SessionWithinRoomLifetime ==
  \A c \in Conns :
    session[c] # NoSession /\ status = "active" /\ expiresAt <= now
      => session[c].rexp <= now

\* server.ts: "a restart only drops connections and starts fresh room epochs."  It
\* would then leave in force every revocation the relay has answered, whichever of
\* its processes gave the answer.
RevocationIsRemembered ==
  \A a \in enforced, c \in Conns :
    session[c] # NoSession => ~Covers(a, session[c])
=============================================================================
