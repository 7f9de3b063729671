---------------------- MODULE RoomAuthorization_proofs ----------------------
(***************************************************************************)
(* The safety properties of RoomAuthorization, for every number of users,  *)
(* sockets, tokens, control requests and restarts, every clock error that  *)
(* ClockAssumption admits, and every time.                                 *)
(***************************************************************************)
EXTENDS RoomAuthorization, TLAPS

USE UserAssumption, NullAssumption, ClockAssumption, LifetimeAssumption, BoundAssumption

-----------------------------------------------------------------------------
LEMMA RequestTimesNat ==
  ASSUME now \in Nat, NEW at \in RequestTimes
  PROVE  at \in Nat /\ at <= now + MaxLead /\ now - MaxLag <= at
BY DEF RequestTimes

LEMMA RoleOfType ==
  ASSUME TypeOK, NEW u \in Users
  PROVE  RoleOf(u) \in Roles \cup {"none"}
BY DEF RoleOf, TypeOK, Roles

LEMMA PushControlEffect ==
  ASSUME NEW g, NEW u, NEW r, NEW at, PushControl(g, u, r, at)
  PROVE  \E p : /\ p.gen = g /\ p.sub = u /\ p.arev = r /\ p.committedAt = now
                /\ pushed' = pushed \cup {p} /\ inFlight' = inFlight \cup {p}
<1>. DEFINE p == [gen |-> g, sub |-> u, arev |-> r, iat |-> at, committedAt |-> now]
<1>1. /\ p.gen = g /\ p.sub = u /\ p.arev = r /\ p.committedAt = now
      /\ pushed' = pushed \cup {p} /\ inFlight' = inFlight \cup {p}
  BY DEF PushControl
<1>. QED
  BY <1>1

LEMMA TypeInit == Init => TypeOK
<1>. SUFFICES ASSUME Init PROVE TypeOK
  OBVIOUS
<1>1. /\ status \in {"active", "ended", "deleted", "erased"}
      /\ gen \in Nat /\ rev \in Nat /\ now \in Nat /\ epoch \in Nat
      /\ keyCheck = NoKeyCheck /\ linkRole \in LinkRoles
  BY DEF Init
<1>2. expiresAt \in Nat
  BY DEF Init
<1>3. member \in [Users -> Roles \cup {"none", "revoked", "gone"}]
  BY DEF Init, Roles
<1>4. session \in [Conns -> Session \cup {NoSession}]
  BY DEF Init
<1>5. tokens = {} /\ pushed = {} /\ inFlight = {} /\ cutoffs = {} /\ enforced = {}
  BY DEF Init
<1>. QED
  BY <1>1, <1>2, <1>3, <1>4, <1>5 DEF TypeOK

LEMMA TypeBackend ==
  ASSUME TypeOK, Backend
  PROVE  TypeOK'
<1>. PICK at \in RequestTimes :
       \/ \E ttl \in RoomTTLs, link \in LinkRoles : RefreshRoom(at, ttl, link)
       \/ \E g \in 1..gen, k \in Keys : SetKeyCheck(at, g, k)
       \/ \E u \in Users : IssueJoinToken(u, at) \/ LeaveRoom(u, at) \/ RemoveMember(u, at)
       \/ \E u \in Users, role \in GrantedRoles : SetMemberRole(u, role, at)
       \/ \E link \in LinkRoles : SetLinkRole(at, link)
       \/ RotateGeneration(at) \/ EndRoom(at) \/ RetireAccount(at) \/ RetireExpiredRoom(at)
       \/ EraseRoom \/ \E u \in Users : EraseAccount(u)
  BY DEF Backend
<1>. at \in Nat
  BY RequestTimesNat DEF TypeOK
<1>. USE DEF TypeOK
<1>1. ASSUME NEW ttl \in RoomTTLs, NEW link \in LinkRoles, RefreshRoom(at, ttl, link)
      PROVE  TypeOK'
  BY <1>1 DEF RefreshRoom, relayVars
<1>2. ASSUME NEW g \in 1..gen, NEW k \in Keys, SetKeyCheck(at, g, k)
      PROVE  TypeOK'
  BY <1>2 DEF SetKeyCheck, relayVars, KeyCheck
<1>3. ASSUME NEW u \in Users, IssueJoinToken(u, at)
      PROVE  TypeOK'
  BY <1>3 DEF IssueJoinToken, relayVars, Token, KeyCheck, Roles
<1>4. ASSUME NEW u \in Users, NEW m \in Roles \cup {"none", "revoked", "gone"},
             ChangeMember(u, m, at)
      PROVE  TypeOK'
  BY <1>4 DEF ChangeMember, PushControl, Push, Subjects, relayVars
<1>5. ASSUME NEW u \in Users, LeaveRoom(u, at)
      PROVE  TypeOK'
  BY <1>4, <1>5 DEF LeaveRoom, Roles
<1>6. ASSUME NEW u \in Users, RemoveMember(u, at)
      PROVE  TypeOK'
  BY <1>4, <1>6 DEF RemoveMember, Roles
<1>7. ASSUME NEW u \in Users, NEW role \in GrantedRoles, SetMemberRole(u, role, at)
      PROVE  TypeOK'
  BY <1>4, <1>7 DEF SetMemberRole, Roles
<1>8. ASSUME NEW link \in LinkRoles, SetLinkRole(at, link)
      PROVE  TypeOK'
  BY <1>8 DEF SetLinkRole, relayVars
<1>9. ASSUME RotateGeneration(at)
      PROVE  TypeOK'
  BY <1>9 DEF RotateGeneration, PushControl, Push, Subjects, relayVars
<1>10. ASSUME EndRoom(at)
       PROVE  TypeOK'
  BY <1>10 DEF EndRoom, PushControl, Push, Subjects, relayVars
<1>11. ASSUME RetireAccount(at)
       PROVE  TypeOK'
  BY <1>11 DEF RetireAccount, PushControl, Push, Subjects, relayVars
<1>12. ASSUME RetireExpiredRoom(at)
       PROVE  TypeOK'
  BY <1>12 DEF RetireExpiredRoom, relayVars
<1>13. ASSUME EraseRoom \/ \E u \in Users : EraseAccount(u)
       PROVE  TypeOK'
  BY <1>13 DEF EraseRoom, EraseAccount, relayVars
<1>. QED
  BY <1>1, <1>2, <1>3, <1>5, <1>6, <1>7, <1>8, <1>9, <1>10, <1>11, <1>12, <1>13

LEMMA TypeRelay ==
  ASSUME TypeOK, Relay
  PROVE  TypeOK'
<1>. USE DEF TypeOK, roomVars, relayVars
<1>1. ASSUME NEW c \in Conns, NEW t \in tokens, RelayJoin(c, t)
      PROVE  TypeOK'
  BY <1>1 DEF RelayJoin, Token, Session, Sweep
<1>2. ASSUME NEW p \in inFlight, RelayControl(p)
      PROVE  TypeOK'
  BY <1>2 DEF RelayControl, MergeCutoff, Sweep, Push, Cutoff, Answer
<1>3. ASSUME NEW c \in Conns, CloseSocket(c) \/ RoomExpiry(c)
      PROVE  TypeOK'
  BY <1>3 DEF CloseSocket, RoomExpiry
<1>4. ASSUME CountCutoffs \/ RelayRestart \/ Tick
      PROVE  TypeOK'
  BY <1>4 DEF CountCutoffs, Sweep, RelayRestart, Tick
<1>. QED
  BY <1>1, <1>2, <1>3, <1>4 DEF Relay

LEMMA TypeStep ==
  ASSUME TypeOK, [Next]_vars
  PROVE  TypeOK'
<1>1. CASE UNCHANGED vars
  BY <1>1 DEF TypeOK, vars, roomVars, relayVars
<1>. QED
  BY <1>1, TypeBackend, TypeRelay DEF Next

\* Type correctness: the records the two processes exchange stay well formed.
THEOREM TypeCorrect == Spec => []TypeOK
BY TypeInit, TypeStep, PTL DEF Spec

-----------------------------------------------------------------------------
(* The inductive invariant.                                                *)

\* Revisions and generations only grow: what was signed or pushed is not ahead of
\* the row, except for the request of a row that is gone.
IssuedInv ==
  /\ \A t \in tokens :
       /\ t.gen <= gen /\ t.arev <= rev
       /\ t.exp = t.iat + TokenTTL
       /\ t.iat <= now + MaxLead
  /\ \A p \in pushed :
       /\ p.committedAt <= now
       /\ status # "deleted" => p.arev <= rev
       /\ \A t \in tokens : t.arev < p.arev => t.iat <= p.committedAt + MaxLead

\* A cutoff was recorded after the change behind it, so every token it outranks was
\* signed before it was recorded.
CutoffInv ==
  /\ \A k \in cutoffs :
       \E p \in pushed : p.arev = k.arev /\ p.committedAt <= k.recordedAt
  /\ \A k \in cutoffs : k.recordedAt <= now
  /\ \A a \in enforced : a.epoch <= epoch /\ \E p \in pushed : p.arev = a.arev

\* Every session was opened with a token that had not lapsed.
SessionInv ==
  \A c \in Conns : session[c] # NoSession =>
    \E t \in tokens :
      /\ t.gen = session[c].gen /\ t.sub = session[c].sub
      /\ t.arev = session[c].arev /\ t.role = session[c].role
      /\ t.rexp = session[c].rexp
      /\ session[c].joinedAt < t.exp + Skew

\* What this process answered is still remembered, or too late to matter.
MemoryInv ==
  \A a \in enforced, t \in tokens :
    a.epoch = epoch /\ Covers(a, t) =>
      (\E k \in cutoffs : Covers(k, t)) \/ t.exp + Skew <= now

\* The lifetimes the retention job relies on.
WindowInv ==
  /\ expiresAt <= now + MaxLead + MaxRoomTTL
  /\ \A t \in tokens :
       /\ t.rexp <= now + MaxLead + MaxRoomTTL
       /\ t.rexp <= expiresAt + MaxLag + MaxLead + MaxRoomTTL

\* A token agrees with the database, or what it spoke of was deleted by a cascade,
\* or a pushed request covers it.
TokenAgrees(t) ==
  /\ t.gen = gen
  /\ t.role = RoleOf(t.sub)
  /\ t.sub = Owner \/ member[t.sub] # "none"
  /\ status = "active" \/ t.rexp <= now
TokenOwed ==
  \A t \in tokens : TokenAgrees(t) \/ Erased(t) \/ \E p \in pushed : Covers(p, t)

\* The row's key check is the one the tokens of its generation were signed under.
VerifierInv ==
  /\ keyCheck # NoKeyCheck => keyCheck.gen = gen
  /\ \A t \in tokens : t.gen = gen => t.verifier = keyCheck
  /\ OneVerifierPerGeneration

-----------------------------------------------------------------------------
(* IssuedInv.                                                              *)

LEMMA IssuedBackend ==
  ASSUME TypeOK, IssuedInv, Backend
  PROVE  IssuedInv'
<1>. PICK at \in RequestTimes :
       \/ \E ttl \in RoomTTLs, link \in LinkRoles : RefreshRoom(at, ttl, link)
       \/ \E g \in 1..gen, k \in Keys : SetKeyCheck(at, g, k)
       \/ \E u \in Users : IssueJoinToken(u, at) \/ LeaveRoom(u, at) \/ RemoveMember(u, at)
       \/ \E u \in Users, role \in GrantedRoles : SetMemberRole(u, role, at)
       \/ \E link \in LinkRoles : SetLinkRole(at, link)
       \/ RotateGeneration(at) \/ EndRoom(at) \/ RetireAccount(at) \/ RetireExpiredRoom(at)
       \/ EraseRoom \/ \E u \in Users : EraseAccount(u)
  BY DEF Backend
<1>. /\ at \in Nat /\ at <= now + MaxLead
     /\ now \in Nat /\ gen \in Nat /\ rev \in Nat
     /\ \A t \in tokens : t \in Token
     /\ \A p \in pushed : p \in Push
  BY RequestTimesNat DEF TypeOK
<1>. USE DEF IssuedInv, relayVars
<1>1. ASSUME \/ \E ttl \in RoomTTLs, link \in LinkRoles : RefreshRoom(at, ttl, link)
             \/ \E g \in 1..gen, k \in Keys : SetKeyCheck(at, g, k)
             \/ \E link \in LinkRoles : SetLinkRole(at, link)
             \/ RetireExpiredRoom(at)
             \/ EraseRoom \/ \E u \in Users : EraseAccount(u)
      PROVE  IssuedInv'
  BY <1>1 DEF RefreshRoom, SetKeyCheck, SetLinkRole, RetireExpiredRoom, EraseRoom, EraseAccount
<1>2. ASSUME NEW u \in Users, IssueJoinToken(u, at)
      PROVE  IssuedInv'
  <2>1. /\ status = "active" /\ status' = status
        /\ now' = now /\ gen' = gen /\ rev' = rev /\ pushed' = pushed
    BY <1>2 DEF IssueJoinToken, CanAccessRoom
  <2>2. ASSUME NEW t \in tokens', t \notin tokens
        PROVE  t.gen = gen /\ t.arev = rev /\ t.exp = t.iat + TokenTTL /\ t.iat = at
    BY <1>2, <2>2 DEF IssueJoinToken
  <2>. QED
    BY <2>1, <2>2 DEF Push
<1>3. ASSUME NEW g, NEW u, NEW r, PushControl(g, u, r, at), r \in Nat,
             now' = now, tokens' = tokens, gen' \in {gen, gen + 1}, rev' \in {rev, rev + 1},
             status' # "deleted" => r <= rev' /\ status # "deleted"
      PROVE  IssuedInv'
  <2>. PICK p : pushed' = pushed \cup {p} /\ p.committedAt = now /\ p.arev = r
    BY <1>3, PushControlEffect
  <2>1. gen <= gen' /\ rev <= rev' /\ gen' \in Nat /\ rev' \in Nat
    BY <1>3
  <2>2. \A t \in tokens : /\ t.gen <= gen' /\ t.arev <= rev'
                          /\ t.exp = t.iat + TokenTTL /\ t.iat <= now + MaxLead
    BY <2>1 DEF Token
  <2>3. \A q \in pushed : /\ q.committedAt <= now
                          /\ status' # "deleted" => q.arev <= rev'
                          /\ \A t \in tokens : t.arev < q.arev => t.iat <= q.committedAt + MaxLead
    BY <1>3, <2>1 DEF Push
  <2>. QED
    BY <1>3, <2>2, <2>3
<1>4. ASSUME NEW u \in Users, NEW m, ChangeMember(u, m, at), status = "active"
      PROVE  IssuedInv'
  BY <1>3, <1>4 DEF ChangeMember
<1>5. ASSUME NEW u \in Users, LeaveRoom(u, at) \/ RemoveMember(u, at)
      PROVE  IssuedInv'
  BY <1>4, <1>5 DEF LeaveRoom, RemoveMember, CanAccessRoom
<1>6. ASSUME NEW u \in Users, NEW role \in GrantedRoles, SetMemberRole(u, role, at)
      PROVE  IssuedInv'
  BY <1>4, <1>6 DEF SetMemberRole, CanAccessRoom
<1>7. ASSUME RotateGeneration(at)
      PROVE  IssuedInv'
  BY <1>3, <1>7 DEF RotateGeneration, CanAccessRoom
<1>8. ASSUME EndRoom(at)
      PROVE  IssuedInv'
  BY <1>3, <1>8 DEF EndRoom
<1>9. ASSUME RetireAccount(at)
      PROVE  IssuedInv'
  <2>1. CASE status = "active"
    BY <1>3, <1>9, <2>1 DEF RetireAccount
  <2>2. CASE status # "active"
    BY <1>9, <2>2 DEF RetireAccount
  <2>. QED
    BY <2>1, <2>2
<1>. QED
  BY <1>1, <1>2, <1>5, <1>6, <1>7, <1>8, <1>9

LEMMA IssuedStep ==
  ASSUME TypeOK, IssuedInv, [Next]_vars
  PROVE  IssuedInv'
<1>1. ASSUME roomVars' = roomVars, tokens' = tokens, pushed' = pushed,
             now' \in {now, now + 1}
      PROVE  IssuedInv'
  BY <1>1 DEF TypeOK, IssuedInv, roomVars, Token, Push
<1>2. CASE Backend
  BY <1>2, IssuedBackend
<1>3. CASE Relay
  BY <1>1, <1>3 DEF Relay, RelayJoin, RelayControl, CloseSocket, RoomExpiry,
                    CountCutoffs, RelayRestart, Tick
<1>4. CASE UNCHANGED vars
  BY <1>1, <1>4 DEF vars, roomVars
<1>. QED
  BY <1>2, <1>3, <1>4 DEF Next

-----------------------------------------------------------------------------
(* The relay's memory: CutoffInv, SessionInv, MemoryInv.                   *)

LEMMA BackendFrame ==
  ASSUME TypeOK, Backend
  PROVE  /\ now' = now /\ relayVars' = relayVars
         /\ tokens \subseteq tokens' /\ pushed \subseteq pushed'
         /\ \A t \in tokens' : t \in tokens \/ (status = "active" /\ t.arev = rev)
<1>1. ASSUME NEW g, NEW u, NEW r, NEW at, PushControl(g, u, r, at)
      PROVE  pushed \subseteq pushed'
  BY <1>1, PushControlEffect
<1>2. ASSUME NEW at, NEW u, IssueJoinToken(u, at)
      PROVE  /\ status = "active" /\ now' = now /\ relayVars' = relayVars
             /\ tokens \subseteq tokens' /\ pushed' = pushed
             /\ \A t \in tokens' : t \in tokens \/ t.arev = rev
  BY <1>2 DEF IssueJoinToken, CanAccessRoom
<1>. QED
  BY <1>1, <1>2 DEF Backend, relayVars, RefreshRoom, SetKeyCheck, LeaveRoom, RemoveMember,
     SetMemberRole, ChangeMember, SetLinkRole, RotateGeneration, EndRoom, RetireAccount,
     RetireExpiredRoom, EraseRoom, EraseAccount

LEMMA RelayFrame ==
  ASSUME TypeOK, Relay
  PROVE  roomVars' = roomVars /\ tokens' = tokens /\ pushed' = pushed /\ now' \in {now, now + 1}
BY DEF TypeOK, Relay, RelayJoin, RelayControl, CloseSocket, RoomExpiry,
       CountCutoffs, RelayRestart, Tick

\* What mergeCutoff returns: no scope forgets, and the request's scope remembers it.
LEMMA MergeCutoffEffect ==
  ASSUME TypeOK, NEW cs \in SUBSET Cutoff, NEW p \in Push
  PROVE  /\ MergeCutoff(cs, p) \subseteq Cutoff
         /\ \A k \in MergeCutoff(cs, p) :
              k \in cs \/ (k.arev = p.arev /\ k.recordedAt = now)
         /\ \E k \in MergeCutoff(cs, p) : k.gen = p.gen /\ k.sub = p.sub /\ p.arev <= k.arev
         /\ \A k \in cs : \E k2 \in MergeCutoff(cs, p) :
              k2.gen = k.gen /\ k2.sub = k.sub /\ k.arev <= k2.arev
<1>. DEFINE n == [gen |-> p.gen, sub |-> p.sub, arev |-> p.arev, recordedAt |-> now]
            scope == {k \in cs : k.gen = p.gen /\ k.sub = p.sub}
<1>. n \in Cutoff /\ n.gen = p.gen /\ n.sub = p.sub /\ n.arev = p.arev /\ n.recordedAt = now
  BY DEF TypeOK, Push, Cutoff
<1>. \A k \in cs : k.arev \in Nat
  BY DEF Cutoff
<1>. p.arev \in Nat
  BY DEF Push
<1>1. CASE \E k \in scope : p.arev <= k.arev
  <2>. MergeCutoff(cs, p) = cs
    BY <1>1 DEF MergeCutoff
  <2>. QED
    BY <1>1
<1>2. CASE ~\E k \in scope : p.arev <= k.arev
  <2>. MergeCutoff(cs, p) = (cs \ scope) \cup {n}
    BY <1>2 DEF MergeCutoff
  <2>. \A k \in scope : k.arev <= n.arev /\ k.gen = n.gen /\ k.sub = n.sub
    BY <1>2
  <2>. HIDE DEF n
  <2>. QED
    OBVIOUS
<1>. QED
  BY <1>1, <1>2

LEMMA CutoffStep ==
  ASSUME TypeOK, CutoffInv, IssuedInv, [Next]_vars
  PROVE  CutoffInv'
<1>. now \in Nat /\ epoch \in Nat /\ cutoffs \subseteq Cutoff /\ enforced \subseteq Answer
  BY DEF TypeOK
<1>. USE DEF CutoffInv
<1>1. CASE Backend
  BY <1>1, BackendFrame DEF relayVars
<1>2. ASSUME pushed' = pushed, cutoffs' \subseteq cutoffs, now' \in {now, now + 1},
             enforced' = enforced, epoch' \in {epoch, epoch + 1}
      PROVE  CutoffInv'
  BY <1>2 DEF Cutoff, Answer
<1>3. ASSUME NEW p \in inFlight, RelayControl(p)
      PROVE  CutoffInv'
  <2>. p \in pushed /\ p \in Push /\ p.committedAt <= now
    BY DEF TypeOK, IssuedInv
  <2>. Sweep(cutoffs) \in SUBSET Cutoff /\ Sweep(cutoffs) \subseteq cutoffs
    BY DEF Sweep
  <2>1. \A k \in cutoffs' : k \in cutoffs \/ (k.arev = p.arev /\ k.recordedAt = now)
    BY <1>3, MergeCutoffEffect DEF RelayControl
  <2>2. pushed' = pushed /\ now' = now /\ epoch' = epoch
    BY <1>3 DEF RelayControl
  <2>3. \A a \in enforced' : a \in enforced \/ (a.epoch = epoch /\ a.arev = p.arev)
    BY <1>3 DEF RelayControl
  <2>. QED
    BY <2>1, <2>2, <2>3 DEF Cutoff, Answer
<1>4. CASE Relay
  BY <1>2, <1>3, <1>4 DEF Relay, RelayJoin, CloseSocket, RoomExpiry, relayVars,
                          CountCutoffs, RelayRestart, Tick, Sweep
<1>5. CASE UNCHANGED vars
  BY <1>2, <1>5 DEF vars, relayVars
<1>. QED
  BY <1>1, <1>4, <1>5 DEF Next

LEMMA SessionStep ==
  ASSUME TypeOK, SessionInv, [Next]_vars
  PROVE  SessionInv'
<1>. session \in [Conns -> Session \cup {NoSession}]
  BY DEF TypeOK
<1>. USE DEF SessionInv
<1>1. ASSUME tokens \subseteq tokens',
             \A c \in Conns : session'[c] \in {session[c], NoSession}
      PROVE  SessionInv'
  BY <1>1
<1>2. CASE Backend
  BY <1>1, <1>2, BackendFrame DEF relayVars
<1>3. ASSUME NEW c \in Conns, NEW t \in tokens, RelayJoin(c, t)
      PROVE  SessionInv'
  <2>. now \in Nat /\ t \in Token
    BY DEF TypeOK
  <2>1. tokens' = tokens /\ now < t.exp + Skew
    BY <1>3 DEF RelayJoin, InLifetime, Token
  <2>2. \A d \in Conns : d # c => session'[d] = session[d]
    BY <1>3 DEF RelayJoin
  <2>3. session'[c] = [gen |-> t.gen, sub |-> t.sub, role |-> t.role, arev |-> t.arev,
                       rexp |-> t.rexp, joinedAt |-> now]
    BY <1>3 DEF RelayJoin
  <2>. QED
    BY <2>1, <2>2, <2>3
<1>4. CASE Relay
  BY <1>1, <1>3, <1>4 DEF Relay, RelayControl, CloseSocket, RoomExpiry,
                          relayVars, CountCutoffs, RelayRestart, Tick
<1>5. CASE UNCHANGED vars
  BY <1>1, <1>5 DEF vars, relayVars
<1>. QED
  BY <1>2, <1>4, <1>5 DEF Next

\* The one place where the clocks matter: by the time the relay forgets a cutoff,
\* every token the cutoff outranks has lapsed, clock error and skew included.
LEMMA SweptIsHarmless ==
  ASSUME TypeOK, IssuedInv, CutoffInv,
         NEW k \in cutoffs, k \notin Sweep(cutoffs), NEW t \in tokens, Covers(k, t)
  PROVE  t.exp + Skew <= now
<1>. k \in Cutoff /\ t \in Token /\ now \in Nat /\ pushed \subseteq Push
  BY DEF TypeOK
<1>1. k.recordedAt <= now - (MaxTokenTTL + Skew)
  BY DEF Sweep, Retention, Cutoff
<1>2. t.arev < k.arev
  BY DEF Covers
<1>3. PICK p \in pushed : p.arev = k.arev /\ p.committedAt <= k.recordedAt
  BY DEF CutoffInv
<1>4. t.iat <= p.committedAt + MaxLead
  BY <1>2, <1>3 DEF IssuedInv
<1>5. t.exp = t.iat + TokenTTL
  BY DEF IssuedInv
<1>. QED
  BY <1>1, <1>3, <1>4, <1>5 DEF Token, Push, Cutoff

LEMMA MemoryStep ==
  ASSUME TypeOK, IssuedInv, CutoffInv, MemoryInv, [Next]_vars
  PROVE  MemoryInv'
<1>. /\ now \in Nat /\ epoch \in Nat /\ cutoffs \subseteq Cutoff /\ enforced \subseteq Answer
     /\ tokens \subseteq Token /\ pushed \subseteq Push
  BY DEF TypeOK
<1>. USE DEF MemoryInv
<1>1. CASE Backend
  <2>1. ASSUME NEW a \in enforced, NEW t \in tokens', t.arev = rev, status = "active",
               a.epoch = epoch, Covers(a, t)
        PROVE  FALSE
    <3>. PICK p \in pushed : p.arev = a.arev
      BY DEF CutoffInv
    <3>. p.arev <= rev
      BY <2>1 DEF IssuedInv
    <3>. QED
      BY <2>1 DEF Covers, TypeOK, Push
  <2>. QED
    BY <1>1, <2>1, BackendFrame DEF relayVars, Covers, SameScope
<1>2. ASSUME tokens' = tokens, now' \in {now, now + 1}, enforced' = enforced, epoch' = epoch,
             cutoffs' = cutoffs \/ cutoffs' = Sweep(cutoffs)
      PROVE  MemoryInv'
  <2>1. \A t \in tokens : t.exp + Skew <= now => t.exp + Skew <= now'
    BY <1>2 DEF Token
  <2>2. \A k \in cutoffs, t \in tokens :
          Covers(k, t) /\ k \notin cutoffs' => t.exp + Skew <= now'
    BY <1>2, <2>1, SweptIsHarmless
  <2>3. ASSUME NEW a \in enforced, NEW t \in tokens, a.epoch = epoch, Covers(a, t)
        PROVE  (\E k \in cutoffs' : Covers(k, t)) \/ t.exp + Skew <= now'
    BY <2>1, <2>2, <2>3
  <2>. QED
    BY <1>2, <2>3 DEF Covers, SameScope
<1>3. ASSUME NEW p \in inFlight, RelayControl(p)
      PROVE  MemoryInv'
  <2>. p \in Push
    BY DEF TypeOK
  <2>. Sweep(cutoffs) \in SUBSET Cutoff
    BY DEF Sweep
  <2>1. tokens' = tokens /\ now' = now /\ epoch' = epoch
        /\ cutoffs' = MergeCutoff(Sweep(cutoffs), p)
    BY <1>3 DEF RelayControl
  <2>2. \A t \in tokens : Covers(p, t) => \E k \in cutoffs' : Covers(k, t)
    <3>1. PICK k \in cutoffs' : k.gen = p.gen /\ k.sub = p.sub /\ p.arev <= k.arev /\ k \in Cutoff
      BY <2>1, MergeCutoffEffect
    <3>. QED
      BY <3>1 DEF Covers, SameScope, Token, Push, Cutoff
  <2>3. ASSUME NEW k \in Sweep(cutoffs), NEW t \in tokens, Covers(k, t)
        PROVE  \E k2 \in cutoffs' : Covers(k2, t)
    <3>1. PICK k2 \in cutoffs' : k2.gen = k.gen /\ k2.sub = k.sub /\ k.arev <= k2.arev /\ k2 \in Cutoff
      BY <2>1, MergeCutoffEffect
    <3>. QED
      BY <2>3, <3>1 DEF Covers, SameScope, Token, Cutoff, Sweep
  <2>4. \A k \in cutoffs, t \in tokens :
          Covers(k, t) => (\E k2 \in cutoffs' : Covers(k2, t)) \/ t.exp + Skew <= now
    BY <2>3, SweptIsHarmless
  <2>5. \A a \in enforced' : a \in enforced \/ (a.gen = p.gen /\ a.sub = p.sub /\ a.arev = p.arev)
    BY <1>3 DEF RelayControl
  <2>6. ASSUME NEW a \in enforced', NEW t \in tokens, a.epoch = epoch, Covers(a, t)
        PROVE  (\E k \in cutoffs' : Covers(k, t)) \/ t.exp + Skew <= now
    <3>1. CASE a \in enforced
      BY <2>4, <2>6, <3>1
    <3>2. CASE a \notin enforced
      BY <2>2, <2>5, <2>6, <3>2 DEF Covers, SameScope
    <3>. QED
      BY <3>1, <3>2
  <2>. QED
    BY <2>1, <2>6 DEF Covers, SameScope
<1>4. CASE RelayRestart
  <2>. \A a \in enforced' : a.epoch # epoch'
    BY <1>4 DEF RelayRestart, CutoffInv, Answer
  <2>. QED
    OBVIOUS
<1>5. CASE Relay
  BY <1>2, <1>3, <1>4, <1>5 DEF Relay, RelayJoin, CloseSocket, RoomExpiry,
                                relayVars, CountCutoffs, Tick
<1>6. CASE UNCHANGED vars
  BY <1>2, <1>6 DEF vars, relayVars
<1>. QED
  BY <1>1, <1>5, <1>6 DEF Next

-----------------------------------------------------------------------------
(* What follows: the revocation properties.                                *)

RelayInv == TypeOK /\ IssuedInv /\ CutoffInv /\ SessionInv /\ MemoryInv

LEMMA RelayInvInvariant == Spec => []RelayInv
<1>1. Init => RelayInv
  BY TypeInit DEF Init, RelayInv, IssuedInv, CutoffInv, SessionInv, MemoryInv
<1>2. RelayInv /\ [Next]_vars => RelayInv'
  <2>. SUFFICES ASSUME RelayInv, [Next]_vars PROVE RelayInv'
    OBVIOUS
  <2>. TypeOK /\ IssuedInv /\ CutoffInv /\ SessionInv /\ MemoryInv
    BY DEF RelayInv
  <2>. QED
    BY TypeStep, IssuedStep, CutoffStep, SessionStep, MemoryStep DEF RelayInv
<1>. QED
  BY <1>1, <1>2, PTL DEF Spec

LEMMA EnforcedStep ==
  ASSUME RelayInv, EnforcedRevocationHolds, [Next]_vars
  PROVE  EnforcedRevocationHolds'
<1>. TypeOK /\ IssuedInv /\ CutoffInv /\ MemoryInv
  BY DEF RelayInv
<1>. now \in Nat /\ epoch \in Nat /\ tokens \subseteq Token
  BY DEF TypeOK
<1>. USE DEF EnforcedRevocationHolds
<1>1. ASSUME enforced' = enforced, epoch' = epoch,
             \A c \in Conns : session'[c] \in {session[c], NoSession}
      PROVE  EnforcedRevocationHolds'
  BY <1>1 DEF Covers, SameScope
<1>2. CASE Backend
  BY <1>1, <1>2, BackendFrame DEF relayVars
<1>3. ASSUME NEW c \in Conns, NEW t \in tokens, RelayJoin(c, t)
      PROVE  EnforcedRevocationHolds'
  <2>1. \A d \in Conns : d # c => session'[d] = session[d]
    BY <1>3 DEF RelayJoin
  <2>2. session'[c].gen = t.gen /\ session'[c].sub = t.sub /\ session'[c].arev = t.arev
    BY <1>3 DEF RelayJoin, TypeOK
  <2>3. now < t.exp + Skew
    BY <1>3 DEF RelayJoin, InLifetime, Token
  <2>4. \A k \in cutoffs : ~Covers(k, t)
    <3>1. \A k \in Sweep(cutoffs) : ~Covers(k, t)
      BY <1>3 DEF RelayJoin, Refused
    <3>. QED
      BY <2>3, <3>1, SweptIsHarmless DEF Token
  <2>5. \A a \in enforced : a.epoch = epoch => ~Covers(a, t)
    BY <2>3, <2>4 DEF MemoryInv, Token
  <2>6. \A a \in enforced : a.epoch = epoch => ~Covers(a, session'[c])
    BY <2>2, <2>5 DEF Covers, SameScope
  <2>7. enforced' = enforced /\ epoch' = epoch
    BY <1>3 DEF RelayJoin
  <2>. QED
    BY <2>1, <2>6, <2>7 DEF Covers, SameScope
<1>4. ASSUME NEW p \in inFlight, RelayControl(p)
      PROVE  EnforcedRevocationHolds'
  <2>1. \A a \in enforced' : a \in enforced \/ (a.gen = p.gen /\ a.sub = p.sub /\ a.arev = p.arev)
    BY <1>4 DEF RelayControl
  <2>2. /\ epoch' = epoch
        /\ \A c \in Conns : session'[c] # NoSession =>
             session'[c] = session[c] /\ ~Covers(p, session[c])
    BY <1>4 DEF RelayControl
  <2>. QED
    BY <2>1, <2>2 DEF Covers, SameScope
<1>5. CASE RelayRestart
  BY <1>5 DEF RelayRestart
<1>6. CASE Relay
  <2>1. ASSUME \/ \E c \in Conns : CloseSocket(c) \/ RoomExpiry(c)
               \/ CountCutoffs \/ Tick
        PROVE  EnforcedRevocationHolds'
    <3>1. /\ enforced' = enforced /\ epoch' = epoch
          /\ \A c \in Conns : session'[c] \in {session[c], NoSession}
      BY <2>1 DEF TypeOK, CloseSocket, RoomExpiry, relayVars, CountCutoffs, Tick
    <3>. QED
      BY <1>1, <3>1
  <2>. QED
    BY <1>3, <1>4, <1>5, <1>6, <2>1 DEF Relay
<1>7. CASE UNCHANGED vars
  BY <1>1, <1>7 DEF vars, relayVars
<1>. QED
  BY <1>2, <1>6, <1>7 DEF Next

\* What a relay process has answered stays enforced for as long as it lives.
THEOREM RevocationEnforced == Spec => []EnforcedRevocationHolds
<1>1. Init => EnforcedRevocationHolds
  BY DEF Init, EnforcedRevocationHolds
<1>. QED
  BY <1>1, EnforcedStep, RelayInvInvariant, PTL DEF Spec

\* With every request lost and any number of restarts, a superseded token buys no
\* session later than its lifetime after the change.
THEOREM StaleJoinsEnd == Spec => []StaleJoinBounded
<1>1. RelayInv => StaleJoinBounded
  <2>. SUFFICES ASSUME RelayInv, NEW c \in Conns, NEW p \in pushed,
                       session[c] # NoSession, Covers(p, session[c])
                PROVE  session[c].joinedAt < p.committedAt + MaxLead + TokenTTL + Skew
    BY DEF StaleJoinBounded
  <2>. TypeOK /\ IssuedInv /\ SessionInv
    BY DEF RelayInv
  <2>1. PICK t \in tokens : t.arev = session[c].arev /\ session[c].joinedAt < t.exp + Skew
    BY DEF SessionInv
  <2>2. t.exp = t.iat + TokenTTL /\ t.iat <= p.committedAt + MaxLead
    BY <2>1 DEF IssuedInv, Covers
  <2>3. t \in Token /\ p \in Push /\ session[c] \in Session
    BY DEF TypeOK
  <2>. QED
    BY <2>1, <2>2, <2>3 DEF Token, Push, Session
<1>. QED
  BY <1>1, RelayInvInvariant, PTL

\* A token of the current revision is never refused, nor its session closed, by
\* anything recorded or still on its way.
THEOREM FreshTokensAdmitted == Spec => []FreshTokenAdmitted
<1>1. RelayInv => FreshTokenAdmitted
  <2>. SUFFICES ASSUME RelayInv, status = "active", NEW t \in tokens,
                       NEW x \in cutoffs \cup inFlight, t.arev = rev, Covers(x, t)
                PROVE  FALSE
    BY DEF FreshTokenAdmitted
  <2>. TypeOK /\ IssuedInv /\ CutoffInv
    BY DEF RelayInv
  <2>1. PICK p \in pushed : p.arev = x.arev
    BY DEF TypeOK, CutoffInv
  <2>2. p.arev <= rev
    BY DEF IssuedInv
  <2>. QED
    BY <2>1, <2>2 DEF Covers, TypeOK, Push
<1>. QED
  BY <1>1, RelayInvInvariant, PTL

-----------------------------------------------------------------------------
(* The row and the tokens: WindowInv, VerifierInv.                         *)

\* The steps that touch neither the row's window, generation and key check nor the
\* tokens.
RowFrame ==
  /\ UNCHANGED <<tokens, expiresAt, gen, keyCheck>>
  /\ now' \in {now, now + 1}

LEMMA RowFrameCases ==
  ASSUME TypeOK, [Next]_vars
  PROVE  \/ RowFrame
         \/ \E at \in RequestTimes :
              \/ \E ttl \in RoomTTLs, link \in LinkRoles : RefreshRoom(at, ttl, link)
              \/ \E g \in 1..gen, k \in Keys : SetKeyCheck(at, g, k)
              \/ \E u \in Users : IssueJoinToken(u, at)
              \/ RotateGeneration(at)
<1>1. CASE UNCHANGED vars
  BY <1>1 DEF vars, roomVars, RowFrame
<1>2. CASE Relay
  BY <1>2, RelayFrame DEF roomVars, RowFrame
<1>3. CASE Backend
  BY <1>3 DEF Backend, LeaveRoom, RemoveMember, SetMemberRole, ChangeMember, SetLinkRole,
              EndRoom, RetireAccount, RetireExpiredRoom, EraseRoom, EraseAccount, RowFrame
<1>. QED
  BY <1>1, <1>2, <1>3 DEF Next

LEMMA WindowInit == Init => WindowInv
<1>. SUFFICES ASSUME Init PROVE WindowInv
  OBVIOUS
<1>1. now = 0 /\ tokens = {} /\ expiresAt \in Nat /\ expiresAt <= MaxRoomTTL
  BY DEF Init
<1>. QED
  BY <1>1 DEF WindowInv

LEMMA WindowStep ==
  ASSUME TypeOK, WindowInv, [Next]_vars
  PROVE  WindowInv'
<1>. now \in Nat /\ expiresAt \in Nat /\ tokens \subseteq Token
  BY DEF TypeOK
<1>. USE DEF WindowInv
<1>1. CASE RowFrame
  BY <1>1 DEF RowFrame, Token
<1>2. ASSUME NEW at \in RequestTimes, NEW ttl \in RoomTTLs, NEW link \in LinkRoles,
             RefreshRoom(at, ttl, link)
      PROVE  WindowInv'
  <2>1. /\ at \in Nat /\ at <= now + MaxLead /\ now - MaxLag <= at
        /\ ttl \in Nat /\ 1 <= ttl /\ ttl <= MaxRoomTTL
    BY RequestTimesNat
  <2>2. expiresAt' = at + ttl /\ tokens' = tokens /\ now' = now
    BY <1>2 DEF RefreshRoom
  <2>. QED
    BY <2>1, <2>2 DEF Token
<1>3. ASSUME NEW at \in RequestTimes, NEW u \in Users, IssueJoinToken(u, at)
      PROVE  WindowInv'
  <2>1. expiresAt' = expiresAt /\ now' = now
    BY <1>3 DEF IssueJoinToken
  <2>2. \A t \in tokens' : t \in tokens \/ t.rexp = expiresAt
    BY <1>3 DEF IssueJoinToken
  <2>. QED
    BY <2>1, <2>2
<1>4. ASSUME NEW at \in RequestTimes,
             RotateGeneration(at) \/ \E g \in 1..gen, k \in Keys : SetKeyCheck(at, g, k)
      PROVE  WindowInv'
  BY <1>4 DEF RotateGeneration, SetKeyCheck
<1>. QED
  BY <1>1, <1>2, <1>3, <1>4, RowFrameCases

LEMMA ExpiredLongAgo ==
  ASSUME TypeOK, WindowInv, NEW at \in RequestTimes, RetireExpiredRoom(at), NEW t \in tokens
  PROVE  t.rexp <= now
<1>. now \in Nat /\ expiresAt \in Nat /\ t \in Token
  BY DEF TypeOK
<1>1. at \in Nat /\ at <= now + MaxLead /\ expiresAt < at - RetentionGrace
  BY RequestTimesNat DEF RetireExpiredRoom
<1>2. t.rexp <= expiresAt + MaxLag + MaxLead + MaxRoomTTL
  BY DEF WindowInv
<1>. QED
  BY <1>1, <1>2 DEF Token

\* The retention job never ends a room a live session could still belong to.
THEOREM SilentEndsAreLate == Spec => SilentEndIsLate
<1>1. Spec => [](TypeOK /\ WindowInv)
  BY TypeInit, TypeStep, WindowInit, WindowStep, PTL DEF Spec
<1>2. ASSUME TypeOK, WindowInv, [Next]_vars
      PROVE  status = "active" /\ status' = "ended" /\ rev' = rev => \A t \in tokens : t.rexp <= now
  <2>. SUFFICES ASSUME status = "active", status' = "ended", rev' = rev, NEW t \in tokens
                PROVE  t.rexp <= now
    OBVIOUS
  <2>. USE <1>2
  <2>. now \in Nat /\ expiresAt \in Nat /\ rev \in Nat /\ t \in Token
    BY DEF TypeOK
  <2>1. Backend
    <3>1. ~Relay
      BY RelayFrame DEF roomVars
    <3>2. ~UNCHANGED vars
      BY DEF vars, roomVars
    <3>. QED
      BY <3>1, <3>2 DEF Next
  <2>2. PICK at \in RequestTimes : RetireExpiredRoom(at)
    <3>1. ASSUME NEW at, NEW u, NEW m, ChangeMember(u, m, at)
          PROVE  FALSE
      BY <3>1 DEF ChangeMember
    <3>2. ASSUME NEW at, EndRoom(at) \/ RetireAccount(at) \/ RotateGeneration(at)
          PROVE  FALSE
      BY <3>2 DEF EndRoom, RetireAccount, RotateGeneration
    <3>3. ASSUME NEW at,
                 \/ \E ttl \in RoomTTLs, link \in LinkRoles : RefreshRoom(at, ttl, link)
                 \/ \E g \in 1..gen, k \in Keys : SetKeyCheck(at, g, k)
                 \/ \E u \in Users : IssueJoinToken(u, at)
                 \/ \E link \in LinkRoles : SetLinkRole(at, link)
                 \/ EraseRoom \/ \E u \in Users : EraseAccount(u)
          PROVE  FALSE
      BY <3>3 DEF RefreshRoom, SetKeyCheck, IssueJoinToken, SetLinkRole, EraseRoom, EraseAccount
    <3>. QED
      BY <2>1, <3>1, <3>2, <3>3 DEF Backend, LeaveRoom, RemoveMember, SetMemberRole
  <2>. QED
    BY <2>2, ExpiredLongAgo
<1>. QED
  BY <1>1, <1>2, PTL DEF Spec, SilentEndIsLate

LEMMA VerifierStep ==
  ASSUME TypeOK, IssuedInv, VerifierInv, [Next]_vars
  PROVE  VerifierInv'
<1>. gen \in Nat /\ tokens \subseteq Token
  BY DEF TypeOK
<1>. USE DEF VerifierInv, OneVerifierPerGeneration
<1>1. CASE RowFrame
  BY <1>1 DEF RowFrame
<1>2. ASSUME NEW at \in RequestTimes, NEW ttl \in RoomTTLs, NEW link \in LinkRoles,
             RefreshRoom(at, ttl, link)
      PROVE  VerifierInv'
  BY <1>2 DEF RefreshRoom
<1>3. ASSUME NEW at \in RequestTimes, NEW u \in Users, IssueJoinToken(u, at)
      PROVE  VerifierInv'
  <2>1. gen' = gen /\ keyCheck' = keyCheck /\ keyCheck # NoKeyCheck
    BY <1>3 DEF IssueJoinToken
  <2>2. \A t \in tokens' : t \in tokens \/ (t.gen = gen /\ t.verifier = keyCheck)
    BY <1>3 DEF IssueJoinToken
  <2>. QED
    BY <2>1, <2>2
<1>4. ASSUME NEW at \in RequestTimes, RotateGeneration(at)
      PROVE  VerifierInv'
  BY <1>4 DEF RotateGeneration, IssuedInv, Token
<1>5. ASSUME NEW at \in RequestTimes, NEW g \in 1..gen, NEW k \in Keys, SetKeyCheck(at, g, k)
      PROVE  VerifierInv'
  <2>1. /\ gen' = gen /\ tokens' = tokens /\ keyCheck = NoKeyCheck /\ keyCheck'.gen = gen
    BY <1>5 DEF SetKeyCheck
  <2>2. \A t \in tokens : t.gen # gen
    BY <2>1 DEF Token, KeyCheck
  <2>. QED
    BY <2>1, <2>2
<1>. QED
  BY <1>1, <1>2, <1>3, <1>4, <1>5, RowFrameCases

\* Two members of one generation never decrypt under different sealed keys.
THEOREM OneVerifier == Spec => []OneVerifierPerGeneration
<1>1. Init => IssuedInv /\ VerifierInv
  BY DEF Init, IssuedInv, VerifierInv, OneVerifierPerGeneration
<1>2. VerifierInv => OneVerifierPerGeneration
  BY DEF VerifierInv
<1>. QED
  BY TypeInit, TypeStep, IssuedStep, VerifierStep, <1>1, <1>2, PTL DEF Spec

-----------------------------------------------------------------------------
(* A disagreement is always owed to a pushed request: TokenOwed.           *)

LEMMA OwedStep ==
  ASSUME TypeOK, IssuedInv, WindowInv, TokenOwed, [Next]_vars
  PROVE  TokenOwed'
<1>. /\ now \in Nat /\ rev \in Nat /\ gen \in Nat /\ tokens \subseteq Token
     /\ member \in [Users -> Roles \cup {"none", "revoked", "gone"}]
  BY DEF TypeOK
\* A push that outranks every token of the generation settles the matter.
<1>1. ASSUME NEW at, PushControl(gen, AllMembers, rev + 1, at), tokens' = tokens,
             member' = member, status = "active"
      PROVE  TokenOwed'
  <2>1. PICK p : /\ p.gen = gen /\ p.sub = AllMembers /\ p.arev = rev + 1
                 /\ pushed' = pushed \cup {p}
    BY <1>1, PushControlEffect
  <2>2. \A t \in tokens : t.gen = gen => Covers(p, t)
    BY <2>1 DEF Covers, SameScope, IssuedInv, Token
  <2>. QED
    BY <1>1, <2>1, <2>2 DEF TokenOwed, TokenAgrees, Erased, Covers, SameScope
<1>2. ASSUME tokens' = tokens, pushed \subseteq pushed', gen' = gen, member' = member,
             now' \in {now, now + 1},
             status' = status \/ (status \notin {"active", "erased"} /\ status' # "active")
      PROVE  TokenOwed'
  <2>1. ASSUME NEW t \in tokens, TokenAgrees(t)
        PROVE  TokenAgrees(t)'
    BY <1>2, <2>1 DEF TokenAgrees, RoleOf, Token
  <2>2. \A t \in tokens : Erased(t) => Erased(t)'
    BY <1>2 DEF Erased
  <2>. QED
    BY <1>2, <2>1, <2>2 DEF TokenOwed, Covers, SameScope
<1>3. ASSUME NEW at, NEW u \in Users, IssueJoinToken(u, at)
      PROVE  TokenOwed'
  <2>1. /\ status = "active" /\ status' = status /\ gen' = gen /\ pushed' = pushed
        /\ now' = now /\ RoleOf(u) \in Roles /\ linkRole' = linkRole
        /\ member' = [member EXCEPT ![u] = IF @ = "none" THEN RoleOf(u) ELSE @]
    BY <1>3 DEF IssueJoinToken, CanAccessRoom
  <2>2. \A v \in Users : v = Owner \/ member[v] # "none"
          => RoleOf(v)' = RoleOf(v) /\ (v = Owner \/ member'[v] # "none")
    BY <2>1 DEF RoleOf, Roles
  <2>3. RoleOf(u)' = RoleOf(u) /\ (u = Owner \/ member'[u] # "none")
    BY <2>1 DEF RoleOf, Roles
  <2>4. \A t \in tokens : TokenAgrees(t) => TokenAgrees(t)'
    BY <2>1, <2>2 DEF TokenAgrees, Token
  <2>5. \A t \in tokens' : t \in tokens \/ (t.gen = gen /\ t.sub = u /\ t.role = RoleOf(u))
    BY <1>3 DEF IssueJoinToken
  <2>6. \A t \in tokens' : t \in tokens \/ TokenAgrees(t)'
    BY <2>1, <2>3, <2>5 DEF TokenAgrees
  <2>7. \A t \in tokens : Erased(t) => Erased(t)'
    BY <2>1 DEF Erased, Token
  <2>. QED
    BY <2>1, <2>4, <2>6, <2>7 DEF TokenOwed, Covers, SameScope
<1>4. ASSUME NEW at, NEW u \in Users, NEW m, ChangeMember(u, m, at), status = "active",
             member[u] # "gone"
      PROVE  TokenOwed'
  <2>1. PICK p : /\ p.gen = gen /\ p.sub = u /\ p.arev = rev + 1
                 /\ pushed' = pushed \cup {p}
    BY <1>4, PushControlEffect DEF ChangeMember
  <2>2. /\ tokens' = tokens /\ status' = status /\ gen' = gen /\ now' = now
        /\ linkRole' = linkRole /\ member' = [member EXCEPT ![u] = m]
    BY <1>4 DEF ChangeMember
  <2>3. \A t \in tokens : t.gen = gen /\ t.sub = u => Covers(p, t)
    BY <2>1 DEF Covers, SameScope, IssuedInv, Token
  <2>4. \A t \in tokens : TokenAgrees(t) /\ t.sub # u => TokenAgrees(t)'
    BY <2>2 DEF TokenAgrees, RoleOf, Token
  <2>5. \A t \in tokens : Erased(t) => Erased(t)'
    BY <1>4, <2>2 DEF Erased, Token
  <2>. QED
    BY <2>1, <2>2, <2>3, <2>4, <2>5 DEF TokenOwed, TokenAgrees, Covers, SameScope
<1>5. ASSUME NEW at \in RequestTimes, RetireExpiredRoom(at)
      PROVE  TokenOwed'
  <2>1. /\ tokens' = tokens /\ pushed' = pushed /\ gen' = gen /\ member' = member
        /\ now' = now /\ linkRole' = linkRole /\ status = "active"
    BY <1>5 DEF RetireExpiredRoom
  <2>2. \A t \in tokens : t.rexp <= now
    BY <1>5, ExpiredLongAgo
  <2>3. \A t \in tokens : TokenAgrees(t) => TokenAgrees(t)'
    BY <2>1, <2>2 DEF TokenAgrees, RoleOf
  <2>4. \A t \in tokens : Erased(t) => Erased(t)'
    BY <2>1 DEF Erased
  <2>. QED
    BY <2>1, <2>3, <2>4 DEF TokenOwed, Covers, SameScope
<1>6. ASSUME NEW at \in RequestTimes, EndRoom(at) \/ RetireAccount(at) \/ RotateGeneration(at)
      PROVE  TokenOwed'
  <2>1. CASE status = "active"
    BY <1>1, <1>6, <2>1 DEF EndRoom, RetireAccount, RotateGeneration
  <2>2. CASE status # "active"
    <3>1. pushed \subseteq pushed'
      BY <1>6, BackendFrame DEF Backend
    <3>. QED
      BY <1>2, <1>6, <2>2, <3>1 DEF EndRoom, RetireAccount, RotateGeneration, CanAccessRoom
  <2>. QED
    BY <2>1, <2>2
<1>7. ASSUME EraseRoom
      PROVE  TokenOwed'
  BY <1>7 DEF EraseRoom, TokenOwed, Erased
<1>8. ASSUME NEW u \in Users, EraseAccount(u)
      PROVE  TokenOwed'
  <2>1. /\ tokens' = tokens /\ pushed' = pushed /\ gen' = gen /\ now' = now
        /\ linkRole' = linkRole /\ status' = status
        /\ member' = [member EXCEPT ![u] = "gone"]
    BY <1>8 DEF EraseAccount, relayVars
  <2>2. \A t \in tokens : t.sub = u \/ Erased(t) => Erased(t)'
    BY <2>1 DEF Erased, Token
  <2>3. \A t \in tokens : TokenAgrees(t) /\ t.sub # u => TokenAgrees(t)'
    BY <2>1 DEF TokenAgrees, RoleOf, Token
  <2>. QED
    BY <2>1, <2>2, <2>3 DEF TokenOwed, Covers, SameScope
<1>9. CASE Backend
  <2>1. PICK at \in RequestTimes :
       \/ \E ttl \in RoomTTLs, link \in LinkRoles : RefreshRoom(at, ttl, link)
       \/ \E g \in 1..gen, k \in Keys : SetKeyCheck(at, g, k)
       \/ \E u \in Users : IssueJoinToken(u, at) \/ LeaveRoom(u, at) \/ RemoveMember(u, at)
       \/ \E u \in Users, role \in GrantedRoles : SetMemberRole(u, role, at)
       \/ \E link \in LinkRoles : SetLinkRole(at, link)
       \/ RotateGeneration(at) \/ EndRoom(at) \/ RetireAccount(at) \/ RetireExpiredRoom(at)
       \/ EraseRoom \/ \E u \in Users : EraseAccount(u)
    BY <1>9 DEF Backend
  <2>2. ASSUME \/ \E ttl \in RoomTTLs, link \in LinkRoles : RefreshRoom(at, ttl, link)
               \/ \E g \in 1..gen, k \in Keys : SetKeyCheck(at, g, k)
               \/ \E link \in LinkRoles : SetLinkRole(at, link)
        PROVE  TokenOwed'
    BY <1>2, <2>2 DEF RefreshRoom, SetKeyCheck, SetLinkRole
  <2>3. ASSUME NEW u \in Users,
               \/ LeaveRoom(u, at) \/ RemoveMember(u, at)
               \/ \E role \in GrantedRoles : SetMemberRole(u, role, at)
        PROVE  TokenOwed'
    BY <1>4, <2>3 DEF LeaveRoom, RemoveMember, SetMemberRole, CanAccessRoom, RoleOf
  <2>. QED
    BY <1>3, <1>5, <1>6, <1>7, <1>8, <2>1, <2>2, <2>3
<1>10. CASE Relay
  BY <1>2, <1>10, RelayFrame DEF roomVars
<1>11. CASE UNCHANGED vars
  BY <1>2, <1>11 DEF vars, roomVars
<1>. QED
  BY <1>9, <1>10, <1>11 DEF Next

\* Only a lost or late push, or a cascade that pushes nothing, explains a session
\* the database disagrees with.
THEOREM DivergenceOwed == Spec => []DivergenceIsOwed
<1>1. Init => WindowInv /\ TokenOwed
  BY WindowInit DEF Init, TokenOwed
<1>2. SessionInv /\ TokenOwed => DivergenceIsOwed
  <2>. SUFFICES ASSUME SessionInv, TokenOwed, NEW c \in Conns, session[c] # NoSession
                PROVE  Agrees(session[c]) \/ Erased(session[c]) \/ \E p \in pushed : Covers(p, session[c])
    BY DEF DivergenceIsOwed
  <2>1. PICK t \in tokens : /\ t.gen = session[c].gen /\ t.sub = session[c].sub
                            /\ t.arev = session[c].arev /\ t.role = session[c].role
                            /\ t.rexp = session[c].rexp
    BY DEF SessionInv
  <2>2. TokenAgrees(t) => Agrees(session[c])
    BY <2>1 DEF TokenAgrees, Agrees
  <2>3. \A p \in pushed : Covers(p, t) => Covers(p, session[c])
    BY <2>1 DEF Covers, SameScope
  <2>4. Erased(t) => Erased(session[c])
    BY <2>1 DEF Erased
  <2>. QED
    BY <2>2, <2>3, <2>4 DEF TokenOwed
<1>3. RelayInv => TypeOK /\ IssuedInv /\ SessionInv
  BY DEF RelayInv
<1>. QED
  BY RelayInvInvariant, WindowStep, OwedStep, <1>1, <1>2, <1>3, PTL DEF Spec
=============================================================================
