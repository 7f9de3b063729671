--------------------------- MODULE Components_proofs ---------------------------
(***************************************************************************)
(* What the components that share no state promise, for any constants.     *)
(*                                                                         *)
(* A behaviour of MCComponents is about the component in focus, whose      *)
(* state is in v1, v2, ...; so an invariant of that component, under its   *)
(* focus, is one of ComponentsSpec.  OperatorGrants and RelayBudgets are   *)
(* proved here, in the slots they have there; the others in modules of     *)
(* their own, whose instances are matched with those of MCComponents:      *)
(* RoomKeys, AssetTransfer, SharedLinks, SceneCatalog, RelayTransport,     *)
(* WirePath and RelayProcess in RoomKeys_proofs; RoomEntry, RoomSession    *)
(* and SceneSync in RoomEntry_proofs.                                      *)
(***************************************************************************)
EXTENDS MCComponents, TLAPS, FiniteSetTheorems


-----------------------------------------------------------------------------
(* OperatorGrants.  v1 account, v2 grant, v3 request, v4 job, v5 event,      *)
(* v6 done, v7 orphaned.                                                   *)
LEMMA OperatorsCount ==
  ASSUME NEW S
  PROVE  /\ Operators!Cardinality(S) = Cardinality(S)
         /\ Operators!IsFiniteSet(S) = IsFiniteSet(S)
BY DEF Operators!Cardinality, Cardinality, Operators!IsFiniteSet, IsFiniteSet

LEMMA GrantsInit == Operators!Init => Operators!GrantsInv
<1>. SUFFICES ASSUME Operators!Init PROVE Operators!GrantsInv
  OBVIOUS
<1>. USE DEF Operators!Init, Operators!Idle, Operators!NoEvent
<1>1. Operators!Shapes
  BY DEF Operators!Shapes, Operators!Requests, Operators!Jobs, Operators!Events, Operators!Someone,
     Operators!Something
<1>2. Operators!Active = {} /\ v6 = {}
  BY DEF Operators!Active
<1>3. Operators!RequestsRecorded
  BY DEF Operators!RequestsRecorded, Operators!TargetsKnown, Operators!EventsOpen,
     Operators!EventsOwn, Operators!OutcomesKept, Operators!At, Operators!HasEvent
<1>4. Operators!JobsInTurn /\ Operators!LastOperatorStays
  <2>1. Operators!Granted = {}
    BY DEF Operators!Granted
  <2>2. Operators!IsFiniteSet(Operators!Granted) /\ Operators!Cardinality(Operators!Granted) = 0
    BY <2>1, FS_EmptySet, OperatorsCount
  <2>. QED
    BY <1>2, <2>2 DEF Operators!JobsInTurn, Operators!LastOperatorStays, Operators!At
<1>5. Operators!AuditTruthful /\ Operators!GrantsTraced
  BY <1>2 DEF Operators!AuditTruthful, Operators!GrantsTraced
<1>. QED
  BY <1>1, <1>3, <1>4, <1>5 DEF Operators!GrantsInv

LEMMA GrantsReadGrants ==
  ASSUME Operators!GrantsInv, NEW j \in Bootstrap, NEW u \in Operator, Operators!ReadGrants(j, u)
  PROVE  Operators!GrantsInv'
<1>. USE DEF Operators!GrantsInv, Operators!ReadGrants
<1>1. Operators!Shapes'
  BY DEF Operators!Shapes, Operators!Jobs, Operators!Someone
<1>2. Operators!Active' = Operators!Active /\ Operators!Used' = Operators!Used
  BY DEF Operators!Active, Operators!Used
<1>3. Operators!RequestsRecorded' /\ Operators!AuditTruthful' /\ Operators!GrantsTraced'
  BY <1>2 DEF Operators!RequestsRecorded, Operators!TargetsKnown, Operators!EventsOpen,
     Operators!EventsOwn, Operators!OutcomesKept, Operators!At, Operators!HasEvent,
     Operators!AuditTruthful, Operators!GrantsTraced
<1>4. /\ v4[j].pc = "idle" /\ \A i \in Bootstrap : v4[i].pc # "read"
      /\ v4'[j].pc \in {"read", "closed"} /\ v4'[j].target = u /\ (v4'[j].empty => Operators!Active = {})
      /\ \A i \in Bootstrap \ {j} : v4'[i] = v4[i]
  BY DEF Operators!Shapes, Operators!LockFree
<1>5. Operators!Granted' = Operators!Granted
  BY <1>4 DEF Operators!Granted
<1>6. Operators!LastOperatorStays'
  BY <1>2, <1>5 DEF Operators!LastOperatorStays
<1>7. Operators!JobsInTurn'
  <2>1. Operators!Active = {} => Operators!Cardinality(Operators!Granted) <= v7
    BY FS_CardinalityType, OperatorsCount DEF Operators!LastOperatorStays, Operators!JobsInTurn,
       Operators!Shapes
  <2>. QED
    BY <1>4, <1>5, <2>1 DEF Operators!JobsInTurn, Operators!At
<1>. QED
  BY <1>1, <1>3, <1>6, <1>7

(* An event that is new, or completed, leaves the others as they are.      *)
LEMMA EventAdded ==
  ASSUME Operators!Shapes, NEW n \in Operators!Numbers \ Operators!Used, NEW e \in [actor : Operators!Someone, action : Operators!Actions,
         target : Operators!Someone, status : {"started", "succeeded"}],
         v5' = [v5 EXCEPT ![n] = e]
  PROVE  /\ v5'[n] = e /\ Operators!Used' = Operators!Used \union {n} /\ \A m \in Operators!Used : v5'[m] = v5[m]
         /\ v5' \in [Operators!Numbers -> Operators!Events]
<1>1. e # Operators!NoEvent
  BY DEF Operators!NoEvent, Operators!Actions
<1>2. v5'[n] = e /\ \A m \in Operators!Numbers \ {n} : v5'[m] = v5[m]
  BY DEF Operators!Shapes
<1>. QED
  BY <1>1, <1>2 DEF Operators!Used, Operators!Shapes, Operators!Events, Operators!Something

LEMMA GrantsGrantFirst ==
  ASSUME Operators!GrantsInv, NEW j \in Bootstrap, Operators!GrantFirst(j)
  PROVE  Operators!GrantsInv'
<1>. USE DEF Operators!GrantsInv
<1>u. PICK u : u = v4[j].target
  OBVIOUS
<1>0. u \in Operator /\ v4[j].pc = "read"
  BY <1>u DEF Operators!GrantFirst, Operators!JobsInTurn
<1>1. CASE v2' = v2 /\ UNCHANGED <<v5, v6>>
  <2>1. v4' = [v4 EXCEPT ![j].pc = "closed"] /\ UNCHANGED <<v1, v2, v3, v5, v6, v7>>
    BY <1>1 DEF Operators!GrantFirst
  <2>2. Operators!Shapes'
    BY <2>1 DEF Operators!Shapes, Operators!Jobs
  <2>3. Operators!Active' = Operators!Active /\ Operators!Used' = Operators!Used
    BY <2>1 DEF Operators!Active, Operators!Used
  <2>4. Operators!RequestsRecorded' /\ Operators!AuditTruthful' /\ Operators!GrantsTraced'
    BY <2>1, <2>3 DEF Operators!RequestsRecorded, Operators!TargetsKnown, Operators!EventsOpen,
       Operators!EventsOwn, Operators!OutcomesKept, Operators!At, Operators!HasEvent,
       Operators!AuditTruthful, Operators!GrantsTraced
  <2>5. Operators!Granted' = Operators!Granted
    BY <1>0, <2>1 DEF Operators!Granted, Operators!Shapes
  <2>6. Operators!JobsInTurn' /\ Operators!LastOperatorStays'
    BY <2>1, <2>3, <2>5 DEF Operators!JobsInTurn, Operators!LastOperatorStays, Operators!Shapes,
       Operators!At
  <2>. QED
    BY <2>2, <2>4, <2>6
<1>2. CASE /\ v4[j].empty /\ v1[u] # "gone" /\ Operators!Used # Operators!Numbers
           /\ v2' = [v2 EXCEPT ![u] = "active"]
  <2>. PICK n \in Operators!Numbers \ Operators!Used :
         /\ v5' = [v5 EXCEPT ![n] = [actor |-> u, action |-> "grant-admin",
                                     target |-> u, status |-> "succeeded"]]
         /\ v6' = v6 \union {n}
    BY <1>u, <1>2 DEF Operators!GrantFirst
  <2>1. v4' \in {[v4 EXCEPT ![j].pc = "closed"], [v4 EXCEPT ![j].pc = "granted"]}
        /\ UNCHANGED <<v1, v3, v7>>
    BY DEF Operators!GrantFirst
  <2>2. /\ v5'[n] = [actor |-> u, action |-> "grant-admin", target |-> u, status |-> "succeeded"]
        /\ Operators!Used' = Operators!Used \union {n} /\ \A m \in Operators!Used : v5'[m] = v5[m]
        /\ v5' \in [Operators!Numbers -> Operators!Events]
    BY EventAdded, <1>0 DEF Operators!Someone, Operators!Actions
  <2>3. Operators!Shapes'
    <3>1. v4' \in [Bootstrap -> Operators!Jobs]
      BY <2>1 DEF Operators!Shapes, Operators!Jobs
    <3>. QED
      BY <3>1, <1>0, <1>2, <2>1, <2>2 DEF Operators!Shapes
  <2>4. Operators!Active' = Operators!Active \union {u}
    BY <1>0, <1>2 DEF Operators!Active, Operators!Shapes
  <2>5. Operators!RequestsRecorded'
    BY <2>1, <2>2 DEF Operators!RequestsRecorded, Operators!TargetsKnown, Operators!EventsOpen,
       Operators!EventsOwn, Operators!OutcomesKept, Operators!At, Operators!HasEvent
  <2>7. Operators!AuditTruthful'
    BY <2>2 DEF Operators!AuditTruthful, Operators!Used, Operators!NoEvent
  <2>8. Operators!GrantsTraced'
    <3>. SUFFICES ASSUME NEW w \in Operators!Active'
                  PROVE  \E m \in v6' : v5'[m].action = "grant-admin" /\ v5'[m].target = w
      BY DEF Operators!GrantsTraced
    <3>1. CASE w = u
      BY <3>1, <2>2
    <3>2. CASE w \in Operators!Active
      <4>. PICK m \in v6 : v5[m].action = "grant-admin" /\ v5[m].target = w
        BY <3>2 DEF Operators!GrantsTraced
      <4>. QED
        BY <2>2 DEF Operators!AuditTruthful
    <3>. QED
      BY <3>1, <3>2, <2>4
  <2>9. /\ v4'[j].pc \in {"closed", "granted"}
        /\ \A i \in Bootstrap \ {j} : v4'[i] = v4[i] /\ v4[i].pc # "read"
    BY <1>0, <2>1 DEF Operators!JobsInTurn, Operators!Shapes, Operators!Jobs
  <2>10. /\ Operators!Granted' \in {Operators!Granted, Operators!Granted \union {j}} /\ j \notin Operators!Granted
         /\ v4'[j].pc = "granted" => Operators!Granted' = Operators!Granted \union {j}
    BY <1>0, <2>9 DEF Operators!Granted
  <2>11. /\ Operators!IsFiniteSet(Operators!Granted') /\ Operators!Cardinality(Operators!Granted) \in Nat
         /\ Operators!Cardinality(Operators!Granted') \in Nat /\ Operators!Cardinality(Operators!Granted') <= Operators!Cardinality(Operators!Granted) + 1
    <3>1. PICK G, H : G = Operators!Granted /\ H = Operators!Granted'
      OBVIOUS
    <3>2. Operators!IsFiniteSet(G) /\ j \notin G /\ (H = G \/ H = G \union {j})
      BY <2>10, <3>1 DEF Operators!JobsInTurn
    <3>3. Operators!IsFiniteSet(G \union {j}) /\ Operators!Cardinality(G \union {j}) = Operators!Cardinality(G) + 1
      BY <3>2, FS_AddElement, OperatorsCount
    <3>4. Operators!Cardinality(G) \in Nat
      BY <3>2, FS_CardinalityType, OperatorsCount
    <3>5. CASE H = G
      BY <3>1, <3>2, <3>4, <3>5
    <3>6. CASE H = G \union {j}
      <4>. PICK c \in Nat : c = Operators!Cardinality(G) /\ c + 1 = Operators!Cardinality(H)
        BY <3>3, <3>4, <3>6
      <4>. QED
        BY <3>1, <3>3, <3>6
    <3>. QED
      BY <3>2, <3>5, <3>6
  <2>12. Operators!Cardinality(Operators!Granted) <= v7 /\ v7 \in Nat
    BY <1>0, <1>2 DEF Operators!JobsInTurn, Operators!Shapes
  <2>13. Operators!Granted' # {}
    <3>1. v4'[j].pc = "granted" \/ v2' = v2
      BY <1>u, <1>2, <2>9 DEF Operators!GrantFirst, Operators!Shapes
    <3>2. v2' = v2 => Operators!Granted # {}
      <4>. SUFFICES ASSUME v2' = v2 PROVE v6 # {}
        BY DEF Operators!LastOperatorStays
      <4>1. u \in Operators!Active
        BY <2>4, <1>0 DEF Operators!Active
      <4>. QED
        BY <4>1 DEF Operators!GrantsTraced
    <3>. QED
      BY <3>1, <3>2, <2>10
  <2>14. Operators!LastOperatorStays'
    BY <2>1, <2>4, <2>11, <2>12, <2>13 DEF Operators!LastOperatorStays
  <2>15. Operators!JobsInTurn'
    BY <2>1, <2>9, <2>11, <2>13 DEF Operators!JobsInTurn
  <2>. QED
    BY <2>3, <2>5, <2>7, <2>8, <2>14, <2>15
<1>. QED
  BY <1>u, <1>1, <1>2 DEF Operators!GrantFirst

LEMMA GrantsAdmit ==
  ASSUME Operators!GrantsInv, NEW u \in Operator, NEW action \in Operators!Actions, NEW target \in Operator,
         Operators!Admit(u, action, target)
  PROVE  Operators!GrantsInv'
<1>. USE DEF Operators!GrantsInv
<1>0. PICK r : r = [Operators!Idle EXCEPT !.pc = "admitted", !.action = action, !.target = target]
  OBVIOUS
<1>1. /\ v3' = [v3 EXCEPT ![u] = r]
      /\ u \in Operators!Active /\ UNCHANGED <<v1, v2, v4, v5, v6, v7>>
  BY <1>0 DEF Operators!Admit
<1>2. Operators!Shapes' /\ r.pc = "admitted" /\ r.action = action /\ r.target = target
  <2>1. Operators!Idle \in Operators!Requests
    BY DEF Operators!Idle, Operators!Requests, Operators!Someone, Operators!Something
  <2>2. r \in Operators!Requests /\ r.pc = "admitted" /\ r.action = action /\ r.target = target
    BY <1>0, <2>1 DEF Operators!Requests, Operators!Someone, Operators!Something
  <2>. QED
    BY <1>1, <2>2 DEF Operators!Shapes
<1>3. Operators!Active' = Operators!Active /\ Operators!Used' = Operators!Used
  BY <1>1 DEF Operators!Active, Operators!Used
<1>4. Operators!RequestsRecorded'
  BY <1>1, <1>2, <1>3 DEF Operators!RequestsRecorded, Operators!TargetsKnown, Operators!EventsOpen,
     Operators!EventsOwn, Operators!OutcomesKept, Operators!At, Operators!HasEvent,
     Operators!Shapes
<1>5. Operators!AuditTruthful' /\ Operators!GrantsTraced'
  BY <1>1, <1>3 DEF Operators!AuditTruthful, Operators!GrantsTraced
<1>6. Operators!JobsInTurn' /\ Operators!LastOperatorStays'
  <2>1. Operators!Granted # {}
    BY <1>1 DEF Operators!GrantsTraced, Operators!LastOperatorStays
  <2>2. Operators!Granted' = Operators!Granted
    BY <1>1 DEF Operators!Granted
  <2>. QED
    BY <1>1, <1>3, <2>1, <2>2 DEF Operators!JobsInTurn, Operators!LastOperatorStays
<1>. QED
  BY <1>2, <1>4, <1>5, <1>6

LEMMA GrantsBeginAudit ==
  ASSUME Operators!GrantsInv, NEW u \in Operator, Operators!BeginAudit(u)
  PROVE  Operators!GrantsInv'
<1>. USE DEF Operators!GrantsInv
<1>0. PICK n \in Operators!Numbers \ Operators!Used :
       /\ v5' = [v5 EXCEPT ![n] = [actor |-> u, action |-> v3[u].action,
                                   target |-> v3[u].target, status |-> "started"]]
       /\ v3' = [v3 EXCEPT ![u].pc = "begun", ![u].number = n]
  BY DEF Operators!BeginAudit
<1>1. Operators!At(u, "admitted") /\ UNCHANGED <<v1, v2, v4, v6, v7>>
  BY DEF Operators!BeginAudit
<1>2. v3[u].action \in Operators!Actions /\ v3[u].target \in Operator
  BY <1>1 DEF Operators!RequestsRecorded, Operators!TargetsKnown, Operators!EventsOpen,
     Operators!EventsOwn, Operators!OutcomesKept, Operators!At
<1>3. /\ v5'[n] = [actor |-> u, action |-> v3[u].action, target |-> v3[u].target,
                   status |-> "started"]
      /\ Operators!Used' = Operators!Used \union {n} /\ \A m \in Operators!Used : v5'[m] = v5[m]
      /\ v5' \in [Operators!Numbers -> Operators!Events]
  BY <1>0, <1>2, EventAdded DEF Operators!Someone
<1>4. /\ v3'[u] = [v3[u] EXCEPT !.pc = "begun", !.number = n]
      /\ \A w \in Operator \ {u} : v3'[w] = v3[w]
  BY <1>0 DEF Operators!Shapes
<1>5. Operators!Shapes'
  <2>1. n \in Nat
    BY DEF Operators!Numbers
  <2>2. v3'[u] \in Operators!Requests /\ v3' = [v3 EXCEPT ![u] = v3'[u]]
    BY <1>0, <1>4, <2>1 DEF Operators!Shapes, Operators!Requests
  <2>. QED
    BY <1>1, <1>3, <2>2 DEF Operators!Shapes
<1>6. Operators!Active' = Operators!Active
  BY <1>1 DEF Operators!Active
<1>7. Operators!RequestsRecorded'
  <2>1. /\ v3'[u].pc = "begun" /\ v3'[u].number = n /\ v3'[u].action = v3[u].action
        /\ v3'[u].target = v3[u].target
    BY <1>4 DEF Operators!Shapes, Operators!Requests
  <2>2. \A x \in Operator \ {u} : Operators!HasEvent(x) => v3[x].number \in Operators!Used /\ v3[x].number # n
    BY DEF Operators!RequestsRecorded, Operators!EventsOpen
  <2>3. Operators!TargetsKnown'
    BY <2>1, <1>2, <1>4 DEF Operators!At, Operators!RequestsRecorded, Operators!TargetsKnown
  <2>4. Operators!EventsOpen'
    <3>. SUFFICES ASSUME NEW w \in Operator, Operators!HasEvent(w)'
                  PROVE  /\ v3'[w].number \in Operators!Used'
                         /\ v5'[v3'[w].number].action = v3'[w].action
                         /\ v5'[v3'[w].number].target = v3'[w].target
                         /\ v5'[v3'[w].number].status = "started"
      BY DEF Operators!EventsOpen
    <3>1. CASE w = u
      BY <3>1, <2>1, <1>3
    <3>2. CASE w # u
      BY <3>2, <2>2, <1>3, <1>4 DEF Operators!HasEvent, Operators!RequestsRecorded,
         Operators!EventsOpen
    <3>. QED
      BY <3>1, <3>2
  <2>5. Operators!EventsOwn'
    <3>1. \A x \in Operator \ {u} : Operators!HasEvent(x)' => Operators!HasEvent(x) /\ v3'[x].number = v3[x].number
      BY <1>4 DEF Operators!HasEvent
    <3>2. \A x, y \in Operator \ {u} : Operators!HasEvent(x) /\ Operators!HasEvent(y) /\ v3[x].number = v3[y].number
            => x = y
      BY DEF Operators!RequestsRecorded, Operators!EventsOwn
    <3>. QED
      BY <3>1, <3>2, <2>1, <2>2 DEF Operators!EventsOwn
  <2>6. Operators!OutcomesKept'
    BY <2>1, <1>1, <1>4 DEF Operators!At, Operators!RequestsRecorded, Operators!OutcomesKept
  <2>. QED
    BY <2>3, <2>4, <2>5, <2>6 DEF Operators!RequestsRecorded
<1>8. Operators!Granted' = Operators!Granted
  BY <1>1 DEF Operators!Granted
<1>9. Operators!JobsInTurn' /\ Operators!LastOperatorStays'
  BY <1>1, <1>6, <1>8 DEF Operators!JobsInTurn, Operators!LastOperatorStays, Operators!At
<1>10. Operators!AuditTruthful' /\ Operators!GrantsTraced'
  <2>1. v6' = v6 /\ \A m \in v6 : m \in Operators!Used' /\ v5'[m] = v5[m]
    BY <1>1, <1>3 DEF Operators!AuditTruthful
  <2>2. \A m \in Operators!Numbers \ {n} : v5'[m] = v5[m]
    BY <1>0 DEF Operators!Shapes
  <2>3. Operators!AuditTruthful'
    BY <2>1, <2>2, <1>3 DEF Operators!AuditTruthful
  <2>. QED
    BY <2>1, <2>3, <1>6 DEF Operators!GrantsTraced
<1>. QED
  BY <1>5, <1>7, <1>9, <1>10

(* A request that moves on with its event as it is.                         *)
LEMMA RequestMoves ==
  ASSUME Operators!Shapes, Operators!RequestsRecorded, NEW u \in Operator, Operators!At(u, "begun"), NEW failed \in BOOLEAN,
         Operators!Finish(u, failed), v5' = v5, v6 \subseteq v6',
         failed \/ v3[u].number \in v6'
  PROVE  Operators!RequestsRecorded'
<1>1. /\ v3'[u] = [v3[u] EXCEPT !.pc = "ran", !.failed = failed]
      /\ \A w \in Operator \ {u} : v3'[w] = v3[w]
  BY DEF Operators!Finish, Operators!Shapes
<1>2. /\ v3'[u].pc = "ran" /\ v3'[u].number = v3[u].number
      /\ v3'[u].action = v3[u].action /\ v3'[u].target = v3[u].target
      /\ v3'[u].failed = failed
  BY <1>1 DEF Operators!Shapes
<1>3. Operators!Used' = Operators!Used
  BY DEF Operators!Used
<1>4. /\ \A w \in Operator : Operators!HasEvent(w)' => Operators!HasEvent(w)
      /\ \A w \in Operator : /\ v3'[w].number = v3[w].number
                             /\ v3'[w].action = v3[w].action
                             /\ v3'[w].target = v3[w].target
  BY <1>1, <1>2 DEF Operators!At, Operators!HasEvent
<1>5. Operators!TargetsKnown'
  BY <1>1, <1>2 DEF Operators!At, Operators!RequestsRecorded, Operators!TargetsKnown
<1>6. Operators!EventsOpen'
  BY <1>3, <1>4 DEF Operators!RequestsRecorded, Operators!EventsOpen
<1>7. Operators!EventsOwn'
  BY <1>4 DEF Operators!RequestsRecorded, Operators!EventsOwn
<1>8. Operators!OutcomesKept'
  BY <1>1, <1>2 DEF Operators!At, Operators!RequestsRecorded, Operators!OutcomesKept
<1>. QED
  BY <1>5, <1>6, <1>7, <1>8 DEF Operators!RequestsRecorded

LEMMA GrantsRun ==
  ASSUME Operators!GrantsInv, NEW u \in Operator, Operators!Run(u)
  PROVE  Operators!GrantsInv'
<1>. USE DEF Operators!GrantsInv
<1>1. /\ Operators!At(u, "begun") /\ Operators!Allowed(u) /\ Operators!Finish(u, FALSE)
      /\ v6' = v6 \union {v3[u].number} /\ UNCHANGED <<v4, v5>>
  BY DEF Operators!Run
<1>2. PICK t \in Operator, a \in Operators!Actions, n \in Operators!Used :
        /\ t = v3[u].target /\ a = v3[u].action /\ n = v3[u].number
        /\ v5[n].action = a /\ v5[n].target = t
  BY <1>1 DEF Operators!RequestsRecorded, Operators!TargetsKnown, Operators!EventsOpen,
     Operators!EventsOwn, Operators!OutcomesKept, Operators!At, Operators!HasEvent
<1>3. PICK g : g = CASE a = "grant-admin" -> "active" [] a = "revoke-admin" -> "revoked"
                     [] a = "retire-account" -> "none"
  OBVIOUS
<1>4. g \in {"active", "revoked", "none"} /\ (a = "grant-admin") = (g = "active")
  BY <1>3 DEF Operators!Actions
<1>5. v2' = [v2 EXCEPT ![t] = g]
  BY <1>2, <1>3 DEF Operators!Run
<1>6. /\ v7' = IF u \notin Operators!Active /\ Operators!Active # {} /\ Operators!Active' = {} THEN v7 + 1 ELSE v7
      /\ v1' \in [Operator -> {"verified", "unverified", "gone"}]
  BY <1>2 DEF Operators!Run, Operators!Shapes
<1>7. a # "grant-admin" => t # u
  BY <1>1, <1>2 DEF Operators!Allowed, Operators!Actions
<1>8. Operators!Used' = Operators!Used /\ n \in Operators!Numbers
  BY <1>1, <1>2 DEF Operators!Used
<1>9. v3' = [v3 EXCEPT ![u].pc = "ran", ![u].failed = FALSE]
  BY <1>1 DEF Operators!Finish
<1>10. Operators!Shapes'
  <2>1. v3' \in [Operator -> Operators!Requests]
    BY <1>9 DEF Operators!Shapes, Operators!Requests
  <2>2. v2' \in [Operator -> {"none", "active", "revoked"}]
    BY <1>4, <1>5 DEF Operators!Shapes
  <2>3. v7' \in Nat
    BY <1>6 DEF Operators!Shapes
  <2>. QED
    BY <2>1, <2>2, <2>3, <1>1, <1>2, <1>6, <1>8 DEF Operators!Shapes
<1>11. Operators!RequestsRecorded'
  BY <1>1, <1>2, RequestMoves
<1>12. Operators!Active' = IF g = "active" THEN Operators!Active \union {t} ELSE Operators!Active \ {t}
  BY <1>4, <1>5 DEF Operators!Active, Operators!Shapes
<1>13. Operators!AuditTruthful'
  BY <1>1, <1>2, <1>8 DEF Operators!AuditTruthful
<1>14. Operators!GrantsTraced'
  <2>. SUFFICES ASSUME NEW w \in Operators!Active'
                PROVE  \E m \in v6' : v5'[m].action = "grant-admin" /\ v5'[m].target = w
    BY DEF Operators!GrantsTraced
  <2>1. CASE g = "active" /\ w = t
    BY <2>1, <1>1, <1>2, <1>4
  <2>2. CASE w \in Operators!Active
    BY <2>2, <1>1 DEF Operators!GrantsTraced
  <2>. QED
    BY <2>1, <2>2, <1>12
<1>15. Operators!Granted' = Operators!Granted /\ Operators!Granted # {}
  BY <1>1 DEF Operators!Granted, Operators!JobsInTurn, Operators!At
<1>16. /\ v7 \in Nat /\ v7' \in Nat /\ v7 <= v7'
       /\ Operators!Active # {} /\ Operators!Active' = {} => v7' = v7 + 1
  <2>1. u \in Operators!Active => u \in Operators!Active'
    BY <1>4, <1>7, <1>12
  <2>. QED
    BY <1>6, <2>1 DEF Operators!Shapes
<1>17. Operators!JobsInTurn' /\ Operators!LastOperatorStays'
  <2>1. Operators!IsFiniteSet(Operators!Granted) /\ Operators!Cardinality(Operators!Granted) \in Nat
    BY FS_CardinalityType, OperatorsCount DEF Operators!JobsInTurn
  <2>2. PICK c \in Nat : c = Operators!Cardinality(Operators!Granted) /\ c = Operators!Cardinality(Operators!Granted')
    BY <1>15, <2>1
  <2>3. Operators!LastOperatorStays'
    BY <1>15, <1>16, <2>2 DEF Operators!LastOperatorStays
  <2>4. \A j \in Bootstrap : v4[j].pc = "read" /\ v4[j].empty => c <= v7'
    BY <1>16, <2>2 DEF Operators!JobsInTurn
  <2>. QED
    BY <1>1, <1>15, <2>1, <2>2, <2>3, <2>4 DEF Operators!JobsInTurn
<1>. QED
  BY <1>10, <1>11, <1>13, <1>14, <1>17

LEMMA GrantsRunFails ==
  ASSUME Operators!GrantsInv, NEW u \in Operator, Operators!RunFails(u)
  PROVE  Operators!GrantsInv'
<1>. USE DEF Operators!GrantsInv
<1>1. Operators!At(u, "begun") /\ Operators!Finish(u, TRUE) /\ UNCHANGED <<v1, v2, v4, v5, v6, v7>>
  BY DEF Operators!RunFails
<1>2. Operators!Shapes'
  BY <1>1 DEF Operators!Shapes, Operators!Finish, Operators!Requests
<1>3. Operators!RequestsRecorded'
  BY <1>1, RequestMoves
<1>4. Operators!Active' = Operators!Active /\ Operators!Used' = Operators!Used
  BY <1>1 DEF Operators!Active, Operators!Used
<1>5. Operators!AuditTruthful' /\ Operators!GrantsTraced'
  BY <1>1, <1>4 DEF Operators!AuditTruthful, Operators!GrantsTraced
<1>6. Operators!JobsInTurn' /\ Operators!LastOperatorStays'
  <2>1. Operators!Granted' = Operators!Granted
    BY <1>1 DEF Operators!Granted
  <2>. QED
    BY <1>1, <1>4, <2>1 DEF Operators!JobsInTurn, Operators!LastOperatorStays, Operators!At
<1>. QED
  BY <1>2, <1>3, <1>5, <1>6

(* The end of a request, with its event completed or not.                   *)
LEMMA GrantsCompletion ==
  ASSUME Operators!GrantsInv, NEW u \in Operator, Operators!At(u, "ran"), v3' = [v3 EXCEPT ![u] = Operators!Idle],
         NEW status \in {"started", "succeeded", "failed"},
         status = "succeeded" => ~v3[u].failed,
         v5' = [v5 EXCEPT ![v3[u].number].status = status],
         UNCHANGED <<v1, v2, v4, v6, v7>>
  PROVE  Operators!GrantsInv'
<1>. USE DEF Operators!GrantsInv
<1>1. PICK n \in Operators!Used : /\ n = v3[u].number /\ v5[n].status = "started"
                                  /\ ~v3[u].failed => n \in v6
                                  /\ \A w \in Operator \ {u} : Operators!HasEvent(w) => v3[w].number # n
  BY DEF Operators!RequestsRecorded, Operators!TargetsKnown, Operators!EventsOpen,
     Operators!EventsOwn, Operators!OutcomesKept, Operators!At, Operators!HasEvent
<1>2. n \in Operators!Numbers
  BY DEF Operators!Used
<1>3. /\ v5'[n].status = status /\ v5'[n].action = v5[n].action
      /\ v5'[n].target = v5[n].target /\ \A m \in Operators!Numbers \ {n} : v5'[m] = v5[m]
      /\ v5' \in [Operators!Numbers -> Operators!Events]
  <2>1. /\ v5'[n] = [v5[n] EXCEPT !.status = status]
        /\ \A m \in Operators!Numbers \ {n} : v5'[m] = v5[m]
    BY <1>1, <1>2 DEF Operators!Shapes
  <2>2. v5[n] \in Operators!Events
    BY <1>2 DEF Operators!Shapes
  <2>3. v5'[n] \in Operators!Events /\ v5'[n].status = status /\ v5'[n].action = v5[n].action
        /\ v5'[n].target = v5[n].target
    BY <2>1, <2>2 DEF Operators!Events
  <2>4. v5' \in [Operators!Numbers -> Operators!Events]
    BY <2>3, <1>1, <1>2 DEF Operators!Shapes
  <2>. QED
    BY <2>1, <2>3, <2>4
<1>4. Operators!Used' = Operators!Used
  <2>1. v5'[n] # Operators!NoEvent
    BY <1>3 DEF Operators!NoEvent
  <2>. QED
    BY <1>1, <1>2, <1>3, <2>1 DEF Operators!Used
<1>5. Operators!Active' = Operators!Active
  BY DEF Operators!Active
<1>6. \A w \in Operator : v3'[w] = IF w = u THEN Operators!Idle ELSE v3[w]
  BY DEF Operators!Shapes
<1>7. Operators!Shapes'
  <2>1. Operators!Idle \in Operators!Requests
    BY DEF Operators!Idle, Operators!Requests, Operators!Someone, Operators!Something
  <2>. QED
    BY <2>1, <1>3 DEF Operators!Shapes
<1>8. Operators!RequestsRecorded'
  BY <1>1, <1>3, <1>4, <1>6 DEF Operators!RequestsRecorded, Operators!TargetsKnown,
     Operators!EventsOpen, Operators!EventsOwn, Operators!OutcomesKept, Operators!At,
     Operators!HasEvent, Operators!Idle, Operators!Used
<1>9. Operators!AuditTruthful'
  BY <1>1, <1>3, <1>4 DEF Operators!AuditTruthful
<1>10. Operators!GrantsTraced'
  BY <1>1, <1>3, <1>5 DEF Operators!GrantsTraced, Operators!AuditTruthful, Operators!Used
<1>11. Operators!JobsInTurn' /\ Operators!LastOperatorStays'
  <2>1. Operators!Granted' = Operators!Granted
    BY DEF Operators!Granted
  <2>. QED
    BY <1>5, <2>1 DEF Operators!JobsInTurn, Operators!LastOperatorStays, Operators!At
<1>. QED
  BY <1>7, <1>8, <1>9, <1>10, <1>11

LEMMA GrantsStep == Operators!GrantsInv /\ [Operators!Next]_Operators!grantVars => Operators!GrantsInv'
<1>. SUFFICES ASSUME Operators!GrantsInv, [Operators!Next]_Operators!grantVars PROVE Operators!GrantsInv'
  OBVIOUS
<1>1. ASSUME NEW u \in Operator, Operators!CompleteAudit(u) PROVE Operators!GrantsInv'
  <2>1. Operators!Outcome(u) \in {"started", "succeeded", "failed"} /\ (Operators!Outcome(u) = "succeeded" => ~v3[u].failed)
    BY DEF Operators!Outcome
  <2>. QED
    BY <1>1, <2>1, GrantsCompletion DEF Operators!CompleteAudit
<1>2. ASSUME NEW u \in Operator, Operators!CompletionFails(u) PROVE Operators!GrantsInv'
  <2>1. CASE v5' = [v5 EXCEPT ![v3[u].number].status = "failed"]
    BY <1>2, <2>1, GrantsCompletion DEF Operators!CompletionFails
  <2>2. CASE v5' = v5
    <3>1. v3[u].number \in Operators!Used /\ v5[v3[u].number].status = "started"
      BY <1>2 DEF Operators!CompletionFails, Operators!GrantsInv, Operators!RequestsRecorded,
         Operators!TargetsKnown, Operators!EventsOpen, Operators!EventsOwn, Operators!OutcomesKept,
         Operators!At, Operators!HasEvent
    <3>2. v5' = [v5 EXCEPT ![v3[u].number].status = "started"]
      BY <2>2, <3>1 DEF Operators!Used, Operators!GrantsInv, Operators!Shapes, Operators!Events
    <3>. QED
      BY <1>2, <3>2, GrantsCompletion DEF Operators!CompletionFails
  <2>. QED
    BY <1>2, <2>1, <2>2 DEF Operators!CompletionFails
<1>3. CASE UNCHANGED Operators!grantVars
  <2>1. Operators!Active' = Operators!Active /\ Operators!Used' = Operators!Used
    BY <1>3 DEF Operators!grantVars, Operators!Active, Operators!Used
  <2>. QED
    BY <1>3, <2>1 DEF Operators!grantVars, Operators!GrantsInv, Operators!Shapes,
       Operators!RequestsRecorded, Operators!TargetsKnown, Operators!EventsOpen,
       Operators!EventsOwn, Operators!OutcomesKept, Operators!At, Operators!HasEvent,
       Operators!JobsInTurn, Operators!LastOperatorStays, Operators!AuditTruthful,
       Operators!GrantsTraced, Operators!Granted
<1>. QED
  BY <1>1, <1>2, <1>3, GrantsReadGrants, GrantsGrantFirst, GrantsAdmit, GrantsBeginAudit,
     GrantsRun, GrantsRunFails DEF Operators!Next

LEMMA GrantsSound == Operators!GrantsInv => Operators!OperatorsSound
BY DEF Operators!GrantsInv, Operators!OperatorsSound

\* Of OperatorGrants by itself: what operators do is on record, and one of them stays
\* (server/admin, server/api/routers/admin.ts).
THEOREM GrantsKept == Operators!Spec => []Operators!OperatorsSound
BY GrantsInit, GrantsStep, GrantsSound, PTL DEF Operators!Spec

-----------------------------------------------------------------------------
(* RelayBudgets.  v1 clock, v2 high, v3 entries, v4 conn, v5 rooms, v6 last, *)
(* v7 newest, v8 account, v9 rewound, v10 used.                            *)
LEMMA BudgetsCount ==
  ASSUME NEW S
  PROVE  /\ Budgets!Cardinality(S) = Cardinality(S)
         /\ Budgets!IsFiniteSet(S) = IsFiniteSet(S)
BY DEF Budgets!Cardinality, Cardinality, Budgets!IsFiniteSet, IsFiniteSet

Account == [since : 0..MaxTime, admitted : Nat]

LEMMA BucketRefills ==
  ASSUME Budgets!BudgetsApart, NEW b \in Budgets!Bucket, v1 \in 1..MaxTime
  PROVE  /\ Budgets!Refilled(b) \in Budgets!Bucket /\ b.mark <= Budgets!Refilled(b).mark /\ v1 <= Budgets!Refilled(b).mark
         /\ Budgets!Refilled(b).mark \in {b.mark, v1}
         /\ Budgets!Refilled(b).tokens <= b.tokens + (Budgets!Refilled(b).mark - b.mark)
<1>1. b.tokens \in 0..Burst /\ b.mark \in 0..MaxTime /\ Burst \in Nat /\ MaxTime \in Nat
  BY DEF Budgets!Bucket, Budgets!BudgetsApart
<1>2. PICK l : l = Budgets!Less(v1, b.mark)
  OBVIOUS
<1>3. l \in Nat /\ Budgets!Larger(b.mark, v1) \in {b.mark, v1} /\ Budgets!Larger(b.mark, v1) >= v1
      /\ Budgets!Larger(b.mark, v1) = b.mark + l
  BY <1>1, <1>2 DEF Budgets!Less, Budgets!Larger
<1>4. /\ Budgets!Smaller(Burst, b.tokens + l) \in 0..Burst /\ Budgets!Smaller(Burst, b.tokens + l) <= b.tokens + l
  BY <1>1, <1>3 DEF Budgets!Smaller
<1>5. Budgets!Refilled(b) = [tokens |-> Budgets!Smaller(Burst, b.tokens + l), mark |-> Budgets!Larger(b.mark, v1)]
  BY <1>2 DEF Budgets!Refilled
<1>6. Budgets!Refilled(b) \in Budgets!Bucket
  BY <1>1, <1>3, <1>4, <1>5 DEF Budgets!Bucket
<1>. QED
  BY <1>1, <1>3, <1>4, <1>5, <1>6

LEMMA BucketConsumes ==
  ASSUME Budgets!BudgetsApart, NEW b \in Budgets!Bucket, v1 \in 1..MaxTime, NEW cost \in Nat
  PROVE  /\ Budgets!Consumed(b, cost) \in Budgets!Bucket /\ Budgets!Consumed(b, cost).mark = Budgets!Refilled(b).mark
         /\ Budgets!Consumed(b, cost).tokens = Budgets!Refilled(b).tokens - (IF Budgets!Covers(b, cost) THEN cost ELSE 0)
<1>1. PICK r \in Budgets!Bucket : r = Budgets!Refilled(b)
  BY BucketRefills
<1>2. Budgets!Consumed(b, cost) = [r EXCEPT !.tokens = IF r.tokens >= cost THEN @ - cost ELSE @]
  BY <1>1 DEF Budgets!Consumed, Budgets!Covers
<1>3. r.tokens \in 0..Burst /\ Burst \in Nat
  BY DEF Budgets!Bucket, Budgets!BudgetsApart
<1>4. PICK t \in 0..Burst : t = IF r.tokens >= cost THEN r.tokens - cost ELSE r.tokens
  BY <1>3
<1>5. Budgets!Consumed(b, cost) = [r EXCEPT !.tokens = t]
  BY <1>2, <1>4
<1>6. Budgets!Consumed(b, cost) \in Budgets!Bucket /\ Budgets!Consumed(b, cost).mark = r.mark /\ Budgets!Consumed(b, cost).tokens = t
  BY <1>5 DEF Budgets!Bucket
<1>. QED
  BY <1>1, <1>3, <1>4, <1>6 DEF Budgets!Covers

(* A bucket that is charged, with its account.                              *)
LEMMA PaidStays ==
  ASSUME Budgets!BudgetsApart, NEW b \in Budgets!Bucket, NEW a \in Account, v1 \in 1..MaxTime, v2 \in 1..MaxTime,
         v1 <= v2, Budgets!Paid(b, a), NEW cost \in Nat,
         NEW c \in Account, c.since = a.since,
         c.admitted = a.admitted + (IF Budgets!Covers(b, cost) THEN cost ELSE 0)
  PROVE  Budgets!Paid(Budgets!Consumed(b, cost), c)
<1>1. /\ Budgets!Refilled(b) \in Budgets!Bucket /\ b.mark <= Budgets!Refilled(b).mark /\ Budgets!Refilled(b).mark \in {b.mark, v1}
      /\ Budgets!Refilled(b).tokens <= b.tokens + (Budgets!Refilled(b).mark - b.mark)
  BY BucketRefills
<1>2. PICK r \in Budgets!Bucket : r = Budgets!Refilled(b)
  BY <1>1
<1>3. PICK d \in Budgets!Bucket : d = Budgets!Consumed(b, cost)
  BY BucketConsumes
<1>4. PICK k \in Nat : k = IF Budgets!Covers(b, cost) THEN cost ELSE 0
  OBVIOUS
<1>5. d.mark = r.mark /\ d.tokens = r.tokens - k
  BY <1>2, <1>3, <1>4, BucketConsumes
<1>6. /\ b.tokens \in Int /\ b.mark \in Int /\ r.tokens \in Int /\ r.mark \in Int /\ d.tokens \in Int
      /\ d.mark \in Int /\ a.since \in Int /\ a.admitted \in Int /\ Burst \in Int
  BY DEF Budgets!Bucket, Account, Budgets!BudgetsApart
<1>7. a.since <= b.mark /\ b.mark <= v2 /\ b.tokens + a.admitted <= Burst + (b.mark - a.since)
  BY DEF Budgets!Paid
<1>8. c.admitted = a.admitted + k
  BY <1>4
<1>9. c.since <= d.mark /\ d.mark <= v2
  BY <1>1, <1>2, <1>5, <1>6, <1>7
<1>10. d.tokens + c.admitted <= Burst + (d.mark - c.since)
  <2>1. r.tokens <= b.tokens + (r.mark - b.mark)
    BY <1>1, <1>2
  <2>2. d.tokens + c.admitted = r.tokens + a.admitted
    BY <1>5, <1>6, <1>8
  <2>. QED
    BY <2>1, <2>2, <1>5, <1>6, <1>7
<1>. QED
  BY <1>3, <1>9, <1>10 DEF Budgets!Paid

LEMMA BudgetsInit ==
  ASSUME Budgets!BudgetsApart
  PROVE  Budgets!Init => Budgets!BudgetsInv
<1>. SUFFICES ASSUME Budgets!Init PROVE Budgets!BudgetsInv
  OBVIOUS
<1>. USE DEF Budgets!Init
<1>1. Burst \in Nat \ {0} /\ MaxTime \in Nat \ {0} /\ MaxEpoch \in Nat /\ MaxTracked \in Nat
      /\ MaxBacks \in Nat /\ MaxRestarts \in Nat
  BY DEF Budgets!BudgetsApart
<1>2. [tokens |-> 0, mark |-> 0] \in Budgets!Bucket
  BY <1>1 DEF Budgets!Bucket
<1>3. Budgets!NoEntry \in Budgets!Entry /\ Budgets!NoConnection \in [Budgets!Budgets -> Budgets!Bucket] /\ Budgets!NoEntry.live = FALSE
  BY <1>1, <1>2 DEF Budgets!NoEntry, Budgets!Entry, Budgets!NoConnection
<1>4. Budgets!Tracked = {}
  BY <1>3 DEF Budgets!Tracked
<1>5. Budgets!TypeOK
  <2>1. /\ v1 \in 1..MaxTime /\ v2 \in 1..MaxTime /\ v6 \in 0..MaxEpoch /\ v7 \in 0..MaxEpoch
        /\ v5 \in [Channel -> 0..MaxEpoch] /\ v9 \subseteq Subject
        /\ v10 \in [backs : 0..MaxBacks, restarts : 0..MaxRestarts]
    BY <1>1
  <2>2. v3 \in [Subject -> Budgets!Entry] /\ v4 \in [live : BOOLEAN, bucket : [Budgets!Budgets -> Budgets!Bucket]]
    BY <1>3
  <2>3. v8 \in [Budgets!Budgets \union Subject -> [since : 0..MaxTime, admitted : Nat]]
    BY <1>1 DEF Budgets!Closed
  <2>4. Budgets!Cardinality(Budgets!Tracked) <= MaxTracked
    BY <1>1, <1>4, FS_EmptySet, BudgetsCount
  <2>. QED
    BY <2>1, <2>2, <2>3, <2>4 DEF Budgets!TypeOK
<1>6. Budgets!ConnectionPaid
  BY <1>1 DEF Budgets!ConnectionPaid, Budgets!Closed
<1>7. Budgets!SubjectsPaid
  BY <1>3 DEF Budgets!SubjectsPaid, Budgets!Closed
<1>8. Budgets!EpochsKnown
  BY DEF Budgets!EpochsKnown
<1>. QED
  BY <1>5, <1>6, <1>7, <1>8 DEF Budgets!BudgetsInv

(* The clock or nothing moves: what was paid for stays so.                  *)
LEMMA PaidUnder ==
  ASSUME NEW b, NEW a, v2 \in Nat, v2' \in Nat, v2 <= v2', Budgets!Paid(b, a),
         b.mark \in Nat
  PROVE  (/\ a.since <= b.mark /\ b.mark <= v2'
          /\ b.tokens + a.admitted <= Burst + (b.mark - a.since))
BY DEF Budgets!Paid

LEMMA BudgetsTyped ==
  ASSUME Budgets!BudgetsApart, Budgets!TypeOK
  PROVE  /\ Burst \in Nat /\ MaxTime \in Nat /\ v1 \in Nat /\ v2 \in Nat
         /\ \A k \in Budgets!Budgets \union Subject : v8[k] \in Account
         /\ \A b \in Budgets!Budgets : v4.bucket[b] \in Budgets!Bucket
         /\ \A s \in Subject : v3[s].bucket \in Budgets!Bucket /\ v3[s].seen \in Nat
                               /\ v3[s].live \in BOOLEAN
         /\ DOMAIN v8 = Budgets!Budgets \union Subject
BY DEF Budgets!BudgetsApart, Budgets!TypeOK, Account, Budgets!Entry

(* What a step that is not of the connection leaves of its budgets.         *)
LEMMA ConnectionRests ==
  ASSUME Budgets!BudgetsApart, Budgets!BudgetsInv, v2' \in Nat, v2 <= v2',
         v4' = v4, \A b \in Budgets!Budgets : v8'[b] = v8[b]
  PROVE  Budgets!ConnectionPaid'
<1>1. v2 \in Nat /\ \A b \in Budgets!Budgets : v8[b] \in Account /\ v4.bucket[b] \in Budgets!Bucket
  BY BudgetsTyped DEF Budgets!BudgetsInv
<1>. SUFFICES ASSUME NEW b \in Budgets!Budgets
              PROVE  (/\ v8[b].since <= v2 /\ v8[b].admitted <= Burst + (v2 - v8[b].since)
                      /\ v4.live => Budgets!Paid(v4.bucket[b], v8[b]))'
  BY DEF Budgets!ConnectionPaid
<1>2. /\ v8[b].since <= v2 /\ v8[b].admitted <= Burst + (v2 - v8[b].since)
      /\ v4.live => Budgets!Paid(v4.bucket[b], v8[b])
  BY DEF Budgets!BudgetsInv, Budgets!ConnectionPaid
<1>3. v8[b].since \in Nat /\ v8[b].admitted \in Nat /\ v4.bucket[b].mark \in Nat /\ Burst \in Nat
  BY <1>1 DEF Account, Budgets!Bucket, Budgets!BudgetsApart
<1>. QED
  BY <1>1, <1>2, <1>3 DEF Budgets!Paid

(* The same of the subjects.                                                *)
LEMMA SubjectsRest ==
  ASSUME Budgets!BudgetsApart, Budgets!BudgetsInv, v2' \in Nat, v2 <= v2',
         v9' = v9, v3' = v3, \A s \in Subject : v8'[s] = v8[s]
  PROVE  Budgets!SubjectsPaid'
<1>1. v2 \in Nat /\ \A s \in Subject : v8[s] \in Account /\ v3[s].bucket \in Budgets!Bucket
  BY BudgetsTyped DEF Budgets!BudgetsInv
<1>. SUFFICES ASSUME NEW s \in Subject \ v9
              PROVE  (IF v3[s].live
                      THEN Budgets!Paid(v3[s].bucket, v8[s]) /\ v3[s].bucket.mark = v3[s].seen
                      ELSE v8[s].since <= v2 /\ v8[s].admitted <= v2 - v8[s].since)'
  BY DEF Budgets!SubjectsPaid
<1>2. IF v3[s].live
      THEN Budgets!Paid(v3[s].bucket, v8[s]) /\ v3[s].bucket.mark = v3[s].seen
      ELSE v8[s].since <= v2 /\ v8[s].admitted <= v2 - v8[s].since
  BY DEF Budgets!BudgetsInv, Budgets!SubjectsPaid
<1>3. v8[s].since \in Nat /\ v8[s].admitted \in Nat /\ v3[s].bucket.mark \in Nat
  BY <1>1 DEF Account, Budgets!Bucket
<1>. QED
  BY <1>1, <1>2, <1>3 DEF Budgets!Paid

LEMMA BudgetsConnect ==
  ASSUME Budgets!BudgetsApart, Budgets!BudgetsInv, Budgets!Connect
  PROVE  Budgets!BudgetsInv'
<1>. USE DEF Budgets!Connect
<1>1. /\ Burst \in Nat /\ v1 \in 1..MaxTime /\ v2 \in 1..MaxTime /\ v1 <= v2 /\ MaxTime \in Nat
  BY DEF Budgets!BudgetsInv, Budgets!TypeOK, Budgets!BudgetsApart
<1>2. Budgets!NewBucket \in Budgets!Bucket /\ Budgets!NewBucket.tokens = Burst /\ Budgets!NewBucket.mark = v1
  BY <1>1 DEF Budgets!NewBucket, Budgets!Bucket
<1>3. /\ v4'.live = TRUE /\ \A b \in Budgets!Budgets : v4'.bucket[b] = Budgets!NewBucket
      /\ v4' \in [live : BOOLEAN, bucket : [Budgets!Budgets -> Budgets!Bucket]]
  BY <1>2
<1>4. /\ DOMAIN v8 = Budgets!Budgets \union Subject
      /\ \A b \in Budgets!Budgets : v8'[b] = [since |-> v1, admitted |-> 0]
      /\ \A s \in Subject : v8'[s] = v8[s]
      /\ v8' \in [Budgets!Budgets \union Subject -> [since : 0..MaxTime, admitted : Nat]]
  BY <1>1 DEF Budgets!BudgetsInv, Budgets!TypeOK, Budgets!BudgetsApart
<1>5. Budgets!TypeOK'
  BY <1>3, <1>4 DEF Budgets!BudgetsInv, Budgets!TypeOK, Budgets!Tracked
<1>6. Budgets!ConnectionPaid'
  <2>. SUFFICES ASSUME NEW b \in Budgets!Budgets
                PROVE  (/\ v8[b].since <= v2 /\ v8[b].admitted <= Burst + (v2 - v8[b].since)
                        /\ v4.live => Budgets!Paid(v4.bucket[b], v8[b]))'
    BY DEF Budgets!ConnectionPaid
  <2>1. v8'[b].since = v1 /\ v8'[b].admitted = 0 /\ v2' = v2
    BY <1>4
  <2>. QED
    BY <1>1, <1>2, <1>3, <2>1 DEF Budgets!Paid
<1>7. Budgets!SubjectsPaid'
  BY <1>1, <1>4, SubjectsRest
<1>. QED
  BY <1>5, <1>6, <1>7 DEF Budgets!BudgetsInv, Budgets!EpochsKnown

LEMMA ChargesKnown ==
  ASSUME NEW channel \in {"scene", "presence"}, NEW n \in 1..Burst, Burst \in Nat
  PROVE  \E P \in SUBSET Budgets!Budgets : Budgets!Charges(channel, n) \in [P -> Nat]
<1>1. CASE channel = "presence"
  <2>1. Budgets!Charges(channel, n) \in [{"presence frames"} -> Nat]
    BY <1>1 DEF Budgets!Charges
  <2>. QED
    BY <2>1 DEF Budgets!Budgets
<1>2. CASE channel = "scene"
  <2>1. Budgets!Charges(channel, n) \in [{"scene frames", "scene bytes"} -> Nat]
    BY <1>2 DEF Budgets!Charges
  <2>. QED
    BY <2>1 DEF Budgets!Budgets
<1>. QED
  BY <1>1, <1>2

LEMMA BudgetsFrame ==
  ASSUME Budgets!BudgetsApart, Budgets!BudgetsInv, NEW channel \in {"scene", "presence"}, NEW n \in 1..Burst,
         Budgets!Frame(channel, n)
  PROVE  Budgets!BudgetsInv'
<1>1. /\ Burst \in Nat /\ v1 \in 1..MaxTime /\ v2 \in 1..MaxTime /\ v1 <= v2 /\ MaxTime \in Nat
      /\ v2' = v2 /\ v1' = v1 /\ UNCHANGED <<v3, v5, v6, v7, v9, v10>> /\ v4.live
  BY DEF Budgets!BudgetsInv, Budgets!TypeOK, Budgets!BudgetsApart, Budgets!Frame
<1>2. PICK c : c = Budgets!Charges(channel, n)
  OBVIOUS
<1>3. PICK P \in SUBSET Budgets!Budgets : c \in [P -> Nat]
  BY <1>1, <1>2, ChargesKnown
<1>4. DOMAIN c = P /\ \A b \in P : c[b] \in Nat
  BY <1>3
<1>6. \A b \in Budgets!Budgets : v4.bucket[b] \in Budgets!Bucket /\ v8[b] \in Account /\ Budgets!Paid(v4.bucket[b], v8[b])
  BY <1>1, BudgetsTyped DEF Budgets!BudgetsInv, Budgets!ConnectionPaid
<1>7. DOMAIN v8 = Budgets!Budgets \union Subject /\ v8 \in [Budgets!Budgets \union Subject -> Account]
  BY DEF Budgets!BudgetsInv, Budgets!TypeOK, Account
<1>8. CASE \A b \in P : Budgets!Covers(v4.bucket[b], c[b])
  <2>1. /\ v4' = [v4 EXCEPT !.bucket = [b \in Budgets!Budgets |->
                  IF b \in P THEN Budgets!Consumed(@[b], c[b]) ELSE @[b]]]
        /\ v8' = [x \in DOMAIN v8 |-> IF x \in Budgets!Budgets /\ x \in P
           THEN [v8[x] EXCEPT !.admitted = @ + c[x]] ELSE v8[x]]
    BY <1>2, <1>4, <1>8, Zenon DEF Budgets!Frame
  <2>2. \A b \in P : Budgets!Covers(v4.bucket[b], c[b])
    BY <1>8
  <2>3. v4' = [live |-> TRUE, bucket |-> [b \in Budgets!Budgets |->
                 IF b \in P THEN Budgets!Consumed(v4.bucket[b], c[b]) ELSE v4.bucket[b]]]
    BY <1>1, <2>1 DEF Budgets!BudgetsInv, Budgets!TypeOK
  <2>4. \A b \in P : Budgets!Consumed(v4.bucket[b], c[b]) \in Budgets!Bucket
    BY <1>1, <1>4, <1>6, BucketConsumes
  <2>5. v4' \in [live : BOOLEAN, bucket : [Budgets!Budgets -> Budgets!Bucket]]
    BY <1>6, <2>3, <2>4
  <2>6. \A x \in Budgets!Budgets \union Subject : /\ v8'[x] \in Account
           /\ v8'[x].since = v8[x].since
           /\ v8'[x].admitted = v8[x].admitted + (IF x \in P THEN c[x] ELSE 0)
    BY <1>4, <1>7, <2>1 DEF Account
  <2>7. v8' \in [Budgets!Budgets \union Subject -> [since : 0..MaxTime, admitted : Nat]]
    BY <1>7, <2>1, <2>6 DEF Account
  <2>8. Budgets!TypeOK'
    BY <1>1, <2>5, <2>7 DEF Budgets!BudgetsInv, Budgets!TypeOK, Budgets!Tracked
  <2>9. ASSUME NEW b \in Budgets!Budgets
        PROVE  Budgets!Paid(v4'.bucket[b], v8'[b])
    <3>1. CASE b \in P
      <4>1. v4'.bucket[b] = Budgets!Consumed(v4.bucket[b], c[b])
        BY <3>1, <2>3
      <4>2. v8'[b].admitted = v8[b].admitted + (IF Budgets!Covers(v4.bucket[b], c[b]) THEN c[b] ELSE 0)
        BY <3>1, <2>2, <2>6
      <4>. QED
        BY <4>1, <4>2, <3>1, <1>1, <1>4, <1>6, <2>6, PaidStays
    <3>2. CASE b \notin P
      BY <3>2, <1>6, <1>7, <2>1, <2>3
    <3>. QED
      BY <3>1, <3>2
  <2>10. Budgets!ConnectionPaid'
    <3>. SUFFICES ASSUME NEW b \in Budgets!Budgets
                  PROVE  (/\ v8[b].since <= v2
                          /\ v8[b].admitted <= Burst + (v2 - v8[b].since)
                          /\ v4.live => Budgets!Paid(v4.bucket[b], v8[b]))'
      BY DEF Budgets!ConnectionPaid
    <3>1. PICK d \in Budgets!Bucket, a \in Account : d = v4'.bucket[b] /\ a = v8'[b]
      BY <2>5, <2>6
    <3>2. a.since <= d.mark /\ d.mark <= v2 /\ d.tokens + a.admitted <= Burst + (d.mark - a.since)
      BY <2>9, <3>1 DEF Budgets!Paid
    <3>3. d.mark \in Nat /\ d.tokens \in Nat /\ a.since \in Nat /\ a.admitted \in Nat
      BY DEF Budgets!Bucket, Account
    <3>4. a.since <= v2 /\ a.admitted <= Burst + (v2 - a.since)
      BY <3>2, <3>3, <1>1
    <3>. QED
      BY <3>1, <3>4, <2>9, <1>1 DEF Budgets!Paid
  <2>11. \A s \in Subject : v8'[s] = v8[s]
    BY <1>3, <1>7, <2>1 DEF Budgets!BudgetsApart
  <2>12. Budgets!SubjectsPaid'
    BY <1>1, <2>11, SubjectsRest
  <2>. QED
    BY <1>1, <2>8, <2>10, <2>12 DEF Budgets!BudgetsInv, Budgets!EpochsKnown
<1>9. CASE ~(\A b \in P : Budgets!Covers(v4.bucket[b], c[b]))
  <2>1. v4' = [live |-> FALSE, bucket |-> Budgets!NoConnection] /\ v8' = v8
    BY <1>2, <1>4, <1>9 DEF Budgets!Frame
  <2>2. Budgets!NoConnection \in [Budgets!Budgets -> Budgets!Bucket]
    BY <1>1 DEF Budgets!NoConnection, Budgets!Bucket
  <2>3. Budgets!TypeOK'
    BY <1>1, <2>1, <2>2 DEF Budgets!BudgetsInv, Budgets!TypeOK, Budgets!Tracked
  <2>4. Budgets!ConnectionPaid'
    BY <1>1, <2>1 DEF Budgets!BudgetsInv, Budgets!ConnectionPaid
  <2>5. Budgets!SubjectsPaid'
    BY <1>1, <2>1, SubjectsRest
  <2>. QED
    BY <1>1, <2>3, <2>4, <2>5 DEF Budgets!BudgetsInv, Budgets!EpochsKnown
<1>. QED
  BY <1>8, <1>9

(* The epoch a new room gets.                                               *)
LEMMA RoomEntered ==
  ASSUME Budgets!BudgetsApart, Budgets!TypeOK, Budgets!EpochsKnown, NEW r \in Channel, Budgets!EnterRoom(r), v10' = v10
  PROVE  /\ v5' \in [Channel -> 0..MaxEpoch] /\ v6' \in 0..MaxEpoch /\ v7' \in 0..MaxEpoch
         /\ Budgets!EpochsKnown'
<1>1. /\ v5 \in [Channel -> 0..MaxEpoch] /\ v6 \in 0..MaxEpoch /\ v7 \in 0..MaxEpoch
      /\ v1 \in Nat /\ MaxEpoch \in Nat
  BY DEF Budgets!TypeOK, Budgets!BudgetsApart
<1>2. CASE v5[r] = 0
  <2>1. PICK g : g = Budgets!NextGeneration
    OBVIOUS
  <2>2. g \in Nat /\ g >= v6 + 1
    BY <2>1, <1>1 DEF Budgets!NextGeneration, Budgets!Larger
  <2>3. g <= MaxEpoch /\ v5' = [v5 EXCEPT ![r] = g] /\ v6' = g /\ v7' = Budgets!Larger(v7, g)
    BY <2>1, <1>2 DEF Budgets!EnterRoom
  <2>4. g \in 0..MaxEpoch /\ Budgets!Larger(v7, g) \in {v7, g} /\ (v7 = v6 => Budgets!Larger(v7, g) = g)
    BY <2>2, <2>3, <1>1 DEF Budgets!Larger
  <2>. QED
    BY <2>3, <2>4, <1>1 DEF Budgets!EpochsKnown
<1>3. CASE v5[r] # 0
  BY <1>1, <1>3 DEF Budgets!EnterRoom, Budgets!EpochsKnown
<1>. QED
  BY <1>2, <1>3

(* A subject's budget after a join that was charged to a bucket, in time.   *)
LEMMA JoinPaid ==
  ASSUME Budgets!BudgetsApart, NEW b \in Budgets!Bucket, NEW a \in Account, NEW c \in Account,
         v1 \in 1..MaxTime, v2 \in 1..MaxTime, v1 = v2,
         Budgets!Paid(b, a), c.since = a.since, c.admitted = a.admitted + (IF Budgets!Covers(b, 1) THEN 1 ELSE 0)
  PROVE  Budgets!Paid(Budgets!Consumed(b, 1), c) /\ Budgets!Consumed(b, 1).mark = v1
<1>1. Budgets!Paid(Budgets!Consumed(b, 1), c)
  BY PaidStays
<1>2. b.mark <= v1 /\ b.mark \in Nat /\ v1 \in Nat
  BY DEF Budgets!Paid, Budgets!Bucket
<1>3. Budgets!Refilled(b).mark = v1
  BY <1>2, BucketRefills DEF Budgets!Bucket
<1>. QED
  BY <1>1, <1>3, BucketConsumes

LEMMA BudgetsJoinTracked ==
  ASSUME Budgets!BudgetsApart, Budgets!BudgetsInv, NEW s \in Subject, NEW r \in Channel, Budgets!JoinTracked(s, r)
  PROVE  Budgets!BudgetsInv'
<1>1. /\ Burst \in Nat /\ v1 \in 1..MaxTime /\ v2 \in 1..MaxTime /\ v1 <= v2 /\ MaxTime \in Nat
      /\ UNCHANGED <<v1, v2, v4, v10>> /\ v3[s].live /\ s \in Subject
  BY DEF Budgets!BudgetsInv, Budgets!TypeOK, Budgets!BudgetsApart, Budgets!JoinTracked,
     Budgets!Tracked
<1>2. PICK e \in Budgets!Entry : e = v3[s]
  BY DEF Budgets!BudgetsInv, Budgets!TypeOK
<1>3. PICK d \in Budgets!Bucket : d = Budgets!Consumed(e.bucket, 1)
  BY <1>1, BucketConsumes DEF Budgets!Entry
<1>4. PICK x \in Budgets!Entry : x = [e EXCEPT !.bucket = d, !.seen = v1]
  <2>1. v1 \in 0..MaxTime
    BY <1>1
  <2>. QED
    BY <2>1 DEF Budgets!Entry
<1>5. x.live = e.live /\ x.bucket = d /\ x.seen = v1
  BY <1>4 DEF Budgets!Entry
<1>6. v3' = [v3 EXCEPT ![s] = x]
  <2>1. v3' = [v3 EXCEPT ![s] = [v3[s] EXCEPT !.bucket = Budgets!Consumed(@, 1), !.seen = v1]]
    BY DEF Budgets!JoinTracked, Budgets!BudgetsInv, Budgets!TypeOK
  <2>. QED
    BY <2>1, <1>2, <1>3, <1>4
<1>7. /\ v3' \in [Subject -> Budgets!Entry] /\ v3'[s] = x
      /\ \A y \in Subject \ {s} : v3'[y] = v3[y]
  BY <1>6 DEF Budgets!BudgetsInv, Budgets!TypeOK
<1>8. Budgets!Tracked' = Budgets!Tracked
  BY <1>1, <1>2, <1>5, <1>7 DEF Budgets!Tracked
<1>9. v9' \subseteq Subject /\ v9 \subseteq v9' /\ (s \notin v9' => v1 = v2)
  <2>1. v9' = IF v1 < v2 THEN v9 \union {s} ELSE v9
    BY DEF Budgets!JoinTracked
  <2>2. v9 \subseteq Subject /\ v1 \in Nat /\ v2 \in Nat
    BY <1>1 DEF Budgets!BudgetsInv, Budgets!TypeOK
  <2>. QED
    BY <2>1, <2>2, <1>1
<1>10. /\ v5' \in [Channel -> 0..MaxEpoch] /\ v6' \in 0..MaxEpoch /\ v7' \in 0..MaxEpoch
       /\ Budgets!EpochsKnown'
  <2>1. CASE Budgets!EnterRoom(r)
    BY <2>1, <1>1, RoomEntered DEF Budgets!BudgetsInv
  <2>2. CASE UNCHANGED <<v5, v6, v7>>
    BY <2>2, <1>1 DEF Budgets!BudgetsInv, Budgets!TypeOK, Budgets!EpochsKnown
  <2>. QED
    BY <2>1, <2>2 DEF Budgets!JoinTracked
<1>11. /\ DOMAIN v8 = Budgets!Budgets \union Subject /\ v8 \in [Budgets!Budgets \union Subject -> Account]
  BY DEF Budgets!BudgetsInv, Budgets!TypeOK, Account
<1>12. PICK k \in 0..1 : k = IF Budgets!Covers(e.bucket, 1) THEN 1 ELSE 0
  OBVIOUS
<1>13. /\ v8' \in [Budgets!Budgets \union Subject -> Account]
       /\ \A y \in (Budgets!Budgets \union Subject) \ {s} : v8'[y] = v8[y]
       /\ v8'[s].since = v8[s].since /\ v8'[s].admitted = v8[s].admitted + k
  <2>1. CASE k = 1
    <3>1. v8' = [v8 EXCEPT ![s].admitted = @ + 1]
      BY <2>1, <1>2, <1>12 DEF Budgets!JoinTracked
    <3>. QED
      BY <3>1, <2>1, <1>11 DEF Account
  <2>2. CASE k = 0
    <3>1. v8' = v8
      BY <2>2, <1>2, <1>12 DEF Budgets!JoinTracked
    <3>. QED
      BY <3>1, <2>2, <1>11 DEF Account
  <2>. QED
    BY <2>1, <2>2
<1>14. Budgets!TypeOK'
  BY <1>1, <1>7, <1>8, <1>9, <1>10, <1>13 DEF Budgets!BudgetsInv, Budgets!TypeOK, Account
<1>15. Budgets!ConnectionPaid'
  <2>1. \A b \in Budgets!Budgets : v8'[b] = v8[b]
    BY <1>13 DEF Budgets!BudgetsApart
  <2>. QED
    BY <2>1, <1>1, ConnectionRests
<1>16. Budgets!SubjectsPaid'
  <2>. SUFFICES ASSUME NEW y \in Subject, y \notin v9'
                PROVE  (IF v3[y].live
                        THEN Budgets!Paid(v3[y].bucket, v8[y]) /\ v3[y].bucket.mark = v3[y].seen
                        ELSE v8[y].since <= v2 /\ v8[y].admitted <= v2 - v8[y].since)'
    BY DEF Budgets!SubjectsPaid
  <2>1. y \notin v9
    BY <1>9
  <2>2. CASE y = s
    <3>1. Budgets!Paid(e.bucket, v8[s])
      BY <2>1, <2>2, <1>1, <1>2 DEF Budgets!BudgetsInv, Budgets!SubjectsPaid
    <3>2. e.bucket \in Budgets!Bucket /\ v8[s] \in Account /\ v8'[s] \in Account
      BY <1>11, <1>13 DEF Budgets!Entry
    <3>3. Budgets!Paid(d, v8'[s]) /\ d.mark = v1
      BY <3>1, <3>2, <2>2, <1>1, <1>3, <1>9, <1>12, <1>13, JoinPaid
    <3>. QED
      BY <3>3, <2>2, <1>1, <1>2, <1>5, <1>7 DEF Budgets!Paid
  <2>3. CASE y # s
    BY <2>1, <2>3, <1>1, <1>7, <1>13 DEF Budgets!BudgetsInv, Budgets!SubjectsPaid, Budgets!Paid
  <2>. QED
    BY <2>2, <2>3
<1>. QED
  BY <1>1, <1>10, <1>14, <1>15, <1>16 DEF Budgets!BudgetsInv

LEMMA BudgetsJoinUntracked ==
  ASSUME Budgets!BudgetsApart, Budgets!BudgetsInv, NEW s \in Subject, NEW r \in Channel, Budgets!JoinUntracked(s, r)
  PROVE  Budgets!BudgetsInv'
<1>1. /\ Burst \in Nat \ {0} /\ v1 \in 1..MaxTime /\ v2 \in 1..MaxTime /\ v1 <= v2 /\ MaxTime \in Nat
      /\ UNCHANGED <<v1, v2, v4, v10>> /\ ~v3[s].live /\ MaxTracked \in Nat
  BY DEF Budgets!BudgetsInv, Budgets!TypeOK, Budgets!BudgetsApart, Budgets!JoinUntracked,
     Budgets!Tracked
<1>2. PICK kept \in SUBSET Subject : kept = {x \in Budgets!Tracked : ~Budgets!Refillable(x)}
  BY DEF Budgets!Tracked
<1>3. PICK after : after = [x \in Subject |-> IF x \in kept THEN v3[x] ELSE Budgets!NoEntry]
  OBVIOUS
<1>4. Budgets!NoEntry \in Budgets!Entry /\ Budgets!NoEntry.live = FALSE
  BY <1>1 DEF Budgets!NoEntry, Budgets!Entry, Budgets!Bucket
<1>5. after \in [Subject -> Budgets!Entry] /\ s \notin kept /\ \A x \in Subject : after[x].live => x \in kept
  BY <1>1, <1>2, <1>3, <1>4 DEF Budgets!BudgetsInv, Budgets!TypeOK, Budgets!Tracked
<1>6. Budgets!NewBucket \in Budgets!Bucket /\ Budgets!NewBucket.tokens = Burst /\ Budgets!NewBucket.mark = v1
  BY <1>1 DEF Budgets!NewBucket, Budgets!Bucket
<1>7. PICK d \in Budgets!Bucket : d = Budgets!Consumed(Budgets!NewBucket, 1)
  BY <1>1, <1>6, BucketConsumes
<1>8. d.mark = v1 /\ d.tokens = Burst - 1
  <2>1. Budgets!Refilled(Budgets!NewBucket).tokens = Burst /\ Budgets!Refilled(Budgets!NewBucket).mark = v1
    BY <1>1, <1>6 DEF Budgets!Refilled, Budgets!Smaller, Budgets!Less, Budgets!Larger
  <2>2. Budgets!Covers(Budgets!NewBucket, 1)
    BY <2>1, <1>1 DEF Budgets!Covers
  <2>3. d.mark = Budgets!Refilled(Budgets!NewBucket).mark /\ d.tokens = Budgets!Refilled(Budgets!NewBucket).tokens - 1
    BY <2>2, <1>1, <1>6, <1>7, BucketConsumes
  <2>. QED
    BY <2>1, <2>3
<1>9. PICK e \in Budgets!Entry : e = [bucket |-> d, seen |-> v1, live |-> TRUE]
  <2>1. v1 \in 0..MaxTime
    BY <1>1
  <2>. QED
    BY <2>1 DEF Budgets!Entry
<1>10. \/ Budgets!Cardinality(kept) >= MaxTracked /\ v3' = after /\ UNCHANGED <<v8, v9>>
       \/ /\ ~(Budgets!Cardinality(kept) >= MaxTracked) /\ v3' = [after EXCEPT ![s] = e]
          /\ v8' = [v8 EXCEPT ![s] =
             [since |-> IF @ = Budgets!Closed THEN v1 ELSE @.since, admitted |-> @.admitted + 1]]
          /\ v9' = IF v1 < v2 THEN v9 \union {s} ELSE v9
  BY <1>2, <1>3, <1>7, <1>9, Zenon DEF Budgets!JoinUntracked
<1>11. /\ DOMAIN v8 = Budgets!Budgets \union Subject /\ v8 \in [Budgets!Budgets \union Subject -> Account]
  BY DEF Budgets!BudgetsInv, Budgets!TypeOK, Account
<1>12. /\ v5' \in [Channel -> 0..MaxEpoch] /\ v6' \in 0..MaxEpoch /\ v7' \in 0..MaxEpoch
       /\ Budgets!EpochsKnown'
  BY <1>1, RoomEntered DEF Budgets!BudgetsInv, Budgets!JoinUntracked
<1>13. Budgets!IsFiniteSet(kept) /\ Budgets!Cardinality(kept) \in Nat /\ Budgets!Cardinality(kept) <= MaxTracked
  <2>1. Budgets!IsFiniteSet(Budgets!Tracked) /\ Budgets!Tracked \subseteq Subject
    BY FS_Subset, BudgetsCount DEF Budgets!Tracked, Budgets!BudgetsApart
  <2>2. kept \subseteq Budgets!Tracked
    BY <1>2
  <2>3. Budgets!IsFiniteSet(kept) /\ Budgets!Cardinality(kept) <= Budgets!Cardinality(Budgets!Tracked)
    BY <2>1, <2>2, FS_Subset, BudgetsCount
  <2>4. Budgets!Cardinality(kept) \in Nat /\ Budgets!Cardinality(Budgets!Tracked) \in Nat
    BY <2>1, <2>3, FS_CardinalityType, BudgetsCount
  <2>. QED
    BY <2>3, <2>4, <1>1 DEF Budgets!BudgetsInv, Budgets!TypeOK
<1>14. ASSUME NEW T \in SUBSET kept
       PROVE  Budgets!Cardinality(T) \in Nat /\ Budgets!Cardinality(T) <= MaxTracked
              /\ (Budgets!Cardinality(T) < MaxTracked => Budgets!Cardinality(T \union {s}) <= MaxTracked)
  <2>1. Budgets!IsFiniteSet(T) /\ Budgets!Cardinality(T) <= Budgets!Cardinality(kept) /\ Budgets!Cardinality(T) \in Nat
    BY <1>13, FS_Subset, FS_CardinalityType, BudgetsCount
  <2>2. Budgets!Cardinality(T \union {s}) = Budgets!Cardinality(T) + 1
    BY <2>1, <1>5, FS_AddElement, BudgetsCount
  <2>. QED
    BY <2>1, <2>2, <1>1, <1>13
(* A subject whose entry is dropped in time has earned its burst again.    *)
<1>15. ASSUME NEW y \in Subject \ v9
       PROVE  /\ v8[y] \in Account
              /\ y \in kept => Budgets!Paid(v3[y].bucket, v8[y]) /\ v3[y].bucket.mark = v3[y].seen
              /\ y \notin kept => v8[y].since <= v2 /\ v8[y].admitted <= v2 - v8[y].since
  <2>1. v8[y] \in Account /\ v3[y].bucket \in Budgets!Bucket
    BY <1>11 DEF Budgets!BudgetsInv, Budgets!TypeOK, Budgets!Entry
  <2>2. CASE ~v3[y].live
    BY <2>1, <2>2, <1>2 DEF Budgets!BudgetsInv, Budgets!SubjectsPaid, Budgets!Tracked
  <2>3. CASE v3[y].live
    <3>1. Budgets!Paid(v3[y].bucket, v8[y]) /\ v3[y].bucket.mark = v3[y].seen
      BY <2>3 DEF Budgets!BudgetsInv, Budgets!SubjectsPaid
    <3>2. CASE y \in kept
      BY <3>1, <3>2, <2>1
    <3>3. CASE y \notin kept
      <4>1. v1 >= v3[y].seen + Burst
        BY <2>3, <3>3, <1>2 DEF Budgets!Refillable, Budgets!Tracked
      <4>2. PICK b \in Budgets!Bucket, a \in Account : b = v3[y].bucket /\ a = v8[y]
        BY <2>1
      <4>3. /\ a.since <= b.mark /\ b.mark <= v2 /\ b.tokens + a.admitted <= Burst + (b.mark - a.since)
            /\ v1 >= b.mark + Burst
        BY <3>1, <4>1, <4>2 DEF Budgets!Paid
      <4>4. a.since \in Nat /\ a.admitted \in Nat /\ b.mark \in Nat /\ b.tokens \in Nat /\ v1 \in Nat /\ v2 \in Nat
        BY <1>1 DEF Account, Budgets!Bucket
      <4>5. a.since <= v2 /\ a.admitted <= v2 - a.since
        BY <4>3, <4>4, <1>1
      <4>. QED
        BY <4>2, <4>5, <3>3, <2>1
    <3>. QED
      BY <3>2, <3>3
  <2>. QED
    BY <2>1, <2>2, <2>3 DEF Budgets!BudgetsInv, Budgets!TypeOK, Budgets!Entry
<1>16. CASE Budgets!Cardinality(kept) >= MaxTracked /\ v3' = after /\ UNCHANGED <<v8, v9>>
  <2>1. Budgets!Tracked' \subseteq kept
    BY <1>5, <1>16 DEF Budgets!Tracked
  <2>2. Budgets!TypeOK'
    BY <2>1, <1>1, <1>5, <1>12, <1>14, <1>16 DEF Budgets!BudgetsInv, Budgets!TypeOK
  <2>3. Budgets!ConnectionPaid'
    BY <1>1, <1>16, ConnectionRests
  <2>4. Budgets!SubjectsPaid'
    <3>. SUFFICES ASSUME NEW y \in Subject \ v9
                  PROVE  (IF v3[y].live
                          THEN Budgets!Paid(v3[y].bucket, v8[y]) /\ v3[y].bucket.mark = v3[y].seen
                          ELSE v8[y].since <= v2 /\ v8[y].admitted <= v2 - v8[y].since)'
      BY <1>16 DEF Budgets!SubjectsPaid
    <3>1. v3'[y] = IF y \in kept THEN v3[y] ELSE Budgets!NoEntry
      BY <1>3, <1>16
    <3>2. y \in kept => v3[y].live
      BY <1>2 DEF Budgets!Tracked
    <3>. QED
      BY <3>1, <3>2, <1>1, <1>4, <1>15, <1>16 DEF Budgets!Paid
  <2>. QED
    BY <2>2, <2>3, <2>4, <1>1, <1>12 DEF Budgets!BudgetsInv
<1>17. CASE /\ ~(Budgets!Cardinality(kept) >= MaxTracked) /\ v3' = [after EXCEPT ![s] = e]
            /\ v8' = [v8 EXCEPT ![s] =
               [since |-> IF @ = Budgets!Closed THEN v1 ELSE @.since, admitted |-> @.admitted + 1]]
            /\ v9' = IF v1 < v2 THEN v9 \union {s} ELSE v9
  <2>1. PICK a \in Account : a = v8[s]
    BY <1>11
  <2>2. PICK c \in Account : c = [since |-> IF a = Budgets!Closed THEN v1 ELSE a.since, admitted |-> a.admitted + 1]
    <3>1. (IF a = Budgets!Closed THEN v1 ELSE a.since) \in 0..MaxTime /\ a.admitted + 1 \in Nat
      BY <1>1 DEF Account
    <3>. QED
      BY <3>1 DEF Account
  <2>3. /\ v8' = [v8 EXCEPT ![s] = c] /\ v8' \in [Budgets!Budgets \union Subject -> Account]
        /\ v8'[s] = c /\ \A y \in (Budgets!Budgets \union Subject) \ {s} : v8'[y] = v8[y]
    BY <1>11, <1>17, <2>1, <2>2
  <2>4. /\ v3' \in [Subject -> Budgets!Entry] /\ v3'[s] = e /\ e.live /\ e.bucket = d /\ e.seen = v1
        /\ \A y \in Subject \ {s} : v3'[y] = IF y \in kept THEN v3[y] ELSE Budgets!NoEntry
    BY <1>3, <1>5, <1>9, <1>17
  <2>5. Budgets!Tracked' \subseteq kept \union {s}
    BY <2>4, <1>4 DEF Budgets!Tracked
  <2>6. Budgets!Cardinality(Budgets!Tracked') <= MaxTracked
    <3>1. PICK T \in SUBSET kept : T = Budgets!Tracked' \ {s}
      BY <2>5
    <3>2. Budgets!Tracked' = T \union {s}
      BY <3>1, <2>4 DEF Budgets!Tracked
    <3>3. Budgets!IsFiniteSet(T) /\ Budgets!Cardinality(T) <= Budgets!Cardinality(kept) /\ Budgets!Cardinality(T) \in Nat
      BY <1>13, FS_Subset, FS_CardinalityType, BudgetsCount
    <3>. QED
      BY <3>2, <3>3, <1>1, <1>13, <1>14, <1>17
  <2>7. v9' \subseteq Subject /\ (s \notin v9' => v1 = v2 /\ s \notin v9) /\ v9 \subseteq v9'
    BY <1>1, <1>17 DEF Budgets!BudgetsInv, Budgets!TypeOK
  <2>8. Budgets!TypeOK'
    BY <2>3, <2>4, <2>6, <2>7, <1>1, <1>12 DEF Budgets!BudgetsInv, Budgets!TypeOK, Account
  <2>9. Budgets!ConnectionPaid'
    <3>1. \A b \in Budgets!Budgets : v8'[b] = v8[b]
      BY <2>3 DEF Budgets!BudgetsApart
    <3>. QED
      BY <3>1, <1>1, ConnectionRests
  <2>10. Budgets!SubjectsPaid'
    <3>. SUFFICES ASSUME NEW y \in Subject, y \notin v9'
                  PROVE  (IF v3[y].live
                          THEN Budgets!Paid(v3[y].bucket, v8[y]) /\ v3[y].bucket.mark = v3[y].seen
                          ELSE v8[y].since <= v2 /\ v8[y].admitted <= v2 - v8[y].since)'
      BY DEF Budgets!SubjectsPaid
    <3>1. y \notin v9
      BY <2>7
    <3>2. CASE y = s
      <4>1. v1 = v2 /\ a.since <= v2 /\ a.admitted <= v2 - a.since
        BY <3>1, <3>2, <2>1, <2>7, <1>5, <1>15
      <4>2. a.since \in Nat /\ a.admitted \in Nat /\ v1 \in Nat
        BY <1>1 DEF Account
      <4>3. c.since <= v1 /\ c.admitted <= 1 + (v1 - c.since) /\ c.since \in Nat /\ c.admitted \in Nat
        BY <4>1, <4>2, <2>2 DEF Budgets!Closed
      <4>4. d.tokens + c.admitted <= Burst + (d.mark - c.since)
        BY <4>2, <4>3, <1>1, <1>8
      <4>. QED
        BY <4>1, <4>3, <4>4, <3>2, <2>3, <2>4, <1>1, <1>8 DEF Budgets!Paid
    <3>3. CASE y # s
      <4>1. y \in kept => v3[y].live
        BY <1>2 DEF Budgets!Tracked
      <4>. QED
        BY <4>1, <3>1, <3>3, <2>3, <2>4, <1>1, <1>4, <1>15 DEF Budgets!Paid
    <3>. QED
      BY <3>2, <3>3
  <2>. QED
    BY <2>8, <2>9, <2>10, <1>1, <1>12 DEF Budgets!BudgetsInv
<1>. QED
  BY <1>10, <1>16, <1>17

LEMMA BudgetsRest ==
  ASSUME Budgets!BudgetsApart, Budgets!BudgetsInv, v2' \in 1..MaxTime, v2 <= v2', v1' \in 1..MaxTime,
         v1' <= v2', UNCHANGED <<v3, v4, v8, v9>>,
         v5' \in [Channel -> 0..MaxEpoch], UNCHANGED <<v6, v7>>,
         v10'.restarts = v10.restarts, v10' \in [backs : 0..MaxBacks, restarts : 0..MaxRestarts]
  PROVE  Budgets!BudgetsInv'
<1>1. Budgets!Tracked' = Budgets!Tracked
  BY DEF Budgets!Tracked
<1>2. Budgets!TypeOK'
  BY <1>1 DEF Budgets!BudgetsInv, Budgets!TypeOK
<1>3. v2' \in Nat
  OBVIOUS
<1>4. Budgets!ConnectionPaid' /\ Budgets!SubjectsPaid'
  BY <1>3, ConnectionRests, SubjectsRest
<1>. QED
  BY <1>2, <1>4 DEF Budgets!BudgetsInv, Budgets!EpochsKnown

LEMMA BudgetsRestart ==
  ASSUME Budgets!BudgetsApart, Budgets!BudgetsInv, Budgets!Restart
  PROVE  Budgets!BudgetsInv'
<1>1. /\ Burst \in Nat \ {0} /\ MaxTime \in Nat /\ v2 \in Nat /\ MaxRestarts \in Nat /\ MaxEpoch \in Nat
      /\ MaxTracked \in Nat /\ UNCHANGED <<v1, v2, v7>>
  BY DEF Budgets!BudgetsInv, Budgets!TypeOK, Budgets!BudgetsApart, Budgets!Restart
<1>2. /\ Budgets!NoEntry \in Budgets!Entry /\ Budgets!NoEntry.live = FALSE /\ Budgets!NoConnection \in [Budgets!Budgets -> Budgets!Bucket]
  BY <1>1 DEF Budgets!NoEntry, Budgets!Entry, Budgets!Bucket, Budgets!NoConnection
<1>3. Budgets!Tracked' = {}
  BY <1>2 DEF Budgets!Tracked, Budgets!Restart
<1>4. Budgets!Cardinality(Budgets!Tracked') <= MaxTracked
  BY <1>1, <1>3, FS_EmptySet, BudgetsCount
<1>5. v10'.restarts > 0 /\ v10' \in [backs : 0..MaxBacks, restarts : 0..MaxRestarts]
  <2>1. PICK n \in Nat : n = v10.restarts /\ v10 \in [backs : 0..MaxBacks, restarts : 0..MaxRestarts]
    BY DEF Budgets!BudgetsInv, Budgets!TypeOK
  <2>2. v10' = [v10 EXCEPT !.restarts = n + 1] /\ n < MaxRestarts
    BY <2>1 DEF Budgets!Restart
  <2>. QED
    BY <2>1, <2>2, <1>1
<1>6. DOMAIN v8 = Budgets!Budgets \union Subject
  BY DEF Budgets!BudgetsInv, Budgets!TypeOK
<1>7. v8' = [k \in Budgets!Budgets \union Subject |-> [since |-> 0, admitted |-> 0]]
  BY <1>6 DEF Budgets!Restart, Budgets!Closed
<1>8. Budgets!TypeOK'
  <2>1. v3' \in [Subject -> Budgets!Entry] /\ v4' \in [live : BOOLEAN, bucket : [Budgets!Budgets -> Budgets!Bucket]]
    BY <1>2 DEF Budgets!Restart
  <2>2. v8' \in [Budgets!Budgets \union Subject -> [since : 0..MaxTime, admitted : Nat]]
    BY <1>1, <1>7
  <2>3. v5' \in [Channel -> 0..MaxEpoch] /\ v6' \in 0..MaxEpoch /\ v9' \subseteq Subject
    BY <1>1 DEF Budgets!Restart
  <2>. QED
    BY <2>1, <2>2, <2>3, <1>1, <1>4, <1>5 DEF Budgets!BudgetsInv, Budgets!TypeOK
<1>9. Budgets!ConnectionPaid'
  BY <1>1, <1>7 DEF Budgets!ConnectionPaid, Budgets!Restart
<1>10. Budgets!SubjectsPaid'
  BY <1>1, <1>2, <1>7 DEF Budgets!SubjectsPaid, Budgets!Restart
<1>11. Budgets!EpochsKnown'
  BY <1>1, <1>5 DEF Budgets!EpochsKnown
<1>12. v1' <= v2'
  BY <1>1 DEF Budgets!BudgetsInv
<1>. QED
  BY <1>8, <1>9, <1>10, <1>11, <1>12 DEF Budgets!BudgetsInv

LEMMA BudgetsStep ==
  ASSUME Budgets!BudgetsApart
  PROVE  Budgets!BudgetsInv /\ [Budgets!Next]_Budgets!budgetVars => Budgets!BudgetsInv'
<1>. SUFFICES ASSUME Budgets!BudgetsInv, [Budgets!Next]_Budgets!budgetVars PROVE Budgets!BudgetsInv'
  OBVIOUS
<1>0. /\ v1 \in 1..MaxTime /\ v2 \in 1..MaxTime /\ v1 <= v2 /\ MaxTime \in Nat /\ MaxBacks \in Nat
      /\ v5 \in [Channel -> 0..MaxEpoch] /\ v10 \in [backs : 0..MaxBacks, restarts : 0..MaxRestarts]
      /\ MaxEpoch \in Nat
  BY DEF Budgets!BudgetsInv, Budgets!TypeOK, Budgets!BudgetsApart
<1>1. ASSUME NEW r \in Channel, Budgets!RoomEmpties(r) PROVE Budgets!BudgetsInv'
  BY <1>0, <1>1, BudgetsRest DEF Budgets!RoomEmpties
<1>2. CASE Budgets!Tick
  <2>1. v1' \in 1..MaxTime /\ v2' \in 1..MaxTime /\ v2 <= v2' /\ v1' <= v2'
    BY <1>0, <1>2 DEF Budgets!Tick, Budgets!Larger
  <2>. QED
    BY <2>1, <1>0, <1>2, BudgetsRest DEF Budgets!Tick
<1>3. CASE Budgets!ClockSetBack
  <2>1. v1' \in 1..MaxTime /\ v2' = v2 /\ v1' <= v2'
    BY <1>0, <1>3 DEF Budgets!ClockSetBack
  <2>2. v10'.restarts = v10.restarts /\ v10' \in [backs : 0..MaxBacks, restarts : 0..MaxRestarts]
    <3>1. PICK n \in Nat : n = v10.backs
      BY <1>0
    <3>2. v10' = [v10 EXCEPT !.backs = n + 1] /\ n < MaxBacks
      BY <3>1, <1>3 DEF Budgets!ClockSetBack
    <3>. QED
      BY <3>2, <1>0
  <2>. QED
    BY <2>1, <2>2, <1>0, <1>3, BudgetsRest DEF Budgets!ClockSetBack
<1>4. CASE UNCHANGED Budgets!budgetVars
  BY <1>0, <1>4, BudgetsRest DEF Budgets!budgetVars
<1>. QED
  BY <1>1, <1>2, <1>3, <1>4, BudgetsConnect, BudgetsFrame, BudgetsJoinTracked,
     BudgetsJoinUntracked, BudgetsRestart DEF Budgets!Next, Budgets!ConnectionNext,
     Budgets!JoinNext, Budgets!ClockNext

LEMMA BudgetsGiveHolds ==
  ASSUME Budgets!BudgetsApart
  PROVE  Budgets!BudgetsInv => Budgets!BudgetHolds
<1>. SUFFICES ASSUME Budgets!BudgetsInv, NEW k \in DOMAIN v8 \ v9
              PROVE  v8[k].admitted <= Burst + Budgets!Less(v2, v8[k].since)
  BY DEF Budgets!BudgetHolds
<1>1. /\ Burst \in Nat /\ v2 \in Nat /\ v8[k] \in Account /\ k \in Budgets!Budgets \union Subject
  BY BudgetsTyped DEF Budgets!BudgetsInv
<1>2. PICK a \in Account : a = v8[k]
  BY <1>1
<1>3. a.since \in Nat /\ a.admitted \in Nat
  BY DEF Account
<1>4. a.since <= v2 /\ a.admitted <= Burst + (v2 - a.since)
  <2>1. CASE k \in Budgets!Budgets
    BY <2>1, <1>2 DEF Budgets!BudgetsInv, Budgets!ConnectionPaid
  <2>2. CASE k \in Subject /\ v3[k].live
    <3>1. PICK b \in Budgets!Bucket : b = v3[k].bucket
      BY <2>2, BudgetsTyped DEF Budgets!BudgetsInv
    <3>2. a.since <= b.mark /\ b.mark <= v2 /\ b.tokens + a.admitted <= Burst + (b.mark - a.since)
      BY <2>2, <3>1, <1>2 DEF Budgets!BudgetsInv, Budgets!SubjectsPaid, Budgets!Paid
    <3>. QED
      BY <3>2, <1>1, <1>3 DEF Budgets!Bucket
  <2>3. CASE k \in Subject /\ ~v3[k].live
    <3>1. a.since <= v2 /\ a.admitted <= v2 - a.since
      BY <2>3, <1>2 DEF Budgets!BudgetsInv, Budgets!SubjectsPaid
    <3>. QED
      BY <3>1, <1>1, <1>3
  <2>. QED
    BY <2>1, <2>2, <2>3, <1>1
<1>. QED
  BY <1>1, <1>2, <1>3, <1>4 DEF Budgets!Less

LEMMA EpochRises ==
  ASSUME Budgets!BudgetsApart, Budgets!BudgetsInv, [Budgets!Next]_Budgets!budgetVars
  PROVE  Budgets!NewEpochsRise
<1>. SUFFICES ASSUME NEW r \in Channel, v5[r] = 0, v5'[r] # 0
              PROVE  v5'[r] > v7 \/ (v10.restarts > 0 /\ v1 <= v7)
  BY DEF Budgets!NewEpochsRise
<1>1. /\ v5 \in [Channel -> 0..MaxEpoch] /\ v6 \in Nat /\ v7 \in Nat /\ v1 \in Nat
      /\ v10.restarts \in Nat /\ MaxEpoch \in Nat
  BY DEF Budgets!BudgetsInv, Budgets!TypeOK, Budgets!BudgetsApart
<1>2. PICK x \in Channel : Budgets!EnterRoom(x)
  BY <1>1 DEF Budgets!Next, Budgets!ConnectionNext, Budgets!Connect, Budgets!Frame,
     Budgets!JoinNext, Budgets!JoinUntracked, Budgets!JoinTracked, Budgets!RoomEmpties,
     Budgets!ClockNext, Budgets!Tick, Budgets!ClockSetBack, Budgets!Restart, Budgets!budgetVars
<1>3. PICK g : g = Budgets!NextGeneration
  OBVIOUS
<1>4. g \in Nat /\ g >= v6 + 1 /\ g >= v1
  BY <1>1, <1>3 DEF Budgets!NextGeneration, Budgets!Larger
<1>5. v5'[r] = g
  BY <1>1, <1>2, <1>3 DEF Budgets!EnterRoom
<1>6. v10.restarts = 0 => v6 = v7
  BY DEF Budgets!BudgetsInv, Budgets!EpochsKnown
<1>. QED
  BY <1>1, <1>4, <1>5, <1>6

\* Of RelayBudgets by itself: no budget admits more than its allowance, however the clock
\* moves and whatever is evicted and forgotten (rate-limit.ts).
THEOREM BudgetsKept ==
  ASSUME Budgets!BudgetsApart
  PROVE  Budgets!Spec => [](Budgets!TypeOK /\ Budgets!BudgetHolds)
<1>1. Budgets!Init => Budgets!BudgetsInv
  BY BudgetsInit
<1>2. Budgets!BudgetsInv /\ [Budgets!Next]_Budgets!budgetVars => Budgets!BudgetsInv'
  BY BudgetsStep
<1>3. Budgets!BudgetsInv => Budgets!TypeOK /\ Budgets!BudgetHolds
  BY BudgetsGiveHolds DEF Budgets!BudgetsInv
<1>. QED
  BY <1>1, <1>2, <1>3, PTL DEF Budgets!Spec

\* And an epoch is above every one of its room, unless the clock was set back over a
\* restart (fanout.ts).
THEOREM EpochsKeepRising ==
  ASSUME Budgets!BudgetsApart
  PROVE  Budgets!Spec => Budgets!EpochsRise
<1>1. Budgets!Init => Budgets!BudgetsInv
  BY BudgetsInit
<1>2. Budgets!BudgetsInv /\ [Budgets!Next]_Budgets!budgetVars => Budgets!BudgetsInv'
  BY BudgetsStep
<1>3. Budgets!BudgetsInv /\ [Budgets!Next]_Budgets!budgetVars => [Budgets!NewEpochsRise]_Budgets!budgetVars
  BY EpochRises
<1>. QED
  BY <1>1, <1>2, <1>3, PTL DEF Budgets!Spec, Budgets!EpochsRise

-----------------------------------------------------------------------------
(* RoomKeys, AssetTransfer, SharedLinks, SceneCatalog, RelayTransport,      *)
(* WirePath, RelayProcess, BackendBudgets; RoomEntry, RoomSession, SceneSync. *)
KeysP == INSTANCE RoomKeys_proofs WITH
  File <- Image,
  room <- v1, minted <- v2, tab <- v3, known <- v4, snapshot <- v5, image <- v6,
  sealed <- v7, release <- v8,
  assetRoom <- v1, canvas <- v2, ids <- v3, fetches <- v4, requests <- v5, down <- v6,
  up <- v7, verdict <- v8, assetTab <- v9, seen <- v10,
  SharedFile <- {"f", "g"}, Export <- {1, 2}, MaxRetries <- 2, MaxRuns <- 2, MaxPageTurns <- 3,
  status <- v1, export <- v2, shareRow <- v3, shown <- v4, listing <- v5, load <- v6,
  retry <- v7, notified <- v8, pageCanvas <- v9, slipped <- v10,
  Scene <- {1, 2, 3}, DashboardTab <- {"a", "b"}, PageSize <- 1, MaxTime <- 2,
  MaxSceneRevision <- 2, MaxSlugs <- 3, MaxSlugAttempts <- 2,
  clock <- v1, sceneRow <- v2, list <- v3, touched <- v4, drawn <- v5, publish <- v6,
  links <- v7, replaced <- v8,
  MaxWireFrames <- 2, MaxArrivals <- 5, MaxLinks <- 2, MaxInbound <- 2, MaxBuffered <- 2,
  MaxSeals <- 3, Threshold <- 2,
  relayLink <- v1, inbound <- v2, openedOnce <- v3, delivered <- v4, roomVerdict <- v5,
  missed <- v6, sealCount <- v7, outbound <- v8, buffered <- v9, onWire <- v10,
  Client <- {"a", "b"}, Room <- {"r", "s"}, Budget <- [scene |-> 2, presence |-> 1],
  Overhead <- 1, Header <- 1, Lifetime <- 1, MaxLifetime <- 1, Skew <- 1, MaxWireTime <- 1,
  MaxSessions <- 3, MaxMessages <- 1, MaxMishaps <- 1,
  wireClock <- v1, relay <- v2, backend <- v3, client <- v4, wire <- v5, spoilt <- v6,
  used <- v7,
  Conn <- {1, 2, 3}, MaxServed <- 2, DrainTimeout <- 2, RejectGrace <- 1, KillTimeout <- 3,
  MaxCauses <- 2, proc <- v1, conn <- v2, manager <- v3,
  Member <- {"a", "b"}, MemberTab <- {1, 2}, MemberOf <- [n \in {1, 2} |-> "a"],
  Allowance <- [operation \in {"snapshot-put", "snapshot-finalize", "join", "asset-upload"} |->
                  IF operation = "snapshot-finalize" THEN 1 ELSE 2],
  LimitWindow <- 2, MaxTries <- 3, MaxBudgetTime <- 4, MaxCalls <- 5,
  limitClock <- v1, spent <- v2, limitRole <- v3, limitWrite <- v4, limitTab <- v5, limitCalls <- v6

EntryP == INSTANCE RoomEntry_proofs WITH
  attempt <- v1, canvas <- v2, scene <- v3, claim <- v4, session <- v5,
  role <- v6, ui <- v7, received <- v8, slipped <- v9, moves <- v10,
  tab <- v1, hostMoves <- v2,
  row <- v1, syncSession <- v2, syncCanvas <- v3, save <- v4, pull <- v5, rename <- v6,
  dialog <- v7, used <- v8, descends <- v9, owed <- v10

(* The room keys of RoomKeys_proofs are those of MCComponents.              *)
LEMMA KeysAreKeys ==
  /\ Keys!BoundsPositive => KeysP!BoundsPositive
  /\ Keys!Init => KeysP!Init
  /\ [Keys!Next]_Keys!keyVars => [KeysP!Next]_KeysP!keyVars
  /\ KeysP!KeysSound => Keys!KeysSound
<1>1. Keys!BoundsPositive => KeysP!BoundsPositive
  BY DEF Keys!BoundsPositive, KeysP!BoundsPositive
<1>2. Keys!Init => KeysP!Init
  BY ZenonT(120) DEF Keys!Gen, KeysP!Gen, Keys!Init, KeysP!Init, Keys!NoDialog, KeysP!NoDialog,
     Keys!NoSeal, KeysP!NoSeal, Keys!NoSession, KeysP!NoSession
<1>3. [Keys!Next]_Keys!keyVars => [KeysP!Next]_KeysP!keyVars
  BY ZenonT(120) DEF Keys!AdditionalData, KeysP!AdditionalData, Keys!Channels, KeysP!Channels,
     Keys!CheckPlace, KeysP!CheckPlace, Keys!CreateRoom, KeysP!CreateRoom, Keys!Deploy,
     KeysP!Deploy, Keys!DeriveRoomKey, KeysP!DeriveRoomKey, Keys!EndSession, KeysP!EndSession,
     Keys!FollowLink, KeysP!FollowLink, Keys!FramePlace, KeysP!FramePlace, Keys!Idle, KeysP!Idle,
     Keys!ImagePlace, KeysP!ImagePlace, Keys!Join, KeysP!Join, Keys!KeyFor, KeysP!KeyFor,
     Keys!LeaveRoom, KeysP!LeaveRoom, Keys!Live, KeysP!Live, Keys!MintKey, KeysP!MintKey, Keys!Next,
     KeysP!Next, Keys!NoDialog, KeysP!NoDialog, Keys!NoSeal, KeysP!NoSeal, Keys!NoSession,
     KeysP!NoSession, Keys!Opens, KeysP!Opens, Keys!PublishImage, KeysP!PublishImage,
     Keys!RotateGeneration, KeysP!RotateGeneration, Keys!SaveSnapshot, KeysP!SaveSnapshot,
     Keys!Seal, KeysP!Seal, Keys!Sealed, KeysP!Sealed, Keys!SendFrame, KeysP!SendFrame,
     Keys!SetKeyCheck, KeysP!SetKeyCheck, Keys!SetLink, KeysP!SetLink, Keys!Settle, KeysP!Settle,
     Keys!SnapshotPlace, KeysP!SnapshotPlace, Keys!Verified, KeysP!Verified, Keys!Verify,
     KeysP!Verify, Keys!keyVars, KeysP!keyVars, Keys!Cardinality, KeysP!Cardinality
<1>4. KeysP!KeysSound => Keys!KeysSound
  BY ZenonT(120) DEF Keys!AdditionalData, KeysP!AdditionalData, Keys!Channels, KeysP!Channels,
     Keys!CheckPlace, KeysP!CheckPlace, Keys!DeriveRoomKey, KeysP!DeriveRoomKey, Keys!FramePlace,
     KeysP!FramePlace, Keys!ImagePlace, KeysP!ImagePlace, Keys!KeyFor, KeysP!KeyFor, Keys!KeysAgree,
     KeysP!KeysAgree, Keys!KeysSound, KeysP!KeysSound, Keys!Live, KeysP!Live, Keys!NoSeal,
     KeysP!NoSeal, Keys!Opens, KeysP!Opens, Keys!OpensItsOwn, KeysP!OpensItsOwn, Keys!Sealed,
     KeysP!Sealed, Keys!SnapshotPlace, KeysP!SnapshotPlace
<1>. QED
  BY <1>1, <1>2, <1>3, <1>4

(* AssetTransfer, which RoomKeys_proofs takes with it.                      *)
LEMMA AssetsAreAssets ==
  /\ Assets!AssetBounds => KeysP!Assets!AssetBounds
  /\ Assets!Init => KeysP!Assets!Init
  /\ [Assets!Next]_Assets!assetVars => [KeysP!Assets!Next]_KeysP!Assets!assetVars
  /\ KeysP!Assets!ReportsWithProof => Assets!ReportsWithProof
<1>1. Assets!AssetBounds => KeysP!Assets!AssetBounds
  BY DEF Assets!AssetBounds, KeysP!Assets!AssetBounds
<1>2. Assets!Init => KeysP!Assets!Init
  BY DEF Assets!Fresh, KeysP!Assets!Fresh, Assets!Init, KeysP!Assets!Init, Assets!NoFence,
     KeysP!Assets!NoFence
<1>3. [Assets!Next]_Assets!assetVars => [KeysP!Assets!Next]_KeysP!Assets!assetVars
  BY ZenonT(120) DEF Assets!Arm, KeysP!Assets!Arm, Assets!Asked, KeysP!Assets!Asked,
     Assets!DeadlinePasses, KeysP!Assets!DeadlinePasses, Assets!Defer, KeysP!Assets!Defer,
     Assets!Destroy, KeysP!Assets!Destroy, Assets!Downloading, KeysP!Assets!Downloading,
     Assets!Early, KeysP!Assets!Early, Assets!FetchSettles, KeysP!Assets!FetchSettles, Assets!Flush,
     KeysP!Assets!Flush, Assets!Forget, KeysP!Assets!Forget, Assets!Fresh, KeysP!Assets!Fresh,
     Assets!Joinable, KeysP!Assets!Joinable, Assets!Latch, KeysP!Assets!Latch, Assets!LinkChanges,
     KeysP!Assets!LinkChanges, Assets!LookupAnswers, KeysP!Assets!LookupAnswers, Assets!Next,
     KeysP!Assets!Next, Assets!NoFence, KeysP!Assets!NoFence, Assets!NoteUndecryptable,
     KeysP!Assets!NoteUndecryptable, Assets!Opened, KeysP!Assets!Opened, Assets!PeerUploads,
     KeysP!Assets!PeerUploads, Assets!Publish, KeysP!Assets!Publish, Assets!PublishTimerFires,
     KeysP!Assets!PublishTimerFires, Assets!Request, KeysP!Assets!Request, Assets!RequestGoesOn,
     KeysP!Assets!RequestGoesOn, Assets!Requeued, KeysP!Assets!Requeued, Assets!RetryTimerFires,
     KeysP!Assets!RetryTimerFires, Assets!Running, KeysP!Assets!Running, Assets!Settled,
     KeysP!Assets!Settled, Assets!Turn, KeysP!Assets!Turn, Assets!UploadEnds,
     KeysP!Assets!UploadEnds, Assets!UserEdits, KeysP!Assets!UserEdits, Assets!Wanted,
     KeysP!Assets!Wanted, Assets!assetVars, KeysP!Assets!assetVars, Assets!Cardinality,
     KeysP!Assets!Cardinality
<1>4. KeysP!Assets!ReportsWithProof => Assets!ReportsWithProof
  BY DEF Assets!ReportsWithProof, KeysP!Assets!ReportsWithProof
<1>. QED
  BY <1>1, <1>2, <1>3, <1>4

(* So are the entry of RoomEntry_proofs and the session it builds.          *)
LEMMA EntryIsEntry ==
  /\ Entry!RoomsApart => EntryP!RoomsApart
  /\ Entry!Init => EntryP!Init
  /\ [Entry!Next]_Entry!entryVars => [EntryP!Next]_EntryP!entryVars
  /\ EntryP!RoomGetsItsOwn => Entry!RoomGetsItsOwn
<1>1. Entry!RoomsApart => EntryP!RoomsApart
  BY DEF Entry!None, EntryP!None, Entry!Private, EntryP!Private, Entry!RoomsApart, EntryP!RoomsApart
<1>2. Entry!Init => EntryP!Init
  BY ZenonT(120) DEF Entry!Init, EntryP!Init, Entry!InitialRoomState, EntryP!InitialRoomState,
     Entry!NoAttempt, EntryP!NoAttempt, Entry!None, EntryP!None, Entry!Private, EntryP!Private
<1>3. [Entry!Next]_Entry!entryVars => [EntryP!Next]_EntryP!entryVars
  BY ZenonT(120) DEF Entry!At, EntryP!At, Entry!Blocked, EntryP!Blocked, Entry!Built, EntryP!Built,
     Entry!CanSync, EntryP!CanSync, Entry!Claimed, EntryP!Claimed, Entry!Slips, EntryP!Slips,
     Entry!Claim, EntryP!Claim, Entry!ClaimAfterLoad,
     EntryP!ClaimAfterLoad, Entry!Cleared, EntryP!Cleared, Entry!Decided, EntryP!Decided,
     Entry!Draw, EntryP!Draw, Entry!Enter, EntryP!Enter, Entry!Fails, EntryP!Fails, Entry!Flushed,
     EntryP!Flushed, Entry!Goto, EntryP!Goto, Entry!ImportFile, EntryP!ImportFile, Entry!InHandoff,
     EntryP!InHandoff, Entry!InitialRoomState, EntryP!InitialRoomState, Entry!IsReadOnly,
     EntryP!IsReadOnly, Entry!LoadScene, EntryP!LoadScene, Entry!Lost, EntryP!Lost, Entry!MaxTries,
     EntryP!MaxTries, Entry!Move, EntryP!Move, Entry!NewTag, EntryP!NewTag, Entry!Next, EntryP!Next,
     Entry!NoAttempt, EntryP!NoAttempt, Entry!None, EntryP!None, Entry!Private, EntryP!Private,
     Entry!RateLimited, EntryP!RateLimited, Entry!Refused, EntryP!Refused, Entry!Reload,
     EntryP!Reload, Entry!RoomKnown, EntryP!RoomKnown, Entry!SaveCopy, EntryP!SaveCopy, Entry!Show,
     EntryP!Show, Entry!Synced, EntryP!Synced, Entry!Tags, EntryP!Tags, Entry!entryVars,
     EntryP!entryVars
<1>4. EntryP!RoomGetsItsOwn => Entry!RoomGetsItsOwn
  BY DEF Entry!RoomGetsItsOwn, EntryP!RoomGetsItsOwn
<1>. QED
  BY <1>1, <1>2, <1>3, <1>4

(* RoomSession, which RoomEntry_proofs takes with it.                       *)
LEMMA HostIsHost ==
  /\ Host!Init => EntryP!Host!Init
  /\ [Host!Next]_Host!vars => [EntryP!Host!Next]_EntryP!Host!vars
  /\ EntryP!Host!RoomSessionSound => Host!RoomSessionSound
<1>1. Host!Init => EntryP!Host!Init
  BY DEF Host!Init, EntryP!Host!Init
<1>2. [Host!Next]_Host!vars => [EntryP!Host!Next]_EntryP!Host!vars
  <2>1. (Host!CodecDerived => EntryP!Host!CodecDerived) /\ (Host!AssetKeysDerived =>
       EntryP!Host!AssetKeysDerived) /\ (Host!SnapshotKeysDerived =>
       EntryP!Host!SnapshotKeysDerived) /\ (Host!Joined => EntryP!Host!Joined) /\ (Host!Lost =>
       EntryP!Host!Lost)
    BY ZenonT(120) DEF Host!Abandon, EntryP!Host!Abandon, Host!AssetKeysDerived,
       EntryP!Host!AssetKeysDerived, Host!Becomes, EntryP!Host!Becomes, Host!ClearPresence,
       EntryP!Host!ClearPresence, Host!CodecDerived, EntryP!Host!CodecDerived, Host!Destroy,
       EntryP!Host!Destroy, Host!Disconnected, EntryP!Host!Disconnected, Host!HostParts,
       EntryP!Host!HostParts, Host!Joined, EntryP!Host!Joined, Host!Lost, EntryP!Host!Lost,
       Host!MayPublish, EntryP!Host!MayPublish, Host!Moves, EntryP!Host!Moves, Host!Release,
       EntryP!Host!Release, Host!Run, EntryP!Host!Run, Host!SessionParts, EntryP!Host!SessionParts,
       Host!SnapshotKeysDerived, EntryP!Host!SnapshotKeysDerived, Host!Started, EntryP!Host!Started,
       Host!Stop, EntryP!Host!Stop, Host!Teardown, EntryP!Host!Teardown, Host!Terminate,
       EntryP!Host!Terminate
  <2>2. (Host!ReconnectFires => EntryP!Host!ReconnectFires) /\ (Host!RefreshSettles =>
       EntryP!Host!RefreshSettles) /\ (Host!RoomUnreadable => EntryP!Host!RoomUnreadable) /\
       (Host!BaselineSettles => EntryP!Host!BaselineSettles) /\ (Host!BaselineTimeout =>
       EntryP!Host!BaselineTimeout)
    BY ZenonT(120) DEF Host!Apply, EntryP!Host!Apply, Host!BaselineSettles,
       EntryP!Host!BaselineSettles, Host!BaselineTimeout, EntryP!Host!BaselineTimeout, Host!Becomes,
       EntryP!Host!Becomes, Host!ClearPresence, EntryP!Host!ClearPresence, Host!Disconnected,
       EntryP!Host!Disconnected, Host!Ended, EntryP!Host!Ended, Host!HostParts, EntryP!Host!HostParts,
       Host!Is, EntryP!Host!Is, Host!Moves, EntryP!Host!Moves, Host!ReconnectFires,
       EntryP!Host!ReconnectFires, Host!RefreshSettles, EntryP!Host!RefreshSettles, Host!Release,
       EntryP!Host!Release, Host!RoomUnreadable, EntryP!Host!RoomUnreadable, Host!Run,
       EntryP!Host!Run, Host!SessionParts, EntryP!Host!SessionParts, Host!Stop, EntryP!Host!Stop,
       Host!Stopped, EntryP!Host!Stopped, Host!Teardown, EntryP!Host!Teardown, Host!Terminate,
       EntryP!Host!Terminate, Host!Write, EntryP!Host!Write
  <2>3. (Host!SceneArrives => EntryP!Host!SceneArrives) /\ (Host!DownloadSettles =>
       EntryP!Host!DownloadSettles) /\ (Host!PresenceArrives => EntryP!Host!PresenceArrives) /\
       (Host!CursorsApply => EntryP!Host!CursorsApply) /\ (Host!PeersPruned =>
       EntryP!Host!PeersPruned)
    BY ZenonT(120) DEF Host!Apply, EntryP!Host!Apply, Host!Becomes, EntryP!Host!Becomes,
       Host!CursorsApply, EntryP!Host!CursorsApply, Host!DownloadSettles, EntryP!Host!DownloadSettles,
       Host!Ended, EntryP!Host!Ended, Host!Is, EntryP!Host!Is, Host!PeersPruned,
       EntryP!Host!PeersPruned, Host!PresenceArrives, EntryP!Host!PresenceArrives, Host!Run,
       EntryP!Host!Run, Host!SceneArrives, EntryP!Host!SceneArrives, Host!Stop, EntryP!Host!Stop,
       Host!Stopped, EntryP!Host!Stopped, Host!Write, EntryP!Host!Write
  <2>4. (Host!FlushFires => EntryP!Host!FlushFires) /\ (Host!RepairFires => EntryP!Host!RepairFires)
       /\ (Host!PresenceTimerFires => EntryP!Host!PresenceTimerFires) /\ (Host!Edit =>
       EntryP!Host!Edit) /\ (Host!Scroll => EntryP!Host!Scroll)
    BY ZenonT(120) DEF Host!Becomes, EntryP!Host!Becomes, Host!ClearPresence,
       EntryP!Host!ClearPresence, Host!Disconnected, EntryP!Host!Disconnected, Host!Edit,
       EntryP!Host!Edit, Host!FlushFires, EntryP!Host!FlushFires, Host!HasHandle,
       EntryP!Host!HasHandle, Host!HostParts, EntryP!Host!HostParts, Host!Is, EntryP!Host!Is,
       Host!MayPublish, EntryP!Host!MayPublish, Host!Moves, EntryP!Host!Moves,
       Host!PresenceTimerFires, EntryP!Host!PresenceTimerFires, Host!Release, EntryP!Host!Release,
       Host!RepairFires, EntryP!Host!RepairFires, Host!Run, EntryP!Host!Run, Host!Scroll,
       EntryP!Host!Scroll, Host!SessionParts, EntryP!Host!SessionParts, Host!Stop, EntryP!Host!Stop,
       Host!Stopped, EntryP!Host!Stopped, Host!Teardown, EntryP!Host!Teardown, Host!Terminate,
       EntryP!Host!Terminate
  <2>5. (Host!PointerMoves => EntryP!Host!PointerMoves) /\ (Host!IdleTimerFires =>
       EntryP!Host!IdleTimerFires) /\ (Host!VisibilityChanges => EntryP!Host!VisibilityChanges) /\
       (Host!SwitchScene => EntryP!Host!SwitchScene) /\ (Host!Leave => EntryP!Host!Leave)
    BY ZenonT(120) DEF Host!Announce, EntryP!Host!Announce, Host!Becomes, EntryP!Host!Becomes,
       Host!ClearPresence, EntryP!Host!ClearPresence, Host!Destroy, EntryP!Host!Destroy,
       Host!Disconnected, EntryP!Host!Disconnected, Host!HasHandle, EntryP!Host!HasHandle,
       Host!HostParts, EntryP!Host!HostParts, Host!IdleTimerFires, EntryP!Host!IdleTimerFires,
       Host!Is, EntryP!Host!Is, Host!Leave, EntryP!Host!Leave, Host!MarkActive,
       EntryP!Host!MarkActive, Host!MayPublish, EntryP!Host!MayPublish, Host!PointerMoves,
       EntryP!Host!PointerMoves, Host!Release, EntryP!Host!Release, Host!Run, EntryP!Host!Run,
       Host!SessionParts, EntryP!Host!SessionParts, Host!Stop, EntryP!Host!Stop, Host!Stopped,
       EntryP!Host!Stopped, Host!SwitchScene, EntryP!Host!SwitchScene, Host!Teardown,
       EntryP!Host!Teardown, Host!Terminate, EntryP!Host!Terminate, Host!VisibilityChanges,
       EntryP!Host!VisibilityChanges
  <2>6. (Host!FlushSettles => EntryP!Host!FlushSettles)
    BY ZenonT(120) DEF Host!Becomes, EntryP!Host!Becomes, Host!FlushSettles, EntryP!Host!FlushSettles,
       Host!Is, EntryP!Host!Is, Host!Stop, EntryP!Host!Stop
  <2>. QED
    BY <2>1, <2>2, <2>3, <2>4, <2>5, <2>6, ZenonT(120) DEF Host!Next, EntryP!Host!Next, Host!vars, EntryP!Host!vars
<1>3. EntryP!Host!RoomSessionSound => Host!RoomSessionSound
  BY ZenonT(120) DEF Host!CursorsAreLive, EntryP!Host!CursorsAreLive, Host!Ended, EntryP!Host!Ended,
     Host!EndedIsQuiet, EntryP!Host!EndedIsQuiet, Host!IdleIsTrue, EntryP!Host!IdleIsTrue,
     Host!LeavingFlushes, EntryP!Host!LeavingFlushes, Host!NothingWrittenLate,
     EntryP!Host!NothingWrittenLate, Host!RoomSessionSound, EntryP!Host!RoomSessionSound,
     Host!Stopped, EntryP!Host!Stopped
<1>. QED
  BY <1>1, <1>2, <1>3

(* SceneSync, which it takes too.                                           *)
LEMMA SyncIsSync ==
  /\ Sync!ScenesApart => EntryP!Sync!ScenesApart
  /\ Sync!Init => EntryP!Sync!Init
  /\ [Sync!Next]_Sync!syncVars => [EntryP!Sync!Next]_EntryP!Sync!syncVars
  /\ EntryP!Sync!LosesByAdoption => Sync!LosesByAdoption
  /\ EntryP!Sync!RefreshesClean => Sync!RefreshesClean
<1>1. Sync!ScenesApart => EntryP!Sync!ScenesApart
  BY DEF Sync!NoScene, EntryP!Sync!NoScene, Sync!ScenesApart, EntryP!Sync!ScenesApart
<1>2. Sync!Init => EntryP!Sync!Init
  BY DEF Sync!Idle, EntryP!Sync!Idle, Sync!Init, EntryP!Sync!Init, Sync!Live, EntryP!Sync!Live,
     Sync!NewRow, EntryP!Sync!NewRow, Sync!NoPull, EntryP!Sync!NoPull, Sync!NoRow,
     EntryP!Sync!NoRow, Sync!NoScene, EntryP!Sync!NoScene, Sync!NoSession, EntryP!Sync!NoSession,
     Sync!NoVersion, EntryP!Sync!NoVersion
<1>3. [Sync!Next]_Sync!syncVars => [EntryP!Sync!Next]_EntryP!Sync!syncVars
  BY ZenonT(120) DEF Sync!Apply, EntryP!Sync!Apply, Sync!CanFly, EntryP!Sync!CanFly,
     Sync!CheckDecides, EntryP!Sync!CheckDecides, Sync!CheckStarts, EntryP!Sync!CheckStarts,
     Sync!Edit, EntryP!Sync!Edit, Sync!Idle, EntryP!Sync!Idle, Sync!InFlight, EntryP!Sync!InFlight,
     Sync!KeepLocal, EntryP!Sync!KeepLocal, Sync!Live, EntryP!Sync!Live, Sync!LoadStarts,
     EntryP!Sync!LoadStarts, Sync!MarkDirty, EntryP!Sync!MarkDirty, Sync!Matches,
     EntryP!Sync!Matches, Sync!Mishap, EntryP!Sync!Mishap, Sync!NewRow, EntryP!Sync!NewRow,
     Sync!Next, EntryP!Sync!Next, Sync!NoPull, EntryP!Sync!NoPull, Sync!NoRow, EntryP!Sync!NoRow,
     Sync!NoScene, EntryP!Sync!NoScene, Sync!NoSession, EntryP!Sync!NoSession, Sync!NoVersion,
     EntryP!Sync!NoVersion, Sync!OtherDeletes, EntryP!Sync!OtherDeletes, Sync!OtherSaves,
     EntryP!Sync!OtherSaves, Sync!PullFails, EntryP!Sync!PullFails, Sync!Reload, EntryP!Sync!Reload,
     Sync!RenameLands, EntryP!Sync!RenameLands, Sync!RenameSent, EntryP!Sync!RenameSent,
     Sync!Rollback, EntryP!Sync!Rollback, Sync!SaveAims, EntryP!Sync!SaveAims, Sync!SaveCommits,
     EntryP!Sync!SaveCommits, Sync!SaveFails, EntryP!Sync!SaveFails, Sync!SaveLands,
     EntryP!Sync!SaveLands, Sync!SaveRefused, EntryP!Sync!SaveRefused, Sync!SaveStarts,
     EntryP!Sync!SaveStarts, Sync!ServerAnswers, EntryP!Sync!ServerAnswers, Sync!Sync,
     EntryP!Sync!Sync, Sync!SyncAction, EntryP!Sync!SyncAction, Sync!syncVars, EntryP!Sync!syncVars,
     Sync!Cardinality, EntryP!Sync!Cardinality
<1>4. EntryP!Sync!LosesByAdoption => Sync!LosesByAdoption
  BY DEF Sync!Live, EntryP!Sync!Live, Sync!Loses, EntryP!Sync!Loses, Sync!LosesByAdoption,
     EntryP!Sync!LosesByAdoption
<1>5. EntryP!Sync!RefreshesClean => Sync!RefreshesClean
  BY ZenonT(120) DEF Sync!Apply, EntryP!Sync!Apply, Sync!Idle, EntryP!Sync!Idle, Sync!NoPull,
     EntryP!Sync!NoPull, Sync!NoScene, EntryP!Sync!NoScene, Sync!NoVersion, EntryP!Sync!NoVersion,
     Sync!RefreshesClean, EntryP!Sync!RefreshesClean, Sync!Sync, EntryP!Sync!Sync
<1>. QED
  BY <1>1, <1>2, <1>3, <1>4, <1>5

(* RelayTransport, WirePath and RelayProcess, which RoomKeys_proofs takes.  *)
LEMMA TransportIsLink ==
  /\ Transport!TransportBounds => KeysP!Link!TransportBounds
  /\ Transport!Init => KeysP!Link!Init
  /\ Transport!LinkNext => KeysP!Link!LinkNext
  /\ Transport!InboundNext => KeysP!Link!InboundNext
  /\ Transport!OutboundNext => KeysP!Link!OutboundNext
  /\ KeysP!Link!TransportSound => Transport!TransportSound
<1>1. Transport!TransportBounds => KeysP!Link!TransportBounds
  BY DEF Transport!TransportBounds, KeysP!Link!TransportBounds
<1>2. Transport!Init => KeysP!Link!Init
  BY ZenonT(120) DEF Transport!Channels, KeysP!Link!Channels, Transport!Empty, KeysP!Link!Empty,
     Transport!Init, KeysP!Link!Init, Transport!NoEvidence, KeysP!Link!NoEvidence, Transport!Untold,
     KeysP!Link!Untold
<1>3. Transport!LinkNext => KeysP!Link!LinkNext
  BY ZenonT(120) DEF Transport!Channels, KeysP!Link!Channels, Transport!Codes, KeysP!Link!Codes,
     Transport!Connect, KeysP!Link!Connect, Transport!Disconnect, KeysP!Link!Disconnect,
     Transport!Drop, KeysP!Link!Drop, Transport!Empty, KeysP!Link!Empty, Transport!Firsts,
     KeysP!Link!Firsts, Transport!Joined, KeysP!Link!Joined, Transport!LinkNext,
     KeysP!Link!LinkNext, Transport!Reason, KeysP!Link!Reason, Transport!ReceiveJoined,
     KeysP!Link!ReceiveJoined, Transport!SocketCloses, KeysP!Link!SocketCloses, Transport!Untold,
     KeysP!Link!Untold
<1>4. Transport!InboundNext => KeysP!Link!InboundNext
  BY ZenonT(120) DEF Transport!Channels, KeysP!Link!Channels, Transport!Entry, KeysP!Link!Entry,
     Transport!Firsts, KeysP!Link!Firsts, Transport!Forged, KeysP!Link!Forged,
     Transport!FrameArrives, KeysP!Link!FrameArrives, Transport!Good, KeysP!Link!Good,
     Transport!InboundNext, KeysP!Link!InboundNext, Transport!Joined, KeysP!Link!Joined,
     Transport!Mine, KeysP!Link!Mine, Transport!NoteFailed, KeysP!Link!NoteFailed,
     Transport!OpenSettles, KeysP!Link!OpenSettles, Transport!Rearmed, KeysP!Link!Rearmed,
     Transport!Replayed, KeysP!Link!Replayed, Transport!Settles, KeysP!Link!Settles,
     Transport!Cardinality, KeysP!Link!Cardinality, Transport!ToSet, KeysP!Link!ToSet,
     Transport!RemoveAt, KeysP!Link!RemoveAt
<1>5. Transport!OutboundNext => KeysP!Link!OutboundNext
  BY ZenonT(120) DEF Transport!Channels, KeysP!Link!Channels, Transport!Firsts, KeysP!Link!Firsts,
     Transport!Fits, KeysP!Link!Fits, Transport!HandOver, KeysP!Link!HandOver, Transport!Joined,
     KeysP!Link!Joined, Transport!Mine, KeysP!Link!Mine, Transport!OutboundNext,
     KeysP!Link!OutboundNext, Transport!Pending, KeysP!Link!Pending, Transport!SealSettles,
     KeysP!Link!SealSettles, Transport!Send, KeysP!Link!Send, Transport!SocketDrains,
     KeysP!Link!SocketDrains, Transport!Cardinality, KeysP!Link!Cardinality, Transport!ToSet,
     KeysP!Link!ToSet, Transport!RemoveAt, KeysP!Link!RemoveAt
<1>6. KeysP!Link!TransportSound => Transport!TransportSound
  BY ZenonT(120) DEF Transport!Channels, KeysP!Link!Channels, Transport!DropsAreReported,
     KeysP!Link!DropsAreReported, Transport!Forged, KeysP!Link!Forged, Transport!Good,
     KeysP!Link!Good, Transport!Mine, KeysP!Link!Mine, Transport!OpenedOnce, KeysP!Link!OpenedOnce,
     Transport!Pending, KeysP!Link!Pending, Transport!SentInOrder, KeysP!Link!SentInOrder,
     Transport!TransportSound, KeysP!Link!TransportSound, Transport!VerdictSound,
     KeysP!Link!VerdictSound, Transport!Cardinality, KeysP!Link!Cardinality, Transport!ToSet,
     KeysP!Link!ToSet
<1>. QED
  BY <1>1, <1>2, <1>3, <1>4, <1>5, <1>6

LEMMA WireIsWire ==
  /\ Wire!WireBounds => KeysP!Wire!WireBounds
  /\ Wire!Init => KeysP!Wire!Init
  /\ [Wire!Next]_Wire!vars => [KeysP!Wire!Next]_KeysP!Wire!vars
  /\ KeysP!Wire!WireSound => Wire!WireSound
<1>1. Wire!WireBounds => KeysP!Wire!WireBounds
  BY DEF Wire!Channels, KeysP!Wire!Channels, Wire!WireBounds, KeysP!Wire!WireBounds
<1>2. Wire!Init => KeysP!Wire!Init
  BY DEF Wire!Init, KeysP!Wire!Init, Wire!NoDraft, KeysP!Wire!NoDraft, Wire!NoToken,
     KeysP!Wire!NoToken
<1>3. [Wire!Next]_Wire!vars => [KeysP!Wire!Next]_KeysP!Wire!vars
  BY ZenonT(120) DEF Wire!Accepts, KeysP!Wire!Accepts, Wire!CanEdit, KeysP!Wire!CanEdit,
     Wire!ChangeBackend, KeysP!Wire!ChangeBackend, Wire!ChannelOf, KeysP!Wire!ChannelOf,
     Wire!Channels, KeysP!Wire!Channels, Wire!Closed, KeysP!Wire!Closed, Wire!Connect,
     KeysP!Wire!Connect, Wire!Decodes, KeysP!Wire!Decodes, Wire!Deploy, KeysP!Wire!Deploy,
     Wire!Disconnect, KeysP!Wire!Disconnect, Wire!Draft, KeysP!Wire!Draft, Wire!Encodes,
     KeysP!Wire!Encodes, Wire!Join, KeysP!Wire!Join, Wire!Label, KeysP!Wire!Label, Wire!Lives,
     KeysP!Wire!Lives, Wire!MaxFrame, KeysP!Wire!MaxFrame, Wire!MaxSealed, KeysP!Wire!MaxSealed,
     Wire!Mishap, KeysP!Wire!Mishap, Wire!Mix, KeysP!Wire!Mix, Wire!Next, KeysP!Wire!Next,
     Wire!NoDraft, KeysP!Wire!NoDraft, Wire!NoToken, KeysP!Wire!NoToken, Wire!Opens,
     KeysP!Wire!Opens, Wire!Outdated, KeysP!Wire!Outdated, Wire!Reason, KeysP!Wire!Reason,
     Wire!Receive, KeysP!Wire!Receive, Wire!Refusal, KeysP!Wire!Refusal, Wire!Relay,
     KeysP!Wire!Relay, Wire!Reload, KeysP!Wire!Reload, Wire!Retried, KeysP!Wire!Retried, Wire!Send,
     KeysP!Wire!Send, Wire!Sign, KeysP!Wire!Sign, Wire!Tick, KeysP!Wire!Tick, Wire!Type,
     KeysP!Wire!Type, Wire!Verified, KeysP!Wire!Verified, Wire!WireWithout, KeysP!Wire!WireWithout,
     Wire!vars, KeysP!Wire!vars
<1>4. KeysP!Wire!WireSound => Wire!WireSound
  BY ZenonT(120) DEF Wire!AcceptedArrives, KeysP!Wire!AcceptedArrives, Wire!OneVersion,
     KeysP!Wire!OneVersion, Wire!ToldTheTruth, KeysP!Wire!ToldTheTruth, Wire!WireSound,
     KeysP!Wire!WireSound
<1>. QED
  BY <1>1, <1>2, <1>3, <1>4

LEMMA ProcessIsProcess ==
  /\ Process!PatienceIsLonger => KeysP!Process!PatienceIsLonger
  /\ Process!Init => KeysP!Process!Init
  /\ [Process!Next]_Process!vars => [KeysP!Process!Next]_KeysP!Process!vars
  /\ KeysP!Process!ProcessEndsWell => Process!ProcessEndsWell
<1>1. Process!PatienceIsLonger => KeysP!Process!PatienceIsLonger
  BY DEF Process!PatienceIsLonger, KeysP!Process!PatienceIsLonger
<1>2. Process!Init => KeysP!Process!Init
  BY DEF Process!Init, KeysP!Process!Init, Process!NoConn, KeysP!Process!NoConn
<1>3. [Process!Next]_Process!vars => [KeysP!Process!Next]_KeysP!Process!vars
  BY ZenonT(120) DEF Process!Asked, KeysP!Process!Asked, Process!Breach, KeysP!Process!Breach,
     Process!Cause, KeysP!Process!Cause, Process!Clients, KeysP!Process!Clients, Process!Close,
     KeysP!Process!Close, Process!Closing, KeysP!Process!Closing, Process!Connect,
     KeysP!Process!Connect, Process!Drain, KeysP!Process!Drain, Process!DrainDeadline,
     KeysP!Process!DrainDeadline, Process!DrainDue, KeysP!Process!DrainDue, Process!Exit,
     KeysP!Process!Exit, Process!FrameThrows, KeysP!Process!FrameThrows, Process!Gone,
     KeysP!Process!Gone, Process!GraceEnds, KeysP!Process!GraceEnds, Process!MissesHeartbeat,
     KeysP!Process!MissesHeartbeat, Process!Next, KeysP!Process!Next, Process!NoConn,
     KeysP!Process!NoConn, Process!PatienceEnds, KeysP!Process!PatienceEnds, Process!Recorded,
     KeysP!Process!Recorded, Process!Refused, KeysP!Process!Refused, Process!Settle,
     KeysP!Process!Settle, Process!Shutdown, KeysP!Process!Shutdown, Process!SocketCloses,
     KeysP!Process!SocketCloses, Process!Start, KeysP!Process!Start, Process!Tick,
     KeysP!Process!Tick, Process!Told, KeysP!Process!Told, Process!Uncaught, KeysP!Process!Uncaught,
     Process!Up, KeysP!Process!Up, Process!vars, KeysP!Process!vars, Process!Cardinality,
     KeysP!Process!Cardinality
<1>4. KeysP!Process!ProcessEndsWell => Process!ProcessEndsWell
  BY ZenonT(120) DEF Process!EveryoneIsTold, KeysP!Process!EveryoneIsTold, Process!FirstCauseCounts,
     KeysP!Process!FirstCauseCounts, Process!NeverKilled, KeysP!Process!NeverKilled,
     Process!ProcessEndsWell, KeysP!Process!ProcessEndsWell, Process!ReasonsMatch,
     KeysP!Process!ReasonsMatch
<1>. QED
  BY <1>1, <1>2, <1>3, <1>4

LEMMA LimitsAreLimits ==
  /\ Limits!LimitBounds => KeysP!Limits!LimitBounds
  /\ Limits!Init => KeysP!Limits!Init
  /\ [Limits!Next]_Limits!vars => [KeysP!Limits!Next]_KeysP!Limits!vars
  /\ KeysP!Limits!BudgetsSound => Limits!BudgetsSound
<1>1. Limits!LimitBounds => KeysP!Limits!LimitBounds
  BY DEF Limits!LimitBounds, KeysP!Limits!LimitBounds
<1>2. Limits!Init => KeysP!Limits!Init
  BY DEF Limits!Bucket, KeysP!Limits!Bucket, Limits!Idle, KeysP!Limits!Idle, Limits!Init,
     KeysP!Limits!Init
<1>3. [Limits!Next]_Limits!vars => [KeysP!Limits!Next]_KeysP!Limits!vars
  BY ZenonT(120) DEF Limits!Attempt, KeysP!Limits!Attempt, Limits!AttemptNext,
     KeysP!Limits!AttemptNext, Limits!BudgetOf, KeysP!Limits!BudgetOf, Limits!Charge,
     KeysP!Limits!Charge, Limits!CommitWrite, KeysP!Limits!CommitWrite, Limits!DecideFinalize,
     KeysP!Limits!DecideFinalize, Limits!DecidePut, KeysP!Limits!DecidePut, Limits!Demote,
     KeysP!Limits!Demote, Limits!Error, KeysP!Limits!Error, Limits!Evaluate, KeysP!Limits!Evaluate,
     Limits!Full, KeysP!Limits!Full, Limits!Metadata, KeysP!Limits!Metadata, Limits!Next,
     KeysP!Limits!Next, Limits!ReadMetadata, KeysP!Limits!ReadMetadata, Limits!Reset,
     KeysP!Limits!Reset, Limits!RetryAfter, KeysP!Limits!RetryAfter, Limits!StartWrite,
     KeysP!Limits!StartWrite, Limits!Taken, KeysP!Limits!Taken, Limits!Tick, KeysP!Limits!Tick,
     Limits!TokensOf, KeysP!Limits!TokensOf, Limits!TrpcError, KeysP!Limits!TrpcError,
     Limits!UploadError, KeysP!Limits!UploadError, Limits!Weighted, KeysP!Limits!Weighted,
     Limits!WindowAt, KeysP!Limits!WindowAt, Limits!WriteNext, KeysP!Limits!WriteNext, Limits!vars,
     KeysP!Limits!vars, Limits!Cardinality, KeysP!Limits!Cardinality
<1>4. KeysP!Limits!BudgetsSound => Limits!BudgetsSound
  BY ZenonT(120) DEF Limits!Bucket, KeysP!Limits!Bucket, Limits!BudgetsSound,
     KeysP!Limits!BudgetsSound, Limits!NotTwoWindows, KeysP!Limits!NotTwoWindows,
     Limits!ReserveIsOnesOwn, KeysP!Limits!ReserveIsOnesOwn, Limits!TokensOf, KeysP!Limits!TokensOf,
     Limits!WaitingPays, KeysP!Limits!WaitingPays, Limits!Cardinality, KeysP!Limits!Cardinality
<1>. QED
  BY <1>1, <1>2, <1>3, <1>4

(* SharedLinks and SceneCatalog, which RoomKeys_proofs takes too.           *)
LEMMA LinksAreLinks ==
  /\ Links!InitExport => KeysP!Links!InitExport
  /\ Links!ExportNext \/ UNCHANGED Links!exportVars
       => KeysP!Links!ExportNext \/ UNCHANGED KeysP!Links!exportVars
  /\ KeysP!Links!LinkOpensWhole => Links!LinkOpensWhole
<1>1. Links!InitExport => KeysP!Links!InitExport
  BY DEF Links!InitExport, KeysP!Links!InitExport
<1>2. Links!ExportNext \/ UNCHANGED Links!exportVars
  => KeysP!Links!ExportNext \/ UNCHANGED KeysP!Links!exportVars
  BY ZenonT(120) DEF Links!Expire, KeysP!Links!Expire, Links!ExportNext, KeysP!Links!ExportNext,
     Links!ExportScene, KeysP!Links!ExportScene, Links!HandOut, KeysP!Links!HandOut,
     Links!HandleSceneSave, KeysP!Links!HandleSceneSave, Links!Prepare, KeysP!Links!Prepare,
     Links!RollbackSharedScene, KeysP!Links!RollbackSharedScene, Links!Settled, KeysP!Links!Settled,
     Links!UploadFailed, KeysP!Links!UploadFailed, Links!UploadFile, KeysP!Links!UploadFile,
     Links!exportVars, KeysP!Links!exportVars, Links!pageVars, KeysP!Links!pageVars
<1>3. KeysP!Links!LinkOpensWhole => Links!LinkOpensWhole
  BY DEF Links!LinkOpensWhole, KeysP!Links!LinkOpensWhole
<1>. QED
  BY <1>1, <1>2, <1>3

LEMMA CatalogIsCatalog ==
  /\ Catalog!Init => KeysP!Catalog!Init
  /\ Catalog!PublishNext => KeysP!Catalog!PublishNext
  /\ Catalog!ListNext => KeysP!RowsNext \/ UNCHANGED <<v2, KeysP!Catalog!publishVars>>
  /\ KeysP!Catalog!LinksOpen => Catalog!LinksOpen
<1>1. Catalog!Init => KeysP!Catalog!Init
  BY DEF Catalog!Init, KeysP!Catalog!Init, Catalog!NoCursor, KeysP!Catalog!NoCursor
<1>2. Catalog!PublishNext => KeysP!Catalog!PublishNext
  BY ZenonT(120) DEF Catalog!AlreadyPublished, KeysP!Catalog!AlreadyPublished, Catalog!Answered,
     KeysP!Catalog!Answered, Catalog!DeleteScene, KeysP!Catalog!DeleteScene, Catalog!HandOut,
     KeysP!Catalog!HandOut, Catalog!Now, KeysP!Catalog!Now, Catalog!PublishNext,
     KeysP!Catalog!PublishNext, Catalog!PublishRead, KeysP!Catalog!PublishRead,
     Catalog!PublishWrite, KeysP!Catalog!PublishWrite, Catalog!SlugCollides,
     KeysP!Catalog!SlugCollides, Catalog!Touch, KeysP!Catalog!Touch, Catalog!Unpublish,
     KeysP!Catalog!Unpublish, Catalog!Withdraw, KeysP!Catalog!Withdraw, Catalog!listVars,
     KeysP!Catalog!listVars
<1>3. Catalog!ListNext => KeysP!RowsNext \/ UNCHANGED <<v2, KeysP!Catalog!publishVars>>
  BY ZenonT(120) DEF Catalog!ListNext, Catalog!FetchFirstPage, Catalog!FetchNextPage, Catalog!Tick,
     KeysP!RowsNext, Catalog!Archive, KeysP!Catalog!Archive, Catalog!ChangeScene,
     KeysP!Catalog!ChangeScene, Catalog!CreateScene, KeysP!Catalog!CreateScene, Catalog!DeleteScene,
     KeysP!Catalog!DeleteScene, Catalog!Item, KeysP!Catalog!Item, Catalog!Now, KeysP!Catalog!Now,
     Catalog!Touch, KeysP!Catalog!Touch, Catalog!Withdraw, KeysP!Catalog!Withdraw,
     Catalog!publishVars, KeysP!Catalog!publishVars
<1>4. KeysP!Catalog!LinksOpen => Catalog!LinksOpen
  BY DEF Catalog!LinksOpen, KeysP!Catalog!LinksOpen, Catalog!Opens, KeysP!Catalog!Opens
<1>. QED
  BY <1>1, <1>2, <1>3, <1>4

-----------------------------------------------------------------------------
(* The component in focus.                                                 *)
LEMMA FocusStays == [ComponentsNext]_vars => focus' = focus
BY DEF ComponentsNext, InFocus, vars

(* A step of the components is one of the component in focus.              *)
LEMMA OperatorsTurn ==
  ASSUME focus = "operators"
  PROVE  /\ ComponentsInit => Operators!Init
         /\ [ComponentsNext]_vars => [Operators!Next]_Operators!grantVars
<1>. USE DEF Storages, RelayParts, CatalogParts, FollowParts, WireParts, FormatParts, LimitParts,
         ElementParts, KeyParts, RunParts
<1>1. ComponentsInit => Operators!Init
  BY DEF ComponentsInit, SlotsInit, LinksInit
<1>2. ComponentsNext => Operators!Next
  BY DEF ComponentsNext
<1>3. UNCHANGED vars => UNCHANGED Operators!grantVars
  BY DEF vars, slots, Operators!grantVars
<1>. QED
  BY <1>1, <1>2, <1>3

LEMMA BudgetsTurn ==
  ASSUME focus \in RelayParts
  PROVE  /\ ComponentsInit => Budgets!Init
         /\ [ComponentsNext]_vars => [Budgets!Next]_Budgets!budgetVars
<1>. USE DEF Storages, RelayParts, CatalogParts, FollowParts, WireParts, FormatParts, LimitParts,
         ElementParts, KeyParts, RunParts
<1>1. ComponentsInit => Budgets!Init
  BY DEF ComponentsInit, SlotsInit, LinksInit
<1>2. ComponentsNext => Budgets!Next
  BY DEF ComponentsNext, Budgets!Next
<1>3. UNCHANGED vars => UNCHANGED Budgets!budgetVars
  BY DEF vars, slots, Budgets!budgetVars
<1>. QED
  BY <1>1, <1>2, <1>3

LEMMA KeysTurn ==
  ASSUME focus \in KeyParts
  PROVE  /\ ComponentsInit => Keys!Init
         /\ [ComponentsNext]_vars => [Keys!Next]_Keys!keyVars
<1>. USE DEF Storages, RelayParts, CatalogParts, FollowParts, WireParts, FormatParts, LimitParts,
         ElementParts, KeyParts, RunParts
<1>1. ComponentsInit => Keys!Init
  BY DEF ComponentsInit, SlotsInit, LinksInit
<1>2. ComponentsNext => Keys!Next
  BY DEF ComponentsNext
<1>3. UNCHANGED vars => UNCHANGED Keys!keyVars
  BY DEF vars, slots, Keys!keyVars
<1>. QED
  BY <1>1, <1>2, <1>3

LEMMA AssetsTurn ==
  ASSUME focus = "assets"
  PROVE  /\ ComponentsInit => Assets!Init
         /\ [ComponentsNext]_vars => [Assets!Next]_Assets!assetVars
<1>. USE DEF Storages, RelayParts, CatalogParts, FollowParts, WireParts, FormatParts, LimitParts,
         ElementParts, KeyParts, RunParts
<1>1. ComponentsInit => Assets!Init
  BY DEF ComponentsInit, SlotsInit, LinksInit, AssetsInit
<1>2. ComponentsNext => Assets!Next
  BY DEF ComponentsNext
<1>3. UNCHANGED vars => UNCHANGED Assets!assetVars
  BY DEF vars, slots, Assets!assetVars
<1>. QED
  BY <1>1, <1>2, <1>3

LEMMA EntryTurn ==
  ASSUME focus = "entry"
  PROVE  /\ ComponentsInit => Entry!Init
         /\ [ComponentsNext]_vars => [Entry!Next]_Entry!entryVars
<1>. USE DEF Storages, RelayParts, CatalogParts, FollowParts, WireParts, FormatParts, LimitParts,
         ElementParts, KeyParts, RunParts
<1>1. ComponentsInit => Entry!Init
  BY DEF ComponentsInit, SlotsInit, LinksInit
<1>2. ComponentsNext => Entry!Next
  BY DEF ComponentsNext
<1>3. UNCHANGED vars => UNCHANGED Entry!entryVars
  BY DEF vars, slots, Entry!entryVars
<1>. QED
  BY <1>1, <1>2, <1>3

LEMMA HostTurn ==
  ASSUME focus = "room session"
  PROVE  /\ ComponentsInit => Host!Init
         /\ [ComponentsNext]_vars => [Host!Next]_Host!vars
<1>. USE DEF Storages, RelayParts, CatalogParts, FollowParts, WireParts, FormatParts, LimitParts,
         ElementParts, KeyParts, RunParts
<1>1. ComponentsInit => Host!Init
  BY DEF ComponentsInit, SlotsInit, LinksInit
<1>2. ComponentsNext => Host!Next
  BY DEF ComponentsNext
<1>3. UNCHANGED vars => UNCHANGED Host!vars
  BY DEF vars, slots, Host!vars
<1>. QED
  BY <1>1, <1>2, <1>3

LEMMA SyncTurn ==
  ASSUME focus = "sync"
  PROVE  /\ ComponentsInit => Sync!Init
         /\ [ComponentsNext]_vars => [Sync!Next]_Sync!syncVars
<1>. USE DEF Storages, RelayParts, CatalogParts, FollowParts, WireParts, FormatParts, LimitParts,
         ElementParts, KeyParts, RunParts
<1>1. ComponentsInit => Sync!Init
  BY DEF ComponentsInit, SlotsInit, LinksInit, SyncInit
<1>2. ComponentsNext => Sync!Next
  BY DEF ComponentsNext
<1>3. UNCHANGED vars => UNCHANGED Sync!syncVars
  BY DEF vars, slots, Sync!syncVars
<1>. QED
  BY <1>1, <1>2, <1>3

LEMMA LinksTurn ==
  ASSUME focus \in {"sharing", "shared page"}
  PROVE  /\ ComponentsInit => KeysP!Links!ExportInv
         /\ [ComponentsNext]_vars => Links!ExportNext \/ UNCHANGED Links!exportVars
<1>. USE DEF Storages, RelayParts, CatalogParts, FollowParts, WireParts, FormatParts, LimitParts,
         ElementParts, KeyParts, RunParts
<1>1. ComponentsInit => LinksInit
  BY DEF ComponentsInit, SlotsInit
<1>2. CASE focus = "sharing"
  <2>1. ComponentsInit => KeysP!Links!ExportInv
    BY <1>1, <1>2, LinksAreLinks, KeysP!ExportStarts DEF LinksInit
  <2>2. ComponentsNext => Links!ExportNext
    BY <1>2 DEF ComponentsNext
  <2>. QED
    BY <2>1, <2>2 DEF vars, slots, Links!exportVars
<1>3. CASE focus = "shared page"
  <2>1. LinksInit => KeysP!Links!ExportInv
    BY <1>3, KeysP!PageStarts DEF LinksInit
  <2>2. ComponentsNext => Links!PageNext \/ Links!Expire(1)
    BY <1>3 DEF ComponentsNext
  <2>3. Links!PageNext => UNCHANGED Links!exportVars
    BY DEF Links!PageNext, Links!RunEffect, Links!EndAborted, Links!EndTurn, Links!TimerFires,
       Links!FetchFile, Links!DecodeFile
  <2>4. Links!Expire(1) => Links!ExportNext
    BY DEF Links!ExportNext
  <2>. QED
    BY <1>1, <2>1, <2>2, <2>3, <2>4 DEF vars, slots, Links!exportVars
<1>. QED
  BY <1>2, <1>3

LEMMA CatalogTurn ==
  ASSUME focus \in CatalogParts
  PROVE  /\ ComponentsInit => Catalog!Init
         /\ [ComponentsNext]_vars
              => Catalog!ListNext \/ Catalog!PublishNext \/ UNCHANGED <<v2, Catalog!publishVars>>
<1>. USE DEF Storages, RelayParts, CatalogParts, FollowParts, WireParts, FormatParts, LimitParts,
         ElementParts, KeyParts, RunParts
<1>1. ComponentsInit => Catalog!Init
  BY DEF ComponentsInit, SlotsInit, LinksInit
<1>2. ComponentsNext => Catalog!ListNext \/ Catalog!PublishNext
  BY DEF ComponentsNext
<1>3. UNCHANGED vars => UNCHANGED <<v2, Catalog!publishVars>>
  BY DEF vars, slots, Catalog!publishVars
<1>. QED
  BY <1>1, <1>2, <1>3

LEMMA TransportTurn ==
  ASSUME focus \in WireParts
  PROVE  /\ ComponentsInit => Transport!Init
         /\ [ComponentsNext]_vars => \/ Transport!LinkNext \/ Transport!InboundNext \/ Transport!OutboundNext
                                      \/ UNCHANGED Transport!transportVars
<1>. USE DEF Storages, RelayParts, CatalogParts, FollowParts, WireParts, FormatParts, LimitParts,
         ElementParts, KeyParts, RunParts
<1>1. ComponentsInit => Transport!Init
  BY DEF ComponentsInit, SlotsInit, LinksInit
<1>2. ComponentsNext => Transport!LinkNext \/ Transport!InboundNext \/ Transport!OutboundNext
  BY DEF ComponentsNext
<1>3. UNCHANGED vars => UNCHANGED Transport!transportVars
  BY DEF vars, slots, Transport!transportVars
<1>. QED
  BY <1>1, <1>2, <1>3

LEMMA WireTurn ==
  ASSUME focus = "wire"
  PROVE  /\ ComponentsInit => Wire!Init
         /\ [ComponentsNext]_vars => [Wire!Next]_Wire!vars
<1>. USE DEF Storages, RelayParts, CatalogParts, FollowParts, WireParts, FormatParts, LimitParts,
         ElementParts, KeyParts, RunParts
<1>1. ComponentsInit => Wire!Init
  BY DEF ComponentsInit, SlotsInit, LinksInit
<1>2. ComponentsNext => Wire!Next
  BY DEF ComponentsNext
<1>3. UNCHANGED vars => UNCHANGED Wire!vars
  BY DEF vars, slots, Wire!vars
<1>. QED
  BY <1>1, <1>2, <1>3

LEMMA LimitsTurn ==
  ASSUME focus \in LimitParts
  PROVE  /\ ComponentsInit => Limits!Init
         /\ [ComponentsNext]_vars => [Limits!Next]_Limits!vars
<1>. USE DEF Storages, RelayParts, CatalogParts, FollowParts, WireParts, FormatParts, LimitParts,
         ElementParts, KeyParts, RunParts
<1>1. ComponentsInit => Limits!Init
  BY DEF ComponentsInit, SlotsInit, LinksInit
<1>2. ComponentsNext => Limits!Next
  BY DEF ComponentsNext, Limits!Next
<1>3. UNCHANGED vars => UNCHANGED Limits!vars
  BY DEF vars, slots, Limits!vars
<1>. QED
  BY <1>1, <1>2, <1>3

LEMMA ProcessTurn ==
  ASSUME focus = "relay process"
  PROVE  /\ ComponentsInit => Process!Init
         /\ [ComponentsNext]_vars => [Process!Next]_Process!vars
<1>. USE DEF Storages, RelayParts, CatalogParts, FollowParts, WireParts, FormatParts, LimitParts,
         ElementParts, KeyParts, RunParts
<1>1. ComponentsInit => Process!Init
  BY DEF ComponentsInit, SlotsInit, LinksInit
<1>2. ComponentsNext => Process!Next
  BY DEF ComponentsNext
<1>3. UNCHANGED vars => UNCHANGED Process!vars
  BY DEF vars, slots, Process!vars
<1>. QED
  BY <1>1, <1>2, <1>3

-----------------------------------------------------------------------------
(* What they promise.                                                      *)

\* What operators do is on record before it is done, nobody is one without a grant on
\* record, and the first grant is made once, and once more for each time that a request
\* whose actor had lost the grant since its check removed the last of them (server/admin,
\* server/api/routers/admin.ts).
THEOREM OperatorsStaySound == ComponentsSpec => []OperatorsSound
<1>. DEFINE Good == focus = "operators" => Operators!GrantsInv
<1>1. ComponentsInit => Good
  BY OperatorsTurn, GrantsInit
<1>2. Good /\ [ComponentsNext]_vars => Good'
  BY FocusStays, OperatorsTurn, GrantsStep
<1>3. Good => OperatorsSound
  BY GrantsSound DEF OperatorsSound
<1>. HIDE DEF Good
<1>. QED
  BY <1>1, <1>2, <1>3, PTL DEF ComponentsSpec

\* Whatever the relay admits for an account is within its burst and what it earned since
\* (fanout.ts, rate-limit), and what the backend admits for a member within its sliding
\* window; a save on leaving is refused only to who has used the reserve, and nobody who
\* waits as told, alone in a budget, gives up (rate-limit/collaboration.ts).
THEOREM BudgetsHold == ComponentsSpec => []BudgetHolds
<1>. DEFINE Good == /\ focus \in RelayParts => Budgets!BudgetsInv
                    /\ focus \in LimitParts => KeysP!Limits!LimitInv
<1>1. Budgets!BudgetsApart
  BY ConstantsSound
<1>2. KeysP!Limits!LimitBounds
  BY ConstantsSound, LimitsAreLimits
<1>3. ComponentsInit => Good
  BY <1>1, <1>2, BudgetsTurn, BudgetsInit, LimitsTurn, LimitsAreLimits, KeysP!LimitsStart
<1>4. Good /\ [ComponentsNext]_vars => Good'
  <2>1. KeysP!Limits!LimitInv /\ [Limits!Next]_Limits!vars => KeysP!Limits!LimitInv'
    <3>1. SUFFICES ASSUME KeysP!Limits!LimitInv, [KeysP!Limits!Next]_KeysP!Limits!vars
                   PROVE  KeysP!Limits!LimitInv'
      BY LimitsAreLimits
    <3>. QED
      BY <1>2, <3>1, KeysP!LimitsKept, KeysP!LimitsIdle
  <2>. QED
    BY <1>1, <2>1, FocusStays, BudgetsTurn, BudgetsStep, LimitsTurn
<1>5. Good => BudgetHolds
  <2>1. KeysP!Limits!LimitInv => Limits!BudgetsSound
    BY <1>2, LimitsAreLimits, KeysP!LimitsSay
  <2>. QED
    BY <1>1, <2>1, BudgetsGiveHolds DEF BudgetHolds
<1>. HIDE DEF Good
<1>. QED
  BY <1>3, <1>4, <1>5, PTL DEF ComponentsSpec

\* The epochs of rooms rise as long as the relay runs, and over a restart unless its clock
\* was set back (fanout.ts nextGeneration).
THEOREM EpochsStayRising == ComponentsSpec => EpochsRise
<1>. DEFINE Good == focus \in RelayParts => Budgets!BudgetsInv
<1>1. Budgets!BudgetsApart
  BY ConstantsSound
<1>2. ComponentsInit => Good
  BY <1>1, BudgetsTurn, BudgetsInit
<1>3. Good /\ [ComponentsNext]_vars => Good'
  BY <1>1, FocusStays, BudgetsTurn, BudgetsStep
<1>4. Good /\ [ComponentsNext]_vars => [(focus \in RelayParts) => Budgets!NewEpochsRise]_vars
  BY <1>1, BudgetsTurn, EpochRises
<1>. HIDE DEF Good
<1>. QED
  BY <1>2, <1>3, <1>4, PTL DEF ComponentsSpec, EpochsRise

\* Who is in a room can read all of it, and nothing that was sealed for one place opens in
\* another, whatever is minted, rotated, followed or deployed (room-keys).
THEOREM KeysStaySound == ComponentsSpec => []KeysSound
<1>. DEFINE Good == focus \in KeyParts => KeysP!IInv
<1>1. KeysP!BoundsPositive
  BY ConstantsSound, KeysAreKeys
<1>2. ComponentsInit => Good
  BY <1>1, KeysTurn, KeysAreKeys, KeysP!IInvInit
<1>3. Good /\ [ComponentsNext]_vars => Good'
  BY <1>1, FocusStays, KeysTurn, KeysAreKeys, KeysP!IInvStep
<1>4. Good => KeysSound
  BY <1>1, KeysAreKeys, KeysP!AgreeNow, KeysP!OpensNow DEF KeysSound, KeysP!KeysSound
<1>. HIDE DEF Good
<1>. QED
  BY <1>2, <1>3, <1>4, PTL DEF ComponentsSpec

\* The report that this link reads none of the room's images is made only when it never
\* opened one, and when every lookup that ran when the first undecryptable record appeared
\* has ended (asset-unreadable-verdict.ts).
THEOREM UnreadableStaysProved == ComponentsSpec => UnreadableIsProved
<1>. DEFINE Good == focus = "assets" => KeysP!Assets!AssetInv
<1>1. KeysP!Assets!AssetBounds
  BY ConstantsSound, AssetsAreAssets
<1>2. ComponentsInit => Good
  BY <1>1, AssetsTurn, AssetsAreAssets, KeysP!AssetsStart
<1>3. Good /\ [ComponentsNext]_vars => Good'
  BY <1>1, FocusStays, AssetsTurn, AssetsAreAssets, KeysP!AssetsStep
<1>4. Good /\ [ComponentsNext]_vars => [focus = "assets" => Assets!ReportsWithProof]_vars
  BY <1>1, AssetsTurn, AssetsAreAssets, KeysP!ReportHasProof
<1>. HIDE DEF Good
<1>. QED
  BY <1>2, <1>3, <1>4, PTL DEF ComponentsSpec, UnreadableIsProved

\* A room is sent nothing but its own, and what came onto a canvas between the handoff to
\* that room and the claim of it; and the end of a session leaves nothing of it
\* running but the flush on leaving (use-collaboration-room, collaboration-session).
THEOREM RoomStaysItsOwn == ComponentsSpec => []RoomGetsItsOwn
<1>. DEFINE Good == /\ focus = "entry" => EntryP!IInv
                    /\ focus = "room session" => EntryP!Host!SessionInv
<1>1. EntryP!RoomsApart
  BY ConstantsSound, EntryIsEntry
<1>2. ComponentsInit => Good
  BY <1>1, EntryTurn, EntryIsEntry, EntryP!IInvInit, HostTurn, HostIsHost, EntryP!SessionStarts
<1>3. Good /\ [ComponentsNext]_vars => Good'
  BY <1>1, FocusStays, EntryTurn, EntryIsEntry, EntryP!IInvStep, HostTurn, HostIsHost, EntryP!SessionStep
<1>4. Good => RoomGetsItsOwn
  BY EntryIsEntry, HostIsHost, EntryP!SessionHolds
     DEF RoomGetsItsOwn, EntryP!IInv, EntryP!Clean, EntryP!SentInv, EntryP!Its,
         EntryP!RoomGetsItsOwn
<1>. HIDE DEF Good
<1>. QED
  BY <1>2, <1>3, <1>4, PTL DEF ComponentsSpec

\* A save takes an edit of another device out of a scene only when it is sent with a
\* revision that its snapshot does not descend from, and a check replaces the canvas
\* without asking only when it throws away nothing but what was stored, or drawn during a
\* save or a fetch (use-cloud-upload, use-scene-remote-revision-check).
THEOREM EditsStay == ComponentsSpec => EditsSurvive
<1>. DEFINE Good == focus = "sync" => EntryP!Sync!SyncInv
<1>1. EntryP!Sync!ScenesApart
  BY ConstantsSound, SyncIsSync
<1>2. ComponentsInit => Good
  BY <1>1, SyncTurn, SyncIsSync, EntryP!SyncStarts
<1>3. Good /\ [ComponentsNext]_vars => Good'
  BY <1>1, FocusStays, SyncTurn, SyncIsSync, EntryP!SyncStep
<1>4. Good /\ [ComponentsNext]_vars => [focus = "sync" => Sync!LosesByAdoption /\ Sync!RefreshesClean]_vars
  BY <1>1, SyncTurn, SyncIsSync, EntryP!LosesOnlyByAdoption, EntryP!RefreshesOnlyClean
<1>. HIDE DEF Good
<1>. QED
  BY <1>2, <1>3, <1>4, PTL DEF ComponentsSpec, EditsSurvive

\* A link that was handed out opens what it was handed out for, whole, until it expires or
\* is withdrawn: the read-only copy of a scene (use-scene-export), and the public link of
\* one.  A link that a publish replaced without having seen it opens nothing else, and the
\* last one's opens the scene (server/api/routers/scene.ts).
THEOREM LinksStayOpen == ComponentsSpec => []LinksOpen
<1>. DEFINE Good == /\ focus \in {"sharing", "shared page"} => KeysP!Links!ExportInv
                    /\ focus \in CatalogParts => KeysP!Catalog!CatalogInv
<1>1. KeysP!Catalog!CatalogBounds
  BY DEF KeysP!Catalog!CatalogBounds
<1>2. ComponentsInit => Good
  BY LinksTurn, CatalogTurn, CatalogIsCatalog, KeysP!CatalogStarts
<1>3. Good /\ [ComponentsNext]_vars => Good'
  <2>1. KeysP!Links!ExportInv /\ (Links!ExportNext \/ UNCHANGED Links!exportVars)
          => KeysP!Links!ExportInv'
    BY LinksAreLinks, KeysP!ExportStep
  <2>2. UNCHANGED Catalog!publishVars => UNCHANGED KeysP!Catalog!publishVars
    BY DEF Catalog!publishVars, KeysP!Catalog!publishVars
  <2>3. ASSUME KeysP!Catalog!CatalogInv,
               Catalog!ListNext \/ Catalog!PublishNext \/ UNCHANGED <<v2, Catalog!publishVars>>
        PROVE  KeysP!Catalog!CatalogInv'
    BY <1>1, <2>2, <2>3, CatalogIsCatalog, KeysP!CatalogStep
  <2>. QED
    BY <2>1, <2>3, FocusStays, LinksTurn, CatalogTurn
<1>4. Good => LinksOpen
  <2>1. KeysP!Links!ExportInv => KeysP!Links!LinkOpensWhole
    BY DEF KeysP!Links!ExportInv
  <2>. QED
    BY <2>1, LinksAreLinks, CatalogIsCatalog, KeysP!SlugsOpen DEF LinksOpen
<1>. HIDE DEF Good
<1>. QED
  BY <1>2, <1>3, <1>4, PTL DEF ComponentsSpec

\* No frame is delivered twice, frames leave in the order they were sent and within their
\* bound, the room is called unreadable when, and only when, the frames that were there to
\* tell have failed, and a scene frame without room is reported once (relay-client.ts, relay-protocol.ts); a message passes every check it is
\* owed and is opened for its own place (server.ts, room-token.ts); and a relay ends having
\* told everyone it served why, before its manager loses patience (main.ts).
THEOREM TransportStaysSound == ComponentsSpec => []TransportSound
<1>. DEFINE Good == /\ focus \in WireParts => KeysP!Link!TransportInv
                    /\ focus = "wire" => KeysP!Wire!WireInv
                    /\ focus = "relay process" => KeysP!Process!ProcessInv
<1>1. KeysP!Link!TransportBounds /\ KeysP!Wire!WireBounds /\ KeysP!Process!PatienceIsLonger
  BY ConstantsSound, TransportIsLink, WireIsWire, ProcessIsProcess
<1>2. ComponentsInit => Good
  <2>1. ComponentsInit => (focus \in WireParts => KeysP!Link!TransportInv)
    BY <1>1, TransportTurn, TransportIsLink, KeysP!TransportInit
  <2>2. ComponentsInit => (focus = "wire" => KeysP!Wire!WireInv)
    BY <1>1, WireTurn, WireIsWire, KeysP!WireStarts
  <2>3. ComponentsInit => (focus = "relay process" => KeysP!Process!ProcessInv)
    BY <1>1, ProcessTurn, ProcessIsProcess, KeysP!ProcessStarts DEF KeysP!Process!PatienceIsLonger
  <2>. QED
    BY <2>1, <2>2, <2>3
<1>3. Good /\ [ComponentsNext]_vars => Good'
  <2>1. ASSUME KeysP!Link!TransportInv,
               \/ Transport!LinkNext \/ Transport!InboundNext \/ Transport!OutboundNext
               \/ UNCHANGED Transport!transportVars
        PROVE  KeysP!Link!TransportInv'
    <3>1. CASE Transport!LinkNext
      BY <1>1, <2>1, <3>1, TransportIsLink, KeysP!LinkStep
    <3>2. CASE Transport!InboundNext
      BY <1>1, <2>1, <3>2, TransportIsLink, KeysP!InboundStep
    <3>3. CASE Transport!OutboundNext
      BY <1>1, <2>1, <3>3, TransportIsLink, KeysP!OutboundStep
    <3>4. CASE UNCHANGED Transport!transportVars
      BY <2>1, <3>4, KeysP!TransportStays DEF Transport!transportVars, KeysP!Link!transportVars
    <3>. QED
      BY <2>1, <3>1, <3>2, <3>3, <3>4
  <2>2. KeysP!Wire!WireInv /\ [Wire!Next]_Wire!vars => KeysP!Wire!WireInv'
    BY <1>1, WireIsWire, KeysP!WireStep, KeysP!WireStays
  <2>3. KeysP!Process!ProcessInv /\ [Process!Next]_Process!vars => KeysP!Process!ProcessInv'
    BY <1>1, ProcessIsProcess, KeysP!ProcessStep, KeysP!ProcessStays
  <2>. QED
    BY <2>1, <2>2, <2>3, FocusStays, TransportTurn, WireTurn, ProcessTurn
<1>4. Good => TransportSound
  BY TransportIsLink, WireIsWire, ProcessIsProcess, KeysP!TransportGives, KeysP!WireHolds,
     KeysP!ProcessHolds DEF TransportSound
<1>. HIDE DEF Good
<1>. QED
  BY <1>2, <1>3, <1>4, PTL DEF ComponentsSpec
=============================================================================
