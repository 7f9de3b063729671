---------------------------- MODULE OperatorGrants ----------------------------
(***************************************************************************)
(* Who may operate the service, and the audit of what operators do         *)
(* (server/admin and server/api/routers/admin.ts of apps/web).             *)
(*                                                                         *)
(* A privileged request is checked, writes an audit event that it started, *)
(* runs, and completes the event: four separate writes and reads, between  *)
(* which others' requests come.  The first operator is provisioned by a    *)
(* release job under an advisory lock.  Requests about scenes and rooms    *)
(* are the same as far as the audit goes; those about accounts also change *)
(* who is an operator.  Bound: MaxRequests events, and one of a bootstrap.  *)
(***************************************************************************)
EXTENDS Naturals, FiniteSets

CONSTANTS User, Job, MaxRequests

VARIABLES
  account,   \* accounts: "verified", "unverified" or "gone"
  grant,     \* admin_grant: "none", "active" or "revoked"
  request,   \* the privileged request of each actor
  job,       \* the bootstrap jobs: [pc, target, empty]
  event,     \* admin_audit_event, by number
  done,      \* history: the events whose action was carried out
  orphaned   \* history: how often the last operator was removed, by an actor whose own
             \* grant had gone since its check

grantVars == <<account, grant, request, job, event, done, orphaned>>

Actions == {"grant-admin", "revoke-admin", "retire-account"}
Numbers == 1..(MaxRequests + 1)
NoEvent == [actor |-> "none", action |-> "none", target |-> "none", status |-> "none"]
Idle == [pc |-> "idle", action |-> "none", target |-> "none", number |-> 0, failed |-> FALSE]

Active == {u \in User : grant[u] = "active"}
Used == {n \in Numbers : event[n] # NoEvent}
Busy == 1..MaxRequests \subseteq Used

Init ==
  /\ account \in [User -> {"verified", "unverified"}]
  /\ grant = [u \in User |-> "none"]
  /\ request = [u \in User |-> Idle]
  /\ job = [j \in Job |-> [pc |-> "idle", target |-> "none", empty |-> FALSE]]
  /\ event = [n \in Numbers |-> NoEvent] /\ done = {} /\ orphaned = 0

At(u, pc) == request[u].pc = pc

-----------------------------------------------------------------------------
(* The first operator                                                       *)

LockFree(j) == \A i \in Job : job[i].pc # "read"

(* Locked, the job checks its account and reads the active grants.          *)
ReadGrants(j, u) ==
  /\ job[j].pc = "idle" /\ LockFree(j)
  /\ job' = [job EXCEPT ![j] =
       [pc |-> IF account[u] = "verified" THEN "read" ELSE "closed",
        target |-> u, empty |-> Active = {}]]
  /\ UNCHANGED <<account, grant, request, event, done, orphaned>>

(* It grants only where it found no operator, with an event, and unlocks.   *)
GrantFirst(j) ==
  LET u == job[j].target IN
  /\ job[j].pc = "read"
  /\ IF job[j].empty /\ account[u] # "gone" /\ Used # Numbers
     THEN /\ grant' = [grant EXCEPT ![u] = "active"]
          /\ \E n \in Numbers \ Used :
               /\ \A m \in Numbers \ Used : n <= m
               /\ event' = [event EXCEPT ![n] = [actor |-> u, action |-> "grant-admin",
                                                 target |-> u, status |-> "succeeded"]]
               /\ done' = done \union {n}
     ELSE UNCHANGED <<grant, event, done>>
  /\ job' = [job EXCEPT ![j].pc = IF grant' = grant THEN "closed" ELSE "granted"]
  /\ UNCHANGED <<account, request, orphaned>>

-----------------------------------------------------------------------------
(* Privileged requests                                                      *)

(* adminProcedure: the grant is read once, before everything else.          *)
Admit(u, action, target) ==
  /\ At(u, "idle") /\ u \in Active /\ ~Busy
  /\ request' = [request EXCEPT ![u] = [Idle EXCEPT !.pc = "admitted", !.action = action,
                                                    !.target = target]]
  /\ UNCHANGED <<account, grant, job, event, done, orphaned>>

(* beginAdminAudit; without its event the request ends here.                *)
BeginAudit(u) ==
  /\ At(u, "admitted") /\ ~Busy
  /\ \E n \in Numbers \ Used :
       /\ \A m \in Numbers \ Used : n <= m
       /\ event' = [event EXCEPT ![n] = [actor |-> u, action |-> request[u].action,
                                         target |-> request[u].target, status |-> "started"]]
       /\ request' = [request EXCEPT ![u].pc = "begun", ![u].number = n]
  /\ UNCHANGED <<account, grant, job, done, orphaned>>

(* The target as grantOperator, revokeOperator and retireAccount need it.   *)
Allowed(u) ==
  LET target == request[u].target IN
  CASE request[u].action = "grant-admin"    -> account[target] = "verified"
    [] request[u].action = "revoke-admin"   -> target # u /\ grant[target] = "active"
    [] request[u].action = "retire-account" -> target # u /\ account[target] # "gone"

Finish(u, failed) == request' = [request EXCEPT ![u].pc = "ran", ![u].failed = failed]

Run(u) ==
  LET target == request[u].target IN
  /\ At(u, "begun") /\ Allowed(u)
  /\ grant' = [grant EXCEPT ![target] =
       CASE request[u].action = "grant-admin"    -> "active"
         [] request[u].action = "revoke-admin"   -> "revoked"
         [] request[u].action = "retire-account" -> "none"]
  /\ account' = IF request[u].action = "retire-account"
                THEN [account EXCEPT ![target] = "gone"] ELSE account
  /\ orphaned' = IF u \notin Active /\ Active # {} /\ Active' = {} THEN orphaned + 1 ELSE orphaned
  /\ done' = done \union {request[u].number}
  /\ Finish(u, FALSE) /\ UNCHANGED <<job, event>>

RunFails(u) ==
  /\ At(u, "begun") /\ Finish(u, TRUE)
  /\ UNCHANGED <<account, grant, job, event, done, orphaned>>

\* Mutation: the event is completed whatever the action threw.
OutcomeSucceeded(u) == "succeeded"

Outcome(u) == IF request[u].failed THEN "failed" ELSE "succeeded"

(* completeAdminAudit.                                                      *)
CompleteAudit(u) ==
  /\ At(u, "ran")
  /\ event' = [event EXCEPT ![request[u].number].status = Outcome(u)]
  /\ request' = [request EXCEPT ![u] = Idle]
  /\ UNCHANGED <<account, grant, job, done, orphaned>>

(* The event cannot be completed: it is tried once more as failed, and that *)
(* may fail as well, as may everything when the server goes away.           *)
CompletionFails(u) ==
  /\ At(u, "ran")
  /\ event' \in {event, [event EXCEPT ![request[u].number].status = "failed"]}
  /\ request' = [request EXCEPT ![u] = Idle]
  /\ UNCHANGED <<account, grant, job, done, orphaned>>

Next ==
  \/ \E j \in Job : GrantFirst(j) \/ \E u \in User : ReadGrants(j, u)
  \/ \E u \in User :
       \/ BeginAudit(u) \/ Run(u) \/ RunFails(u) \/ CompleteAudit(u) \/ CompletionFails(u)
       \/ \E action \in Actions, target \in User : Admit(u, action, target)

Spec == Init /\ [][Next]_grantVars

TypeOK ==
  /\ account \in [User -> {"verified", "unverified", "gone"}]
  /\ grant \in [User -> {"none", "active", "revoked"}]
  /\ \A u \in User : request[u].pc \in {"idle", "admitted", "begun", "ran"}
  /\ \A n \in Numbers : event[n].status \in {"none", "started", "succeeded", "failed"}
  /\ done \subseteq Numbers /\ orphaned \in Nat

(* Whatever was done has its event, and an event that says so was done.     *)
AuditTruthful ==
  /\ done \subseteq Used
  /\ \A n \in Numbers : event[n].status = "succeeded" => n \in done

(* A grant comes from the bootstrap or from a request with an event.        *)
GrantsTraced ==
  \A u \in Active : \E n \in done : event[n].action = "grant-admin" /\ event[n].target = u

(* There is one bootstrap, and one more for each time that a request checked *)
(* before its actor lost the grant removed the last operator: without such a *)
(* request there is an operator as soon as anything was done.               *)
Granted == {j \in Job : job[j].pc = "granted"}
LastOperatorStays ==
  /\ Cardinality(Granted) <= orphaned + (IF Active = {} THEN 0 ELSE 1)
  /\ done # {} => Granted # {}

\* Operators: every privileged change can be found in the audit, which claims none that
\* was not made; nobody is an operator without a grant on record; the bootstrap opens
\* once, and again only when the last one was removed by a request its actor was no
\* longer entitled to; operators acting one after another cannot leave the service so.
OperatorsSound == AuditTruthful /\ GrantsTraced /\ LastOperatorStays

-----------------------------------------------------------------------------
(* The invariant the proof of OperatorsSound goes by (Components_proofs).   *)

Someone == User \cup {"none"}
Something == Actions \cup {"none"}

Requests ==
  [pc : {"idle", "admitted", "begun", "ran"}, action : Something, target : Someone,
   number : Nat, failed : BOOLEAN]
Jobs == [pc : {"idle", "read", "closed", "granted"}, target : Someone, empty : BOOLEAN]
Events ==
  [actor : Someone, action : Something, target : Someone,
   status : {"none", "started", "succeeded", "failed"}]

Shapes ==
  /\ account \in [User -> {"verified", "unverified", "gone"}]
  /\ grant \in [User -> {"none", "active", "revoked"}]
  /\ request \in [User -> Requests] /\ job \in [Job -> Jobs] /\ event \in [Numbers -> Events]
  /\ done \subseteq Numbers /\ orphaned \in Nat

(* A request under way has its target, and past its start an open event of  *)
(* its own that says what it does.                                          *)
HasEvent(u) == request[u].pc \in {"begun", "ran"}
TargetsKnown ==
  \A u \in User : ~At(u, "idle") => request[u].target \in User /\ request[u].action \in Actions
EventsOpen ==
  \A u \in User : HasEvent(u) =>
    /\ request[u].number \in Used
    /\ event[request[u].number].action = request[u].action
    /\ event[request[u].number].target = request[u].target
    /\ event[request[u].number].status = "started"
EventsOwn ==
  \A u, w \in User : HasEvent(u) /\ HasEvent(w) /\ request[u].number = request[w].number => u = w
OutcomesKept ==
  \A u \in User : At(u, "ran") => request[u].failed \/ request[u].number \in done
RequestsRecorded == TargetsKnown /\ EventsOpen /\ EventsOwn /\ OutcomesKept

(* One job holds the lock, and one that read that there is no operator is    *)
(* owed its grant for as long as it holds the lock; requests follow a grant. *)
JobsInTurn ==
  /\ \A j \in Job : job[j].pc = "read" => job[j].target \in User
  /\ \A i, j \in Job : job[i].pc = "read" /\ job[j].pc = "read" => i = j
  /\ IsFiniteSet(Granted)
  /\ \A j \in Job : job[j].pc = "read" /\ job[j].empty => Cardinality(Granted) <= orphaned
  /\ (\E u \in User : ~At(u, "idle")) => Granted # {}

GrantsInv ==
  Shapes /\ RequestsRecorded /\ JobsInTurn /\ LastOperatorStays /\ AuditTruthful /\ GrantsTraced
=============================================================================
