---------------------------- MODULE MaintenanceRuns ----------------------------
(***************************************************************************)
(* The runs of the maintenance route: which of them works, what its jobs   *)
(* reclaim in which order, and how it ends before the platform ends it.    *)
(* What a job's transaction does to one scene or one room is in            *)
(* SceneStorage and RoomAuthorization; here an item is reclaimed whole.    *)
(*                                                                         *)
(* Time is counted from the start of each run, in steps: what a job awaits *)
(* takes at most one of them.  A task is given up after two attempts, not  *)
(* six.  The drain's own allowance of time, which can only end it sooner   *)
(* than the deadline of the run, is left out.  Bounds: MaxCalls runs,      *)
(* MaxMishaps failures, MaxMoves changes by the owners.                    *)
(***************************************************************************)
EXTENDS Naturals, FiniteSets, Sequences

CONSTANTS Caller, None, Shared, Room, Account, MaxSize,
          MaxItems, MaxObjects, MaxTasks, BatchSize, Deadline, MaxDuration,
          MaxCalls, MaxMishaps, MaxMoves

VARIABLES lock, item, stored, task, run, wrong, used
vars == <<lock, item, stored, task, run, wrong, used>>

Item == Shared \cup Room \cup Account
Object == Item \X (1..MaxSize)
Routine == <<"shared", "assets", "rooms", "tidy", "drain", "report">>

Run == [jobs    : {<<>>} \cup {SubSeq(Routine, n, 6) : n \in 1..6} \cup {<<"accounts">> \o Routine},
        listed  : BOOLEAN,               \* the current job has its candidates
        left    : SUBSET Item,           \* and these are still to be visited
        oldest  : {None} \cup Item,
        enqueued: 0..Cardinality(Object),
        holders : 0..Cardinality(Item),  \* items with objects it has reclaimed
        batch   : SUBSET (Object \X BOOLEAN),   \* tasks as they were read; tried before
        taken   : SUBSET (Object \X BOOLEAN),   \* the one that is being dealt with
        deleted : BOOLEAN,
        handled : 0..MaxTasks,
        tried   : SUBSET Object,
        age     : 0..MaxDuration,
        waited  : BOOLEAN,               \* the step under way has taken its time
        mine    : SUBSET Object,         \* history: what this run enqueued
        excused : BOOLEAN]               \* history: it need not drain all of that

NoRun == [jobs |-> <<>>, listed |-> FALSE, left |-> {}, oldest |-> None, enqueued |-> 0,
          holders |-> 0, batch |-> {}, taken |-> {}, deleted |-> FALSE, handled |-> 0,
          tried |-> {}, age |-> 0, waited |-> FALSE, mine |-> {}, excused |-> FALSE]

\* A row of the queue: rescheduled rows are "later", and "again" once they are due.
TaskStates == {"none", "due", "later", "again", "done", "failed", "dropped"}
Due == {o \in Object : task[o] \in {"due", "again"}}
Holds(i) == {o \in stored : o[1] = i}

Init ==
  /\ lock = None
  /\ item \in [Item -> {"kept", "ripe", "gone"}]
  /\ stored \in {UNION {{i} \X (1..n[i]) : i \in Item} : n \in [Item -> 0..MaxSize]}
  /\ \A i \in Item : item[i] = "gone" => Holds(i) = {}
  /\ task = [o \in Object |-> "none"]
  /\ run = [c \in Caller |-> NoRun]
  /\ wrong = {}
  /\ used = [calls |-> 0, mishaps |-> 0, moves |-> 0, lost |-> FALSE]

Working(c) == run[c].jobs # <<>>
Does(c, job) == Working(c) /\ Head(run[c].jobs) = job

Step(c, r) == run' = [run EXCEPT ![c] = [r EXCEPT !.waited = FALSE]]
Mishap == used.mishaps < MaxMishaps /\ used' = [used EXCEPT !.mishaps = @ + 1]

\* The runner keeps what a job throws as its outcome and goes on to the next.
NextJob(r) ==
  [r EXCEPT !.jobs = Tail(@), !.listed = FALSE, !.left = {}, !.oldest = None, !.enqueued = 0,
            !.holders = 0, !.batch = {}, !.taken = {}, !.deleted = FALSE]

(***************************************************************************)
(* The route.                                                               *)
(***************************************************************************)
\* pg_try_advisory_lock.  A scheduled call has no body; a confirmed one purges accounts.
MayRun(c) == lock = None

Call(c) ==
  /\ ~Working(c) /\ MayRun(c) /\ used.calls < MaxCalls
  /\ lock' = c
  /\ \E jobs \in {Routine, <<"accounts">> \o Routine} :
       /\ (Account = {}) => (jobs = Routine)
       /\ run' = [run EXCEPT ![c] =
            [NoRun EXCEPT !.jobs = jobs,
                          !.excused = \E o \in Object : task[o] \in {"due", "later", "again"}]]
  /\ used' = [used EXCEPT !.calls = @ + 1]
  /\ UNCHANGED <<item, stored, task, wrong>>

Unlocked(c) == IF lock = c THEN None ELSE lock

Report(c) ==
  /\ Does(c, "report")
  /\ run' = [run EXCEPT ![c] = NoRun]
  /\ lock' = Unlocked(c)
  /\ wrong' = wrong \cup (IF ~run[c].excused /\ \E o \in run[c].mine : task[o] = "due"
                          THEN {"undrained"} ELSE {})
  /\ UNCHANGED <<item, stored, task, used>>

\* Its connection goes with the function, and the session's lock with the connection.
Killed(c) ==
  /\ Working(c) /\ run[c].age = MaxDuration
  /\ run' = [run EXCEPT ![c] = NoRun]
  /\ lock' = Unlocked(c)
  /\ wrong' = wrong \cup (IF run[c].excused THEN {} ELSE {"killed"})
  /\ UNCHANGED <<item, stored, task, used>>

Crash(c) ==
  /\ Working(c) /\ Mishap
  /\ run' = [run EXCEPT ![c] = NoRun]
  /\ lock' = Unlocked(c)
  /\ UNCHANGED <<item, stored, task, wrong>>

LockLost(c) ==
  /\ lock = c /\ used.mishaps < MaxMishaps
  /\ lock' = None
  /\ used' = [used EXCEPT !.mishaps = @ + 1, !.lost = TRUE]
  /\ run' = [x \in Caller |-> [run[x] EXCEPT !.excused = @ \/ Working(x)]]
  /\ UNCHANGED <<item, stored, task, wrong>>

\* Only the scenes' expiry and the drain look at the deadline; a run whose other jobs take
\* longer than that may be killed, or have no time left to drain.
Pass(c) ==
  /\ Working(c) /\ ~run[c].waited /\ run[c].age < MaxDuration
  /\ run' = [run EXCEPT ![c].age = @ + 1, ![c].waited = TRUE,
               ![c].excused = @ \/ (run[c].age >= Deadline
                                     /\ Head(run[c].jobs) \notin {"shared", "drain", "report"})]
  /\ UNCHANGED <<lock, item, stored, task, wrong, used>>

(***************************************************************************)
(* The jobs that reclaim.                                                   *)
(***************************************************************************)
Kind(job) == CASE job = "accounts" -> Account [] job = "shared" -> Shared [] OTHER -> Room
Ripe(job) == {i \in Kind(job) : item[i] = "ripe"}
Oldest(s) == CHOOSE i \in s : \A k \in s : i <= k
Reclaims == {"accounts", "shared", "rooms"}

\* Shared scenes are read oldest first, rooms in no order.
List(c) == \E job \in Reclaims :
  /\ Does(c, job) /\ ~run[c].listed
  /\ \E s \in SUBSET Ripe(job) :
       /\ job = "accounts" => s = Ripe(job)
       /\ job # "accounts" => Cardinality(s) = MaxItems \/ (s = Ripe(job) /\ Cardinality(s) < MaxItems)
       /\ job = "shared" => \A i \in s, k \in Ripe(job) \ s : i < k
       /\ Step(c, [run[c] EXCEPT !.listed = TRUE, !.left = s,
                                 !.oldest = IF job = "shared" /\ s # {} THEN Oldest(s) ELSE None])
  /\ UNCHANGED <<lock, item, stored, task, wrong, used>>

\* The job is over; `starved`: it left the scene that has waited longest, with time to spare.
EndJob(c, inTime) ==
  /\ Step(c, NextJob([run[c] EXCEPT !.excused = @ \/ run[c].enqueued > MaxObjects]))
  /\ wrong' = wrong \cup (IF inTime /\ run[c].oldest # None /\ item[run[c].oldest] = "ripe"
                          THEN {"starved"} ELSE {})
  /\ UNCHANGED <<lock, item, stored, task, used>>

OutOfTime(c, job) == job = "shared" /\ run[c].age >= Deadline
Spent(c, job) == job # "accounts" /\ run[c].enqueued > 0 /\ run[c].enqueued >= MaxObjects

\* One item that would go past the budget ends the job, unless it is the first.
Exceeds(c, i) ==
  run[c].enqueued > 0 /\ run[c].enqueued + Cardinality(Holds(i)) > MaxObjects

\* In one transaction: the row is gone and what it pointed to is queued.
Reclaim(c, i) ==
  /\ item' = [item EXCEPT ![i] = "gone"]
  /\ task' = [o \in Object |-> IF o \in Holds(i) THEN "due" ELSE task[o]]
  /\ Step(c, [run[c] EXCEPT !.left = @ \ {i}, !.mine = @ \cup Holds(i),
                !.enqueued = @ + Cardinality(Holds(i)),
                !.holders = @ + (IF Holds(i) = {} THEN 0 ELSE 1)])
  /\ UNCHANGED <<lock, stored, wrong, used>>

Skip(c, i) ==
  Step(c, [run[c] EXCEPT !.left = @ \ {i}]) /\ UNCHANGED <<lock, item, stored, task, wrong>>

Visit(c) == \E job \in Reclaims :
  /\ Does(c, job) /\ run[c].listed
  /\ LET left == run[c].left IN
     \/ left = {} /\ EndJob(c, TRUE)
     \/ left # {} /\ (OutOfTime(c, job) \/ Spent(c, job)) /\ EndJob(c, ~OutOfTime(c, job))
     \/ /\ left # {} /\ ~OutOfTime(c, job) /\ ~Spent(c, job)
        /\ \E i \in (IF job = "shared" THEN {Oldest(left)} ELSE left) :
             \/ item[i] # "ripe" /\ Skip(c, i) /\ UNCHANGED used
             \/ item[i] = "ripe" /\ job # "accounts" /\ Exceeds(c, i) /\ EndJob(c, TRUE)
             \/ item[i] = "ripe" /\ (job = "accounts" \/ ~Exceeds(c, i)) /\ Reclaim(c, i)
             \/ item[i] = "ripe" /\ job = "accounts" /\ Mishap /\ Skip(c, i)

(***************************************************************************)
(* The other jobs.                                                          *)
(***************************************************************************)
Assets(c) ==
  /\ Does(c, "assets")
  /\ Step(c, NextJob(run[c])) /\ UNCHANGED <<lock, item, stored, task, wrong, used>>

\* Sessions, verifications, and the rows of the queue that ended 30 days ago.
Tidy(c) ==
  /\ Does(c, "tidy")
  /\ \E old \in BOOLEAN :
       task' = [o \in Object |-> IF old /\ task[o] = "done" THEN "none"
                                 ELSE IF old /\ task[o] = "failed" THEN "dropped" ELSE task[o]]
  /\ Step(c, NextJob(run[c])) /\ UNCHANGED <<lock, item, stored, wrong, used>>

Throws(c) ==
  /\ Working(c) /\ ~Does(c, "report") /\ Mishap
  /\ Step(c, NextJob([run[c] EXCEPT !.excused = @ \/ Does(c, "drain")]))
  /\ UNCHANGED <<lock, item, stored, task, wrong>>

(***************************************************************************)
(* The drain: batches of due tasks, the longest due first.                  *)
(***************************************************************************)
BudgetSpent(c) == run[c].age >= Deadline

Fetch(c) ==
  /\ Does(c, "drain") /\ run[c].batch = {} /\ run[c].taken = {}
  /\ LET r == run[c]
         room == MaxTasks - r.handled
     IN  \/ /\ BudgetSpent(c) \/ room = 0 \/ Due = {}
            /\ Step(c, NextJob([r EXCEPT !.excused = @ \/ BudgetSpent(c)]))
         \/ /\ ~BudgetSpent(c) /\ room > 0
            /\ \E b \in SUBSET Due \ {{}} :
                 /\ Cardinality(b) <= BatchSize /\ Cardinality(b) <= room
                 /\ b = Due \/ Cardinality(b) = BatchSize \/ Cardinality(b) = room
                 /\ b \cap r.tried # {} => Due \subseteq b \cup r.tried
                 /\ Step(c, [r EXCEPT !.batch = {<<o, task[o] = "again">> : o \in b}])
  /\ UNCHANGED <<lock, item, stored, task, wrong, used>>

\* Per task, not per batch.
TaskInTime(c) == ~BudgetSpent(c)

Handle(c) ==
  /\ Does(c, "drain") /\ run[c].batch # {} /\ run[c].taken = {}
  /\ LET r == run[c] IN
     \/ /\ ~TaskInTime(c)
        /\ Step(c, NextJob([r EXCEPT !.excused = TRUE])) /\ UNCHANGED stored
     \/ /\ TaskInTime(c)
        /\ \E t \in r.batch, ok \in BOOLEAN :
             /\ Step(c, [r EXCEPT !.batch = @ \ {t}, !.taken = {t}, !.deleted = ok,
                                  !.tried = @ \cup {t[1]}])
             /\ stored' = IF ok THEN stored \ {t[1]} ELSE stored
  /\ UNCHANGED <<lock, item, task, wrong, used>>

Settled(r) == [r EXCEPT !.taken = {}, !.deleted = FALSE, !.handled = @ + 1]

MarkDone(c) == \E t \in run[c].taken :
  /\ run[c].deleted
  /\ \/ /\ task' = [task EXCEPT ![t[1]] = IF @ \in {"none", "dropped"} THEN @ ELSE "done"]
        /\ Step(c, Settled(run[c])) /\ UNCHANGED used
     \/ /\ Mishap /\ Step(c, [run[c] EXCEPT !.deleted = FALSE]) /\ UNCHANGED task
  /\ UNCHANGED <<lock, item, stored, wrong>>

\* Rescheduling leaves the row's status alone, so a row another run has finished stays so.
Retry(c) == \E t \in run[c].taken :
  /\ ~run[c].deleted
  /\ task' = [task EXCEPT ![t[1]] =
                IF @ \in {"none", "dropped"} THEN @
                ELSE IF t[2] THEN "failed"
                ELSE IF @ \in {"due", "later", "again"} THEN "later" ELSE @]
  /\ Step(c, Settled(run[c]))
  /\ UNCHANGED <<lock, item, stored, wrong, used>>

(***************************************************************************)
(* Time, and the owners.                                                    *)
(***************************************************************************)
DueAgain(o) ==
  /\ task[o] = "later" /\ task' = [task EXCEPT ![o] = "again"]
  /\ UNCHANGED <<lock, item, stored, run, wrong, used>>

\* Retention passes; an owner opens an expired room again.
Moves(i) ==
  /\ used.moves < MaxMoves /\ used' = [used EXCEPT !.moves = @ + 1]
  /\ \/ item[i] = "kept" /\ item' = [item EXCEPT ![i] = "ripe"]
     \/ item[i] = "ripe" /\ i \in Room /\ item' = [item EXCEPT ![i] = "kept"]
  /\ UNCHANGED <<lock, stored, task, run, wrong>>

Next ==
  \/ \E c \in Caller :
       \/ Call(c) \/ Report(c) \/ Killed(c) \/ Crash(c) \/ LockLost(c) \/ Pass(c)
       \/ List(c) \/ Visit(c) \/ Assets(c) \/ Tidy(c) \/ Throws(c)
       \/ Fetch(c) \/ Handle(c) \/ MarkDone(c) \/ Retry(c)
  \/ \E o \in Object : DueAgain(o)
  \/ \E i \in Item : Moves(i)

Spec == Init /\ [][Next]_vars

(***************************************************************************)
(* Properties.                                                              *)
(***************************************************************************)
TypeOK ==
  /\ lock \in Caller \cup {None}
  /\ item \in [Item -> {"kept", "ripe", "gone"}]
  /\ stored \subseteq Object
  /\ task \in [Object -> TaskStates]
  /\ run \in [Caller -> Run]
  /\ wrong \subseteq {"undrained", "killed", "starved"}

\* Two runs work at once only after the lock's connection was lost under one of them.
OneRunWorks == ~used.lost => Cardinality({c \in Caller : Working(c)}) <= 1

\* An object whose row was reclaimed has a row in the queue until it is deleted, or was
\* given up by it, whatever crashes, throws or runs twice.
KeysAreQueued == \A o \in stored :
  item[o[1]] = "gone" => task[o] \in {"due", "later", "again", "failed", "dropped"}

\* A job queues more objects than its budget only for the first item that has any.
BudgetKept == \A c \in Caller : \A job \in {"shared", "rooms"} :
  Does(c, job) /\ run[c].enqueued > MaxObjects => run[c].holders = 1

\* A run that has the time ends by reporting, reclaims the scene that has waited longest, and
\* drains what it queued itself, even when jobs before the drain failed.  (Excused from
\* draining: a run that met a backlog, went past a budget with one item or failed to drain.)
RunsEndWell == wrong = {}

RunsSound == OneRunWorks /\ KeysAreQueued /\ BudgetKept /\ RunsEndWell
=============================================================================
