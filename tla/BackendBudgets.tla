---------------------------- MODULE BackendBudgets ----------------------------
(* The shared rate limits of the backend: a decision taken in Redis that    *)
(* may not come, the two budgets a snapshot write can draw on, and the      *)
(* callers that wait as long as they are told.                              *)
EXTENDS Naturals, Sequences, FiniteSets

CONSTANTS User, Tab,          \* each tab is of the user UserOf[tab]
          UserOf,
          Tokens,             \* per operation, the tokens of a window
          Window,             \* ticks in a window
          MaxAttempts,        \* MAX_INITIAL_JOIN_ATTEMPTS, MAX_PUBLISH_ATTEMPTS
          MaxTime, MaxCalls   \* bounds: ticks, calls

VARIABLES clock, spent,       \* per bucket, the instants its tokens were taken at
          role,               \* the roles of the users in the room
          write,              \* per user, the snapshot write under way
          tab,                \* per tab, the join or upload it attempts
          calls
vars == <<clock, spent, role, write, tab, calls>>

Idle == [pc |-> "idle", intent |-> "none"]
Bucket == {<<"snapshot-put", "room">>} \cup ({"snapshot-finalize", "join", "asset-upload"} \X User)
TokensOf(bucket) == Tokens[bucket[1]]

(***************************************************************************)
(* The limiter, a library over Redis: the tokens of the current window and, *)
(* by the part of it that is not over, those of the previous one.  A token  *)
(* it refuses is not counted.                                               *)
(***************************************************************************)
WindowAt(t) == t \div Window
Taken(bucket, window) == Cardinality({i \in DOMAIN spent[bucket] : WindowAt(spent[bucket][i]) = window})
Weighted(bucket) ==
  IF WindowAt(clock) = 0 THEN 0
  ELSE (Taken(bucket, WindowAt(clock) - 1) * (Window - (clock % Window))) \div Window
Full(bucket) == Weighted(bucket) + Taken(bucket, WindowAt(clock)) >= TokensOf(bucket)
Reset == (WindowAt(clock) + 1) * Window

(* evaluateCollaborationRateLimit: the decisions that can be the answer,    *)
(* and whether a token is taken.  One call, never repeated: what fails      *)
(* after it was processed has taken one.                                    *)
Evaluate(bucket) ==
  {[status |-> "degraded", taken |-> taken] : taken \in {FALSE, ~Full(bucket)}}
    \cup {IF Full(bucket)
          THEN [status |-> "limited", reset |-> Reset, retryAfter |-> Reset - clock, taken |-> FALSE]
          ELSE [status |-> "allowed", taken |-> TRUE]}
Charge(bucket, decision) ==
  spent' = IF decision.taken THEN [spent EXCEPT ![bucket] = Append(@, clock)] ELSE spent

(***************************************************************************)
(* What a refusal carries and what a client reads of it.                    *)
(***************************************************************************)
(* enforceCollaborationRateLimitDecision, the error formatter.              *)
Metadata(decision) == [reset |-> decision.reset, retryAfter |-> decision.retryAfter]
TrpcError(decision) == [via |-> "data", rateLimit |-> Metadata(decision)]
(* rateLimitedResponse: the uploader's client hands the body over as cause. *)
UploadError(decision) ==
  [via |-> "cause", error |-> "COLLAB_RATE_LIMITED", rateLimit |-> Metadata(decision)]
(* rateLimitRetryAfterMs.                                                   *)
ReadMetadata(value) == [value EXCEPT !.retryAfter = IF @ < 0 THEN 0 ELSE @]
RetryAfter(error) ==
  IF error.via = "data" \/ error.error = "COLLAB_RATE_LIMITED" THEN ReadMetadata(error.rateLimit).retryAfter ELSE 0

Init ==
  /\ clock = 0 /\ spent = [b \in Bucket |-> <<>>]
  /\ role \in [User -> {"editor", "viewer"}] /\ \E u \in User : role[u] = "editor"
  /\ write = [u \in User |-> Idle]
  /\ tab = [t \in Tab |-> [pc |-> "new", kind |-> "none", attempt |-> 0, notBefore |-> 0, others |-> FALSE]]
  /\ calls = 0

Tick ==
  /\ clock < MaxTime /\ clock' = clock + 1
  /\ UNCHANGED <<spent, role, write, tab, calls>>

(***************************************************************************)
(* put of the snapshots: the room's budget, the reserve of who leaves, and  *)
(* the authorization again under the lock.                                  *)
(***************************************************************************)
(* Who cannot write is refused before a budget is asked.                    *)
StartWrite(u, intent) ==
  /\ calls < MaxCalls /\ calls' = calls + 1 /\ write[u].pc \in {"idle", "done", "refused", "limited"}
  /\ role[u] = "editor" /\ write' = [write EXCEPT ![u] = [pc |-> "put", intent |-> intent]]
  /\ UNCHANGED <<clock, spent, role, tab>>

DecidePut(u) ==
  LET bucket == <<"snapshot-put", "room">> IN
  /\ write[u].pc = "put" /\ UNCHANGED <<clock, role, tab, calls>>
  /\ \E decision \in Evaluate(bucket) :
       /\ Charge(bucket, decision)
       /\ write' = [write EXCEPT ![u].pc = IF decision.status # "limited" THEN decision.status
                                           ELSE IF write[u].intent = "leave" THEN "finalize"
                                           ELSE "limited"]
DecideFinalize(u) ==
  LET bucket == <<"snapshot-finalize", u>> IN
  /\ write[u].pc = "finalize" /\ UNCHANGED <<clock, role, tab, calls>>
  /\ \E decision \in Evaluate(bucket) :
       /\ Charge(bucket, decision) /\ write' = [write EXCEPT ![u].pc = decision.status]

CommitWrite(u) ==
  /\ write[u].pc \in {"allowed", "degraded"} /\ UNCHANGED <<clock, spent, role, tab, calls>>
  /\ write' = [write EXCEPT ![u].pc = IF role[u] = "editor" THEN "done" ELSE "refused"]

(* An owner takes the right to write away.                                  *)
Demote(u) ==
  /\ role[u] = "editor" /\ role' = [role EXCEPT ![u] = "viewer"]
  /\ UNCHANGED <<clock, spent, write, tab, calls>>

(***************************************************************************)
(* The join of a tab, and the upload of an image: the user's own budget.    *)
(***************************************************************************)
(* Whose budget is asked; the storage's own calls to the upload route ask   *)
(* none (isCollaborationPresignRequest).                                    *)
BudgetOf(t, kind) == <<IF kind = "join" THEN "join" ELSE "asset-upload", UserOf[t]>>
Error(kind, decision) == IF kind = "join" THEN TrpcError(decision) ELSE UploadError(decision)

(* joinWithRateLimitRetry, and the publisher of images alike: an attempt, a *)
(* wait of what was told, three times.                                      *)
Attempt(t, kind) ==
  LET bucket == BudgetOf(t, kind) IN
  /\ calls < MaxCalls /\ calls' = calls + 1
  /\ \/ tab[t].pc \in {"new", "in"} /\ (kind = "join" \/ tab[t].pc = "in")
     \/ tab[t].pc = "waiting" /\ tab[t].kind = kind /\ clock >= tab[t].notBefore
  /\ \E decision \in Evaluate(bucket) :
       LET attempt == IF tab[t].pc = "waiting" THEN tab[t].attempt + 1 ELSE 1
           refused == decision.status = "limited"
           mine == [pc |-> IF ~refused THEN "in" ELSE IF attempt = MaxAttempts THEN "given up" ELSE "waiting",
                    kind |-> kind, attempt |-> IF refused THEN attempt ELSE 0,
                    notBefore |-> IF refused THEN clock + RetryAfter(Error(kind, decision)) ELSE 0,
                    others |-> IF tab[t].pc = "waiting" THEN tab[t].others ELSE FALSE]
       IN  /\ Charge(bucket, decision)
           /\ tab' = [s \in Tab |-> IF s = t THEN mine
                                    ELSE IF UserOf[s] = UserOf[t] /\ tab[s].kind = kind /\ decision.taken
                                    THEN [tab[s] EXCEPT !.others = TRUE] ELSE tab[s]]
  /\ UNCHANGED <<clock, role, write>>

WriteNext ==
  \/ Tick
  \/ \E u \in User :
       \/ DecidePut(u) \/ DecideFinalize(u) \/ CommitWrite(u) \/ Demote(u)
       \/ \E intent \in {"cadence", "leave"} : StartWrite(u, intent)
AttemptNext == Tick \/ \E t \in Tab, kind \in {"join", "upload"} : Attempt(t, kind)

Next == WriteNext \/ AttemptNext
Spec == Init /\ [][Next]_vars

(***************************************************************************)
TypeOK ==
  /\ clock \in 0..MaxTime /\ calls \in 0..MaxCalls
  /\ \A b \in Bucket : \A i \in DOMAIN spent[b] : spent[b][i] <= clock
  /\ \A u \in User : write[u].pc \in {"idle", "put", "finalize", "allowed", "degraded", "limited", "refused", "done"}
  /\ \A t \in Tab : tab[t].pc \in {"new", "waiting", "in", "given up"} /\ tab[t].attempt <= MaxAttempts

(* The windows slide: two full windows of a budget do not pass within half  *)
(* a window, across a boundary either (COLLABORATION_RATE_LIMITS).          *)
NotTwoWindows ==
  \A b \in Bucket : \A i \in DOMAIN spent[b] :
    Cardinality({j \in DOMAIN spent[b] : spent[b][j] \in spent[b][i]..spent[b][i] + Window \div 2})
      < 2 * TokensOf(b)

(* The reserve is a member's own: a leave write is refused only when this   *)
(* member has drawn on the reserve before.                                  *)
ReserveIsOnesOwn ==
  \A u \in User :
    (write[u].pc = "limited" /\ write[u].intent = "leave") =>
      Len(spent[<<"snapshot-finalize", u>>]) >= Tokens["snapshot-finalize"]

(* A caller that waits as it is told and shares its budget with no other    *)
(* tab is admitted before it gives up.                                      *)
WaitingPays == \A t \in Tab : tab[t].pc = "given up" => tab[t].others

BudgetsSound == NotTwoWindows /\ ReserveIsOnesOwn /\ WaitingPays

(***************************************************************************)
(* The invariant the proof of BudgetsSound goes by (RoomKeys_proofs).       *)
(***************************************************************************)
(* A budget of one token slides by no half windows: that is a limit of the  *)
(* tokens, of which every operation has two or more, or of the ticks.  Who  *)
(* waits as told has three attempts.                                        *)
LimitBounds ==
  /\ Window \in Nat \ {0} /\ MaxAttempts \in Nat /\ MaxAttempts > 2 /\ UserOf \in [Tab -> User]
  /\ \A op \in {"snapshot-put", "snapshot-finalize", "join", "asset-upload"} :
       Tokens[op] \in Nat \ {0} /\ (Tokens[op] = 1 => Window < 4)

LimitShapes ==
  /\ clock \in Nat /\ spent \in [Bucket -> Seq(Nat)] /\ role \in [User -> {"editor", "viewer"}]
  /\ write \in [User -> [pc : {"idle", "put", "finalize", "allowed", "degraded", "limited", "refused", "done"},
                         intent : {"none", "cadence", "leave"}]]
  /\ tab \in [Tab -> [pc : {"new", "waiting", "in", "given up"}, kind : {"none", "join", "upload"},
                      attempt : Nat, notBefore : Nat, others : BOOLEAN]]

(* A window in which something was taken is within its tokens; and what is  *)
(* taken in the first half of one leaves room for half of the one before.   *)
InWindow(w) == {t \in Nat : WindowAt(t) = w}
EarlyIn(w) == {t \in Nat : WindowAt(t) = w /\ t % Window < Window \div 2}
Hits(instants, S) == {i \in DOMAIN instants : instants[i] \in S}
Count(bucket, S) == Cardinality(Hits(spent[bucket], S))
Share(n, tokens) == IF tokens = 1 THEN n ELSE n \div 2
CountsInv ==
  \A b \in Bucket : \A i \in DOMAIN spent[b] :
    /\ spent[b][i] <= clock
    /\ Count(b, InWindow(WindowAt(spent[b][i]))) <= TokensOf(b)
    /\ spent[b][i] \in EarlyIn(WindowAt(spent[b][i])) /\ WindowAt(spent[b][i]) # 0 =>
         Count(b, EarlyIn(WindowAt(spent[b][i])))
           + Share(Count(b, InWindow(WindowAt(spent[b][i]) - 1)), TokensOf(b)) <= TokensOf(b)

(* Who waits, and shares with nobody, waits for the start of a window, with *)
(* nothing taken since the first refusal.                                   *)
WaitsWell(t) ==
  LET m == tab[t].notBefore
      mine == spent[BudgetOf(t, tab[t].kind)]
  IN  /\ tab[t].kind # "none" /\ tab[t].attempt # 0
      /\ ~tab[t].others =>
           /\ tab[t].attempt < 3 /\ m % Window = 0
           /\ \A i \in DOMAIN mine : IF tab[t].attempt = 1 THEN mine[i] < m ELSE mine[i] + Window < m
WaitInv ==
  \A t \in Tab : tab[t].pc = "waiting" => WaitsWell(t)

LimitInv == LimitShapes /\ CountsInv /\ WaitInv /\ ReserveIsOnesOwn /\ WaitingPays
=============================================================================
