------------------------------ MODULE RelayBudgets ------------------------------
(***************************************************************************)
(* What the relay does with its clocks, besides expiring tokens: the token *)
(* buckets of a connection, the join budgets of subjects, and the epochs   *)
(* of rooms (apps/collaboration-relay/src/rate-limit.ts, fanout.ts,        *)
(* connection.ts, server.ts).                                              *)
(*                                                                         *)
(* A token comes back in one tick, in every bucket.  One connection, whose *)
(* budgets are to hold whatever its clock does; subjects and epochs read   *)
(* Date.now.  All read the one variable clock here, which ticks and is set *)
(* back.  Bounds: MaxTime ticks, MaxBacks settings, MaxRestarts, and no    *)
(* epoch above MaxEpoch.                                                   *)
(***************************************************************************)
EXTENDS Naturals, FiniteSets

CONSTANTS Subject, Channel, Burst, MaxTracked, MaxTime, MaxBacks, MaxRestarts, MaxEpoch

VARIABLES
  clock,    \* what now() returns
  high,     \* history: the latest time it ever returned
  entries,  \* the entries of the subject limiter
  conn,     \* the buckets of the connection
  rooms,    \* room epochs; 0: no such room
  last,     \* lastIssuedGeneration
  newest,   \* history: the newest epoch issued by any process
  account,  \* history, per budget: [since, admitted]
  rewound,  \* history: the subjects seen while the clock was behind
  used      \* [backs, restarts]

budgetVars == <<clock, high, entries, conn, rooms, last, newest, account, rewound, used>>

Budgets == {"scene frames", "scene bytes", "presence frames"}
Larger(a, b) == IF a > b THEN a ELSE b
Smaller(a, b) == IF a < b THEN a ELSE b
Less(a, b) == IF a > b THEN a - b ELSE 0

NewBucket == [tokens |-> Burst, mark |-> clock]
NoEntry == [bucket |-> [tokens |-> 0, mark |-> 0], seen |-> 0, live |-> FALSE]
Tracked == {s \in Subject : entries[s].live}
Closed == [since |-> 0, admitted |-> 0]
NoConnection == [b \in Budgets |-> [tokens |-> 0, mark |-> 0]]

Init ==
  /\ clock = 1 /\ high = 1
  /\ entries = [s \in Subject |-> NoEntry]
  /\ conn = [live |-> FALSE, bucket |-> NoConnection]
  /\ rooms = [r \in Channel |-> 0] /\ last = 0 /\ newest = 0
  /\ account = [k \in Budgets \union Subject |-> Closed]
  /\ rewound = {} /\ used = [backs |-> 0, restarts |-> 0]

-----------------------------------------------------------------------------
(* Buckets                                                                  *)

\* Mutation: only the elapsed time is clamped, the mark follows the clock back.
RefilledLow(b) ==
  [tokens |-> Smaller(Burst, b.tokens + Less(clock, b.mark)), mark |-> clock]

(* The lazy refill, up to a mark that only moves forward.                   *)
Refilled(b) ==
  [tokens |-> Smaller(Burst, b.tokens + Less(clock, b.mark)),
   mark |-> Larger(b.mark, clock)]

(* tryConsume: a refused charge deducts nothing.                            *)
Covers(b, cost) == Refilled(b).tokens >= cost
Consumed(b, cost) ==
  [Refilled(b) EXCEPT !.tokens = IF Covers(b, cost) THEN @ - cost ELSE @]

(* What admitFrame charges.  A refusal closes the connection, so that it    *)
(* does not matter which of the budgets of a scene frame refused.           *)
Charges(channel, bytes) ==
  IF channel = "presence" THEN [b \in {"presence frames"} |-> 1]
  ELSE [b \in {"scene frames", "scene bytes"} |-> IF b = "scene bytes" THEN bytes ELSE 1]

-----------------------------------------------------------------------------
(* The connection                                                           *)

Connect ==
  /\ ~conn.live
  /\ conn' = [live |-> TRUE, bucket |-> [b \in Budgets |-> NewBucket]]
  /\ account' = [k \in DOMAIN account |->
       IF k \in Budgets THEN [since |-> clock, admitted |-> 0] ELSE account[k]]
  /\ UNCHANGED <<clock, high, entries, rooms, last, newest, rewound, used>>

(* A data frame: routed when every charge is covered, or else the           *)
(* connection is closed.                                                    *)
Frame(channel, bytes) ==
  LET c == Charges(channel, bytes) IN
  /\ conn.live
  /\ IF \A b \in DOMAIN c : Covers(conn.bucket[b], c[b])
     THEN /\ conn' = [conn EXCEPT !.bucket = [b \in Budgets |->
                        IF b \in DOMAIN c THEN Consumed(@[b], c[b]) ELSE @[b]]]
          /\ account' = [k \in DOMAIN account |-> IF k \in Budgets /\ k \in DOMAIN c
               THEN [account[k] EXCEPT !.admitted = @ + c[k]] ELSE account[k]]
     ELSE /\ conn' = [live |-> FALSE, bucket |-> NoConnection]
          /\ UNCHANGED account
  /\ UNCHANGED <<clock, high, entries, rooms, last, newest, rewound, used>>

-----------------------------------------------------------------------------
(* Joins                                                                    *)

(* An entry whose bucket had time to refill carries no information.         *)
Refillable(s) == entries[s].live /\ clock >= entries[s].seen + Burst

\* Mutation: a recreated room gets the time as its epoch.
NextGenerationClock == clock

(* nextGeneration                                                           *)
NextGeneration == Larger(last + 1, clock)

(* fanout.join: the first member creates the room and its epoch.            *)
EnterRoom(r) ==
  IF rooms[r] = 0
  THEN /\ NextGeneration <= MaxEpoch
       /\ rooms' = [rooms EXCEPT ![r] = NextGeneration]
       /\ last' = NextGeneration
       /\ newest' = Larger(newest, NextGeneration)
  ELSE UNCHANGED <<rooms, last, newest>>

(* A subject without an entry: refilled entries are evicted, and at the     *)
(* limit of tracked subjects the join is admitted without one.              *)
JoinUntracked(s, r) ==
  LET kept == {x \in Tracked : ~Refillable(x)}
      after == [x \in Subject |-> IF x \in kept THEN entries[x] ELSE NoEntry] IN
  /\ s \notin Tracked
  /\ EnterRoom(r)
  /\ IF Cardinality(kept) >= MaxTracked
     THEN entries' = after /\ UNCHANGED <<account, rewound>>
     ELSE /\ entries' = [after EXCEPT ![s] =
               [bucket |-> Consumed(NewBucket, 1), seen |-> clock, live |-> TRUE]]
          /\ account' = [account EXCEPT ![s] =
               [since |-> IF @ = Closed THEN clock ELSE @.since, admitted |-> @.admitted + 1]]
          /\ rewound' = IF clock < high THEN rewound \union {s} ELSE rewound
  /\ UNCHANGED <<clock, high, conn, used>>

(* A tracked subject: seen now, and charged.                                *)
JoinTracked(s, r) ==
  /\ s \in Tracked
  /\ entries' = [entries EXCEPT ![s].bucket = Consumed(@, 1), ![s].seen = clock]
  /\ rewound' = IF clock < high THEN rewound \union {s} ELSE rewound
  /\ IF Covers(entries[s].bucket, 1)
     THEN EnterRoom(r) /\ account' = [account EXCEPT ![s].admitted = @ + 1]
     ELSE UNCHANGED <<rooms, last, newest, account>>
  /\ UNCHANGED <<clock, high, conn, used>>

(* fanout.leave of the last member.                                         *)
RoomEmpties(r) ==
  /\ rooms[r] # 0
  /\ rooms' = [rooms EXCEPT ![r] = 0]
  /\ UNCHANGED <<clock, high, entries, conn, last, newest, account, rewound, used>>

-----------------------------------------------------------------------------
(* The environment                                                          *)

Tick ==
  /\ clock < MaxTime
  /\ clock' = clock + 1
  /\ high' = Larger(high, clock')
  /\ UNCHANGED <<entries, conn, rooms, last, newest, account, rewound, used>>

ClockSetBack ==
  /\ used.backs < MaxBacks
  /\ clock' \in 1..(clock - 1)
  /\ used' = [used EXCEPT !.backs = @ + 1]
  /\ UNCHANGED <<high, entries, conn, rooms, last, newest, account, rewound>>

(* A new process: nothing of the old one is left.                           *)
Restart ==
  /\ used.restarts < MaxRestarts
  /\ used' = [used EXCEPT !.restarts = @ + 1]
  /\ entries' = [s \in Subject |-> NoEntry]
  /\ conn' = [live |-> FALSE, bucket |-> NoConnection]
  /\ rooms' = [r \in Channel |-> 0] /\ last' = 0
  /\ account' = [k \in DOMAIN account |-> Closed] /\ rewound' = {}
  /\ UNCHANGED <<clock, high, newest>>

ConnectionNext ==
  Connect \/ \E channel \in {"scene", "presence"}, n \in 1..Burst : Frame(channel, n)

JoinNext ==
  \/ \E s \in Subject, r \in Channel : JoinUntracked(s, r) \/ JoinTracked(s, r)
  \/ \E r \in Channel : RoomEmpties(r)

ClockNext == Tick \/ ClockSetBack \/ Restart

Next == ConnectionNext \/ JoinNext \/ ClockNext

Spec == Init /\ [][Next]_budgetVars
-----------------------------------------------------------------------------
(* Properties                                                               *)

Bucket == [tokens : 0..Burst, mark : 0..MaxTime]
Entry == [bucket : Bucket, seen : 0..MaxTime, live : BOOLEAN]

\* Type correctness.
TypeOK ==
  /\ clock \in 1..MaxTime /\ high \in 1..MaxTime
  /\ entries \in [Subject -> Entry]
  /\ conn \in [live : BOOLEAN, bucket : [Budgets -> Bucket]]
  /\ rooms \in [Channel -> 0..MaxEpoch] /\ last \in 0..MaxEpoch /\ newest \in 0..MaxEpoch
  /\ account \in [Budgets \union Subject -> [since : 0..MaxTime, admitted : Nat]]
  /\ rewound \subseteq Subject
  /\ used \in [backs : 0..MaxBacks, restarts : 0..MaxRestarts]
  /\ Cardinality(Tracked) <= MaxTracked

\* No budget admits more than its burst and one token per tick of the time its clock
\* has shown it, however often that clock is set back, and a subject's budget outlives
\* the entries that are dropped and made again for it.  The exception: a subject
\* seen during a setback, whose entry is dated back and dropped before it has refilled
\* (rate-limit.ts:283).
BudgetHolds ==
  \A k \in DOMAIN account \ rewound :
    account[k].admitted <= Burst + Less(high, account[k].since)

\* A new room's epoch is above every epoch before it, of whatever room and process,
\* as soon as the clock of a restarted relay is past the last one (fanout.ts:122).
NewEpochsRise ==
  \A r \in Channel : rooms[r] = 0 /\ rooms'[r] # 0
     => rooms'[r] > newest \/ (used.restarts > 0 /\ clock <= newest)
EpochsRise == [][NewEpochsRise]_budgetVars

-----------------------------------------------------------------------------
(* The invariant the proofs of these go by (Components_proofs).             *)

(* A bucket holds a token at least, a budget of the connection is no        *)
(* subject's, and time and epochs begin at 1.                               *)
BudgetsApart ==
  /\ Burst \in Nat \ {0} /\ MaxTime \in Nat \ {0} /\ MaxEpoch \in Nat /\ MaxTracked \in Nat
  /\ MaxBacks \in Nat /\ MaxRestarts \in Nat
  /\ Subject \cap Budgets = {} /\ IsFiniteSet(Subject)

(* What a bucket may still admit and what its budget did admit add up to no *)
(* more than what its time has earned.                                      *)
Paid(bucket, a) ==
  /\ a.since <= bucket.mark /\ bucket.mark <= high
  /\ bucket.tokens + a.admitted <= Burst + (bucket.mark - a.since)

ConnectionPaid ==
  \A b \in Budgets :
    /\ account[b].since <= high /\ account[b].admitted <= Burst + (high - account[b].since)
    /\ conn.live => Paid(conn.bucket[b], account[b])

(* A subject never seen in a setback: its bucket is dated by its last join, *)
(* and without one it has not used its burst.                               *)
SubjectsPaid ==
  \A s \in Subject \ rewound :
    IF entries[s].live
    THEN Paid(entries[s].bucket, account[s]) /\ entries[s].bucket.mark = entries[s].seen
    ELSE account[s].since <= high /\ account[s].admitted <= high - account[s].since

(* The first process knows every epoch there was.                           *)
EpochsKnown == used.restarts = 0 => last = newest

BudgetsInv == TypeOK /\ clock <= high /\ ConnectionPaid /\ SubjectsPaid /\ EpochsKnown
=============================================================================
