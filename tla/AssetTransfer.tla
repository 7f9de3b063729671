----------------------------- MODULE AssetTransfer -----------------------------
(***************************************************************************)
(* The encrypted images of a room in one tab: the asset store's downloads, *)
(* its uploads, the verdict that this link cannot read the room's images,  *)
(* and the bridge to the canvas (apps/web/src/lib/collab/asset-download.ts, *)
(* asset-publish.ts, asset-unreadable-verdict.ts, asset-store.ts,          *)
(* session/asset-bridge.ts).                                               *)
(*                                                                         *)
(* A deadline is a flag, `early`, that time clears; a retry timer may fire *)
(* at any time and takes what is due.  Left out: the split of a lookup     *)
(* into batches, the gate of four transfers, the FIFO eviction of ids.     *)
(* Bounds: MaxDownloads and MaxUploads stand for                           *)
(* MAX_SCHEDULED_DOWNLOAD_ATTEMPTS and MAX_PUBLISH_ATTEMPTS; MaxFetches    *)
(* lookups are started and MaxTurns user edits, uploads by others and      *)
(* connection changes happen.                                              *)
(***************************************************************************)
EXTENDS Naturals, Sequences, FiniteSets

CONSTANTS File, MaxDownloads, MaxUploads, MaxFetches, MaxTurns

VARIABLES
  room,     \* what the room holds of each file, as this link sees it
  canvas,   \* the files whose bytes the canvas has and its elements reference
  ids,      \* the id sets both halves share: resolved, abandoned, available
  fetches,  \* the lookups started, by fetch id: [files, left, step]
  requests, \* running calls of request(): [own, joinable, claims]
  down,     \* downloads: retrying, retryQueue, and whether a timer is armed
  up,       \* uploads: uploading, uploadRetrying, timer, lastOfferedFileIds
  verdict,  \* asset-unreadable-verdict.ts
  tab,      \* store alive; connected as an editor; a scene flush scheduled; turns
  seen      \* history: files asked for, opened, and the lookups that ran when
            \* the first undecryptable record appeared

assetVars == <<room, canvas, ids, fetches, requests, down, up, verdict, tab, seen>>

Fresh == [attempts |-> 0, early |-> FALSE]
NoFence == 0
Running == {n \in DOMAIN fetches : fetches[n].step # "done"}
Downloading == UNION {fetches[n].files : n \in Running}
Settled(f) == f \in ids.resolved \union ids.abandoned
Early(retry) == {f \in File : retry[f].early}

(* Some of the bounded lookups and turns may be over when a run begins.     *)
Init ==
  /\ \E k \in 0..MaxFetches :
       fetches = [n \in 1..k |-> [files |-> {}, left |-> {}, step |-> "done"]]
  /\ \E k \in 0..MaxTurns :
       tab = [alive |-> TRUE, linked |-> TRUE, flush |-> FALSE, turns |-> k]
  /\ room \in [File -> {"absent", "readable", "foreign", "damaged"}]
  /\ canvas = {} /\ requests = {}
  /\ ids = [resolved |-> {}, abandoned |-> {}, available |-> {}]
  /\ down = [retry |-> [f \in File |-> Fresh], queue |-> {}, timer |-> FALSE]
  /\ up = [busy |-> {}, retry |-> [f \in File |-> Fresh], timer |-> FALSE, offered |-> {}]
  /\ verdict = [fence |-> NoFence, remaining |-> 0, opened |-> FALSE, reported |-> FALSE]
  /\ seen = [asked |-> {}, opened |-> {}, cohort |-> {}]

Turn == tab.alive /\ tab.turns < MaxTurns
-----------------------------------------------------------------------------
(* Downloads                                                                *)

(* deferRetry for every file of S: past the chain the deadline stays and    *)
(* nothing is queued.                                                       *)
Defer(d, S) ==
  LET tries(f) == d.retry[f].attempts + 1 IN
  [d EXCEPT !.retry = [f \in File |-> IF f \notin S THEN @[f]
                         ELSE [attempts |-> IF tries(f) > MaxDownloads
                                            THEN MaxDownloads ELSE tries(f),
                               early |-> TRUE]],
            !.queue = @ \union {f \in S : tries(f) < MaxDownloads}]

(* forget                                                                   *)
Forget(d, f) == [d EXCEPT !.retry[f] = Fresh, !.queue = @ \ {f}]

\* Mutation: an id that another request is fetching is dropped.
JoinableNone(S) == {}

(* The ids of a request that a lookup already under way was started for.    *)
Joinable(S) == {f \in S : ~Settled(f)} \intersect Downloading

(* What a request fetches itself; an id that is merely early stays queued.  *)
Wanted(S, d) == {f \in S : ~Settled(f) /\ ~d.retry[f].early} \ Downloading
Requeued(S, d) == {f \in S : /\ ~Settled(f) /\ f \notin Downloading /\ d.retry[f].early
                             /\ d.retry[f].attempts < MaxDownloads}

(* armRetryTimer, in the finally of every request.                          *)
Arm(d) == [d EXCEPT !.timer = d.queue # {}]

(* request(S), in place of the requests `others`: it starts a lookup, waits *)
(* for one under way, or ends at once.                                      *)
Request(S, d, others) ==
  LET e == [d EXCEPT !.queue = @ \union Requeued(S, d)]
      own == Wanted(S, d)
      joins == Joinable(S) IN
  /\ own # {} => Len(fetches) < MaxFetches
  /\ fetches' = IF own = {} THEN fetches
                ELSE Append(fetches, [files |-> own, left |-> {}, step |-> "lookup"])
  /\ IF own \union joins = {} THEN requests' = others /\ down' = Arm(e)
     ELSE /\ requests' = others \union
               {[own |-> IF own = {} THEN 0 ELSE Len(fetches) + 1, joinable |-> joins,
                 claims |-> IF own # {} THEN {}
                            ELSE {n \in Running : fetches[n].files \cap joins # {}}]}
          /\ down' = e

(* requestMissingAssets: remote elements name the files of S, and the       *)
(* canvas lacks them.                                                       *)
Asked(S) ==
  /\ tab.alive /\ tab.linked /\ S # {} /\ S \cap canvas = {}
  /\ Request(S, down, requests)
  /\ seen' = [seen EXCEPT !.asked = @ \union S]
  /\ UNCHANGED <<room, canvas, ids, up, verdict, tab>>

(* The timer hands the ids that are due to a request of its own.            *)
RetryTimerFires ==
  LET due == down.queue \ Early(down.retry) IN
  /\ tab.alive /\ down.timer /\ (due # {} \/ down.queue = {})
  /\ Request(due, [down EXCEPT !.timer = FALSE, !.queue = @ \ due], requests)
  /\ UNCHANGED <<room, canvas, ids, up, verdict, tab, seen>>

(* The lookup fails, answers for another generation, or names what the room *)
(* has; the records of the rest are then downloaded.                        *)
LookupAnswers(n) ==
  LET S == fetches[n].files
      present == {f \in S : room[f] # "absent"} IN
  /\ tab.alive /\ fetches[n].step = "lookup"
  /\ \/ /\ down' = Defer(down, S)
        /\ fetches' = [fetches EXCEPT ![n].step = "opening"]
        /\ UNCHANGED ids
     \/ /\ ids' = [ids EXCEPT !.abandoned = @ \union S]
        /\ fetches' = [fetches EXCEPT ![n].step = "opening"]
        /\ UNCHANGED down
     \/ /\ down' = Defer(down, S \ present)
        /\ fetches' = [fetches EXCEPT ![n].step = "opening", ![n].left = present]
        /\ ids' = [ids EXCEPT !.available = @ \union present]
  /\ UNCHANGED <<room, canvas, requests, up, verdict, tab, seen>>

\* Mutation: the evidence waits for the lookup that found it only.
NoteUndecryptableAlone ==
  IF verdict.fence # NoFence \/ verdict.opened \/ verdict.reported THEN verdict
  ELSE [verdict EXCEPT !.fence = Len(fetches), !.remaining = 1]

(* noteUndecryptableAsset: the evidence is fenced to the lookups under way. *)
NoteUndecryptable ==
  IF verdict.fence # NoFence \/ verdict.opened \/ verdict.reported THEN verdict
  ELSE [verdict EXCEPT !.fence = Len(fetches), !.remaining = Cardinality(Running)]

(* openRecord and what follows its outcome.                                 *)
Opened(n, f) ==
  /\ tab.alive /\ f \in fetches[n].left
  /\ fetches' = [fetches EXCEPT ![n].left = @ \ {f}]
  /\ \/ /\ down' = Defer(down, {f})               \* the download failed
        /\ UNCHANGED <<canvas, ids, verdict, seen>>
     \/ /\ room[f] = "readable"
        /\ verdict' = [verdict EXCEPT !.opened = TRUE]
        /\ ids' = [ids EXCEPT !.resolved = @ \union {f}]
        /\ down' = Forget(down, f)
        /\ canvas' = IF tab.linked THEN canvas \union {f} ELSE canvas
        /\ seen' = [seen EXCEPT !.opened = @ \union {f}]
     \/ /\ room[f] = "foreign"
        /\ verdict' = NoteUndecryptable
        /\ ids' = [ids EXCEPT !.abandoned = @ \union {f}]
        /\ down' = Forget(down, f)
        /\ seen' = [seen EXCEPT !.cohort = IF @ = {} THEN Running ELSE @]
        /\ UNCHANGED canvas
     \/ /\ room[f] = "damaged"                     \* opens, or is cut short
        /\ \/ verdict' = [verdict EXCEPT !.opened = TRUE]
              /\ seen' = [seen EXCEPT !.opened = @ \union {f}]
           \/ UNCHANGED <<verdict, seen>>
        /\ ids' = [ids EXCEPT !.abandoned = @ \union {f}]
        /\ down' = Forget(down, f)
        /\ UNCHANGED canvas
  /\ UNCHANGED <<room, requests, up, tab>>

(* fetchBatch's finally: the claims are released and settleFetch judges.    *)
FetchSettles(n) ==
  LET counted == n <= verdict.fence
      left == verdict.remaining - (IF counted THEN 1 ELSE 0)
      speaks == verdict.fence # NoFence /\ left = 0 /\ ~verdict.opened IN
  /\ tab.alive /\ fetches[n].step = "opening" /\ fetches[n].left = {}
  /\ fetches' = [fetches EXCEPT ![n] = [@ EXCEPT !.step = "done", !.files = {}]]
  /\ verdict' = [verdict EXCEPT !.remaining = IF counted THEN left ELSE @,
                                !.reported = @ \/ speaks]
  /\ UNCHANGED <<room, canvas, ids, requests, down, up, tab, seen>>

(* A request whose own lookup is done waits for the ids it joined, asks     *)
(* again for those that were not delivered, and ends.                       *)
RequestGoesOn(q) ==
  /\ tab.alive /\ q \in requests /\ q.own \notin Running
  /\ q.claims \intersect Running = {}
  /\ LET waits == {n \in Running : fetches[n].files \intersect q.joinable # {}}
         rest == {f \in q.joinable : ~Settled(f)} \ Downloading IN
     IF q.own # 0 /\ waits # {}
     THEN /\ requests' = (requests \ {q}) \union {[q EXCEPT !.own = 0, !.claims = waits]}
          /\ UNCHANGED <<fetches, down>>
     ELSE Request(rest, down, requests \ {q})
  /\ UNCHANGED <<room, canvas, ids, up, verdict, tab, seen>>

-----------------------------------------------------------------------------
(* Uploads                                                                  *)

(* publishLocalAssets: what is offered, and the offer that is remembered.   *)
Latch(force) ==
  [offer |-> IF force \/ up.offered # canvas THEN canvas ELSE {}, offered |-> canvas]

(* publish(files): what the room has, what is given up, what is under way   *)
(* and what is early are skipped; what is early is owed a timer.            *)
Publish(u, force) ==
  LET l == Latch(force)
      open == l.offer \ (ids.available \union ids.abandoned \union u.busy) IN
  [u EXCEPT !.offered = l.offered,
            !.busy = @ \union (open \ Early(u.retry)),
            !.timer = @ \/ open \intersect Early(u.retry) # {}]

(* A scheduled flush while connected as an editor.                          *)
Flush ==
  /\ tab.alive /\ tab.flush
  /\ tab' = [tab EXCEPT !.flush = FALSE]
  /\ up' = IF tab.linked THEN Publish(up, FALSE) ELSE up
  /\ UNCHANGED <<room, canvas, ids, fetches, requests, down, verdict, seen>>

(* onPublishRetryDue: the canvas offers its files again, if it may.         *)
PublishTimerFires ==
  /\ tab.alive /\ up.timer
  /\ LET u == [up EXCEPT !.timer = FALSE] IN
     up' = IF tab.linked THEN Publish(u, TRUE) ELSE u
  /\ UNCHANGED <<room, canvas, ids, fetches, requests, down, verdict, tab, seen>>

(* publishOne                                                               *)
UploadEnds(f) ==
  LET tries == up.retry[f].attempts + 1
      free == [up EXCEPT !.busy = @ \ {f}] IN
  /\ tab.alive /\ f \in up.busy
  /\ \/ /\ ids' = [ids EXCEPT !.available = @ \union {f}, !.resolved = @ \union {f}]
        /\ room' = [room EXCEPT ![f] = IF @ = "absent" THEN "readable" ELSE @]
        /\ up' = [free EXCEPT !.retry[f] = Fresh]
     \/ /\ ids' = [ids EXCEPT !.abandoned = @ \union {f}]   \* it cannot be sealed
        /\ up' = free
        /\ UNCHANGED room
     \/ /\ IF tries >= MaxUploads
           THEN /\ ids' = [ids EXCEPT !.abandoned = @ \union {f}]
                /\ up' = [free EXCEPT !.retry[f] = Fresh]
           ELSE /\ up' = [free EXCEPT !.retry[f] = [attempts |-> tries, early |-> TRUE],
                                      !.timer = TRUE]
                /\ UNCHANGED ids
        /\ UNCHANGED room
  /\ UNCHANGED <<canvas, fetches, requests, down, verdict, tab, seen>>

-----------------------------------------------------------------------------
(* The user, the others, the connection and time                            *)

(* An image is added to the canvas, deleted, or its deletion undone.        *)
UserEdits(f) ==
  /\ Turn
  /\ canvas' = IF f \in canvas THEN canvas \ {f} ELSE canvas \union {f}
  /\ tab' = [tab EXCEPT !.flush = TRUE, !.turns = @ + 1]
  /\ UNCHANGED <<room, ids, fetches, requests, down, up, verdict, seen>>

(* A peer's upload lands.                                                   *)
PeerUploads(f) ==
  /\ Turn /\ room[f] = "absent"
  /\ \E what \in {"readable", "foreign"} : room' = [room EXCEPT ![f] = what]
  /\ tab' = [tab EXCEPT !.turns = @ + 1]
  /\ UNCHANGED <<canvas, ids, fetches, requests, down, up, verdict, seen>>

(* The connection is lost, or a join's baseline resolves: the offer is      *)
(* forgotten, and the rejoin publish makes a new one.                       *)
LinkChanges ==
  /\ Turn
  /\ tab' = [tab EXCEPT !.linked = ~@, !.turns = @ + 1]
  /\ LET u == [up EXCEPT !.offered = {}] IN
     up' = IF tab.linked THEN u ELSE Publish(u, FALSE)
  /\ UNCHANGED <<room, canvas, ids, fetches, requests, down, verdict, seen>>

(* Deadlines pass.                                                          *)
DeadlinePasses(f) ==
  /\ tab.alive
  /\ \/ down.retry[f].early /\ down' = [down EXCEPT !.retry[f].early = FALSE] /\ UNCHANGED up
     \/ up.retry[f].early /\ up' = [up EXCEPT !.retry[f].early = FALSE] /\ UNCHANGED down
  /\ UNCHANGED <<room, canvas, ids, fetches, requests, verdict, tab, seen>>

(* The store is destroyed: transfers are aborted, timers cancelled.         *)
Destroy ==
  /\ tab.alive
  /\ tab' = [tab EXCEPT !.alive = FALSE, !.flush = FALSE]
  /\ fetches' = <<>> /\ requests' = {}
  /\ down' = [retry |-> [f \in File |-> Fresh], queue |-> {}, timer |-> FALSE]
  /\ up' = [busy |-> {}, retry |-> [f \in File |-> Fresh], timer |-> FALSE, offered |-> {}]
  /\ ids' = [resolved |-> {}, abandoned |-> {}, available |-> {}]
  /\ seen' = [asked |-> {}, opened |-> {}, cohort |-> {}]
  /\ UNCHANGED <<room, canvas, verdict>>

Next ==
  \/ \E S \in SUBSET File : Asked(S)
  \/ RetryTimerFires \/ PublishTimerFires \/ Flush \/ LinkChanges \/ Destroy
  \/ \E n \in DOMAIN fetches : \/ LookupAnswers(n) \/ FetchSettles(n)
                               \/ \E f \in File : Opened(n, f)
  \/ \E q \in requests : RequestGoesOn(q)
  \/ \E f \in File : UploadEnds(f) \/ UserEdits(f) \/ PeerUploads(f) \/ DeadlinePasses(f)

Spec == Init /\ [][Next]_assetVars
-----------------------------------------------------------------------------
(* Properties                                                               *)

\* Type correctness.
TypeOK ==
  /\ room \in [File -> {"absent", "readable", "foreign", "damaged"}]
  /\ canvas \subseteq File
  /\ ids \in [resolved : SUBSET File, abandoned : SUBSET File, available : SUBSET File]
  /\ fetches \in Seq([files : SUBSET File, left : SUBSET File,
                      step : {"lookup", "opening", "done"}])
  /\ requests \subseteq [own : 0..MaxFetches, joinable : SUBSET File,
                         claims : SUBSET (1..MaxFetches)]
  /\ down \in [retry : [File -> [attempts : 0..MaxDownloads, early : BOOLEAN]],
               queue : SUBSET File, timer : BOOLEAN]
  /\ up \in [busy : SUBSET File, timer : BOOLEAN, offered : SUBSET File,
             retry : [File -> [attempts : 0..MaxUploads, early : BOOLEAN]]]
  /\ verdict \in [fence : 0..MaxFetches, remaining : 0..MaxFetches,
                  opened : BOOLEAN, reported : BOOLEAN]
  /\ tab \in [alive : BOOLEAN, linked : BOOLEAN, flush : BOOLEAN, turns : 0..MaxTurns]

\* A file that was asked for, and is neither there nor given up, is being
\* fetched, is waited for by a request that will ask again, or is queued for a
\* timer that is armed or will be when the running request ends - unless its
\* chain of scheduled retries is spent (asset-download.ts:202).
DownloadPending(f) ==
  \/ f \in Downloading \/ (\E q \in requests : f \in q.joinable)
  \/ f \in down.queue /\ (down.timer \/ requests # {})
  \/ down.retry[f].attempts = MaxDownloads

\* An image the canvas shows and the room lacks is being uploaded, has a retry
\* timer, or will be offered by the flush or by the next join.
UploadPending(f) ==
  f \in up.busy \/ up.timer \/ tab.flush \/ ~tab.linked

\* No image is stranded: each is settled, or something that is under way will
\* come back to it, whatever requests, offers, timers, deletions and
\* reconnections overlap.
NothingStranded ==
  tab.alive => /\ \A f \in seen.asked : Settled(f) \/ DownloadPending(f)
               /\ \A f \in canvas : Settled(f) \/ f \in ids.available \/ UploadPending(f)

\* The user is told that this link reads none of the room's images only if it
\* never opened one, and only when every lookup that was running when the first
\* undecryptable record appeared has ended (asset-unreadable-verdict.ts).
ReportsWithProof ==
  verdict'.reported /\ ~verdict.reported =>
    /\ seen'.opened = {} /\ seen.cohort # {}
    /\ \A n \in seen.cohort : fetches'[n].step = "done"
UnreadableIsProved == [][ReportsWithProof]_assetVars

-----------------------------------------------------------------------------
(* The invariant the proof of ReportsWithProof goes by (RoomKeys_proofs).   *)

Fetch == [files : SUBSET File, left : SUBSET File, step : {"lookup", "opening", "done"}]
Shapes ==
  /\ fetches \in Seq(Fetch)
  /\ requests \subseteq [own : Nat, joinable : SUBSET File, claims : SUBSET Nat]
  /\ down \in [retry : [File -> [attempts : 0..MaxDownloads, early : BOOLEAN]],
               queue : SUBSET File, timer : BOOLEAN]
  /\ verdict \in [fence : Nat, remaining : Nat, opened : BOOLEAN, reported : BOOLEAN]
  /\ tab \in [alive : BOOLEAN, linked : BOOLEAN, flush : BOOLEAN, turns : Nat]
  /\ seen \in [asked : SUBSET File, opened : SUBSET File, cohort : SUBSET Nat]

\* The lookups the evidence waits for: those of the fence that are running.
Fenced == {n \in Running : n <= verdict.fence}

\* What remains is counted right, and the fence is drawn with the cohort: unless a record
\* was opened before, after which there is no fence.
VerdictInv ==
  /\ \A n \in DOMAIN fetches : fetches[n].left # {} => fetches[n].step = "opening"
  /\ ~verdict.opened => seen.opened = {}
  /\ verdict.reported => verdict.fence # NoFence
  /\ IF verdict.fence = NoFence THEN verdict.opened \/ seen.cohort = {}
     ELSE /\ verdict.fence <= Len(fetches) /\ verdict.remaining = Cardinality(Fenced)
          /\ seen.cohort # {} /\ \A n \in seen.cohort : n \in 1..verdict.fence

AssetInv == Shapes /\ (tab.alive => VerdictInv)
\* What is assumed of the bounds.
AssetBounds == MaxDownloads \in Nat /\ MaxFetches \in Nat /\ MaxTurns \in Nat
=============================================================================
