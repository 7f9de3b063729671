-------------------------- MODULE SnapshotCadence --------------------------
(***************************************************************************)
(* The durable snapshot of one room: the conditional write of the backend  *)
(* (server/collab/snapshots.ts, api/routers/collaboration-snapshot.ts) and *)
(* the sessions that read and write it (lib/collab/session/                *)
(* snapshot-cadence.ts, join-baseline.ts, snapshot-store.ts).              *)
(*                                                                         *)
(* A scene is the set of edits it has incorporated: reconciling two scenes *)
(* is their union, since the newer version of an element stands for the    *)
(* older.  Each "await" of the code splits an operation in two steps.  A   *)
(* request that fails for its sender may still reach the backend later.    *)
(* A session that crashes, is ended for good, loses the canvas to another  *)
(* scene or leaves without a flush is one that takes no further step; so   *)
(* is one that is offline, except that it may reconnect.                   *)
(***************************************************************************)
EXTENDS Naturals, FiniteSets

CONSTANTS
    Sessions,       \* session objects: one per tab and stay in the room
    Keys,           \* room keys in circulation (one, unless a link is wrong)
    Edits,          \* changes somebody makes to the scene
    Null,           \* no row, no digest
    MaxRevision,    \* bound on the revisions of a row
    MaxGeneration,  \* bound on the generations of the room
    MaxMishaps      \* bound on resets, reconnects, slow and failed requests,
                    \* all together

ASSUME BoundAssumption ==
    MaxRevision \in Nat \ {0} /\ MaxGeneration \in Nat \ {0} /\ MaxMishaps \in Nat

VARIABLES
    generation,     \* the room's authGeneration
    rows,           \* [generation -> row or Null]
    requests,       \* put requests the backend may still process
    phase,          \* [session -> idle, joined, left, terminated]
    authGeneration, \* [session -> generation its key is derived for]
    roomKey,        \* [session -> key of its link]
    canvas,         \* [session -> edits on its canvas]
    baselineKnown,  \* [session -> snapshotBaselineKnown]
    revision,       \* [session -> snapshotRevision]
    lastDigest,     \* [session -> lastSnapshotDigest, as the scene it is of]
    conflicted,     \* [session -> lastSnapshotWriteConflicted]
    cadence,        \* [session -> the cadence write in progress]
    flush,          \* [session -> the leave flush in progress]
    load,           \* [session -> the load in progress, or Null]
    retired,        \* history: the highest revision reset in this generation
    mishaps         \* how many of MaxMishaps have happened

sessionVars == <<phase, authGeneration, roomKey, canvas>>
knowledge == <<baselineKnown, revision, lastDigest, conflicted>>
backend == <<generation, rows, retired>>
vars == <<backend, requests, sessionVars, knowledge, cadence, flush, load, mishaps>>

-----------------------------------------------------------------------------
(* Helpers *)

NoRevision == 0     \* SNAPSHOT_NO_REVISION

\* A step that counts against the bound on mishaps.
Mishap == mishaps < MaxMishaps /\ mishaps' = mishaps + 1

RowSet == [revision : 1..MaxRevision, elements : SUBSET Edits, key : Keys,
           sealedGeneration : 1..MaxGeneration, sealedRevision : 1..MaxRevision]

Current == rows[generation]

\* What a request or a load has come back with, if anything.
Pending == [status |-> "pending", revision |-> NoRevision, elements |-> {}]
Answer(status, rev, elems) ==
    [status |-> status, revision |-> rev, elements |-> elems]

AnswerSet == [status : {"pending", "written", "conflict", "failed",
                        "loaded", "empty", "unreadable", "unavailable"},
              revision : 0..MaxRevision, elements : SUBSET Edits]

\* "No row" is not a row, "no load" not an answer, "no digest" not that of a scene.
ASSUME NullAssumption ==
    /\ \A row \in RowSet : row # Null
    /\ \A answer \in AnswerSet : answer # Null
    /\ \A scene \in SUBSET Edits : scene # Null

Idle == [pc |-> "idle", elements |-> {}, expected |-> NoRevision,
         fresh |-> TRUE, answer |-> Pending]

\* The revision the bytes are sealed for: the one a winning write produces.
NextRevision(expected) == IF expected = NoRevision THEN 1 ELSE expected + 1

\* Only the room's key, for this generation and revision, opens the bytes.
Opens(s, row) ==
    /\ row.key = roomKey[s]
    /\ row.sealedGeneration = authGeneration[s]
    /\ row.sealedRevision = row.revision

\* Mutant of LoadAnswer: a baseline that cannot be opened is taken for a blank one.
LoadAnswerBlank(s) ==
    IF Current = Null THEN Answer("empty", NoRevision, {})
    ELSE Answer("loaded", Current.revision, IF Opens(s, Current) THEN Current.elements ELSE {})

\* store.load() for session s, at the moment the backend reads the row.
LoadAnswer(s) ==
    IF Current = Null THEN Answer("empty", NoRevision, {})
    ELSE IF authGeneration[s] = generation /\ Opens(s, Current)
         THEN Answer("loaded", Current.revision, Current.elements)
         ELSE Answer("unreadable", NoRevision, {})

Request(s, kind, elems, expected) ==
    [session |-> s, kind |-> kind, elements |-> elems,
     expected |-> expected, awaited |-> TRUE]

\* The sender gives up on its request; the backend may still get it.
Forsake(s, kind) ==
    {IF q.session = s /\ q.kind = kind THEN [q EXCEPT !.awaited = FALSE] ELSE q
        : q \in requests}

\* snapshotWriteInFlight
WriteInFlight(s) == cadence[s].pc # "idle"

\* Nothing a session knows, has under way or is told matters any more: what it
\* would still do with it is cut off by a check of the epoch or of destroyed.
Forget(s) ==
    /\ baselineKnown' = [baselineKnown EXCEPT ![s] = FALSE]
    /\ revision' = [revision EXCEPT ![s] = NoRevision]
    /\ lastDigest' = [lastDigest EXCEPT ![s] = Null]
    /\ conflicted' = [conflicted EXCEPT ![s] = FALSE]
    /\ load' = [load EXCEPT ![s] = Null]
    /\ cadence' = [cadence EXCEPT ![s] = Idle]

-----------------------------------------------------------------------------
(* The backend *)

Init ==
    /\ generation = 1
    /\ rows = [g \in 1..MaxGeneration |-> Null]
    /\ retired = 0
    /\ requests = {}
    /\ phase = [s \in Sessions |-> "idle"]
    /\ authGeneration = [s \in Sessions |-> 1]
    /\ roomKey \in [Sessions -> Keys]
    /\ canvas = [s \in Sessions |-> {}]
    /\ baselineKnown = [s \in Sessions |-> FALSE]
    /\ revision = [s \in Sessions |-> NoRevision]
    /\ lastDigest = [s \in Sessions |-> Null]
    /\ conflicted = [s \in Sessions |-> FALSE]
    /\ cadence = [s \in Sessions |-> Idle]
    /\ flush = [s \in Sessions |-> Idle]
    /\ load = [s \in Sessions |-> Null]
    /\ mishaps = 0

\* The predicate of the conditional write: insert if absent, or update where
\* the revision is the one expected.
Matches(expected) ==
    IF expected = NoRevision THEN Current = Null
    ELSE Current # Null /\ Current.revision = expected

SealedRow(q) ==
    [revision |-> NextRevision(q.expected), elements |-> q.elements,
     key |-> roomKey[q.session],
     sealedGeneration |-> authGeneration[q.session],
     sealedRevision |-> NextRevision(q.expected)]

\* A write files its row and retires the rows of older generations.
Filed(q) ==
    [g \in 1..MaxGeneration |->
        CASE g = generation -> SealedRow(q)
          [] g < generation -> Null
          [] OTHER -> rows[g]]

\* Mutant of PutAnswer: the generation is not compared.
PutAnswerAnyGeneration(q) ==
    IF Matches(q.expected) THEN Answer("written", NextRevision(q.expected), {})
    ELSE Answer("conflict", IF Current = Null THEN NoRevision ELSE Current.revision, {})

\* put: a request sealed for a generation that has passed is refused.
PutAnswer(q) ==
    IF authGeneration[q.session] # generation THEN Answer("failed", NoRevision, {})
    ELSE IF Matches(q.expected) THEN Answer("written", NextRevision(q.expected), {})
    ELSE Answer("conflict", IF Current = Null THEN NoRevision ELSE Current.revision, {})

\* The put mutation: one transaction under the room's lock.
Put(q) ==
    /\ NextRevision(q.expected) <= MaxRevision
    /\ rows' = IF PutAnswer(q).status = "written" THEN Filed(q) ELSE rows
    /\ requests' = requests \ {q}
    /\ cadence' = IF q.awaited /\ q.kind = "cadence"
                  THEN [cadence EXCEPT ![q.session].answer = PutAnswer(q)]
                  ELSE cadence
    /\ flush' = IF q.awaited /\ q.kind = "flush"
                THEN [flush EXCEPT ![q.session].answer = PutAnswer(q)]
                ELSE flush
    /\ UNCHANGED <<generation, retired, sessionVars, knowledge, load, mishaps>>

\* The owner deletes the baseline of the current generation.
Reset ==
    /\ Mishap
    /\ Current # Null
    /\ retired' = IF Current.revision > retired THEN Current.revision ELSE retired
    /\ rows' = [rows EXCEPT ![generation] = Null]
    /\ UNCHANGED <<generation, requests, sessionVars, knowledge, cadence, flush, load>>

\* The owner rotates the generation: the new one has no baseline yet.
RotateGeneration ==
    /\ generation < MaxGeneration
    /\ generation' = generation + 1
    /\ retired' = 0
    /\ UNCHANGED <<rows, requests, sessionVars, knowledge, cadence, flush, load, mishaps>>

-----------------------------------------------------------------------------
(* The session: connecting, editing, ending *)

\* Connected for the first time: the baseline is asked for.
Join(s) ==
    /\ phase[s] = "idle"
    /\ phase' = [phase EXCEPT ![s] = "joined"]
    /\ authGeneration' = [authGeneration EXCEPT ![s] = generation]
    /\ load' = [load EXCEPT ![s] = Pending]
    /\ UNCHANGED <<backend, requests, roomKey, canvas, knowledge, cadence, flush, mishaps>>

\* The socket was lost and is there again: nothing the previous connection
\* learnt is kept, and what it still has under way is of an earlier epoch.  The
\* generation was compared before the socket opened, so a rotation may have come
\* in between.
Reconnect(s) ==
    /\ Mishap
    /\ phase[s] = "joined"
    /\ baselineKnown' = [baselineKnown EXCEPT ![s] = FALSE]
    /\ revision' = [revision EXCEPT ![s] = NoRevision]
    /\ lastDigest' = [lastDigest EXCEPT ![s] = Null]
    /\ load' = [load EXCEPT ![s] = Pending]
    /\ cadence' = [cadence EXCEPT ![s].fresh = (cadence[s].pc = "idle")]
    /\ UNCHANGED <<backend, requests, sessionVars, conflicted, flush>>

\* The user draws something nobody has drawn before.
Edit(s, e) ==
    /\ phase[s] = "joined"
    /\ \A t \in Sessions : e \notin canvas[t]
    /\ canvas' = [canvas EXCEPT ![s] = @ \cup {e}]
    /\ UNCHANGED <<backend, requests, phase, authGeneration, roomKey, knowledge,
                   cadence, flush, load, mishaps>>

\* A frame of another session arrives through the relay, however late.
Deliver(s, t, e) ==
    /\ phase[t] = "joined"
    /\ roomKey[s] = roomKey[t]
    /\ authGeneration[s] = authGeneration[t]
    /\ e \in canvas[s] \ canvas[t]
    /\ canvas' = [canvas EXCEPT ![t] = @ \cup {e}]
    /\ UNCHANGED <<backend, requests, phase, authGeneration, roomKey, knowledge,
                   cadence, flush, load, mishaps>>

-----------------------------------------------------------------------------
(* Reading the baseline *)

\* The cadence retries a baseline it does not know.  That a request, here the
\* write that lost a conflict, outlasts the interval of the ticks is a mishap; a
\* load is taken not to.
TickLoad(s) ==
    /\ phase[s] = "joined"
    /\ ~baselineKnown[s]
    /\ load[s] = Null
    /\ load' = [load EXCEPT ![s] = Pending]
    /\ IF WriteInFlight(s) THEN Mishap ELSE UNCHANGED mishaps
    /\ UNCHANGED <<backend, requests, sessionVars, knowledge, cadence, flush>>

\* The backend answers a load, or the request fails.
AnswerLoad(s) ==
    /\ load[s] = Pending
    /\ \/ load' = [load EXCEPT ![s] = LoadAnswer(s)] /\ UNCHANGED mishaps
       \/ /\ Mishap
          /\ load' = [load EXCEPT ![s] = Answer("unavailable", NoRevision, {})]
    /\ UNCHANGED <<backend, requests, sessionVars, knowledge, cadence, flush>>

\* loadDurableBaseline, from the answer on; "rest" says what becomes of the
\* request.  A session that cannot open the baseline is stopped.
Adopt(s, answer, rest) ==
    \/ /\ answer.status = "unreadable"
       /\ phase' = [phase EXCEPT ![s] = "terminated"]
       /\ Forget(s)
       /\ requests' = Forsake(s, "cadence")
       /\ UNCHANGED canvas
    \/ /\ answer.status = "unavailable"
       /\ baselineKnown' = [baselineKnown EXCEPT ![s] = FALSE]
       /\ rest
       /\ UNCHANGED <<phase, requests, canvas, revision, lastDigest, conflicted>>
    \/ /\ answer.status \in {"loaded", "empty"}
       /\ canvas' = [canvas EXCEPT ![s] = @ \cup answer.elements]
       /\ baselineKnown' = [baselineKnown EXCEPT ![s] = TRUE]
       /\ revision' = [revision EXCEPT ![s] = answer.revision]
       /\ rest
       /\ UNCHANGED <<phase, requests, lastDigest, conflicted>>

SettleLoad(s) ==
    /\ load[s] \notin {Null, Pending}
    /\ Adopt(s, load[s],
             load' = [load EXCEPT ![s] = Null] /\ UNCHANGED cadence)
    /\ UNCHANGED <<backend, authGeneration, roomKey, flush, mishaps>>

-----------------------------------------------------------------------------
(* The cadence: writeSnapshot() *)

\* A tick of a session that knows the baseline and takes itself for the elected
\* writer.  Its view of the peers may be old, so any session may.  The scene
\* and the revision are captured, the digest is awaited, and the request is
\* sent.  A session that left or connected again meanwhile drops the write, as
\* one does that finds its digest unchanged: as if there had been no tick.
TickWrite(s) ==
    /\ phase[s] = "joined"
    /\ baselineKnown[s]
    /\ cadence[s].pc = "idle"
    /\ canvas[s] # lastDigest[s]
    /\ cadence' = [cadence EXCEPT ![s] =
            [Idle EXCEPT !.pc = "sent", !.elements = canvas[s], !.expected = revision[s]]]
    /\ requests' = requests \cup {Request(s, "cadence", canvas[s], revision[s])}
    /\ conflicted' = [conflicted EXCEPT ![s] = FALSE]
    /\ UNCHANGED <<backend, sessionVars, baselineKnown, revision, lastDigest, flush,
                   load, mishaps>>

\* What an answer to a put teaches the session; an answer of an earlier epoch
\* teaches it nothing.
LearnWritten(s, rev, digest) ==
    /\ revision' = [revision EXCEPT ![s] = rev]
    /\ lastDigest' = [lastDigest EXCEPT ![s] = digest]
    /\ UNCHANGED <<baselineKnown, conflicted>>

LearnConflict(s, rev) ==
    /\ conflicted' = [conflicted EXCEPT ![s] = TRUE]
    /\ baselineKnown' = [baselineKnown EXCEPT ![s] = FALSE]
    /\ lastDigest' = [lastDigest EXCEPT ![s] = Null]
    /\ revision' = [revision EXCEPT ![s] = rev]

SettleCadence(s) ==
    LET answer == cadence[s].answer IN
    /\ cadence[s].pc = "sent"
    /\ answer # Pending
    /\ CASE cadence[s].fresh /\ answer.status = "written" ->
              /\ LearnWritten(s, answer.revision, cadence[s].elements)
              /\ cadence' = [cadence EXCEPT ![s] = Idle]
         [] cadence[s].fresh /\ answer.status = "conflict" ->
              /\ LearnConflict(s, answer.revision)
              /\ cadence' = [cadence EXCEPT ![s] =
                     IF phase[s] = "left" THEN Idle
                     ELSE [Idle EXCEPT !.pc = "reload"]]
         [] OTHER ->
              /\ cadence' = [cadence EXCEPT ![s] = Idle]
              /\ UNCHANGED knowledge
    /\ UNCHANGED <<backend, requests, sessionVars, flush, load, mishaps>>

\* The winner of a conflict is read back while the write counts as in flight.
AnswerReload(s) ==
    /\ cadence[s].pc = "reload"
    /\ cadence[s].answer = Pending
    /\ \/ cadence' = [cadence EXCEPT ![s].answer = LoadAnswer(s)] /\ UNCHANGED mishaps
       \/ /\ Mishap
          /\ cadence' = [cadence EXCEPT ![s].answer = Answer("unavailable", NoRevision, {})]
    /\ UNCHANGED <<backend, requests, sessionVars, knowledge, flush, load>>

SettleReload(s) ==
    /\ cadence[s].pc = "reload"
    /\ cadence[s].answer # Pending
    /\ IF phase[s] = "left" \/ ~cadence[s].fresh
       THEN /\ cadence' = [cadence EXCEPT ![s] = Idle]
            /\ UNCHANGED <<requests, phase, canvas, knowledge, load>>
       ELSE Adopt(s, cadence[s].answer,
                  cadence' = [cadence EXCEPT ![s] = Idle] /\ UNCHANGED load)
    /\ UNCHANGED <<backend, authGeneration, roomKey, flush, mishaps>>

-----------------------------------------------------------------------------
(* The leave flush: writeSnapshot({ force: true }) in the tick of destroy() *)

Flushing(s) == flush[s].pc \in {"sent", "retry"}
Ended == [Idle EXCEPT !.pc = "done"]

SendFlush(s, pc, elems, expected) ==
    /\ flush' = [flush EXCEPT ![s] =
            [Idle EXCEPT !.pc = pc, !.elements = elems, !.expected = expected]]
    /\ requests' = Forsake(s, "cadence") \cup {Request(s, "flush", elems, expected)}

\* The user leaves.  The scene and the right to write it are settled in this
\* step, the election is not asked, and a cadence write in flight is waited for.
Leave(s) ==
    /\ phase[s] = "joined"
    /\ baselineKnown[s]
    /\ phase' = [phase EXCEPT ![s] = "left"]
    /\ IF WriteInFlight(s)
       THEN /\ flush' = [flush EXCEPT ![s] = [Idle EXCEPT !.pc = "wait",
                    !.elements = canvas[s], !.expected = revision[s]]]
            /\ load' = [load EXCEPT ![s] = Null]
            /\ UNCHANGED <<requests, knowledge, cadence>>
       ELSE SendFlush(s, "sent", canvas[s], revision[s]) /\ Forget(s)
    /\ UNCHANGED <<backend, authGeneration, roomKey, canvas, mishaps>>

\* Mutant of SendAfterWait: the revision known by now is used in any case.
SendAfterWaitAdopting(s) ==
    /\ flush[s].pc = "wait"
    /\ ~WriteInFlight(s)
    /\ SendFlush(s, "sent", flush[s].elements, revision[s])
    /\ Forget(s)
    /\ UNCHANGED <<backend, sessionVars, mishaps>>

\* The write waited for is over.  If it lost a conflict, the revision captured
\* with the scene is used, so that this write loses it too and merges.
SendAfterWait(s) ==
    /\ flush[s].pc = "wait"
    /\ ~WriteInFlight(s)
    /\ SendFlush(s, "sent", flush[s].elements,
                 IF conflicted[s] THEN flush[s].expected ELSE revision[s])
    /\ Forget(s)
    /\ UNCHANGED <<backend, sessionVars, mishaps>>

\* Mutant of SettleFlush: a lost conflict is left to the next tick.
SettleFlushDefers(s) ==
    /\ flush[s].pc = "sent"
    /\ flush[s].answer # Pending
    /\ flush' = [flush EXCEPT ![s] = Ended]
    /\ UNCHANGED <<backend, requests, sessionVars, knowledge, cadence, load, mishaps>>

\* The one retry: the winner is read, merged with the captured scene, and
\* written at the revision it was read at.
SettleFlush(s) ==
    /\ flush[s].pc = "sent"
    /\ flush[s].answer # Pending
    /\ flush' = [flush EXCEPT ![s] =
            IF @.answer.status = "conflict" THEN [@ EXCEPT !.pc = "winner", !.answer = Pending]
            ELSE Ended]
    /\ UNCHANGED <<backend, requests, sessionVars, knowledge, cadence, load, mishaps>>

AnswerWinner(s) ==
    /\ flush[s].pc = "winner"
    /\ flush[s].answer = Pending
    /\ \/ flush' = [flush EXCEPT ![s].answer = LoadAnswer(s)] /\ UNCHANGED mishaps
       \/ /\ Mishap
          /\ flush' = [flush EXCEPT ![s].answer = Answer("unavailable", NoRevision, {})]
    /\ UNCHANGED <<backend, requests, sessionVars, knowledge, cadence, load>>

SettleWinner(s) ==
    LET winner == flush[s].answer IN
    /\ flush[s].pc = "winner"
    /\ winner # Pending
    /\ IF winner.status = "loaded"
       THEN SendFlush(s, "retry", flush[s].elements \cup winner.elements, winner.revision)
       ELSE flush' = [flush EXCEPT ![s] = Ended] /\ UNCHANGED requests
    /\ UNCHANGED <<backend, sessionVars, knowledge, cadence, load, mishaps>>

SettleRetry(s) ==
    /\ flush[s].pc = "retry"
    /\ flush[s].answer # Pending
    /\ flush' = [flush EXCEPT ![s] = Ended]
    /\ UNCHANGED <<backend, requests, sessionVars, knowledge, cadence, load, mishaps>>

\* A put fails for its sender: refused, or lost on the way there or back.
PutFails(s) ==
    /\ Mishap
    /\ \/ /\ cadence[s].pc = "sent" /\ cadence[s].answer = Pending
          /\ cadence' = [cadence EXCEPT ![s].answer = Answer("failed", NoRevision, {})]
          /\ requests' = Forsake(s, "cadence")
          /\ UNCHANGED flush
       \/ /\ Flushing(s) /\ flush[s].answer = Pending
          /\ flush' = [flush EXCEPT ![s].answer = Answer("failed", NoRevision, {})]
          /\ requests' = Forsake(s, "flush")
          /\ UNCHANGED cadence
    /\ UNCHANGED <<backend, sessionVars, knowledge, load>>

-----------------------------------------------------------------------------
Backend == (\E q \in requests : Put(q)) \/ Reset \/ RotateGeneration

User(s) ==
    \/ Join(s) \/ Reconnect(s) \/ Leave(s)
    \/ \E e \in Edits : Edit(s, e) \/ \E t \in Sessions : Deliver(s, t, e)

Session(s) ==
    \/ TickLoad(s) \/ AnswerLoad(s) \/ SettleLoad(s)
    \/ TickWrite(s) \/ SettleCadence(s)
    \/ AnswerReload(s) \/ SettleReload(s)
    \/ SendAfterWait(s) \/ SettleFlush(s) \/ AnswerWinner(s) \/ SettleWinner(s)
    \/ SettleRetry(s) \/ PutFails(s)

Next == Backend \/ \E s \in Sessions : User(s) \/ Session(s)

Spec == Init /\ [][Next]_vars

-----------------------------------------------------------------------------
(* Properties *)

SlotSet(pcs) == [pc : pcs, elements : SUBSET Edits, expected : 0..MaxRevision,
                 fresh : BOOLEAN, answer : AnswerSet]
CadenceSlot == SlotSet({"idle", "sent", "reload"})
FlushSlot == SlotSet({"idle", "wait", "sent", "winner", "retry", "done"})
RequestSet == [session : Sessions, kind : {"cadence", "flush"}, elements : SUBSET Edits,
               expected : 0..MaxRevision, awaited : BOOLEAN]

TypeOK ==
    /\ generation \in 1..MaxGeneration
    /\ rows \in [1..MaxGeneration -> RowSet \cup {Null}]
    /\ retired \in 0..MaxRevision
    /\ requests \subseteq RequestSet
    /\ phase \in [Sessions -> {"idle", "joined", "left", "terminated"}]
    /\ authGeneration \in [Sessions -> 1..MaxGeneration]
    /\ roomKey \in [Sessions -> Keys]
    /\ canvas \in [Sessions -> SUBSET Edits]
    /\ baselineKnown \in [Sessions -> BOOLEAN]
    /\ revision \in [Sessions -> 0..MaxRevision]
    /\ lastDigest \in [Sessions -> (SUBSET Edits) \cup {Null}]
    /\ conflicted \in [Sessions -> BOOLEAN]
    /\ cadence \in [Sessions -> CadenceSlot]
    /\ flush \in [Sessions -> FlushSlot]
    /\ load \in [Sessions -> AnswerSet \cup {Null}]
    /\ mishaps \in 0..MaxMishaps

\* The edits of the stored scene, as far as the room is concerned.
Baseline == IF Current = Null THEN {} ELSE Current.elements

\* The new line has not outgrown the one the owner deleted.
Exposed == retired > 0 /\ (Current = Null \/ Current.revision <= retired)

\* The backend and all its writers, seen as a store of edits: whatever writers
\* do concurrently, fail at and repeat, a stored edit is not lost to a write
\* (snapshot-cadence.ts:35-43, :173-181; snapshots.ts:22-29), apart from
\* the time after a reset in which the revisions repeat.
Store == INSTANCE SnapshotStore WITH baseline <- Baseline, exposed <- Exposed
NothingLost == Store!Spec

\* The same without the exception, as snapshots.ts:26-27 has it: "A writer
\* holding a stale scene cannot overwrite a newer snapshot."
StaleWritersLose ==
    [][generation' = generation /\ Current # Null /\ Current' # Null
        => Baseline \subseteq Baseline']_vars

\* A tick that finds its digest unchanged takes that for a stored scene
\* (snapshot-cadence.ts:189-197): it is one, unless the owner has reset the
\* baseline since.
SkippedIsStored ==
    \A s \in Sessions :
        phase[s] = "joined" /\ lastDigest[s] # Null /\ authGeneration[s] = generation
        /\ retired = 0 => lastDigest[s] \subseteq Baseline

\* Whatever generation a row is filed under, its bytes were sealed for that
\* generation and for the revision it has: a rotation or another writer in
\* between leaves no row that nobody can open (snapshot-store.ts:220-241).
RowsOpen ==
    \A g \in 1..MaxGeneration : rows[g] # Null =>
        /\ rows[g].sealedGeneration = g
        /\ rows[g].sealedRevision = rows[g].revision

\* What lies in the store can be opened, and is what its writers take it to be.
RowsSound == TypeOK /\ RowsOpen /\ SkippedIsStored

\* A flush that ends has stored the scene it captured, whatever write it waited
\* for and whoever won: the excuses are a failed request, a second conflict, a
\* baseline it cannot open, and a reset or a rotation
\* (snapshot-cadence.ts:112-127, :240-277).
Excused(s) ==
    \/ flush[s].answer.status \in {"failed", "unavailable", "unreadable"}
    \/ flush[s].pc = "retry" /\ flush[s].answer.status = "conflict"
    \/ retired > 0
    \/ authGeneration[s] # generation

FlushPersists ==
    [][\A s \in Sessions :
        flush[s].pc # "done" /\ flush'[s].pc = "done" /\ ~Excused(s)
            => flush[s].elements \subseteq Baseline]_vars

\* A link with another key never puts its scene in the place of a baseline
\* (snapshot-cadence.ts:37-43): a baseline is only replaced under the key it is
\* sealed with, apart from the time after a reset.
OneKeyPerLine ==
    [][generation' = generation /\ Current # Null /\ Current' # Null
        /\ ~Exposed => Current'.key = Current.key]_vars
=============================================================================
