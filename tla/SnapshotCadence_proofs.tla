----------------------- MODULE SnapshotCadence_proofs -----------------------
(***************************************************************************)
(* The promises of SnapshotCadence for any number of sessions, keys and    *)
(* edits and any bounds: nothing stored is lost, every row opens, a flush  *)
(* persists what it captured, and a baseline keeps its key.                *)
(***************************************************************************)
EXTENDS SnapshotCadence, TLAPS

USE BoundAssumption

-----------------------------------------------------------------------------
(* The inductive invariant: of the rows, and of each session.              *)

\* A session took its generation from the room, and the room has not come to the
\* rows of later generations yet.
GenerationInv ==
    /\ \A s \in Sessions : authGeneration[s] <= generation
    /\ \A g \in 1..MaxGeneration : g > generation => rows[g] = Null

\* A session that has not joined knows nothing and has nothing under way.
IdleInv(s) ==
    phase[s] = "idle" =>
        /\ ~baselineKnown[s] /\ lastDigest[s] = Null
        /\ cadence[s] = Idle /\ flush[s] = Idle /\ load[s] = Null
        /\ \A q \in requests : q.session # s

\* What an awaited request was sent with is still where its answer goes.
Awaits(slot, q, pcs) ==
    /\ slot.pc \in pcs /\ slot.answer = Pending
    /\ slot.elements = q.elements /\ slot.expected = q.expected
AwaitedInv(s) ==
    \A q \in requests : q.session = s /\ q.awaited =>
        /\ q.kind = "cadence" => Awaits(cadence[s], q, {"sent"})
        /\ q.kind = "flush" => Awaits(flush[s], q, {"sent", "retry"})

\* The canvas has what a write in flight captured; it rests while a flush waits, and
\* a flush under way is the only write of its session.
CaptureInv(s) ==
    /\ cadence[s].pc = "sent" => cadence[s].elements \subseteq canvas[s]
    /\ flush[s].pc # "idle" => phase[s] = "left"
    /\ phase[s] = "left" => load[s] = Null
    /\ flush[s].pc = "wait" => flush[s].elements = canvas[s]
    /\ flush[s].pc \in {"sent", "winner", "retry"} => cadence[s].pc = "idle"

\* The answers a flush gets in each of its phases.
FlushAnswers(s) ==
    LET status == flush[s].answer.status IN
    /\ flush[s].pc \in {"sent", "retry"} => status \in {"pending", "written", "conflict", "failed"}
    /\ flush[s].pc = "winner" =>
         status \in {"pending", "loaded", "empty", "unreadable", "unavailable"}
    /\ status = "pending" => flush[s].answer = Pending

\* Session s has revision rev, and a scene with the edits elems, from the line of rows
\* there is: a write at rev loses no stored edit and keeps the key.  Or rev is none,
\* or of a line that has been reset.
OnLine(s, rev, elems) ==
    \/ rev = NoRevision
    \/ rev <= retired
    \/ /\ Current # Null
       /\ rev <= Current.revision
       /\ Current.key = roomKey[s]
       /\ rev = Current.revision => Current.elements \subseteq elems

\* Whatever a session may write at, now or later, is on line.
Read(answer) == answer.status \in {"loaded", "empty"}
LineInv(s) ==
    authGeneration[s] = generation =>
        /\ baselineKnown[s] => OnLine(s, revision[s], canvas[s])
        /\ flush[s].pc = "wait" =>
             /\ OnLine(s, flush[s].expected, flush[s].elements)
             /\ ~conflicted[s] => OnLine(s, revision[s], flush[s].elements)
        /\ load[s] # Null /\ Read(load[s]) => OnLine(s, load[s].revision, load[s].elements)
        /\ Read(cadence[s].answer) =>
             OnLine(s, cadence[s].answer.revision, cadence[s].answer.elements)
        /\ Read(flush[s].answer) =>
             OnLine(s, flush[s].answer.revision, flush[s].answer.elements)
        /\ cadence[s].answer.status = "written" =>
             OnLine(s, cadence[s].answer.revision, cadence[s].elements)
        /\ \A q \in requests : q.session = s => OnLine(s, q.expected, q.elements)

\* Until a reset, what was stored is stored, and whoever lost, lost against a row.
StoredInv(s) ==
    authGeneration[s] = generation /\ retired = 0 =>
        /\ lastDigest[s] # Null => lastDigest[s] \subseteq Baseline
        /\ cadence[s].answer.status = "written" => cadence[s].elements \subseteq Baseline
        /\ flush[s].answer.status = "written" => flush[s].elements \subseteq Baseline
        /\ flush[s].answer.status = "conflict" \/ flush[s].pc = "winner" => Current # Null
        /\ flush[s].answer.status # "empty"

SessionInv(s) ==
    /\ IdleInv(s) /\ AwaitedInv(s) /\ CaptureInv(s)
    /\ FlushAnswers(s) /\ LineInv(s) /\ StoredInv(s)

IInv ==
    /\ TypeOK /\ RowsOpen /\ GenerationInv
    /\ \A s \in Sessions : SessionInv(s)
-----------------------------------------------------------------------------
(* Type correctness.                                                       *)

USE DEF NoRevision

LEMMA AnswerType ==
    ASSUME NEW status, NEW rev \in 0..MaxRevision, NEW elems \in SUBSET Edits,
           status \in {"pending", "written", "conflict", "failed",
                       "loaded", "empty", "unreadable", "unavailable"}
    PROVE  Answer(status, rev, elems) \in AnswerSet
BY DEF Answer, AnswerSet

LEMMA PendingType == Pending \in AnswerSet
BY DEF Pending, AnswerSet

LEMMA IdleType ==
    \A pcs : "idle" \in pcs => Idle \in SlotSet(pcs)
BY PendingType DEF Idle, SlotSet

\* A slot that is filled anew has the type of its slots.
LEMMA SlotType ==
    ASSUME NEW pcs, NEW pc \in pcs, NEW elems \in SUBSET Edits, NEW exp \in 0..MaxRevision
    PROVE  [Idle EXCEPT !.pc = pc, !.elements = elems, !.expected = exp] \in SlotSet(pcs)
BY PendingType DEF Idle, SlotSet

\* A slot that goes on to another phase keeps the type of its slots.
LEMMA PhaseType ==
    ASSUME NEW pcs, NEW slot \in SlotSet(pcs), NEW pc \in pcs
    PROVE  [slot EXCEPT !.pc = pc] \in SlotSet(pcs)
BY DEF SlotSet

\* A slot whose answer has come keeps its type, and everything else.
LEMMA AnsweredType ==
    ASSUME NEW pcs, NEW slots \in [Sessions -> SlotSet(pcs)], NEW s \in Sessions,
           NEW answer \in AnswerSet
    PROVE  [slots EXCEPT ![s].answer = answer] \in [Sessions -> SlotSet(pcs)]
<1>1. [slots[s] EXCEPT !.answer = answer] \in SlotSet(pcs)
  BY DEF SlotSet
<1>. QED
  BY <1>1

LEMMA SlotsAnswered ==
    ASSUME TypeOK, NEW s \in Sessions, NEW answer \in AnswerSet
    PROVE  /\ [cadence EXCEPT ![s].answer = answer] \in [Sessions -> CadenceSlot]
           /\ [flush EXCEPT ![s].answer = answer] \in [Sessions -> FlushSlot]
BY AnsweredType DEF TypeOK, CadenceSlot, FlushSlot

\* The fields of the slots.
LEMMA SlotFields ==
    ASSUME TypeOK, NEW s \in Sessions
    PROVE  /\ cadence[s] \in CadenceSlot /\ flush[s] \in FlushSlot
           /\ cadence[s].elements \in SUBSET Edits /\ flush[s].elements \in SUBSET Edits
           /\ cadence[s].expected \in 0..MaxRevision /\ flush[s].expected \in 0..MaxRevision
           /\ cadence[s].answer \in AnswerSet /\ flush[s].answer \in AnswerSet
           /\ cadence[s].answer.elements \in SUBSET Edits
           /\ flush[s].answer.elements \in SUBSET Edits
           /\ cadence[s].answer.revision \in 0..MaxRevision
           /\ flush[s].answer.revision \in 0..MaxRevision
<1>1. cadence[s] \in CadenceSlot /\ flush[s] \in FlushSlot
  BY DEF TypeOK
<1>2. ASSUME NEW slot \in CadenceSlot \cup FlushSlot
      PROVE  /\ slot.elements \in SUBSET Edits /\ slot.expected \in 0..MaxRevision
             /\ slot.answer \in AnswerSet
  BY DEF CadenceSlot, FlushSlot, SlotSet
<1>3. ASSUME NEW answer \in AnswerSet
      PROVE  answer.elements \in SUBSET Edits /\ answer.revision \in 0..MaxRevision
  BY DEF AnswerSet
<1>. QED
  BY <1>1, <1>2, <1>3

LEMMA CurrentType ==
    ASSUME TypeOK
    PROVE  /\ Current \in RowSet \cup {Null}
           /\ Current # Null => /\ Current \in RowSet
                               /\ Current.revision \in 1..MaxRevision
                               /\ Current.elements \in SUBSET Edits
           /\ Baseline \in SUBSET Edits
BY DEF TypeOK, Current, RowSet, Baseline

LEMMA LoadAnswerType ==
    ASSUME TypeOK, NEW s \in Sessions
    PROVE  LoadAnswer(s) \in AnswerSet
BY CurrentType, AnswerType DEF LoadAnswer

LEMMA PutAnswerType ==
    ASSUME TypeOK, NEW q \in requests, NextRevision(q.expected) <= MaxRevision
    PROVE  /\ PutAnswer(q) \in AnswerSet
           /\ NextRevision(q.expected) \in 1..MaxRevision
<1>1. q.expected \in 0..MaxRevision /\ q.session \in Sessions
  BY DEF TypeOK, RequestSet
<1>2. NextRevision(q.expected) \in 1..MaxRevision
  BY <1>1 DEF NextRevision
<1>. QED
  BY <1>1, <1>2, CurrentType, AnswerType DEF PutAnswer

LEMMA TypePut ==
    ASSUME TypeOK, NEW q \in requests, Put(q)
    PROVE  TypeOK'
<1>1. q.session \in Sessions /\ q.elements \in SUBSET Edits
  BY DEF TypeOK, RequestSet
<1>2. PutAnswer(q) \in AnswerSet /\ NextRevision(q.expected) \in 1..MaxRevision
  BY PutAnswerType DEF Put
<1>3. SealedRow(q) \in RowSet
  BY <1>1, <1>2 DEF SealedRow, RowSet, TypeOK
<1>4. Filed(q) \in [1..MaxGeneration -> RowSet \cup {Null}]
  BY <1>3 DEF Filed, TypeOK
<1>5. rows' \in [1..MaxGeneration -> RowSet \cup {Null}]
  BY <1>4 DEF Put, TypeOK
<1>6. cadence' \in [Sessions -> CadenceSlot]
  BY <1>1, <1>2, AnsweredType DEF Put, TypeOK, CadenceSlot, FlushSlot
<1>7. flush' \in [Sessions -> FlushSlot]
  BY <1>1, <1>2, AnsweredType DEF Put, TypeOK, CadenceSlot, FlushSlot
<1>. QED
  BY <1>5, <1>6, <1>7 DEF Put, TypeOK, sessionVars, knowledge

\* Forget, on top of what changes the phases and the requests.
LEMMA TypeForget ==
    ASSUME TypeOK, NEW s \in Sessions, Forget(s)
    PROVE  /\ baselineKnown' \in [Sessions -> BOOLEAN]
           /\ revision' \in [Sessions -> 0..MaxRevision]
           /\ lastDigest' \in [Sessions -> (SUBSET Edits) \cup {Null}]
           /\ conflicted' \in [Sessions -> BOOLEAN]
           /\ cadence' \in [Sessions -> CadenceSlot]
           /\ load' \in [Sessions -> AnswerSet \cup {Null}]
<1>1. Idle \in CadenceSlot
  BY IdleType DEF CadenceSlot
<1>. QED
  BY <1>1 DEF TypeOK, Forget

LEMMA ForsakeType ==
    ASSUME TypeOK, NEW s \in Sessions, NEW kind
    PROVE  Forsake(s, kind) \subseteq RequestSet
<1>1. requests \subseteq RequestSet
  BY DEF TypeOK
<1>2. ASSUME NEW q \in RequestSet
      PROVE  [q EXCEPT !.awaited = FALSE] \in RequestSet
  BY DEF RequestSet
<1>. QED
  BY <1>1, <1>2 DEF Forsake

LEMMA RequestType ==
    ASSUME NEW s \in Sessions, NEW kind \in {"cadence", "flush"},
           NEW elems \in SUBSET Edits, NEW exp \in 0..MaxRevision
    PROVE  Request(s, kind, elems, exp) \in RequestSet
BY DEF Request, RequestSet

LEMMA TypeBackend ==
    ASSUME TypeOK, Reset \/ RotateGeneration
    PROVE  TypeOK'
<1>1. CASE Reset
  BY <1>1, CurrentType DEF Reset, Mishap, TypeOK, sessionVars, knowledge
<1>2. CASE RotateGeneration
  BY <1>2 DEF RotateGeneration, TypeOK, sessionVars, knowledge
<1>. QED
  BY <1>1, <1>2

LEMMA TypeUser ==
    ASSUME TypeOK, NEW s \in Sessions,
           \/ Join(s) \/ Reconnect(s)
           \/ \E e \in Edits : Edit(s, e) \/ \E t \in Sessions : Deliver(s, t, e)
    PROVE  TypeOK'
<1>. USE PendingType DEF TypeOK, backend, sessionVars, knowledge
<1>1. CASE Join(s)
  BY <1>1 DEF Join
<1>2. CASE Reconnect(s)
  <2>1. ASSUME NEW slot \in CadenceSlot
        PROVE  [slot EXCEPT !.fresh = (slot.pc = "idle")] \in CadenceSlot
    BY DEF CadenceSlot, SlotSet
  <2>2. cadence' \in [Sessions -> CadenceSlot]
    BY <1>2, <2>1 DEF Reconnect
  <2>3. mishaps' \in 0..MaxMishaps
    BY <1>2 DEF Reconnect, Mishap
  <2>. QED
    BY <1>2, <2>2, <2>3 DEF Reconnect
<1>3. ASSUME NEW e \in Edits, Edit(s, e)
      PROVE  TypeOK'
  BY <1>3 DEF Edit
<1>4. ASSUME NEW e \in Edits, NEW t \in Sessions, Deliver(s, t, e)
      PROVE  TypeOK'
  BY <1>4 DEF Deliver
<1>. QED
  BY <1>1, <1>2, <1>3, <1>4

LEMMA TypeAdopt ==
    ASSUME TypeOK, NEW s \in Sessions, NEW answer \in AnswerSet, NEW rest,
           Adopt(s, answer, rest),
           rest => /\ cadence' \in [Sessions -> CadenceSlot]
                   /\ load' \in [Sessions -> AnswerSet \cup {Null}],
           UNCHANGED <<backend, authGeneration, roomKey, flush, mishaps>>
    PROVE  TypeOK'
<1>. USE DEF Adopt
<1>1. CASE answer.status = "unreadable"
  BY <1>1, TypeForget, ForsakeType DEF TypeOK, backend
<1>2. CASE answer.status = "unavailable"
  BY <1>2 DEF TypeOK, backend
<1>3. CASE answer.status \in {"loaded", "empty"}
  <2>1. answer.elements \in SUBSET Edits /\ answer.revision \in 0..MaxRevision
    BY DEF AnswerSet
  <2>2. canvas[s] \cup answer.elements \in SUBSET Edits
    BY <2>1 DEF TypeOK
  <2>. canvas' \in [Sessions -> SUBSET Edits]
    <3>1. canvas' = [canvas EXCEPT ![s] = canvas[s] \cup answer.elements]
      BY <1>3
    <3>2. canvas \in [Sessions -> SUBSET Edits]
      BY DEF TypeOK
    <3>. QED
      BY <2>2, <3>1, <3>2
  <2>. revision' \in [Sessions -> 0..MaxRevision]
    BY <1>3, <2>1 DEF TypeOK
  <2>. baselineKnown' \in [Sessions -> BOOLEAN]
    BY <1>3 DEF TypeOK
  <2>3. /\ cadence' \in [Sessions -> CadenceSlot]
        /\ load' \in [Sessions -> AnswerSet \cup {Null}]
    BY <1>3
  <2>. QED
    BY <1>3, <2>3 DEF TypeOK, backend
<1>. QED
  BY <1>1, <1>2, <1>3

LEMMA TypeLoad ==
    ASSUME TypeOK, NEW s \in Sessions,
           TickLoad(s) \/ AnswerLoad(s) \/ SettleLoad(s)
    PROVE  TypeOK'
<1>. USE DEF backend, sessionVars, knowledge
<1>1. CASE TickLoad(s)
  BY <1>1, PendingType DEF TickLoad, Mishap, TypeOK
<1>2. CASE AnswerLoad(s)
  <2>1. LoadAnswer(s) \in AnswerSet
    BY LoadAnswerType
  <2>2. Answer("unavailable", NoRevision, {}) \in AnswerSet
    BY AnswerType
  <2>3. load' \in [Sessions -> AnswerSet \cup {Null}]
    BY <1>2, <2>1, <2>2 DEF AnswerLoad, TypeOK
  <2>4. mishaps' \in 0..MaxMishaps
    BY <1>2 DEF AnswerLoad, Mishap, TypeOK
  <2>. QED
    BY <1>2, <2>3, <2>4 DEF AnswerLoad, TypeOK
<1>3. CASE SettleLoad(s)
  <2>. DEFINE rest == load' = [load EXCEPT ![s] = Null] /\ UNCHANGED cadence
  <2>1. load[s] \in AnswerSet
    BY <1>3 DEF SettleLoad, TypeOK
  <2>2. /\ Adopt(s, load[s], rest)
        /\ UNCHANGED <<backend, authGeneration, roomKey, flush, mishaps>>
    BY <1>3 DEF SettleLoad
  <2>3. rest => /\ cadence' \in [Sessions -> CadenceSlot]
                /\ load' \in [Sessions -> AnswerSet \cup {Null}]
    BY DEF TypeOK
  <2>. HIDE DEF rest
  <2>. QED
    BY <2>1, <2>2, <2>3, TypeAdopt
<1>. QED
  BY <1>1, <1>2, <1>3

LEMMA TypeCadence ==
    ASSUME TypeOK, NEW s \in Sessions,
           TickWrite(s) \/ SettleCadence(s) \/ AnswerReload(s) \/ SettleReload(s)
    PROVE  TypeOK'
<1>. USE DEF backend, sessionVars, knowledge
<1>1. CASE TickWrite(s)
  <2>1. canvas[s] \in SUBSET Edits /\ revision[s] \in 0..MaxRevision
    BY DEF TypeOK
  <2>2. [Idle EXCEPT !.pc = "sent", !.elements = canvas[s], !.expected = revision[s]]
          \in CadenceSlot
    BY <2>1, SlotType DEF CadenceSlot
  <2>3. Request(s, "cadence", canvas[s], revision[s]) \in RequestSet
    BY <2>1, RequestType
  <2>4. requests' \subseteq RequestSet /\ cadence' \in [Sessions -> CadenceSlot]
    BY <1>1, <2>2, <2>3 DEF TickWrite, TypeOK
  <2>. QED
    BY <1>1, <2>4 DEF TickWrite, TypeOK
<1>2. CASE SettleCadence(s)
  <2>1. /\ cadence[s].answer.revision \in 0..MaxRevision
        /\ cadence[s].elements \in SUBSET Edits
    BY DEF TypeOK, CadenceSlot, SlotSet, AnswerSet
  <2>2. Idle \in CadenceSlot
    BY IdleType DEF CadenceSlot
  <2>3. [Idle EXCEPT !.pc = "reload"] \in CadenceSlot
    BY IdleType, PhaseType DEF CadenceSlot
  <2>4. cadence' \in [Sessions -> CadenceSlot]
    BY <1>2, <2>2, <2>3 DEF SettleCadence, TypeOK
  <2>5. /\ baselineKnown' \in [Sessions -> BOOLEAN]
        /\ revision' \in [Sessions -> 0..MaxRevision]
        /\ lastDigest' \in [Sessions -> (SUBSET Edits) \cup {Null}]
        /\ conflicted' \in [Sessions -> BOOLEAN]
    BY <1>2, <2>1 DEF SettleCadence, LearnWritten, LearnConflict, TypeOK
  <2>. QED
    BY <1>2, <2>4, <2>5 DEF SettleCadence, TypeOK
<1>3. CASE AnswerReload(s)
  <2>1. LoadAnswer(s) \in AnswerSet /\ Answer("unavailable", NoRevision, {}) \in AnswerSet
    BY LoadAnswerType, AnswerType
  <2>2. cadence' \in [Sessions -> CadenceSlot]
    <3>1. \/ cadence' = [cadence EXCEPT ![s].answer = LoadAnswer(s)]
          \/ cadence' = [cadence EXCEPT ![s].answer = Answer("unavailable", NoRevision, {})]
      BY <1>3 DEF AnswerReload
    <3>2. /\ [cadence EXCEPT ![s].answer = LoadAnswer(s)] \in [Sessions -> CadenceSlot]
          /\ [cadence EXCEPT ![s].answer = Answer("unavailable", NoRevision, {})]
                \in [Sessions -> CadenceSlot]
      BY <2>1, SlotsAnswered
    <3>. QED
      BY <3>1, <3>2
  <2>3. mishaps' \in 0..MaxMishaps
    BY <1>3 DEF AnswerReload, Mishap, TypeOK
  <2>. QED
    BY <1>3, <2>2, <2>3 DEF AnswerReload, TypeOK
<1>4. CASE SettleReload(s)
  <2>. DEFINE rest == cadence' = [cadence EXCEPT ![s] = Idle] /\ UNCHANGED load
  <2>1. cadence[s].answer \in AnswerSet
    BY DEF TypeOK, CadenceSlot, SlotSet
  <2>2. Idle \in CadenceSlot
    BY IdleType DEF CadenceSlot
  <2>3. rest => cadence' \in [Sessions -> CadenceSlot] /\ load' \in [Sessions -> AnswerSet \cup {Null}]
    BY <2>2 DEF TypeOK
  <2>4. UNCHANGED <<backend, authGeneration, roomKey, flush, mishaps>>
    BY <1>4 DEF SettleReload
  <2>5. CASE phase[s] = "left" \/ ~cadence[s].fresh
    <3>1. rest /\ UNCHANGED <<requests, phase, canvas, knowledge>>
      BY <1>4, <2>5 DEF SettleReload
    <3>. QED
      BY <2>3, <2>4, <3>1 DEF TypeOK
  <2>6. CASE ~(phase[s] = "left" \/ ~cadence[s].fresh)
    <3>1. Adopt(s, cadence[s].answer, rest)
      BY <1>4, <2>6 DEF SettleReload
    <3>. HIDE DEF rest
    <3>. QED
      BY <3>1, <2>1, <2>3, <2>4, TypeAdopt
  <2>. QED
    BY <2>5, <2>6
<1>. QED
  BY <1>1, <1>2, <1>3, <1>4

LEMMA TypeSendFlush ==
    ASSUME TypeOK, NEW s \in Sessions, NEW pc \in {"sent", "retry"},
           NEW elems \in SUBSET Edits, NEW exp \in 0..MaxRevision,
           SendFlush(s, pc, elems, exp)
    PROVE  flush' \in [Sessions -> FlushSlot] /\ requests' \subseteq RequestSet
<1>1. [Idle EXCEPT !.pc = pc, !.elements = elems, !.expected = exp] \in FlushSlot
  BY SlotType DEF FlushSlot
<1>2. Request(s, "flush", elems, exp) \in RequestSet
  BY RequestType
<1>. QED
  BY <1>1, <1>2, ForsakeType DEF SendFlush, TypeOK

LEMMA TypeFlush ==
    ASSUME TypeOK, NEW s \in Sessions,
           \/ Leave(s) \/ SendAfterWait(s) \/ SettleFlush(s) \/ AnswerWinner(s)
           \/ SettleWinner(s) \/ SettleRetry(s) \/ PutFails(s)
    PROVE  TypeOK'
<1>. USE DEF backend, sessionVars, knowledge
<1>1. canvas[s] \in SUBSET Edits /\ revision[s] \in 0..MaxRevision
  BY DEF TypeOK
<1>2. Ended \in FlushSlot
  BY IdleType, PhaseType DEF Ended, FlushSlot
<1>3. CASE Leave(s)
  <2>1. phase' \in [Sessions -> {"idle", "joined", "left", "terminated"}]
    BY <1>3 DEF Leave, TypeOK
  <2>2. CASE WriteInFlight(s)
    <3>1. [Idle EXCEPT !.pc = "wait", !.elements = canvas[s], !.expected = revision[s]] \in FlushSlot
      BY <1>1, SlotType, "wait" \in {"idle", "wait", "sent", "winner", "retry", "done"} DEF FlushSlot
    <3>2. flush' \in [Sessions -> FlushSlot] /\ load' \in [Sessions -> AnswerSet \cup {Null}]
      <4>1. flush \in [Sessions -> FlushSlot] /\ load \in [Sessions -> AnswerSet \cup {Null}]
        BY DEF TypeOK
      <4>2. flush' = [flush EXCEPT ![s] = [Idle EXCEPT !.pc = "wait", !.elements = canvas[s],
                                                       !.expected = revision[s]]]
        BY <1>3, <2>2 DEF Leave
      <4>3. load' = [load EXCEPT ![s] = Null]
        BY <1>3, <2>2 DEF Leave
      <4>4. flush' \in [Sessions -> FlushSlot]
        BY <3>1, <4>1, <4>2
      <4>. QED
        BY <4>1, <4>3, <4>4
    <3>. QED
      BY <1>3, <2>1, <2>2, <3>2 DEF Leave, TypeOK
  <2>3. CASE ~WriteInFlight(s)
    <3>1. SendFlush(s, "sent", canvas[s], revision[s]) /\ Forget(s)
      BY <1>3, <2>3 DEF Leave
    <3>2. flush' \in [Sessions -> FlushSlot] /\ requests' \subseteq RequestSet
      BY <1>1, <3>1, TypeSendFlush
    <3>. QED
      BY <1>3, <2>1, <3>1, <3>2, TypeForget DEF Leave, TypeOK
  <2>. QED
    BY <2>2, <2>3
<1>4. CASE SendAfterWait(s)
  <2>. DEFINE exp == IF conflicted[s] THEN flush[s].expected ELSE revision[s]
  <2>1. exp \in 0..MaxRevision /\ SendFlush(s, "sent", flush[s].elements, exp) /\ Forget(s)
    BY <1>1, <1>4, SlotFields DEF SendAfterWait
  <2>2. flush' \in [Sessions -> FlushSlot] /\ requests' \subseteq RequestSet
    BY <2>1, SlotFields, TypeSendFlush
  <2>. QED
    BY <1>4, <2>1, <2>2, TypeForget DEF SendAfterWait, TypeOK
<1>5. CASE SettleFlush(s)
  <2>1. [flush[s] EXCEPT !.pc = "winner", !.answer = Pending] \in FlushSlot
    BY SlotFields, PendingType DEF FlushSlot, SlotSet
  <2>2. flush' \in [Sessions -> FlushSlot]
    BY <1>2, <1>5, <2>1 DEF SettleFlush, TypeOK
  <2>. QED
    BY <1>5, <2>2 DEF SettleFlush, TypeOK
<1>6. CASE AnswerWinner(s)
  <2>1. LoadAnswer(s) \in AnswerSet /\ Answer("unavailable", NoRevision, {}) \in AnswerSet
    BY LoadAnswerType, AnswerType
  <2>2. flush' \in [Sessions -> FlushSlot]
    <3>1. \/ flush' = [flush EXCEPT ![s].answer = LoadAnswer(s)]
          \/ flush' = [flush EXCEPT ![s].answer = Answer("unavailable", NoRevision, {})]
      BY <1>6 DEF AnswerWinner
    <3>2. /\ [flush EXCEPT ![s].answer = LoadAnswer(s)] \in [Sessions -> FlushSlot]
          /\ [flush EXCEPT ![s].answer = Answer("unavailable", NoRevision, {})]
                \in [Sessions -> FlushSlot]
      BY <2>1, SlotsAnswered
    <3>. QED
      BY <3>1, <3>2
  <2>3. mishaps' \in 0..MaxMishaps
    BY <1>6 DEF AnswerWinner, Mishap, TypeOK
  <2>. QED
    BY <1>6, <2>2, <2>3 DEF AnswerWinner, TypeOK
<1>7. CASE SettleWinner(s)
  <2>1. flush[s].elements \cup flush[s].answer.elements \in SUBSET Edits
    BY SlotFields
  <2>2. flush' \in [Sessions -> FlushSlot] /\ requests' \subseteq RequestSet
    <3>1. CASE flush[s].answer.status = "loaded"
      BY <1>7, <2>1, <3>1, SlotFields, TypeSendFlush DEF SettleWinner
    <3>2. CASE flush[s].answer.status # "loaded"
      BY <1>2, <1>7, <3>2 DEF SettleWinner, TypeOK
    <3>. QED
      BY <3>1, <3>2
  <2>. QED
    BY <1>7, <2>2 DEF SettleWinner, TypeOK
<1>8. CASE SettleRetry(s)
  BY <1>2, <1>8 DEF SettleRetry, TypeOK
<1>9. CASE PutFails(s)
  <2>1. Answer("failed", NoRevision, {}) \in AnswerSet
    BY AnswerType
  <2>2. requests' \subseteq RequestSet
    BY <1>9, ForsakeType DEF PutFails
  <2>3. cadence' \in [Sessions -> CadenceSlot] /\ flush' \in [Sessions -> FlushSlot]
    <3>. DEFINE failed == Answer("failed", NoRevision, {})
    <3>1. /\ [cadence EXCEPT ![s].answer = failed] \in [Sessions -> CadenceSlot]
          /\ [flush EXCEPT ![s].answer = failed] \in [Sessions -> FlushSlot]
      BY <2>1, SlotsAnswered
    <3>2. \/ cadence' = [cadence EXCEPT ![s].answer = failed] /\ UNCHANGED flush
          \/ flush' = [flush EXCEPT ![s].answer = failed] /\ UNCHANGED cadence
      BY <1>9 DEF PutFails
    <3>. HIDE DEF failed
    <3>. QED
      BY <3>1, <3>2 DEF TypeOK
  <2>4. mishaps' \in 0..MaxMishaps
    BY <1>9 DEF PutFails, Mishap, TypeOK
  <2>. QED
    BY <1>9, <2>2, <2>3, <2>4 DEF PutFails, TypeOK
<1>. QED
  BY <1>3, <1>4, <1>5, <1>6, <1>7, <1>8, <1>9

LEMMA TypeInit == Init => TypeOK
<1>1. Idle \in CadenceSlot /\ Idle \in FlushSlot
  BY IdleType DEF CadenceSlot, FlushSlot
<1>. QED
  BY <1>1 DEF Init, TypeOK

LEMMA TypeStep ==
    ASSUME TypeOK, [Next]_vars
    PROVE  TypeOK'
<1>1. CASE UNCHANGED vars
  BY <1>1 DEF TypeOK, vars, backend, sessionVars, knowledge
<1>2. CASE Backend
  BY <1>2, TypePut, TypeBackend DEF Backend
<1>3. ASSUME NEW s \in Sessions, User(s)
      PROVE  TypeOK'
  BY <1>3, TypeUser, TypeFlush DEF User
<1>4. ASSUME NEW s \in Sessions, Session(s)
      PROVE  TypeOK'
  BY <1>4, TypeLoad, TypeCadence, TypeFlush DEF Session
<1>. QED
  BY <1>1, <1>2, <1>3, <1>4 DEF Next

\* Type correctness: rows, requests, answers and what the sessions keep of them stay
\* well formed, for every number of sessions and every bound.
THEOREM TypeCorrect == Spec => []TypeOK
BY TypeInit, TypeStep, PTL DEF Spec

-----------------------------------------------------------------------------
(* The line of rows: what a step of the backend does to it.                *)

\* A scene with more edits is on line where a smaller one is.
LEMMA OnLineMore ==
    ASSUME NEW s, NEW rev, NEW elems, NEW more, OnLine(s, rev, elems), elems \subseteq more
    PROVE  OnLine(s, rev, more)
BY DEF OnLine

LEMMA OnLineFrame ==
    ASSUME UNCHANGED <<backend, roomKey>>
    PROVE  /\ Current' = Current /\ Baseline' = Baseline
           /\ generation' = generation /\ retired' = retired
           /\ \A s, rev, elems : OnLine(s, rev, elems) => OnLine(s, rev, elems)'
BY DEF backend, Current, Baseline, OnLine

\* Whoever reads the baseline is on line with what it reads.
LEMMA LoadOnLine ==
    ASSUME TypeOK, NEW s \in Sessions
    PROVE  /\ LoadAnswer(s).status \in {"loaded", "empty", "unreadable"}
           /\ Read(LoadAnswer(s)) => OnLine(s, LoadAnswer(s).revision, LoadAnswer(s).elements)
           /\ Current # Null => LoadAnswer(s).status # "empty"
BY CurrentType DEF LoadAnswer, Answer, Read, OnLine, Opens

\* What a write that is accepted does.
LEMMA PutWritten ==
    ASSUME IInv, NEW q \in requests, Put(q), PutAnswer(q).status = "written"
    PROVE  /\ authGeneration[q.session] = generation
           /\ Matches(q.expected)
           /\ Current' = SealedRow(q)
           /\ Current' # Null
           /\ Baseline' = q.elements
           /\ Current'.revision = NextRevision(q.expected)
           /\ Current'.key = roomKey[q.session]
           /\ PutAnswer(q).revision = NextRevision(q.expected)
           /\ q.session \in Sessions
           /\ q.expected \in Nat
<1>1. q \in RequestSet /\ generation \in 1..MaxGeneration
  BY DEF IInv, TypeOK
<1>2. q.session \in Sessions /\ q.expected \in Nat /\ q.elements \in SUBSET Edits
  BY <1>1 DEF RequestSet
<1>3. /\ authGeneration[q.session] = generation /\ Matches(q.expected)
      /\ PutAnswer(q).revision = NextRevision(q.expected)
  BY DEF PutAnswer, Answer
<1>4. Current' = SealedRow(q)
  BY <1>1 DEF Put, Filed, Current
<1>5. TypeOK'
  BY TypePut DEF IInv
<1>6. SealedRow(q) \in RowSet
  BY <1>1, <1>2, PutAnswerType DEF SealedRow, RowSet, TypeOK, IInv, Put
<1>7. Current' # Null
  BY <1>4, <1>6, NullAssumption
<1>. QED
  BY <1>2, <1>3, <1>4, <1>7 DEF SealedRow, Baseline

\* One that is not accepted changes nothing in the store.
LEMMA PutRefused ==
    ASSUME NEW q, Put(q), PutAnswer(q).status # "written"
    PROVE  UNCHANGED <<backend, roomKey>>
BY DEF Put, backend, sessionVars

\* A writer that replaces a row has incorporated it, unless its line was reset.
LEMMA WriterOnLine ==
    ASSUME IInv, NEW q \in requests, Put(q), PutAnswer(q).status = "written", Current # Null
    PROVE  /\ Current.revision = q.expected
           /\ Current.revision \in 1..MaxRevision
           /\ \/ Current.revision <= retired
              \/ Current.key = roomKey[q.session] /\ Current.elements \subseteq q.elements
<1>1. /\ authGeneration[q.session] = generation /\ Matches(q.expected)
      /\ q.session \in Sessions
  BY PutWritten
<1>2. Current.revision \in 1..MaxRevision
  BY CurrentType DEF IInv
<1>3. q.expected = Current.revision /\ q.expected # NoRevision
  BY <1>1, <1>2 DEF Matches
<1>4. OnLine(q.session, q.expected, q.elements)
  BY <1>1 DEF IInv, SessionInv, LineInv
<1>. QED
  BY <1>2, <1>3, <1>4 DEF OnLine

\* A write takes no session off the line: its revision is newer than all others, and
\* its key that of the line it prolongs.
LEMMA OnLinePut ==
    ASSUME IInv, NEW q \in requests, Put(q), NEW s \in Sessions, NEW rev \in Nat, NEW elems,
           OnLine(s, rev, elems)
    PROVE  OnLine(s, rev, elems)'
<1>1. CASE PutAnswer(q).status # "written"
  BY <1>1, PutRefused, OnLineFrame
<1>2. CASE PutAnswer(q).status = "written"
  <2>1. /\ retired' = retired /\ roomKey' = roomKey /\ retired \in Nat
    BY DEF Put, sessionVars, IInv, TypeOK
  <2>2. CASE rev = NoRevision \/ rev <= retired
    BY <2>1, <2>2 DEF OnLine
  <2>3. CASE ~(rev = NoRevision \/ rev <= retired)
    <3>1. Current # Null /\ rev <= Current.revision /\ Current.key = roomKey[s]
      BY <2>3 DEF OnLine
    <3>2. /\ Current.revision = q.expected /\ Current.revision \in 1..MaxRevision
          /\ \/ Current.revision <= retired
             \/ Current.key = roomKey[q.session]
      BY <1>2, <3>1, WriterOnLine
    <3>3. Current'.revision = q.expected + 1
      BY <1>2, <3>2, PutWritten DEF NextRevision
    <3>4. Current.key = roomKey[q.session]
      BY <2>1, <2>3, <3>1, <3>2
    <3>5. Current' # Null /\ Current'.key = roomKey[q.session]
      BY <1>2, PutWritten
    <3>6. rev <= Current'.revision /\ rev # Current'.revision
      BY <3>1, <3>2, <3>3
    <3>. QED
      BY <2>1, <3>1, <3>4, <3>5, <3>6 DEF OnLine
  <2>. QED
    BY <2>2, <2>3
<1>. QED
  BY <1>1, <1>2

\* Apart from resets, what is stored stays stored.
LEMMA BaselineGrows ==
    ASSUME IInv, NEW q \in requests, Put(q), retired = 0
    PROVE  Baseline \subseteq Baseline' /\ (Current # Null => Current' # Null)
<1>1. CASE PutAnswer(q).status # "written"
  BY <1>1, PutRefused, OnLineFrame
<1>2. CASE PutAnswer(q).status = "written" /\ Current # Null
  BY <1>2, PutWritten, WriterOnLine DEF Baseline
<1>3. CASE PutAnswer(q).status = "written" /\ Current = Null
  BY <1>3 DEF Baseline
<1>. QED
  BY <1>1, <1>2, <1>3

-----------------------------------------------------------------------------
(* A step of a session leaves the others, and the rows, alone.             *)

Untouched(t) ==
    /\ phase'[t] = phase[t] /\ authGeneration'[t] = authGeneration[t]
    /\ canvas'[t] = canvas[t]
    /\ baselineKnown'[t] = baselineKnown[t] /\ revision'[t] = revision[t]
    /\ lastDigest'[t] = lastDigest[t] /\ conflicted'[t] = conflicted[t]
    /\ cadence'[t] = cadence[t] /\ flush'[t] = flush[t] /\ load'[t] = load[t]
    /\ \A q \in requests' : q.session = t => q \in requests

LEMMA ForsakeFacts ==
    ASSUME TypeOK, NEW s, NEW kind, NEW r \in Forsake(s, kind)
    PROVE  /\ r.session # s => r \in requests
           /\ \E q \in requests :
                q.session = r.session /\ q.elements = r.elements /\ q.expected = r.expected
           /\ r.awaited => r \in requests /\ ~(r.session = s /\ r.kind = kind)
<1>1. PICK q \in requests :
        r = IF q.session = s /\ q.kind = kind THEN [q EXCEPT !.awaited = FALSE] ELSE q
  BY DEF Forsake
<1>2. q \in RequestSet
  BY DEF TypeOK
<1>3. CASE q.session = s /\ q.kind = kind
  <2>1. /\ r.session = q.session /\ r.elements = q.elements /\ r.expected = q.expected
        /\ r.awaited = FALSE
    BY <1>1, <1>2, <1>3 DEF RequestSet
  <2>. QED
    BY <2>1, <1>3
<1>4. CASE ~(q.session = s /\ q.kind = kind)
  BY <1>1, <1>4
<1>. QED
  BY <1>3, <1>4

LEMMA UntouchedOthers ==
    ASSUME TypeOK, NEW s \in Sessions, NEW t \in Sessions \ {s}, User(s) \/ Session(s),
           \A e \in Edits : ~Deliver(s, t, e)
    PROVE  Untouched(t)
<1>. USE DEF sessionVars, knowledge, TypeOK, Untouched
<1>0. \A q : q \in Forsake(s, "cadence") \/ q \in Forsake(s, "flush")
        => (q.session = t => q \in requests)
  BY ForsakeFacts
<1>. HIDE DEF Untouched
<1>1. CASE Join(s)
  BY <1>1 DEF Join, Untouched
<1>2. CASE Reconnect(s)
  BY <1>2 DEF Reconnect, Untouched
<1>3. ASSUME NEW e \in Edits, Edit(s, e)
      PROVE  Untouched(t)
  BY <1>3 DEF Edit, Untouched
<1>4. ASSUME NEW e \in Edits, NEW u \in Sessions, Deliver(s, u, e)
      PROVE  Untouched(t)
  BY <1>4 DEF Deliver, Untouched
<1>5. CASE TickLoad(s) \/ AnswerLoad(s)
  BY <1>5 DEF TickLoad, AnswerLoad, Untouched
<1>6. ASSUME NEW answer, NEW rest, Adopt(s, answer, rest),
             rest => \A u \in Sessions \ {s} : cadence'[u] = cadence[u] /\ load'[u] = load[u],
             UNCHANGED <<backend, authGeneration, roomKey, flush, mishaps>>
      PROVE  Untouched(t)
  <2>1. CASE answer.status = "unreadable" /\ Forget(s)
    BY <1>0, <1>6, <2>1 DEF Adopt, Forget, Untouched
  <2>2. CASE answer.status # "unreadable"
    BY <1>6, <2>2 DEF Adopt, Untouched
  <2>. QED
    BY <1>6, <2>1, <2>2 DEF Adopt
<1>7. CASE SettleLoad(s)
  <2>. DEFINE rest == load' = [load EXCEPT ![s] = Null] /\ UNCHANGED cadence
  <2>1. Adopt(s, load[s], rest) /\ UNCHANGED <<backend, authGeneration, roomKey, flush, mishaps>>
    BY <1>7 DEF SettleLoad
  <2>2. rest => \A u \in Sessions \ {s} : cadence'[u] = cadence[u] /\ load'[u] = load[u]
    OBVIOUS
  <2>. HIDE DEF rest
  <2>. QED
    BY <1>6, <2>1, <2>2
<1>8. CASE TickWrite(s)
  BY <1>8 DEF TickWrite, Request, Untouched
<1>9. CASE SettleCadence(s)
  BY <1>9 DEF SettleCadence, LearnWritten, LearnConflict, Untouched
<1>10. CASE AnswerReload(s)
  BY <1>10 DEF AnswerReload, Untouched
<1>11. CASE SettleReload(s)
  <2>. DEFINE rest == cadence' = [cadence EXCEPT ![s] = Idle] /\ UNCHANGED load
  <2>1. CASE phase[s] = "left" \/ ~cadence[s].fresh
    BY <1>11, <2>1 DEF SettleReload, Untouched
  <2>2. CASE ~(phase[s] = "left" \/ ~cadence[s].fresh)
    <3>1. Adopt(s, cadence[s].answer, rest) /\ UNCHANGED <<backend, authGeneration, roomKey, flush, mishaps>>
      BY <1>11, <2>2 DEF SettleReload
    <3>2. rest => \A u \in Sessions \ {s} : cadence'[u] = cadence[u] /\ load'[u] = load[u]
      OBVIOUS
    <3>. HIDE DEF rest
    <3>. QED
      BY <1>6, <3>1, <3>2
  <2>. QED
    BY <2>1, <2>2
<1>12. ASSUME NEW pc, NEW elems, NEW exp, SendFlush(s, pc, elems, exp)
       PROVE  flush'[t] = flush[t] /\ \A q \in requests' : q.session = t => q \in requests
  BY <1>0, <1>12 DEF SendFlush, Request
<1>13. CASE Leave(s)
  <2>1. CASE WriteInFlight(s)
    BY <1>13, <2>1 DEF Leave, Untouched
  <2>2. CASE ~WriteInFlight(s)
    BY <1>12, <1>13, <2>2 DEF Leave, Forget, Untouched
  <2>. QED
    BY <2>1, <2>2
<1>14. CASE SendAfterWait(s)
  BY <1>12, <1>14 DEF SendAfterWait, Forget, Untouched
<1>15. CASE SettleFlush(s) \/ AnswerWinner(s) \/ SettleRetry(s)
  BY <1>15 DEF SettleFlush, AnswerWinner, SettleRetry, Untouched
<1>16. CASE SettleWinner(s)
  <2>1. CASE flush[s].answer.status = "loaded"
    BY <1>12, <1>16, <2>1 DEF SettleWinner, Untouched
  <2>2. CASE flush[s].answer.status # "loaded"
    BY <1>16, <2>2 DEF SettleWinner, Untouched
  <2>. QED
    BY <2>1, <2>2
<1>17. CASE PutFails(s)
  BY <1>0, <1>17 DEF PutFails, Untouched
<1>. QED
  BY <1>1, <1>2, <1>3, <1>4, <1>5, <1>7, <1>8, <1>9, <1>10, <1>11, <1>13, <1>14, <1>15,
     <1>16, <1>17 DEF User, Session

LEMMA UntouchedKeeps ==
    ASSUME NEW t \in Sessions, SessionInv(t), Untouched(t), UNCHANGED <<backend, roomKey>>
    PROVE  SessionInv(t)'
<1>. USE DEF SessionInv, Untouched
<1>1. IdleInv(t)'
  BY DEF IdleInv
<1>2. AwaitedInv(t)'
  BY DEF AwaitedInv, Awaits
<1>3. CaptureInv(t)' /\ FlushAnswers(t)'
  BY DEF CaptureInv, FlushAnswers
<1>4. LineInv(t)'
  BY OnLineFrame DEF LineInv, Read
<1>5. StoredInv(t)'
  BY OnLineFrame DEF StoredInv
<1>. QED
  BY <1>1, <1>2, <1>3, <1>4, <1>5

-----------------------------------------------------------------------------
(* Each operation of a session keeps what is known of that session.        *)

LEMMA JoinKeeps ==
    ASSUME TypeOK, NEW s \in Sessions, SessionInv(s), Join(s)
    PROVE  SessionInv(s)'
<1>1. /\ phase[s] = "idle" /\ phase'[s] = "joined" /\ load'[s] = Pending
      /\ UNCHANGED <<requests, canvas, roomKey>>
      /\ UNCHANGED <<backend, baselineKnown, revision, lastDigest, conflicted, cadence, flush>>
  BY DEF Join, TypeOK, knowledge
<1>2. /\ ~baselineKnown[s] /\ lastDigest[s] = Null
      /\ cadence[s] = Idle /\ flush[s] = Idle
      /\ \A q \in requests : q.session # s
  BY <1>1 DEF SessionInv, IdleInv
<1>. USE <1>1, <1>2 DEF Idle, Pending
<1>3. IdleInv(s)' /\ AwaitedInv(s)' /\ CaptureInv(s)' /\ FlushAnswers(s)'
  BY DEF IdleInv, AwaitedInv, CaptureInv, FlushAnswers
<1>4. LineInv(s)' /\ StoredInv(s)'
  BY DEF LineInv, StoredInv, Read
<1>. QED
  BY <1>3, <1>4 DEF SessionInv

LEMMA ReconnectKeeps ==
    ASSUME TypeOK, NEW s \in Sessions, SessionInv(s), Reconnect(s)
    PROVE  SessionInv(s)'
<1>1. /\ phase[s] = "joined" /\ load'[s] = Pending
      /\ ~baselineKnown'[s] /\ lastDigest'[s] = Null
      /\ cadence' = [cadence EXCEPT ![s].fresh = (cadence[s].pc = "idle")]
      /\ UNCHANGED <<requests, phase, authGeneration, roomKey, canvas, conflicted, flush>>
      /\ UNCHANGED <<backend, roomKey>>
  BY DEF Reconnect, TypeOK, sessionVars
<1>2. /\ cadence'[s].pc = cadence[s].pc /\ cadence'[s].elements = cadence[s].elements
      /\ cadence'[s].expected = cadence[s].expected /\ cadence'[s].answer = cadence[s].answer
  BY <1>1 DEF TypeOK, CadenceSlot, SlotSet
<1>. USE <1>1, <1>2 DEF SessionInv
<1>3. IdleInv(s)' /\ AwaitedInv(s)' /\ CaptureInv(s)' /\ FlushAnswers(s)'
  BY DEF IdleInv, AwaitedInv, Awaits, CaptureInv, FlushAnswers
<1>4. LineInv(s)'
  BY OnLineFrame DEF LineInv, Read, Pending, CaptureInv
<1>5. StoredInv(s)'
  BY OnLineFrame DEF StoredInv
<1>. QED
  BY <1>3, <1>4, <1>5

\* Edit and Deliver: the canvas of a session in the room grows.
LEMMA DrawKeeps ==
    ASSUME TypeOK, NEW s \in Sessions, SessionInv(s),
           \E e \in Edits : Edit(s, e) \/ \E t \in Sessions : Deliver(t, s, e)
    PROVE  SessionInv(s)'
<1>1. /\ phase[s] = "joined" /\ canvas[s] \subseteq canvas'[s]
      /\ UNCHANGED <<requests, phase, authGeneration, load, cadence, flush>>
      /\ UNCHANGED <<baselineKnown, revision, lastDigest, conflicted>>
      /\ UNCHANGED <<backend, roomKey>>
  BY DEF Edit, Deliver, TypeOK, knowledge
<1>. USE <1>1 DEF SessionInv
<1>2. IdleInv(s)' /\ AwaitedInv(s)' /\ CaptureInv(s)' /\ FlushAnswers(s)'
  BY DEF IdleInv, AwaitedInv, Awaits, CaptureInv, FlushAnswers
<1>3. baselineKnown[s] /\ authGeneration[s] = generation => OnLine(s, revision[s], canvas[s])'
  BY OnLineMore, OnLineFrame DEF LineInv
<1>4. LineInv(s)'
  BY <1>3, OnLineFrame DEF LineInv, Read
<1>5. StoredInv(s)'
  BY OnLineFrame DEF StoredInv
<1>. QED
  BY <1>2, <1>4, <1>5

LEMMA AskKeeps ==
    ASSUME TypeOK, NEW s \in Sessions, SessionInv(s), TickLoad(s) \/ AnswerLoad(s)
    PROVE  SessionInv(s)'
<1>1. /\ phase[s] # "left" /\ phase[s] # "idle"
      /\ load'[s] \in {Pending, LoadAnswer(s), Answer("unavailable", NoRevision, {})}
      /\ UNCHANGED <<requests, phase, authGeneration, canvas, cadence, flush>>
      /\ UNCHANGED <<baselineKnown, revision, lastDigest, conflicted>>
      /\ UNCHANGED <<backend, roomKey>>
  BY PendingType, NullAssumption
     DEF TickLoad, AnswerLoad, TypeOK, knowledge, sessionVars, SessionInv, IdleInv, CaptureInv
<1>2. Read(load'[s]) => OnLine(s, load'[s].revision, load'[s].elements)
  BY <1>1, LoadOnLine DEF Read, Pending, Answer
<1>3. Read(load'[s]) => OnLine(s, load[s].revision, load[s].elements)'
  BY <1>1, <1>2, OnLineFrame
<1>. USE <1>1 DEF SessionInv
<1>4. IdleInv(s)' /\ AwaitedInv(s)' /\ CaptureInv(s)' /\ FlushAnswers(s)'
  BY DEF IdleInv, AwaitedInv, Awaits, CaptureInv, FlushAnswers
<1>5. LineInv(s)'
  BY <1>3, OnLineFrame DEF LineInv, Read
<1>6. StoredInv(s)'
  BY OnLineFrame DEF StoredInv
<1>. QED
  BY <1>4, <1>5, <1>6

\* What loadDurableBaseline makes of an answer, whichever request it came with.
LEMMA AdoptKeeps ==
    ASSUME TypeOK, NEW s \in Sessions, SessionInv(s), NEW answer \in AnswerSet, NEW rest,
           Adopt(s, answer, rest), phase[s] \notin {"idle", "left"},
           UNCHANGED <<backend, authGeneration, roomKey, flush, mishaps>>,
           rest => /\ load'[s] \in {load[s], Null}
                   /\ \/ cadence'[s] = cadence[s]
                      \/ cadence[s].pc = "reload" /\ cadence'[s] = Idle,
           Read(answer) /\ authGeneration[s] = generation
             => OnLine(s, answer.revision, answer.elements)
    PROVE  SessionInv(s)'
<1>. USE DEF SessionInv
<1>1. flush[s].pc = "idle" /\ UNCHANGED <<backend, roomKey>>
  BY DEF CaptureInv
<1>2. CASE answer.status = "unreadable"
  <2>1. /\ phase'[s] = "terminated" /\ canvas' = canvas
        /\ ~baselineKnown'[s] /\ lastDigest'[s] = Null /\ load'[s] = Null /\ cadence'[s] = Idle
        /\ requests' = Forsake(s, "cadence")
    BY <1>2 DEF Adopt, Forget, TypeOK
  <2>2. \A r \in requests' :
          /\ r.awaited => r \in requests /\ ~(r.session = s /\ r.kind = "cadence")
          /\ \E q \in requests :
               q.session = r.session /\ q.elements = r.elements /\ q.expected = r.expected
    BY <2>1, ForsakeFacts
  <2>3. IdleInv(s)' /\ AwaitedInv(s)' /\ CaptureInv(s)' /\ FlushAnswers(s)'
    BY <1>1, <2>1, <2>2 DEF IdleInv, AwaitedInv, Awaits, CaptureInv, FlushAnswers, Idle
  <2>4. \A r \in requests' : r.session = s /\ authGeneration[s] = generation
          => OnLine(s, r.expected, r.elements)
    BY <2>2 DEF LineInv
  <2>5. LineInv(s)'
    BY <1>1, <2>1, <2>4, OnLineFrame DEF LineInv, Read, Idle, Pending
  <2>6. StoredInv(s)'
    BY <1>1, <2>1, OnLineFrame DEF StoredInv, Idle, Pending
  <2>. QED
    BY <2>3, <2>5, <2>6
<1>3. ASSUME answer.status # "unreadable"
      PROVE  /\ rest /\ UNCHANGED <<phase, requests, lastDigest, conflicted>>
             /\ canvas[s] \subseteq canvas'[s]
             /\ \/ ~baselineKnown'[s]
                \/ /\ Read(answer) /\ revision'[s] = answer.revision
                   /\ canvas'[s] = canvas[s] \cup answer.elements
  BY <1>3 DEF Adopt, TypeOK, Read
<1>4. CASE answer.status # "unreadable"
  <2>. USE <1>1, <1>3, <1>4
  <2>1. IdleInv(s)' /\ AwaitedInv(s)' /\ CaptureInv(s)' /\ FlushAnswers(s)'
    BY DEF IdleInv, AwaitedInv, Awaits, CaptureInv, FlushAnswers, Idle
  <2>2. baselineKnown'[s] /\ authGeneration[s] = generation => OnLine(s, revision[s], canvas[s])'
    BY OnLineFrame, OnLineMore
  <2>3. LineInv(s)'
    BY <2>2, OnLineFrame DEF LineInv, Read, Idle, Pending
  <2>4. StoredInv(s)'
    BY OnLineFrame DEF StoredInv, Idle, Pending
  <2>. QED
    BY <2>1, <2>3, <2>4
<1>. QED
  BY <1>2, <1>4

LEMMA SettleLoadKeeps ==
    ASSUME TypeOK, NEW s \in Sessions, SessionInv(s), SettleLoad(s)
    PROVE  SessionInv(s)'
<1>. DEFINE rest == load' = [load EXCEPT ![s] = Null] /\ UNCHANGED cadence
<1>1. /\ Adopt(s, load[s], rest) /\ load[s] # Null
      /\ UNCHANGED <<backend, authGeneration, roomKey, flush, mishaps>>
  BY DEF SettleLoad
<1>2. load[s] \in AnswerSet
  BY <1>1 DEF TypeOK
<1>3. phase[s] \notin {"idle", "left"}
  BY <1>1 DEF SessionInv, IdleInv, CaptureInv
<1>4. rest => /\ load'[s] \in {load[s], Null}
              /\ \/ cadence'[s] = cadence[s]
                 \/ cadence[s].pc = "reload" /\ cadence'[s] = Idle
  BY DEF TypeOK
<1>5. Read(load[s]) /\ authGeneration[s] = generation
        => OnLine(s, load[s].revision, load[s].elements)
  BY <1>1 DEF SessionInv, LineInv
<1>. HIDE DEF rest
<1>. QED
  BY <1>1, <1>2, <1>3, <1>4, <1>5, AdoptKeeps

LEMMA SettleReloadKeeps ==
    ASSUME TypeOK, NEW s \in Sessions, SessionInv(s), SettleReload(s)
    PROVE  SessionInv(s)'
<1>. DEFINE rest == cadence' = [cadence EXCEPT ![s] = Idle] /\ UNCHANGED load
<1>1. cadence[s].pc = "reload" /\ UNCHANGED <<backend, authGeneration, roomKey, flush, mishaps>>
  BY DEF SettleReload
<1>2. rest => load' = load /\ cadence'[s] = Idle
  BY DEF TypeOK
<1>3. CASE phase[s] = "left" \/ ~cadence[s].fresh
  <2>1. /\ cadence'[s] = Idle
        /\ UNCHANGED <<requests, phase, canvas, baselineKnown, revision, lastDigest, conflicted, load>>
        /\ UNCHANGED <<backend, roomKey>>
    BY <1>1, <1>2, <1>3 DEF SettleReload, knowledge
  <2>. USE <1>1, <2>1 DEF SessionInv
  <2>2. IdleInv(s)' /\ AwaitedInv(s)' /\ CaptureInv(s)' /\ FlushAnswers(s)'
    BY DEF IdleInv, AwaitedInv, Awaits, CaptureInv, FlushAnswers, Idle
  <2>3. LineInv(s)'
    BY OnLineFrame DEF LineInv, Read, Idle, Pending
  <2>4. StoredInv(s)'
    BY OnLineFrame DEF StoredInv, Idle, Pending
  <2>. QED
    BY <2>2, <2>3, <2>4
<1>4. CASE ~(phase[s] = "left" \/ ~cadence[s].fresh)
  <2>1. Adopt(s, cadence[s].answer, rest)
    BY <1>4 DEF SettleReload
  <2>2. cadence[s].answer \in AnswerSet
    BY SlotFields
  <2>3. phase[s] \notin {"idle", "left"}
    BY <1>1, <1>4 DEF SessionInv, IdleInv, Idle
  <2>4. rest => /\ load'[s] \in {load[s], Null}
                /\ \/ cadence'[s] = cadence[s]
                   \/ cadence[s].pc = "reload" /\ cadence'[s] = Idle
    BY <1>1, <1>2
  <2>5. Read(cadence[s].answer) /\ authGeneration[s] = generation
          => OnLine(s, cadence[s].answer.revision, cadence[s].answer.elements)
    BY DEF SessionInv, LineInv
  <2>. HIDE DEF rest
  <2>. QED
    BY <1>1, <2>1, <2>2, <2>3, <2>4, <2>5, AdoptKeeps
<1>. QED
  BY <1>3, <1>4

LEMMA TickWriteKeeps ==
    ASSUME TypeOK, NEW s \in Sessions, SessionInv(s), TickWrite(s)
    PROVE  SessionInv(s)'
<1>. DEFINE q == Request(s, "cadence", canvas[s], revision[s])
<1>1. /\ phase[s] = "joined" /\ baselineKnown[s] /\ cadence[s].pc = "idle"
      /\ cadence'[s] = [Idle EXCEPT !.pc = "sent", !.elements = canvas[s], !.expected = revision[s]]
      /\ requests' = requests \cup {q}
      /\ UNCHANGED <<phase, authGeneration, canvas, baselineKnown, revision, lastDigest, flush, load>>
      /\ UNCHANGED <<backend, roomKey>>
  BY DEF TickWrite, TypeOK, sessionVars
<1>2. /\ cadence'[s].pc = "sent" /\ cadence'[s].elements = canvas[s]
      /\ cadence'[s].expected = revision[s] /\ cadence'[s].answer = Pending
  BY <1>1 DEF Idle
<1>3. /\ q.session = s /\ q.kind = "cadence" /\ q.elements = canvas[s]
      /\ q.expected = revision[s]
  BY DEF Request
<1>. HIDE DEF q
<1>. USE <1>1, <1>2, <1>3 DEF SessionInv
<1>4. IdleInv(s)' /\ AwaitedInv(s)' /\ CaptureInv(s)' /\ FlushAnswers(s)'
  BY DEF IdleInv, AwaitedInv, Awaits, CaptureInv, FlushAnswers
<1>5. authGeneration[s] = generation =>
        \A r \in requests' : r.session = s => OnLine(s, r.expected, r.elements)
  BY DEF LineInv
<1>6. LineInv(s)'
  BY <1>5, OnLineFrame DEF LineInv, Read, Pending, CaptureInv
<1>7. StoredInv(s)'
  BY OnLineFrame DEF StoredInv, Pending
<1>. QED
  BY <1>4, <1>6, <1>7

LEMMA SettleCadenceKeeps ==
    ASSUME TypeOK, NEW s \in Sessions, SessionInv(s), SettleCadence(s)
    PROVE  SessionInv(s)'
<1>. USE DEF SessionInv
<1>1. /\ cadence[s].pc = "sent" /\ cadence[s].answer # Pending
      /\ UNCHANGED <<requests, phase, authGeneration, canvas, flush, load>>
      /\ UNCHANGED <<backend, roomKey>>
  BY DEF SettleCadence, sessionVars
<1>2. cadence'[s].pc # "sent" /\ cadence'[s].answer = Pending /\ phase[s] # "idle"
  BY <1>1 DEF SettleCadence, Idle, TypeOK, IdleInv
<1>3. \/ /\ cadence[s].answer.status = "written"
         /\ revision'[s] = cadence[s].answer.revision /\ lastDigest'[s] = cadence[s].elements
         /\ UNCHANGED <<baselineKnown, conflicted>>
      \/ conflicted'[s] /\ ~baselineKnown'[s] /\ lastDigest'[s] = Null
      \/ UNCHANGED <<baselineKnown, revision, lastDigest, conflicted>>
  BY DEF SettleCadence, LearnWritten, LearnConflict, TypeOK, knowledge
<1>. USE <1>1, <1>2
<1>4. IdleInv(s)' /\ AwaitedInv(s)' /\ CaptureInv(s)' /\ FlushAnswers(s)'
  BY DEF IdleInv, AwaitedInv, Awaits, CaptureInv, FlushAnswers
<1>5. authGeneration[s] = generation =>
        /\ baselineKnown'[s] => OnLine(s, revision'[s], canvas[s])
        /\ flush[s].pc = "wait" /\ ~conflicted'[s] => OnLine(s, revision'[s], flush[s].elements)
  BY <1>3, OnLineMore DEF LineInv, CaptureInv
<1>6. LineInv(s)'
  BY <1>5, OnLineFrame DEF LineInv, Read, Pending
<1>7. StoredInv(s)'
  BY <1>3, OnLineFrame DEF StoredInv, Pending
<1>. QED
  BY <1>4, <1>6, <1>7

LEMMA AnswerReloadKeeps ==
    ASSUME TypeOK, NEW s \in Sessions, SessionInv(s), AnswerReload(s)
    PROVE  SessionInv(s)'
<1>. USE DEF SessionInv
<1>1. /\ cadence[s].pc = "reload"
      /\ UNCHANGED <<requests, phase, authGeneration, canvas, flush, load>>
      /\ UNCHANGED <<baselineKnown, revision, lastDigest, conflicted>>
      /\ UNCHANGED <<backend, roomKey>>
  BY DEF AnswerReload, sessionVars, knowledge
<1>2. /\ cadence'[s].pc = "reload" /\ phase[s] # "idle"
      /\ cadence'[s].answer \in {LoadAnswer(s), Answer("unavailable", NoRevision, {})}
  BY <1>1, SlotFields DEF AnswerReload, Idle, TypeOK, IdleInv, CadenceSlot, SlotSet
<1>3. /\ Read(cadence'[s].answer)
           => OnLine(s, cadence'[s].answer.revision, cadence'[s].answer.elements)
      /\ cadence'[s].answer.status # "written"
  BY <1>2, LoadOnLine DEF Read, Answer
<1>4. IdleInv(s)' /\ AwaitedInv(s)' /\ CaptureInv(s)' /\ FlushAnswers(s)'
  BY <1>1, <1>2 DEF IdleInv, AwaitedInv, Awaits, CaptureInv, FlushAnswers
<1>5. LineInv(s)'
  BY <1>1, <1>3, OnLineFrame DEF LineInv, Read
<1>6. StoredInv(s)'
  BY <1>1, <1>3, OnLineFrame DEF StoredInv
<1>. QED
  BY <1>4, <1>5, <1>6

\* A flush is sent: at a revision that is on line, with the scene it captured, while
\* no other flush of the session is awaited and everything else is forgotten or kept.
LEMMA SendFlushKeeps ==
    ASSUME TypeOK, NEW s \in Sessions, SessionInv(s),
           NEW pc \in {"sent", "retry"}, NEW elems, NEW exp, SendFlush(s, pc, elems, exp),
           authGeneration[s] = generation => OnLine(s, exp, elems),
           flush[s].pc \notin {"sent", "retry"}, cadence[s].pc = "idle",
           phase'[s] = "left", load'[s] = Null,
           \/ Forget(s)
           \/ UNCHANGED <<baselineKnown, revision, lastDigest, conflicted, cadence>>,
           UNCHANGED <<authGeneration, canvas>>, UNCHANGED <<backend, roomKey>>
    PROVE  SessionInv(s)'
<1>. DEFINE q == Request(s, "flush", elems, exp)
<1>. USE DEF SessionInv
<1>1. /\ flush'[s] = [Idle EXCEPT !.pc = pc, !.elements = elems, !.expected = exp]
      /\ requests' = Forsake(s, "cadence") \cup {q}
  BY DEF SendFlush, TypeOK
<1>2. /\ flush'[s].pc = pc /\ flush'[s].elements = elems /\ flush'[s].expected = exp
      /\ flush'[s].answer = Pending
  BY <1>1 DEF Idle
<1>3. q.session = s /\ q.kind = "flush" /\ q.elements = elems /\ q.expected = exp
  BY DEF Request
<1>4. /\ cadence'[s].pc = "idle" /\ cadence'[s].answer \in {Pending, cadence[s].answer}
      /\ cadence'[s].elements = cadence[s].elements \/ cadence'[s].answer = Pending
      /\ baselineKnown'[s] => baselineKnown[s] /\ revision'[s] = revision[s]
      /\ lastDigest'[s] \in {Null, lastDigest[s]}
  BY DEF Forget, Idle, TypeOK
<1>. HIDE DEF q
<1>5. \A r \in requests' : r.session = s /\ r.awaited => r = q
  <2>1. \A r \in Forsake(s, "cadence") :
          r.awaited => r \in requests /\ ~(r.session = s /\ r.kind = "cadence")
    BY ForsakeFacts
  <2>2. \A r \in requests : r.kind \in {"cadence", "flush"}
    BY DEF TypeOK, RequestSet
  <2>. QED
    BY <1>1, <2>1, <2>2 DEF AwaitedInv, Awaits
<1>6. authGeneration[s] = generation =>
        \A r \in requests' : r.session = s => OnLine(s, r.expected, r.elements)
  <2>1. \A r \in Forsake(s, "cadence") : \E p \in requests :
          p.session = r.session /\ p.elements = r.elements /\ p.expected = r.expected
    BY ForsakeFacts
  <2>2. authGeneration[s] = generation =>
          \A p \in requests : p.session = s => OnLine(s, p.expected, p.elements)
    BY DEF LineInv
  <2>. QED
    BY <1>1, <1>3, <2>1, <2>2
<1>7. IdleInv(s)' /\ AwaitedInv(s)' /\ CaptureInv(s)' /\ FlushAnswers(s)'
  BY <1>2, <1>3, <1>4, <1>5
     DEF IdleInv, AwaitedInv, Awaits, CaptureInv, FlushAnswers, Pending
<1>8. LineInv(s)'
  BY <1>2, <1>4, <1>6, OnLineFrame DEF LineInv, Read, Pending
<1>9. StoredInv(s)'
  BY <1>2, <1>4, OnLineFrame DEF StoredInv, Pending
<1>. QED
  BY <1>7, <1>8, <1>9

LEMMA LeaveKeeps ==
    ASSUME TypeOK, NEW s \in Sessions, SessionInv(s), Leave(s)
    PROVE  SessionInv(s)'
<1>. USE DEF SessionInv
<1>1. /\ phase[s] = "joined" /\ phase'[s] = "left" /\ baselineKnown[s]
      /\ UNCHANGED <<authGeneration, canvas>> /\ UNCHANGED <<backend, roomKey>>
      /\ flush[s].pc = "idle"
  BY DEF Leave, TypeOK, CaptureInv
<1>2. authGeneration[s] = generation => OnLine(s, revision[s], canvas[s])
  BY <1>1 DEF LineInv
<1>3. CASE WriteInFlight(s)
  <2>1. /\ flush'[s] = [Idle EXCEPT !.pc = "wait", !.elements = canvas[s], !.expected = revision[s]]
        /\ load'[s] = Null
        /\ UNCHANGED <<requests, baselineKnown, revision, lastDigest, conflicted, cadence>>
    BY <1>3 DEF Leave, TypeOK, knowledge
  <2>2. /\ flush'[s].pc = "wait" /\ flush'[s].elements = canvas[s]
        /\ flush'[s].expected = revision[s] /\ flush'[s].answer = Pending
    BY <2>1 DEF Idle
  <2>. USE <1>1, <2>1, <2>2
  <2>3. IdleInv(s)' /\ AwaitedInv(s)' /\ CaptureInv(s)' /\ FlushAnswers(s)'
    BY DEF IdleInv, AwaitedInv, Awaits, CaptureInv, FlushAnswers
  <2>4. LineInv(s)'
    BY <1>2, OnLineFrame DEF LineInv, Read, Pending
  <2>5. StoredInv(s)'
    BY OnLineFrame DEF StoredInv, Pending
  <2>. QED
    BY <2>3, <2>4, <2>5
<1>4. CASE ~WriteInFlight(s)
  <2>1. SendFlush(s, "sent", canvas[s], revision[s]) /\ Forget(s)
    BY <1>4 DEF Leave
  <2>2. cadence[s].pc = "idle" /\ load'[s] = Null
    BY <1>4, <2>1 DEF WriteInFlight, Forget, TypeOK
  <2>. QED
    BY <1>1, <1>2, <2>1, <2>2, SendFlushKeeps
<1>. QED
  BY <1>3, <1>4

LEMMA SendAfterWaitKeeps ==
    ASSUME TypeOK, NEW s \in Sessions, SessionInv(s), SendAfterWait(s)
    PROVE  SessionInv(s)'
<1>. DEFINE exp == IF conflicted[s] THEN flush[s].expected ELSE revision[s]
<1>1. /\ flush[s].pc = "wait" /\ cadence[s].pc = "idle" /\ Forget(s)
      /\ SendFlush(s, "sent", flush[s].elements, exp)
      /\ UNCHANGED <<authGeneration, canvas, phase>> /\ UNCHANGED <<backend, roomKey>>
  BY DEF SendAfterWait, WriteInFlight, sessionVars
<1>2. authGeneration[s] = generation => OnLine(s, exp, flush[s].elements)
  BY <1>1 DEF SessionInv, LineInv
<1>3. phase'[s] = "left" /\ load'[s] = Null
  BY <1>1 DEF SessionInv, CaptureInv, Forget, TypeOK
<1>. HIDE DEF exp
<1>. QED
  BY <1>1, <1>2, <1>3, SendFlushKeeps

\* The flush goes on to a phase in which it awaits no write, without an answer.
LEMMA FlushMovesKeeps ==
    ASSUME TypeOK, NEW s \in Sessions, SessionInv(s),
           SettleFlush(s) \/ SettleRetry(s)
           \/ (SettleWinner(s) /\ flush[s].answer.status # "loaded")
    PROVE  SessionInv(s)'
<1>. USE DEF SessionInv
<1>1. /\ flush[s].pc \in {"sent", "winner", "retry"} /\ flush[s].answer # Pending
      /\ UNCHANGED <<requests, phase, authGeneration, canvas, load, cadence>>
      /\ UNCHANGED <<baselineKnown, revision, lastDigest, conflicted>>
      /\ UNCHANGED <<backend, roomKey>>
  BY DEF SettleFlush, SettleRetry, SettleWinner, sessionVars, knowledge
<1>2. /\ flush'[s].answer = Pending
      /\ \/ flush'[s].pc = "done"
         \/ flush'[s].pc = "winner" /\ flush[s].answer.status = "conflict"
  <2>1. \/ flush'[s] = Ended
        \/ /\ flush'[s] = [flush[s] EXCEPT !.pc = "winner", !.answer = Pending]
           /\ flush[s].answer.status = "conflict"
    BY DEF SettleFlush, SettleRetry, SettleWinner, TypeOK
  <2>2. Ended.pc = "done" /\ Ended.answer = Pending
    BY DEF Ended, Idle
  <2>3. [flush[s] EXCEPT !.pc = "winner", !.answer = Pending].pc = "winner"
        /\ [flush[s] EXCEPT !.pc = "winner", !.answer = Pending].answer = Pending
    BY SlotFields DEF FlushSlot, SlotSet
  <2>. QED
    BY <2>1, <2>2, <2>3
<1>. USE <1>1, <1>2
<1>3. IdleInv(s)' /\ AwaitedInv(s)' /\ CaptureInv(s)' /\ FlushAnswers(s)'
  BY DEF IdleInv, AwaitedInv, Awaits, CaptureInv, FlushAnswers, Pending, Idle
<1>4. LineInv(s)'
  BY OnLineFrame DEF LineInv, Read, Pending
<1>5. StoredInv(s)'
  BY OnLineFrame DEF StoredInv, Pending
<1>. QED
  BY <1>3, <1>4, <1>5

LEMMA AnswerWinnerKeeps ==
    ASSUME TypeOK, NEW s \in Sessions, SessionInv(s), AnswerWinner(s)
    PROVE  SessionInv(s)'
<1>. USE DEF SessionInv
<1>1. /\ flush[s].pc = "winner"
      /\ UNCHANGED <<requests, phase, authGeneration, canvas, load, cadence>>
      /\ UNCHANGED <<baselineKnown, revision, lastDigest, conflicted>>
      /\ UNCHANGED <<backend, roomKey>>
  BY DEF AnswerWinner, sessionVars, knowledge
<1>2. /\ flush'[s].pc = "winner"
      /\ flush'[s].answer \in {LoadAnswer(s), Answer("unavailable", NoRevision, {})}
  BY <1>1, SlotFields DEF AnswerWinner, TypeOK, FlushSlot, SlotSet
<1>3. /\ flush'[s].answer.status \in {"loaded", "empty", "unreadable", "unavailable"}
      /\ Read(flush'[s].answer)
           => OnLine(s, flush'[s].answer.revision, flush'[s].answer.elements)
      /\ Current # Null => flush'[s].answer.status # "empty"
  BY <1>2, LoadOnLine DEF Read, Answer
<1>4. IdleInv(s)' /\ AwaitedInv(s)' /\ CaptureInv(s)' /\ FlushAnswers(s)'
  BY <1>1, <1>2, <1>3 DEF IdleInv, AwaitedInv, Awaits, CaptureInv, FlushAnswers, Idle
<1>5. LineInv(s)'
  BY <1>1, <1>2, <1>3, OnLineFrame DEF LineInv, Read
<1>6. StoredInv(s)'
  BY <1>1, <1>2, <1>3, OnLineFrame DEF StoredInv
<1>. QED
  BY <1>4, <1>5, <1>6

LEMMA SettleWinnerKeeps ==
    ASSUME TypeOK, NEW s \in Sessions, SessionInv(s), SettleWinner(s)
    PROVE  SessionInv(s)'
<1>1. CASE flush[s].answer.status # "loaded"
  BY <1>1, FlushMovesKeeps
<1>2. CASE flush[s].answer.status = "loaded"
  <2>. DEFINE winner == flush[s].answer
  <2>. DEFINE elems == flush[s].elements \cup winner.elements
  <2>1. /\ flush[s].pc = "winner" /\ SendFlush(s, "retry", elems, winner.revision)
        /\ UNCHANGED <<authGeneration, canvas, phase, load>>
        /\ UNCHANGED <<baselineKnown, revision, lastDigest, conflicted, cadence>>
        /\ UNCHANGED <<backend, roomKey>>
    BY <1>2 DEF SettleWinner, sessionVars, knowledge
  <2>2. cadence[s].pc = "idle" /\ phase'[s] = "left" /\ load'[s] = Null
    BY <2>1 DEF SessionInv, CaptureInv
  <2>3. authGeneration[s] = generation => OnLine(s, winner.revision, winner.elements)
    BY <1>2 DEF SessionInv, LineInv, Read
  <2>4. authGeneration[s] = generation => OnLine(s, winner.revision, elems)
    BY <2>3, OnLineMore
  <2>. HIDE DEF winner, elems
  <2>. QED
    BY <2>1, <2>2, <2>4, SendFlushKeeps
<1>. QED
  BY <1>1, <1>2

LEMMA PutFailsKeeps ==
    ASSUME TypeOK, NEW s \in Sessions, SessionInv(s), PutFails(s)
    PROVE  SessionInv(s)'
<1>. DEFINE failed == Answer("failed", NoRevision, {})
<1>. USE DEF SessionInv
<1>0. failed.status = "failed"
  BY DEF Answer
<1>1. /\ UNCHANGED <<phase, authGeneration, canvas, load>>
      /\ UNCHANGED <<baselineKnown, revision, lastDigest, conflicted>>
      /\ UNCHANGED <<backend, roomKey>>
  BY DEF PutFails, sessionVars, knowledge
<1>2. ASSUME NEW kind, requests' = Forsake(s, kind)
      PROVE  /\ \A r \in requests' :
                  r.awaited => r \in requests /\ ~(r.session = s /\ r.kind = kind)
             /\ \A r \in requests' : \E q \in requests :
                  q.session = r.session /\ q.elements = r.elements /\ q.expected = r.expected
  BY <1>2, ForsakeFacts
<1>3. authGeneration[s] = generation =>
        \A r \in requests' : r.session = s => OnLine(s, r.expected, r.elements)
  <2>1. \A r \in requests' : \E q \in requests :
          q.session = r.session /\ q.elements = r.elements /\ q.expected = r.expected
    BY <1>2 DEF PutFails
  <2>. QED
    BY <2>1 DEF LineInv
<1>4. CASE /\ cadence[s].pc = "sent" /\ cadence' = [cadence EXCEPT ![s].answer = failed]
           /\ requests' = Forsake(s, "cadence") /\ UNCHANGED flush
  <2>1. /\ cadence'[s].pc = "sent" /\ cadence'[s].elements = cadence[s].elements
        /\ cadence'[s].answer = failed
    BY <1>4, SlotFields DEF TypeOK, CadenceSlot, SlotSet
  <2>2. IdleInv(s)' /\ AwaitedInv(s)' /\ CaptureInv(s)' /\ FlushAnswers(s)'
    BY <1>1, <1>2, <1>4, <2>1 DEF IdleInv, AwaitedInv, Awaits, CaptureInv, FlushAnswers, Idle
  <2>3. LineInv(s)'
    BY <1>0, <1>1, <1>3, <1>4, <2>1, OnLineFrame DEF LineInv, Read
  <2>4. StoredInv(s)'
    BY <1>0, <1>1, <1>4, <2>1, OnLineFrame DEF StoredInv
  <2>. QED
    BY <2>2, <2>3, <2>4
<1>5. CASE /\ flush[s].pc \in {"sent", "retry"} /\ flush' = [flush EXCEPT ![s].answer = failed]
           /\ requests' = Forsake(s, "flush") /\ UNCHANGED cadence
  <2>1. /\ flush'[s].pc = flush[s].pc /\ flush'[s].elements = flush[s].elements
        /\ flush'[s].expected = flush[s].expected /\ flush'[s].answer = failed
    BY <1>5, SlotFields DEF TypeOK, FlushSlot, SlotSet
  <2>2. IdleInv(s)' /\ AwaitedInv(s)' /\ CaptureInv(s)' /\ FlushAnswers(s)'
    BY <1>0, <1>1, <1>2, <1>5, <2>1
       DEF IdleInv, AwaitedInv, Awaits, CaptureInv, FlushAnswers, Idle
  <2>3. LineInv(s)'
    BY <1>0, <1>1, <1>3, <1>5, <2>1, OnLineFrame DEF LineInv, Read
  <2>4. StoredInv(s)'
    BY <1>0, <1>1, <1>5, <2>1, OnLineFrame DEF StoredInv
  <2>. QED
    BY <2>2, <2>3, <2>4
<1>. QED
  BY <1>4, <1>5 DEF PutFails, Flushing

-----------------------------------------------------------------------------
(* The steps of the backend.                                               *)

\* Two awaited requests of a session and kind are one: both were sent with what the
\* slot that waits for them has.
LEMMA OneAwaited ==
    ASSUME TypeOK, NEW q \in requests, NEW r \in requests, AwaitedInv(q.session),
           q.session = r.session, q.kind = r.kind, q.awaited, r.awaited
    PROVE  q = r
<1>1. q \in RequestSet /\ r \in RequestSet
  BY DEF TypeOK
<1>2. q.kind \in {"cadence", "flush"} /\ q.awaited = TRUE /\ r.awaited = TRUE
  BY <1>1 DEF RequestSet
<1>3. q.elements = r.elements /\ q.expected = r.expected
  BY <1>2 DEF AwaitedInv, Awaits
<1>. QED
  BY <1>1, <1>2, <1>3 DEF RequestSet

\* What a put writes into the slots of a session.
LEMMA PutSlots ==
    ASSUME TypeOK, NEW q \in requests, Put(q), NEW s \in Sessions
    PROVE  /\ cadence'[s].pc = cadence[s].pc /\ cadence'[s].elements = cadence[s].elements
           /\ cadence'[s].expected = cadence[s].expected
           /\ flush'[s].pc = flush[s].pc /\ flush'[s].elements = flush[s].elements
           /\ flush'[s].expected = flush[s].expected
           /\ \/ /\ q.session = s /\ q.awaited /\ q.kind = "cadence"
                 /\ cadence'[s].answer = PutAnswer(q)
              \/ cadence'[s] = cadence[s] /\ ~(q.session = s /\ q.awaited /\ q.kind = "cadence")
           /\ \/ /\ q.session = s /\ q.awaited /\ q.kind = "flush"
                 /\ flush'[s].answer = PutAnswer(q)
              \/ flush'[s] = flush[s] /\ ~(q.session = s /\ q.awaited /\ q.kind = "flush")
<1>1. cadence[s] \in CadenceSlot /\ flush[s] \in FlushSlot
  BY DEF TypeOK
<1>2. \/ /\ q.session = s /\ q.awaited /\ q.kind = "cadence"
         /\ cadence'[s] = [cadence[s] EXCEPT !.answer = PutAnswer(q)]
      \/ cadence'[s] = cadence[s] /\ ~(q.session = s /\ q.awaited /\ q.kind = "cadence")
  BY DEF Put, TypeOK
<1>3. \/ /\ q.session = s /\ q.awaited /\ q.kind = "flush"
         /\ flush'[s] = [flush[s] EXCEPT !.answer = PutAnswer(q)]
      \/ flush'[s] = flush[s] /\ ~(q.session = s /\ q.awaited /\ q.kind = "flush")
  BY DEF Put, TypeOK
<1>4. /\ LET new == [cadence[s] EXCEPT !.answer = PutAnswer(q)] IN
         /\ new.pc = cadence[s].pc /\ new.elements = cadence[s].elements
         /\ new.expected = cadence[s].expected /\ new.answer = PutAnswer(q)
      /\ LET new == [flush[s] EXCEPT !.answer = PutAnswer(q)] IN
         /\ new.pc = flush[s].pc /\ new.elements = flush[s].elements
         /\ new.expected = flush[s].expected /\ new.answer = PutAnswer(q)
  BY <1>1 DEF CadenceSlot, FlushSlot, SlotSet
<1>5. /\ cadence'[s].pc = cadence[s].pc /\ cadence'[s].elements = cadence[s].elements
      /\ cadence'[s].expected = cadence[s].expected
      /\ \/ /\ q.session = s /\ q.awaited /\ q.kind = "cadence"
            /\ cadence'[s].answer = PutAnswer(q)
         \/ cadence'[s] = cadence[s] /\ ~(q.session = s /\ q.awaited /\ q.kind = "cadence")
  BY <1>1, <1>2, <1>4
<1>6. /\ flush'[s].pc = flush[s].pc /\ flush'[s].elements = flush[s].elements
      /\ flush'[s].expected = flush[s].expected
      /\ \/ /\ q.session = s /\ q.awaited /\ q.kind = "flush"
            /\ flush'[s].answer = PutAnswer(q)
         \/ flush'[s] = flush[s] /\ ~(q.session = s /\ q.awaited /\ q.kind = "flush")
  BY <1>1, <1>3, <1>4
<1>. QED
  BY <1>5, <1>6

LEMMA PutKeeps ==
    ASSUME IInv, NEW q \in requests, Put(q), NEW s \in Sessions
    PROVE  SessionInv(s)'
<1>0. TypeOK /\ \A t \in Sessions : SessionInv(t)
  BY DEF IInv
<1>. USE <1>0
<1>1. /\ UNCHANGED <<phase, authGeneration, roomKey, canvas, load, generation, retired>>
      /\ UNCHANGED <<baselineKnown, revision, lastDigest, conflicted>>
      /\ \A r \in requests' : r \in requests /\ r # q
  BY DEF Put, sessionVars, knowledge
<1>2. /\ PutAnswer(q).status \in {"written", "conflict", "failed"}
      /\ PutAnswer(q).status # "written" => UNCHANGED <<backend, roomKey>>
      /\ q.session \in Sessions
  BY PutRefused DEF PutAnswer, Answer, TypeOK, RequestSet
<1>3. \A rev \in Nat : \A elems : OnLine(s, rev, elems) => OnLine(s, rev, elems)'
  <2>. SUFFICES ASSUME NEW rev \in Nat, NEW elems, OnLine(s, rev, elems)
                PROVE  OnLine(s, rev, elems)'
    OBVIOUS
  <2>. QED
    BY OnLinePut
<1>4. /\ cadence'[s].pc = cadence[s].pc /\ cadence'[s].elements = cadence[s].elements
      /\ flush'[s].pc = flush[s].pc /\ flush'[s].elements = flush[s].elements
      /\ flush'[s].expected = flush[s].expected
      /\ \/ /\ q.session = s /\ q.awaited /\ q.kind = "cadence"
            /\ cadence'[s].answer = PutAnswer(q)
         \/ cadence'[s] = cadence[s] /\ ~(q.session = s /\ q.awaited /\ q.kind = "cadence")
      /\ \/ /\ q.session = s /\ q.awaited /\ q.kind = "flush"
            /\ flush'[s].answer = PutAnswer(q)
         \/ flush'[s] = flush[s] /\ ~(q.session = s /\ q.awaited /\ q.kind = "flush")
  BY PutSlots
<1>5. SessionInv(s)
  OBVIOUS
<1>6. IdleInv(s)'
  BY <1>1, <1>4, <1>5 DEF SessionInv, IdleInv
<1>7. AwaitedInv(s)'
  <2>. SUFFICES ASSUME NEW r \in requests', r.session = s, r.awaited
                PROVE  /\ r.kind = "cadence" => Awaits(cadence[s], r, {"sent"})'
                       /\ r.kind = "flush" => Awaits(flush[s], r, {"sent", "retry"})'
    BY DEF AwaitedInv
  <2>1. r \in requests /\ r # q
    BY <1>1
  <2>2. AwaitedInv(q.session)
    BY <1>2 DEF SessionInv
  <2>3. ~(q.session = s /\ q.awaited /\ q.kind = r.kind)
    BY <2>1, <2>2, OneAwaited
  <2>4. /\ r.kind = "cadence" => Awaits(cadence[s], r, {"sent"}) /\ cadence'[s] = cadence[s]
        /\ r.kind = "flush" => Awaits(flush[s], r, {"sent", "retry"}) /\ flush'[s] = flush[s]
    BY <1>4, <1>5, <2>1, <2>3 DEF SessionInv, AwaitedInv
  <2>. QED
    BY <2>4 DEF Awaits
<1>8. q.session = s /\ q.awaited =>
        /\ q.kind = "cadence" => Awaits(cadence[s], q, {"sent"})
        /\ q.kind = "flush" => Awaits(flush[s], q, {"sent", "retry"})
  BY <1>5 DEF SessionInv, AwaitedInv
<1>9. CaptureInv(s)'
  BY <1>1, <1>4, <1>5 DEF SessionInv, CaptureInv
<1>10. FlushAnswers(s)'
  BY <1>2, <1>4, <1>5, <1>8 DEF SessionInv, FlushAnswers, Awaits
<1>11. LineInv(s)'
  <2>. SUFFICES ASSUME authGeneration[s] = generation
                PROVE  LineInv(s)'
    BY <1>1 DEF LineInv
  <2>1. baselineKnown'[s] => OnLine(s, revision[s], canvas[s])'
    BY <1>1, <1>3, <1>5 DEF SessionInv, LineInv, TypeOK
  <2>2. flush'[s].pc = "wait" =>
          /\ OnLine(s, flush[s].expected, flush[s].elements)'
          /\ ~conflicted'[s] => OnLine(s, revision[s], flush[s].elements)'
    BY <1>1, <1>3, <1>4, <1>5, SlotFields DEF SessionInv, LineInv, TypeOK
  <2>3. load'[s] # Null /\ Read(load'[s]) => OnLine(s, load[s].revision, load[s].elements)'
    <3>1. load[s] # Null => load[s].revision \in Nat
      BY DEF TypeOK, AnswerSet
    <3>. QED
      BY <1>1, <1>3, <1>5, <3>1 DEF SessionInv, LineInv
  <2>4. Read(cadence'[s].answer) =>
          OnLine(s, cadence[s].answer.revision, cadence[s].answer.elements)'
    BY <1>2, <1>3, <1>4, <1>5, SlotFields DEF SessionInv, LineInv, Read
  <2>5. Read(flush'[s].answer) =>
          OnLine(s, flush[s].answer.revision, flush[s].answer.elements)'
    BY <1>2, <1>3, <1>4, <1>5, SlotFields DEF SessionInv, LineInv, Read
  <2>6. cadence'[s].answer.status = "written" =>
          OnLine(s, cadence[s].answer.revision, cadence[s].elements)'
    <3>1. CASE cadence'[s] = cadence[s]
      BY <1>3, <1>5, <3>1, SlotFields DEF SessionInv, LineInv
    <3>2. CASE cadence'[s] # cadence[s] /\ cadence'[s].answer.status = "written"
      <4>1. /\ q.session = s /\ cadence'[s].elements = q.elements
            /\ cadence'[s].answer = PutAnswer(q) /\ PutAnswer(q).status = "written"
        BY <1>4, <1>8, <3>2 DEF Awaits
      <4>2. /\ Current' # Null /\ Current' = SealedRow(q)
            /\ Current'.revision = cadence'[s].answer.revision
            /\ Current'.key = roomKey[s]
            /\ NextRevision(q.expected) \in Nat
        BY <4>1, PutWritten DEF NextRevision
      <4>. QED
        BY <1>1, <4>1, <4>2 DEF OnLine, SealedRow
    <3>. QED
      BY <3>1, <3>2
  <2>7. \A r \in requests' : r.session = s => OnLine(s, r.expected, r.elements)'
    BY <1>1, <1>3, <1>5 DEF SessionInv, LineInv, TypeOK, RequestSet
  <2>. QED
    BY <2>1, <2>2, <2>3, <2>4, <2>5, <2>6, <2>7 DEF LineInv
<1>12. StoredInv(s)'
  <2>. SUFFICES ASSUME authGeneration[s] = generation, retired = 0
                PROVE  StoredInv(s)'
    BY <1>1 DEF StoredInv
  <2>1. Baseline \subseteq Baseline' /\ (Current # Null => Current' # Null)
    BY BaselineGrows
  <2>2. PutAnswer(q).status = "written" => Baseline' = q.elements
    BY PutWritten
  <2>3. PutAnswer(q).status = "conflict" /\ q.session = s => Current # Null
    <3>1. OnLine(s, q.expected, q.elements) \/ q.session # s
      BY <1>5 DEF SessionInv, LineInv
    <3>2. q.expected \in Nat
      BY DEF TypeOK, RequestSet
    <3>. QED
      BY <3>1, <3>2 DEF PutAnswer, Answer, Matches, OnLine
  <2>4. lastDigest'[s] # Null => lastDigest'[s] \subseteq Baseline'
    BY <1>1, <1>5, <2>1 DEF SessionInv, StoredInv
  <2>5. cadence'[s].answer.status = "written" => cadence'[s].elements \subseteq Baseline'
    BY <1>4, <1>5, <1>8, <2>1, <2>2 DEF SessionInv, StoredInv, Awaits
  <2>6. flush'[s].answer.status = "written" => flush'[s].elements \subseteq Baseline'
    BY <1>4, <1>5, <1>8, <2>1, <2>2 DEF SessionInv, StoredInv, Awaits
  <2>7. flush'[s].answer.status = "conflict" \/ flush'[s].pc = "winner" => Current' # Null
    BY <1>4, <1>5, <2>1, <2>3 DEF SessionInv, StoredInv
  <2>8. flush'[s].answer.status # "empty"
    BY <1>2, <1>4, <1>5 DEF SessionInv, StoredInv
  <2>. QED
    BY <2>4, <2>5, <2>6, <2>7, <2>8 DEF StoredInv
<1>. QED
  BY <1>6, <1>7, <1>9, <1>10, <1>11, <1>12 DEF SessionInv

LEMMA ResetKeeps ==
    ASSUME IInv, NEW s \in Sessions, Reset
    PROVE  SessionInv(s)'
<1>1. /\ UNCHANGED <<phase, authGeneration, roomKey, canvas, load, cadence, flush, generation>>
      /\ UNCHANGED <<baselineKnown, revision, lastDigest, conflicted, requests>>
  BY DEF Reset, sessionVars, knowledge
<1>2. TypeOK /\ SessionInv(s)
  BY DEF IInv
<1>3. Current # Null /\ Current.revision \in 1..MaxRevision /\ retired \in Nat
  BY <1>2, CurrentType DEF Reset, TypeOK
<1>4. retired' = IF Current.revision > retired THEN Current.revision ELSE retired
  BY DEF Reset
<1>5. retired' >= retired /\ retired' >= Current.revision /\ retired' > 0
  BY <1>3, <1>4
<1>6. \A rev \in Nat : \A elems : OnLine(s, rev, elems) => OnLine(s, rev, elems)'
  <2>. SUFFICES ASSUME NEW rev \in Nat, NEW elems, OnLine(s, rev, elems)
                PROVE  OnLine(s, rev, elems)'
    OBVIOUS
  <2>1. rev = NoRevision \/ rev <= retired \/ rev <= Current.revision
    BY DEF OnLine
  <2>2. retired' \in Nat
    BY <1>3, <1>4
  <2>3. rev = NoRevision \/ rev <= retired'
    BY <1>3, <1>5, <2>1, <2>2
  <2>. QED
    BY <2>3 DEF OnLine
<1>7. IdleInv(s)' /\ AwaitedInv(s)' /\ CaptureInv(s)' /\ FlushAnswers(s)'
  BY <1>1, <1>2 DEF SessionInv, IdleInv, AwaitedInv, Awaits, CaptureInv, FlushAnswers
<1>8. LineInv(s)'
  <2>1. /\ revision[s] \in Nat
        /\ load[s] # Null => load[s].revision \in Nat
        /\ \A q \in requests : q.expected \in Nat
    BY <1>2 DEF TypeOK, AnswerSet, RequestSet
  <2>2. /\ cadence[s].answer.revision \in Nat /\ flush[s].answer.revision \in Nat
        /\ flush[s].expected \in Nat
    BY <1>2, SlotFields
  <2>. QED
    BY <1>1, <1>2, <1>6, <2>1, <2>2 DEF SessionInv, LineInv, Read
<1>9. StoredInv(s)'
  BY <1>5 DEF StoredInv
<1>. QED
  BY <1>7, <1>8, <1>9 DEF SessionInv

\* Nobody has a key of the generation that is new.
LEMMA RotateKeeps ==
    ASSUME IInv, NEW s \in Sessions, RotateGeneration
    PROVE  SessionInv(s)'
<1>1. /\ UNCHANGED <<phase, authGeneration, roomKey, canvas, load, cadence, flush>>
      /\ UNCHANGED <<baselineKnown, revision, lastDigest, conflicted, requests>>
  BY DEF RotateGeneration, sessionVars, knowledge
<1>2. authGeneration'[s] # generation'
  BY DEF RotateGeneration, sessionVars, IInv, GenerationInv, TypeOK
<1>3. IdleInv(s)' /\ AwaitedInv(s)' /\ CaptureInv(s)' /\ FlushAnswers(s)'
  BY <1>1 DEF IInv, SessionInv, IdleInv, AwaitedInv, Awaits, CaptureInv, FlushAnswers
<1>4. LineInv(s)' /\ StoredInv(s)'
  BY <1>2 DEF LineInv, StoredInv
<1>. QED
  BY <1>3, <1>4 DEF SessionInv

\* A step of a session leaves the rows and the generation to the backend.
LEMMA SessionStep ==
    ASSUME NEW s \in Sessions, User(s) \/ Session(s)
    PROVE  UNCHANGED <<backend, roomKey>>
BY DEF User, Session, Join, Reconnect, Leave, Edit, Deliver, TickLoad, AnswerLoad, SettleLoad,
       TickWrite, SettleCadence, AnswerReload, SettleReload, SendAfterWait, SettleFlush,
       AnswerWinner, SettleWinner, SettleRetry, PutFails, sessionVars

LEMMA RowsStep ==
    ASSUME IInv, [Next]_vars
    PROVE  RowsOpen' /\ GenerationInv'
<1>. USE DEF IInv, RowsOpen, GenerationInv
<1>0. TypeOK
  OBVIOUS
<1>1. CASE UNCHANGED <<backend, authGeneration>>
  BY <1>1 DEF backend
<1>2. ASSUME NEW q \in requests, Put(q)
      PROVE  RowsOpen' /\ GenerationInv'
  <2>1. CASE PutAnswer(q).status # "written"
    BY <1>2, <2>1, PutRefused DEF Put, backend, sessionVars
  <2>2. CASE PutAnswer(q).status = "written"
    <3>1. rows' = Filed(q) /\ UNCHANGED <<generation, authGeneration>>
      BY <1>2, <2>2 DEF Put, sessionVars
    <3>2. authGeneration[q.session] = generation
      BY <1>2, <2>2, PutWritten
    <3>3. generation \in Nat
      BY <1>0 DEF TypeOK
    <3>4. SealedRow(q).sealedGeneration = generation
          /\ SealedRow(q).sealedRevision = SealedRow(q).revision
      BY <3>2 DEF SealedRow
    <3>5. \A g \in 1..MaxGeneration :
            /\ g = generation => rows'[g] = SealedRow(q)
            /\ g < generation => rows'[g] = Null
            /\ g > generation => rows'[g] = rows[g]
      BY <3>1, <3>3 DEF Filed
    <3>6. RowsOpen'
      BY <3>3, <3>4, <3>5
    <3>7. GenerationInv'
      BY <3>1, <3>3, <3>5
    <3>. QED
      BY <3>6, <3>7
  <2>. QED
    BY <2>1, <2>2
<1>3. CASE Reset
  BY <1>0, <1>3 DEF Reset, sessionVars, TypeOK
<1>4. CASE RotateGeneration
  <2>1. /\ generation' = generation + 1 /\ UNCHANGED <<rows, authGeneration>>
        /\ generation \in Nat /\ \A s \in Sessions : authGeneration[s] \in Nat
    BY <1>0, <1>4 DEF RotateGeneration, sessionVars, TypeOK
  <2>2. \A s \in Sessions : authGeneration'[s] <= generation'
    BY <2>1
  <2>3. \A g \in 1..MaxGeneration : g > generation' => g > generation
    BY <2>1
  <2>. QED
    BY <2>1, <2>2, <2>3
<1>5. ASSUME NEW s \in Sessions, Join(s)
      PROVE  RowsOpen' /\ GenerationInv'
  BY <1>0, <1>5 DEF Join, backend, TypeOK
<1>6. ASSUME NEW s \in Sessions, User(s) \/ Session(s), ~Join(s)
      PROVE  UNCHANGED <<backend, authGeneration>>
  BY <1>6 DEF User, Session, Reconnect, Leave, Edit, Deliver, TickLoad, AnswerLoad, SettleLoad,
       TickWrite, SettleCadence, AnswerReload, SettleReload, SendAfterWait, SettleFlush,
       AnswerWinner, SettleWinner, SettleRetry, PutFails, sessionVars
<1>7. UNCHANGED vars => UNCHANGED <<backend, authGeneration>>
  BY DEF vars, sessionVars
<1>. QED
  BY <1>1, <1>2, <1>3, <1>4, <1>5, <1>6, <1>7 DEF Next, Backend

LEMMA SessionsStep ==
    ASSUME IInv, [Next]_vars, NEW t \in Sessions
    PROVE  SessionInv(t)'
<1>1. TypeOK /\ SessionInv(t)
  BY DEF IInv
<1>2. CASE UNCHANGED vars
  BY <1>1, <1>2, UntouchedKeeps DEF Untouched, vars, sessionVars, knowledge
<1>3. CASE Backend
  BY <1>3, PutKeeps, ResetKeeps, RotateKeeps DEF Backend
<1>4. ASSUME NEW s \in Sessions, User(s) \/ Session(s)
      PROVE  SessionInv(t)'
  <2>1. UNCHANGED <<backend, roomKey>>
    BY <1>4, SessionStep
  <2>2. CASE \E e \in Edits : Deliver(s, t, e)
    BY <1>1, <2>2, DrawKeeps
  <2>3. CASE s # t /\ ~\E e \in Edits : Deliver(s, t, e)
    BY <1>1, <1>4, <2>1, <2>3, UntouchedOthers, UntouchedKeeps
  <2>4. ASSUME NEW e \in Edits, NEW u \in Sessions \ {t}, Deliver(s, u, e)
        PROVE  SessionInv(t)'
    <3>1. Untouched(t)
      BY <1>1, <2>4 DEF Deliver, Untouched, TypeOK, knowledge
    <3>. QED
      BY <1>1, <2>1, <3>1, UntouchedKeeps
  <2>5. CASE s = t /\ User(t)
    BY <1>1, <2>2, <2>4, <2>5, JoinKeeps, ReconnectKeeps, LeaveKeeps, DrawKeeps DEF User
  <2>6. CASE s = t /\ Session(t)
    BY <1>1, <2>6, AskKeeps, SettleLoadKeeps, TickWriteKeeps, SettleCadenceKeeps,
       AnswerReloadKeeps, SettleReloadKeeps, SendAfterWaitKeeps, FlushMovesKeeps,
       AnswerWinnerKeeps, SettleWinnerKeeps, PutFailsKeeps DEF Session
  <2>. QED
    BY <1>4, <2>2, <2>3, <2>5, <2>6
<1>. QED
  BY <1>2, <1>3, <1>4 DEF Next

LEMMA IInvInit == Init => IInv
<1>. SUFFICES ASSUME Init PROVE IInv
  OBVIOUS
<1>1. RowsOpen /\ GenerationInv
  BY DEF Init, RowsOpen, GenerationInv
<1>2. ASSUME NEW s \in Sessions
      PROVE  SessionInv(s)
  BY DEF Init, SessionInv, IdleInv, AwaitedInv, CaptureInv, FlushAnswers, LineInv, StoredInv,
         Read, Idle, Pending
<1>. QED
  BY <1>1, <1>2, TypeInit DEF IInv

LEMMA IInvStep == IInv /\ [Next]_vars => IInv'
BY TypeStep, RowsStep, SessionsStep DEF IInv

LEMMA Invariant == Spec => []IInv
BY IInvInit, IInvStep, PTL DEF Spec

-----------------------------------------------------------------------------
(* The promises.                                                           *)

\* What lies in the store can be opened by those who have the room's key, was sealed
\* for the generation and the revision it has, and is what a session that skips an
\* unchanged scene takes it to be.
THEOREM StoreSound == Spec => []RowsSound
<1>1. IInv => RowsSound
  BY DEF IInv, RowsSound, SkippedIsStored, SessionInv, StoredInv
<1>. QED
  BY <1>1, Invariant, PTL

\* The backend and its writers implement the store that loses nothing: every accepted
\* write publishes a scene that contains the one it replaces (or is made while the
\* store is exposed), resets and rotations discard, and nothing else touches the rows.
THEOREM StoreImplemented == Spec => NothingLost
<1>1. Init => Store!Init
  BY DEF Init, Store!Init, Baseline, Exposed, Current
<1>2. IInv /\ [Next]_vars => [Store!Next]_(Store!store)
  <2>. SUFFICES ASSUME IInv, [Next]_vars
                PROVE  [Store!Next]_(Store!store)
    OBVIOUS
  <2>0. TypeOK /\ TypeOK'
    BY TypeStep DEF IInv
  <2>1. ASSUME UNCHANGED <<backend, roomKey>>
        PROVE  UNCHANGED Store!store
    BY <2>1, OnLineFrame DEF Store!store, Exposed
  <2>2. ASSUME NEW q \in requests, Put(q)
        PROVE  [Store!Next]_(Store!store)
    <3>1. CASE PutAnswer(q).status # "written"
      BY <2>1, <2>2, <3>1, PutRefused
    <3>2. CASE PutAnswer(q).status = "written"
      <4>1. /\ Current' # Null /\ Current'.revision = NextRevision(q.expected)
            /\ retired' = retired /\ retired \in Nat /\ Baseline' \in SUBSET Edits
        <5>1. q.elements \in SUBSET Edits /\ retired \in Nat
          BY <2>0 DEF TypeOK, RequestSet
        <5>2. retired' = retired
          BY <2>2 DEF Put
        <5>. QED
          BY <2>2, <3>2, <5>1, <5>2, PutWritten
      <4>2. CASE Exposed
        BY <4>1, <4>2 DEF Store!Next, Store!Overwrite, Exposed
      <4>3. CASE ~Exposed /\ Current = Null
        BY <4>1, <4>3 DEF Store!Next, Store!Publish, Exposed, Baseline
      <4>4. CASE ~Exposed /\ Current # Null
        <5>1. /\ Current.revision = q.expected /\ Current.revision \in 1..MaxRevision
              /\ \/ Current.revision <= retired
                 \/ Current.elements \subseteq q.elements
          BY <2>2, <3>2, <4>4, WriterOnLine
        <5>2. Current.elements \subseteq q.elements /\ ~(Current.revision <= retired /\ retired > 0)
          BY <4>1, <4>4, <5>1 DEF Exposed
        <5>3. Baseline \subseteq Baseline'
          BY <2>2, <3>2, <4>4, <5>2, PutWritten DEF Baseline
        <5>4. Exposed' = FALSE
          BY <4>1, <5>1, <5>2 DEF Exposed, NextRevision
        <5>. QED
          BY <4>1, <5>3, <5>4 DEF Store!Next, Store!Publish
      <4>. QED
        BY <4>2, <4>3, <4>4
    <3>. QED
      BY <3>1, <3>2
  <2>3. CASE Reset
    <3>1. Current' = Null
      BY <2>0, <2>3 DEF Reset, Current, TypeOK
    <3>. QED
      BY <3>1 DEF Store!Next, Store!Discard, Baseline, Exposed
  <2>4. CASE RotateGeneration
    <3>1. Current' = Null
      BY <2>0, <2>4 DEF RotateGeneration, Current, TypeOK, IInv, GenerationInv
    <3>. QED
      BY <3>1 DEF Store!Next, Store!Discard, Baseline, Exposed
  <2>5. UNCHANGED vars => UNCHANGED <<backend, roomKey>>
    BY DEF vars, sessionVars
  <2>. QED
    BY <2>1, <2>2, <2>3, <2>4, <2>5, SessionStep DEF Next, Backend
<1>. QED
  BY <1>1, <1>2, Invariant, PTL DEF Spec, NothingLost, Store!Spec

\* A baseline is only replaced under the key it is sealed with: the writer is on the
\* line of the row it replaces, and only sessions with that key are.
THEOREM KeyKept == Spec => OneKeyPerLine
<1>1. ASSUME IInv, [Next]_vars, generation' = generation, Current # Null, Current' # Null, ~Exposed
      PROVE  Current'.key = Current.key
  <2>0. TypeOK
    BY <1>1 DEF IInv
  <2>1. CASE UNCHANGED <<backend, roomKey>>
    BY <2>1, OnLineFrame
  <2>2. ASSUME NEW q \in requests, Put(q)
        PROVE  Current'.key = Current.key
    <3>1. CASE PutAnswer(q).status # "written"
      BY <2>1, <2>2, <3>1, PutRefused
    <3>2. CASE PutAnswer(q).status = "written"
      <4>1. /\ Current.revision \in 1..MaxRevision
            /\ Current.revision <= retired \/ Current.key = roomKey[q.session]
        BY <1>1, <2>2, <3>2, WriterOnLine
      <4>2. retired \in Nat
        BY <2>0 DEF TypeOK
      <4>3. Current.key = roomKey[q.session]
        BY <1>1, <4>1, <4>2 DEF Exposed
      <4>. QED
        BY <1>1, <2>2, <3>2, <4>3, PutWritten
    <3>. QED
      BY <3>1, <3>2
  <2>3. Reset => Current' = Null
    BY <2>0 DEF Reset, Current, TypeOK
  <2>4. ~RotateGeneration
    BY <1>1, <2>0 DEF RotateGeneration, TypeOK
  <2>5. UNCHANGED vars => UNCHANGED <<backend, roomKey>>
    BY DEF vars, sessionVars
  <2>. QED
    BY <1>1, <2>1, <2>2, <2>3, <2>4, <2>5, SessionStep DEF Next, Backend
<1>2. IInv /\ [Next]_vars =>
        [generation' = generation /\ Current # Null /\ Current' # Null
          /\ ~Exposed => Current'.key = Current.key]_vars
  BY <1>1
<1>. QED
  BY <1>2, Invariant, PTL DEF Spec, OneKeyPerLine

\* What ends a flush.
LEMMA FlushEnds ==
    ASSUME TypeOK, [Next]_vars, NEW s \in Sessions, flush[s].pc # "done", flush'[s].pc = "done"
    PROVE  \/ SettleFlush(s) /\ flush[s].answer.status # "conflict"
           \/ SettleRetry(s)
           \/ SettleWinner(s) /\ flush[s].answer.status # "loaded"
<1>1. CASE Backend
  BY <1>1, PutSlots DEF Backend, Reset, RotateGeneration
<1>2. ASSUME NEW t \in Sessions, User(t)
      PROVE  FALSE
  <2>1. CASE Leave(t)
    <3>1. \/ flush' = [flush EXCEPT ![t] = [Idle EXCEPT !.pc = "wait",
                    !.elements = canvas[t], !.expected = revision[t]]]
          \/ flush' = [flush EXCEPT ![t] = [Idle EXCEPT !.pc = "sent",
                    !.elements = canvas[t], !.expected = revision[t]]]
      BY <2>1 DEF Leave, SendFlush
    <3>. QED
      BY <3>1 DEF Idle, TypeOK
  <2>2. CASE ~Leave(t)
    BY <1>2, <2>2 DEF User, Join, Reconnect, Edit, Deliver
  <2>. QED
    BY <2>1, <2>2
<1>3. ASSUME NEW t \in Sessions, Session(t)
      PROVE  \/ SettleFlush(s) /\ flush[s].answer.status # "conflict"
             \/ SettleRetry(s)
             \/ SettleWinner(s) /\ flush[s].answer.status # "loaded"
  <2>1. CASE t # s
    <3>1. CASE \E e \in Edits : Deliver(t, s, e)
      BY <3>1 DEF Deliver
    <3>2. CASE ~\E e \in Edits : Deliver(t, s, e)
      BY <1>3, <2>1, <3>2, UntouchedOthers DEF Untouched
    <3>. QED
      BY <3>1, <3>2
  <2>2. CASE t = s
    <3>1. ASSUME NEW pc \in {"sent", "retry"}, NEW elems, NEW exp, SendFlush(s, pc, elems, exp)
          PROVE  FALSE
      BY <3>1 DEF SendFlush, Idle, TypeOK
    <3>2. ASSUME AnswerWinner(s) \/ PutFails(s)
          PROVE  FALSE
      <4>1. \/ flush' = flush
            \/ \E answer : flush' = [flush EXCEPT ![s].answer = answer]
        BY <3>2 DEF AnswerWinner, PutFails
      <4>2. flush[s] \in FlushSlot
        BY DEF TypeOK
      <4>3. \A answer : [flush[s] EXCEPT !.answer = answer].pc = flush[s].pc
        BY <4>2 DEF FlushSlot, SlotSet
      <4>4. flush'[s] = flush[s] \/ \E answer : flush'[s] = [flush[s] EXCEPT !.answer = answer]
        BY <4>1 DEF TypeOK
      <4>. QED
        BY <4>3, <4>4
    <3>3. ASSUME SettleFlush(s)
          PROVE  flush[s].answer.status # "conflict"
      <4>1. flush[s].answer.status = "conflict"
              => flush'[s] = [flush[s] EXCEPT !.pc = "winner", !.answer = Pending]
        BY <3>3 DEF SettleFlush, TypeOK
      <4>2. [flush[s] EXCEPT !.pc = "winner", !.answer = Pending].pc = "winner"
        BY SlotFields DEF FlushSlot, SlotSet
      <4>. QED
        BY <4>1, <4>2
    <3>4. ASSUME SettleWinner(s)
          PROVE  flush[s].answer.status # "loaded"
      <4>1. flush[s].answer.status = "loaded" =>
              SendFlush(s, "retry", flush[s].elements \cup flush[s].answer.elements,
                        flush[s].answer.revision)
        BY <3>4 DEF SettleWinner
      <4>. QED
        BY <3>1, <4>1
    <3>5. ~SendAfterWait(s)
      BY <3>1 DEF SendAfterWait
    <3>6. ~(TickLoad(s) \/ AnswerLoad(s) \/ SettleLoad(s) \/ TickWrite(s)
             \/ SettleCadence(s) \/ AnswerReload(s) \/ SettleReload(s))
      BY DEF TickLoad, AnswerLoad, SettleLoad, TickWrite, SettleCadence, AnswerReload, SettleReload
    <3>7. SettleFlush(s) \/ SettleRetry(s) \/ SettleWinner(s)
      BY <1>3, <2>2, <3>2, <3>5, <3>6 DEF Session
    <3>. QED
      BY <3>3, <3>4, <3>7
  <2>. QED
    BY <2>1, <2>2
<1>. QED
  BY <1>1, <1>2, <1>3 DEF Next, vars

\* A flush that ends without an excuse has stored the scene it captured: its write was
\* accepted, and nothing stored is lost until a reset.
THEOREM FlushStored == Spec => FlushPersists
<1>1. ASSUME IInv, [Next]_vars, NEW s \in Sessions,
             flush[s].pc # "done", flush'[s].pc = "done", ~Excused(s)
      PROVE  flush[s].elements \subseteq Baseline
  <2>1. TypeOK /\ SessionInv(s)
    BY <1>1 DEF IInv
  <2>2. /\ retired = 0 /\ authGeneration[s] = generation
        /\ flush[s].answer.status \notin {"failed", "unavailable", "unreadable"}
        /\ ~(flush[s].pc = "retry" /\ flush[s].answer.status = "conflict")
    BY <1>1, <2>1 DEF Excused, TypeOK
  <2>3. \/ SettleFlush(s) /\ flush[s].answer.status # "conflict"
        \/ SettleRetry(s)
        \/ SettleWinner(s) /\ flush[s].answer.status # "loaded"
    BY <1>1, <2>1, FlushEnds
  <2>4. flush[s].answer.status = "written"
    BY <2>1, <2>2, <2>3
       DEF SettleFlush, SettleRetry, SettleWinner, SessionInv, FlushAnswers, StoredInv
  <2>. QED
    BY <2>1, <2>2, <2>4 DEF SessionInv, StoredInv
<1>2. IInv /\ [Next]_vars =>
        [\A s \in Sessions :
            flush[s].pc # "done" /\ flush'[s].pc = "done" /\ ~Excused(s)
                => flush[s].elements \subseteq Baseline]_vars
  BY <1>1
<1>. QED
  BY <1>2, Invariant, PTL DEF Spec, FlushPersists
=============================================================================
