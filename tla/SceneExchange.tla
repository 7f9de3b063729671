---------------------------- MODULE SceneExchange ----------------------------
(***************************************************************************)
(* Two tabs edit one room: what each publishes, what it holds behind its   *)
(* join barrier, how lost frames are noticed, and who repairs them.        *)
(*                                                                         *)
(* An element stands for one edit, drawn by one tab; reconciling is the    *)
(* union.  `queue` holds the frames on their way to a tab: relayed in      *)
(* order, waiting in its inbound queue to be opened.  Sequence numbers are *)
(* only compared with the last one accepted, so a frame carries whether    *)
(* one before it is missing, and the receiver whether the next will.       *)
(*                                                                         *)
(* Bounds: each element is drawn once; `faults` limits lost connections,   *)
(* frames dropped by a full inbound queue and refused sends; the repair    *)
(* interval is longer than a frame takes to be handled.                    *)
(***************************************************************************)
EXTENDS Naturals, Sequences, FiniteSets

CONSTANTS
  Tabs,        \* two tabs, both editors
  Elements,    \* edits
  Author,      \* which tab draws an element
  MaxHeld,     \* maxBufferedMessages of the join barrier
  MaxOffline,  \* maxElements of the offline queue
  MaxRepairs,  \* maxSceneRepairAttempts
  Flaky,       \* the tabs that faults happen to
  MaxFaults

VARIABLES tabs, stored, faults
vars == <<tabs, stored, faults>>

Peer(t) == CHOOSE p \in Tabs : p # t

Message == [kind : {"init", "update"}, elements : SUBSET Elements, gap : BOOLEAN]

TabState == [
  phase     : {"down", "joining", "live"},  \* not connected, behind the barrier, past it
  canvas    : SUBSET Elements,
  synced    : SUBSET Elements,  \* what the tracker believes the room has
  queue     : Seq(Message),
  behind    : BOOLEAN,          \* the next frame of the peer will show a gap
  sent      : BOOLEAN,          \* sceneSequence > 0
  reported  : BOOLEAN,          \* sceneSyncReported
  held      : SUBSET Elements,  \* the elements of the held messages
  holding   : 0..MaxHeld,       \* how many messages are held
  baseline  : {"loading", "known", "unknown"},  \* the stored baseline, to the cadence
  hasSynced : BOOLEAN,
  newcomer  : BOOLEAN,          \* a membership list with a new peer has not been seen
  offline   : SUBSET Elements,  \* recorded by the offline queue
  flush     : BOOLEAN,          \* a coalesced flush is scheduled
  recent    : BOOLEAN,          \* a full sync within the interval
  repair    : BOOLEAN,          \* the repair timer is armed
  attempts  : 0..MaxRepairs]    \* sceneRepairAttempts

Fresh == [phase |-> "down", canvas |-> {}, synced |-> {}, queue |-> <<>>, behind |-> FALSE,
          sent |-> FALSE, reported |-> FALSE, held |-> {}, holding |-> 0,
          baseline |-> "unknown", hasSynced |-> FALSE, newcomer |-> FALSE, offline |-> {},
          flush |-> FALSE, recent |-> FALSE, repair |-> FALSE, attempts |-> 0]

Init == tabs = [t \in Tabs |-> Fresh] /\ stored = {} /\ faults = 0

Fault(t) == t \in Flaky /\ faults < MaxFaults /\ faults' = faults + 1

(***************************************************************************)
(* What the handlers share: each maps the tabs to the tabs.                *)
(***************************************************************************)
Pending(s, t) == s[t].canvas \ s[t].synced

\* Mutation: nothing is repaired unless it is asked for.
ArmNever(s, t) == s

Arm(s, t) ==
  IF s[t].attempts >= MaxRepairs THEN s ELSE [s EXCEPT ![t].repair = TRUE]

\* A frame is relayed to the peer, if it is in the room.
Relay(s, t, kind, elements) ==
  LET p == Peer(t)
      frame == [kind |-> kind, elements |-> elements, gap |-> s[p].behind]
      marked == [s EXCEPT ![t].sent = TRUE, ![t].synced = @ \cup elements]
  IN  IF s[p].phase = "down" THEN marked
      ELSE [marked EXCEPT ![p].queue = Append(@, frame), ![p].behind = FALSE]

SendFullScene(s, t) ==
  IF s[t].phase # "live" THEN s
  ELSE LET out == [Relay(s, t, "init", s[t].canvas) EXCEPT ![t].recent = TRUE]
       IN  IF s[t].canvas = {} THEN out ELSE Arm(out, t)

\* The delta, when there is one; `after` is what the caller does when it was sent.
SendSceneDelta(s, t) ==
  IF Pending(s, t) = {} THEN s ELSE Arm(Relay(s, t, "update", Pending(s, t)), t)

\* Merged into the canvas; what was adopted needs no sending.
ApplyRemote(s, t, elements) ==
  [s EXCEPT ![t].canvas = @ \cup elements, ![t].synced = @ \cup elements]

FullSyncOwed(s, t, knowledge) ==
  \/ ~s[t].hasSynced
  \/ knowledge = "unknown"
  \/ Cardinality(s[t].offline) > MaxOffline

\* After the baseline: the whole scene, or what the baseline did not have.
PublishAfterBaseline(s, t, whole) ==
  IF whole THEN SendFullScene(s, t)
  ELSE [SendSceneDelta(s, t) EXCEPT ![t].recent = TRUE]

ReleaseBarrier(s, t, knowledge) ==
  IF s[t].phase # "joining" THEN s
  ELSE LET replayed == [ApplyRemote(s, t, s[t].held) EXCEPT
                          ![t].phase = "live", ![t].held = {}, ![t].holding = 0,
                          ![t].hasSynced = TRUE, ![t].offline = {}]
       IN  PublishAfterBaseline(replayed, t, FullSyncOwed(s, t, knowledge))

(***************************************************************************)
(* Connections.                                                            *)
(***************************************************************************)
\* The relay puts the tab into the room: sequences, the tracker and the repair budget
\* start again, the stored baseline is asked for, and the peer is told of a newcomer.
Join(t) ==
  /\ tabs[t].phase = "down"
  /\ LET p == Peer(t)
         up == tabs[p].phase # "down"
     IN  tabs' = [tabs EXCEPT
           ![t].phase = "joining", ![t].synced = {}, ![t].sent = FALSE,
           ![t].behind = up /\ tabs[p].sent, ![t].reported = FALSE,
           ![t].baseline = "loading", ![t].newcomer = FALSE, ![t].recent = FALSE,
           ![t].attempts = 0,
           ![p].newcomer = up, ![p].behind = FALSE]
  /\ UNCHANGED <<stored, faults>>

\* The connection is lost, and with it what was on its way to the tab; of what the tab
\* sent, the last frames may not have reached the relay.
Disconnect(t) ==
  /\ tabs[t].phase # "down"
  /\ Fault(t)
  /\ LET p == Peer(t)
     IN  \E n \in 0..Len(tabs[p].queue) :
           tabs' = [tabs EXCEPT
             ![t].phase = "down", ![t].queue = <<>>, ![t].held = {}, ![t].holding = 0,
             ![t].repair = FALSE, ![t].newcomer = FALSE, ![t].behind = FALSE,
             ![p].queue = SubSeq(@, 1, n), ![p].newcomer = FALSE]
  /\ UNCHANGED stored

\* The membership list with a newcomer: the other member is the elected responder,
\* unless it waits for a baseline itself.
SeeNewcomer(t) ==
  /\ tabs[t].newcomer
  /\ tabs' = SendFullScene([tabs EXCEPT ![t].newcomer = FALSE], t)
  /\ UNCHANGED <<stored, faults>>

(***************************************************************************)
(* Baselines.                                                              *)
(***************************************************************************)
\* The stored snapshot arrives; its elements are merged also when it comes late.
SnapshotLoaded(t) ==
  /\ tabs[t].baseline = "loading"
  /\ LET merged == ApplyRemote([tabs EXCEPT ![t].baseline = "known"], t, stored)
     IN  tabs' = ReleaseBarrier(merged, t, "known")
  /\ UNCHANGED <<stored, faults>>

SnapshotUnavailable(t) ==
  /\ tabs[t].baseline = "loading"
  /\ tabs' = ReleaseBarrier([tabs EXCEPT ![t].baseline = "unknown"], t, "unknown")
  /\ UNCHANGED <<stored, faults>>

DeadlineFires(t) ==
  /\ tabs[t].phase = "joining"
  /\ tabs' = ReleaseBarrier(tabs, t, "unknown")
  /\ UNCHANGED <<stored, faults>>

\* Frames are handled long before an interval of twenty seconds passes.
Calm == \A t \in Tabs : tabs[t].queue = <<>> /\ ~tabs[t].flush

\* The cadence replaces the stored snapshot, in a tab that has merged it.
Store(t) ==
  /\ Calm /\ tabs[t].phase = "live" /\ tabs[t].baseline = "known"
  /\ stored \subseteq tabs[t].canvas /\ stored # tabs[t].canvas
  /\ stored' = tabs[t].canvas
  /\ UNCHANGED <<tabs, faults>>

(***************************************************************************)
(* Frames.                                                                 *)
(***************************************************************************)
\* Behind the barrier a snapshot is the baseline and anything else is held, or costs
\* the whole buffer.
Held(s, t, m) ==
  IF s[t].holding < MaxHeld
  THEN [s EXCEPT ![t].held = @ \cup m.elements, ![t].holding = @ + 1]
  ELSE [s EXCEPT ![t].held = {}, ![t].holding = 0]

Intercept(s, t, m) ==
  IF m.kind = "init" THEN ReleaseBarrier(ApplyRemote(s, t, m.elements), t, "known")
  ELSE Held(s, t, m)

\* Mutation: every snapshot draws a reply.
NeedsReplyAlways(s, t, m) == m.kind = "init" \/ m.gap

\* A snapshot that lacks something draws a reply, and so does a gap.
NeedsReply(s, t, m) ==
  IF m.kind = "init" THEN ~(s[t].canvas \subseteq m.elements) ELSE m.gap

Deliver(s, t, m) ==
  LET merged == [ApplyRemote(s, t, m.elements) EXCEPT ![t].attempts = 0]
  IN  IF NeedsReply(merged, t, m) THEN SendFullScene(merged, t) ELSE merged

Receive(t) ==
  /\ tabs[t].queue # <<>>
  /\ LET m == Head(tabs[t].queue)
         s == [tabs EXCEPT ![t].queue = Tail(@), ![t].reported = FALSE]
     IN  tabs' = IF tabs[t].phase = "joining" THEN Intercept(s, t, m) ELSE Deliver(s, t, m)
  /\ UNCHANGED <<stored, faults>>

\* The inbound queue is over its bound: the frame that arrives is dropped, and the
\* session asks for a repair, once per episode.
InboundOverflow(t) ==
  /\ Len(tabs[t].queue) > 1
  /\ Fault(t)
  /\ LET n == Len(tabs[t].queue) - 1
         dropped == [tabs EXCEPT ![t].queue = SubSeq(@, 1, n), ![t].behind = TRUE,
                                 ![t].reported = TRUE]
     IN  tabs' = IF tabs[t].reported THEN dropped ELSE SendFullScene(dropped, t)
  /\ UNCHANGED stored

(***************************************************************************)
(* Local edits, the flush and the repair timer.                            *)
(***************************************************************************)
Edit(t) ==
  /\ \E e \in Elements \ tabs[t].canvas :
       /\ Author[e] = t
       /\ tabs' = [tabs EXCEPT ![t].canvas = @ \cup {e}, ![t].attempts = 0,
                               ![t].flush = TRUE]
  /\ UNCHANGED <<stored, faults>>

Flushed(s, t) ==
  CASE s[t].phase = "down"    -> [s EXCEPT ![t].offline = @ \cup Pending(s, t)]
    [] s[t].phase = "joining" -> s
    [] OTHER -> IF s[t].recent THEN SendSceneDelta(s, t) ELSE SendFullScene(s, t)

Flush(t) ==
  /\ tabs[t].flush
  /\ tabs' = Flushed([tabs EXCEPT ![t].flush = FALSE], t)
  /\ UNCHANGED <<stored, faults>>

\* The outbound buffer is over its bound: nothing was sent, another flush is scheduled.
FlushRefused(t) ==
  /\ tabs[t].flush /\ tabs[t].phase = "live"
  /\ Fault(t)
  /\ UNCHANGED <<tabs, stored>>

IntervalPasses ==
  /\ Calm /\ \E t \in Tabs : tabs[t].recent
  /\ tabs' = [t \in Tabs |-> [tabs[t] EXCEPT !.recent = FALSE]]
  /\ UNCHANGED <<stored, faults>>

\* By the time the repair is due the last full sync is an interval old.
RepairFires(t) ==
  /\ Calm /\ tabs[t].repair
  /\ tabs' = [tabs EXCEPT ![t].repair = FALSE, ![t].attempts = @ + 1,
                          ![t].recent = FALSE, ![t].flush = TRUE]
  /\ UNCHANGED <<stored, faults>>

Baseline(t) == SnapshotLoaded(t) \/ SnapshotUnavailable(t) \/ DeadlineFires(t)

TabStep(t) ==
  \/ Join(t) \/ Disconnect(t) \/ SeeNewcomer(t)
  \/ Baseline(t) \/ Store(t)
  \/ Receive(t) \/ InboundOverflow(t)
  \/ Edit(t) \/ Flush(t) \/ FlushRefused(t) \/ RepairFires(t)

Next == IntervalPasses \/ \E t \in Tabs : TabStep(t)

\* Recovery reconnects, a barrier opens, frames and membership lists are handled, a
\* scheduled flush runs and an armed repair fires.
Fairness ==
  \A t \in Tabs :
    /\ WF_vars(Join(t)) /\ WF_vars(SeeNewcomer(t)) /\ WF_vars(Baseline(t))
    /\ WF_vars(Receive(t)) /\ WF_vars(Flush(t)) /\ WF_vars(RepairFires(t))

Spec == Init /\ [][Next]_vars /\ Fairness

(***************************************************************************)
(* Properties.                                                             *)
(***************************************************************************)
\* Every part of the state has its type.
TypeOK ==
  /\ tabs \in [Tabs -> TabState]
  /\ stored \subseteq Elements
  /\ faults \in 0..MaxFaults

\* When the edits and the faults are over the two canvases become equal, whatever was
\* dropped, held, refused or cut off on the way.
Converges == <>[](\A t \in Tabs : tabs[t].canvas = tabs[Peer(t)].canvas)

\* Snapshots do not answer each other for ever (sceneInitNeedsReply).
RepliesEnd == []<>(\A t \in Tabs : tabs[t].queue = <<>>)
=============================================================================
