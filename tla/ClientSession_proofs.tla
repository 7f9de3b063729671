------------------------ MODULE ClientSession_proofs ------------------------
(***************************************************************************)
(* The promises of ClientSession for any budget of attempts: the work a    *)
(* session has in hand is the work of its phase, whatever it awaits and in *)
(* whatever order that settles, and what settles late is harmless.         *)
(*                                                                         *)
(* The handlers are functions of the machine and the tab together, so the  *)
(* invariant is a predicate of that pair, and there is one lemma for each  *)
(* function the handlers share.                                            *)
(***************************************************************************)
EXTENDS ClientSession, TLAPS

USE MaxAttemptsAssumption

-----------------------------------------------------------------------------
(* The inductive invariant.                                                *)

\* What is in hand is the work of the phase.
Matches(r, t) ==
  /\ ~r.illegal
  /\ r.attempt <= MaxAttempts
  /\ t.socket \in {"opening", "joined"} => t.token = "own"
  /\ t.timer <=> r.phase = "waiting"
  /\ ("current" \in t.refresh \/ t.socket = "opening") <=> r.phase = "connecting"
  /\ ~("current" \in t.refresh /\ t.socket = "opening")
  /\ t.socket = "joined" <=> r.phase \in {"syncing", "live"}
  /\ t.connected <=> t.socket = "joined"
  /\ t.barrier # "none" <=> r.phase = "syncing"
  /\ t.deadline # "none" <=> r.phase = "syncing"
  /\ Stopped(t) => r.phase \in {"idle", "failed"} /\ t.socket = "closed"

\* The attempts are repaid when the session is idle, and one is left when it waits.
AttemptsLeft(r) ==
  /\ r.phase = "idle" => r.attempt = 0
  /\ r.phase = "waiting" => r.attempt < MaxAttempts

\* A session hears its transport until it has stopped, and then closes it for good; the
\* loads of a session that has stopped are stale, or its viewer's repair.
Stopping(r, t) ==
  /\ t.subscribed <=> ~Stopped(t)
  /\ t.socket = "closed" <=> Stopped(t)
  /\ r.phase = "failed" => Stopped(t)
  /\ t.terminated => t.loads \subseteq {"stale", "late"}

\* Nothing in use is of an earlier join or of another generation.
Fresh(t) == t.deadline # "stale" /\ t.revision # "stale" /\ t.token = "own"

Sound(s) ==
  /\ s \in Both
  /\ Matches(s.r, s.t) /\ AttemptsLeft(s.r) /\ Stopping(s.r, s.t) /\ Fresh(s.t)

IInv == Sound(Now) /\ world \in World /\ writes \in 0..1

-----------------------------------------------------------------------------
(* The machine.                                                            *)

LEMMA StartType ==
  ASSUME NEW r \in RecoveryState
  PROVE  Start(r) \in RecoveryState
<1>1. PICK k \in Nat : k = r.attempt + 1
  BY DEF RecoveryState
<1>2. [r EXCEPT !.phase = "connecting", !.attempt = k] \in RecoveryState
  BY DEF RecoveryState, Phases
<1>3. \/ Start(r) = [r EXCEPT !.phase = "connecting", !.attempt = k]
      \/ Start(r) = [r EXCEPT !.illegal = TRUE]
  BY <1>1 DEF Start, Throw
<1>. QED
  BY <1>2, <1>3 DEF RecoveryState, Phases

LEMMA MachineTypes ==
  ASSUME NEW r \in RecoveryState
  PROVE  /\ Connected(r) \in RecoveryState /\ Synced(r) \in RecoveryState
         /\ Stop(r) \in RecoveryState /\ Settle(r) \in RecoveryState
         /\ Repaid(r) \in RecoveryState
         /\ \A reason \in UnrecoverableReasons : Fail(r, reason) \in RecoveryState
BY DEF RecoveryState, Phases, Connected, Synced, Stop, Settle, Repaid, Fail, Throw

LEMMA FailFields ==
  ASSUME NEW r \in RecoveryState, NEW reason \in UnrecoverableReasons
  PROVE  /\ Fail(r, reason) \in RecoveryState /\ Fail(r, reason).phase = "failed"
         /\ Fail(r, reason).attempt = r.attempt
         /\ ~r.illegal => ~Fail(r, reason).illegal
         /\ r.phase = "failed" => Fail(r, reason) = r
BY DEF RecoveryState, Phases, Fail

\* A verdict is to ignore the end of an idle connection, to retry, or a failure.
LEMMA Verdicts ==
  ASSUME NEW reason \in DisconnectReasons
  PROVE  /\ Classify(reason) = "ignore" <=> reason = "idle"
         /\ Classify(reason) \in UnrecoverableReasons \cup {"ignore", "retry"}
BY DEF Classify, DisconnectReasons, UnrecoverableReasons

LEMMA RestingType ==
  ASSUME NEW r \in RecoveryState
  PROVE  [r EXCEPT !.phase = "idle", !.attempt = 0] \in RecoveryState
BY DEF RecoveryState, Phases

LEMMA RepaidFields ==
  ASSUME NEW r \in RecoveryState
  PROVE  /\ Repaid(r).phase = r.phase /\ (~r.illegal => ~Repaid(r).illegal)
         /\ r.attempt <= MaxAttempts => Repaid(r).attempt <= MaxAttempts
<1>1. Repaid(r).phase = r.phase
  BY DEF Repaid, RecoveryState
<1>2. ~r.illegal => ~Repaid(r).illegal
  BY DEF Repaid, RecoveryState
<1>3. r.attempt <= MaxAttempts => Repaid(r).attempt <= MaxAttempts
  BY DEF Repaid, RecoveryState
<1>. QED
  BY <1>1, <1>2, <1>3

\* What is left of the machine when a connection is lost: it retries within the budget,
\* rests, or has failed.
LEMMA LostFacts ==
  ASSUME NEW r \in RecoveryState, NEW reason \in DisconnectReasons,
         r.phase # "waiting", r.attempt <= MaxAttempts, ~r.illegal,
         r.phase = "idle" => r.attempt = 0,
         NEW l, l = Lost(r, reason)
  PROVE  /\ l \in RecoveryState /\ ~l.illegal /\ l.attempt <= MaxAttempts
         /\ l.phase \in {"idle", "waiting", "failed"} /\ AttemptsLeft(l)
         /\ r.phase \in {"idle", "failed"} => l = r
         /\ reason # "idle" /\ r.phase # "idle" => l.phase # "idle"
         /\ reason = "idle" /\ r.phase # "failed" => l.phase = "idle"
<1>1. CASE r.phase \in {"idle", "failed"}
  <2>1. l = r
    BY <1>1 DEF Lost
  <2>. QED
    BY <1>1, <2>1 DEF AttemptsLeft
<1>2. CASE r.phase \notin {"idle", "failed"}
  <2>1. PICK n : n = Repaid(r)
    OBVIOUS
  <2>2. n \in RecoveryState /\ n.attempt \in Nat
    BY <2>1, MachineTypes DEF RecoveryState
  <2>3. n.phase = r.phase /\ ~n.illegal
    BY <2>1, RepaidFields
  <2>4. n.attempt <= MaxAttempts
    BY <2>1, RepaidFields
  <2>5. CASE reason = "idle"
    <3>1. l = [n EXCEPT !.phase = "idle", !.attempt = 0]
      BY <1>2, <2>1, <2>2, <2>5, Verdicts DEF Lost
    <3>2. l \in RecoveryState
      BY <2>2, <3>1, RestingType
    <3>3. l.phase = "idle" /\ l.attempt = 0 /\ ~l.illegal
      BY <2>2, <2>3, <3>1 DEF RecoveryState
    <3>. QED
      BY <1>2, <2>5, <3>2, <3>3 DEF AttemptsLeft
  <2>6. ASSUME reason # "idle", NEW why \in UnrecoverableReasons, l = Fail(n, why)
        PROVE  l \in RecoveryState /\ l.phase = "failed" /\ ~l.illegal /\ l.attempt = n.attempt
    BY <2>2, <2>3, <2>6, FailFields
  <2>7. CASE reason # "idle" /\ Classify(reason) # "retry"
    <3>1. l = Fail(n, Classify(reason)) /\ Classify(reason) \in UnrecoverableReasons
      BY <1>2, <2>1, <2>7, Verdicts DEF Lost
    <3>. QED
      BY <1>2, <2>4, <2>6, <2>7, <3>1 DEF AttemptsLeft
  <2>8. CASE reason # "idle" /\ Classify(reason) = "retry" /\ n.attempt >= MaxAttempts
    <3>1. l = Fail(n, "retry-limit") /\ "retry-limit" \in UnrecoverableReasons
      BY <1>2, <2>1, <2>8 DEF Lost, UnrecoverableReasons
    <3>. QED
      BY <1>2, <2>4, <2>6, <2>8, <3>1 DEF AttemptsLeft
  <2>9. CASE reason # "idle" /\ Classify(reason) = "retry" /\ ~(n.attempt >= MaxAttempts)
    <3>1. l = [n EXCEPT !.phase = "waiting"]
      BY <1>2, <2>1, <2>9 DEF Lost
    <3>2. l \in RecoveryState
      BY <2>2, <3>1 DEF RecoveryState, Phases
    <3>3. l.phase = "waiting" /\ l.attempt = n.attempt /\ ~l.illegal
      BY <2>2, <2>3, <3>1 DEF RecoveryState
    <3>4. n.attempt < MaxAttempts
      BY <2>2, <2>9
    <3>. QED
      BY <1>2, <2>4, <2>9, <3>2, <3>3, <3>4 DEF AttemptsLeft
  <2>. QED
    BY <2>5, <2>7, <2>8, <2>9
<1>. QED
  BY <1>1, <1>2

-----------------------------------------------------------------------------
(* What the handlers share.                                                *)

LEMMA DisposeType ==
  ASSUME NEW t \in Tab
  PROVE  DisposeBarrier(t) \in Tab
BY DEF DisposeBarrier, Tab

LEMMA TerminateFields ==
  ASSUME NEW s \in Both, NEW n, n = Terminate(s)
  PROVE  /\ n \in Both /\ n.r = s.r /\ ~n.t.timer /\ "current" \notin n.t.refresh
         /\ n.t.socket = "closed" /\ ~n.t.connected /\ n.t.barrier = "none"
         /\ n.t.deadline = "none" /\ n.t.loads \subseteq {"stale"}
         /\ n.t.revision = s.t.revision /\ ~n.t.subscribed /\ n.t.terminated
         /\ n.t.token = s.t.token /\ n.t.destroyed = s.t.destroyed
<1>1. s.r \in RecoveryState /\ s.t \in Tab
  BY DEF Both
<1>2. PICK m : m = DisposeBarrier(JoinEpochMoves(AttemptEpochMoves(s.t)))
  OBVIOUS
<1>3. /\ m \in Tab /\ m.refresh \subseteq {"stale"} /\ m.loads \subseteq {"stale"}
      /\ m.barrier = "none" /\ m.deadline = "none" /\ m.revision = s.t.revision
      /\ m.token = s.t.token /\ m.destroyed = s.t.destroyed
  BY <1>1, <1>2 DEF AttemptEpochMoves, JoinEpochMoves, DisposeBarrier, Tab
<1>4. n = [s EXCEPT !.t = [m EXCEPT !.timer = FALSE, !.socket = "closed", !.connected = FALSE,
                                    !.offline = "none", !.subscribed = FALSE,
                                    !.terminated = TRUE]]
  BY <1>2 DEF Terminate
<1>5. /\ n.r = s.r
      /\ n.t = [m EXCEPT !.timer = FALSE, !.socket = "closed", !.connected = FALSE,
                         !.offline = "none", !.subscribed = FALSE, !.terminated = TRUE]
      /\ n = [r |-> n.r, t |-> n.t]
  BY <1>4 DEF Both
<1>6. n.t \in Tab
  BY <1>3, <1>5 DEF Tab, Sockets
<1>7. n \in Both
  BY <1>1, <1>5, <1>6 DEF Both
<1>. QED
  BY <1>3, <1>5, <1>7 DEF Tab

\* A session is stopped by a machine that has failed.
LEMMA TerminateSound ==
  ASSUME NEW s \in Both, ~s.r.illegal, s.r.attempt <= MaxAttempts, s.t.revision # "stale",
         s.t.token = "own", s.r.phase = "failed"
  PROVE  Sound(Terminate(s))
<1>1. PICK n : n = Terminate(s)
  OBVIOUS
<1>2. Sound(n)
  BY <1>1, TerminateFields DEF Sound, Matches, AttemptsLeft, Stopping, Fresh, Stopped
<1>. QED
  BY <1>1, <1>2

LEMMA FailSound ==
  ASSUME NEW s \in Both, NEW reason \in UnrecoverableReasons,
         ~s.r.illegal, s.r.attempt <= MaxAttempts, s.t.revision # "stale",
         s.t.token = "own"
  PROVE  Sound(FailRecovery(s, reason))
<1>1. PICK n : n = [s EXCEPT !.r = Fail(s.r, reason)]
  OBVIOUS
<1>2. s.r \in RecoveryState /\ s.t \in Tab /\ n = [r |-> Fail(s.r, reason), t |-> s.t]
  BY <1>1 DEF Both
<1>3. n \in Both /\ ~n.r.illegal /\ n.r.attempt <= MaxAttempts /\ n.r.phase = "failed"
  BY <1>2, FailFields DEF Both
<1>4. Sound(Terminate(n))
  BY <1>2, <1>3, TerminateSound
<1>. QED
  BY <1>1, <1>4 DEF FailRecovery

\* A session whose socket is gone, and which has not been told what that means.
Cut(s) ==
  /\ s \in Both
  /\ ~s.r.illegal /\ s.r.attempt <= MaxAttempts /\ (s.r.phase = "idle" => s.r.attempt = 0)
  /\ s.r.phase \notin {"waiting", "failed"}
  /\ ~s.t.timer /\ "current" \notin s.t.refresh /\ s.t.socket = "none"
  /\ s.t.subscribed /\ ~Stopped(s.t) /\ s.t.revision # "stale" /\ s.t.token = "own"
  /\ ~s.t.connected /\ s.t.barrier = "none" /\ s.t.deadline = "none"

LEMMA LossSound ==
  ASSUME NEW s, Cut(s), NEW reason \in DisconnectReasons, reason = "idle" \/ s.r.phase # "idle",
         NEW n, n = HandleConnectionLoss(s, reason)
  PROVE  Sound(n) /\ (reason = "idle" => n.r.phase = "idle" /\ n.t = s.t)
<1>1. PICK l : l = Lost(s.r, reason)
  OBVIOUS
<1>2. s.r \in RecoveryState /\ s.t \in Tab /\ s \in Both
  BY DEF Cut, Both
<1>3. /\ l \in RecoveryState /\ ~l.illegal /\ l.attempt <= MaxAttempts
      /\ l.phase \in {"idle", "waiting", "failed"} /\ AttemptsLeft(l)
      /\ (reason # "idle" => l.phase # "idle") /\ (reason = "idle" => l.phase = "idle")
  BY <1>1, <1>2, LostFacts DEF Cut
<1>4. PICK m : m = [s EXCEPT !.r = l]
  OBVIOUS
<1>5. m = [r |-> l, t |-> s.t] /\ m \in Both
  BY <1>2, <1>3, <1>4 DEF Both
<1>6. CASE l.phase = "failed"
  <2>1. n = Terminate(m)
    BY <1>1, <1>4, <1>5, <1>6 DEF HandleConnectionLoss
  <2>2. Sound(Terminate(m))
    BY <1>3, <1>5, <1>6, TerminateSound DEF Cut
  <2>. QED
    BY <1>3, <1>6, <2>1, <2>2
<1>7. CASE l.phase = "waiting"
  <2>1. n = [m EXCEPT !.t.timer = TRUE]
    BY <1>1, <1>4, <1>5, <1>7 DEF HandleConnectionLoss
  <2>2. n = [r |-> l, t |-> [s.t EXCEPT !.timer = TRUE]]
    BY <1>5, <2>1
  <2>3. PICK t \in Tab : t = [s.t EXCEPT !.timer = TRUE]
    BY <1>2 DEF Tab
  <2>4. /\ t.timer /\ t.refresh = s.t.refresh /\ t.socket = "none" /\ t.subscribed /\ ~Stopped(t)
        /\ t.revision # "stale" /\ ~t.connected /\ t.barrier = "none" /\ t.deadline = "none"
    BY <1>2, <2>3 DEF Tab, Cut, Stopped
  <2>6. t.token = "own"
    BY <1>2, <2>3 DEF Tab, Cut
  <2>5. n \in Both /\ n.r = l /\ n.t = t
    BY <1>3, <2>2, <2>3 DEF Both
  <2>. QED
    BY <1>3, <1>7, <2>4, <2>5, <2>6 DEF Sound, Matches, Stopping, Fresh, Cut, Stopped
<1>8. CASE l.phase = "idle"
  <2>1. n = m
    BY <1>1, <1>4, <1>5, <1>8 DEF HandleConnectionLoss
  <2>2. n \in Both /\ n.r = l /\ n.t = s.t
    BY <1>5, <2>1
  <2>. QED
    BY <1>3, <1>8, <2>2 DEF Sound, Matches, Stopping, Fresh, Cut, Stopped
<1>. QED
  BY <1>3, <1>6, <1>7, <1>8

\* A session that hears its transport, with no timer and no token request in hand.
Hearing(s) ==
  /\ s \in Both
  /\ ~s.r.illegal /\ s.r.attempt <= MaxAttempts /\ (s.r.phase = "idle" => s.r.attempt = 0)
  /\ s.r.phase \notin {"waiting", "failed"}
  /\ ~s.t.timer /\ "current" \notin s.t.refresh
  /\ s.t.subscribed /\ ~Stopped(s.t) /\ s.t.revision # "stale" /\ s.t.token = "own"

LEMMA SoundHears ==
  ASSUME NEW s, Sound(s), ~Stopped(s.t), s.t.socket \in {"opening", "joined"}
  PROVE  Hearing(s)
BY DEF Sound, Matches, AttemptsLeft, Stopping, Fresh, Hearing

\* The transport ends a connection, whichever side it was that closed it.
LEMMA DisconnectedSound ==
  ASSUME NEW s, Hearing(s),
         NEW reason \in DisconnectReasons, reason = "idle" \/ s.r.phase # "idle",
         NEW n, n = OnDisconnected([s EXCEPT !.t.socket = "none"], reason)
  PROVE  Sound(n) /\ (reason = "idle" => n.r.phase = "idle" /\ ~Stopped(n.t))
<1>1. /\ s \in Both /\ s.r \in RecoveryState /\ s.t \in Tab /\ s = [r |-> s.r, t |-> s.t]
  BY DEF Hearing, Both
<1>2. PICK m : m = [s EXCEPT !.t.socket = "none"]
  OBVIOUS
<1>3. m = [r |-> s.r, t |-> [s.t EXCEPT !.socket = "none"]]
  BY <1>1, <1>2
<1>4. m.t.subscribed /\ m.t = [s.t EXCEPT !.socket = "none"] /\ m.r = s.r /\ m.t \in Tab
  BY <1>1, <1>3 DEF Hearing, Tab, Sockets
<1>5. PICK k : k = [m EXCEPT !.t = [DisposeBarrier(m.t) EXCEPT !.connected = FALSE]]
  OBVIOUS
<1>6. n = HandleConnectionLoss(k, reason)
  BY <1>2, <1>4, <1>5 DEF OnDisconnected
<1>7. k = [r |-> s.r, t |-> [DisposeBarrier(m.t) EXCEPT !.connected = FALSE]]
  BY <1>3, <1>4, <1>5
<1>8. PICK t \in Tab : t = [DisposeBarrier(m.t) EXCEPT !.connected = FALSE]
  <2>1. PICK d \in Tab : d = DisposeBarrier(m.t)
    BY <1>4, DisposeType
  <2>2. [d EXCEPT !.connected = FALSE] \in Tab
    BY DEF Tab
  <2>. QED
    BY <2>1, <2>2
<1>9. /\ t.timer = s.t.timer /\ t.refresh = s.t.refresh /\ t.socket = "none" /\ t.subscribed
      /\ t.terminated = s.t.terminated /\ t.destroyed = s.t.destroyed
      /\ t.revision = s.t.revision /\ ~t.connected /\ t.barrier = "none" /\ t.deadline = "none"
      /\ t.token = s.t.token
  <2>1. PICK d : d = DisposeBarrier(m.t)
    OBVIOUS
  <2>2. d = [m.t EXCEPT !.barrier = "none", !.deadline = "none"]
    BY <2>1 DEF DisposeBarrier
  <2>3. /\ d \in Tab /\ d.timer = s.t.timer /\ d.refresh = s.t.refresh /\ d.socket = "none"
        /\ d.subscribed = m.t.subscribed /\ d.terminated = s.t.terminated
        /\ d.destroyed = s.t.destroyed /\ d.token = s.t.token
        /\ d.revision = s.t.revision /\ d.barrier = "none" /\ d.deadline = "none"
    BY <1>1, <1>4, <2>2 DEF Tab
  <2>4. t = [d EXCEPT !.connected = FALSE]
    BY <1>8, <2>1
  <2>. QED
    BY <1>4, <2>3, <2>4 DEF Tab
<1>10. k \in Both /\ k.r = s.r /\ k.t = t
  BY <1>1, <1>7, <1>8 DEF Both
<1>11. Cut(k)
  BY <1>9, <1>10 DEF Cut, Hearing, Stopped
<1>12. Sound(n) /\ (reason = "idle" => n.r.phase = "idle" /\ n.t = t)
  BY <1>6, <1>10, <1>11, LossSound
<1>. QED
  BY <1>9, <1>12 DEF Stopped, Hearing

-----------------------------------------------------------------------------
(* The end of the join.                                                    *)

\* What a session has drawn, queued or asked for makes no difference to its work.
LEMMA SameWork ==
  ASSUME NEW s, Sound(s), NEW n \in Both, n.r = s.r, n.t.timer = s.t.timer,
         n.t.refresh = s.t.refresh, n.t.socket = s.t.socket, n.t.token = s.t.token,
         n.t.connected = s.t.connected, n.t.barrier = s.t.barrier,
         n.t.deadline = s.t.deadline, n.t.revision # "stale",
         n.t.subscribed = s.t.subscribed, n.t.terminated = s.t.terminated,
         n.t.destroyed = s.t.destroyed,
         n.t.terminated => n.t.loads \subseteq {"stale", "late"}
  PROVE  Sound(n)
BY DEF Sound, Matches, AttemptsLeft, Stopping, Fresh, Stopped

LEMMA PublishSound ==
  ASSUME NEW s, Sound(s), NEW knowledge, NEW pending,
         NEW n, n = PublishAfterBaseline(s, knowledge, pending)
  PROVE  Sound(n)
<1>1. /\ s \in Both /\ s.r \in RecoveryState /\ s.t \in Tab /\ s = [r |-> s.r, t |-> s.t]
  BY DEF Sound, Both
<1>2. PICK t \in Tab : t = [s.t EXCEPT !.offline = "none"]
  BY <1>1 DEF Tab
<1>3. PICK d \in Both : d = [r |-> s.r, t |-> t]
  BY <1>1 DEF Both
<1>4. Sound(d)
  <2>1. /\ t.timer = s.t.timer /\ t.refresh = s.t.refresh /\ t.socket = s.t.socket
        /\ t.token = s.t.token /\ t.connected = s.t.connected /\ t.barrier = s.t.barrier
        /\ t.deadline = s.t.deadline /\ t.revision = s.t.revision /\ t.loads = s.t.loads
        /\ t.subscribed = s.t.subscribed /\ t.terminated = s.t.terminated
        /\ t.destroyed = s.t.destroyed
    BY <1>1, <1>2 DEF Tab
  <2>. QED
    BY <1>3, <2>1, SameWork DEF Sound, Stopping, Fresh
<1>5. d = [s EXCEPT !.t.offline = "none"]
  BY <1>1, <1>2, <1>3
<1>6. n \in {s, d, FailRecovery(d, "crypto-exhausted")}
  BY <1>5 DEF PublishAfterBaseline
<1>7. Sound(FailRecovery(d, "crypto-exhausted"))
  BY <1>4, FailSound DEF Sound, Matches, Fresh, UnrecoverableReasons
<1>. QED
  BY <1>4, <1>6, <1>7

\* A session that has joined, with its baseline at hand.
Open(s) ==
  /\ s \in Both
  /\ ~s.r.illegal /\ s.r.attempt <= MaxAttempts /\ s.r.phase = "syncing"
  /\ ~s.t.timer /\ "current" \notin s.t.refresh /\ s.t.socket = "joined" /\ s.t.token = "own"
  /\ s.t.connected /\ s.t.subscribed /\ ~Stopped(s.t) /\ s.t.revision # "stale"

LEMMA ReleaseSound ==
  ASSUME NEW s, IF s.t.barrier = "none" THEN Sound(s) ELSE Open(s), NEW knowledge, NEW pending,
         NEW n, n = ReleaseBarrier(s, knowledge, pending)
  PROVE  Sound(n)
<1>0. CASE s.t.barrier = "none"
  <2>1. n = s
    BY <1>0 DEF ReleaseBarrier
  <2>. QED
    BY <1>0, <2>1
<1>1. CASE s.t.barrier # "none"
  <2>0. Open(s)
    BY <1>1
  <2>1. /\ s \in Both /\ s.r \in RecoveryState /\ s.t \in Tab
    BY <2>0 DEF Open, Both
  <2>2. PICK r \in RecoveryState : r = [s.r EXCEPT !.phase = "live", !.stable = FALSE]
    BY <2>1 DEF RecoveryState, Phases
  <2>3. r.phase = "live" /\ r.illegal = s.r.illegal /\ r.attempt = s.r.attempt
    BY <2>1, <2>2 DEF RecoveryState
  <2>4. PICK t \in Tab : t = DisposeBarrier(s.t)
    BY <2>1, DisposeType
  <2>5. /\ t.timer = s.t.timer /\ t.refresh = s.t.refresh /\ t.socket = s.t.socket
        /\ t.token = s.t.token /\ t.connected = s.t.connected /\ t.barrier = "none"
        /\ t.deadline = "none" /\ t.revision = s.t.revision /\ t.loads = s.t.loads
        /\ t.subscribed = s.t.subscribed /\ t.terminated = s.t.terminated
        /\ t.destroyed = s.t.destroyed
    BY <2>1, <2>4 DEF DisposeBarrier, Tab
  <2>6. PICK opened \in Both : opened = [r |-> r, t |-> t]
    BY DEF Both
  <2>7. opened.r = r /\ opened.t = t
    BY <2>6
  <2>8. Sound(opened)
    BY <2>0, <2>3, <2>5, <2>7 DEF Open, Sound, Matches, AttemptsLeft, Stopping, Fresh, Stopped
  <2>9. PICK sent : sent = PublishAfterBaseline(opened, knowledge, pending)
    OBVIOUS
  <2>10. Sound(sent) /\ sent \in Both /\ sent.r \in RecoveryState /\ sent.t \in Tab
         /\ sent = [r |-> sent.r, t |-> sent.t]
    BY <2>8, <2>9, PublishSound DEF Sound, Both
  <2>11. PICK again \in BOOLEAN : again = (s.t.barrier = "overflowed" /\ ~CanEdit(sent.t))
    OBVIOUS
  <2>12. PICK loads : loads = IF again
           THEN sent.t.loads \cup {IF sent.t.terminated THEN "late" ELSE "reload"}
           ELSE sent.t.loads
    OBVIOUS
  <2>13. n = [sent EXCEPT !.t.hasSynced = TRUE, !.t.loads = loads]
    <3>1. opened = [r |-> IF s.r.phase = "syncing" THEN Synced(s.r) ELSE s.r,
                    t |-> DisposeBarrier(s.t)]
      BY <2>0, <2>2, <2>4, <2>6 DEF Open, Synced
    <3>. QED
      BY <1>1, <2>9, <2>10, <2>11, <2>12, <3>1 DEF ReleaseBarrier
  <2>14. n = [r |-> sent.r, t |-> [sent.t EXCEPT !.hasSynced = TRUE, !.loads = loads]]
    BY <2>10, <2>13
  <2>15. loads \subseteq Loads \cup {"stale"}
         /\ (sent.t.terminated => loads \subseteq {"stale", "late"})
    BY <2>10, <2>12 DEF Sound, Stopping, Tab, Loads
  <2>16. PICK u \in Tab : u = [sent.t EXCEPT !.hasSynced = TRUE, !.loads = loads]
    BY <2>10, <2>15 DEF Tab
  <2>17. /\ u.timer = sent.t.timer /\ u.refresh = sent.t.refresh /\ u.socket = sent.t.socket
         /\ u.token = sent.t.token /\ u.connected = sent.t.connected
         /\ u.barrier = sent.t.barrier /\ u.deadline = sent.t.deadline
         /\ u.revision = sent.t.revision /\ u.loads = loads
         /\ u.subscribed = sent.t.subscribed /\ u.terminated = sent.t.terminated
         /\ u.destroyed = sent.t.destroyed
    BY <2>10, <2>16 DEF Tab
  <2>18. n \in Both /\ n.r = sent.r /\ n.t = u
    BY <2>10, <2>14, <2>16 DEF Both
  <2>. QED
    BY <2>10, <2>15, <2>17, <2>18, SameWork DEF Sound, Fresh
<1>. QED
  BY <1>0, <1>1

-----------------------------------------------------------------------------
(* The actions.                                                            *)

LEMMA ApplySound ==
  ASSUME NEW s, Sound(s), Apply(s)
  PROVE  Sound(Now)'
<1>1. s = [r |-> s.r, t |-> s.t]
  BY DEF Sound, Both
<1>2. Now' = s
  BY <1>1 DEF Apply, Now
<1>. QED
  BY <1>2 DEF Sound

LEMMA NowFacts ==
  ASSUME IInv
  PROVE  /\ Sound(Now) /\ Now.r = recovery /\ Now.t = tab /\ Now \in Both
         /\ recovery \in RecoveryState /\ tab \in Tab
         /\ Matches(recovery, tab) /\ AttemptsLeft(recovery) /\ Stopping(recovery, tab)
         /\ Fresh(tab)
BY DEF IInv, Sound, Now, Both

LEMMA ConnectSound ==
  ASSUME IInv, Connect
  PROVE  Sound(Now)'
<1>1. /\ recovery \in RecoveryState /\ tab \in Tab /\ Matches(recovery, tab)
      /\ AttemptsLeft(recovery) /\ Stopping(recovery, tab) /\ Fresh(tab)
  BY NowFacts
<1>2. ~Stopped(tab) /\ recovery.phase = "idle" /\ tab.socket = "none"
  BY <1>1 DEF Connect, Matches, Stopping, Tab, Sockets
<1>3. PICK r \in RecoveryState : r = Start(recovery)
  BY <1>1, StartType
<1>4. r.phase = "connecting" /\ r.attempt = 1 /\ r.illegal = recovery.illegal
  BY <1>1, <1>2, <1>3 DEF Start, RecoveryState, AttemptsLeft
<1>5. PICK t \in Tab : t = [tab EXCEPT !.socket = "opening"]
  BY <1>1 DEF Tab, Sockets
<1>6. PICK s \in Both : s = [r |-> r, t |-> t]
  BY DEF Both
<1>7. Apply(s)
  BY <1>2, <1>3, <1>5, <1>6 DEF Connect, Apply
<1>. QED
  <2>1. s.r = r /\ s.t = t
    BY <1>6
  <2>2. /\ t.timer = tab.timer /\ t.refresh = tab.refresh /\ t.socket = "opening"
        /\ t.token = tab.token /\ t.connected = tab.connected /\ t.barrier = tab.barrier
        /\ t.deadline = tab.deadline /\ t.revision = tab.revision /\ t.loads = tab.loads
        /\ t.subscribed = tab.subscribed /\ t.terminated = tab.terminated
        /\ t.destroyed = tab.destroyed
    BY <1>1, <1>5 DEF Tab
  <2>3. Sound(s)
    BY <1>1, <1>2, <1>4, <1>6, <2>1, <2>2 DEF Sound, Matches, AttemptsLeft, Stopping, Fresh, Stopped
  <2>. QED
    BY <1>7, <2>3, ApplySound

LEMMA TimerFiresSound ==
  ASSUME IInv, TimerFires
  PROVE  Sound(Now)'
<1>1. /\ recovery \in RecoveryState /\ tab \in Tab /\ Matches(recovery, tab)
      /\ AttemptsLeft(recovery) /\ Stopping(recovery, tab) /\ Fresh(tab)
  BY NowFacts
<1>2. ~Stopped(tab) /\ recovery.phase = "waiting"
  BY <1>1 DEF TimerFires, Matches
<1>3. PICK r \in RecoveryState : r = Start(recovery)
  BY <1>1, StartType
<1>4. r.phase = "connecting" /\ r.attempt <= MaxAttempts /\ r.illegal = recovery.illegal
  BY <1>1, <1>2, <1>3 DEF Start, RecoveryState, AttemptsLeft
<1>5. PICK fired \in Tab : fired = [tab EXCEPT !.timer = FALSE]
  BY <1>1 DEF Tab
<1>6. PICK moved \in Tab : moved = AttemptEpochMoves(fired)
  <2>1. AttemptEpochMoves(fired) \in Tab
    BY DEF AttemptEpochMoves, Tab
  <2>. QED
    BY <2>1
<1>7. PICK t \in Tab : t = [moved EXCEPT !.refresh = @ \cup {"current"}]
  <2>1. [moved EXCEPT !.refresh = @ \cup {"current"}] \in Tab
    BY DEF Tab
  <2>. QED
    BY <2>1
<1>8. /\ ~t.timer /\ "current" \in t.refresh /\ t.socket = tab.socket
      /\ t.token = tab.token /\ t.connected = tab.connected /\ t.barrier = tab.barrier
      /\ t.deadline = tab.deadline /\ t.revision = tab.revision /\ t.loads = tab.loads
      /\ t.subscribed = tab.subscribed /\ t.terminated = tab.terminated
      /\ t.destroyed = tab.destroyed
  <2>1. /\ ~fired.timer /\ fired.socket = tab.socket
        /\ fired.token = tab.token /\ fired.connected = tab.connected
        /\ fired.barrier = tab.barrier /\ fired.deadline = tab.deadline
        /\ fired.revision = tab.revision /\ fired.loads = tab.loads
        /\ fired.subscribed = tab.subscribed /\ fired.terminated = tab.terminated
        /\ fired.destroyed = tab.destroyed
    BY <1>1, <1>5 DEF Tab
  <2>2. \E x : moved = [fired EXCEPT !.refresh = x]
    BY <1>6 DEF AttemptEpochMoves
  <2>3. \E x : t = [moved EXCEPT !.refresh = x \cup {"current"}]
    BY <1>7
  <2>. QED
    BY <2>1, <2>2, <2>3 DEF Tab
<1>9. PICK s \in Both : s = [r |-> r, t |-> t]
  BY DEF Both
<1>10. Apply(s)
  BY <1>2, <1>3, <1>5, <1>6, <1>7, <1>9 DEF TimerFires, Apply
<1>11. Sound(s)
  <2>1. s.r = r /\ s.t = t
    BY <1>9
  <2>. QED
    BY <1>1, <1>2, <1>4, <1>8, <2>1 DEF Sound, Matches, AttemptsLeft, Stopping, Fresh, Stopped
<1>. QED
  BY <1>10, <1>11, ApplySound

LEMMA RefreshSound ==
  ASSUME IInv, NEW epoch \in {"current", "stale"},
         NEW answer \in {"own", "moved", "refused", "retry"}, RefreshSettles(epoch, answer)
  PROVE  Sound(Now)'
<1>1. /\ recovery \in RecoveryState /\ tab \in Tab /\ Matches(recovery, tab)
      /\ AttemptsLeft(recovery) /\ Stopping(recovery, tab) /\ Fresh(tab)
      /\ Now.r = recovery /\ Now.t = tab /\ Now \in Both
  BY NowFacts
<1>2. PICK t \in Tab : t = [tab EXCEPT !.refresh = tab.refresh \ {epoch}]
  <2>1. [tab EXCEPT !.refresh = tab.refresh \ {epoch}] \in Tab
    BY <1>1 DEF Tab
  <2>. QED
    BY <2>1
<1>3. PICK s \in Both : s = [r |-> recovery, t |-> t]
  BY <1>1 DEF Both
<1>4. s = [Now EXCEPT !.t.refresh = @ \ {epoch}]
  BY <1>1, <1>2, <1>3 DEF Now
<1>5. /\ t.timer = tab.timer /\ t.refresh = tab.refresh \ {epoch} /\ t.socket = tab.socket
      /\ t.token = tab.token /\ t.connected = tab.connected /\ t.barrier = tab.barrier
      /\ t.deadline = tab.deadline /\ t.revision = tab.revision /\ t.loads = tab.loads
      /\ t.subscribed = tab.subscribed /\ t.terminated = tab.terminated
      /\ t.destroyed = tab.destroyed /\ s.r = recovery /\ s.t = t
  BY <1>1, <1>2, <1>3 DEF Tab
<1>6. CASE tab.destroyed \/ epoch # "current"
  <2>1. Apply(s)
    BY <1>4, <1>6 DEF RefreshSettles
  <2>2. Sound(s)
    BY <1>1, <1>5, <1>6 DEF Sound, Matches, AttemptsLeft, Stopping, Fresh, Stopped
  <2>. QED
    BY <2>1, <2>2, ApplySound
<1>7. CASE ~tab.destroyed /\ epoch = "current"
  <2>1. Apply(Refreshed(s, answer)) /\ "current" \in tab.refresh /\ answer \in Answers
    BY <1>4, <1>7 DEF RefreshSettles
  <2>2. recovery.phase = "connecting" /\ Cut(s)
    BY <1>1, <1>5, <1>7, <2>1 DEF Cut, Matches, AttemptsLeft, Stopping, Fresh, Stopped, Tab, Sockets
  <2>3. CASE answer = "refused"
    <3>1. Refusal \in UnrecoverableReasons
      BY DEF Refusal, UnrecoverableReasons
    <3>2. Sound(FailRecovery(s, Refusal))
      BY <2>2, <3>1, FailSound DEF Cut
    <3>. QED
      BY <2>1, <2>3, <3>2, ApplySound DEF Refreshed
  <2>4. CASE answer = "retry"
    <3>1. Sound(HandleConnectionLoss(s, "transient"))
      BY <1>5, <2>2, LossSound DEF DisconnectReasons
    <3>. QED
      BY <2>1, <2>4, <3>1, ApplySound DEF Refreshed
  <2>5. CASE answer = "moved"
    <3>1. Sound(FailRecovery(s, "generation-rotated"))
      BY <2>2, FailSound DEF Cut, UnrecoverableReasons
    <3>. QED
      BY <2>1, <2>5, <3>1, ApplySound DEF Refreshed
  <2>6. CASE answer = "own"
    <3>1. PICK u \in Tab : u = [t EXCEPT !.socket = "opening", !.token = "own"]
      BY DEF Tab, Sockets
    <3>2. PICK n \in Both : n = [r |-> recovery, t |-> u]
      BY <1>1 DEF Both
    <3>3. n = OpenSocket(s, answer)
      BY <1>3, <1>5, <2>2, <2>6, <3>1, <3>2 DEF OpenSocket, Cut
    <3>4. /\ u.timer = t.timer /\ u.refresh = t.refresh /\ u.socket = "opening"
          /\ u.token = "own" /\ u.connected = t.connected /\ u.barrier = t.barrier
          /\ u.deadline = t.deadline /\ u.revision = t.revision /\ u.loads = t.loads
          /\ u.subscribed = t.subscribed /\ u.terminated = t.terminated
          /\ u.destroyed = t.destroyed /\ n.r = recovery /\ n.t = u
      BY <3>1, <3>2 DEF Tab
    <3>5. Sound(n)
      BY <1>1, <1>5, <2>2, <3>4 DEF Sound, Matches, AttemptsLeft, Stopping, Fresh, Stopped, Cut
    <3>6. Apply(n)
      BY <2>1, <2>6, <3>3 DEF Refreshed
    <3>. QED
      BY <3>5, <3>6, ApplySound
  <2>. QED
    BY <2>3, <2>4, <2>5, <2>6
<1>. QED
  BY <1>6, <1>7

LEMMA JoinedSound ==
  ASSUME IInv, NEW editor \in BOOLEAN, Joined(editor)
  PROVE  Sound(Now)'
<1>1. /\ recovery \in RecoveryState /\ tab \in Tab /\ Matches(recovery, tab)
      /\ AttemptsLeft(recovery) /\ Stopping(recovery, tab) /\ Fresh(tab)
  BY NowFacts
<1>2. /\ tab.socket = "opening" /\ recovery.phase = "connecting" /\ ~Stopped(tab)
      /\ tab.subscribed /\ ~tab.timer /\ "current" \notin tab.refresh
  BY <1>1 DEF Joined, Matches, Stopping
<1>3. PICK r \in RecoveryState : r = [recovery EXCEPT !.phase = "syncing"]
  BY <1>1 DEF RecoveryState, Phases
<1>4. r.phase = "syncing" /\ r.attempt = recovery.attempt /\ r.illegal = recovery.illegal
  BY <1>1, <1>3 DEF RecoveryState
<1>5. PICK joined \in Tab : joined = [tab EXCEPT !.socket = "joined"]
  BY <1>1 DEF Tab, Sockets
<1>6. PICK moved \in Tab : moved = JoinEpochMoves(joined)
  <2>1. JoinEpochMoves(joined) \in Tab
    BY DEF JoinEpochMoves, Tab
  <2>. QED
    BY <2>1
<1>7. /\ joined.timer = tab.timer /\ joined.refresh = tab.refresh /\ joined.socket = "joined"
      /\ joined.token = tab.token /\ joined.subscribed = tab.subscribed
      /\ joined.terminated = tab.terminated /\ joined.destroyed = tab.destroyed
  BY <1>1, <1>5 DEF Tab
<1>8. /\ moved.timer = tab.timer /\ moved.refresh = tab.refresh /\ moved.socket = "joined"
      /\ moved.token = tab.token /\ moved.subscribed = tab.subscribed
      /\ moved.terminated = tab.terminated /\ moved.destroyed = tab.destroyed
  <2>1. \E x, y : moved = [joined EXCEPT !.loads = x, !.deadline = y]
    BY <1>6 DEF JoinEpochMoves
  <2>. QED
    BY <1>7, <2>1 DEF Tab
<1>9. PICK loads \in SUBSET (Loads \cup {"stale"}) : loads = moved.loads \cup {"join"}
  <2>1. moved.loads \subseteq Loads \cup {"stale"}
    BY DEF Tab
  <2>2. moved.loads \cup {"join"} \subseteq Loads \cup {"stale"}
    BY <2>1 DEF Loads
  <2>. QED
    BY <2>2
<1>10. PICK t \in Tab : t = [moved EXCEPT !.connected = TRUE, !.editor = editor,
                                         !.barrier = "holding", !.deadline = "current",
                                         !.loads = loads, !.revision = "unknown"]
  <2>1. [moved EXCEPT !.connected = TRUE, !.editor = editor, !.barrier = "holding",
                      !.deadline = "current", !.loads = loads, !.revision = "unknown"] \in Tab
    BY <1>9 DEF Tab
  <2>. QED
    BY <2>1
<1>11. /\ t.timer = tab.timer /\ t.refresh = tab.refresh /\ t.socket = "joined"
       /\ t.token = tab.token /\ t.subscribed = tab.subscribed
       /\ t.terminated = tab.terminated /\ t.destroyed = tab.destroyed
       /\ t.connected /\ t.barrier = "holding" /\ t.deadline = "current"
       /\ t.revision = "unknown"
  BY <1>8, <1>10 DEF Tab
<1>12. PICK s \in Both : s = [r |-> r, t |-> t]
  BY DEF Both
<1>13. Apply(s)
  <2>1. recovery' = r
    BY <1>2, <1>3 DEF Joined, Apply, Connected
  <2>2. tab' = [moved EXCEPT !.connected = TRUE, !.editor = editor,
                             !.barrier = "holding", !.deadline = "current",
                             !.loads = @ \cup {"join"}, !.revision = "unknown"]
    BY <1>2, <1>5, <1>6 DEF Joined, Apply
  <2>3. tab' = t
    BY <1>9, <1>10, <2>2 DEF Tab
  <2>. QED
    BY <1>12, <2>1, <2>3 DEF Apply
<1>14. Sound(s)
  <2>1. s.r = r /\ s.t = t
    BY <1>12
  <2>. QED
    BY <1>1, <1>2, <1>4, <1>11, <2>1 DEF Sound, Matches, AttemptsLeft, Stopping, Fresh, Stopped
<1>. QED
  BY <1>13, <1>14, ApplySound

LEMMA SocketLostSound ==
  ASSUME IInv, NEW reason \in DisconnectReasons, SocketLost(reason)
  PROVE  Sound(Now)'
<1>1. /\ Sound(Now) /\ Now.r = recovery /\ Now.t = tab /\ Matches(recovery, tab)
  BY NowFacts
<1>2. /\ ~Stopped(tab) /\ recovery.phase # "idle" /\ tab.socket \in {"opening", "joined"}
      /\ reason # "idle"
  BY <1>1 DEF SocketLost, Matches
<1>3. Sound(OnDisconnected([Now EXCEPT !.t.socket = "none"], reason))
  <2>1. Hearing(Now)
    BY <1>1, <1>2, SoundHears
  <2>. QED
    BY <1>1, <1>2, <2>1, DisconnectedSound
<1>. QED
  BY <1>3, ApplySound DEF SocketLost

-----------------------------------------------------------------------------
(* What the handlers of the baseline leave.                                *)

\* A session whose barrier is up has joined and listens.
LEMMA BarrierOpen ==
  ASSUME NEW s, Sound(s), s.t.barrier # "none"
  PROVE  Open(s)
BY DEF Sound, Matches, Stopping, Fresh, Open, Stopped

LEMMA HoldOverflowsSound ==
  ASSUME IInv, HoldOverflows
  PROVE  Sound(Now)'
<1>1. /\ recovery \in RecoveryState /\ tab \in Tab /\ Matches(recovery, tab)
      /\ AttemptsLeft(recovery) /\ Stopping(recovery, tab) /\ Fresh(tab)
      /\ Now.r = recovery /\ Now.t = tab
  BY NowFacts
<1>2. PICK t \in Tab : t = [tab EXCEPT !.barrier = "overflowed"]
  BY <1>1 DEF Tab
<1>3. PICK s \in Both : s = [r |-> recovery, t |-> t]
  BY <1>1 DEF Both
<1>4. Apply(s)
  BY <1>2, <1>3 DEF HoldOverflows, Apply, Now
<1>5. Sound(s)
  <2>1. /\ t.timer = tab.timer /\ t.refresh = tab.refresh /\ t.socket = tab.socket
        /\ t.token = tab.token /\ t.connected = tab.connected /\ t.barrier = "overflowed"
        /\ t.deadline = tab.deadline /\ t.revision = tab.revision /\ t.loads = tab.loads
        /\ t.subscribed = tab.subscribed /\ t.terminated = tab.terminated
        /\ t.destroyed = tab.destroyed /\ s.r = recovery /\ s.t = t
    BY <1>1, <1>2, <1>3 DEF Tab
  <2>2. recovery.phase = "syncing"
    BY <1>1 DEF HoldOverflows, Matches
  <2>. QED
    BY <1>1, <2>1, <2>2 DEF Sound, Matches, AttemptsLeft, Stopping, Fresh, Stopped
<1>. QED
  BY <1>4, <1>5, ApplySound

LEMMA PeerSnapshotSound ==
  ASSUME IInv, PeerSnapshot
  PROVE  Sound(Now)'
<1>1. Sound(Now) /\ Now.t = tab
  BY NowFacts
<1>2. PICK pending \in BOOLEAN : Apply(ReleaseBarrier(Now, "known", pending))
  BY DEF PeerSnapshot
<1>3. Sound(ReleaseBarrier(Now, "known", pending))
  BY <1>1, BarrierOpen, ReleaseSound
<1>. QED
  BY <1>2, <1>3, ApplySound

LEMMA DeadlineFiresSound ==
  ASSUME IInv, DeadlineFires
  PROVE  Sound(Now)'
<1>1. /\ recovery \in RecoveryState /\ tab \in Tab /\ Matches(recovery, tab)
      /\ AttemptsLeft(recovery) /\ Stopping(recovery, tab) /\ Fresh(tab)
      /\ Now.r = recovery /\ Now.t = tab
  BY NowFacts
<1>2. tab.deadline = "current" /\ tab.barrier # "none"
  BY <1>1 DEF DeadlineFires, Fresh, Matches, Tab
<1>3. PICK t \in Tab : t = [tab EXCEPT !.deadline = "none"]
  BY <1>1 DEF Tab
<1>4. PICK s \in Both : s = [r |-> recovery, t |-> t]
  BY <1>1 DEF Both
<1>5. s = [Now EXCEPT !.t.deadline = "none"]
  BY <1>3, <1>4 DEF Now
<1>6. Open(s) /\ s.t.barrier # "none"
  <2>1. /\ t.timer = tab.timer /\ t.refresh = tab.refresh /\ t.socket = tab.socket
        /\ t.token = tab.token /\ t.connected = tab.connected /\ t.barrier = tab.barrier
        /\ t.revision = tab.revision /\ t.loads = tab.loads
        /\ t.subscribed = tab.subscribed /\ t.terminated = tab.terminated
        /\ t.destroyed = tab.destroyed /\ s.r = recovery /\ s.t = t
    BY <1>1, <1>3, <1>4 DEF Tab
  <2>. QED
    BY <1>1, <1>2, <2>1 DEF Open, Matches, Stopping, Fresh, Stopped
<1>7. Sound(ReleaseBarrier(s, "unknown", TRUE))
  BY <1>6, ReleaseSound
<1>8. Apply(ReleaseBarrier(s, "unknown", TRUE))
  BY <1>2, <1>5 DEF DeadlineFires
<1>. QED
  BY <1>7, <1>8, ApplySound

\* The load that has settled is no longer in hand.
LEMMA LoadSettled ==
  ASSUME IInv, NEW load, NEW s, s = [Now EXCEPT !.t.loads = @ \ {load}]
  PROVE  Sound(s) /\ s.t.destroyed = tab.destroyed
<1>1. /\ Sound(Now) /\ recovery \in RecoveryState /\ tab \in Tab /\ Stopping(recovery, tab)
      /\ Fresh(tab) /\ Now.r = recovery /\ Now.t = tab
  BY NowFacts
<1>2. PICK loads \in SUBSET (Loads \cup {"stale"}) : loads = tab.loads \ {load}
  <2>1. tab.loads \ {load} \subseteq Loads \cup {"stale"}
    BY <1>1 DEF Tab
  <2>. QED
    BY <2>1
<1>3. PICK t \in Tab : t = [tab EXCEPT !.loads = loads]
  BY <1>1 DEF Tab
<1>4. PICK n \in Both : n = [r |-> recovery, t |-> t]
  BY <1>1 DEF Both
<1>5. s = n /\ n.r = Now.r /\ n.t = t
  <2>1. s = n
    BY <1>1, <1>2, <1>3, <1>4 DEF Now
  <2>2. n.r = recovery /\ n.t = t
    BY <1>4
  <2>. QED
    BY <1>1, <2>1, <2>2
<1>6. /\ t.timer = tab.timer /\ t.refresh = tab.refresh /\ t.socket = tab.socket
      /\ t.token = tab.token /\ t.connected = tab.connected /\ t.barrier = tab.barrier
      /\ t.deadline = tab.deadline /\ t.revision = tab.revision /\ t.loads = loads
      /\ t.subscribed = tab.subscribed /\ t.terminated = tab.terminated
      /\ t.destroyed = tab.destroyed
  BY <1>1, <1>3 DEF Tab
<1>7. t.terminated => t.loads \subseteq {"stale", "late"}
  BY <1>1, <1>2, <1>6 DEF Stopping
<1>8. Sound(n)
  <2>1. t.revision # "stale"
    BY <1>1, <1>6 DEF Fresh
  <2>2. /\ n.t.timer = Now.t.timer /\ n.t.refresh = Now.t.refresh /\ n.t.socket = Now.t.socket
        /\ n.t.token = Now.t.token /\ n.t.connected = Now.t.connected
        /\ n.t.barrier = Now.t.barrier /\ n.t.deadline = Now.t.deadline
        /\ n.t.subscribed = Now.t.subscribed /\ n.t.terminated = Now.t.terminated
        /\ n.t.destroyed = Now.t.destroyed
    BY <1>1, <1>5, <1>6
  <2>. QED
    BY <1>1, <1>5, <1>7, <2>1, <2>2, SameWork
<1>. QED
  BY <1>5, <1>6, <1>8

\* What a load that is current teaches of the stored revision is of this join.
LEMMA Learnt ==
  ASSUME NEW s, Sound(s), NEW revision \in {"unknown", "current"},
         NEW n, n = [s EXCEPT !.t.revision = revision]
  PROVE  Sound(n)
<1>1. /\ s \in Both /\ s.r \in RecoveryState /\ s.t \in Tab /\ s = [r |-> s.r, t |-> s.t]
  BY DEF Sound, Both
<1>2. PICK t \in Tab : t = [s.t EXCEPT !.revision = revision]
  BY <1>1 DEF Tab
<1>3. n = [r |-> s.r, t |-> t]
  BY <1>1, <1>2
<1>4. n \in Both /\ n.r = s.r /\ n.t = t
  BY <1>1, <1>3 DEF Both
<1>5. /\ t.timer = s.t.timer /\ t.refresh = s.t.refresh /\ t.socket = s.t.socket
      /\ t.token = s.t.token /\ t.connected = s.t.connected /\ t.barrier = s.t.barrier
      /\ t.deadline = s.t.deadline /\ t.revision = revision /\ t.loads = s.t.loads
      /\ t.subscribed = s.t.subscribed /\ t.terminated = s.t.terminated
      /\ t.destroyed = s.t.destroyed
  BY <1>1, <1>2 DEF Tab
<1>6. t.terminated => t.loads \subseteq {"stale", "late"}
  BY <1>5 DEF Sound, Stopping
<1>. QED
  BY <1>4, <1>5, <1>6, SameWork

\* A baseline that is adopted and opens the barrier, if there is one.
LEMMA BaselineSound ==
  ASSUME IInv, NEW load, Current(load), NEW pending, NEW s, s = [Now EXCEPT !.t.loads = @ \ {load}]
  PROVE  Sound(ReleaseBarrier(Adopt(s, load), "known", pending))
<1>1. PICK n : n = Adopt(s, load)
  OBVIOUS
<1>2. n = [s EXCEPT !.t.revision = "current"]
  BY <1>1 DEF Adopt, Current
<1>3. Sound(s)
  BY LoadSettled
<1>4. Sound(n)
  BY <1>2, <1>3, Learnt
<1>5. Sound(ReleaseBarrier(n, "known", pending))
  BY <1>4, BarrierOpen, ReleaseSound
<1>. QED
  BY <1>1, <1>5

LEMMA SnapshotLoadedSound ==
  ASSUME IInv, NEW load, NEW pending, SnapshotLoaded(load, pending)
  PROVE  Sound(Now)'
<1>1. PICK s : s = [Now EXCEPT !.t.loads = @ \ {load}]
  OBVIOUS
<1>2. CASE tab.destroyed \/ ~Current(load)
  <2>1. Apply(s)
    BY <1>1, <1>2 DEF SnapshotLoaded
  <2>. QED
    BY <1>1, <2>1, LoadSettled, ApplySound
<1>3. CASE ~(tab.destroyed \/ ~Current(load))
  <2>1. Apply(ReleaseBarrier(Adopt(s, load), "known", pending))
    BY <1>1, <1>3 DEF SnapshotLoaded
  <2>. QED
    BY <1>1, <1>3, <2>1, BaselineSound, ApplySound
<1>. QED
  BY <1>2, <1>3

LEMMA SnapshotEmptySound ==
  ASSUME IInv, NEW load, NEW pending, SnapshotEmpty(load, pending)
  PROVE  Sound(Now)'
<1>1. PICK s : s = [Now EXCEPT !.t.loads = @ \ {load}]
  OBVIOUS
<1>2. CASE tab.destroyed \/ ~Current(load)
  <2>1. Apply(s)
    BY <1>1, <1>2 DEF SnapshotEmpty
  <2>. QED
    BY <1>1, <2>1, LoadSettled, ApplySound
<1>3. CASE ~(tab.destroyed \/ ~Current(load))
  <2>1. Apply(ReleaseBarrier(Adopt(s, load), "known", pending))
    BY <1>1, <1>3 DEF SnapshotEmpty
  <2>. QED
    BY <1>1, <1>3, <2>1, BaselineSound, ApplySound
<1>. QED
  BY <1>2, <1>3

LEMMA SnapshotUnavailableSound ==
  ASSUME IInv, NEW load, NEW wrongKey \in BOOLEAN, SnapshotUnavailable(load, wrongKey)
  PROVE  Sound(Now)'
<1>1. PICK s : s = [Now EXCEPT !.t.loads = @ \ {load}]
  OBVIOUS
<1>2. Sound(s)
  BY <1>1, LoadSettled
<1>3. PICK unknown : unknown = [s EXCEPT !.t.revision = "unknown"]
  OBVIOUS
<1>4. PICK knowledge : knowledge = IF wrongKey THEN "unreadable" ELSE "unknown"
  OBVIOUS
<1>5. PICK opened : opened = ReleaseBarrier(unknown, knowledge, TRUE)
  OBVIOUS
<1>6. Sound(opened)
  <2>1. Sound(unknown)
    BY <1>2, <1>3, Learnt
  <2>. QED
    BY <1>5, <2>1, BarrierOpen, ReleaseSound
<1>7. Sound(FailRecovery(opened, "unreadable-room"))
  BY <1>6, FailSound DEF Sound, Matches, Fresh, UnrecoverableReasons
<1>8. Apply(s) \/ Apply(opened) \/ Apply(FailRecovery(opened, "unreadable-room"))
  BY <1>1, <1>3, <1>4, <1>5 DEF SnapshotUnavailable
<1>. QED
  BY <1>2, <1>6, <1>7, <1>8, ApplySound

-----------------------------------------------------------------------------
(* A session at work, and its end.                                         *)

LEMMA WriteConflictsSound ==
  ASSUME IInv, WriteConflicts
  PROVE  Sound(Now)'
<1>1. /\ Sound(Now) /\ recovery \in RecoveryState /\ tab \in Tab /\ Fresh(tab)
      /\ Now.r = recovery /\ Now.t = tab
  BY NowFacts
<1>2. PICK loads \in SUBSET (Loads \cup {"stale"}) : loads = tab.loads \cup {"reload"}
  <2>1. tab.loads \subseteq Loads \cup {"stale"}
    BY <1>1 DEF Tab
  <2>2. tab.loads \cup {"reload"} \subseteq Loads \cup {"stale"}
    BY <2>1 DEF Loads
  <2>. QED
    BY <2>2
<1>3. PICK t \in Tab : t = [tab EXCEPT !.loads = loads]
  BY <1>1 DEF Tab
<1>4. PICK n \in Both : n = [r |-> recovery, t |-> t]
  BY <1>1 DEF Both
<1>5. Apply(n)
  BY <1>2, <1>3, <1>4 DEF WriteConflicts, Apply, Now
<1>6. Sound(n)
  <2>1. /\ n.r = Now.r /\ n.t = t /\ t.timer = tab.timer /\ t.refresh = tab.refresh
        /\ t.socket = tab.socket /\ t.token = tab.token /\ t.connected = tab.connected
        /\ t.barrier = tab.barrier /\ t.deadline = tab.deadline /\ t.revision = tab.revision
        /\ t.subscribed = tab.subscribed /\ t.terminated = tab.terminated
        /\ t.destroyed = tab.destroyed
    BY <1>1, <1>3, <1>4 DEF Tab
  <2>2. ~tab.terminated /\ t.revision # "stale"
    BY <1>1, <2>1 DEF WriteConflicts, Stopped, Fresh
  <2>3. /\ n.t.timer = Now.t.timer /\ n.t.refresh = Now.t.refresh /\ n.t.socket = Now.t.socket
        /\ n.t.token = Now.t.token /\ n.t.connected = Now.t.connected
        /\ n.t.barrier = Now.t.barrier /\ n.t.deadline = Now.t.deadline
        /\ n.t.subscribed = Now.t.subscribed /\ n.t.terminated = Now.t.terminated
        /\ n.t.destroyed = Now.t.destroyed
    BY <1>1, <2>1
  <2>. QED
    BY <1>1, <2>1, <2>2, <2>3, SameWork
<1>. QED
  BY <1>5, <1>6, ApplySound

LEMMA StablyLiveSound ==
  ASSUME IInv, StablyLive
  PROVE  Sound(Now)'
<1>1. /\ Sound(Now) /\ recovery \in RecoveryState /\ tab \in Tab
      /\ Now.r = recovery /\ Now.t = tab
  BY NowFacts
<1>2. PICK r \in RecoveryState : r = Settle(recovery)
  BY <1>1, MachineTypes
<1>3. /\ r.phase = recovery.phase /\ r.attempt = recovery.attempt
      /\ r.illegal = recovery.illegal
  BY <1>1, <1>2 DEF Settle, RecoveryState
<1>4. PICK n \in Both : n = [r |-> r, t |-> tab]
  BY <1>1 DEF Both
<1>5. Apply(n)
  BY <1>2, <1>4 DEF StablyLive, Apply, Now
<1>6. Sound(n)
  <2>1. n.r = r /\ n.t = tab
    BY <1>4
  <2>2. /\ Matches(recovery, tab) /\ AttemptsLeft(recovery) /\ Stopping(recovery, tab)
        /\ Fresh(tab)
    BY NowFacts
  <2>. QED
    BY <1>3, <2>1, <2>2 DEF Sound, Matches, AttemptsLeft, Stopping, Fresh, Stopped
<1>. QED
  BY <1>5, <1>6, ApplySound

LEMMA OfflineEditSound ==
  ASSUME IInv, OfflineEdit
  PROVE  Sound(Now)'
<1>1. /\ Sound(Now) /\ recovery \in RecoveryState /\ tab \in Tab /\ Fresh(tab)
      /\ Stopping(recovery, tab) /\ Now.r = recovery /\ Now.t = tab
  BY NowFacts
<1>2. PICK verdict \in {"delta", "full"} : Apply([Now EXCEPT !.t.offline = verdict])
  BY DEF OfflineEdit
<1>3. PICK t \in Tab : t = [tab EXCEPT !.offline = verdict]
  BY <1>1 DEF Tab
<1>4. PICK n \in Both : n = [r |-> recovery, t |-> t]
  BY <1>1 DEF Both
<1>5. Apply(n)
  BY <1>2, <1>3, <1>4 DEF Apply, Now
<1>6. Sound(n)
  <2>1. /\ n.r = Now.r /\ n.t = t /\ t.timer = tab.timer /\ t.refresh = tab.refresh
        /\ t.socket = tab.socket /\ t.token = tab.token /\ t.connected = tab.connected
        /\ t.barrier = tab.barrier /\ t.deadline = tab.deadline /\ t.revision = tab.revision
        /\ t.loads = tab.loads
        /\ t.subscribed = tab.subscribed /\ t.terminated = tab.terminated
        /\ t.destroyed = tab.destroyed
    BY <1>1, <1>3, <1>4 DEF Tab
  <2>2. t.revision # "stale" /\ (t.terminated => t.loads \subseteq {"stale", "late"})
    BY <1>1, <2>1 DEF Fresh, Stopping
  <2>3. /\ n.t.timer = Now.t.timer /\ n.t.refresh = Now.t.refresh /\ n.t.socket = Now.t.socket
        /\ n.t.token = Now.t.token /\ n.t.connected = Now.t.connected
        /\ n.t.barrier = Now.t.barrier /\ n.t.deadline = Now.t.deadline
        /\ n.t.subscribed = Now.t.subscribed /\ n.t.terminated = Now.t.terminated
        /\ n.t.destroyed = Now.t.destroyed
    BY <1>1, <2>1
  <2>. QED
    BY <1>1, <2>1, <2>2, <2>3, SameWork
<1>. QED
  BY <1>5, <1>6, ApplySound

LEMMA FailuresSound ==
  ASSUME IInv, SendRefused \/ RoomUnreadable
  PROVE  Sound(Now)'
<1>1. PICK reason \in UnrecoverableReasons : Apply(FailRecovery(Now, reason))
  BY DEF SendRefused, RoomUnreadable, UnrecoverableReasons
<1>2. Sound(FailRecovery(Now, reason))
  BY NowFacts, FailSound DEF Sound, Matches, Fresh
<1>. QED
  BY <1>1, <1>2, ApplySound

\* A machine that is stopped is at rest, with its attempts repaid.
LEMMA StopFields ==
  ASSUME NEW r \in RecoveryState
  PROVE  /\ Stop(r) \in RecoveryState /\ Stop(r).phase = "idle" /\ Stop(r).attempt = 0
         /\ Stop(r).illegal = r.illegal
BY DEF Stop, RecoveryState, Phases

\* The requests of an earlier attempt are stale, and nothing else changes.
LEMMA AttemptMoves ==
  ASSUME NEW t \in Tab, NEW m, m = AttemptEpochMoves(t)
  PROVE  /\ m \in Tab /\ "current" \notin m.refresh /\ m.timer = t.timer
         /\ m.socket = t.socket /\ m.token = t.token /\ m.connected = t.connected
         /\ m.barrier = t.barrier /\ m.deadline = t.deadline /\ m.revision = t.revision
         /\ m.loads = t.loads /\ m.subscribed = t.subscribed /\ m.terminated = t.terminated
         /\ m.destroyed = t.destroyed
<1>1. PICK x \in SUBSET {"current", "stale"} :
           x = (IF t.refresh = {} THEN {} ELSE {"stale"})
  OBVIOUS
<1>2. m = [t EXCEPT !.refresh = x] /\ "current" \notin x
  BY <1>1 DEF AttemptEpochMoves
<1>. QED
  BY <1>1, <1>2 DEF Tab

LEMMA DisconnectSound ==
  ASSUME IInv, Disconnect
  PROVE  Sound(Now)'
<1>1. /\ recovery \in RecoveryState /\ tab \in Tab /\ Matches(recovery, tab)
      /\ AttemptsLeft(recovery) /\ Stopping(recovery, tab) /\ Fresh(tab)
  BY NowFacts
<1>2. PICK moved \in Tab : moved = AttemptEpochMoves(tab)
  BY <1>1, AttemptMoves
<1>3. PICK t \in Tab : t = [moved EXCEPT !.timer = FALSE, !.offline = "none"]
  BY DEF Tab
<1>4. /\ ~t.timer /\ "current" \notin t.refresh /\ t.socket = tab.socket
      /\ t.token = tab.token /\ t.connected = tab.connected /\ t.barrier = tab.barrier
      /\ t.deadline = tab.deadline /\ t.revision = tab.revision /\ t.loads = tab.loads
      /\ t.subscribed = tab.subscribed /\ t.terminated = tab.terminated
      /\ t.destroyed = tab.destroyed
  <2>1. /\ "current" \notin moved.refresh /\ moved.socket = tab.socket
        /\ moved.token = tab.token /\ moved.connected = tab.connected
        /\ moved.barrier = tab.barrier /\ moved.deadline = tab.deadline
        /\ moved.revision = tab.revision /\ moved.loads = tab.loads
        /\ moved.subscribed = tab.subscribed /\ moved.terminated = tab.terminated
        /\ moved.destroyed = tab.destroyed
    BY <1>1, <1>2, AttemptMoves
  <2>. QED
    BY <1>3, <2>1 DEF Tab
<1>5. PICK r \in RecoveryState : r = Stop(recovery)
  BY <1>1, StopFields
<1>6. r.phase = "idle" /\ r.attempt = 0 /\ ~r.illegal
  BY <1>1, <1>5, StopFields DEF Matches
<1>7. PICK s \in Both : s = [r |-> r, t |-> t]
  BY DEF Both
<1>8. s.r = r /\ s.t = t /\ Apply(TransportDisconnect(s))
  BY <1>2, <1>3, <1>5, <1>7 DEF Disconnect
<1>9. CASE t.socket \notin {"opening", "joined"}
  <2>1. Sound(s)
    BY <1>1, <1>4, <1>6, <1>8, <1>9 DEF Sound, Matches, AttemptsLeft, Stopping, Fresh, Stopped
  <2>. QED
    BY <1>8, <1>9, <2>1, ApplySound DEF TransportDisconnect
<1>10. CASE t.socket \in {"opening", "joined"}
  <2>1. Hearing(s)
    BY <1>1, <1>4, <1>6, <1>8, <1>10 DEF Hearing, Matches, Stopping, Fresh, Stopped
  <2>2. Sound(OnDisconnected([s EXCEPT !.t.socket = "none"], "idle"))
    BY <2>1, DisconnectedSound DEF DisconnectReasons
  <2>. QED
    BY <1>8, <1>10, <2>2, ApplySound DEF TransportDisconnect
<1>. QED
  BY <1>9, <1>10

\* A session that is over is a session.
LEMMA EndedType ==
  ASSUME NEW t \in Tab
  PROVE  [t EXCEPT !.timer = FALSE, !.socket = "closed", !.connected = FALSE,
                   !.offline = "none", !.subscribed = FALSE, !.destroyed = TRUE] \in Tab
BY DEF Tab, Sockets

LEMMA DestroySound ==
  ASSUME IInv, Destroy
  PROVE  Sound(Now)'
<1>1. Sound(Now) /\ Now.r = recovery /\ Now.t = tab /\ Matches(recovery, tab)
  BY NowFacts
<1>2. PICK closed : closed = TransportDisconnect(Now)
  OBVIOUS
<1>3. Sound(closed)
  <2>1. CASE tab.socket \notin {"opening", "joined"}
    BY <1>1, <1>2, <2>1 DEF TransportDisconnect
  <2>2. CASE tab.socket \in {"opening", "joined"}
    <3>1. Hearing(Now)
      BY <1>1, <2>2, SoundHears DEF Matches
    <3>2. Sound(OnDisconnected([Now EXCEPT !.t.socket = "none"], "idle"))
      BY <3>1, DisconnectedSound DEF DisconnectReasons
    <3>. QED
      BY <1>1, <1>2, <2>2, <3>2 DEF TransportDisconnect
  <2>. QED
    BY <2>1, <2>2
<1>4. /\ closed.r \in RecoveryState /\ closed.t \in Tab /\ Matches(closed.r, closed.t)
      /\ Stopping(closed.r, closed.t) /\ Fresh(closed.t)
  BY <1>3 DEF Sound, Both
<1>5. PICK disposed \in Tab : disposed = DisposeBarrier(closed.t)
  BY <1>4, DisposeType
<1>6. PICK moved \in Tab : moved = AttemptEpochMoves(disposed)
  BY AttemptMoves
<1>7. PICK t \in Tab : t = [moved EXCEPT !.timer = FALSE, !.socket = "closed",
                              !.connected = FALSE, !.offline = "none",
                              !.subscribed = FALSE, !.destroyed = TRUE]
  BY EndedType
<1>8. /\ disposed.barrier = "none" /\ disposed.deadline = "none"
      /\ disposed.revision = closed.t.revision /\ disposed.loads = closed.t.loads
      /\ disposed.token = closed.t.token /\ disposed.terminated = closed.t.terminated
  BY <1>4, <1>5 DEF DisposeBarrier, Tab
<1>9. /\ ~t.timer /\ "current" \notin t.refresh /\ t.socket = "closed"
      /\ t.token = closed.t.token /\ ~t.connected /\ t.barrier = "none"
      /\ t.deadline = "none" /\ t.revision = closed.t.revision /\ t.loads = closed.t.loads
      /\ ~t.subscribed /\ t.terminated = closed.t.terminated /\ t.destroyed
  <2>1. /\ "current" \notin moved.refresh /\ moved.token = disposed.token
        /\ moved.barrier = disposed.barrier /\ moved.deadline = disposed.deadline
        /\ moved.revision = disposed.revision /\ moved.loads = disposed.loads
        /\ moved.terminated = disposed.terminated
    BY <1>6, AttemptMoves
  <2>. QED
    BY <1>7, <1>8, <2>1 DEF Tab
<1>10. PICK r \in RecoveryState : r = Stop(closed.r)
  BY <1>4, StopFields
<1>11. r.phase = "idle" /\ r.attempt = 0 /\ ~r.illegal
  BY <1>4, <1>10, StopFields DEF Matches
<1>12. PICK s \in Both : s = [r |-> r, t |-> t]
  BY DEF Both
<1>13. Apply(s)
  BY <1>2, <1>5, <1>6, <1>7, <1>10, <1>12 DEF Destroy, Apply
<1>14. Sound(s)
  <2>1. s.r = r /\ s.t = t
    BY <1>12
  <2>. QED
    BY <1>4, <1>9, <1>11, <2>1 DEF Sound, Matches, AttemptsLeft, Stopping, Fresh, Stopped
<1>. QED
  BY <1>13, <1>14, ApplySound

-----------------------------------------------------------------------------
(* The invariant.                                                          *)

LEMMA IInvInit ==
  ASSUME Init
  PROVE  IInv
<1>1. InitialRecovery \in RecoveryState
  BY DEF InitialRecovery, RecoveryState, Phases
<1>2. tab \in Tab
  BY DEF Init, Tab, Sockets
<1>3. Now \in Both /\ Now.r = recovery /\ Now.t = tab
  BY <1>1, <1>2 DEF Init, Now, Both
<1>4. Matches(recovery, tab) /\ AttemptsLeft(recovery)
  BY DEF Init, InitialRecovery, Matches, AttemptsLeft, Stopped
<1>5. Stopping(recovery, tab) /\ Fresh(tab)
  BY DEF Init, InitialRecovery, Stopping, Fresh, Stopped
<1>6. Sound(Now)
  BY <1>3, <1>4, <1>5 DEF Sound
<1>7. world \in World /\ writes \in 0..1
  BY DEF Init, World
<1>. QED
  BY <1>6, <1>7 DEF IInv

\* Only the world moves the world, and what changes the canvas flips `writes`.
LEMMA OutsideTyped ==
  ASSUME IInv, [Next]_vars
  PROVE  (world \in World /\ writes \in 0..1)'
<1>1. world \in World /\ writes \in 0..1
  BY DEF IInv
<1>2. CASE WorldMoves
  BY <1>1, <1>2 DEF WorldMoves, World
<1>3. CASE UNCHANGED vars
  BY <1>1, <1>3 DEF vars
<1>4. CASE Next /\ ~WorldMoves
  <2>1. UNCHANGED world
    BY <1>4 DEF Next, Connect, TimerFires, RefreshAnswered, RefreshSettles, SocketSettles,
                Joined, SocketLost, HoldOverflows, PeerSnapshot, DeadlineFires, LoadSettles,
                SnapshotLoaded, SnapshotEmpty, SnapshotUnavailable, WriteConflicts, StablyLive,
                OfflineEdit, RemoteElements, SendRefused, RoomUnreadable, Disconnect, Destroy
  <2>2. Quietly \/ Painted
    BY <1>4 DEF Next, Connect, TimerFires, RefreshAnswered, RefreshSettles, SocketSettles,
                Joined, SocketLost, HoldOverflows, PeerSnapshot, DeadlineFires, LoadSettles,
                SnapshotLoaded, SnapshotEmpty, SnapshotUnavailable, WriteConflicts, StablyLive,
                OfflineEdit, RemoteElements, SendRefused, RoomUnreadable, Disconnect, Destroy
  <2>. QED
    BY <1>1, <2>1, <2>2 DEF Quietly, Painted
<1>. QED
  BY <1>2, <1>3, <1>4

LEMMA IInvStep ==
  ASSUME IInv, [Next]_vars
  PROVE  IInv'
<1>1. CASE Connect
  BY <1>1, ConnectSound, OutsideTyped DEF IInv
<1>2. CASE TimerFires
  BY <1>2, TimerFiresSound, OutsideTyped DEF IInv
<1>3. CASE RefreshAnswered
  <2>1. PICK epoch \in {"current", "stale"}, answer \in {"own", "moved", "refused", "retry"} :
          RefreshSettles(epoch, answer)
    BY <1>3 DEF RefreshAnswered
  <2>. QED
    BY <2>1, RefreshSound, OutsideTyped DEF IInv
<1>4. CASE SocketSettles
  <2>1. ASSUME NEW editor \in BOOLEAN, Joined(editor)
        PROVE  Sound(Now)'
    BY <2>1, JoinedSound
  <2>2. ASSUME NEW reason \in DisconnectReasons, SocketLost(reason)
        PROVE  Sound(Now)'
    BY <2>2, SocketLostSound
  <2>3. Sound(Now)'
    BY <1>4, <2>1, <2>2 DEF SocketSettles
  <2>. QED
    BY <2>3, OutsideTyped DEF IInv
<1>5. CASE HoldOverflows
  BY <1>5, HoldOverflowsSound, OutsideTyped DEF IInv
<1>6. CASE PeerSnapshot
  BY <1>6, PeerSnapshotSound, OutsideTyped DEF IInv
<1>7. CASE DeadlineFires
  BY <1>7, DeadlineFiresSound, OutsideTyped DEF IInv
<1>8. CASE LoadSettles
  <2>1. PICK load \in Loads \cup {"stale"} :
          \/ \E pending \in BOOLEAN : SnapshotLoaded(load, pending)
          \/ \E pending \in BOOLEAN : SnapshotEmpty(load, pending)
          \/ \E wrongKey \in BOOLEAN : SnapshotUnavailable(load, wrongKey)
    BY <1>8 DEF LoadSettles
  <2>2. Sound(Now)'
    BY <2>1, SnapshotLoadedSound, SnapshotEmptySound, SnapshotUnavailableSound
  <2>. QED
    BY <2>2, OutsideTyped DEF IInv
<1>9. CASE WriteConflicts
  BY <1>9, WriteConflictsSound, OutsideTyped DEF IInv
<1>10. CASE StablyLive
  BY <1>10, StablyLiveSound, OutsideTyped DEF IInv
<1>11. CASE OfflineEdit
  BY <1>11, OfflineEditSound, OutsideTyped DEF IInv
<1>12. CASE RemoteElements
  <2>1. Apply(Now) /\ Sound(Now)
    BY <1>12, NowFacts DEF RemoteElements
  <2>. QED
    BY <2>1, ApplySound, OutsideTyped DEF IInv
<1>13. CASE SendRefused \/ RoomUnreadable
  BY <1>13, FailuresSound, OutsideTyped DEF IInv
<1>14. CASE Disconnect
  BY <1>14, DisconnectSound, OutsideTyped DEF IInv
<1>15. CASE Destroy
  BY <1>15, DestroySound, OutsideTyped DEF IInv
<1>16. CASE WorldMoves \/ UNCHANGED vars
  <2>1. recovery' = recovery /\ tab' = tab
    BY <1>16 DEF WorldMoves, vars
  <2>2. Now' = Now
    BY <2>1 DEF Now
  <2>3. Sound(Now)
    BY NowFacts
  <2>. QED
    BY <2>2, <2>3, OutsideTyped DEF IInv, Sound
<1>. QED
  BY <1>1, <1>2, <1>3, <1>4, <1>5, <1>6, <1>7, <1>8, <1>9, <1>10, <1>11, <1>12, <1>13, <1>14,
     <1>15, <1>16 DEF Next

\* The invariant holds in every state the session can reach, whatever it awaits settles
\* in whatever order (all handlers of collaboration-session.ts).
THEOREM Inductive == Spec => []IInv
BY IInvInit, IInvStep, PTL DEF Spec

-----------------------------------------------------------------------------
(* The promises.                                                           *)

\* Every part of the state has its type (RecoveryState, the session's variables).
THEOREM TypeCorrect == Spec => []TypeOK
<1>1. IInv => TypeOK
  BY NowFacts DEF IInv, TypeOK
<1>. QED
  BY <1>1, Inductive, PTL

\* The work a session has in hand is the work of its phase, the attempts never exceed
\* the budget, and no handler calls into the machine or the transport when it throws
\* (start, connected, synced, lost, handleConnectionLoss, reconnect, terminate, destroy).
THEOREM PhaseKept == Spec => []WorkMatchesPhase
<1>1. IInv => WorkMatchesPhase
  BY NowFacts DEF WorkMatchesPhase, Matches
<1>. QED
  BY <1>1, Inductive, PTL

\* A handler that writes remote elements onto the canvas runs in a session that has not
\* stopped, or settles the load its viewer's repair began.
LEMMA CanvasLeft ==
  ASSUME IInv, [Next]_vars
  PROVE  [Stopped(tab) /\ ~("late" \in tab.loads /\ ~tab.destroyed) => writes' = writes]_vars
<1>. SUFFICES ASSUME Next, Stopped(tab), ~("late" \in tab.loads /\ ~tab.destroyed)
              PROVE  writes' = writes
  BY DEF vars
<1>1. tab \in Tab /\ Matches(recovery, tab) /\ Stopping(recovery, tab)
  BY NowFacts
<1>2. tab.barrier = "none" /\ ~tab.subscribed
  BY <1>1 DEF Matches, Stopping
<1>3. ~PeerSnapshot /\ ~RemoteElements
  BY <1>2 DEF PeerSnapshot, RemoteElements
<1>4. ASSUME NEW load \in Loads \cup {"stale"}, NEW pending \in BOOLEAN,
             SnapshotLoaded(load, pending)
      PROVE  writes' = writes
  <2>1. tab.destroyed \/ ~Current(load)
    BY <1>1, <1>4 DEF SnapshotLoaded, Stopping, Stopped, Current
  <2>. QED
    BY <1>4, <2>1 DEF SnapshotLoaded, Quietly
<1>5. LoadSettles => writes' = writes
  BY <1>4 DEF LoadSettles, SnapshotEmpty, SnapshotUnavailable, Quietly
<1>. QED
  BY <1>3, <1>5 DEF Next, Connect, TimerFires, RefreshAnswered, RefreshSettles, SocketSettles,
                    Joined, SocketLost, HoldOverflows, DeadlineFires, WriteConflicts, StablyLive,
                    OfflineEdit, SendRefused, RoomUnreadable, Disconnect, Destroy, WorldMoves,
                    Quietly

\* Whatever settles late touches neither the stored revision a session writes against nor
\* the canvas, which may be another scene's by then (loadDurableBaseline's epoch,
\* teardown's joinEpoch, releaseBarrier).
THEOREM LateLoads == Spec => LateLoadsHarmless
<1>1. IInv => BaselineOfThisJoin
  BY NowFacts DEF BaselineOfThisJoin, Fresh
<1>2. Spec => []BaselineOfThisJoin
  BY <1>1, Inductive, PTL
<1>3. Spec => StoppedLeavesCanvas
  BY Inductive, CanvasLeft, PTL DEF Spec, StoppedLeavesCanvas
<1>. QED
  BY <1>2, <1>3 DEF LateLoadsHarmless
=============================================================================
