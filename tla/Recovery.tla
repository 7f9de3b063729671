------------------------------ MODULE Recovery ------------------------------
(***************************************************************************)
(* The recovery machine of one collaboration session: the phase it is in,  *)
(* the attempts it has spent since it was last stably live, and why it     *)
(* stopped.  The machine is pure; each method is an operator on its state. *)
(*                                                                         *)
(* A method called in a phase it is not legal in throws.  `illegal`        *)
(* remembers that this has happened: the handler that called it was cut    *)
(* off.  Delays and the jitter are left out; of the clock only the live    *)
(* stability window is kept, as the flag `stable`.                         *)
(***************************************************************************)
EXTENDS Naturals

CONSTANT MaxAttempts  \* maxAttempts: attempts before recovery gives up
ASSUME MaxAttemptsAssumption == MaxAttempts \in Nat \ {0}

Phases == {"idle", "connecting", "syncing", "live", "waiting", "failed"}

\* Why a connection ended, as the transport states it.
DisconnectReasons ==
  {"transient", "unauthorized", "membership-revoked", "room-ended", "protocol",
   "unsupported-protocol-version", "idle"}

\* Why recovery stopped for good.
UnrecoverableReasons ==
  {"unauthorized", "membership-revoked", "room-ended", "generation-rotated",
   "unreadable-room", "protocol-violation", "unsupported-protocol-version",
   "crypto-exhausted", "retry-limit"}

RecoveryState == [phase : Phases, attempt : Nat, stable : BOOLEAN,
                  reason : UnrecoverableReasons \cup {"none"}, illegal : BOOLEAN]

InitialRecovery == [phase |-> "idle", attempt |-> 0, stable |-> FALSE,
                    reason |-> "none", illegal |-> FALSE]

\* What a disconnect means: "retry", "ignore", or the failure it stops with.
Classify(reason) ==
  CASE reason \in {"transient", "unauthorized", "membership-revoked"} -> "retry"
    [] reason = "protocol" -> "protocol-violation"
    [] reason = "idle"     -> "ignore"
    [] OTHER               -> reason

Throw(r) == [r EXCEPT !.illegal = TRUE]

Start(r) ==
  IF r.phase \in {"idle", "waiting"}
  THEN [r EXCEPT !.phase = "connecting", !.attempt = @ + 1]
  ELSE Throw(r)

Connected(r) == IF r.phase = "connecting" THEN [r EXCEPT !.phase = "syncing"] ELSE Throw(r)

Synced(r) ==
  IF r.phase = "syncing" THEN [r EXCEPT !.phase = "live", !.stable = FALSE] ELSE Throw(r)

\* Mutation: the reason of the failure is lost.
FailUnnamed(r, reason) == [r EXCEPT !.phase = "failed", !.reason = "idle"]

Fail(r, reason) ==
  IF r.phase = "failed" THEN r ELSE [r EXCEPT !.phase = "failed", !.reason = reason]

\* Mutation: reaching the live phase repays the attempts at once.
RepaidAtOnce(r) ==
  [r EXCEPT !.attempt = IF r.phase = "live" THEN 0 ELSE @, !.stable = FALSE]

\* A session that was stably live has repaid its attempts before the loss is counted.
Repaid(r) ==
  [r EXCEPT !.attempt = IF r.phase = "live" /\ r.stable THEN 0 ELSE @, !.stable = FALSE]

Lost(r, reason) ==
  CASE r.phase \in {"idle", "failed"} -> r
    [] r.phase = "waiting"            -> Throw(r)
    [] OTHER ->
         LET n == Repaid(r)
             verdict == Classify(reason)
         IN  CASE verdict = "ignore" -> [n EXCEPT !.phase = "idle", !.attempt = 0]
               [] verdict \notin {"ignore", "retry"} -> Fail(n, verdict)
               [] verdict = "retry" /\ n.attempt >= MaxAttempts -> Fail(n, "retry-limit")
               [] OTHER              -> [n EXCEPT !.phase = "waiting"]

Stop(r) == [r EXCEPT !.phase = "idle", !.attempt = 0, !.stable = FALSE, !.reason = "none"]

\* The live stability window has passed.
Settle(r) == [r EXCEPT !.stable = TRUE]
=============================================================================
