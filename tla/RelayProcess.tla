----------------------------- MODULE RelayProcess -----------------------------
(***************************************************************************)
(* One relay process from its start to its exit, and the process manager   *)
(* that stops it: every way out is one drain, within the manager's         *)
(* patience, in which every connection is told to come back.               *)
(*                                                                         *)
(* The rooms and the cascades of a drain are in RelayFanout; a connection  *)
(* here is a socket with the reason recorded for its end.  Time passes in  *)
(* ticks; a timer that is due fires before the next one, and closing the   *)
(* listener takes less than one.  Bound: MaxCauses causes to shut down.    *)
(*                                                                         *)
(* shutdown() awaits drain() and close() without a catch: were one of them *)
(* to reject, the process would stay up until the manager kills it.  What  *)
(* could make them reject is not modelled.                                 *)
(***************************************************************************)
EXTENDS Naturals, FiniteSets

CONSTANTS Conn, MaxConnections, DrainTimeout, RejectGrace, KillTimeout, MaxCauses

VARIABLES proc, conn, manager
vars == <<proc, conn, manager>>

Reasons == {"none", "relayRestarting", "relayAtCapacity", "internalError", "heartbeatTimeout",
            "peerClosed", "shutdown"}

\* sock: "closing" once a close frame was sent; code: the one in the first such frame.
ConnState == [sock : {"none", "open", "closing", "closed"}, served : BOOLEAN,
              code : Reasons, reason : Reasons, age : Nat]
NoConn == [sock |-> "none", served |-> FALSE, code |-> "none", reason |-> "none", age |-> 0]

Init ==
  /\ proc = [phase |-> "starting", shutting |-> FALSE, draining |-> FALSE, watchdog |-> FALSE,
             age |-> 0, pending |-> {}, code |-> 0]
  /\ conn = [c \in Conn |-> NoConn]
  /\ manager = [causes |-> 0, first |-> 0, asked |-> FALSE, age |-> 0]

Clients == {c \in Conn : conn[c].sock \in {"open", "closing"}}
Up == proc.phase \in {"serving", "draining"}

(***************************************************************************)
(* Connections.                                                             *)
(***************************************************************************)
\* The first reason stays, with the code that went with it.
Recorded(n, reason) == [n EXCEPT !.reason = IF @ = "none" THEN reason ELSE @]
Closing(n, code) ==
  IF n.sock = "open" THEN [n EXCEPT !.sock = "closing", !.code = code] ELSE n
Told(n, code) == Closing(IF n.served THEN Recorded(n, code) ELSE n, code)
Gone(n, reason) ==
  [(IF n.served THEN Recorded(n, reason) ELSE n) EXCEPT !.sock = "closed", !.age = 0]

Refused(code) == [NoConn EXCEPT !.sock = "closing", !.code = code, !.reason = code]

Connect(c) ==
  /\ Up /\ conn[c].sock = "none"
  /\ conn' = [conn EXCEPT ![c] =
       IF proc.draining THEN Refused("relayRestarting")
       ELSE IF Cardinality(Clients) + 1 > MaxConnections THEN Refused("relayAtCapacity")
       ELSE [NoConn EXCEPT !.sock = "open", !.served = TRUE]]
  /\ UNCHANGED <<proc, manager>>

\* close(): whoever is still there is terminated, and nobody else comes in.
Close(p, cs) ==
  /\ proc' = [p EXCEPT !.phase = "closing", !.pending = {}]
  /\ conn' = [c \in Conn |-> IF cs[c].sock \in {"open", "closing"} THEN Gone(cs[c], "shutdown") ELSE cs[c]]

\* The drain is over once all it waits for have closed, and close() follows.
Settle(p, cs, c) ==
  IF p.phase = "draining" /\ p.pending \subseteq {c}
  THEN Close(p, cs)
  ELSE proc' = [p EXCEPT !.pending = @ \ {c}] /\ conn' = cs

DrainDue == proc.phase = "draining" /\ proc.age >= DrainTimeout

\* The peer's doing, or the end of the handshake the relay began.
SocketCloses(c) ==
  /\ Up /\ c \in Clients
  /\ Settle(proc, [conn EXCEPT ![c] = Gone(@, "peerClosed")], c)
  /\ UNCHANGED manager

MissesHeartbeat(c) ==
  /\ Up /\ c \in Clients /\ conn[c].served
  /\ Settle(proc, [conn EXCEPT ![c] = Gone(@, "heartbeatTimeout")], c)
  /\ UNCHANGED manager

\* What a frame throws costs its connection.
FrameThrows(c) ==
  /\ Up /\ conn[c].sock = "open"
  /\ \/ conn' = [conn EXCEPT ![c] = Told(@, "internalError")] /\ UNCHANGED proc
     \/ Settle(proc, [conn EXCEPT ![c] = Gone(@, "peerClosed")], c)
  /\ UNCHANGED manager

\* A refused socket may take this long over its close handshake.
GraceEnds(c) ==
  /\ Up /\ c \in Clients /\ ~conn[c].served /\ conn[c].age = RejectGrace
  /\ Settle(proc, [conn EXCEPT ![c] = Gone(@, "peerClosed")], c)
  /\ UNCHANGED manager

(***************************************************************************)
(* The process.                                                             *)
(***************************************************************************)
\* Without its secret, or without its port, it exits.
Start ==
  /\ proc.phase = "starting"
  /\ \/ proc' = [proc EXCEPT !.phase = "serving", !.watchdog = TRUE]
     \/ proc' = [proc EXCEPT !.phase = "exited", !.code = 1]
  /\ UNCHANGED <<conn, manager>>

\* drain() waits for the sockets that are there when it begins.
Drain(p) ==
  LET pending == Clients
      q == [p EXCEPT !.phase = "draining", !.draining = TRUE, !.pending = pending]
      told == [c \in Conn |-> IF c \in pending THEN Told(conn[c], "relayRestarting") ELSE conn[c]]
  IN  IF pending = {} THEN Close(q, told) ELSE proc' = q /\ conn' = told

Shutdown(code) ==
  IF proc.shutting THEN UNCHANGED <<proc, conn>>
  ELSE Drain([proc EXCEPT !.shutting = TRUE, !.watchdog = FALSE, !.code = code])

DrainDeadline ==
  /\ DrainDue
  /\ Close(proc, conn)
  /\ UNCHANGED manager

\* The sockets' close events have come, the listener is closed, and the process exits.
Exit ==
  /\ proc.phase = "closing" /\ Clients = {}
  /\ proc' = [proc EXCEPT !.phase = "exited", !.draining = TRUE]
  /\ UNCHANGED <<conn, manager>>

(***************************************************************************)
(* What makes it end.                                                       *)
(***************************************************************************)
\* first (history): the exit code the first of them asks for.
Cause(code, asked) ==
  /\ manager.causes < MaxCauses /\ proc.phase \in {"serving", "draining", "closing"}
  /\ manager' = [manager EXCEPT !.causes = @ + 1, !.asked = @ \/ asked,
                                !.first = IF manager.causes = 0 THEN code ELSE @]

\* SIGTERM; the manager asks once and then waits.
Asked == ~manager.asked /\ Cause(0, TRUE) /\ Shutdown(0)

Breach == proc.watchdog /\ Cause(1, FALSE) /\ Shutdown(1)

\* uncaughtException, unhandledRejection.
Uncaught == Cause(1, FALSE) /\ Shutdown(1)

\* The manager kills what it asked to stop this long ago.
PatienceEnds == manager.asked /\ manager.age + 1 >= KillTimeout

Tick ==
  /\ Up
  /\ ~DrainDue
  /\ \A c \in Clients : ~conn[c].served => conn[c].age < RejectGrace
  /\ proc' = [proc EXCEPT !.age = IF proc.phase = "draining" THEN @ + 1 ELSE @,
                          !.phase = IF PatienceEnds THEN "killed" ELSE @]
  /\ conn' = [c \in Conn |-> IF c \in Clients /\ ~conn[c].served
                             THEN [conn[c] EXCEPT !.age = @ + 1] ELSE conn[c]]
  /\ manager' = [manager EXCEPT !.age = IF manager.asked THEN @ + 1 ELSE @]

Next ==
  \/ \E c \in Conn : Connect(c) \/ SocketCloses(c) \/ MissesHeartbeat(c) \/ FrameThrows(c) \/ GraceEnds(c)
  \/ Start \/ DrainDeadline \/ Exit \/ Asked \/ Breach \/ Uncaught \/ Tick

Spec == Init /\ [][Next]_vars

(***************************************************************************)
(* Properties.                                                              *)
(***************************************************************************)
TypeOK ==
  /\ proc.phase \in {"starting", "serving", "draining", "closing", "exited", "killed"}
  /\ proc.pending \subseteq Conn /\ proc.age \in 0..DrainTimeout /\ proc.code \in 0..1
  /\ proc.watchdog => proc.phase = "serving"
  /\ conn \in [Conn -> ConnState]
  /\ manager.causes \in 0..MaxCauses /\ manager.age \in 0..KillTimeout

\* The manager's patience is longer than a drain, whatever started it, whoever came while
\* it lasted and whoever never answered its close.
NeverKilled == proc.phase # "killed"

\* Nobody who was served learns of the end from a cut connection only.
EveryoneIsTold == \A c \in Conn : conn[c].reason # "shutdown"

\* What is on record as the reason is what the peer was told, whatever else ended the socket
\* in between.
ReasonsMatch == \A c \in Conn :
  conn[c].served /\ conn[c].code # "none" => conn[c].reason = conn[c].code

\* The exits compose: the first cause decides the code, and what it began is not begun again.
FirstCauseCounts == manager.causes > 0 => proc.code = manager.first

ProcessEndsWell == NeverKilled /\ EveryoneIsTold /\ ReasonsMatch /\ FirstCauseCounts

(***************************************************************************)
(* The invariant the proof of ProcessEndsWell goes by (RoomKeys_proofs).   *)
(***************************************************************************)
\* The manager waits longer than a drain lasts.
PatienceIsLonger == DrainTimeout \in Nat /\ KillTimeout \in Nat /\ DrainTimeout < KillTimeout

ProcessShapes ==
  /\ proc \in [phase : {"starting", "serving", "draining", "closing", "exited", "killed"},
               shutting : BOOLEAN, draining : BOOLEAN, watchdog : BOOLEAN, age : Nat,
               pending : SUBSET Conn, code : Nat]
  /\ conn \in [Conn -> ConnState]
  /\ manager \in [causes : Nat, first : Nat, asked : BOOLEAN, age : Nat]

\* A served socket has a code once it is closing, and the reason that goes with it.
ConnSound(n) ==
  /\ n.reason # "shutdown"
  /\ n.served => /\ n.sock = "open" => n.reason = "none" /\ n.code = "none"
                 /\ n.sock = "closing" => n.code # "none"
                 /\ n.code # "none" => n.reason = n.code

\* A drain has told everyone who is served, and lasts no longer than it may.
DrainInv ==
  proc.phase = "draining" =>
    /\ proc.draining /\ proc.age <= DrainTimeout
    /\ \A c \in Conn : conn[c].served => conn[c].sock # "open"
    /\ manager.asked => manager.age <= proc.age

\* What has a cause is under way, or over.
CauseInv ==
  /\ proc.phase # "killed" /\ (proc.watchdog => proc.phase = "serving")
  /\ proc.shutting <=> manager.causes > 0
  /\ proc.shutting => proc.phase \notin {"starting", "serving"} /\ proc.code = manager.first
  /\ proc.phase \in {"draining", "closing"} => proc.shutting
  /\ manager.asked => proc.shutting
  /\ ~manager.asked => manager.age = 0
  /\ ~proc.shutting => proc.age = 0

ProcessInv == ProcessShapes /\ (\A c \in Conn : ConnSound(conn[c])) /\ DrainInv /\ CauseInv
=============================================================================
