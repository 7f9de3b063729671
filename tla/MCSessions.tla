------------------------------- MODULE MCSessions -------------------------------
(* Two views of a session, checked in one run: a behaviour is about the     *)
(* connection of one tab (ClientSession) or about what two tabs exchange    *)
(* (SceneExchange); the other rests in a state that enables no fair action. *)
(*                                                                          *)
(* The exchange starts with two tabs at work in a room: with both edits to  *)
(* come and one fault, or with one edit to come and all faults; or with two *)
(* tabs that enter an empty room and no fault.  One tab, b, draws.          *)
EXTENDS ClientSession

CONSTANTS a, b, edit1, edit2, Tabs, Elements, MaxHeld, MaxOffline, MaxRepairs, MaxFaults

VARIABLES focus, tabs, stored, faults

AllByOne == [e \in Elements |-> b]

Exchange == INSTANCE SceneExchange WITH Author <- AllByOne, Flaky <- Tabs

exchangeVars == <<tabs, stored, faults>>

AtWork(drawn) == [Exchange!Fresh EXCEPT
  !.phase = "live", !.sent = TRUE, !.recent = TRUE, !.hasSynced = TRUE,
  !.baseline = "known", !.canvas = drawn, !.synced = drawn]

Pair(state) == tabs = [t \in Tabs |-> state]

MCInit ==
  /\ Init /\ stored = {}
  /\ \/ focus = "session" /\ Pair(AtWork({})) /\ faults = MaxFaults
     \/ focus = "exchange" /\ Pair(AtWork({})) /\ faults = MaxFaults - 1
     \/ focus = "exchange" /\ Pair(AtWork({edit1})) /\ faults = 0
     \/ focus = "exchange" /\ Pair(Exchange!Fresh) /\ faults = MaxFaults

MCNext ==
  \/ focus = "session" /\ Next /\ UNCHANGED <<focus, exchangeVars>>
  \/ focus = "exchange" /\ Exchange!Next /\ UNCHANGED <<focus, vars>>

MCSpec ==
  /\ MCInit /\ [][MCNext]_<<focus, vars, exchangeVars>>
  /\ Fairness /\ Exchange!Fairness

\* Type correctness of both.
TypesOK == TypeOK /\ Exchange!TypeOK
\* SceneExchange: the canvases become equal.
Converges == Exchange!Converges
\* SceneExchange: snapshots do not answer each other for ever.
RepliesEnd == Exchange!RepliesEnd
=============================================================================
