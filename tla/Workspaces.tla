------------------------------ MODULE Workspaces ------------------------------
(***************************************************************************)
(* The workspaces of one user (server/api/routers/workspace.ts of          *)
(* apps/web): the default workspace that every page of the application     *)
(* ensures, the one last active, and the deletion of a workspace with its  *)
(* scenes while other requests put scenes into it or choose it.            *)
(*                                                                         *)
(* A request is a transaction of several statements at READ COMMITTED: its *)
(* writes are its own until it commits, and it waits for the row locks of  *)
(* others, which are derived here from how far a request has come.         *)
(* Workspaces and scenes are numbered from 1, None stands for neither.     *)
(***************************************************************************)
EXTENDS Naturals, FiniteSets

CONSTANTS Workspace, Scene, Request

VARIABLES
  workspace,   \* "none", "draft" while uncommitted, "live" or "gone", by number
  named,       \* history: workspaces made by create
  default,     \* user_default_workspace
  lastActive,  \* user_last_active_workspace
  scene,       \* [row |-> "none", "live" or "gone", at |-> its workspace]
  request,     \* requests in progress
  queued       \* scenes whose storage keys are queued for deletion

rows == <<workspace, named, default, lastActive, scene, queued>>

None == 0
Keep == Cardinality(Workspace) + 1   \* a delete that leaves lastActive alone

Idle == [pc |-> "idle", workspace |-> None, scene |-> None, default |-> None,
         active |-> Keep, inserted |-> FALSE, found |-> {}]

Live(w) == w # None /\ workspace[w] = "live"

Init ==
  /\ default \in {None, 1}
  /\ workspace = [w \in Workspace |-> IF w = default \/ w = 2 THEN "live" ELSE "none"]
  /\ named = {2} /\ lastActive \in {default, 2}
  /\ scene \in [Scene -> {[row |-> "none", at |-> None], [row |-> "live", at |-> 2]}]
  /\ request = [r \in Request |-> Idle] /\ queued = {}

At(r, pc) == request[r].pc = pc

Fresh(w) == workspace[w] = "none" /\ \A v \in Workspace : v < w => workspace[v] # "none"

(* Leaving a transaction: what it wrote alone is undone.                    *)
Rollback(r) ==
  /\ workspace' = [w \in Workspace |->
       IF At(r, "settle") /\ w = request[r].workspace THEN "gone" ELSE workspace[w]]
  /\ request' = [request EXCEPT ![r] = Idle]
  /\ UNCHANGED <<named, default, lastActive, scene, queued>>

(* FOR UPDATE of the deletion: held until its transaction ends.             *)
Locked(w) == \E r \in Request : request[r].pc \in {"enumerate", "remove"} /\ request[r].workspace = w

(* The reference of a scene that is put into a workspace holds its row.     *)
Referenced(w) == \E r \in Request : At(r, "commit") /\ request[r].workspace = w

SceneLocked(s) ==
  \E r \in Request : (At(r, "commit") /\ request[r].scene = s) \/ s \in request[r].found

ActiveLocked ==
  \E r \in Request : request[r].pc \in {"lock", "enumerate", "remove"} /\ request[r].active # Keep

-----------------------------------------------------------------------------

Create(w) ==
  /\ Fresh(w) /\ workspace' = [workspace EXCEPT ![w] = "live"] /\ named' = named \union {w}
  /\ UNCHANGED <<default, lastActive, scene, request, queued>>

(* ensureDefault, which the layout of every page awaits.  An INSERT that    *)
(* meets an uncommitted row of the same user waits for its transaction.     *)
EnsureDefault(r) ==
  /\ At(r, "idle")
  /\ IF default # None
     THEN /\ ~ActiveLocked
          /\ lastActive' = IF lastActive = None THEN default ELSE lastActive
          /\ UNCHANGED request
     ELSE request' = [request EXCEPT ![r].pc = "insert"] /\ UNCHANGED lastActive
  /\ UNCHANGED <<workspace, named, default, scene, queued>>

InsertDefault(r) ==
  /\ At(r, "insert") /\ \A q \in Request : ~request[q].inserted
  /\ \E w \in Workspace :
       /\ Fresh(w) /\ workspace' = [workspace EXCEPT ![w] = "draft"]
       /\ request' = [request EXCEPT ![r].pc = "settle", ![r].workspace = w,
                                     ![r].inserted = default = None]
  /\ UNCHANGED <<named, default, lastActive, scene, queued>>

(* The request whose mapping is not the one in place deletes its workspace. *)
Loser(r) == IF request[r].inserted THEN "live" ELSE "gone"

SettleDefault(r) ==
  LET own == request[r].workspace IN
  /\ At(r, "settle") /\ ~ActiveLocked
  /\ workspace' = [workspace EXCEPT ![own] = Loser(r)]
  /\ default' = IF request[r].inserted THEN own ELSE default
  /\ lastActive' = IF lastActive = None THEN default' ELSE lastActive
  /\ request' = [request EXCEPT ![r] = Idle]
  /\ UNCHANGED <<named, scene, queued>>

(* setLastActive: the workspace is read, then an upsert refers to it.       *)
ChooseWorkspace(r, w) ==
  /\ At(r, "idle") /\ Live(w)
  /\ request' = [request EXCEPT ![r].pc = "choose", ![r].workspace = w]
  /\ UNCHANGED rows

SetLastActive(r) ==
  LET w == request[r].workspace IN
  /\ At(r, "choose") /\ ~ActiveLocked /\ ~Locked(w)
  /\ lastActive' = IF Live(w) THEN w ELSE lastActive
  /\ request' = [request EXCEPT ![r] = Idle]
  /\ UNCHANGED <<workspace, named, default, scene, queued>>

-----------------------------------------------------------------------------
(* Scenes enter a workspace: a save, a new scene or a move                  *)

PlaceScene(r, s, w) ==
  /\ At(r, "idle") /\ Live(w)
  /\ request' = [request EXCEPT ![r].pc = "place", ![r].scene = s, ![r].workspace = w]
  /\ UNCHANGED rows

(* The row refers to the workspace: a foreign key, so it waits for a lock   *)
(* on the workspace, and fails when the workspace is gone by then.          *)
WriteScene(r) ==
  LET s == request[r].scene
      w == request[r].workspace IN
  /\ At(r, "place") /\ ~SceneLocked(s) /\ ~Locked(w)
  /\ request' = [request EXCEPT ![r] =
       IF scene[s].row # "gone" /\ Live(w) THEN [@ EXCEPT !.pc = "commit"] ELSE Idle]
  /\ UNCHANGED rows

CommitScene(r) ==
  /\ At(r, "commit")
  /\ scene' = [scene EXCEPT ![request[r].scene] = [row |-> "live", at |-> request[r].workspace]]
  /\ request' = [request EXCEPT ![r] = Idle]
  /\ UNCHANGED <<workspace, named, default, lastActive, queued>>

-----------------------------------------------------------------------------
(* delete: the mappings are read before the transaction                     *)

DeleteWorkspace(r, w) ==
  /\ At(r, "idle") /\ Live(w) /\ w # default
  /\ request' = [request EXCEPT ![r].pc = "adjust", ![r].workspace = w, ![r].default = default,
                                ![r].active = IF lastActive = w THEN default ELSE Keep]
  /\ UNCHANGED rows

(* lastActive is set to the default, or its row deleted when there is none. *)
AdjustLastActive(r) ==
  /\ At(r, "adjust")
  /\ request[r].active # Keep => ~ActiveLocked
  /\ request' = [request EXCEPT ![r].pc = "lock"]
  /\ UNCHANGED rows

LockWorkspace(r) ==
  LET w == request[r].workspace IN
  /\ At(r, "lock") /\ ~Locked(w) /\ ~Referenced(w)
  /\ IF Live(w) THEN request' = [request EXCEPT ![r].pc = "enumerate"] /\ UNCHANGED rows
     ELSE Rollback(r)

Inside(w) == {s \in Scene : scene[s].row = "live" /\ scene[s].at = w}

LockScenes(r) ==
  LET inside == Inside(request[r].workspace) IN
  /\ At(r, "enumerate") /\ \A s \in inside : ~SceneLocked(s)
  /\ request' = [request EXCEPT ![r].pc = "remove", ![r].found = inside]
  /\ UNCHANGED rows

(* ON DELETE RESTRICT of both mappings; the scenes go by cascade.           *)
RemoveWorkspace(r) ==
  LET w == request[r].workspace
      active == IF request[r].active = Keep THEN lastActive ELSE request[r].active IN
  /\ At(r, "remove")
  /\ IF w \in {default, active} THEN Rollback(r)
     ELSE /\ workspace' = [workspace EXCEPT ![w] = "gone"]
          /\ lastActive' = active
          /\ scene' = [s \in Scene |->
               IF s \in Inside(w) THEN [row |-> "gone", at |-> None] ELSE scene[s]]
          /\ queued' = queued \union request[r].found
          /\ request' = [request EXCEPT ![r] = Idle]
          /\ UNCHANGED <<named, default>>

(* A statement fails, or the server goes away.                              *)
Abort(r) == ~At(r, "idle") /\ Rollback(r)

Next ==
  \/ \E w \in Workspace : Create(w)
  \/ \E r \in Request :
       \/ EnsureDefault(r) \/ InsertDefault(r) \/ SettleDefault(r)
       \/ SetLastActive(r) \/ WriteScene(r) \/ CommitScene(r)
       \/ AdjustLastActive(r) \/ LockWorkspace(r) \/ LockScenes(r) \/ RemoveWorkspace(r)
       \/ Abort(r)
       \/ \E w \in Workspace :
            \/ ChooseWorkspace(r, w) \/ DeleteWorkspace(r, w)
            \/ \E s \in Scene : PlaceScene(r, s, w)

TypeOK ==
  /\ workspace \in [Workspace -> {"none", "draft", "live", "gone"}] /\ named \subseteq Workspace
  /\ default \in Workspace \union {None} /\ lastActive \in Workspace \union {None}
  /\ \A s \in Scene : scene[s].row \in {"none", "live", "gone"}
  /\ \A r \in Request : request[r].found \subseteq Scene
  /\ queued \subseteq Scene

(* A workspace that nobody made by name is the default one, although pages  *)
(* opened at once each make one, and no mapping points at what is gone.     *)
DefaultIsOne ==
  /\ \A w \in Workspace : Live(w) => w = default \/ w \in named
  /\ \A w \in {default, lastActive} \ {None} : Live(w)

(* The objects of a scene are queued for deletion exactly when its row went *)
(* with a workspace: a scene moved in is not missed, one moved out not hit. *)
KeysMatchScenes == queued = {s \in Scene : scene[s].row = "gone"}

\* Requests of one user that overlap leave one default workspace, mappings that point
\* at workspaces, and for every scene that went with a workspace, and for no other, its
\* objects queued for deletion (ensureDefault and delete of workspace.ts).
WorkspacesSound == DefaultIsOne /\ KeysMatchScenes
=============================================================================
