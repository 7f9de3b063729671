------------------------------ MODULE LocalScene ------------------------------
(* The drawing of a tab and its copy in the storage of the browser: a cache *)
(* of one scene, with the id of the scene beside it.  Two writers keep them *)
(* together: each change is cached 300 ms later, a closing tab caches its   *)
(* canvas; and each operation that puts another drawing on the canvas       *)
(* (opening a scene or a link, a new scene, a room, signing out) writes or  *)
(* clears the id at its own moment.  Drawings are told apart by where they  *)
(* come from.  What a save overlaps with is SceneSync's subject; here saves *)
(* of an open scene are atomic.                                             *)
EXTENDS Naturals

CONSTANTS Scene,                          \* the first two exist at the start
          First, Second,
          MaxEdits, MaxMoves, MaxMishaps

VARIABLES
  store,    \* the browser's storage: the cached drawing and the scene's id
  tab,      \* the tab: what it is at, the id it works with, its canvas, its room
  pending,  \* the drawing whose caching is due, or Nothing
  local,    \* what the starting tab had read from the storage
  cloud,    \* the content of the saved scenes
  home,     \* the drawings that belong in each scene
  task,     \* what the tab is waiting for
  slipped,  \* which of the ways to part an id from its drawing have been taken
  used
lsvars == <<store, tab, pending, local, cloud, home, task, slipped, used>>

None == "none"
Line == {First, Second, "mine", "shared", "room", "copy", "blank", "nothing"}
Drawing(line) == [of |-> line, n |-> 0]
Nothing == Drawing("nothing")
Blank == Drawing("blank")
Empty == [content |-> Nothing, id |-> None]
Idle == [kind |-> "none", content |-> Nothing]

Move == used.moves < MaxMoves /\ used' = [used EXCEPT !.moves = @ + 1]
Mishap == used.mishaps < MaxMishaps /\ used' = [used EXCEPT !.mishaps = @ + 1]

(* No drawing is cached for a canvas that a room owns and no scene stands   *)
(* behind, nor while the tab signs out.                                     *)
Paused == tab.stage = "leaving" \/ (tab.owns /\ tab.id = None)
(* The caching that a change of the canvas leaves due.                      *)
Due(c) == IF Paused THEN Nothing ELSE c
NoScene == [store EXCEPT !.id = None]
(* What clearing the session does to the tab: the claim of a room goes too. *)
Detached == [tab EXCEPT !.id = None, !.claim = FALSE]
Fresh == {s \in Scene : home[s] = {}}
Away == {"closed", "signed out"}
Steady == tab.stage = "open" /\ task = Idle

Init ==
  /\ store \in {Empty, [content |-> Drawing(First), id |-> First], [content |-> Drawing("mine"), id |-> None]}
  /\ tab = [stage |-> "closed", id |-> None, canvas |-> Nothing, owns |-> FALSE, claim |-> FALSE]
  /\ pending = Nothing /\ local = Nothing /\ task = Idle /\ slipped = {}
  /\ cloud = [s \in Scene |-> IF s \in {First, Second} THEN Drawing(s) ELSE Nothing]
  /\ home = [s \in Scene |-> IF s \in {First, Second} THEN {s} ELSE {}]
  /\ used = [edits |-> 0, moves |-> 0, mishaps |-> 0]

(***************************************************************************)
(* Starting: what the canvas is initialised with.                           *)
(***************************************************************************)
(* The session is read again from the storage, and the engine reports the   *)
(* canvas it was given as a change.                                         *)
Shows(c, s) ==
  /\ tab' = [tab EXCEPT !.stage = "open", !.id = s.id, !.canvas = c]
  /\ store' = s /\ pending' = c

(* The cached drawing, unless the address holds a link to a shared one and  *)
(* the user prefers that; and without either, the scene the id names.       *)
Start(link) ==
  /\ tab.stage \in Away /\ Move
  /\ local' = store.content
  /\ \/ /\ link /\ UNCHANGED <<store, pending>>
        /\ tab' = [tab EXCEPT !.stage = IF store.content = Nothing THEN "fetching link" ELSE "asking",
                              !.id = store.id, !.canvas = Blank]
     \/ ~link /\ store.content # Nothing /\ Shows(store.content, store)
     \/ /\ ~link /\ store.content = Nothing /\ store.id # None /\ UNCHANGED <<store, pending>>
        /\ tab' = [tab EXCEPT !.stage = "fetching scene", !.id = store.id, !.canvas = Blank]
     \/ ~link /\ store = Empty /\ Shows(Blank, store)
  /\ UNCHANGED <<cloud, home, task, slipped>>

(* The dialog that asks whether the link may replace the cached drawing.    *)
Accept ==
  /\ tab.stage = "asking"
  /\ store' = NoScene /\ tab' = [Detached EXCEPT !.stage = "fetching link"]
  /\ UNCHANGED <<pending, local, cloud, home, task, slipped, used>>
Decline ==
  /\ tab.stage = "asking" /\ Shows(local, store)
  /\ UNCHANGED <<local, cloud, home, task, slipped, used>>
(* The dialog offers to save first: the canvas, which is still empty.       *)
SaveBlank ==
  /\ tab.stage = "asking" /\ tab.id # None /\ Move
  /\ cloud' = [cloud EXCEPT ![tab.id] = Blank] /\ slipped' = slipped \cup {"saved the empty canvas"}
  /\ Shows(local, store)
  /\ UNCHANGED <<local, home, task>>

(* The shared drawing arrives, or what was cached is shown instead.         *)
LinkFetched(ok) ==
  /\ tab.stage = "fetching link"
  /\ Shows(IF ok THEN Drawing("shared") ELSE IF local = Nothing THEN Blank ELSE local, store)
  /\ slipped' = slipped \cup (IF local = Nothing /\ store.id # None THEN {"kept the id"} ELSE {})
  /\ UNCHANGED <<local, cloud, home, task, used>>

(* The scene of the id arrives: cached at once if its images are complete;  *)
(* a scene that cannot be read is no longer the tab's.                      *)
SceneFetched(whole) ==
  /\ tab.stage = "fetching scene"
  /\ LET c == cloud[tab.id] IN
     IF c = Nothing THEN Shows(Blank, Empty)
     ELSE Shows(c, [content |-> IF whole THEN c ELSE store.content, id |-> tab.id])
  /\ UNCHANGED <<local, cloud, home, task, slipped, used>>
FetchFails ==
  /\ tab.stage = "fetching scene"
  /\ Shows(Blank, NoScene) /\ UNCHANGED <<local, cloud, home, task, slipped, used>>

(***************************************************************************)
(* Drawing and caching.                                                     *)
(***************************************************************************)
Change(c) == tab' = [tab EXCEPT !.canvas = c] /\ pending' = Due(c)

Edit ==
  /\ tab.stage = "open" /\ used.edits < MaxEdits
  /\ used' = [used EXCEPT !.edits = @ + 1]
  /\ Change(IF tab.canvas = Blank THEN [of |-> "mine", n |-> 1] ELSE [tab.canvas EXCEPT !.n = @ + 1])
  /\ UNCHANGED <<store, local, cloud, home, task, slipped>>

(* What was due is cached, whatever the tab shows by now.                   *)
SaveFires ==
  /\ pending # Nothing /\ tab.stage \notin Away
  /\ store' = [store EXCEPT !.content = pending] /\ pending' = Nothing
  /\ UNCHANGED <<tab, local, cloud, home, task, slipped, used>>
StorageFull ==
  /\ pending # Nothing /\ tab.stage \notin Away /\ Mishap
  /\ pending' = Nothing /\ slipped' = slipped \cup {"not cached"}
  /\ UNCHANGED <<store, tab, local, cloud, home, task>>

Gone == tab' = [tab EXCEPT !.stage = IF @ = "leaving" THEN "signed out" ELSE "closed",
                           !.id = None, !.canvas = Nothing, !.owns = FALSE]
(* A tab that is closed or reloaded caches its canvas: one that still waits *)
(* for its drawing, an empty one.                                           *)
Close ==
  /\ tab.stage \notin Away /\ Gone
  /\ store' = IF Paused THEN store ELSE [store EXCEPT !.content = tab.canvas]
  /\ slipped' = slipped \cup (IF ~Paused /\ tab.stage # "open" /\ store.id # None
                              THEN {"closed before it showed"} ELSE {})
  /\ pending' = Nothing /\ task' = Idle /\ UNCHANGED <<local, cloud, home, used>>
Kill ==
  /\ tab.stage \notin Away /\ Mishap /\ Gone
  /\ slipped' = slipped \cup (IF ~Paused /\ tab.stage = "open" /\ store.content \notin {Nothing, tab.canvas}
                              THEN {"not cached"} ELSE {})
  /\ pending' = Nothing /\ task' = Idle /\ UNCHANGED <<store, local, cloud, home>>

(***************************************************************************)
(* Scenes: saving, opening, creating, losing them.                          *)
(***************************************************************************)
(* A save of the scene that is open; one that no longer exists is let go.   *)
Save ==
  /\ Steady /\ tab.id # None /\ Move
  /\ \/ cloud[tab.id] # Nothing /\ cloud' = [cloud EXCEPT ![tab.id] = tab.canvas] /\ UNCHANGED <<store, tab>>
     \/ cloud[tab.id] = Nothing /\ store' = NoScene /\ tab' = Detached /\ UNCHANGED cloud
  /\ UNCHANGED <<pending, local, home, task, slipped>>

(* A canvas without a scene is saved as a new one.                          *)
SaveNew ==
  /\ Steady /\ tab.id = None /\ Move
  /\ task' = [kind |-> "create", content |-> tab.canvas]
  /\ UNCHANGED <<store, tab, pending, local, cloud, home, slipped>>
(* A new scene, of what the canvas shows or empty: first the tab leaves the *)
(* scene it has.                                                            *)
NewScene(keep) ==
  /\ Steady /\ Move /\ store' = NoScene
  /\ LET c == IF keep THEN tab.canvas ELSE Blank IN
       /\ tab' = [Detached EXCEPT !.canvas = c]
       /\ pending' = IF keep THEN pending ELSE Due(c)
       /\ task' = [kind |-> "create", content |-> c]
  /\ UNCHANGED <<local, cloud, home, slipped>>
Created ==
  /\ task.kind = "create"
  /\ \E s \in Fresh :
       /\ cloud' = [cloud EXCEPT ![s] = task.content]
       /\ home' = [home EXCEPT ![s] = {task.content.of} \cup (IF task.content = Blank THEN {"mine"} ELSE {})
                                                       \cup (IF tab.claim THEN {"room"} ELSE {})]
       /\ store' = [store EXCEPT !.id = s] /\ tab' = [tab EXCEPT !.id = s]
  /\ task' = Idle /\ UNCHANGED <<pending, local, slipped, used>>
TaskFails ==
  /\ task # Idle /\ Mishap /\ task' = Idle
  /\ UNCHANGED <<store, tab, pending, local, cloud, home, slipped>>

(* Another scene is put on the canvas: cached if its images are complete,   *)
(* the id in any case.                                                      *)
OpenScene(s, whole) ==
  /\ Steady /\ s # tab.id /\ cloud[s] # Nothing /\ Move
  /\ tab' = [tab EXCEPT !.id = s, !.canvas = cloud[s], !.claim = FALSE]
  /\ store' = [content |-> IF whole THEN cloud[s] ELSE store.content, id |-> s]
  /\ pending' = Due(cloud[s]) /\ UNCHANGED <<local, cloud, home, task, slipped>>

(* A link is opened in a tab that has a drawing.                            *)
OpenLink ==
  /\ Steady /\ Move /\ store' = NoScene /\ tab' = Detached
  /\ task' = [kind |-> "link", content |-> Nothing]
  /\ UNCHANGED <<pending, local, cloud, home, slipped>>
LinkOpened ==
  /\ task.kind = "link" /\ Change(Drawing("shared")) /\ task' = Idle
  /\ UNCHANGED <<store, local, cloud, home, slipped, used>>

(* A scene is deleted: from this tab, which lets go of it, or elsewhere.    *)
Delete(s, here) ==
  /\ tab.stage = "open" /\ cloud[s] # Nothing /\ Move
  /\ cloud' = [cloud EXCEPT ![s] = Nothing]
  /\ IF here /\ s = tab.id THEN store' = NoScene /\ tab' = Detached ELSE UNCHANGED <<store, tab>>
  /\ UNCHANGED <<pending, local, home, task, slipped>>
DeleteWorkspace ==
  /\ Steady /\ tab.id # None /\ Move
  /\ cloud' = [cloud EXCEPT ![tab.id] = Nothing]
  /\ tab' = [Detached EXCEPT !.canvas = Blank] /\ store' = Empty /\ pending' = Due(Blank)
  /\ UNCHANGED <<local, home, task, slipped>>

(***************************************************************************)
(* Rooms, and signing out.                                                  *)
(***************************************************************************)
(* A guest gives up the scene and the canvas before the room claims it; an  *)
(* owner's canvas is the room's as it is.                                   *)
EnterRoom(guest) ==
  /\ Steady /\ ~tab.owns /\ Move
  /\ \/ guest /\ store' = NoScene /\ pending' = Blank
        /\ tab' = [tab EXCEPT !.id = None, !.canvas = Blank, !.owns = TRUE, !.claim = TRUE]
     \/ ~guest /\ tab.id # None /\ tab' = [tab EXCEPT !.owns = TRUE, !.claim = TRUE]
        /\ UNCHANGED <<store, pending>>
  /\ UNCHANGED <<local, cloud, home, task, slipped>>
(* What a room draws on a canvas that is its own.                           *)
RoomDraws ==
  /\ tab.stage = "open" /\ tab.claim /\ tab.owns /\ tab.canvas.of \in {"blank", "mine"}
  /\ Change([of |-> "room", n |-> tab.canvas.n])
  /\ home' = [s \in Scene |-> IF s = tab.id THEN home[s] \cup {"room"} ELSE home[s]]
  /\ UNCHANGED <<store, local, cloud, task, slipped, used>>
(* The drawing of a room that was left is the guest's copy from then on.    *)
LeaveRoom ==
  /\ Steady /\ tab.owns
  /\ LET copy(c) == IF c.of = "room" THEN [c EXCEPT !.of = "copy"] ELSE c IN
       /\ tab' = [tab EXCEPT !.owns = FALSE, !.claim = FALSE, !.canvas = copy(@)]
       /\ store' = [store EXCEPT !.content = copy(@)] /\ pending' = copy(pending)
       /\ cloud' = [s \in Scene |-> copy(cloud[s])]
       /\ home' = [s \in Scene |-> home[s] \cup IF "room" \in home[s] THEN {"copy"} ELSE {}]
  /\ UNCHANGED <<local, task, slipped, used>>

(* Signing out clears the canvas (if the engine does not fail) and all that *)
(* is cached, and leaves the page.                                          *)
SignOut(reset) ==
  /\ Steady /\ Move
  /\ tab' = [Detached EXCEPT !.stage = "leaving", !.canvas = IF reset THEN Blank ELSE @]
  /\ store' = Empty /\ pending' = Nothing
  /\ UNCHANGED <<local, cloud, home, task, slipped>>

Next ==
  \/ \E b \in BOOLEAN : Start(b) \/ LinkFetched(b) \/ SceneFetched(b) \/ NewScene(b) \/ EnterRoom(b) \/ SignOut(b)
  \/ Accept \/ Decline \/ SaveBlank \/ FetchFails
  \/ Edit \/ SaveFires \/ StorageFull \/ Close \/ Kill
  \/ Save \/ SaveNew \/ Created \/ TaskFails \/ OpenLink \/ LinkOpened \/ DeleteWorkspace
  \/ \E s \in Scene, b \in BOOLEAN : OpenScene(s, b) \/ Delete(s, b)
  \/ RoomDraws \/ LeaveRoom

Spec == Init /\ [][Next]_lsvars

(***************************************************************************)
(* Properties.                                                              *)
(***************************************************************************)
TypeOK ==
  /\ store.id \in Scene \cup {None} /\ store.content.of \in Line
  /\ tab.stage \in Away \cup {"asking", "fetching link", "fetching scene", "open", "leaving"}
  /\ tab.id \in Scene \cup {None} /\ tab.canvas.of \in Line /\ pending.of \in Line /\ local.of \in Line
  /\ \A s \in Scene : cloud[s].of \in Line /\ home[s] \subseteq Line
  /\ task.kind \in {"none", "create", "link"}
  /\ slipped \subseteq {"saved the empty canvas", "kept the id", "not cached", "closed before it showed"}

(* A drawing is saved into no scene but its own, and the id a tab works     *)
(* with names the scene its canvas shows, whatever was opened, created,     *)
(* deleted or reloaded before.                                              *)
SavedWhereItBelongs ==
  slipped = {} =>
    /\ \A s \in Scene : cloud[s] # Nothing => cloud[s].of \in home[s]
    /\ (tab.stage = "open" /\ tab.id # None) => tab.canvas.of \in home[tab.id]
(* What a closed tab leaves in the storage comes back under the right id.   *)
CacheNamesItsScene ==
  (slipped = {} /\ tab.stage = "closed" /\ store.id # None /\ store.content # Nothing) =>
    store.content.of \in home[store.id]
(* The drawing of a room is not cached for a guest who has saved no copy.   *)
RoomsAreNotCached ==
  (tab.owns /\ tab.claim /\ tab.id = None) => store.content.of # "room" /\ pending.of # "room"
(* Who has signed out leaves nothing behind, and nothing is due.            *)
SignedOutClean == tab.stage \in {"leaving", "signed out"} => store = Empty /\ pending = Nothing
LocalSound == SavedWhereItBelongs /\ CacheNamesItsScene /\ RoomsAreNotCached /\ SignedOutClean
=============================================================================
