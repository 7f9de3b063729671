------------------------------ MODULE Categories ------------------------------
(***************************************************************************)
(* The categories of one user and the scenes they are given to             *)
(* (server/api/routers/category.ts and syncSceneCategories of              *)
(* server/scene/save-owned-scene.ts, apps/web).                            *)
(*                                                                         *)
(* A save names the categories of its scene, makes those that are missing  *)
(* and replaces the assignments, inside the transaction that holds the     *)
(* row of the scene; the requests of the category dialog and of the scene  *)
(* cards are single statements in between.  Names are unique per user, and *)
(* an INSERT that meets an uncommitted row of the same name waits for it.  *)
(* Categories are numbered.  Bound: MaxChanges changes by others.          *)
(***************************************************************************)
EXTENDS Naturals

CONSTANTS Name, Category, Scene, Save, MaxChanges

VARIABLES
  category,   \* the name of each category, "none" before and "gone" after its life
  assigned,   \* scene_category: pairs of a scene and a category
  save,       \* saves: [pc, scene, names, ids, missing, drafts, cleared]
  disturbed,  \* history: names that others changed or assigned during a save
  changes     \* changes by others so far

NoDrafts == [n \in {} |-> 0]
Idle == [pc |-> "idle", scene |-> "none", names |-> {}, ids |-> {}, missing |-> {},
         drafts |-> NoDrafts, cleared |-> {}]

Live(c) == category[c] \in Name

(* At first the categories numbered lowest are there, given to no scene or all. *)
Init ==
  /\ category \in [Category -> Name \union {"none"}]
  /\ \A c, d \in Category : Live(c) /\ d < c => Live(d) /\ category[d] # category[c]
  /\ \E cs \in SUBSET {c \in Category : Live(c)} : assigned = Scene \X cs
  /\ save = [v \in Save |-> Idle] /\ disturbed = [v \in Save |-> {}] /\ changes = 0

At(v, pc) == save[v].pc = pc

Named(n) == {c \in Category : category[c] = n}
DraftNames == UNION {DOMAIN save[v].drafts : v \in Save}
Drafts(v) == {save[v].drafts[n] : n \in DOMAIN save[v].drafts}
Fresh == {c \in Category : category[c] = "none"} \ UNION {Drafts(v) : v \in Save}

-----------------------------------------------------------------------------
(* The save, statement by statement                                         *)

(* The update of the scene takes its row; two saves of a scene take turns.  *)
BeginSave(v, s, names) ==
  /\ At(v, "idle") /\ \A u \in Save : save[u].scene # s
  /\ save' = [save EXCEPT ![v] = [Idle EXCEPT !.pc = "lookup", !.scene = s, !.names = names]]
  /\ UNCHANGED <<category, assigned, disturbed, changes>>

LookupCategories(v) ==
  /\ At(v, "lookup")
  /\ save' = [save EXCEPT ![v].ids = UNION {Named(n) : n \in save[v].names},
                          ![v].missing = {n \in save[v].names : Named(n) = {}},
                          ![v].pc = "insert"]
  /\ UNCHANGED <<category, assigned, disturbed, changes>>

Failed(v) == [Idle EXCEPT !.pc = "failed", !.scene = save[v].scene, !.names = save[v].names]

\* Mutation: the INSERT raises on a name that is there by now.
RaisesOnConflict(n) == Named(n) # {}

(* ON CONFLICT DO NOTHING.                                                  *)
Raises(n) == FALSE

InsertCategories(v) ==
  LET free == {n \in save[v].missing : Named(n) = {}} IN
  /\ At(v, "insert") /\ save[v].missing \intersect DraftNames = {}
  /\ IF \E n \in save[v].missing : Raises(n)
     THEN save' = [save EXCEPT ![v] = Failed(v)]
     ELSE \E drafts \in [free -> Fresh] :
            /\ \A m, n \in free : m # n => drafts[m] # drafts[n]
            /\ \A n \in free, c \in Fresh : c < drafts[n] => \E m \in free : drafts[m] = c
            /\ save' = [save EXCEPT ![v].drafts = drafts, ![v].pc = "reselect"]
  /\ UNCHANGED <<category, assigned, disturbed, changes>>

(* The names that another request made first are looked up once more.       *)
ReselectCategories(v) ==
  /\ At(v, "reselect")
  /\ save' = [save EXCEPT ![v].ids = @ \union UNION {Named(n) : n \in save[v].missing},
                          ![v].pc = "clear"]
  /\ UNCHANGED <<category, assigned, disturbed, changes>>

(* The old assignments are deleted; their rows stay locked.                 *)
ClearAssignments(v) ==
  /\ At(v, "clear")
  /\ save' = [save EXCEPT ![v].cleared = {a \in assigned : a[1] = save[v].scene},
                          ![v].pc = "assign"]
  /\ UNCHANGED <<category, assigned, disturbed, changes>>

(* A plain INSERT: a category that is gone, or a pair that others have      *)
(* added since the old ones were deleted, fails the whole save.             *)
AssignCategories(v) ==
  LET s == save[v].scene
      old == save[v].cleared
      new == {s} \X (save[v].ids \union Drafts(v)) IN
  /\ At(v, "assign")
  /\ IF (\E c \in save[v].ids : ~Live(c)) \/ new \intersect (assigned \ old) # {}
     THEN save' = [save EXCEPT ![v] = Failed(v)] /\ UNCHANGED <<category, assigned>>
     ELSE /\ category' = [c \in Category |->
               IF c \in Drafts(v) THEN CHOOSE n \in DOMAIN save[v].drafts : save[v].drafts[n] = c
               ELSE category[c]]
          /\ assigned' = (assigned \ old) \union new
          /\ save' = [save EXCEPT ![v] = [Failed(v) EXCEPT !.pc = "done"]]
  /\ UNCHANGED <<disturbed, changes>>

EndSave(v) ==
  /\ save[v].pc \in {"done", "failed"} /\ save' = [save EXCEPT ![v] = Idle]
  /\ disturbed' = [disturbed EXCEPT ![v] = {}]
  /\ UNCHANGED <<category, assigned, changes>>

-----------------------------------------------------------------------------
(* What others change meanwhile                                             *)

Changes(names) ==
  /\ changes < MaxChanges /\ changes' = changes + 1
  /\ disturbed' = [v \in Save |-> IF At(v, "idle") THEN {} ELSE disturbed[v] \union names]

Cleared(a) == \E v \in Save : a \in save[v].cleared

(* The unique index: an uncommitted row of this name is waited for.         *)
CreateCategory(n) ==
  /\ Named(n) = {} /\ n \notin DraftNames
  /\ \E c \in Fresh : category' = [category EXCEPT ![c] = n]
  /\ changes < MaxChanges /\ changes' = changes + 1
  /\ UNCHANGED <<assigned, save, disturbed>>

RenameCategory(c, n) ==
  /\ Live(c) /\ Named(n) = {} /\ n \notin DraftNames
  /\ category' = [category EXCEPT ![c] = n]
  /\ Changes({category[c], n}) /\ UNCHANGED <<assigned, save>>

(* The assignments go by cascade, which waits for a save that cleared them. *)
(* A save that means to give the category again waits for the deletion in   *)
(* its turn: the database fails one of the two.                             *)
DeleteCategory(c) ==
  /\ Live(c)
  /\ \A v \in Save : (\E s \in Scene : <<s, c>> \in save[v].cleared) => c \in save[v].ids
  /\ category' = [category EXCEPT ![c] = "gone"]
  /\ assigned' = {a \in assigned : a[2] # c}
  /\ save' = [v \in Save |-> IF \E s \in Scene : <<s, c>> \in save[v].cleared
                             THEN Failed(v) ELSE save[v]]
  /\ Changes({category[c]})

AssignToScene(s, c) ==
  /\ Live(c) /\ <<s, c>> \notin assigned
  /\ assigned' = assigned \union {<<s, c>>}
  /\ Changes({category[c]}) /\ UNCHANGED <<category, save>>

UnassignFromScene(s, c) ==
  /\ <<s, c>> \in assigned /\ ~Cleared(<<s, c>>)
  /\ assigned' = assigned \ {<<s, c>>}
  /\ Changes({category[c]}) /\ UNCHANGED <<category, save>>

Next ==
  \/ \E v \in Save :
       \/ \E s \in Scene, names \in SUBSET Name : BeginSave(v, s, names)
       \/ LookupCategories(v) \/ InsertCategories(v) \/ ReselectCategories(v)
       \/ ClearAssignments(v) \/ AssignCategories(v) \/ EndSave(v)
  \/ \E n \in Name : CreateCategory(n) \/ \E c \in Category : RenameCategory(c, n)
  \/ \E c \in Category :
       \/ DeleteCategory(c)
       \/ \E s \in Scene : AssignToScene(s, c) \/ UnassignFromScene(s, c)

TypeOK ==
  /\ category \in [Category -> Name \union {"none", "gone"}]
  /\ assigned \subseteq Scene \X {c \in Category : Live(c)}
  /\ disturbed \in [Save -> SUBSET Name] /\ changes \in 0..MaxChanges
  /\ \A v \in Save :
       /\ save[v].pc \in {"idle", "lookup", "insert", "reselect", "clear", "assign",
                          "done", "failed"}
       /\ save[v].names \subseteq Name /\ save[v].ids \union Drafts(v) \subseteq Category

\* A save that succeeds leaves its scene with the categories it named and no others,
\* except where others changed or assigned one of them meanwhile; and only such a change
\* makes it fail, never that two saves bring in the same new name (syncSceneCategories).
SaveKeepsCategories ==
  \A v \in Save :
    /\ At(v, "done") =>
         LET given == {c \in Category : <<save[v].scene, c>> \in assigned} IN
         /\ \A n \in save[v].names \ disturbed[v] : Named(n) \intersect given # {}
         /\ \A c \in given : category[c] \in save[v].names \union disturbed[v]
    /\ At(v, "failed") => disturbed[v] # {}
=============================================================================
