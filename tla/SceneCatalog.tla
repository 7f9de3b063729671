----------------------------- MODULE SceneCatalog -----------------------------
(***************************************************************************)
(* The dashboard of one user: the list of scenes, page by page under a     *)
(* cursor while other tabs and devices change them, and the public links   *)
(* of scenes (server/api/routers/scene.ts, scene-search-list.tsx and       *)
(* scene-card.tsx of apps/web).                                            *)
(*                                                                         *)
(* Scenes are numbered in the order of their ids.  A server stamps a       *)
(* change with its own clock, which may be one behind.  Slugs are numbered *)
(* as they are drawn.  Bounds: MaxTime, MaxRevision, MaxSlugs; PageSize is *)
(* 10 and MaxSlugAttempts 5 in the code.                                   *)
(***************************************************************************)
EXTENDS Naturals, Sequences, FiniteSets, SequencesExt

CONSTANTS Scene, Tab, PageSize, MaxTime, MaxRevision, MaxSlugs, MaxSlugAttempts

VARIABLES
  clock,     \* the time
  row,       \* scene rows: [live, updated, revision, archived, slug]
  list,      \* getUserScenesInfinite of the list: [items, cursor, more]
  touched,   \* history: scenes changed since the list's first page
  drawn,     \* slugs drawn so far
  publish,   \* [pc, scene, attempts, known]: the publish request of each tab
  links,     \* history: the links handed out and not withdrawn, [scene, slug]
  replaced   \* history: links replaced by a publish that did not see them

listVars == <<list, touched>>
publishVars == <<drawn, publish, links, replaced>>

NoCursor == [updated |-> MaxTime + 1, id |-> 0]

Init ==
  /\ clock = 1
  /\ row \in [Scene -> [live : BOOLEAN, updated : {1}, revision : {1},
                        archived : {FALSE}, slug : {0}]]
  /\ list = [items |-> <<>>, cursor |-> NoCursor, more |-> FALSE] /\ touched = Scene
  /\ drawn = 0 /\ links = {} /\ replaced = {}
  /\ publish = [t \in Tab |-> [pc |-> "idle", scene |-> 0, attempts |-> 0, known |-> {}]]

-----------------------------------------------------------------------------
(* The list                                                                 *)

(* Descending by time, then by id.                                          *)
Below(s, c) ==
  \/ row[s].updated < c.updated
  \/ row[s].updated = c.updated /\ s < c.id

Later(s, t) ==
  \/ row[s].updated > row[t].updated
  \/ row[s].updated = row[t].updated /\ s > t

(* The rows under the cursor; one more than a page says there is more.      *)
Rows(c) ==
  SetToSortSeq({s \in Scene : row[s].live /\ ~row[s].archived /\ Below(s, c)}, Later)

Item(s) == [id |-> s, revision |-> row[s].revision]

(* fetchNextPage, and refetch: a list begins again with its first page.     *)
FetchPage(c, before) ==
  LET rows == Rows(c)
      page == SubSeq(rows, 1, IF Len(rows) > PageSize THEN PageSize ELSE Len(rows))
      last == page[Len(page)] IN
  list' = [items  |-> before \o [i \in DOMAIN page |-> Item(page[i])],
           more   |-> Len(rows) > PageSize,
           cursor |-> IF page = <<>> THEN c
                      ELSE [updated |-> row[last].updated, id |-> last]]

FetchFirstPage ==
  /\ FetchPage(NoCursor, <<>>) /\ touched' = {}
  /\ UNCHANGED <<clock, row, publishVars>>

FetchNextPage ==
  /\ list.more /\ FetchPage(list.cursor, list.items)
  /\ UNCHANGED <<clock, row, touched, publishVars>>

-----------------------------------------------------------------------------
(* Changes                                                                  *)

Touch(s) == touched' = touched \union {s} /\ UNCHANGED <<clock, list>>

Now(t) == t \in {clock, clock - 1} \ {0}

(* The links of a scene that is unpublished or deleted are withdrawn.       *)
Withdraw(s) ==
  /\ links' = {l \in links : l.scene # s}
  /\ UNCHANGED <<drawn, publish, replaced>>

(* A save, a rename, a move: the row gets a time and a revision.            *)
ChangeScene(s) ==
  /\ row[s].live /\ row[s].revision < MaxRevision
  /\ \E t \in 1..MaxTime :
       /\ Now(t)
       /\ row' = [row EXCEPT ![s].updated = t, ![s].revision = @ + 1]
  /\ Touch(s) /\ UNCHANGED publishVars

CreateScene(s) ==
  /\ ~row[s].live /\ row[s].revision = 1
  /\ \E t \in 1..MaxTime : Now(t) /\ row' = [row EXCEPT ![s].live = TRUE, ![s].updated = t]
  /\ Touch(s) /\ UNCHANGED publishVars

(* archive and unarchive, with the revision the card was listed with.       *)
Archive(s, archived) ==
  /\ \E i \in DOMAIN list.items : list.items[i] = Item(s)
  /\ row[s].live /\ row[s].archived # archived /\ row[s].revision < MaxRevision
  /\ \E t \in 1..MaxTime :
       /\ Now(t)
       /\ row' = [row EXCEPT ![s].archived = archived, ![s].updated = t,
                             ![s].revision = @ + 1]
  /\ Touch(s) /\ UNCHANGED publishVars

DeleteScene(s) ==
  /\ row[s].live
  /\ row' = [row EXCEPT ![s].live = FALSE, ![s].slug = 0, ![s].revision = MaxRevision]
  /\ Touch(s) /\ Withdraw(s)

Tick == clock < MaxTime /\ clock' = clock + 1 /\ UNCHANGED <<row, listVars, publishVars>>

-----------------------------------------------------------------------------
(* Public links                                                             *)

HandOut(t, s, slug) == links' = links \union {[scene |-> s, slug |-> slug]}

AlreadyPublished(s) == row[s].slug # 0

(* publish reads the row and returns its slug, or goes on to draw one.      *)
PublishRead(t, s) ==
  /\ publish[t].pc = "idle" /\ row[s].live
  /\ IF AlreadyPublished(s)
     THEN HandOut(t, s, row[s].slug) /\ UNCHANGED publish
     ELSE /\ publish' = [publish EXCEPT ![t] =
               [pc |-> "write", scene |-> s, attempts |-> 0,
                known |-> {l \in links : l.scene = s}]]
          /\ UNCHANGED links
  /\ UNCHANGED <<clock, row, listVars, drawn, replaced>>

Answered(t) == publish' = [publish EXCEPT ![t].pc = "idle"]

(* The update asks for the id and the owner, not for what was read.         *)
PublishWrite(t) ==
  LET p == publish[t]
      s == p.scene IN
  /\ p.pc = "write" /\ drawn < MaxSlugs
  /\ drawn' = drawn + 1
  /\ IF row[s].live
     THEN /\ \E time \in 1..MaxTime :
               Now(time) /\ row' = [row EXCEPT ![s].slug = drawn + 1, ![s].updated = time]
          /\ replaced' = replaced \union {l \in links : l.scene = s /\ l \notin p.known}
          /\ HandOut(t, s, drawn + 1) /\ Touch(s)
     ELSE UNCHANGED <<clock, row, listVars, links, replaced>>
  /\ Answered(t)

(* The unique index refuses a slug another scene has.                       *)
SlugCollides(t) ==
  /\ publish[t].pc = "write"
  /\ \E s \in Scene : s # publish[t].scene /\ row[s].slug # 0
  /\ IF publish[t].attempts + 1 < MaxSlugAttempts
     THEN publish' = [publish EXCEPT ![t].attempts = @ + 1]
     ELSE Answered(t)
  /\ UNCHANGED <<clock, row, listVars, drawn, links, replaced>>

Unpublish(s) ==
  /\ row[s].live /\ row[s].slug # 0
  /\ \E t \in 1..MaxTime :
       Now(t) /\ row' = [row EXCEPT ![s].slug = 0, ![s].updated = t]
  /\ Touch(s) /\ Withdraw(s)

(* getPublishedSceneBySlug.                                                 *)
Opens(slug) == {s \in Scene : row[s].live /\ row[s].slug = slug}

-----------------------------------------------------------------------------

ListNext ==
  \/ FetchFirstPage \/ FetchNextPage \/ Tick
  \/ \E s \in Scene :
       \/ ChangeScene(s) \/ CreateScene(s) \/ DeleteScene(s)
       \/ \E archived \in BOOLEAN : Archive(s, archived)

PublishNext ==
  \/ \E t \in Tab :
       PublishWrite(t) \/ SlugCollides(t) \/ \E s \in Scene : PublishRead(t, s)
  \/ \E s \in Scene : Unpublish(s) \/ DeleteScene(s)

TypeOK ==
  /\ clock \in 1..MaxTime /\ touched \subseteq Scene /\ drawn \in 0..MaxSlugs
  /\ row \in [Scene -> [live : BOOLEAN, updated : 1..MaxTime, revision : 1..MaxRevision,
                        archived : BOOLEAN, slug : 0..MaxSlugs]]
  /\ \A i \in DOMAIN list.items : list.items[i].id \in Scene
  /\ \A t \in Tab : publish[t].pc \in {"idle", "write"}
  /\ links \union replaced \subseteq [scene : Scene, slug : 1..MaxSlugs]

Times(s) == Cardinality({i \in DOMAIN list.items : list.items[i].id = s})

\* A list read to its end has every scene that was not changed meanwhile, once, whatever
\* was changed, created, archived or deleted between two pages, and although many scenes
\* may have one time (the cursor of getUserScenesInfinite).
ListComplete ==
  ~list.more =>
    \A s \in Scene \ touched : Times(s) = IF row[s].live /\ ~row[s].archived THEN 1 ELSE 0

\* A public link opens the scene it was handed out for, and no other, until that scene
\* is unpublished or deleted.  A publish that had read the row before there was a link
\* may replace it (publish reads and writes without comparing): then it opens nothing
\* else, and of the publishes that raced the last one's link is the one that opens.
LinksOpen ==
  /\ \A l \in links \ replaced : Opens(l.slug) = {l.scene}
  /\ \A l \in links : Opens(l.slug) \subseteq {l.scene}
  /\ \A s \in Scene : row[s].slug # 0 => [scene |-> s, slug |-> row[s].slug] \in links \ replaced

-----------------------------------------------------------------------------
(* The invariant the proof of LinksOpen goes by (RoomKeys_proofs).          *)

CatalogBounds == MaxTime \in Nat /\ MaxRevision \in Nat

PublishShapes ==
  /\ row \in [Scene -> [live : BOOLEAN, updated : Nat, revision : Nat,
                        archived : BOOLEAN, slug : Nat]]
  /\ drawn \in Nat /\ links \union replaced \subseteq [scene : Scene, slug : Nat]
  /\ publish \in [Tab -> [pc : {"idle", "write"}, scene : Scene \union {0}, attempts : Nat,
                          known : SUBSET [scene : Scene, slug : Nat]]]

\* A slug is of one scene, which is there, and of no other's link; none is drawn twice.
SlugsInv ==
  /\ \A s \in Scene : row[s].slug <= drawn /\ (row[s].slug # 0 => row[s].live)
  /\ \A s, t \in Scene : row[s].slug # 0 /\ row[s].slug = row[t].slug => s = t
  /\ \A l \in links \union replaced : l.slug <= drawn
  /\ \A l \in links : \A s \in Scene : row[s].slug = l.slug => s = l.scene

\* A scene without a slug has no link; the link of a scene with one is that one, or was
\* replaced.  A publish that is to draw a slug knows of no link.
HandedInv ==
  /\ \A l \in links : /\ row[l.scene].slug # 0 /\ l.slug # 0
                       /\ (l \in replaced \/ row[l.scene].slug = l.slug)
  /\ \A s \in Scene : row[s].slug # 0 => [scene |-> s, slug |-> row[s].slug] \in links \ replaced
  /\ \A t \in Tab : publish[t].pc = "write" => publish[t].scene \in Scene /\ publish[t].known = {}

CatalogInv == PublishShapes /\ SlugsInv /\ HandedInv
=============================================================================
