---------------------------- MODULE PersonalLibrary ----------------------------
(* The library of drawings a user keeps: one row per user, the engine of     *)
(* each tab that merges its changes into it, and the identity of the tab,    *)
(* which may change.                                                         *)
EXTENDS Naturals, Sequences, FiniteSets

CONSTANTS User, Tab,
          MaxRaw, MaxCompressed, MaxBase64,   \* PERSONAL_LIBRARY_MAX_..., in the size of an item
          MaxItems, MaxSignIns, MaxMishaps    \* bounds: items, changes of identity, faults

VARIABLES row, tab, wire,     \* wire: the requests to put under way
          unasked,            \* history: items that left a row though nobody deleted them
          used
vars == <<row, tab, wire, unasked, used>>

Anonymous == "anonymous"
Item == (User \cup {Anonymous}) \X (1..MaxItems)
None == <<"none", 0>>
NoRow == [revision |-> 0, items |-> {}, compressed |-> 0, checksum |-> TRUE]   \* PERSONAL_LIBRARY_NO_REVISION
Listening(t) == tab[t].stage = "ready" /\ tab[t].user # Anonymous
Loading(t) == \E i \in DOMAIN tab[t].tasks : tab[t].tasks[i].kind = "load"

(***************************************************************************)
(* The codec, the same on both sides.                                       *)
(***************************************************************************)
Base64Length(bytes) == 4 * ((bytes + 2) \div 3)
Compresses(items, bytes) == Cardinality(items) <= MaxRaw /\ bytes <= MaxCompressed
Encodes(bytes) == bytes \in 1..MaxCompressed
Decodes(bytes) == Base64Length(bytes) <= MaxBase64 /\ bytes \in 1..MaxCompressed
Decompresses(items, bytes) == bytes \in 1..MaxCompressed /\ Cardinality(items) <= MaxRaw
Loads(stored) ==
  Encodes(stored.compressed) /\ Decodes(stored.compressed) /\ stored.checksum
    /\ Decompresses(stored.items, stored.compressed)

(* Every tab with nobody signed in; or signed in, with an empty library     *)
(* loaded.  Some of the bounds used up.                                     *)
Init ==
  /\ row = [u \in User |-> NoRow] /\ wire = {} /\ unasked = {}
  /\ \E user \in User \cup {Anonymous} :
       tab = [t \in Tab |-> [user |-> user, stage |-> IF user = Anonymous THEN "resetting" ELSE "ready",
                             memory |-> {}, tasks |-> <<>>, pc |-> "idle", revision |-> 0, next |-> {},
                             last |-> IF user = Anonymous THEN {None} ELSE {}, install |-> None]]
  /\ used \in [items : {0, 1}, signIns : 0..MaxSignIns, mishaps : {0, MaxMishaps}]
Mishap == used.mishaps < MaxMishaps /\ used' = [used EXCEPT !.mishaps = @ + 1]

(***************************************************************************)
(* PersonalLibraryController.                                               *)
(***************************************************************************)
(* Another identity mounts another controller; the listener of the one      *)
(* before is gone before this one clears the memory.                        *)
SignIn(t, user) ==
  /\ used.signIns < MaxSignIns /\ used' = [used EXCEPT !.signIns = @ + 1] /\ user # tab[t].user
  /\ tab' = [tab EXCEPT ![t].user = user, ![t].stage = "resetting", ![t].install = None]
  /\ UNCHANGED <<row, wire, unasked>>
(* The engine takes one change of its memory at a time, so a load that it   *)
(* has begun comes first.                                                   *)
Reset(t) ==
  /\ tab[t].stage = "resetting" /\ ~Loading(t)
  /\ tab' = [tab EXCEPT ![t].memory = {}, ![t].stage = "reset"]
  /\ UNCHANGED <<row, wire, unasked, used>>
(* PersonalLibraryRuntime: the listener, and the load.                      *)
Mount(t) ==
  /\ tab[t].stage = "reset"
  /\ tab' = [tab EXCEPT ![t].stage = "ready", ![t].revision = 0,
                        ![t].tasks = IF tab[t].user = Anonymous THEN @
                                     ELSE Append(@, [kind |-> "load", user |-> tab[t].user, added |-> {}, deleted |-> {}])]
  /\ UNCHANGED <<row, wire, unasked, used>>

(***************************************************************************)
(* The engine: what changes its memory, and one transaction at a time.      *)
(***************************************************************************)
Changed(t, memory) ==
  [tab[t] EXCEPT !.memory = memory,
     !.tasks = IF Listening(t) /\ memory # tab[t].memory
               THEN Append(@, [kind |-> "update", user |-> tab[t].user,
                               added |-> memory \ tab[t].memory, deleted |-> tab[t].memory \ memory])
               ELSE @]
Change(t) ==
  /\ tab[t].stage # "resetting" /\ ~Loading(t)
  /\ \/ /\ used.items < MaxItems /\ used' = [used EXCEPT !.items = @ + 1]
        /\ tab' = [tab EXCEPT ![t] = Changed(t, tab[t].memory \cup {<<tab[t].user, used.items + 1>>})]
     \/ \E i \in tab[t].memory : tab' = [tab EXCEPT ![t] = Changed(t, tab[t].memory \ {i})] /\ UNCHANGED used
  /\ UNCHANGED <<row, wire, unasked>>

(* installFromUrl: what is fetched from the catalog is merged unless the    *)
(* controller that asked for it is gone.                                    *)
StartInstall(t) ==
  /\ tab[t].stage = "ready" /\ tab[t].install = None
  /\ used.items < MaxItems /\ used' = [used EXCEPT !.items = @ + 1]
  /\ tab' = [tab EXCEPT ![t].install = <<tab[t].user, used.items + 1>>]
  /\ UNCHANGED <<row, wire, unasked>>
Install(t) ==
  /\ tab[t].install # None /\ tab[t].stage = "ready" /\ ~Loading(t)
  /\ \/ tab' = [tab EXCEPT ![t] = [Changed(t, tab[t].memory \cup {tab[t].install}) EXCEPT !.install = None]]
     \/ tab' = [tab EXCEPT ![t].install = None]          \* fetchOfficialExcalidrawLibrary refuses
  /\ UNCHANGED <<row, wire, unasked, used>>

Done(mine) == [mine EXCEPT !.tasks = Tail(@), !.pc = "idle"]
(* load of the adapter, at the start of every transaction.  One that fails  *)
(* ends the transaction.                                                    *)
TaskLoad(t) ==
  LET task == Head(tab[t].tasks)
      stored == row[task.user]
      read == [Done(tab[t]) EXCEPT !.revision = stored.revision]
      next == (stored.items \ task.deleted) \cup task.added
  IN /\ tab[t].tasks # <<>> /\ tab[t].pc = "idle" /\ UNCHANGED <<row, wire, unasked>>
     /\ \/ Mishap /\ tab' = [tab EXCEPT ![t] = Done(@)]
        \/ stored # NoRow /\ ~Loads(stored) /\ tab' = [tab EXCEPT ![t] = read] /\ UNCHANGED used
        \/ /\ (stored = NoRow \/ Loads(stored)) /\ UNCHANGED used
           /\ \/ /\ task.kind = "load"
                 /\ tab' = [tab EXCEPT ![t] =
                      [read EXCEPT !.memory = @ \cup stored.items, !.last = stored.items,
                         !.tasks = IF Listening(t) /\ ~(tab[t].memory \subseteq stored.items)
                                   THEN Append(@, [kind |-> "update", user |-> task.user,
                                                   added |-> stored.items \ tab[t].memory, deleted |-> {}])
                                   ELSE @]]
              \/ /\ task.kind = "update" /\ next = tab[t].last /\ tab' = [tab EXCEPT ![t] = read]
              \/ /\ task.kind = "update" /\ next # tab[t].last
                 /\ tab' = [tab EXCEPT ![t].revision = stored.revision, ![t].next = next, ![t].pc = "save"]

(* save: what is too large is not sent.                                     *)
TaskSave(t) ==
  LET task == Head(tab[t].tasks) IN
  /\ tab[t].pc = "save" /\ UNCHANGED <<row, unasked, used>>
  /\ \E bytes \in {1, Cardinality(tab[t].next) + 1} :
       IF Compresses(tab[t].next, bytes) /\ Encodes(bytes)
       THEN /\ tab' = [tab EXCEPT ![t].pc = "sent"]
            /\ wire' = wire \cup {[tab |-> t, user |-> task.user, expected |-> tab[t].revision, bytes |-> bytes,
                                   items |-> tab[t].next, deleted |-> task.deleted]}
       ELSE tab' = [tab EXCEPT ![t] = Done(@)] /\ UNCHANGED wire
(* No answer: the request may be processed still.                           *)
GiveUp(t) ==
  /\ tab[t].pc = "sent" /\ Mishap /\ tab' = [tab EXCEPT ![t] = Done(@)]
  /\ wire' = {[p EXCEPT !.tab = IF @ = t THEN 0 ELSE @] : p \in wire}
  /\ UNCHANGED <<row, unasked>>

(***************************************************************************)
(* put of the router.                                                       *)
(***************************************************************************)
Written(p) == [revision |-> p.expected + 1, items |-> p.items, compressed |-> p.bytes, checksum |-> TRUE]
Takes(p) == Decodes(p.bytes) /\ Decompresses(p.items, p.bytes)
Put(p) ==
  LET saves == Takes(p) /\ row[p.user].revision = p.expected
      answered == [t \in Tab |->
        IF t # p.tab THEN tab[t]
        ELSE IF saves THEN [Done(tab[t]) EXCEPT !.revision = p.expected + 1, !.last = p.items]
        ELSE IF Takes(p) THEN [Done(tab[t]) EXCEPT !.revision = row[p.user].revision]
        ELSE Done(tab[t])]
  IN /\ row' = IF saves THEN [row EXCEPT ![p.user] = Written(p)] ELSE row
     /\ unasked' = unasked \cup (row[p.user].items \ (row'[p.user].items \cup p.deleted))
     /\ wire' = wire \ {p} /\ tab' = answered /\ UNCHANGED used

(* Bytes that no longer have their checksum.                                *)
Harm(u) ==
  /\ row[u] # NoRow /\ row[u].checksum /\ Mishap /\ row' = [row EXCEPT ![u].checksum = FALSE]
  /\ UNCHANGED <<tab, wire, unasked>>

Next ==
  \/ \E t \in Tab :
       \/ Reset(t) \/ Mount(t) \/ Change(t) \/ StartInstall(t) \/ Install(t)
       \/ TaskLoad(t) \/ TaskSave(t) \/ GiveUp(t)
       \/ \E user \in User \cup {Anonymous} : SignIn(t, user)
  \/ \E p \in wire : Put(p)
  \/ \E u \in User : Harm(u)

(***************************************************************************)
TypeOK ==
  /\ \A u \in User : row[u].items \subseteq Item
  /\ \A t \in Tab : tab[t].stage \in {"resetting", "reset", "ready"} /\ tab[t].memory \subseteq Item
                    /\ tab[t].pc \in {"idle", "save", "sent"}
  /\ \A p \in wire : p.tab \in Tab \cup {0}

(* Whatever the tabs of a user do at once, and whichever request comes late *)
(* or reads nothing, what is in the library leaves it only when somebody    *)
(* deletes it.                                                              *)
DeletedByRequest == unasked = {}

(* No drawing of one identity comes into the library of another.            *)
OneIdentity == \A u \in User : \A i \in row[u].items : i[1] = u

(* What the server has taken, every client can load.                        *)
RowsLoad == \A u \in User : (row[u].checksum /\ row[u] # NoRow) => Loads(row[u])

PersonalSound == DeletedByRequest /\ OneIdentity /\ RowsLoad
=============================================================================
