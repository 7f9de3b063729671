----------------------------- MODULE MCComponents -----------------------------
(* Components that share no state, checked in one run.  A behaviour is      *)
(* about one of them, the one in focus, and the others rest.  Those that    *)
(* are instances take turns with the variables v1, v2, ..., which hold the  *)
(* state of the one in focus alone; SceneStorage has its own variables.     *)
EXTENDS SceneStorage, Sequences

CONSTANTS Scene, MaxEdits, MaxRev, MaxMishaps, MaxFlights,
          Asset, MaxDownloads, MaxUploads, MaxFetches, MaxTurns,
          Room, MaxMoves,
          Subject, Channel, Burst, MaxTracked, MaxTime, MaxBacks, MaxRestarts, MaxEpoch,
          Tab, Image, MaxSecrets, MaxRevision, MaxRelease, MaxFrames,
          Operator, Bootstrap, MaxRequests, MaxHostMoves

VARIABLES focus, v1, v2, v3, v4, v5, v6, v7, v8, v9, v10
slots == <<v1, v2, v3, v4, v5, v6, v7, v8, v9, v10>>
vars == <<focus, slots, storageVars>>

Sync == INSTANCE SceneSync WITH
  row <- v1, session <- v2, canvas <- v3, save <- v4, pull <- v5, rename <- v6,
  dialog <- v7, used <- v8, descends <- v9, owed <- v10

Assets == INSTANCE AssetTransfer WITH
  File <- Asset,
  room <- v1, canvas <- v2, ids <- v3, fetches <- v4, requests <- v5, down <- v6,
  up <- v7, verdict <- v8, tab <- v9, seen <- v10

Entry == INSTANCE RoomEntry WITH
  attempt <- v1, canvas <- v2, scene <- v3, claim <- v4, session <- v5,
  role <- v6, ui <- v7, received <- v8, slipped <- v9, moves <- v10

Budgets == INSTANCE RelayBudgets WITH
  clock <- v1, high <- v2, entries <- v3, conn <- v4, rooms <- v5, last <- v6,
  newest <- v7, account <- v8, rewound <- v9, used <- v10

Keys == INSTANCE RoomKeys WITH
  File <- Image,
  room <- v1, minted <- v2, tab <- v3, known <- v4, snapshot <- v5, image <- v6,
  sealed <- v7, release <- v8

Links == INSTANCE SharedLinks WITH
  File <- {"f", "g"}, Export <- {1, 2}, MaxRetries <- 2, MaxRuns <- 2, MaxTurns <- 3,
  status <- v1, export <- v2, row <- v3, shown <- v4, listing <- v5, load <- v6,
  retry <- v7, notified <- v8, canvas <- v9, slipped <- v10

Catalog == INSTANCE SceneCatalog WITH
  Scene <- {1, 2, 3}, Tab <- {"a", "b"}, PageSize <- 1, MaxTime <- 2, MaxRevision <- 2,
  MaxSlugs <- 3, MaxSlugAttempts <- 2,
  clock <- v1, row <- v2, list <- v3, touched <- v4, drawn <- v5, publish <- v6,
  links <- v7, replaced <- v8

Spaces == INSTANCE Workspaces WITH
  Workspace <- 1..3, Scene <- {1}, Request <- {"q", "r"},
  workspace <- v1, named <- v2, default <- v3, lastActive <- v4, scene <- v5,
  request <- v6, queued <- v7

Labels == INSTANCE Categories WITH
  Name <- {"m", "n"}, Category <- 1..3, Scene <- {"s", "t"}, Save <- {1, 2}, MaxChanges <- 1,
  category <- v1, assigned <- v2, save <- v3, disturbed <- v4, changes <- v5

Operators == INSTANCE OperatorGrants WITH
  User <- Operator, Job <- Bootstrap,
  account <- v1, grant <- v2, request <- v3, job <- v4, event <- v5, done <- v6, orphaned <- v7

Follows == INSTANCE FollowMode WITH
  Peer <- 1..3, MaxTime <- 1, MaxFollows <- 3, MaxViews <- 2, MaxLosses <- 1,
  member <- v1, self <- v2, remote <- v3, canvas <- v4, known <- v5, net <- v6,
  last <- v7, used <- v8

Transport == INSTANCE RelayTransport WITH
  MaxFrames <- 2, MaxArrivals <- 5, MaxConnections <- 2, MaxInbound <- 2, MaxBuffered <- 2, MaxSealed <- 3,
  Threshold <- 2,
  link <- v1, inbound <- v2, seen <- v3, delivered <- v4, verdict <- v5, missed <- v6,
  sealed <- v7, outbound <- v8, buffered <- v9, onWire <- v10

Documents == INSTANCE SceneDocuments WITH
  ContainerVersion <- 1, Element <- {"p", "q", "s"}, FileOf <- [p |-> "f", q |-> "g"],
  Name <- {"n", "m"}, MaxStored <- 8, MaxInflated <- 7,
  row <- v1, share <- v2, object <- v3, read <- v4

Formats == INSTANCE StoredFormats WITH
  File <- {"f", "g"}, MaxSnapshot <- 5, MaxDataUrl <- 48, MaxMetadata <- 2, Header <- 1,
  Overhead <- 2, Megabyte <- 16, MaxRevision <- 2,
  changed <- v1, release <- v2, snapshot <- v3, record <- v4, object <- v5, answer <- v6,
  meant <- v7, harmed <- v8, read <- v9

Limits == INSTANCE BackendBudgets WITH
  User <- {"a", "b"}, Tab <- {1, 2}, UserOf <- [n \in {1, 2} |-> "a"],
  Tokens <- [operation \in {"snapshot-put", "snapshot-finalize", "join", "asset-upload"} |->
               IF operation = "snapshot-finalize" THEN 1 ELSE 2],
  Window <- 2, MaxAttempts <- 3, MaxTime <- 4, MaxCalls <- 5,
  clock <- v1, spent <- v2, role <- v3, write <- v4, tab <- v5, calls <- v6

Wire == INSTANCE WirePath WITH
  Client <- {"a", "b"}, Room <- {"r", "s"}, Budget <- [scene |-> 2, presence |-> 1], Overhead <- 1, Header <- 1,
  Lifetime <- 1, MaxLifetime <- 1, Skew <- 1, MaxTime <- 1, MaxSessions <- 3, MaxMessages <- 1, MaxMishaps <- 1,
  clock <- v1, relay <- v2, backend <- v3, client <- v4, wire <- v5, spoilt <- v6, used <- v7

Personal == INSTANCE PersonalLibrary WITH
  User <- {"u", "w"}, Tab <- {1, 2}, MaxRaw <- 2, MaxCompressed <- 3, MaxBase64 <- 4,
  MaxItems <- 3, MaxSignIns <- 3, MaxMishaps <- 1,
  row <- v1, tab <- v2, wire <- v3, unasked <- v4, used <- v5

Local == INSTANCE LocalScene WITH
  Scene <- {"a", "b", "c"}, First <- "a", Second <- "b", MaxEdits <- 1, MaxMoves <- 3, MaxMishaps <- 1,
  store <- v1, tab <- v2, pending <- v3, local <- v4, cloud <- v5, home <- v6, task <- v7, slipped <- v8, used <- v9

NonceOf(p) == IF p = "a" THEN {2} ELSE {1, 3}
Elements == INSTANCE ElementSync WITH
  Peer <- {"a", "b"}, Nonce <- NonceOf, MaxVersion <- 3, MaxQueue <- 2, MaxUsed <- 2,
  copy <- v1, synced <- v2, batch <- v3, queue <- v4, locked <- v5, expired <- v6,
  owed <- v7, used <- v8

Host == INSTANCE RoomSession WITH MaxMoves <- MaxHostMoves, tab <- v1, moves <- v2

Maintenance == INSTANCE MaintenanceRuns WITH
  Caller <- {1, 2}, None <- 0, Shared <- {1, 2}, Room <- {3}, Account <- {4}, MaxSize <- 2,
  MaxItems <- 2, MaxObjects <- 1, MaxTasks <- 3, BatchSize <- 2, Deadline <- 3, MaxDuration <- 6,
  MaxCalls <- 2, MaxMishaps <- 1, MaxMoves <- 1,
  lock <- v1, item <- v2, stored <- v3, task <- v4, run <- v5, wrong <- v6, used <- v7

Process == INSTANCE RelayProcess WITH
  Conn <- {1, 2, 3}, MaxConnections <- 2, DrainTimeout <- 2, RejectGrace <- 1, KillTimeout <- 3,
  MaxCauses <- 2, proc <- v1, conn <- v2, manager <- v3

(* What the theorems about these components assume of their constants.      *)
ASSUME ConstantsSound ==
  /\ Entry!RoomsApart /\ Keys!BoundsPositive /\ NumberedFromOne
  /\ Budgets!BudgetsApart /\ Assets!AssetBounds /\ Sync!ScenesApart
  /\ Transport!TransportBounds /\ Wire!WireBounds /\ Process!PatienceIsLonger
  /\ Limits!LimitBounds

(***************************************************************************)
(* Initial states.  Sync: with the scene "A" open.  Storage: a scene in a   *)
(* room, saved by one tab; a scene without, saved by all; a shared scene.   *)
(* Assets: with some of the lookups or of the turns used up.                *)
(***************************************************************************)
SyncInit == Sync!Init /\ Sync!Live("A") /\ v2.scene # "B"

Storages == {"room storage", "scene storage", "shared storage"}
StorageInit ==
  /\ Init
  /\ CASE focus = "room storage"   -> room.open /\ shared = "gone"
       [] focus = "scene storage"  -> scene.live /\ ~room.open /\ shared = "gone"
       [] focus = "shared storage" -> ~scene.live /\ shared = "live"
       [] OTHER                    -> ~scene.live /\ shared = "gone"

AssetsInit ==
  /\ Assets!Init
  /\ \/ v4 = <<>> /\ v9.turns = MaxTurns
        /\ v1["g"] = "foreign" /\ v1["f"] \in {"absent", "readable", "damaged"}
     \/ Len(v4) = MaxFetches /\ v9.turns = 0 /\ \A f \in Asset : v1[f] = "absent"
     \/ Len(v4) = MaxFetches - 1 /\ v9.turns = MaxTurns - 1
        /\ v1["g"] = "absent" /\ v1["f"] \in {"absent", "foreign"}

(* The link opened is the first that was made.                              *)
LinksInit ==
  /\ Links!InitPage
  /\ \/ focus = "sharing" /\ Links!InitExport
     \/ /\ focus = "shared page" /\ v1 = "success" /\ v4 = {1}
        /\ v2 = [x \in {1, 2} |-> [pc |-> IF x = 1 THEN "done" ELSE "failed",
                                  answer |-> [f \in {"f", "g"} |-> "ok"]]]
        /\ v3 = [x \in {1, 2} |-> IF x = 1 THEN [state |-> "live", files |-> {"f", "g"}]
                                 ELSE [state |-> "none", files |-> {}]]

RelayParts == {"relay frames", "relay joins"}
CatalogParts == {"scene list", "public links"}
FollowParts == {"follow graph", "follow views"}
WireParts == {"frames in", "frames out"}
FormatParts == {"stored snapshots", "stored images"}
LimitParts == {"room writes", "attempts"}
ElementParts == {"deletions", "small elements", "late commits"}
KeyParts == {"sealed snapshots", "sealed images"}
RunParts == {"deadlines", "overlapping runs"}

SlotsInit ==
  \/ focus = "sync" /\ SyncInit
  \/ focus \in Storages /\ v1 = 0 /\ v2 = 0 /\ v3 = 0 /\ v4 = 0 /\ v5 = 0 /\ v6 = 0 /\ v7 = 0
     /\ v8 = 0 /\ v9 = 0 /\ v10 = 0
  \/ focus = "assets" /\ AssetsInit
  \/ focus = "entry" /\ Entry!Init
  \/ focus \in RelayParts /\ Budgets!Init
  \/ focus \in KeyParts /\ Keys!Init /\ v9 = 0 /\ v10 = 0
  \/ LinksInit
  \/ focus \in CatalogParts /\ Catalog!Init /\ v9 = 0 /\ v10 = 0
  \/ focus = "workspaces" /\ Spaces!Init /\ v8 = 0 /\ v9 = 0 /\ v10 = 0
  \/ focus = "operators" /\ Operators!Init /\ v1["a"] = "verified"
     /\ v8 = 0 /\ v9 = 0 /\ v10 = 0
  \/ /\ v9 = 0 /\ v10 = 0
     /\ \/ focus = "follow graph" /\ Follows!InitGraph
        \/ focus = "follow views" /\ Follows!InitViews /\ v1 = [p \in 1..3 |-> IF p = 1 THEN "in" ELSE "new"]
  \/ focus \in WireParts /\ Transport!Init
  \/ focus = "documents" /\ Documents!Init /\ v5 = 0 /\ v6 = 0 /\ v7 = 0 /\ v8 = 0 /\ v9 = 0 /\ v10 = 0
  \/ /\ focus \in FormatParts /\ Formats!Init /\ v10 = 0
     /\ (focus = "stored snapshots") => (v1 \cap {"asset", "asset envelope"} = {} \/ v1 = Formats!Format)
     /\ (focus = "stored images") => (v1 \cap {"snapshot", "snapshot envelope"} = {} \/ v1 = Formats!Format)
  \/ focus \in LimitParts /\ Limits!Init /\ v3["a"] = "editor" /\ v7 = 0 /\ v8 = 0 /\ v9 = 0 /\ v10 = 0
  \/ /\ focus = "personal" /\ Personal!Init
     /\ IF v2[1].user = "u" THEN v5 = [items |-> 1, signIns |-> 3, mishaps |-> 0]
        ELSE v2[1].user = "anonymous" /\ v5 = [items |-> 1, signIns |-> 1, mishaps |-> 1]
     /\ v6 = 0 /\ v7 = 0 /\ v8 = 0 /\ v9 = 0 /\ v10 = 0
  \/ focus = "wire" /\ Wire!Init /\ v2.ahead = 2 * v2.version - 3 /\ v3.role["b"] = "viewer" /\ v8 = 0 /\ v9 = 0 /\ v10 = 0
  \/ focus = "local scene" /\ Local!Init /\ v10 = 0
  \/ focus \in ElementParts /\ Elements!Init /\ v9 = 0 /\ v10 = 0
  \/ /\ focus = "room session" /\ Host!Init
     /\ v3 = 0 /\ v4 = 0 /\ v5 = 0 /\ v6 = 0 /\ v7 = 0 /\ v8 = 0 /\ v9 = 0 /\ v10 = 0
  \/ /\ focus \in RunParts /\ Maintenance!Init /\ v8 = 0 /\ v9 = 0 /\ v10 = 0
     /\ IF focus = "deadlines" THEN v2 = [i \in 1..4 |-> IF i = 4 THEN "gone" ELSE "ripe"]
        ELSE v2 = [i \in 1..4 |-> IF i \in {1, 4} THEN "ripe" ELSE "gone"] /\ v3 = {<<1, 1>>, <<4, 1>>}
  \/ /\ focus = "relay process" /\ Process!Init
     /\ v4 = 0 /\ v5 = 0 /\ v6 = 0 /\ v7 = 0 /\ v8 = 0 /\ v9 = 0 /\ v10 = 0
  \/ focus = "categories" /\ Labels!Init /\ v6 = 0 /\ v7 = 0 /\ v8 = 0 /\ v9 = 0 /\ v10 = 0

ComponentsInit == SlotsInit /\ StorageInit

(* The next step is of the component in focus, and of nothing else.         *)
InFocus == UNCHANGED <<focus, storageVars>>

ComponentsNext ==
  \/ focus = "sync" /\ Sync!Next /\ InFocus /\ v1'["B"].rev <= 2
  \/ /\ focus \in Storages /\ Next /\ UNCHANGED <<focus, slots>>
     /\ focus = "room storage" => \A s \in Saver \ {1} : save'[s] = NoSave
  \/ focus = "assets" /\ Assets!Next /\ InFocus
  \/ focus = "entry" /\ Entry!Next /\ InFocus
  \/ /\ focus \in RelayParts /\ InFocus
     /\ \/ focus = "relay frames" /\ Budgets!ConnectionNext
        \/ focus = "relay joins" /\ Budgets!JoinNext
        \/ Budgets!ClockNext
  \/ /\ focus \in KeyParts /\ Keys!Next /\ InFocus /\ UNCHANGED <<v9, v10>>
     /\ IF focus = "sealed images" THEN UNCHANGED v5 ELSE UNCHANGED v6
  \/ focus = "sharing" /\ Links!ExportNext /\ InFocus
  \/ focus = "shared page" /\ (Links!PageNext \/ Links!Expire(1)) /\ InFocus
  \/ /\ focus \in CatalogParts /\ InFocus /\ UNCHANGED <<v9, v10>>
     /\ \/ focus = "scene list" /\ Catalog!ListNext
        \/ focus = "public links" /\ Catalog!PublishNext
  \/ focus = "workspaces" /\ Spaces!Next /\ InFocus /\ UNCHANGED <<v8, v9, v10>>
  \/ /\ focus = "operators" /\ Operators!Next /\ InFocus /\ UNCHANGED <<v8, v9, v10>>
     /\ \A i, j \in Bootstrap : i < j /\ v4'[j].pc # "idle" => v4'[i].pc # "idle"
  \/ /\ focus \in FollowParts /\ InFocus /\ UNCHANGED <<v9, v10>>
     /\ \/ focus = "follow graph" /\ Follows!GraphNext /\ (v8.follows = 0 => v7'.peer = 1)
           /\ (v8'.follows = 2 => v7'.peer # 1)
           /\ \A p, q \in 1..3 : Len(v6'[p][q]) <= 1
        \/ /\ focus = "follow views" /\ Follows!ViewsNext
           /\ v8'.follows <= 1 /\ v8'.losses = 0 /\ v1'[1] = "in" /\ v2'[1].view = 0
           /\ \E p \in 2..3 : v1'[p] # "in"
  \/ /\ focus \in WireParts /\ InFocus
     /\ \/ Transport!LinkNext
        \/ focus = "frames in" /\ Transport!InboundNext
        \/ focus = "frames out" /\ Transport!OutboundNext
  \/ /\ focus = "documents" /\ Documents!Next /\ InFocus /\ UNCHANGED <<v5, v6, v7, v8, v9, v10>>
     /\ (v3["g"] # <<>>) => (v3'["g"] = v3["g"])
  \/ /\ focus \in FormatParts /\ InFocus /\ UNCHANGED <<v10>>
     /\ \/ Formats!UpgradeNext
        \/ focus = "stored snapshots" /\ Formats!SnapshotNext
        \/ focus = "stored images" /\ Formats!AssetNext /\ (v4'["g"].stored => v4'["g"].length = 7)
  \/ /\ focus \in LimitParts /\ InFocus /\ UNCHANGED <<v7, v8, v9, v10>>
     /\ \/ focus = "room writes" /\ Limits!WriteNext /\ v6' <= 4 /\ v3'["b"] = v3["b"]
        \/ focus = "attempts" /\ Limits!AttemptNext /\ v5'[2].kind # "upload"
  \/ /\ focus = "personal" /\ Personal!Next /\ InFocus /\ UNCHANGED <<v6, v7, v8, v9, v10>>
     /\ (v2'[2].user = "anonymous") => (v2'[2] = v2[2])
     /\ (v5'.signIns = 3 /\ v2'[2].user = "u") => \A t \in {1, 2} : v2'[t].install[2] = 0 /\ Len(v2'[t].tasks) <= 1
  \/ /\ focus = "wire" /\ Wire!Next /\ InFocus /\ UNCHANGED <<v8, v9, v10>>
     /\ v4'["b"].draft = Wire!NoDraft /\ v4'["a"].room # "s"
     /\ (v7'.sessions = 1) => (v4'["b"].stage = "out")
     /\ (v4'["a"].session = 3) => (v4'["a"].draft = Wire!NoDraft)
     /\ (v4'["b"].reason = "idle") => (v4'["b"].version = v4["b"].version)
     /\ (v4'["b"].stage = "in") => (v1' = v1)
     /\ (v3'.gen # v3.gen) => (v1 = 0 /\ v5 # {} /\ v4["b"].stage = "in" /\ v7.mishaps = 0)
  \/ /\ focus = "local scene" /\ v8 = {} /\ Local!Next /\ InFocus /\ UNCHANGED <<v10>>
  \/ /\ focus \in ElementParts /\ Elements!Next /\ InFocus /\ UNCHANGED <<v9, v10>>
     /\ \A p \in {"a", "b"} : v1'[p].failed => focus = "small elements" /\ v1'[p].shape = "shown" /\ v1'[p].version = 2
     /\ (v8' = 2) => (focus = "late commits")
     /\ CASE focus = "deletions" -> v5' = {} /\ v3' = v3 /\ \A p \in {"a", "b"} : v1'[p].shape # "small"
          [] focus = "small elements" -> "b" \notin v5' /\ v3' = v3 /\ \A p \in {"a", "b"} : v1'[p].shape # "deleted"
          [] focus = "late commits" -> v5' = {} /\ \A p \in {"a", "b"} : v1'[p].shape = "shown" /\ v1'[p].version <= 2
  \/ focus = "room session" /\ Host!Next /\ InFocus /\ UNCHANGED <<v3, v4, v5, v6, v7, v8, v9, v10>>
  \/ /\ focus \in RunParts /\ Maintenance!Next /\ InFocus /\ UNCHANGED <<v8, v9, v10>>
     /\ IF focus = "deadlines"
        THEN v5'[2].jobs = <<>> /\ v7'.mishaps = 0 /\ v7'.calls <= 1 /\ v2'[1] # "kept" /\ v2'[2] # "kept"
        ELSE /\ \A c \in {1, 2} : v5'[c].age = 0
             /\ Len(v5'[2].jobs) <= 6 /\ v7'.moves = 0 /\ (v7'.calls = 1 => v5'[2].jobs = <<>>)
  \/ /\ focus = "relay process" /\ Process!Next /\ InFocus /\ UNCHANGED <<v4, v5, v6, v7, v8, v9, v10>>
  \/ /\ focus = "categories" /\ Labels!Next /\ InFocus /\ UNCHANGED <<v6, v7, v8, v9, v10>>
     /\ v3'[1].scene # "t" /\ v3'[2].scene # "s" /\ v3'[2].names \subseteq {"m"}

ComponentsSpec == ComponentsInit /\ [][ComponentsNext]_vars

(***************************************************************************)
(* Properties of the components.                                            *)
(***************************************************************************)
TypesOK ==
  CASE focus = "sync" -> Sync!TypeOK
    [] focus \in Storages -> TypeOK
    [] focus = "assets" -> Assets!TypeOK
    [] focus = "entry" -> Entry!TypeOK
    [] focus \in RelayParts -> Budgets!TypeOK
    [] focus \in KeyParts -> Keys!TypeOK
    [] focus \in {"sharing", "shared page"} -> Links!TypeOK
    [] focus \in CatalogParts -> Catalog!TypeOK
    [] focus = "workspaces" -> Spaces!TypeOK
    [] focus = "operators" -> Operators!TypeOK
    [] focus \in FollowParts -> Follows!TypeOK
    [] focus \in WireParts -> Transport!TypeOK
    [] focus = "categories" -> Labels!TypeOK
    [] focus = "room session" -> Host!TypeOK
    [] focus \in ElementParts -> Elements!TypeOK
    [] focus \in FormatParts -> Formats!TypeOK
    [] focus \in LimitParts -> Limits!TypeOK
    [] focus = "personal" -> Personal!TypeOK
    [] focus = "wire" -> Wire!TypeOK
    [] focus = "documents" -> Documents!TypeOK
    [] focus = "local scene" -> Local!TypeOK
    [] focus \in RunParts -> Maintenance!TypeOK
    [] focus = "relay process" -> Process!TypeOK

\* SceneSync: a save that is not sent with a revision it adopted loses nothing, and a
\* check refreshes no canvas with work that is owed.
EditsSurvive == [][focus = "sync" => Sync!LosesByAdoption /\ Sync!RefreshesClean]_vars
\* AssetTransfer, SharedLinks: every image is settled, reported or pending; ElementSync:
\* every change has reached the other peer, or will.  MaintenanceRuns: one run at a time
\* reclaims what is due, loses none of it, and ends in time.
NothingStranded ==
  /\ focus = "assets" => Assets!NothingStranded
  /\ focus = "shared page" => Links!NothingStranded
  /\ focus \in ElementParts => Elements!ChangesReachThePeers
  /\ focus \in RunParts => Maintenance!RunsSound
\* AssetTransfer: the unreadable report is preceded by its proof.
UnreadableIsProved == [][focus = "assets" => Assets!ReportsWithProof]_vars
\* RoomEntry, RoomSession: a room is sent nothing but its own and what came to it before it
\* was claimed, and the end of a session leaves nothing of it running.
RoomGetsItsOwn ==
  /\ focus = "entry" => Entry!RoomGetsItsOwn
  /\ focus = "room session" => Host!RoomSessionSound
\* RelayBudgets, BackendBudgets: no budget admits more than its allowance, and who is
\* entitled to it gets it.
BudgetHolds ==
  /\ focus \in RelayParts => Budgets!BudgetHolds
  /\ focus \in LimitParts => Limits!BudgetsSound
\* RelayBudgets: the epochs of rooms rise.
EpochsRise == [][(focus \in RelayParts) => Budgets!NewEpochsRise]_vars
\* RoomKeys: who is in a room can read all of it, and nothing sealed for one place opens
\* in another.
KeysSound == focus \in KeyParts => Keys!KeysSound
\* SharedLinks, SceneCatalog: a link that was handed out opens its scene, and one that was
\* replaced opens no other.
LinksOpen ==
  /\ focus \in {"sharing", "shared page"} => Links!LinkOpensWhole
  /\ focus \in CatalogParts => Catalog!LinksOpen
\* SceneCatalog, Workspaces, Categories: the list of scenes is complete; there is one
\* default workspace, and what points to one holds; a save leaves the categories it named.
\* PersonalLibrary, LocalScene: a library is saved whole and for its owner, and what a
\* tab caches is what its scene was.
LibrarySound ==
  /\ focus \in CatalogParts => Catalog!ListComplete
  /\ focus = "workspaces" => Spaces!WorkspacesSound
  /\ focus = "categories" => Labels!SaveKeepsCategories
  /\ focus = "personal" => Personal!PersonalSound
  /\ focus = "local scene" => Local!LocalSound
\* OperatorGrants: what operators do is on record, and one of them stays but where a
\* request's actor lost the grant under way.
OperatorsSound == focus = "operators" => Operators!OperatorsSound
\* FollowMode: who follows whom settles, on what the followed ones see.
FollowsSettle == focus \in FollowParts => Follows!FollowsSettle
\* RelayTransport, WirePath: what arrives and leaves through a connection, and the checks
\* it passes on its way; RelayProcess: how all connections end with their process.
TransportSound ==
  /\ focus \in WireParts => Transport!TransportSound
  /\ focus = "wire" => Wire!WireSound
  /\ focus = "relay process" => Process!ProcessEndsWell
\* SceneDocuments, StoredFormats: what is accepted is read back, whole and under its own
\* name, by every release that knows its format.
FormatsSound ==
  /\ focus = "documents" => Documents!DocumentsSound
  /\ focus \in FormatParts => Formats!StoredFormatsSound
=============================================================================
