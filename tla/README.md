# A TLA+ development of drawstuff

drawstuff is an Excalidraw-based drawing application: a Next.js web application
with a PostgreSQL backend (`apps/web`), a stateless WebSocket relay
(`apps/collaboration-relay`) and two libraries (`packages/collaboration`,
`packages/excalidraw-adapter`). A user keeps scenes in workspaces, publishes and
shares them; several people edit one scene in a *room*. The room key never leaves
the browsers; the backend decides who may be in a room, the relay carries
ciphertext between those who are.

The modules model the program's own logic, translated from the source. TLC checks
them on small instances; TLAPS proves most of their safety properties for every
instance (section 9). Paths below are relative to `src/` of the repository; paths
without a directory are named uniquely enough to find.

## 1. Inventory

### Components, their state and their operations

**Room authorization** (`apps/web/src/server/collab`,
`api/routers/collaboration-room.ts`, `admin/retirement.ts`;
`packages/collaboration/src/room-auth.ts`, `room-token.ts`; relay `sessions.ts`,
`control.ts`). The backend keeps one row per room (`status`, `authGeneration`,
`authRevision`, `keyCheck`, `expiresAt`, `linkRole`) and one row per member
(`role`, `revokedAt`). Operations: create/refresh, `setKeyCheck`, `join` (issues a
signed token), `leave`, `setMemberRole`, `removeMember`, `setLinkRole`,
`rotateGeneration`, `end`, account and scene retirement, the retention job. The
relay keeps a session per joined socket and a *cutoff* per channel and per
member. Backend and relay share a secret, no clock and no transaction: a change
is committed under the row lock, then pushed to the relay once.
*Correct when* an answered revocation stays enforced, a re-granted member gets in
at once, a lost push costs no more than a token lifetime, and everybody of one
generation was admitted under one key check.

**Relay process** (`connection.ts`, `fanout.ts`, `server.ts`, and its shell
`main.ts`, `watchdog.ts`). State: sockets, connections with a membership and
three timers, rooms with members and epochs, heartbeat marks, a draining flag.
Operations: accept or refuse a socket, join, data frame, peer close, timers,
heartbeat, revoke, drain, exit. Single-threaded, but a delivery can close a
member, and a close delivers.
*Correct when* rooms hold exactly the live joined connections, members are told
the membership there is, limits hold, scene frames are never skipped silently,
each disconnect is recorded once and under its cause, vanished peers are found,
epochs of rooms rise, and a process that ends has told everybody to come back.

**Relay rate limits** (`rate-limit.ts`). A token bucket per socket and channel, a
join bucket per subject with bounded tracking. *Correct when* no window admits
more than burst plus rate, whatever the clock does, and eviction never refreshes a
throttled subject.

**Wire protocol, relay client, sealing** (`relay-protocol.ts`, `relay-client.ts`,
`realtime-crypto.ts`, `sealed-envelope.ts`, `keycheck.ts`). Queues per channel in
both directions with bounds, a chain of asynchronous opens and seals, the "sync
required" signal, the verdict that a room is unreadable, versions and close codes.
*Correct when* order per channel is kept, an accepted message is refused nowhere on
its way, every overflow is reported, nothing sealed for one place opens in another,
and the verdict is reached only, and always, on proof.

**Session of one tab** (`collaboration-session.ts`, `session/*`, `room-session.ts`,
`recovery.ts`, `join-barrier.ts`, `ordering.ts`, `offline-queue.ts`). A recovery
phase with a retry budget, a join epoch, a barrier that holds scene messages until a
baseline is there, an inbound gate by room epoch and sequence, an outbound queue
while offline, a repair timer; around it what the host starts for one entry.
*Correct when* no message is applied out of its epoch, nobody goes live on a gap,
the barrier is always released exactly once, a settled answer of an earlier epoch
changes nothing, retries end, and a session that ended has nothing running.

**Entry into a room** (`use-collaboration-room.ts`, `use-canvas-handoff.ts`,
`canvas-room-marker.ts`, `room-state-reducer.ts`). The join effect, the claim that
says which room the canvas belongs to, the state shown. *Correct when* a room is
sent nothing that is not its own.

**Reconciliation and presence** (`excalidraw-adapter/src/reconcile.ts`,
`remote-apply.ts`, `scene-publisher.ts`, `scene-repair.ts`; `presence-channel.ts`,
`follow-mode.ts`). Versions of elements, what each peer believes it has sent, edit
locks, tombstones; who follows whom and sees what. *Correct when* canvases converge,
no change is lost in silence, and follow edges settle without a cycle.

**Durable snapshots** (`snapshot-cadence.ts`, `snapshot-store.ts`,
`server/collab/snapshots.ts`). One encrypted baseline per room and generation with
a revision; conditional writes; a cadence in each tab, one tab elected; a flush on
leaving. *Correct when* no write replaces a baseline whose content its writer has
not merged.

**Assets of a room** (`asset-publish.ts`, `asset-download.ts`, `asset-store.ts`,
`asset-unreadable-verdict.ts`, `server/collab/assets.ts`). Retry queues with
deadlines. *Correct when* every image is settled or something under way will come
back to it.

**Scenes** (`use-cloud-upload.ts`, `scene-session-context.tsx`,
`save-owned-scene.ts`, `api/routers/scene.ts`, `use-scene-remote-revision-check.ts`;
documents: `persisted-scene.ts`, `persistence-guard.ts`, `encode.ts`). Rows with a
revision, a tab's open scene with the revision it knows, a dirty flag, a cached copy
in the browser (`use-before-unload.ts`, `local-storage.ts`). *Correct when* a save
loses no edit of another device, what is accepted can be read, and a drawing is kept
under its own scene's id.

**Storage** (`server/storage/reclaim.ts`, `thumbnail-replace.ts`,
`uploadthing/core.ts`, `server/actions.ts`, `maintenance/jobs.ts`). File records and
an outbox of storage keys to delete; maintenance runs under a lock, with budgets and
deadlines. *Correct when* no saved scene references a deleted object, every orphaned
key is in the outbox until it is deleted, and a run ends in time.

**Shared and published scenes** (`use-scene-export.ts`,
`use-fetch-and-inject-shared-scene-files.ts`, `publish` of `scene.ts`). *Correct when*
a link that was handed out opens its scene.

**Library of scenes** (`workspace.ts`, `category.ts`, `scene-search-list.tsx`) and
**personal library** (`personal-library-*.ts`). *Correct when* there is one default
workspace and no mapping points at nothing, a save leaves the categories it named, a
list read to its end is complete, and a library belongs to one identity.

**Backend rate limits** (`server/rate-limit/*`), **operators** (`admin/*`, grants,
audit, bootstrap). *Correct when* who waits as told gets in, a member's reserve is its
own; when an operation has its audit record and an operator remains.

### How they interact

    browser tab                         backend                      relay
    -----------                         -------                      -----
    cached scene <-> editor --save,load--> scene rows, file records
                      |  \--images-------> object storage <--drain-- outbox
                      |                     ^ maintenance runs --------^
    room entry: claim, key check -join---> room row --(commit, POST /control)-->
    sessions,
                      |  <--join token----/                          cutoffs
    session: recovery, barrier, gate --WebSocket: join(token), sealed frames--> rooms
                      |                                              (fanout to members)
    cadence, assets --conditional put----> snapshot row, asset records

### Hard behaviours

Control requests lost, late and overtaken; two clocks; a relay restart that
forgets; row locks waited for with a clock read before; re-entrant callbacks in
the relay; a drain under a manager's patience; in the client, answers that settle
after the session they belong to, races for a baseline, a leave flush behind a
write in flight, frames opened concurrently and reported in order, presence that is
dropped and paced; in the editor, saves, checks, renames and loads that each read
the open scene at their own moment; in the backend, transactions at READ COMMITTED
that wait for each other, and a crash between deleting an object and recording it.
`PROJECT.json` lists each at its line with the properties that cover it.

## 2. Modules, and how they were planned

The order is that of importance: who is in a room, what the relay does, what is
stored, what one session does, and then everything a scene goes through.

| # | Module | What it models | Run |
|---|--------|----------------|-----|
| 1 | `RoomAuthorization`, `RoomAuthorization_proofs` | room row, tokens, pushes, cutoffs | `room_*`; safety proved |
| 2 | `RelayFanout`, `RelayFanout_proofs` | connections, rooms, cascades, heartbeat, drain | `relay_*`; safety proved |
| 3 | `SnapshotStore` (abstract), `SnapshotCadence` (refines it), `SnapshotCadence_proofs` | conditional write, cadence, leave flush | `snapshot_*`; safety and refinement proved |
| 4 | `Recovery`, `ClientSession` (uses it), `ClientSession_proofs` | recovery machine; one tab's session | `session_exchange`; safety proved |
| 5 | `SceneExchange` | two tabs: barrier, gate, repair, convergence | `session_exchange` |
| 6 | `SceneSync` | one tab and the scenes it saves and loads | `components`, `lost_update`; safety proved |
| 7 | `SceneStorage`, `SceneStorage_proofs`; `MaintenanceRuns` | objects, rows, outbox; the runs that reclaim | `components`; `SceneStorage` proved |
| 8 | `AssetTransfer` | images of a room in one tab | `components`; the verdict proved |
| 9 | `RoomEntry`, `RoomEntry_proofs`; `RoomSession` | entering a room; what the host starts and stops | `components`; proved |
| 10 | `RelayBudgets`, `RelayProcess` | buckets, join budgets, epochs; a process and its manager | `components`; proved |
| 11 | `RoomKeys`, `RoomKeys_proofs`; `StoredFormats` | what a key opens; sizes and versions of sealed pieces | `components`; `RoomKeys` proved |
| 12 | `RelayTransport`, `WirePath` | the queues of a client; every check on a message's path | `components`; safety proved |
| 13 | `ElementSync`, `FollowMode` | versions of one element; presence | `components` |
| 14 | `Containers`, `SceneDocuments` (uses it) | what a canvas is written as, and read back | `components` |
| 15 | `SharedLinks`, `SceneCatalog` | links to copies; lists and published links | `components`; links proved |
| 16 | `Workspaces`, `Categories`, `PersonalLibrary`, `LocalScene` | record keeping under concurrency; the browser's cache | `components` |
| 17 | `BackendBudgets`, `OperatorGrants` | shared rate limits; grants and audit | `components`; proved |

`MCRoomAuthorization`, `MCRelayFanout`, `MCSnapshotCadence`, `MCSceneSync` give
symmetry sets and initial states for one module each. `MCSessions` puts
`ClientSession` and `SceneExchange` side by side, `MCComponents` the modules of rows
6 to 17 (section 8).

Eight modules hold proofs (section 9). `RoomEntry_proofs` takes `RoomSession` and
`SceneSync` with it, `RoomKeys_proofs` the images, links, the transport and the budgets of
the backend, and `Components_proofs` proves about the composition what the others prove
about one component each. Of the safety properties left to TLC, `NothingStranded` is the
one to prove next. No module declares a RECURSIVE operator.

## 3. `RoomAuthorization`

*State.* `status`, `gen`, `rev`, `keyCheck`, `expiresAt`, `linkRole` are the
columns of the row and `member` the member rows (`"none"`: no row, `"revoked"`:
`revokedAt` set, `"gone"`: the account was deleted). `tokens` holds what the
backend has signed (a client may present any of it, at any time), `pushed` the
control requests ever sent and `inFlight` those not yet answered. `session`,
`cutoffs` and `epoch` are the relay's memory, `now` its clock. `status = "deleted"`
is a room retired with its owner's account, which pushes; `"erased"` one deleted
by cascade, which does not. History: `enforced`, and the fields `verifier`,
`committedAt`, `joinedAt`, which no action reads.

*Actions.* One per tRPC mutation, retirement service and job of the backend, and
one per relay event: `RelayJoin` (`handleTextFrame`), `RelayControl` (the control
endpoint with `revokeMember` and `endChannel`), the expiry timer, other closes, the
sweep of a metrics scrape, a restart, a tick. A backend mutation is one step,
since it runs under `lockRoom`, with a request clock `at` read up to `MaxLag`
seconds before and up to `MaxLead` ahead of the relay's. The push joins `inFlight`
in the same step and is answered later or never; never is also how a
crash between commit and push looks.

*Abstractions.* One room. A deleted room's id is never used again, so a new room
of the same scene is another instance. Times are whole seconds, as in the tokens.
Capacity and join-rate refusals of the relay only refuse more than `RelayJoin`
does. Signatures are taken to be sound.

*Properties.* `EnforcedRevocationHolds`, `FreshTokenAdmitted`, `StaleJoinBounded`,
`DivergenceIsOwed`, `OneVerifierPerGeneration`, `SilentEndIsLate` and
`EverySessionEnds`, each stated in words above its definition.

*Runs.*

- `room_authorization` (`EnforcedRevocationHolds`, `FreshTokenAdmitted`,
  `StaleJoinBounded`, `DivergenceIsOwed`, `OneVerifierPerGeneration`): two users,
  one socket, two tokens, two pushes, revisions to 3, generations to 3, a restart,
  times to 3, two keys under symmetry. Two pushes on one scope are what reordering
  takes; a token before and one after a change is what staleness takes; a socket's
  session is judged on its own, so one socket is enough. Token lifetime, skew and
  time bound are such that tokens lapse and cutoffs are retired within the run.
- `room_lifetime` (`SilentEndIsLate`, `EverySessionEnds`): a backend clock one
  second ahead, room lifetimes of one and two seconds, time to 5: long enough for a
  cutoff to be retired while a token signed by the fast clock is just lapsing, and
  for the grace period of the retention job. Checked under `FairSpec`: the clock
  ticks and the relay's expiry timers fire. Both are `setTimeout` and the passage of
  time; nothing is assumed of users, of the backend or of delivery.
  `EverySessionEnds` therefore holds with every push lost.

*Divergences between text and code* (expected violations):

- `room_erased`: README.md says membership and lifecycle changes are pushed to the
  relay. `retireScene`, the deletion of a workspace and the account purge job delete
  the room by cascade and push nothing; the deletion of an account does the same to
  its member rows in other people's rooms. Live sessions continue until the room
  expiry in their tokens. `DivergenceIsOwed` shows that these are the only such
  changes.
- `room_window`: connection.ts says a socket must not outlive the room's lifetime.
  `create` may shorten the lifetime of an active room, and sockets keep the one in
  their token.
- `room_restart`: server.ts says a restart only drops connections and starts fresh
  room epochs. It also forgets the cutoffs; `StaleJoinBounded` bounds what that
  costs.

The doc comment of `setKeyCheck` (collaboration-room.ts:278-279) calls it an upsert;
the code refuses a second key check of a generation, as the threat model (T14)
asks. The model follows the code, and `OneVerifierPerGeneration` depends on it.

## 4. The relay

### `RelayFanout`

*State.* `sock` is the socket's ready state, `conn` the relay's connection,
`membership` and `members` the two sides of a room, `view` the last membership list
sent to a socket, `records` the recorded disconnects, `ping` the heartbeat state
(with `terminationReason`), `gone` that the peer vanished silently, `draining`.
`stack` holds the loops in progress, innermost first: a delivery that closes a
member pushes the leave's broadcast on top of the loop it interrupts, which is
marked stale when its room's membership changes (`membershipVersion`). Events are
accepted when the stack is empty: the process has one thread.

*Abstractions.* What an outbound buffer holds depends on the network, so each
delivery to a joined member may find it over budget. A joiner not yet acknowledged
has been sent nothing but a few membership lists, and is not taken to be over
budget. Protocol violations, role and rate refusals, the join deadline, the idle
and the expiry timers all end a connection the same way and are one action. Which
sessions a revocation matches is `RoomAuthorization`'s matter: `Revoke` takes any
set. `close()`, after which the process ends, is in `RelayProcess`.

*Properties.* `RoomsSound` (types, `RoomsMatchConnections`, `ClosedOnce`,
`WithinLimits`), `ViewsConverge`, `SceneNotSkipped`, `DrainAttributed`,
`CascadesEnd`, `GoneIsReleased`.

*Runs.*

- `relay_fanout`: four sockets, two channels, at most one room open and three
  members: a sender, two recipients that may close each other, and a socket that
  meets the limits. Sockets are symmetric.
- `relay_liveness`: three sockets, one of which may vanish, two connections at
  most, so that `AtCapacity` is met. Under `FairSpec`: a handler runs to its end;
  the heartbeat interval keeps ticking and a closing socket is given up (`ws`
  destroys it after its close timeout, `refuseConnection` and the heartbeat
  terminate it). The last two are strong: between two turns of the event loop other
  handlers run, but the loop comes round to due timers however busy sockets are.

### `RelayBudgets`

The token buckets of one connection (`tryConsume`, charged in the order of
`admitFrame`), the join buckets of subjects with their bounded table
(`SubjectRateLimiter`), and the epochs of rooms (`nextGeneration`). The clock may be
set back and the process restarted. `account` is history: what each budget admitted
since it was first full; `high` is the latest time the clock ever showed.
`BudgetHolds`: no budget admits more than its burst and one token per tick of the
time its clock has shown it, through eviction and re-creation of its entry.
`EpochsRise`: a new room's epoch is above every earlier one. *Exceptions, named in
the properties*: the subject limiter is given `Date.now` by default
(rate-limit.ts:250) although rate-limit.ts:23-33 speaks of a monotonic clock: a
subject seen during a setback has its entry dated back, may be evicted early and
gets a full bucket; and the epochs of a restarted relay rise only once its clock has
passed the last one issued (fanout.ts:122).
*Bounds*: one connection (its budgets do not interact with another's), two subjects
for one place in the table, burst 2, time to 4, one setback, one restart.

### `RelayProcess`

One process and the manager that stops it. `proc` is its phase with the timers of a
shutdown, `conn` a socket with the reason recorded for its end, `manager` the causes
given so far and its patience. Every way out (`SIGTERM`, the watchdog's breach, an
uncaught error) is one `shutdown`, which drains, closes and exits; a cause that comes
during it is ignored. A socket refused at capacity or while draining is given a grace
to close itself. `ProcessEndsWell`: the manager never has to kill the process, nobody
who was served learns of the end from a cut connection only, the reason on record is
the one the peer was told, and the first cause decides the exit code. *Left out*:
`shutdown()` (main.ts) awaits `drain()` and `close()` without a catch, so were one to
reject, the process would stay until it is killed; what could make them reject is not
modelled. *Bounds*: three sockets, two at a time, timeouts of two, one and three
ticks in the order of the code's, two causes.

## 5. `SnapshotStore` and `SnapshotCadence`

`SnapshotStore` is what the room is promised: `baseline`, a set of edits that only
grows (`Publish`) unless it is thrown away (`Discard`: the owner's reset, a
rotation). `exposed` is a weakness the code has and the promise names: revisions
start at 1 again after a reset, so until the new line has outgrown the deleted one a
writer that still holds a revision of it may replace what it has not read
(`Overwrite`).

*State.* `rows` holds a row per generation, `generation` the room's current one.
Per session: `canvas`, the cadence's `snapshotBaselineKnown`, `snapshotRevision`,
`lastSnapshotDigest`, `lastSnapshotWriteConflicted` under shorter names, and what is
under way: `cadence` (the write in flight with its reload), `flush` (the leave
flush), `load` (a baseline asked for). `requests` are the put requests the backend
may still process, given up by their sender or not. `retired` is history: the
highest revision the owner has reset in this generation.

*Actions.* `Put`, `Reset` and `RotateGeneration` are the mutations, each one
transaction under the room's lock. On the client each `await` splits an operation
in two: `TickWrite`/`SettleCadence`/`SettleReload` are `writeSnapshot()`,
`Leave`/`SendAfterWait`/`SettleFlush`/`SettleWinner`/`SettleRetry` are
`writeSnapshot({ force: true })` as `destroy()` calls it,
`TickLoad`/`AnswerLoad`/`SettleLoad` are `loadDurableBaseline`, with `Adopt` its part
after the answer.

*Abstractions.* A scene is the set of edits it has incorporated, and reconciling is
union: the newer version of an element stands for the older one. (Tombstones that
`getSyncableElements` drops by age count as incorporated.) Any session may take
itself for the elected writer, as it may in the code while its peer list is old; the
role, the join barrier, the pause after a rate refusal and the oversize refusal only
suppress a write, which the model may do at any time by not taking the step. The wait
for the digest is merged with the capture of the scene: a cadence write that finds
the session ended or reconnected after it sends nothing. A load is taken not to
outlast the interval of the ticks; that a write does is counted as a mishap. Rows
that were tampered with are left out.

*Properties.* `NothingLost` is the refinement of `SnapshotStore`. `FlushPersists`: a
flush that ends has stored what it captured, whoever won meanwhile. `RowsSound` is the
types with `SkippedIsStored`, the digest a tick is skipped for is of a stored scene,
and `RowsOpen`, no row is filed where nobody can open it. `OneKeyPerLine`: a link
with another key never replaces a baseline.

*Runs.*

- `snapshot_cadence`: two sessions, two edits, two keys, revisions to 3, two
  generations, any rotation and one mishap (a reset, a reconnect, a lost or refused
  request, or a reload slower than a tick). Two sessions suffice for a conflict, a
  merge, a second conflict after a late request, and an edit only one of them has;
  revision 3 for a flush that waits for a write, loses and retries. Sessions, edits
  and keys are symmetric. Deadlock is not checked: everybody leaves in the end.
  Two mishaps, checked by hand with revisions to 2, show no violation either
  (3.8 million states, rotations counted as mishaps).
- `snapshot_reset` (expected violation): snapshots.ts:26-27 says that "a writer holding
  a stale scene cannot overwrite a newer snapshot". After a reset it can: the session
  that wrote revision 1 of the deleted line, idle since, matches revision 1 of the
  new line and replaces it, another session's edits included.

The same reset falsifies the belief behind the digest (snapshot-cadence.ts:190-191):
an idle elected writer, whose scene has not changed since its last write, does not
seed the new line, although the comment of `reset` expects the next elected writer
to. `SkippedIsStored` therefore excepts rooms that have been reset.

## 6. A session and its room

### `Recovery` and `ClientSession`

`Recovery` translates the pure machine of `recovery.ts`: phase, attempts spent,
whether the connection has been stably live, and why it stopped. A method called in a
phase it is not legal in throws; `illegal` remembers it. `ClientSession` drives it with
one tab's session (`collaboration-session.ts`, `session/connection-lifecycle.ts`,
`session/join-baseline.ts`, `join-barrier.ts`).

*State.* `recovery`; `tab`, the socket, the token of the next attempt being refreshed,
the reconnect timer, the barrier with its deadline, stored snapshots being loaded, the
known revision; `world`, what the backend would answer and whether the key's nonces are
used up; `writes`, which flips with every write of remote elements to the canvas.
`attemptEpoch` and `joinEpoch` are only compared with the value noted when some work
began: work is "current" until the counter moves and "stale" for ever after.

*Actions.* One per event of the tab's thread, with every handler it calls: a timer, a
token refresh or a load that settles, a socket that joins or is lost (with each class of
close), a peer's snapshot, the baseline deadline, an overflow of the barrier, a refused
send, the caller's `disconnect` and `destroy`, and changes in the backend.

*Properties.* `WorkMatchesPhase`: what a session has in hand is the work of its phase,
no method is called where it throws, the budget is never exceeded, and a stopped
session has nothing in hand. `LateLoadsHarmless`: whatever settles late touches neither
the revision a session writes against nor the canvas. `RetriesEnd`: a session that
loses its connection again and again gives up, unless it was stably live in between.
`SyncingEnds`: the barrier does not hold the canvas for ever.

*Fairness.* Timers fire; a token request settles (one that throws is a retry); an
opening socket joins or fails; the deadline fires. Nothing is assumed of the store, the
peers, the network or the caller. All are weak: each stays enabled until it happens or
the session stops.

*Found while modelling*, and visible in the exceptions: a "late" load begun by a
viewer's repair is not abandoned when the session terminates; a join barrier that
overflows on a *re*join with a known baseline sends only a delta
(join-baseline.ts:225-226) although join-barrier.ts:20-24 promises a full sync.

### `SceneExchange`

Two tabs of a room: what each publishes, holds behind its barrier, notices as lost and
repairs (`scene-publisher.ts`, `scene-repair.ts`, `ordering.ts`, `offline-queue.ts`,
`remote-apply.ts`, `join-baseline.ts`). An element stands for one edit; reconciling is
the union (the versions behind it are `ElementSync`). `queue` holds the frames on their
way to a tab in order; a frame carries whether one before it is missing.
`Converges`: when edits and faults are over the canvases become equal, whatever was
dropped, held, refused or cut off. `RepliesEnd`: snapshots do not answer each other for
ever. *Fairness*: recovery reconnects, a barrier opens, frames and membership lists are
handled, a scheduled flush runs, an armed repair fires; loss and refusals are not fair.
*Bounds*: two edits by one of the tabs, up to two faults, one message held, one recorded
offline, one repair: each limit is met and passed; two tabs and one author suffice
because a third would receive what the second does.
*Not true, and not claimed*: that the repairs of an idle room fall silent
(scene-repair.ts:28-32). A repair's full scene counts as activity at the receiver
(`noteRoomActivity`, scene-repair.ts:58, remote-apply.ts:102), whose own repair then
restarts: two tabs may keep each other awake.

The run `session_exchange` (`MCSessions`) checks both: in each behaviour one of the two
is at work and the other rests in a state that enables no fair action. The exchange
starts with two tabs at work and two edits and one fault to come, or one edit and two
faults, or with two tabs that enter an empty room.

### `RoomSession`

What the host (`room-session.ts`) and the session start for one entry, as the set
`running` of what could still act: subscriptions, timers, requests, the socket; and what
each end of a session stops. `RoomSessionSound`: once a session has ended, by leaving or
terminally, at any point of its start, nothing of it can act but the flush on leaving;
nothing is written on a canvas that is no longer the room's; cursors are shown only
while joined; leaving flushes; a member is announced as idle or away truthfully.
*Exception, named `slipped`*: the presence sent by `handleConnectionStateChange` while
it joins (collaboration-session.ts:602) may be refused as out of nonces, which
terminates the session inside the handler; the handler then goes on, opens the barrier,
loads the baseline, writes it on the canvas of a terminated session and starts the
cadence. *Also*: a pointer that moves after a terminal failure re-arms the idle timer
(room-session.ts:287-297; harmless, but against the comment above it), and a session
started in a hidden tab announces "active" and "idle" until the visibility changes.
*Bound*: three losses, edits, scrolls and changes of visibility.

### `RoomEntry`

One tab enters, leaves and re-enters two rooms while its user draws, loads scenes,
imports files, saves a copy and reloads. What the canvas holds is a set of tags: a room
stands for its content and that of its scene, `Private` for anything else. Only the
current join effect is kept, since one that was torn down does nothing.
`RoomGetsItsOwn`: a room is sent nothing but its own and what the window of its own
entry let in. The canvas is handed to the room before the join request and claimed after
it (use-collaboration-room.ts:461-468); what is loaded or imported in between goes to the
room, although use-collaboration-room.ts:96-98 says that the leak is closed, and
room-state-reducer.ts:96-102 that the claim comes before the join token. `slipped`
records it per room and by what it is, so that nothing else, and no other room, is
excused. Where what came in was another room's scene, that scene is open on a canvas
claimed by this one, and the work it is mixed with goes to the other room when that is
entered. The import
of the welcome screen, unlike that of the menu, is not withheld in a room
(app-welcome-screen.tsx:31). *Bound*: four entries, loads, reloads, role changes and
losses; `MaxTries` is the code's 3.

### `RelayTransport` and `WirePath`

`RelayTransport` is the client's transport (`relay-client.ts` with the codec): frames
wait in `inbound` to be opened and in `outbound` while they are sealed, both
asynchronously, and are handed on in order within a budget; what a former connection
left behind is passed over; `verdict` collects the evidence that the room is unreadable.
`TransportSound`: no frame is delivered twice, frames leave in order and within the
bound, a scene frame over the budget is reported, once until a scene message is
delivered or the queue has drained (both re-arm the report), and the room is called unreadable when, and only when, the frames that were there to tell have failed.
*Exception, named `skipped`*: a valid frame of a dropped connection that belongs to the
verdict's cohort is passed over unopened, so three bad frames then blame a readable
room. The replay cache is unbounded here. *Bounds*: two frames by others per
channel, five arrivals admitted (so duplicates occur, and a drained queue fills again), two connections, and limits of two
frames, so that each is met; checked inbound and outbound apart, as the two
directions share only the connection.

`WirePath` follows one message through every check between two canvases, and the join
before it: token lifetime and skew, secret, versions of the protocol during a rollout of
relay and page, roles, byte budgets of sender, relay and receiver, channel labels, room
and generation. `WireSound`: what the sender accepts is refused nowhere and reaches only
its own place; an unexpired token opens its room though clocks differ; who is in a room
speaks the relay's version; only a page older than the relay is told to reload. A page
*newer* than the relay is closed as a protocol violation, which the client takes as
final though a rollout would end it (relay-protocol.ts:337-341): the property does not
promise otherwise. *Bounds*: two clients, sizes at their limits and one above, one
message, one mishap, three sessions; the restrictions in `MCComponents` keep one of the
two clients a receiver.

### `ElementSync` and `FollowMode`

`ElementSync` keeps one element at two peers: its copy (version, nonce, shape), what
each tracker believes it has sent (`syncedVersions`), batches extracted but not
committed, edit locks, expired tombstones, elements too small to send, and lost
frames. `ChangesReachThePeers`: a copy that would beat the other peer's is still to
be sent, on its way, or owed by a full scene the peer is known to miss. *What the
property leaves out, because the code does*: a tombstone older than a day at one
peer and a live older copy at another stay apart; an element shrunk below visibility
stays at its last visible version at the peers; a remote version discarded under an
edit lock is healed only by a later full scene. With a lock and a version tie the
two sides' replies go back and forth until the lock ends: remote-apply.ts:71-75, "so
the exchange terminates", holds only without the lock. Three instances: deletions,
small elements with a lock, commits that come late (the publisher commits in the turn of
its send; the tracker promises more, for any later commit: reconcile.ts:155-165).

`FollowMode` has three peers with the presence frames between them (whole state, may be
lost, paced by leading and trailing timers), the follow edges each has heard of, and the
engine's view. `FollowsSettle`: once all have heard of each other nobody follows itself
through others, the last informed actor keeps its direction, a follower ends where its
target ended, and nobody is left following someone who went. A release is confirmed
once: when both frames are lost, others keep the stale edge; and `sendPresence`
cancels the trailing send even when its own send fails. The properties are about
states in which what is known has been heard. Two instances: the graph (three
follows, one loss) and the views (one follow, members that join and leave).

### `AssetTransfer`

The encrypted images of a room in one tab: lookups and downloads with claims on each
other's work, uploads with one retry timer, the unreadable verdict, the bridge to the
canvas. A deadline is a flag that time clears. `NothingStranded`: each image asked
for or shown is settled, or something under way will come back to it.
`UnreadableIsProved`: the user is told that the link reads none of the images only
if it never opened one, and when every lookup running at the first undecryptable
record has ended. *Bounds*: two images, two attempts, two lookups, three turns
(edits, other people's uploads, reconnections); the run starts from three situations
in which some of these are used up, so that each half is exhausted by itself. In the
publisher a later deadline replaces the armed timer (asset-publish.ts:96-101): an
image due earlier waits for it, but is not stranded.

### `RoomKeys` and `StoredFormats`

`RoomKeys` is the life of a key: minted in a dialog, carried in a link, proved by
the key check on the row, stretched into keys per generation and purpose. AES-GCM
opens what was sealed under the same key and data, and nothing else. `KeysAgree`:
every session holds the key its generation was proved with and opens all the store
holds for it, whatever release wrote it, and every link handed out passes the check
of its generation. `OpensItsOwn`: a session opens only what was sealed for that very
place. The retry the dialog speaks of ("repairs it with a fresh key") fails when
only the answer was lost: `setKeyCheck` refuses a second check of a generation.

`StoredFormats` is what is stored of a room, sealed snapshots and images, between an
encoder of one release and a decoder of another, with every size limit in units small
enough to be met, missed by one and passed. `StoredFormatsSound`: what was stored and
not harmed is read by every release that knows its formats; what is handed over is what
was written at that place; the key is blamed only for an envelope of another version or
harm; what the encoder takes no later stage refuses. A bump of the envelope version
leaves recorded images unreadable, and the answer "duplicate" keeps them so: this is
what "knows its formats" excludes.

## 7. Scenes, their storage and the account

### `SceneSync`

One editor tab and two owned scenes (`use-cloud-upload.ts`, `scene-session-context.tsx`,
`use-scene-remote-revision-check.ts`, `use-apply-remote-scene.ts`,
`save-owned-scene.ts`); other devices of the owner are the environment, each save of
theirs one step. A scene is the set of edits it holds.

*State.* `row`; `session`, the scene, revision and dirty flag of `SceneSessionContext`;
`canvas`; and what is in flight: `save` with its snapshot and its target, `pull` (the
check and a load), `rename`. History: `descends`, the canvas descends from the version
the session names, and `owed`, edits no row has held that were drawn with nothing in
flight. *Actions*: each `await` of a save, check, load and rename splits it: a save
captures the canvas (`SaveStarts`), reads the target it is for (`SaveAims`), commits at
the server, lands or is refused.

*Properties* (`EditsSurvive`). `LosesByAdoption`: a save removes what another device
saved only when its revision is not the one its snapshot descends from, taken over
from a rename or the server, or read after the session moved on. `RefreshesClean`: a
check replaces the canvas without asking only when no work is owed.

*Divergence* (expected violation, run `lost_update`): use-cloud-upload.ts:182 calls the
optimistic lock "the real safety net". A rename raises the tab's revision past a save of
another device the tab has not loaded (scene-session-context.tsx:217), and the next save
removes it.

*Seen on the way, and excused by name in the properties*: edits drawn during a save's
flight are marked clean when it lands; a refresh overwrites edits drawn during its
fetch; the snapshot and the target of a save are read at different moments, and a
save or a rename may land after a switch to another scene and set its revision; a
session that knows no revision adopts the server's newest; the dialog for editing a
scene adopts the revision for the open canvas (scene-card.tsx:219-229).

### `LocalScene`

The drawing of a tab and its copy in the browser: one cached scene with its id, written
300 ms after a change and at the unload, while opening a scene or a link, a new scene, a
room and signing out write or clear the id at their own moments. Drawings are told apart
by where they come from. `LocalSound`: a drawing is saved into no scene but its own,
what a closed tab leaves comes back under the right id, a room's drawing is not
cached for a guest who saved no copy, and who signs out leaves nothing behind.
*Exceptions*: `slipped` names the ways in which the code does part an id from its
drawing, and behaviours end there: "saved the empty canvas" (the start-up dialog's
"upload", use-overwrite-confirm.ts:127-143, sends the blank canvas to the current
scene), "kept the id" (a share link opened with a stored scene id and nothing
cached), "not cached" (storage full, or a kill within the debounce) and "closed
before it showed" (the unload stores the engine's still empty canvas while the
initial data load). Two tabs that share the storage are not modelled. *Bounds*:
three scenes of which two exist, one edit, three operations, one mishap.

### `Containers` and `SceneDocuments`

`Containers` is the binary container of `encode.ts` over cells; `SceneDocuments` what a
canvas is written as, what the server accepts (`persistence-guard.ts`) and what the
owner's editor, a share link, the published page and the server's search for needed
images make of it. `DocumentsSound`: what was accepted, and what an earlier release
stored, each reader reads whole and under the row's name; a link opens its own copy with
its own key and nothing with another; no reader shows an image under another's record,
however storage cuts or swaps objects; what the server takes for needed are the images
readers show, or it says that it cannot tell. `splitBuffers` hands over a truncated last
chunk as it is, and the model does so too. Outside the property: one image above the
upload limit fails a whole save or export (file-processor.ts:90-97).

### `SceneStorage`

Objects in external storage and the rows that point at them, for one scene, its room and
one shared scene. A key is the identity of one uploaded object. *Actions*: each step
of an upload and its callback, of a save with its cleanup (`lock` is the row lock it
holds between steps), of a thumbnail's replacement, of a job, of the queue
(`deferred_file_cleanup`); any handler may die between two steps, and storage calls
may fail. Ages are left out: what a job may reclaim only when it is old, it may
reclaim at any time.

*Properties* (`StorageSound`). `PointersHaveBytes`: a key a row points to has its
object, except of a shared scene whose rollback stopped half-way.
`ReferencesRecorded`: the stored document references no image the scene has no
record of. `ReleasedAccounted`: what was released is gone or still in the queue.
*Assumed*: an upload's callback is reported once (repeated for the same key, it
would delete the referenced object), and a transaction that throws did not commit.
*Not claimed*: the doc's "No deletion path calls storage inline"
(data-lifecycle.md): `rollbackSharedScene` and `cleanupSceneAssetUploadsAction` do.
Failed queue rows are purged after 30 days; the object stays.

*Bounds*: two keys, one file, two savers, two generations, in three instances: a
scene in a room saved by one tab, a scene without a room saved by two, and a shared
scene.

### `MaintenanceRuns`

The runs of the maintenance route: the advisory lock, the jobs in order with their
budgets and deadlines, and the drain of the queue. `RunsSound` (part of
`NothingStranded`): two runs work at once only after the lock's connection was lost; an
object whose row was reclaimed has a row in the queue until it is deleted or given
up; a job exceeds its budget only with the first item; a run that has the time
reports, reclaims the scene that has waited longest, and drains what it queued.
*Excused by name*: a run that met a backlog, went past a budget with one item, or
failed to drain. jobs.ts:833-842 says that the task cap "can never leave a same-run
enqueue undrained", which holds only without these; route.ts:33 gives the cap as
1000, jobs.ts:844 as 1800. Only two of the jobs look at the deadline; the others may
run into the platform's. *Bounds*: "deadlines", one run over two shared scenes and a
room; "overlapping runs", two over a shared scene and an account; one failure, two
attempts per task.

### `SharedLinks` and `SceneCatalog`

`SharedLinks`: the exports of one tab, each with uploads that may fail, a rollback
and an expiry, and the page that opens a link and fetches its images with retries.
`LinkOpensWhole`: a link that was handed out opens the whole scene until it expires.
`NothingStranded`: a page at rest shows every image or has reported it. *Exception,
`slipped`*: a decoding that ends in an aborted run deletes the entry the current run
made. Further, without harm to the properties: an injected image is fetched again
with each retry turn; a click during an export allows a second one.

`SceneCatalog`: the paged list of scenes under its cursor while others change them,
and the public links. `ListComplete`: a list read to its end has every scene not
changed meanwhile, once. `LinksOpen`: a public link opens its scene and no other
until it is withdrawn. Two publishes that both read the scene as unpublished write
different slugs (scene.ts:491-545) and the first link dies (`replaced`), though
README.md:38-41 speaks of a stable page; the property says what is left then: the
replaced link opens nothing else, ever, and the last one written is handed out and
opens. *Bounds*: three scenes, two tabs,
page size 1, time to 2 (so that scenes share a time), two revisions, three slugs,
two attempts.

### `Workspaces`, `Categories` and `PersonalLibrary`

`Workspaces`: requests are transactions at READ COMMITTED in several statements;
whom a row lock makes wait is derived from how far requests have come.
`WorkspacesSound`: overlapping requests leave one default workspace and mappings
that point at workspaces, and the objects of a scene are queued exactly when its row
went with a workspace. The client's side of a deletion is not covered:
`deletesCurrentCanvas` is captured before the await
(workspace-settings-content.tsx:66,134), so a canvas switched meanwhile is reset.
Two requests, three workspaces, one scene.

`Categories`: a save replaces the assignments of its scene statement by statement, among
single-statement requests of others. `SaveKeepsCategories`: a save that succeeds
leaves the categories it named except where others changed one meanwhile, and only
such a change makes it fail. (A plain insert may hit a foreign key or a duplicate
and roll the whole save back; a deletion and a save may deadlock, which the database
ends.) Two names, three categories, two saves, one change.

`PersonalLibrary`: a row per user, the adapter and the identity of each tab, the
catalog's installation; the engine's merge is external. `PersonalSound`: what is in
a library leaves it only when somebody deletes it, no item of one identity comes
into another's, and what the server took every client loads. Changes queued behind a
load, and an item added between a reset and the mount, are not modelled. Two users,
two tabs, three items.

### `BackendBudgets` and `OperatorGrants`

`BackendBudgets`: a decision in Redis that may not come, the room's budget with a
leaving member's reserve, callers that wait as they are told. `BudgetsSound`: two
full windows do not pass within half a window; a leave write is refused only to a
member who has drawn on the reserve; who waits as told and shares its budget with no
other tab gets in. The sliding window's arithmetic is the library's, external; at
exactly its reset it may still refuse, which costs a lone caller at most one more
wait.

`OperatorGrants`: a privileged request is a check, an audit event, the action and the
event's completion, with others' requests in between; the first operator comes from
a job under an advisory lock. `OperatorsSound`: every privileged change is in the
audit, which claims none that was not made; nobody is an operator without a grant on
record; the bootstrap opens once, and operators acting one after another leave one of
them. Two operators may revoke each other at once, as each is checked before it acts:
`orphaned` counts the times the last operator was removed by a request whose actor had
lost the grant since, and the bootstrap opens once more for each of them and for nothing
else. *Bounds*: two operators, four requests, so that all of this happens. An audit whose completion fails is recorded
as failed though its action was done: the property reads the audit in the other
direction.

## 8. The run `components`

The modules of section 7 and most of section 6 share no state, so they are checked
in one run: `MCComponents` has a variable `focus` and ten slots `v1` to `v10`; a
behaviour is about the component in focus, which keeps its state in the slots. Sync,
assets, keys and so on are INSTANCEs with their bounds; `SceneStorage` is extended, has
its own variables and is at rest unless in focus. A `focus` that names an instance
twice ("room writes", "attempts") takes apart what does not interact. Their
properties are grouped by theme:

| Property of the run | Of |
|---|---|
| `EditsSurvive` | `SceneSync` |
| `StorageSound` | `SceneStorage` |
| `NothingStranded` | `AssetTransfer`, `SharedLinks`, `ElementSync`, `MaintenanceRuns` |
| `UnreadableIsProved` | `AssetTransfer` |
| `RoomGetsItsOwn` | `RoomEntry`, `RoomSession` |
| `BudgetHolds`, `EpochsRise` | `RelayBudgets`, `BackendBudgets`; `RelayBudgets` |
| `KeysSound` | `RoomKeys` |
| `LinksOpen` | `SharedLinks`, `SceneCatalog` |
| `LibrarySound` | `SceneCatalog`, `Workspaces`, `Categories`, `PersonalLibrary`, `LocalScene` |
| `OperatorsSound` | `OperatorGrants` |
| `FollowsSettle` | `FollowMode` |
| `TransportSound` | `RelayTransport`, `WirePath`, `RelayProcess` |
| `FormatsSound` | `SceneDocuments`, `StoredFormats` |
| `TypesOK` | all |

What the theorems of section 9 assume of the constants of these modules (`RoomsApart`,
`ScenesApart`, `LimitBounds` and so on) is assumed here of the values of the run
(`ConstantsSound`), so TLC checks that it is met.

Besides the bounds given with each module, the disjuncts of `ComponentsNext` cut
instances down where a second actor's freedom only multiplies what the first has
shown: the second scene of `SceneSync` has two revisions; a second saver rests when
the scene is in a room; of two writers of categories each has its scene; one of two
browser tabs stays signed out once it is; the second client of `WirePath` does not
send. Each restriction is a conjunct of its own. A behaviour that uses up its bounds
stops, so deadlock is not checked here; the liveness of these components is stated
in `AssetTransfer`, `SharedLinks` and `ElementSync` as an invariant, something is
always under way.

## 9. What is proved

Eight `_proofs` modules prove the following for all values of the constants. A theorem
without a property is the inductive invariant of its module; in brackets is the
property of a run of which a theorem proves the module's part. `Components_proofs` puts
the parts together: its theorems with a property are about `ComponentsSpec`, the
specification the run `components` checks, and their component parts are the theorems
above them.

| Module | Theorem | Property |
|--------|---------|----------|
| `RoomAuthorization_proofs` | `TypeCorrect` | `TypeOK` |
| | `RevocationEnforced` | `EnforcedRevocationHolds` |
| | `StaleJoinsEnd` | `StaleJoinBounded` |
| | `FreshTokensAdmitted` | `FreshTokenAdmitted` |
| | `SilentEndsAreLate` | `SilentEndIsLate` |
| | `OneVerifier` | `OneVerifierPerGeneration` |
| | `DivergenceOwed` | `DivergenceIsOwed` |
| `RelayFanout_proofs` | `Inductive` | |
| | `RoomsKept` | `RoomsSound` |
| | `ViewsKept` | `ViewsConverge` |
| | `NoSilentGap` | `SceneNotSkipped` |
| | `RestartAttributed` | `DrainAttributed` |
| `SnapshotCadence_proofs` | `TypeCorrect` | (in `RowsSound`) |
| | `StoreSound` | `RowsSound` |
| | `StoreImplemented` | `NothingLost`, the refinement of `SnapshotStore` |
| | `KeyKept` | `OneKeyPerLine` |
| | `FlushStored` | `FlushPersists` |
| `ClientSession_proofs` | `Inductive` | |
| | `TypeCorrect` | (in `TypesOK`) |
| | `PhaseKept` | `WorkMatchesPhase` |
| | `LateLoads` | `LateLoadsHarmless` |
| `RoomEntry_proofs` | `Inductive`, `TypeCorrect` | (in `TypesOK`) |
| | `RoomGetsNothingElse` | (in `RoomGetsItsOwn`) |
| | `SessionKept` | (in `RoomGetsItsOwn`) |
| | `EditsHeld` | (in `EditsSurvive`) |
| `RoomKeys_proofs` | `Inductive`, `TypeCorrect` | (in `TypesOK`) |
| | `KeysKept` | (in `KeysSound`) |
| | `ReportWaits` | (in `UnreadableIsProved`) |
| | `TransportKept`, `WireKept`, `ProcessKept` | (in `TransportSound`) |
| | `LimitsHold` | (in `BudgetHolds`) |
| `SceneStorage_proofs` | `Inductive`, `TypeCorrect` | (in `TypesOK`) |
| | `StorageKept` | `StorageSound` |
| `Components_proofs` | `GrantsKept` | (in `OperatorsSound`) |
| | `BudgetsKept`, `EpochsKeepRising` | (in `BudgetHolds`, `EpochsRise`) |
| | `OperatorsStaySound` | `OperatorsSound` |
| | `BudgetsHold` | `BudgetHolds` |
| | `EpochsStayRising` | `EpochsRise` |
| | `KeysStaySound` | `KeysSound` |
| | `UnreadableStaysProved` | `UnreadableIsProved` |
| | `RoomStaysItsOwn` | `RoomGetsItsOwn` |
| | `EditsStay` | `EditsSurvive` |
| | `LinksStayOpen` | `LinksOpen` |
| | `TransportStaysSound` | `TransportSound` |

*Assumptions.* The ASSUMEs of the modules. `RoomAuthorization`: `ClockAssumption`, a
token's lifetime plus the lead of a backend clock fits the longest lifetime the relay
accepts (60 s and 300 s in the code, so the clocks may differ by four minutes);
`LifetimeAssumption`, the retention grace exceeds the longest room lifetime plus the
clock errors. `Recovery`: there is at least one attempt. `RelayFanout`: sockets and
channels are finitely many (the limits count them). All others only say that bounds are
numbers and null values none of the values. The components that `MCComponents` extends or
instantiates state theirs as definitions, which are hypotheses of the theorems and
checked by TLC for the run's values (`ConstantsSound`); most of these say that bounds are
numbers and null values none of the values, too. The others:

- `BudgetsApart`: a relay bucket holds a token, and there are finitely many subjects.
- `WireBounds`: a token lives no longer than the relay lets it (60 s and 300 s), and the
  presence budget is no larger than that of the scene channel.
- `PatienceIsLonger`: a drain ends before the manager kills (`main.ts` and `kill_timeout`
  in `pm2.config.cjs`).
- `LimitBounds`: every limit of the backend has two tokens or more
  (`rate-limit/collaboration.ts:74-81`), or a single one with a window of less than four
  ticks; and who waits has three attempts (`join-failure.ts`). With one token and a longer
  window the property is false: half of one request rounds down to none, so two of them
  fit into half a window.

A count of states below is that of the distinct states in which TLC found an inductive
invariant true on a small instance before it was proved.

### `RoomAuthorization_proofs`

`EnforcedRevocationHolds` is not inductive: after a cutoff is swept
nothing in the state says why an old token may not come back. `RelayInv` adds it.
`IssuedInv`: a token outranked by a request was signed before the change behind
it. `CutoffInv`: a cutoff was recorded after the change behind it. Hence
(`SweptIsHarmless`) when the relay forgets a cutoff, every token below it has lapsed,
clock error and skew included: the only place where the clocks matter.
`MemoryInv`: what this process answered is in a cutoff or too late to matter.
`SessionInv`: every session goes back to a token. `FreshTokenAdmitted` and
`StaleJoinBounded` follow from the same invariant. `WindowInv` bounds the room
expiry in any token by the row's; `VerifierInv` ties the key check to the
generation; `TokenOwed` is `DivergenceIsOwed` for tokens, kept by every mutation
since each either leaves a token's agreement alone, pushes above it, or is a
cascade.

### `RelayFanout_proofs`

The properties speak of the state between events, and a cascade of closes inside
broadcasts inside closes can be of any depth. `StackInv(stack, X)` says for each
unfinished loop of the stack what it still has to do (`LoopInv`), and charges every
member whose view is out of date to a loop that will still inform it (`Informs`). X is
the set of sockets the innermost handler is busy with and for which the invariant is
suspended: a close is then a chain of lemmas (record, leave the room, mark the loops
above stale, push the broadcast), each from one X to the next. When the stack is empty
nothing is charged, and the views have converged. The limits need finite
cardinalities, `JoinLast` that a join is always outermost. (1,196,217 states, three
sockets, two channels.)

### `SnapshotCadence_proofs`

`OnLine` is the core: the revision a session holds, with the scene that goes with it, is
of the line of rows there is, of the same key, and has read what is stored under it; or it
is of a line the owner has reset. It is said of everything a session may write with: a
write in flight, a late request nobody waits for, a flush behind a write, a winner being
loaded. A conditional write at the current revision then stores a superset
(`PutKeeps`), which is `NothingLost` as a step of `SnapshotStore` (`Publish`, or
`Overwrite` while `exposed`). `AwaitedInv` and `FlushAnswers` say which request an answer
belongs to, without which `FlushPersists` cannot tell its own write from an
older one. (15,016,338 states, with the bounds of the run.)

### `ClientSession_proofs`

The handlers are functions of the pair of machine and tab, so `Sound` is a predicate of
that pair and there is a lemma per function that handlers share, `Terminate`,
`LossSound` and so on, composed as the handlers compose them. `Matches` is
`WorkMatchesPhase` made inductive by what the handlers rely on: `AttemptsLeft`, an idle
session has its attempts repaid and a waiting one has one left; `Stopping`, a session
listens to its transport until it stops; `Fresh`, nothing in use is of an earlier join.
(97,152 states, three attempts.) The attempt at the proof showed two arms of a CASE in
`Recovery!Lost` to overlap, which TLC resolves by their order; they are apart now.

### `RoomEntry_proofs`

A room is sent only its own scene because canvas, scene id and claim change hands in one
order: `HandoffInv` before the claim, `ClaimInv` under it, `SceneInv` for a scene that
outlives its session. `AttemptInv` (an attempt that is over has no room) is what a reload
needs. `Its` is what a room may have on a canvas of its own, its scene and what
slipped to it, and is what the other parts speak of. (302,177 states, two rooms, four
moves.)

`RoomSession`: everything the host starts and stops is in one record, `tab`, and each
handler is a function on it, as in `ClientSession`. `Building`, `Living` and `Over` say
what may run in each of the three phases; `Over` is what `RoomSessionSound` asks for, and
needs of `Living` that nothing but the transport opens anything, and of `Building` that a
host left half-built is torn down as far as it was built.

`SceneSync`: `LosesByAdoption` speaks of one step, a commit that overwrites what another
device wrote. It is excluded by `HeldInv`: whatever descends from revision r of a scene (the
canvas, a snapshot, the canvas a save was taken of, what was fetched) holds all of
revision r, and of r + 1 when a rename made it of r (`Held`). A commit passes only at the
revision it names. `RefreshesClean` rests on `OwedInv`: an edit that is owed to the server
is on the canvas and the session knows of it (`dirty`).

### `RoomKeys_proofs`

Sealing is injective and each place has its own seal (`SealInjective`, `ChecksApart`,
`PlacesOf`): those lemmas are the cryptography's part. The rest is who has proved which
key: `CheckInv`, a generation has one key check, at most, whatever dialogs answer
late; `GoodTab`, a dialog stores a check before it hands out a link and a tab has proved
its key for the generation it joins; `StoredInv`, what is stored for a generation was
sealed with the key of its check. (46,680 states, two tabs.)

The module also takes what a room sends through the transport, and what its links open:

- `AssetTransfer`. `VerdictInv`: the fence is drawn with the cohort, and `remaining`
  counts the lookups before it that still run; so at zero all of the cohort have ended.
- `SharedLinks`. `UploadsInv`: an upload answered well is recorded in the row, which is
  there as long as uploads run; a link is shown when all have answered.
- `SceneCatalog`. `SlugsInv` and `HandedInv`: slugs are unique, of scenes that are
  there, drawn once and in no other scene's link; a scene without slug has no link out,
  and a publish that will draw a slug knew of none.
- `RelayTransport`. `NumberedInv` numbers waiting frames apart, so a frame that settles
  is taken out of exactly one of the counts of `VerdictInv`; `OrderInv` puts what is being
  sealed behind what is on the wire; `DeliveredInv` has the replay cache know all that
  was delivered; `MissedInv` has the report agree with the episode.
- `WirePath`. `FrameSound` says of each frame under way what a receiver will check:
  whose it is, its size, the label it was sealed with and the role of who sent it.
- `RelayProcess`. `DrainInv`: a drain is at least as old as the manager's wait, and
  shorter than it may be; hence `NeverKilled` for any number of causes.
- `BackendBudgets`. A sliding window weighs the window before by what is left of it. `CountsInv`: a
  window with something taken in it is within its tokens, and what was taken in
  its first half leaves room for half of the window before. Any stretch of half a window
  lies in one window, or ends in the first half of the next (`HalfWindow`). `WaitInv`:
  who waits alone waits for the start of a window, and nothing was taken since; then the
  second wait finds the budget empty.

### `SceneStorage_proofs`

An object may be deleted on many paths, long after that was decided. `Dead` is the
set of keys that nothing points to and, their upload being over, nothing ever will:
it only grows (`DeadStays`), everything queued, planned, discarded or being cleaned up is
in it (`DeadInv`, `UploadGood`, `SaveGood`), and only what is in it is deleted
(`Tame`, which every step is shown to be). That is `PointersHaveBytes`. For
`ReferencesRecorded`, `SaveGood` carries what a save checked under its lock to its commit.
(1,198,438 states, two keys, one saver; no violation in the first 13 million states
with three keys, nor with two savers.)

### `Components_proofs`

Two components are proved in the module itself, written on the slots they use. In
`OperatorGrants` the record of an action precedes it: `RequestsRecorded` gives each request
past its start an open event of its own, and `JobsInTurn` gives a job that read the
service as without operator the grant it is owed, for as long as it holds the lock. In `RelayBudgets` a bucket that was evicted comes back full:
`Paid` bounds tokens and admissions together by the burst and what the bucket's time has
earned, and a budget without a bucket has admitted no more than its time has earned
(`SubjectsPaid`), because eviction takes idle buckets only.

The other theorems come from the modules above. The component in focus keeps its state in
the slots, so their `_proofs` modules are instantiated on the slots (`KeysP`, `EntryP`); a
lemma per component (`KeysAreKeys`, `WireIsWire` and so on) says that the instance inside
`KeysP` and the one in `MCComponents` are the same formulas, and one more (`KeysTurn` and so
on) that a step of the composition, with that focus, is a step of the component. The
invariant is then the component's, under its focus.

### Model-checked only

- Liveness, out of the prover's reach: `EverySessionEnds`, `CascadesEnd`,
  `GoneIsReleased`, `RetriesEnd`, `SyncingEnds`, `Converges`, `RepliesEnd`.
- `LibrarySound`, `FollowsSettle` and `FormatsSound`: each has a part about what a
  recursive function computes (a list as the sorting of its rows, the end of a chain of
  followers, the packing of a container), which takes induction over data.
- `NothingStranded`.
- Of `TypesOK` what `SceneExchange` and the components without a theorem `TypeCorrect`
  contribute.
- The expected violations.

## 10. Not modelled

- Rendering, dialogs and navigation of the browser interface, and server rendering:
  what they do to shared state is in the modules, the rest only shows it.
- Logs, metrics and monitoring: output only.
- The editor library: its reconciliation enters as a maximum (`SceneExchange`) or by
  versions (`ElementSync`), its ordering of elements and what `restoreElements` drops
  do not; its library merge is external (`PersonalLibrary`).
- The cryptographic library, the sliding window in Redis, the object store and
  PostgreSQL are modelled from how the code uses them.
- Authentication and sign-in flows are the auth library's; accounts enter as identities
  and by their deletion.
- Storage shared by two tabs of one browser, and database settings other than READ
  COMMITTED.
