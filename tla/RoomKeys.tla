------------------------------- MODULE RoomKeys -------------------------------
(***************************************************************************)
(* The key of a room: minted in a browser, carried in a link, proved by    *)
(* the sealed key check on the room row, and stretched into the keys under *)
(* which frames, snapshots and images are sealed                           *)
(* (packages/collaboration/src/sealed-envelope.ts, realtime-crypto.ts,     *)
(* keycheck.ts, snapshot.ts, asset-crypto.ts, asset-payload.ts;            *)
(* collaboration-room-dialog.tsx, use-collaboration-room.ts of apps/web).  *)
(*                                                                         *)
(* One room, its owner in several tabs.  Secrets are numbered as they are  *)
(* minted; 0 is no key.  AES-GCM opens what was sealed under the same key  *)
(* and additional data, and nothing else.  Bounds: MaxSecrets, MaxGen      *)
(* generations, MaxRevision snapshots each, MaxRelease releases of the     *)
(* wire protocol, MaxFrames.                                               *)
(***************************************************************************)
EXTENDS Naturals, FiniteSets

CONSTANTS Tab, File, MaxSecrets, MaxGen, MaxRevision, MaxRelease, MaxFrames

VARIABLES
  room,      \* [gen, check]: collaboration_room
  minted,    \* secrets generated so far
  tab,       \* [key, entered, dialog, join, session] of each tab
  known,     \* history: the links handed out, [secret, gen]
  snapshot,  \* [revision, seal] of each generation
  image,     \* the sealed image of each generation and file
  sealed,    \* history: everything the relay or the store was ever given
  release    \* the version of the wire protocol deployed

keyVars == <<room, minted, tab, known, snapshot, image, sealed, release>>

(* The bounds: there is a first generation, and a first release.            *)
BoundsPositive ==
  MaxSecrets \in Nat /\ MaxGen \in Nat \ {0} /\ MaxRevision \in Nat /\ MaxRelease \in Nat \ {0}

Gen == 1..MaxGen
Channels == {"scene", "presence"}

-----------------------------------------------------------------------------
(* Sealing                                                                  *)

(* deriveRoomKey: the generation salts, the purpose separates.              *)
DeriveRoomKey(secret, gen, purpose) ==
  [secret |-> secret, gen |-> gen, purpose |-> purpose]

(* What each format authenticates beside the ciphertext.                    *)
AdditionalData(place) ==
  CASE place.format = "realtime" -> <<"realtime", place.protocol, place.channel>>
    [] place.format = "snapshot" -> <<"snapshot", place.gen, place.revision>>
    [] place.format = "asset"    -> <<"asset", place.gen, place.file>>
    [] place.format = "keycheck" -> <<"keycheck", place.gen>>

KeyFor(secret, place) == DeriveRoomKey(secret, place.gen, place.format)

(* sealEnvelope.  Only the property looks at place.                         *)
Seal(secret, place) ==
  [key |-> KeyFor(secret, place), aad |-> AdditionalData(place), place |-> place]

(* openEnvelope, and what a decoded image says of itself.                   *)
Opens(secret, place, e) ==
  /\ e.key = KeyFor(secret, place)
  /\ e.aad = AdditionalData(place)
  /\ place.format = "asset" => e.place.file = place.file

FramePlace(g, protocol, channel) ==
  [format |-> "realtime", gen |-> g, protocol |-> protocol, channel |-> channel]
SnapshotPlace(g, r) == [format |-> "snapshot", gen |-> g, revision |-> r]
ImagePlace(g, f) == [format |-> "asset", gen |-> g, file |-> f]
CheckPlace(g) == [format |-> "keycheck", gen |-> g]

NoSeal == [place |-> "none"]
Sealed(e) == e # NoSeal

-----------------------------------------------------------------------------

NoDialog == [stage |-> "idle", for |-> "create", gen |-> 0, secret |-> 0]
NoSession == [gen |-> 0, protocol |-> 0]

Init ==
  /\ room = [gen |-> 1, check |-> NoSeal]
  /\ minted = 0
  /\ tab = [t \in Tab |-> [key |-> 0, entered |-> FALSE, dialog |-> NoDialog,
                           join |-> 0, session |-> NoSession]]
  /\ known = {}
  /\ snapshot = [g \in Gen |-> [revision |-> 0, seal |-> NoSeal]]
  /\ image = [g \in Gen |-> [f \in File |-> NoSeal]]
  /\ sealed = {} /\ release = 1

(* onRoomKeyChange, onRoomIdChange: another link ends what ran on the old.  *)
SetLink(t, key, entered, dialog) ==
  LET same == tab[t].key = key /\ tab[t].entered = entered IN
  tab' = [tab EXCEPT ![t] =
    [key |-> key, entered |-> entered, dialog |-> dialog,
     join |-> IF same THEN @.join ELSE 0,
     session |-> IF same THEN @.session ELSE NoSession]]

Idle(t) == tab[t].dialog.stage = "idle"

(* A session is live when its generation is not 0.                          *)
Live(t) == tab[t].session.gen # 0

-----------------------------------------------------------------------------
(* The dialog of the owner                                                  *)

(* create answers with the active room of the scene.                        *)
CreateRoom(t) ==
  /\ Idle(t) /\ ~tab[t].entered
  /\ tab' = [tab EXCEPT ![t].dialog =
       [NoDialog EXCEPT !.stage = "answered", !.gen = room.gen]]
  /\ UNCHANGED <<room, minted, known, snapshot, image, sealed, release>>

RotateGeneration(t) ==
  /\ Idle(t) /\ tab[t].entered /\ room.gen < MaxGen
  /\ room' = [gen |-> room.gen + 1, check |-> NoSeal]
  /\ tab' = [tab EXCEPT ![t].dialog =
       [NoDialog EXCEPT !.stage = "answered", !.for = "rotate", !.gen = room.gen + 1]]
  /\ UNCHANGED <<minted, known, snapshot, image, sealed, release>>

(* onSuccess of either: a rotation takes the old key out of the link first. *)
MintKey(t) ==
  LET d == tab[t].dialog IN
  /\ d.stage = "answered" /\ minted < MaxSecrets
  /\ minted' = minted + 1
  /\ SetLink(t, IF d.for = "rotate" THEN 0 ELSE tab[t].key, tab[t].entered,
             [d EXCEPT !.stage = "minted", !.secret = minted + 1])
  /\ UNCHANGED <<room, known, snapshot, image, sealed, release>>

(* setKeyCheck; its answer may get lost.                                    *)
SetKeyCheck(t) ==
  LET d == tab[t].dialog
      e == Seal(d.secret, CheckPlace(d.gen))
      answers(set) == \E a \in set : tab' = [tab EXCEPT ![t].dialog.stage = a] IN
  /\ d.stage = "minted"
  /\ IF room.gen = d.gen /\ ~Sealed(room.check)
     THEN /\ room' = [room EXCEPT !.check = e]
          /\ sealed' = sealed \union {e}
          /\ answers({"stored", "failed"})
     ELSE /\ answers(IF room.gen # d.gen THEN {"failed"} ELSE {"conflict", "failed"})
          /\ UNCHANGED <<room, sealed>>
  /\ UNCHANGED <<minted, known, snapshot, image, release>>

(* What the dialog does with that answer.                                   *)
Settle(t) ==
  LET d == tab[t].dialog IN
  /\ \/ /\ d.stage = "stored"
        /\ SetLink(t, d.secret, TRUE, NoDialog)
        /\ known' = known \union {[secret |-> d.secret, gen |-> d.gen]}
     \/ /\ d.stage = "conflict" /\ d.for = "create"
        /\ SetLink(t, 0, TRUE, NoDialog) /\ UNCHANGED known
     \/ /\ d.stage = "failed" \/ (d.stage = "conflict" /\ d.for = "rotate")
        /\ SetLink(t, tab[t].key, tab[t].entered, NoDialog) /\ UNCHANGED known
  /\ UNCHANGED <<room, minted, snapshot, image, sealed, release>>

(* Some link handed out before is opened, or the room is left.              *)
FollowLink(t, key) ==
  /\ Idle(t) /\ key # tab[t].key
  /\ SetLink(t, key, TRUE, NoDialog)
  /\ UNCHANGED <<room, minted, known, snapshot, image, sealed, release>>

LeaveRoom(t) ==
  /\ Idle(t) /\ tab[t].entered
  /\ SetLink(t, 0, FALSE, NoDialog)
  /\ UNCHANGED <<room, minted, known, snapshot, image, sealed, release>>

-----------------------------------------------------------------------------
(* Entering                                                                 *)

(* get, then verifyRoomKeyCheck for the generation it reports.              *)
Verify(t) ==
  /\ tab[t].entered /\ tab[t].key # 0 /\ tab[t].join = 0 /\ ~Live(t)
  /\ Sealed(room.check)
  /\ Opens(tab[t].key, CheckPlace(room.gen), room.check)
  /\ tab' = [tab EXCEPT ![t].join = room.gen]
  /\ UNCHANGED <<room, minted, known, snapshot, image, sealed, release>>

\* Mutation: the session takes the generation of its token unseen.
VerifiedAny(t) == Sealed(room.check)

(* The generation joined is the one the key was verified for.               *)
Verified(t) == Sealed(room.check) /\ tab[t].join = room.gen

(* join, which gives a token of the generation of that moment.              *)
Join(t) ==
  /\ tab[t].join # 0
  /\ tab' = [tab EXCEPT ![t].join = 0, ![t].session =
       IF Verified(t) THEN [gen |-> room.gen, protocol |-> release] ELSE NoSession]
  /\ UNCHANGED <<room, minted, known, snapshot, image, sealed, release>>

(* Lost, stopped, or told by its token refresh that the room has rotated.   *)
EndSession(t) ==
  /\ Live(t)
  /\ tab' = [tab EXCEPT ![t].session = NoSession]
  /\ UNCHANGED <<room, minted, known, snapshot, image, sealed, release>>

-----------------------------------------------------------------------------
(* What a session seals                                                     *)

(* save, once the stored baseline was read; put refuses another generation. *)
SaveSnapshot(t) ==
  LET g == tab[t].session.gen
      row == snapshot[g]
      e == Seal(tab[t].key, SnapshotPlace(g, row.revision + 1)) IN
  /\ Live(t) /\ g = room.gen /\ row.revision < MaxRevision
  /\ Sealed(row.seal) => Opens(tab[t].key, SnapshotPlace(g, row.revision), row.seal)
  /\ snapshot' = [snapshot EXCEPT ![g] = [revision |-> row.revision + 1, seal |-> e]]
  /\ sealed' = sealed \union {e}
  /\ UNCHANGED <<room, minted, tab, known, image, release>>

(* An image of the room; the first one stored stays.                        *)
PublishImage(t, f) ==
  LET g == tab[t].session.gen
      e == Seal(tab[t].key, ImagePlace(g, f)) IN
  /\ Live(t) /\ g = room.gen /\ ~Sealed(image[g][f])
  /\ image' = [image EXCEPT ![g][f] = e]
  /\ sealed' = sealed \union {e}
  /\ UNCHANGED <<room, minted, tab, known, snapshot, release>>

SendFrame(t, channel) ==
  LET s == tab[t].session
      e == Seal(tab[t].key, FramePlace(s.gen, s.protocol, channel)) IN
  /\ Live(t) /\ e \notin sealed
  /\ Cardinality({x \in sealed : x.place.format = "realtime"}) < MaxFrames
  /\ sealed' = sealed \union {e}
  /\ UNCHANGED <<room, minted, tab, known, snapshot, image, release>>

(* A release that changes the wire protocol.                                *)
Deploy ==
  /\ release < MaxRelease
  /\ release' = release + 1
  /\ UNCHANGED <<room, minted, tab, known, snapshot, image, sealed>>

Next ==
  \/ \E t \in Tab :
       \/ CreateRoom(t) \/ RotateGeneration(t) \/ MintKey(t) \/ SetKeyCheck(t)
       \/ Settle(t) \/ LeaveRoom(t) \/ Verify(t) \/ Join(t) \/ EndSession(t)
       \/ SaveSnapshot(t)
       \/ \E l \in known : FollowLink(t, l.secret)
       \/ \E f \in File : PublishImage(t, f)
       \/ \E c \in Channels : SendFrame(t, c)
  \/ Deploy

Spec == Init /\ [][Next]_keyVars
-----------------------------------------------------------------------------
(* Properties                                                               *)

\* Type correctness.
TypeOK ==
  LET stages == {"idle", "answered", "minted", "stored", "conflict", "failed"} IN
  /\ room.gen \in Gen /\ minted \in 0..MaxSecrets /\ release \in 1..MaxRelease
  /\ tab \in [Tab -> [key : 0..MaxSecrets, entered : BOOLEAN, join : 0..MaxGen,
                      session : [gen : 0..MaxGen, protocol : 0..MaxRelease],
                      dialog : [stage : stages, for : {"create", "rotate"},
                                gen : 0..MaxGen, secret : 0..MaxSecrets]]]
  /\ known \subseteq [secret : 1..MaxSecrets, gen : Gen]
  /\ \A g \in Gen : snapshot[g].revision \in 0..MaxRevision

\* Every session holds the key its generation was proved with, so it opens all that
\* the store holds for it, whatever release wrote it, and every link handed out
\* passes the key check of its generation (use-collaboration-room.ts:440,
\* collaboration-room-dialog.tsx:191).
KeysAgree ==
  /\ \A t \in Tab : Live(t) =>
       LET g == tab[t].session.gen  k == tab[t].key IN
       /\ \E e \in sealed : Opens(k, CheckPlace(g), e)
       /\ Sealed(snapshot[g].seal)
            => Opens(k, SnapshotPlace(g, snapshot[g].revision), snapshot[g].seal)
       /\ \A f \in File : Sealed(image[g][f]) => Opens(k, ImagePlace(g, f), image[g][f])
  /\ \A l \in known : \E e \in sealed : Opens(l.secret, CheckPlace(l.gen), e)

\* Whatever the relay or the store hands out in place of what was asked for, a session
\* opens only what was sealed for that very place (asset-payload.ts:74, snapshot.ts:303).
OpensItsOwn ==
  \A t \in Tab : Live(t) =>
    LET g == tab[t].session.gen
        places == {FramePlace(g, tab[t].session.protocol, c) : c \in Channels}
          \union {SnapshotPlace(g, r) : r \in 1..MaxRevision}
          \union {ImagePlace(g, f) : f \in File} \union {CheckPlace(g)} IN
    \A p \in places, e \in sealed : Opens(tab[t].key, p, e) => e.place = p

\* Who is in a room can read all of it, and nothing sealed for one place opens in another.
KeysSound == KeysAgree /\ OpensItsOwn
=============================================================================
