---------------------------- MODULE RoomKeys_proofs ----------------------------
(***************************************************************************)
(* Who is in a room can read all of it, and nothing sealed for one place   *)
(* opens in another: for any number of tabs, files, secrets, generations,  *)
(* revisions and releases of the wire protocol.  After it AssetTransfer,   *)
(* SharedLinks, SceneCatalog, RelayTransport, WirePath and RelayProcess:   *)
(* instances of their modules, with variables of their own.                *)
(***************************************************************************)
EXTENDS RoomKeys, Sequences, TLAPS, FiniteSetTheorems, SequenceTheorems

-----------------------------------------------------------------------------
(* The inductive invariant.                                                *)

Places ==
  {FramePlace(g, v, c) : g \in Gen, v \in 1..MaxRelease, c \in Channels}
    \union {SnapshotPlace(g, r) : g \in Gen, r \in 1..MaxRevision}
    \union {ImagePlace(g, f) : g \in Gen, f \in File}
    \union {CheckPlace(g) : g \in Gen}

Secrets == 0..MaxSecrets

\* What was handed out was sealed with some secret for some place.
IsSeal(e) == \E k \in Secrets, p \in Places : e = Seal(k, p)

\* The key check of a generation, among what was sealed, is of this secret.
Proved(all, k, g) == Seal(k, CheckPlace(g)) \in all

Shapes ==
  /\ room \in [gen : Gen, check : sealed \union {NoSeal}]
  /\ snapshot \in [Gen -> [revision : 0..MaxRevision, seal : sealed \union {NoSeal}]]
  /\ image \in [Gen -> [File -> sealed \union {NoSeal}]]

SealedInv == \A e \in sealed : IsSeal(e)

\* There is one key check for each generation up to the current one, and for the current
\* one the row has it.
CheckInv ==
  /\ \A k \in Secrets, g \in Gen : Proved(sealed, k, g) =>
       g <= room.gen /\ (g = room.gen => room.check = Seal(k, CheckPlace(g)))
  /\ \A k, l \in Secrets, g \in Gen : Proved(sealed, k, g) /\ Proved(sealed, l, g) => k = l
  /\ Sealed(room.check) => \E k \in Secrets : room.check = Seal(k, CheckPlace(room.gen))

Dialogs ==
  [stage : {"idle", "answered", "minted", "stored", "conflict", "failed"},
   for : {"create", "rotate"}, gen : 0..MaxGen, secret : 0..MaxSecrets]

Tabs ==
  [key : 0..MaxSecrets, entered : BOOLEAN, join : 0..MaxGen,
   session : [gen : 0..MaxGen, protocol : 0..MaxRelease], dialog : Dialogs]

\* A dialog has its generation and its secret before it stores a key check.
GoodDialog(all, d) ==
  /\ d \in Dialogs
  /\ d.stage # "idle" => d.gen \in Gen
  /\ d.stage \in {"minted", "stored", "conflict", "failed"} => d.secret # 0
  /\ d.stage = "stored" => Proved(all, d.secret, d.gen)

\* What a tab joins or has joined, it has proved its key for.
GoodTab(all, x) ==
  /\ x \in Tabs /\ GoodDialog(all, x.dialog)
  /\ x.join # 0 => Proved(all, x.key, x.join)
  /\ x.session.gen # 0 => x.session.protocol # 0 /\ Proved(all, x.key, x.session.gen)

LinkInv == \A l \in known : Proved(sealed, l.secret, l.gen)

\* What is stored for a generation was sealed with its secret.
StoredInv ==
  /\ \A g \in Gen : Sealed(snapshot[g].seal) =>
       \E k \in Secrets : /\ Proved(sealed, k, g)
                          /\ snapshot[g].seal = Seal(k, SnapshotPlace(g, snapshot[g].revision))
  /\ \A g \in Gen, f \in File : Sealed(image[g][f]) =>
       \E k \in Secrets : Proved(sealed, k, g) /\ image[g][f] = Seal(k, ImagePlace(g, f))

IInv ==
  /\ TypeOK /\ Shapes /\ SealedInv /\ CheckInv /\ LinkInv /\ StoredInv
  /\ tab \in [Tab -> Tabs] /\ \A t \in Tab : GoodTab(sealed, tab[t])

-----------------------------------------------------------------------------
(* Sealing.                                                                *)

LEMMA SealFields ==
  ASSUME NEW k, NEW p
  PROVE  /\ Seal(k, p).key = KeyFor(k, p) /\ Seal(k, p).aad = AdditionalData(p)
         /\ Seal(k, p).place = p /\ Sealed(Seal(k, p))
<1>1. "key" \in DOMAIN Seal(k, p) /\ "key" \notin DOMAIN NoSeal
  BY DEF Seal, NoSeal
<1>2. Seal(k, p) # NoSeal
  BY <1>1
<1>. QED
  BY <1>2 DEF Seal, Sealed

LEMMA SealOpens ==
  ASSUME NEW k, NEW p
  PROVE  Opens(k, p, Seal(k, p))
BY SealFields DEF Opens

LEMMA KeyFields ==
  ASSUME NEW k, NEW p, NEW l, NEW q, KeyFor(k, p) = KeyFor(l, q)
  PROVE  k = l /\ p.gen = q.gen /\ p.format = q.format
BY DEF KeyFor, DeriveRoomKey

LEMMA Tuples ==
  ASSUME NEW x, NEW a, NEW b, NEW c, NEW d, <<x, a, b>> = <<x, c, d>>
  PROVE  a = c /\ b = d
<1>1. <<x, a, b>>[2] = a /\ <<x, a, b>>[3] = b
  OBVIOUS
<1>2. <<x, c, d>>[2] = c /\ <<x, c, d>>[3] = d
  OBVIOUS
<1>. QED
  BY <1>1, <1>2

LEMMA PlaceFields ==
  /\ \A g, v, c : /\ FramePlace(g, v, c).format = "realtime" /\ FramePlace(g, v, c).gen = g
                  /\ AdditionalData(FramePlace(g, v, c)) = <<"realtime", v, c>>
  /\ \A g, r : /\ SnapshotPlace(g, r).format = "snapshot" /\ SnapshotPlace(g, r).gen = g
               /\ AdditionalData(SnapshotPlace(g, r)) = <<"snapshot", g, r>>
  /\ \A g, f : /\ ImagePlace(g, f).format = "asset" /\ ImagePlace(g, f).gen = g
               /\ AdditionalData(ImagePlace(g, f)) = <<"asset", g, f>>
  /\ \A g : CheckPlace(g).format = "keycheck" /\ CheckPlace(g).gen = g
BY DEF FramePlace, SnapshotPlace, ImagePlace, CheckPlace, AdditionalData

\* A place is of one of four kinds, and its format says which.
LEMMA PlaceKinds ==
  ASSUME NEW q \in Places
  PROVE  /\ q.format = "realtime" => \E g, v, c : q = FramePlace(g, v, c)
         /\ q.format = "snapshot" => \E g, r : q = SnapshotPlace(g, r)
         /\ q.format = "asset" => \E g, f : q = ImagePlace(g, f)
         /\ q.format = "keycheck" => \E g : q = CheckPlace(g)
<1>1. \/ \E g, v, c : q = FramePlace(g, v, c)
      \/ \E g, r : q = SnapshotPlace(g, r)
      \/ \E g, f : q = ImagePlace(g, f)
      \/ \E g : q = CheckPlace(g)
  BY DEF Places
<1>. QED
  BY <1>1, PlaceFields

\* A place is known by its format, its generation and its additional data.
LEMMA PlaceOf ==
  ASSUME NEW p \in Places, NEW q \in Places, p.gen = q.gen, p.format = q.format,
         AdditionalData(p) = AdditionalData(q)
  PROVE  p = q
<1>1. ASSUME NEW g, NEW v, NEW c, p = FramePlace(g, v, c)
      PROVE  p = q
  <2>1. p.format = "realtime" /\ AdditionalData(p) = <<"realtime", v, c>> /\ p.gen = g
    BY <1>1, PlaceFields
  <2>2. PICK h, w, d : q = FramePlace(h, w, d)
    BY <2>1, PlaceKinds
  <2>3. AdditionalData(q) = <<"realtime", w, d>> /\ q.gen = h
    BY <2>2, PlaceFields
  <2>4. v = w /\ c = d /\ g = h
    <3>1. <<"realtime", v, c>> = <<"realtime", w, d>>
      BY <2>1, <2>3
    <3>. QED
      BY <2>1, <2>3, <3>1, Tuples
  <2>. QED
    BY <1>1, <2>2, <2>4
<1>2. ASSUME NEW g, NEW r, p = SnapshotPlace(g, r)
      PROVE  p = q
  <2>1. p.format = "snapshot" /\ AdditionalData(p) = <<"snapshot", g, r>>
    BY <1>2, PlaceFields
  <2>2. PICK h, w : q = SnapshotPlace(h, w)
    BY <2>1, PlaceKinds
  <2>3. AdditionalData(q) = <<"snapshot", h, w>>
    BY <2>2, PlaceFields
  <2>4. g = h /\ r = w
    <3>1. <<"snapshot", g, r>> = <<"snapshot", h, w>>
      BY <2>1, <2>3
    <3>. QED
      BY <2>1, <2>3, <3>1, Tuples
  <2>. QED
    BY <1>2, <2>2, <2>4
<1>3. ASSUME NEW g, NEW f, p = ImagePlace(g, f)
      PROVE  p = q
  <2>1. p.format = "asset" /\ AdditionalData(p) = <<"asset", g, f>>
    BY <1>3, PlaceFields
  <2>2. PICK h, w : q = ImagePlace(h, w)
    BY <2>1, PlaceKinds
  <2>3. AdditionalData(q) = <<"asset", h, w>>
    BY <2>2, PlaceFields
  <2>4. g = h /\ f = w
    <3>1. <<"asset", g, f>> = <<"asset", h, w>>
      BY <2>1, <2>3
    <3>. QED
      BY <2>1, <2>3, <3>1, Tuples
  <2>. QED
    BY <1>3, <2>2, <2>4
<1>4. ASSUME NEW g, p = CheckPlace(g)
      PROVE  p = q
  <2>1. p.format = "keycheck" /\ p.gen = g
    BY <1>4, PlaceFields
  <2>2. PICK h : q = CheckPlace(h)
    BY <2>1, PlaceKinds
  <2>3. q.gen = h
    BY <2>2, PlaceFields
  <2>. QED
    BY <1>4, <2>1, <2>2, <2>3
<1>. QED
  BY <1>1, <1>2, <1>3, <1>4 DEF Places

\* What opens was sealed with that very secret for that very place.
LEMMA OpensOnly ==
  ASSUME NEW k, NEW l, NEW p \in Places, NEW q \in Places, Opens(k, p, Seal(l, q))
  PROVE  k = l /\ p = q
<1>1. KeyFor(l, q) = KeyFor(k, p) /\ AdditionalData(q) = AdditionalData(p)
  BY SealFields DEF Opens
<1>. QED
  BY <1>1, KeyFields, PlaceOf

LEMMA SealInjective ==
  ASSUME NEW k, NEW l, NEW p, NEW q, Seal(k, p) = Seal(l, q)
  PROVE  k = l /\ p = q
<1>1. KeyFor(k, p) = KeyFor(l, q) /\ p = q
  BY SealFields
<1>. QED
  BY <1>1, KeyFields

LEMMA PlacesOf ==
  ASSUME NEW g \in Gen
  PROVE  /\ CheckPlace(g) \in Places
         /\ \A v \in 1..MaxRelease, c \in Channels : FramePlace(g, v, c) \in Places
         /\ \A r \in 1..MaxRevision : SnapshotPlace(g, r) \in Places
         /\ \A f \in File : ImagePlace(g, f) \in Places
BY DEF Places

\* No two kinds of seal are the same.
LEMMA ChecksApart ==
  ASSUME NEW k, NEW l, NEW g, NEW p, p.format # "keycheck"
  PROVE  Seal(l, p) # Seal(k, CheckPlace(g))
<1>1. CheckPlace(g).format = "keycheck"
  BY DEF CheckPlace
<1>. QED
  BY <1>1, SealInjective

-----------------------------------------------------------------------------
(* The tabs.                                                               *)

\* What has been proved stays proved.
LEMMA Grows ==
  ASSUME NEW all, NEW more, all \subseteq more
  PROVE  /\ \A k, g : Proved(all, k, g) => Proved(more, k, g)
         /\ \A d : GoodDialog(all, d) => GoodDialog(more, d)
         /\ \A x : GoodTab(all, x) => GoodTab(more, x)
<1>1. \A k, g : Proved(all, k, g) => Proved(more, k, g)
  BY DEF Proved
<1>2. \A d : GoodDialog(all, d) => GoodDialog(more, d)
  BY <1>1 DEF GoodDialog
<1>. QED
  BY <1>1, <1>2 DEF GoodTab

\* A step of one tab, which seals nothing.
LEMMA OneTab ==
  ASSUME IInv, NEW t \in Tab, NEW x, GoodTab(sealed, x), tab' = [tab EXCEPT ![t] = x],
         UNCHANGED <<room, snapshot, image, sealed, release>>, minted' \in 0..MaxSecrets,
         known' \subseteq [secret : 1..MaxSecrets, gen : Gen],
         \A l \in known' : Proved(sealed, l.secret, l.gen)
  PROVE  IInv'
<1>1. tab' \in [Tab -> Tabs] /\ \A u \in Tab : GoodTab(sealed, tab'[u])
  BY DEF IInv, GoodTab
<1>2. TypeOK'
  BY <1>1 DEF IInv, TypeOK, Tabs, Dialogs
<1>3. Shapes' /\ SealedInv' /\ CheckInv' /\ StoredInv'
  BY DEF IInv, Shapes, SealedInv, CheckInv, StoredInv
<1>. QED
  BY <1>1, <1>2, <1>3 DEF IInv, LinkInv

LEMMA Facts ==
  ASSUME IInv
  PROVE  /\ \A t \in Tab : GoodTab(sealed, tab[t]) /\ tab[t] \in Tabs
         /\ minted \in 0..MaxSecrets /\ known \subseteq [secret : 1..MaxSecrets, gen : Gen]
         /\ \A l \in known : Proved(sealed, l.secret, l.gen)
         /\ room.gen \in Gen /\ release \in 1..MaxRelease
BY DEF IInv, TypeOK, LinkInv

\* Another link ends what ran on the old one.
LEMMA LinkSet ==
  ASSUME IInv, NEW t \in Tab, NEW key \in 0..MaxSecrets, NEW entered \in BOOLEAN, NEW dialog,
         GoodDialog(sealed, dialog), SetLink(t, key, entered, dialog), BoundsPositive
  PROVE  \E x : GoodTab(sealed, x) /\ tab' = [tab EXCEPT ![t] = x]
<1>1. GoodTab(sealed, tab[t]) /\ tab[t] \in Tabs
  BY Facts
<1>2. PICK same \in BOOLEAN : same = (tab[t].key = key /\ tab[t].entered = entered)
  OBVIOUS
<1>3. PICK join : join = IF same THEN tab[t].join ELSE 0
  OBVIOUS
<1>4. PICK session : session = IF same THEN tab[t].session ELSE NoSession
  OBVIOUS
<1>5. PICK x : x = [key |-> key, entered |-> entered, dialog |-> dialog, join |-> join,
                    session |-> session]
  OBVIOUS
<1>6. tab' = [tab EXCEPT ![t] = x]
  BY <1>2, <1>3, <1>4, <1>5 DEF SetLink
<1>7. join \in 0..MaxGen /\ session \in [gen : 0..MaxGen, protocol : 0..MaxRelease]
  BY <1>1, <1>3, <1>4 DEF Tabs, NoSession, BoundsPositive
<1>8. /\ x.key = key /\ x.dialog = dialog /\ x.join = join /\ x.session = session
      /\ x \in Tabs
  BY <1>5, <1>7 DEF Tabs, GoodDialog
<1>9. /\ join # 0 => Proved(sealed, key, join)
      /\ session.gen # 0 => session.protocol # 0 /\ Proved(sealed, key, session.gen)
  BY <1>1, <1>2, <1>3, <1>4 DEF GoodTab, NoSession
<1>10. GoodTab(sealed, x)
  BY <1>8, <1>9 DEF GoodTab
<1>. QED
  BY <1>6, <1>10

LEMMA NoDialogGood ==
  ASSUME BoundsPositive
  PROVE  NoDialog \in Dialogs /\ GoodDialog(sealed, NoDialog)
BY DEF NoDialog, Dialogs, GoodDialog, BoundsPositive

\* Another dialog in a tab that is otherwise the same.
LEMMA DialogSet ==
  ASSUME IInv, NEW t \in Tab, NEW dialog, GoodDialog(sealed, dialog),
         tab' = [tab EXCEPT ![t].dialog = dialog]
  PROVE  \E x : GoodTab(sealed, x) /\ tab' = [tab EXCEPT ![t] = x]
<1>1. GoodTab(sealed, tab[t]) /\ tab[t] \in Tabs
  BY Facts
<1>2. PICK x : x = [tab[t] EXCEPT !.dialog = dialog]
  OBVIOUS
<1>3. /\ x \in Tabs /\ x.key = tab[t].key /\ x.join = tab[t].join
      /\ x.session = tab[t].session /\ x.dialog = dialog
  BY <1>1, <1>2 DEF Tabs, GoodDialog
<1>4. GoodTab(sealed, x)
  BY <1>1, <1>3 DEF GoodTab
<1>. QED
  BY <1>2, <1>4

LEMMA CreateRoomKept ==
  ASSUME IInv, BoundsPositive, NEW t \in Tab, CreateRoom(t)
  PROVE  IInv'
<1>1. PICK d : d = [NoDialog EXCEPT !.stage = "answered", !.gen = room.gen]
  OBVIOUS
<1>2. room.gen \in Gen /\ room.gen \in 0..MaxGen
  BY Facts DEF Gen, BoundsPositive
<1>3. d \in Dialogs /\ d.stage = "answered" /\ d.gen = room.gen
  <2>1. d = [stage |-> "answered", for |-> "create", gen |-> room.gen, secret |-> 0]
    BY <1>1 DEF NoDialog
  <2>2. 0 \in 0..MaxSecrets
    BY DEF BoundsPositive
  <2>. QED
    BY <1>2, <2>1, <2>2 DEF Dialogs
<1>4. GoodDialog(sealed, d)
  BY <1>2, <1>3 DEF GoodDialog
<1>5. tab' = [tab EXCEPT ![t].dialog = d]
  BY <1>1 DEF CreateRoom
<1>6. PICK x : GoodTab(sealed, x) /\ tab' = [tab EXCEPT ![t] = x]
  BY <1>4, <1>5, DialogSet
<1>. QED
  BY <1>6, Facts, OneTab DEF CreateRoom

LEMMA MintKeyKept ==
  ASSUME IInv, BoundsPositive, NEW t \in Tab, MintKey(t)
  PROVE  IInv'
<1>1. GoodTab(sealed, tab[t]) /\ tab[t] \in Tabs /\ minted \in 0..MaxSecrets
  BY Facts
<1>2. PICK d \in Dialogs : d = tab[t].dialog
  BY <1>1 DEF Tabs
<1>3. PICK m \in 0..MaxSecrets : m = minted + 1 /\ m # 0
  BY <1>1 DEF MintKey, BoundsPositive
<1>4. PICK e \in Dialogs : e = [d EXCEPT !.stage = "minted", !.secret = m]
  BY DEF Dialogs
<1>5. GoodDialog(sealed, e)
  <2>1. d.stage = "answered" /\ d.gen \in Gen
    BY <1>1, <1>2 DEF MintKey, GoodTab, GoodDialog
  <2>2. e.stage = "minted" /\ e.secret = m /\ e.gen = d.gen
    BY <1>4 DEF Dialogs
  <2>. QED
    BY <1>3, <2>1, <2>2 DEF GoodDialog
<1>6. PICK key \in 0..MaxSecrets : key = IF d.for = "rotate" THEN 0 ELSE tab[t].key
  BY <1>1, <1>2 DEF Tabs, BoundsPositive
<1>7. SetLink(t, key, tab[t].entered, e)
  BY <1>2, <1>3, <1>4, <1>6 DEF MintKey
<1>8. tab[t].entered \in BOOLEAN
  BY <1>1 DEF Tabs
<1>9. PICK x : GoodTab(sealed, x) /\ tab' = [tab EXCEPT ![t] = x]
  BY <1>5, <1>7, <1>8, LinkSet
<1>. QED
  <2>1. /\ UNCHANGED <<room, snapshot, image, sealed, release>> /\ minted' = m /\ known' = known
    BY <1>3 DEF MintKey
  <2>2. /\ known' \subseteq [secret : 1..MaxSecrets, gen : Gen]
        /\ \A l \in known' : Proved(sealed, l.secret, l.gen)
    BY <2>1, Facts
  <2>. QED
    BY <1>9, <2>1, <2>2, OneTab

\* What the dialog has made of its answer, it forgets; a stored key becomes a link.
LEMMA SettleKept ==
  ASSUME IInv, BoundsPositive, NEW t \in Tab, Settle(t)
  PROVE  IInv'
<1>1. GoodTab(sealed, tab[t]) /\ tab[t] \in Tabs
  BY Facts
<1>2. PICK d \in Dialogs : d = tab[t].dialog
  BY <1>1 DEF Tabs
<1>3. tab[t].key \in 0..MaxSecrets /\ tab[t].entered \in BOOLEAN /\ d.secret \in 0..MaxSecrets
      /\ 0 \in 0..MaxSecrets /\ GoodDialog(sealed, d)
  BY <1>1, <1>2 DEF Tabs, Dialogs, BoundsPositive, GoodTab
<1>4. \/ SetLink(t, d.secret, TRUE, NoDialog) \/ SetLink(t, 0, TRUE, NoDialog)
      \/ SetLink(t, tab[t].key, tab[t].entered, NoDialog)
  BY <1>2 DEF Settle
<1>5. PICK x : GoodTab(sealed, x) /\ tab' = [tab EXCEPT ![t] = x]
  BY <1>3, <1>4, NoDialogGood, LinkSet
<1>6. /\ known' \subseteq [secret : 1..MaxSecrets, gen : Gen]
      /\ \A l \in known' : Proved(sealed, l.secret, l.gen)
  <2>1. CASE d.stage = "stored" /\ known' = known \union {[secret |-> d.secret, gen |-> d.gen]}
    <3>1. d.gen \in Gen /\ Proved(sealed, d.secret, d.gen) /\ d.secret # 0
      BY <1>3, <2>1 DEF GoodDialog
    <3>2. d.secret \in 1..MaxSecrets
      BY <1>3, <3>1 DEF BoundsPositive
    <3>. QED
      BY <2>1, <3>1, <3>2, Facts
  <2>2. CASE known' = known
    BY <2>2, Facts
  <2>. QED
    BY <1>2, <2>1, <2>2 DEF Settle
<1>7. UNCHANGED <<room, snapshot, image, sealed, release, minted>>
  BY DEF Settle
<1>8. minted' \in 0..MaxSecrets
  BY <1>7, Facts
<1>. QED
  BY <1>5, <1>6, <1>7, <1>8, OneTab

LEMMA LinkKept ==
  ASSUME IInv, BoundsPositive, NEW t \in Tab,
         LeaveRoom(t) \/ \E l \in known : FollowLink(t, l.secret)
  PROVE  IInv'
<1>1. 0 \in 0..MaxSecrets /\ \A l \in known : l.secret \in 0..MaxSecrets
  BY Facts DEF BoundsPositive
<1>2. \E x : GoodTab(sealed, x) /\ tab' = [tab EXCEPT ![t] = x]
  <2>1. CASE LeaveRoom(t)
    <3>1. SetLink(t, 0, FALSE, NoDialog)
      BY <2>1 DEF LeaveRoom
    <3>. QED
      BY <1>1, <3>1, NoDialogGood, LinkSet
  <2>2. ASSUME NEW l \in known, FollowLink(t, l.secret)
        PROVE  \E x : GoodTab(sealed, x) /\ tab' = [tab EXCEPT ![t] = x]
    <3>1. SetLink(t, l.secret, TRUE, NoDialog)
      BY <2>2 DEF FollowLink
    <3>. QED
      BY <1>1, <3>1, NoDialogGood, LinkSet
  <2>. QED
    BY <2>1, <2>2
<1>3. UNCHANGED <<room, snapshot, image, sealed, release, minted, known>>
  BY DEF LeaveRoom, FollowLink
<1>4. /\ minted' \in 0..MaxSecrets /\ known' \subseteq [secret : 1..MaxSecrets, gen : Gen]
      /\ \A l \in known' : Proved(sealed, l.secret, l.gen)
  BY <1>3, Facts
<1>. QED
  BY <1>2, <1>3, <1>4, OneTab

\* A key that opens the key check of the row is the one the check was sealed with.
LEMMA VerifyKept ==
  ASSUME IInv, BoundsPositive, NEW t \in Tab, Verify(t)
  PROVE  IInv'
<1>1. GoodTab(sealed, tab[t]) /\ tab[t] \in Tabs /\ room.gen \in Gen
  BY Facts
<1>2. Proved(sealed, tab[t].key, room.gen)
  <2>1. PICK k \in Secrets : room.check = Seal(k, CheckPlace(room.gen))
    BY DEF Verify, IInv, CheckInv
  <2>2. Opens(tab[t].key, CheckPlace(room.gen), Seal(k, CheckPlace(room.gen)))
    BY <2>1 DEF Verify
  <2>3. tab[t].key = k
    BY <1>1, <2>2, OpensOnly, PlacesOf
  <2>4. room.check \in sealed
    BY DEF IInv, Shapes, Verify, Sealed
  <2>. QED
    BY <2>1, <2>3, <2>4 DEF Proved
<1>3. PICK g \in 0..MaxGen : g = room.gen
  BY <1>1 DEF Gen, BoundsPositive
<1>4. PICK x : x = [tab[t] EXCEPT !.join = g]
  OBVIOUS
<1>5. /\ x \in Tabs /\ x.key = tab[t].key /\ x.join = g
      /\ x.session = tab[t].session /\ x.dialog = tab[t].dialog
  BY <1>1, <1>4 DEF Tabs
<1>6. GoodTab(sealed, x)
  BY <1>1, <1>2, <1>3, <1>5 DEF GoodTab
<1>7. /\ tab' = [tab EXCEPT ![t] = x]
      /\ UNCHANGED <<room, snapshot, image, sealed, release, minted, known>>
  BY <1>3, <1>4 DEF Verify
<1>8. /\ minted' \in 0..MaxSecrets /\ known' \subseteq [secret : 1..MaxSecrets, gen : Gen]
      /\ \A l \in known' : Proved(sealed, l.secret, l.gen)
  BY <1>7, Facts
<1>. QED
  BY <1>6, <1>7, <1>8, OneTab

\* Another session in a tab, whose join may be over.
LEMMA SessionSet ==
  ASSUME IInv, NEW t \in Tab, NEW join \in 0..MaxGen, join = 0 \/ join = tab[t].join,
         NEW session \in [gen : 0..MaxGen, protocol : 0..MaxRelease],
         session.gen # 0 => session.protocol # 0 /\ Proved(sealed, tab[t].key, session.gen),
         tab' = [tab EXCEPT ![t] = [tab[t] EXCEPT !.join = join, !.session = session]]
  PROVE  \E x : GoodTab(sealed, x) /\ tab' = [tab EXCEPT ![t] = x]
<1>1. GoodTab(sealed, tab[t]) /\ tab[t] \in Tabs
  BY Facts
<1>2. PICK x : x = [tab[t] EXCEPT !.join = join, !.session = session]
  OBVIOUS
<1>3. /\ x \in Tabs /\ x.key = tab[t].key /\ x.join = join
      /\ x.session = session /\ x.dialog = tab[t].dialog
  BY <1>1, <1>2 DEF Tabs
<1>4. GoodTab(sealed, x)
  BY <1>1, <1>3 DEF GoodTab
<1>. QED
  BY <1>2, <1>4

\* A session begins in the generation its key was verified for.
LEMMA SessionKept ==
  ASSUME IInv, BoundsPositive, NEW t \in Tab, Join(t) \/ EndSession(t)
  PROVE  IInv'
<1>1. /\ GoodTab(sealed, tab[t]) /\ tab[t] \in Tabs /\ room.gen \in Gen
      /\ release \in 1..MaxRelease
  BY Facts
<1>2. /\ NoSession \in [gen : 0..MaxGen, protocol : 0..MaxRelease] /\ NoSession.gen = 0
      /\ tab[t].join \in 0..MaxGen /\ 0 \in 0..MaxGen
  BY <1>1 DEF NoSession, BoundsPositive, Tabs
<1>3. CASE Join(t)
  <2>1. PICK session : session = IF Verified(t) THEN [gen |-> room.gen, protocol |-> release]
                                 ELSE NoSession
    OBVIOUS
  <2>2. tab' = [tab EXCEPT ![t] = [tab[t] EXCEPT !.join = 0, !.session = session]]
    BY <1>3, <2>1 DEF Join
  <2>3. /\ session \in [gen : 0..MaxGen, protocol : 0..MaxRelease]
        /\ session.gen # 0 => session.protocol # 0 /\ Proved(sealed, tab[t].key, session.gen)
    <3>1. CASE session = NoSession
      BY <1>2, <3>1
    <3>2. CASE session = [gen |-> room.gen, protocol |-> release] /\ tab[t].join = room.gen
      <4>1. /\ room.gen \in 0..MaxGen /\ room.gen # 0 /\ release \in 0..MaxRelease
            /\ release # 0
        BY <1>1 DEF Gen, BoundsPositive
      <4>2. session.gen = room.gen /\ session.protocol = release
        BY <3>2
      <4>3. Proved(sealed, tab[t].key, tab[t].join)
        BY <1>1, <3>2, <4>1 DEF GoodTab
      <4>. QED
        BY <3>2, <4>1, <4>2, <4>3
    <3>. QED
      BY <2>1, <3>1, <3>2 DEF Verified
  <2>4. PICK x : GoodTab(sealed, x) /\ tab' = [tab EXCEPT ![t] = x]
    BY <1>2, <2>2, <2>3, SessionSet
  <2>5. /\ UNCHANGED <<room, snapshot, image, sealed, release, minted, known>>
    BY <1>3 DEF Join
  <2>. QED
    BY <2>4, <2>5, Facts, OneTab
<1>4. CASE EndSession(t)
  <2>1. tab' = [tab EXCEPT ![t] = [tab[t] EXCEPT !.session = NoSession]]
    BY <1>4 DEF EndSession
  <2>2. [tab[t] EXCEPT !.session = NoSession]
          = [tab[t] EXCEPT !.join = tab[t].join, !.session = NoSession]
    BY <1>1 DEF Tabs
  <2>3. tab' = [tab EXCEPT ![t] = [tab[t] EXCEPT !.join = tab[t].join, !.session = NoSession]]
    BY <2>1, <2>2
  <2>4. PICK x : GoodTab(sealed, x) /\ tab' = [tab EXCEPT ![t] = x]
    BY <1>2, <2>3, SessionSet
  <2>5. /\ UNCHANGED <<room, snapshot, image, sealed, release, minted, known>>
    BY <1>4 DEF EndSession
  <2>. QED
    BY <2>4, <2>5, Facts, OneTab
<1>. QED
  BY <1>3, <1>4

-----------------------------------------------------------------------------
(* The generation, its key check and what is sealed.                       *)

\* A dialog that takes its next stage.
LEMMA StageSet ==
  ASSUME IInv, NEW t \in Tab, tab[t].dialog.stage = "minted",
         NEW a \in {"stored", "conflict", "failed"}, NEW all, sealed \subseteq all,
         a = "stored" => Proved(all, tab[t].dialog.secret, tab[t].dialog.gen),
         tab' = [tab EXCEPT ![t].dialog.stage = a]
  PROVE  \E x : GoodTab(all, x) /\ tab' = [tab EXCEPT ![t] = x]
<1>1. GoodTab(sealed, tab[t]) /\ tab[t] \in Tabs
  BY Facts
<1>2. PICK d \in Dialogs : d = tab[t].dialog
  BY <1>1 DEF Tabs
<1>3. PICK e \in Dialogs : e = [d EXCEPT !.stage = a]
  BY DEF Dialogs
<1>4. e.stage = a /\ e.gen = d.gen /\ e.secret = d.secret
  BY <1>3 DEF Dialogs
<1>5. d.gen \in Gen /\ d.secret # 0
  BY <1>1, <1>2 DEF GoodTab, GoodDialog
<1>6. GoodDialog(all, e)
  BY <1>2, <1>4, <1>5 DEF GoodDialog
<1>7. PICK x : x = [tab[t] EXCEPT !.dialog = e]
  OBVIOUS
<1>8. /\ x \in Tabs /\ x.key = tab[t].key /\ x.join = tab[t].join
      /\ x.session = tab[t].session /\ x.dialog = e
  BY <1>1, <1>7 DEF Tabs
<1>9. GoodTab(all, x)
  <2>1. GoodTab(all, tab[t])
    BY <1>1, Grows
  <2>. QED
    BY <1>6, <1>8, <2>1 DEF GoodTab
<1>10. tab' = [tab EXCEPT ![t] = x]
  BY <1>2, <1>3, <1>7
<1>. QED
  BY <1>9, <1>10

\* A rotation leaves the row without a key check; nothing was sealed for what it begins.
LEMMA RotateGenerationKept ==
  ASSUME IInv, BoundsPositive, NEW t \in Tab, RotateGeneration(t)
  PROVE  IInv'
<1>1. PICK n \in Gen : n = room.gen + 1
  BY Facts DEF Gen, BoundsPositive, RotateGeneration
<1>2. PICK d : d = [NoDialog EXCEPT !.stage = "answered", !.for = "rotate", !.gen = n]
  OBVIOUS
<1>3. d \in Dialogs /\ d.stage = "answered" /\ d.gen = n
  <2>1. d = [stage |-> "answered", for |-> "rotate", gen |-> n, secret |-> 0]
    BY <1>2 DEF NoDialog
  <2>2. 0 \in 0..MaxSecrets /\ n \in 0..MaxGen
    BY DEF BoundsPositive, Gen
  <2>. QED
    BY <2>1, <2>2 DEF Dialogs
<1>4. GoodDialog(sealed, d)
  BY <1>3 DEF GoodDialog
<1>5. tab' = [tab EXCEPT ![t].dialog = d]
  BY <1>1, <1>2 DEF RotateGeneration
<1>6. PICK x : GoodTab(sealed, x) /\ tab' = [tab EXCEPT ![t] = x]
  BY <1>4, <1>5, DialogSet
<1>7. tab' \in [Tab -> Tabs] /\ \A u \in Tab : GoodTab(sealed, tab'[u])
  BY <1>6 DEF IInv, GoodTab
<1>8. UNCHANGED <<snapshot, image, sealed, release, minted, known>>
  BY DEF RotateGeneration
<1>9. room' = [gen |-> n, check |-> NoSeal] /\ room'.gen = n /\ room'.check = NoSeal
  BY <1>1 DEF RotateGeneration
<1>10. TypeOK' /\ Shapes'
  BY <1>7, <1>8, <1>9 DEF IInv, TypeOK, Tabs, Dialogs, Shapes
<1>11. CheckInv'
  <2>1. ASSUME NEW k \in Secrets, NEW g \in Gen, Proved(sealed, k, g)
        PROVE  g <= n /\ g # n
    <3>1. g <= room.gen /\ room.gen \in Gen
      BY <2>1, Facts DEF IInv, CheckInv
    <3>. QED
      BY <1>1, <3>1 DEF Gen, BoundsPositive
  <2>2. ~Sealed(room'.check)
    BY <1>9 DEF Sealed
  <2>. QED
    BY <1>8, <1>9, <2>1, <2>2 DEF IInv, CheckInv
<1>12. SealedInv' /\ LinkInv' /\ StoredInv'
  BY <1>8 DEF IInv, SealedInv, LinkInv, StoredInv
<1>. QED
  BY <1>7, <1>8, <1>10, <1>11, <1>12 DEF IInv

\* The first key check of a generation is its only one.
LEMMA SetKeyCheckKept ==
  ASSUME IInv, BoundsPositive, NEW t \in Tab, SetKeyCheck(t)
  PROVE  IInv'
<1>1. GoodTab(sealed, tab[t]) /\ tab[t] \in Tabs /\ room.gen \in Gen
  BY Facts
<1>2. PICK d \in Dialogs : d = tab[t].dialog
  BY <1>1 DEF Tabs
<1>3. PICK e : e = Seal(d.secret, CheckPlace(d.gen))
  OBVIOUS
<1>4. d.stage = "minted" /\ UNCHANGED <<minted, known, snapshot, image, release>>
  BY <1>2 DEF SetKeyCheck
<1>5. CASE ~(room.gen = d.gen /\ ~Sealed(room.check))
  <2>1. PICK a \in {"conflict", "failed"} : tab' = [tab EXCEPT ![t].dialog.stage = a]
    BY <1>2, <1>5 DEF SetKeyCheck
  <2>2. PICK x : GoodTab(sealed, x) /\ tab' = [tab EXCEPT ![t] = x]
    BY <1>2, <1>4, <2>1, StageSet
  <2>3. room' = room /\ sealed' = sealed
    BY <1>2, <1>5 DEF SetKeyCheck
  <2>. QED
    BY <1>4, <2>2, <2>3, Facts, OneTab
<1>6. CASE room.gen = d.gen /\ ~Sealed(room.check)
  <2>1. PICK a \in {"stored", "failed"} : tab' = [tab EXCEPT ![t].dialog.stage = a]
    BY <1>2, <1>6 DEF SetKeyCheck
  <2>2. room' = [room EXCEPT !.check = e] /\ sealed' = sealed \union {e}
    BY <1>2, <1>3, <1>6 DEF SetKeyCheck
  <2>3. PICK more : more = sealed \union {e}
    OBVIOUS
  <2>4. Proved(more, d.secret, d.gen) /\ sealed \subseteq more /\ sealed' = more
    BY <1>3, <2>2, <2>3 DEF Proved
  <2>5. PICK x : GoodTab(more, x) /\ tab' = [tab EXCEPT ![t] = x]
    BY <1>2, <1>4, <2>1, <2>4, StageSet
  <2>6. tab' \in [Tab -> Tabs] /\ \A u \in Tab : GoodTab(more, tab'[u])
    BY <2>4, <2>5, Grows DEF IInv, GoodTab
  <2>7. room'.gen = room.gen /\ room'.check = e
        /\ room' \in [gen : Gen, check : more \union {NoSeal}]
    BY <2>2, <2>3 DEF IInv, Shapes
  <2>8. TypeOK'
    BY <1>1, <1>4, <2>6, <2>7 DEF IInv, TypeOK, Tabs, Dialogs
  <2>9. Shapes'
    <3>1. /\ snapshot' \in [Gen -> [revision : 0..MaxRevision, seal : more \union {NoSeal}]]
          /\ image' \in [Gen -> [File -> more \union {NoSeal}]]
      BY <1>4, <2>4 DEF IInv, Shapes
    <3>. QED
      BY <2>4, <2>7, <3>1 DEF Shapes
  <2>10. d.secret \in Secrets /\ d.gen \in Gen
    BY <1>1, <1>6 DEF Dialogs, Secrets
  <2>11. SealedInv'
    <3>1. IsSeal(e)
      BY <1>3, <2>10, PlacesOf DEF IsSeal
    <3>. QED
      BY <2>3, <2>4, <3>1 DEF IInv, SealedInv, IsSeal
  <2>12. ASSUME NEW k \in Secrets, NEW g \in Gen, Proved(more, k, g)
         PROVE  \/ Proved(sealed, k, g) /\ g <= room.gen /\ g # room.gen
                \/ k = d.secret /\ g = room.gen
    <3>1. CASE Seal(k, CheckPlace(g)) = e
      <4>1. k = d.secret /\ CheckPlace(g) = CheckPlace(d.gen)
        BY <1>3, <3>1, SealInjective
      <4>. QED
        BY <1>6, <4>1, PlaceFields
    <3>2. CASE Proved(sealed, k, g)
      <4>1. g <= room.gen /\ (g = room.gen => room.check = Seal(k, CheckPlace(g)))
        BY <3>2 DEF IInv, CheckInv
      <4>. QED
        BY <1>6, <3>2, <4>1, SealFields
    <3>. QED
      BY <2>3, <2>12, <3>1, <3>2 DEF Proved
  <2>13. CheckInv'
    <3>1. ASSUME NEW k \in Secrets, NEW g \in Gen, Proved(more, k, g)
          PROVE  g <= room.gen /\ (g = room.gen => e = Seal(k, CheckPlace(g)))
      BY <1>1, <1>3, <1>6, <2>12, <3>1 DEF Gen
    <3>2. ASSUME NEW k \in Secrets, NEW l \in Secrets, NEW g \in Gen,
                 Proved(more, k, g), Proved(more, l, g)
          PROVE  k = l
      BY <2>12, <3>2 DEF IInv, CheckInv
    <3>3. e = Seal(d.secret, CheckPlace(room.gen)) /\ d.secret \in Secrets
      BY <1>3, <1>6, <2>10
    <3>. QED
      BY <2>4, <2>7, <3>1, <3>2, <3>3 DEF CheckInv
  <2>14. LinkInv' /\ StoredInv'
    BY <1>4, <2>4, Grows DEF IInv, LinkInv, StoredInv
  <2>. QED
    BY <2>4, <2>6, <2>8, <2>9, <2>11, <2>13, <2>14 DEF IInv
<1>. QED
  BY <1>5, <1>6

\* What is sealed for another place proves no key.
LEMMA SealedMore ==
  ASSUME IInv, NEW k \in Secrets, NEW p \in Places, p.format # "keycheck",
         sealed' = sealed \union {Seal(k, p)}, UNCHANGED <<room, minted, tab, known, release>>
  PROVE  /\ \A l, g : Proved(sealed', l, g) <=> Proved(sealed, l, g)
         /\ SealedInv' /\ CheckInv' /\ LinkInv' /\ sealed \subseteq sealed'
         /\ tab' \in [Tab -> Tabs] /\ \A t \in Tab : GoodTab(sealed', tab'[t])
         /\ room' \in [gen : Gen, check : sealed' \union {NoSeal}]
<1>1. \A l, g : Proved(sealed', l, g) <=> Proved(sealed, l, g)
  BY ChecksApart DEF Proved
<1>2. SealedInv'
  <2>1. IsSeal(Seal(k, p))
    BY DEF IsSeal
  <2>. QED
    BY <2>1 DEF IInv, SealedInv, IsSeal
<1>3. CheckInv' /\ LinkInv'
  BY <1>1 DEF IInv, CheckInv, LinkInv
<1>4. \A t \in Tab : GoodTab(sealed', tab'[t])
  <2>1. \A t \in Tab : GoodTab(sealed, tab[t])
    BY Facts
  <2>2. \A x : GoodTab(sealed, x) => GoodTab(sealed', x)
    BY Grows
  <2>. QED
    BY <2>1, <2>2
<1>. QED
  BY <1>1, <1>2, <1>3, <1>4 DEF IInv, Shapes

\* A live session has proved its key.
LEMMA LiveProved ==
  ASSUME IInv, BoundsPositive, NEW t \in Tab, Live(t)
  PROVE  /\ tab[t].key \in Secrets /\ tab[t].session.gen \in Gen
         /\ tab[t].session.protocol \in 1..MaxRelease
         /\ Proved(sealed, tab[t].key, tab[t].session.gen)
<1>1. GoodTab(sealed, tab[t]) /\ tab[t] \in Tabs
  BY Facts
<1>2. /\ tab[t].session.protocol # 0 /\ Proved(sealed, tab[t].key, tab[t].session.gen)
      /\ tab[t].session.gen # 0
  BY <1>1 DEF GoodTab, Live
<1>3. /\ tab[t].key \in 0..MaxSecrets /\ tab[t].session.gen \in 0..MaxGen
      /\ tab[t].session.protocol \in 0..MaxRelease
  BY <1>1 DEF Tabs
<1>4. tab[t].session.gen \in 1..MaxGen /\ tab[t].session.protocol \in 1..MaxRelease
  BY <1>2, <1>3 DEF BoundsPositive
<1>. QED
  BY <1>2, <1>3, <1>4 DEF Gen, Secrets

LEMMA SaveSnapshotKept ==
  ASSUME IInv, BoundsPositive, NEW t \in Tab, SaveSnapshot(t)
  PROVE  IInv'
<1>1. PICK g \in Gen : g = tab[t].session.gen
  BY LiveProved DEF SaveSnapshot
<1>2. PICK k \in Secrets : k = tab[t].key
  BY LiveProved DEF SaveSnapshot
<1>3. Proved(sealed, k, g)
  BY <1>1, <1>2, LiveProved DEF SaveSnapshot
<1>4. PICK r \in 1..MaxRevision : r = snapshot[g].revision + 1
  BY <1>1 DEF SaveSnapshot, IInv, Shapes, BoundsPositive
<1>5. PICK p \in Places : p = SnapshotPlace(g, r)
  BY PlacesOf
<1>6. PICK e : e = Seal(k, p)
  OBVIOUS
<1>7. /\ snapshot' = [snapshot EXCEPT ![g] = [revision |-> r, seal |-> e]]
      /\ sealed' = sealed \union {e}
      /\ UNCHANGED <<room, minted, tab, known, image, release>>
  BY <1>1, <1>2, <1>4, <1>5, <1>6 DEF SaveSnapshot
<1>8. p.format # "keycheck"
  BY <1>5, PlaceFields
<1>9. /\ \A l, h : Proved(sealed', l, h) <=> Proved(sealed, l, h)
      /\ SealedInv' /\ CheckInv' /\ LinkInv' /\ sealed \subseteq sealed'
      /\ tab' \in [Tab -> Tabs] /\ \A u \in Tab : GoodTab(sealed', tab'[u])
      /\ room' \in [gen : Gen, check : sealed' \union {NoSeal}]
  BY <1>6, <1>7, <1>8, SealedMore
<1>10. snapshot' \in [Gen -> [revision : 0..MaxRevision, seal : sealed' \union {NoSeal}]]
  <2>1. r \in 0..MaxRevision /\ e \in sealed'
    BY <1>7 DEF BoundsPositive
  <2>. QED
    BY <1>7, <1>9, <2>1 DEF IInv, Shapes
<1>11. Shapes'
  <2>1. image' \in [Gen -> [File -> sealed' \union {NoSeal}]]
    BY <1>7, <1>9 DEF IInv, Shapes
  <2>. QED
    BY <1>9, <1>10, <2>1 DEF Shapes
<1>12. TypeOK'
  BY <1>7, <1>9, <1>10 DEF IInv, TypeOK, Tabs, Dialogs
<1>13. StoredInv'
  <2>1. ASSUME NEW h \in Gen, Sealed(snapshot'[h].seal)
        PROVE  \E l \in Secrets : /\ Proved(sealed', l, h)
                  /\ snapshot'[h].seal = Seal(l, SnapshotPlace(h, snapshot'[h].revision))
    <3>1. CASE h = g
      <4>1. snapshot'[h].seal = e /\ snapshot'[h].revision = r
        BY <1>7, <3>1 DEF IInv, Shapes
      <4>. QED
        BY <1>3, <1>5, <1>6, <1>9, <3>1, <4>1
    <3>2. CASE h # g
      <4>1. snapshot'[h] = snapshot[h]
        BY <1>7, <3>2 DEF IInv, Shapes
      <4>2. PICK l \in Secrets : /\ Proved(sealed, l, h)
                /\ snapshot[h].seal = Seal(l, SnapshotPlace(h, snapshot[h].revision))
        BY <2>1, <4>1 DEF IInv, StoredInv
      <4>. QED
        BY <1>9, <4>1, <4>2
    <3>. QED
      BY <3>1, <3>2
  <2>2. \A h \in Gen, f \in File : Sealed(image'[h][f]) =>
          \E l \in Secrets : Proved(sealed', l, h) /\ image'[h][f] = Seal(l, ImagePlace(h, f))
    BY <1>7, <1>9 DEF IInv, StoredInv
  <2>. QED
    BY <2>1, <2>2 DEF StoredInv
<1>. QED
  BY <1>9, <1>11, <1>12, <1>13 DEF IInv

LEMMA PublishImageKept ==
  ASSUME IInv, BoundsPositive, NEW t \in Tab, NEW f \in File, PublishImage(t, f)
  PROVE  IInv'
<1>1. PICK g \in Gen : g = tab[t].session.gen
  BY LiveProved DEF PublishImage
<1>2. PICK k \in Secrets : k = tab[t].key
  BY LiveProved DEF PublishImage
<1>3. Proved(sealed, k, g)
  BY <1>1, <1>2, LiveProved DEF PublishImage
<1>4. PICK p \in Places : p = ImagePlace(g, f)
  BY PlacesOf
<1>5. PICK e : e = Seal(k, p)
  OBVIOUS
<1>6. /\ image' = [image EXCEPT ![g][f] = e] /\ sealed' = sealed \union {e}
      /\ UNCHANGED <<room, minted, tab, known, snapshot, release>>
  BY <1>1, <1>2, <1>4, <1>5 DEF PublishImage
<1>7. p.format # "keycheck"
  BY <1>4, PlaceFields
<1>8. /\ \A l, h : Proved(sealed', l, h) <=> Proved(sealed, l, h)
      /\ SealedInv' /\ CheckInv' /\ LinkInv' /\ sealed \subseteq sealed'
      /\ tab' \in [Tab -> Tabs] /\ \A u \in Tab : GoodTab(sealed', tab'[u])
      /\ room' \in [gen : Gen, check : sealed' \union {NoSeal}]
  BY <1>5, <1>6, <1>7, SealedMore
<1>9. /\ image' \in [Gen -> [File -> sealed' \union {NoSeal}]]
      /\ snapshot' \in [Gen -> [revision : 0..MaxRevision, seal : sealed' \union {NoSeal}]]
  BY <1>6, <1>8 DEF IInv, Shapes
<1>10. TypeOK' /\ Shapes'
  BY <1>6, <1>8, <1>9 DEF IInv, TypeOK, Shapes, Tabs, Dialogs
<1>11. StoredInv'
  <2>1. ASSUME NEW h \in Gen, NEW i \in File, Sealed(image'[h][i])
        PROVE  \E l \in Secrets : Proved(sealed', l, h) /\ image'[h][i] = Seal(l, ImagePlace(h, i))
    <3>1. CASE h = g /\ i = f
      <4>1. image'[h][i] = e
        BY <1>6, <3>1 DEF IInv, Shapes
      <4>. QED
        BY <1>3, <1>4, <1>5, <1>8, <3>1, <4>1
    <3>2. CASE ~(h = g /\ i = f)
      <4>1. image'[h][i] = image[h][i]
        BY <1>6, <3>2 DEF IInv, Shapes
      <4>2. PICK l \in Secrets : Proved(sealed, l, h) /\ image[h][i] = Seal(l, ImagePlace(h, i))
        BY <2>1, <4>1 DEF IInv, StoredInv
      <4>. QED
        BY <1>8, <4>1, <4>2
    <3>. QED
      BY <3>1, <3>2
  <2>2. \A h \in Gen : Sealed(snapshot'[h].seal) =>
          \E l \in Secrets : /\ Proved(sealed', l, h)
            /\ snapshot'[h].seal = Seal(l, SnapshotPlace(h, snapshot'[h].revision))
    BY <1>6, <1>8 DEF IInv, StoredInv
  <2>. QED
    BY <2>1, <2>2 DEF StoredInv
<1>. QED
  BY <1>8, <1>10, <1>11 DEF IInv

LEMMA SendFrameKept ==
  ASSUME IInv, BoundsPositive, NEW t \in Tab, NEW c \in Channels, SendFrame(t, c)
  PROVE  IInv'
<1>1. PICK k \in Secrets, p \in Places :
        /\ k = tab[t].key
        /\ p = FramePlace(tab[t].session.gen, tab[t].session.protocol, c)
  BY LiveProved, PlacesOf DEF SendFrame
<1>2. /\ sealed' = sealed \union {Seal(k, p)}
      /\ UNCHANGED <<room, minted, tab, known, snapshot, image, release>>
  BY <1>1 DEF SendFrame
<1>3. p.format # "keycheck"
  BY <1>1, PlaceFields
<1>4. /\ \A l, h : Proved(sealed', l, h) <=> Proved(sealed, l, h)
      /\ SealedInv' /\ CheckInv' /\ LinkInv' /\ sealed \subseteq sealed'
      /\ tab' \in [Tab -> Tabs] /\ \A u \in Tab : GoodTab(sealed', tab'[u])
      /\ room' \in [gen : Gen, check : sealed' \union {NoSeal}]
  BY <1>2, <1>3, SealedMore
<1>5. /\ image' \in [Gen -> [File -> sealed' \union {NoSeal}]]
      /\ snapshot' \in [Gen -> [revision : 0..MaxRevision, seal : sealed' \union {NoSeal}]]
  BY <1>2, <1>4 DEF IInv, Shapes
<1>6. TypeOK' /\ Shapes'
  BY <1>2, <1>4, <1>5 DEF IInv, TypeOK, Shapes, Tabs, Dialogs
<1>7. StoredInv'
  BY <1>2, <1>4 DEF IInv, StoredInv
<1>. QED
  BY <1>4, <1>6, <1>7 DEF IInv

LEMMA DeployKept ==
  ASSUME IInv, BoundsPositive, Deploy
  PROVE  IInv'
<1>1. UNCHANGED <<room, minted, tab, known, snapshot, image, sealed>>
  BY DEF Deploy
<1>2. release' \in 1..MaxRelease
  BY Facts DEF Deploy, BoundsPositive
<1>3. TypeOK' /\ Shapes' /\ SealedInv' /\ CheckInv' /\ LinkInv' /\ StoredInv'
  BY <1>1, <1>2 DEF IInv, TypeOK, Shapes, SealedInv, CheckInv, LinkInv, StoredInv
<1>. QED
  BY <1>1, <1>3 DEF IInv

-----------------------------------------------------------------------------
(* The invariant.                                                          *)

LEMMA IInvInit ==
  ASSUME BoundsPositive, Init
  PROVE  IInv
<1>1. NoSession \in [gen : 0..MaxGen, protocol : 0..MaxRelease] /\ NoSession.gen = 0
      /\ 0 \in 0..MaxSecrets /\ 0 \in 0..MaxGen
  BY DEF NoSession, BoundsPositive
<1>2. PICK x : x = [key |-> 0, entered |-> FALSE, dialog |-> NoDialog, join |-> 0,
                    session |-> NoSession]
  OBVIOUS
<1>3. x \in Tabs /\ x.dialog = NoDialog /\ x.join = 0 /\ x.session = NoSession
  BY <1>1, <1>2, NoDialogGood DEF Tabs
<1>4. GoodTab(sealed, x)
  BY <1>1, <1>3, NoDialogGood DEF GoodTab
<1>5. tab = [t \in Tab |-> x]
  BY <1>2 DEF Init
<1>6. tab \in [Tab -> Tabs] /\ \A t \in Tab : GoodTab(sealed, tab[t])
  BY <1>3, <1>4, <1>5
<1>7. room = [gen |-> 1, check |-> NoSeal] /\ 1 \in Gen
  BY DEF Init, Gen, BoundsPositive
<1>8. snapshot \in [Gen -> [revision : 0..MaxRevision, seal : sealed \union {NoSeal}]]
  <2>1. 0 \in 0..MaxRevision
    BY DEF BoundsPositive
  <2>. QED
    BY <2>1 DEF Init
<1>9. TypeOK
  BY <1>6, <1>7, <1>8 DEF Init, TypeOK, Tabs, Dialogs, BoundsPositive
<1>10. Shapes
  BY <1>7, <1>8 DEF Init, Shapes
<1>11. SealedInv /\ LinkInv
  BY DEF Init, SealedInv, LinkInv
<1>12. CheckInv
  BY <1>7 DEF Init, CheckInv, Proved, Sealed
<1>13. StoredInv
  BY DEF Init, StoredInv, Sealed
<1>. QED
  BY <1>6, <1>9, <1>10, <1>11, <1>12, <1>13 DEF IInv

LEMMA IInvStep ==
  ASSUME IInv, BoundsPositive, [Next]_keyVars
  PROVE  IInv'
<1>1. CASE UNCHANGED keyVars
  <2>1. UNCHANGED <<room, minted, tab, known, snapshot, image, sealed, release>>
    BY <1>1 DEF keyVars
  <2>2. TypeOK' /\ Shapes' /\ SealedInv' /\ CheckInv' /\ LinkInv' /\ StoredInv'
    BY <2>1 DEF IInv, TypeOK, Shapes, SealedInv, CheckInv, LinkInv, StoredInv
  <2>. QED
    BY <2>1, <2>2 DEF IInv
<1>2. CASE Deploy
  BY <1>2, DeployKept
<1>3. ASSUME NEW t \in Tab,
             \/ CreateRoom(t) \/ RotateGeneration(t) \/ MintKey(t) \/ SetKeyCheck(t)
             \/ Settle(t) \/ LeaveRoom(t) \/ Verify(t) \/ Join(t) \/ EndSession(t)
             \/ SaveSnapshot(t)
             \/ \E l \in known : FollowLink(t, l.secret)
             \/ \E f \in File : PublishImage(t, f)
             \/ \E c \in Channels : SendFrame(t, c)
      PROVE  IInv'
  BY <1>3, CreateRoomKept, RotateGenerationKept, MintKeyKept, SetKeyCheckKept, SettleKept,
     LinkKept, VerifyKept, SessionKept, SaveSnapshotKept, PublishImageKept, SendFrameKept
<1>. QED
  BY <1>1, <1>2, <1>3 DEF Next

\* Whatever was sealed, proved, linked and stored in a room hangs together, for any number
\* of tabs, secrets, generations, revisions and releases.
THEOREM Inductive ==
  ASSUME BoundsPositive
  PROVE  Spec => []IInv
<1>1. Init => IInv
  BY IInvInit
<1>2. IInv /\ [Next]_keyVars => IInv'
  BY IInvStep
<1>. QED
  BY <1>1, <1>2, PTL DEF Spec

-----------------------------------------------------------------------------
(* What it gives.                                                          *)

\* Type correctness of a room and of its tabs.
THEOREM TypeCorrect ==
  ASSUME BoundsPositive
  PROVE  Spec => []TypeOK
<1>1. IInv => TypeOK
  BY DEF IInv
<1>. QED
  BY <1>1, Inductive, PTL

\* The key a session proved is the one all that is stored for its generation was sealed with.
LEMMA AgreeNow ==
  ASSUME IInv, BoundsPositive
  PROVE  KeysAgree
<1>1. ASSUME NEW t \in Tab, Live(t), NEW g \in Gen, g = tab[t].session.gen,
             NEW k \in Secrets, k = tab[t].key
      PROVE  /\ \E e \in sealed : Opens(k, CheckPlace(g), e)
             /\ Sealed(snapshot[g].seal)
                  => Opens(k, SnapshotPlace(g, snapshot[g].revision), snapshot[g].seal)
             /\ \A f \in File : Sealed(image[g][f]) => Opens(k, ImagePlace(g, f), image[g][f])
  <2>1. Proved(sealed, k, g)
    BY <1>1, LiveProved
  <2>2. \A l \in Secrets : Proved(sealed, l, g) => l = k
    BY <2>1 DEF IInv, CheckInv
  <2>3. \E e \in sealed : Opens(k, CheckPlace(g), e)
    BY <2>1, SealOpens DEF Proved
  <2>4. Sealed(snapshot[g].seal)
          => Opens(k, SnapshotPlace(g, snapshot[g].revision), snapshot[g].seal)
    BY <2>2, SealOpens DEF IInv, StoredInv
  <2>5. \A f \in File : Sealed(image[g][f]) => Opens(k, ImagePlace(g, f), image[g][f])
    BY <2>2, SealOpens DEF IInv, StoredInv
  <2>. QED
    BY <2>3, <2>4, <2>5
<1>2. ASSUME NEW l \in known
      PROVE  \E e \in sealed : Opens(l.secret, CheckPlace(l.gen), e)
  <2>1. Seal(l.secret, CheckPlace(l.gen)) \in sealed
    BY Facts DEF Proved
  <2>. QED
    BY <2>1, SealOpens
<1>. QED
  BY <1>1, <1>2, LiveProved DEF KeysAgree

\* What opens for a session is what was sealed for that very place.
LEMMA OpensNow ==
  ASSUME IInv, BoundsPositive
  PROVE  OpensItsOwn
<1>1. ASSUME NEW t \in Tab, Live(t), NEW p \in Places, NEW e \in sealed,
             Opens(tab[t].key, p, e)
      PROVE  e.place = p
  <2>1. PICK k \in Secrets, q \in Places : e = Seal(k, q)
    BY DEF IInv, SealedInv, IsSeal
  <2>2. p = q
    BY <1>1, <2>1, OpensOnly
  <2>. QED
    BY <2>1, <2>2, SealFields
<1>2. ASSUME NEW t \in Tab, Live(t)
      PROVE  {FramePlace(tab[t].session.gen, tab[t].session.protocol, c) : c \in Channels}
               \union {SnapshotPlace(tab[t].session.gen, r) : r \in 1..MaxRevision}
               \union {ImagePlace(tab[t].session.gen, f) : f \in File}
               \union {CheckPlace(tab[t].session.gen)} \subseteq Places
  BY <1>2, LiveProved, PlacesOf
<1>. QED
  BY <1>1, <1>2 DEF OpensItsOwn

\* Every session opens all that the store holds for its generation, every link handed out
\* passes the key check of its generation, and nothing sealed for one place opens in another
\* (use-collaboration-room.ts:440, collaboration-room-dialog.tsx:191, asset-payload.ts:74).
THEOREM KeysKept ==
  ASSUME BoundsPositive
  PROVE  Spec => []KeysSound
<1>1. IInv => KeysSound
  BY AgreeNow, OpensNow DEF KeysSound
<1>. QED
  BY <1>1, Inductive, PTL

-----------------------------------------------------------------------------
(***************************************************************************)
(* AssetTransfer: the images that are sealed under those keys, and the     *)
(* report that none of them can be read.                                   *)
(***************************************************************************)
CONSTANTS Asset, MaxDownloads, MaxUploads, MaxFetches, MaxTurns
VARIABLES assetRoom, canvas, ids, fetches, requests, down, up, verdict, assetTab, seen
Assets == INSTANCE AssetTransfer WITH File <- Asset, room <- assetRoom, tab <- assetTab

LEMMA AssetsCount ==
  ASSUME NEW S
  PROVE  /\ Assets!Cardinality(S) = Cardinality(S)
         /\ Assets!IsFiniteSet(S) = IsFiniteSet(S)
BY DEF Assets!Cardinality, Cardinality, Assets!IsFiniteSet, IsFiniteSet

Retries == [Asset -> [attempts : 0..MaxDownloads, early : BOOLEAN]]
Downs == [retry : Retries, queue : SUBSET Asset, timer : BOOLEAN]
Requests == [own : Nat, joinable : SUBSET Asset, claims : SUBSET Nat]
Verdicts == [fence : Nat, remaining : Nat, opened : BOOLEAN, reported : BOOLEAN]
Seens == [asked : SUBSET Asset, opened : SUBSET Asset, cohort : SUBSET Nat]
AssetTabs == [alive : BOOLEAN, linked : BOOLEAN, flush : BOOLEAN, turns : Nat]

(* The steps of a download's schedule stay within its type.                 *)
LEMMA DeferIsDown ==
  ASSUME Assets!AssetBounds, NEW d \in Downs, NEW S \in SUBSET Asset
  PROVE  Assets!Defer(d, S) \in Downs
<1>. DEFINE tries(f) == d.retry[f].attempts + 1
            R == [f \in Asset |-> IF f \notin S THEN d.retry[f]
                        ELSE [attempts |-> IF tries(f) > MaxDownloads
                                           THEN MaxDownloads ELSE tries(f),
                              early |-> TRUE]]
<1>1. ASSUME NEW f \in Asset PROVE d.retry[f] \in [attempts : 0..MaxDownloads, early : BOOLEAN]
  BY DEF Downs, Retries
<1>2. R \in Retries
  BY <1>1 DEF Retries, Assets!AssetBounds
<1>3. Assets!Defer(d, S)
      = [d EXCEPT !.retry = R, !.queue = @ \union {f \in S : tries(f) < MaxDownloads}]
  BY DEF Assets!Defer
<1>. QED
  BY <1>2, <1>3 DEF Downs

LEMMA ForgetIsDown ==
  ASSUME Assets!AssetBounds, NEW d \in Downs, NEW f \in Asset
  PROVE  Assets!Forget(d, f) \in Downs
<1>1. Assets!Fresh \in [attempts : 0..MaxDownloads, early : BOOLEAN]
  BY DEF Assets!Fresh, Assets!AssetBounds
<1>2. [d.retry EXCEPT ![f] = Assets!Fresh] \in Retries
  BY <1>1 DEF Downs, Retries
<1>3. Assets!Forget(d, f)
      = [d EXCEPT !.retry = [d.retry EXCEPT ![f] = Assets!Fresh], !.queue = @ \ {f}]
  BY DEF Assets!Forget, Downs
<1>. QED
  BY <1>2, <1>3 DEF Downs

(* What the lookups are: the running ones, and those behind the fence.      *)
LEMMA RunningIsFinite ==
  ASSUME Assets!Shapes
  PROVE  /\ Assets!Running \subseteq 1..Len(fetches) /\ Assets!IsFiniteSet(Assets!Running)
         /\ Assets!Fenced \subseteq Assets!Running
         /\ Assets!IsFiniteSet(Assets!Fenced) /\ Assets!Cardinality(Assets!Fenced) \in Nat
         /\ DOMAIN fetches = 1..Len(fetches) /\ Len(fetches) \in Nat
<1>1. DOMAIN fetches = 1..Len(fetches) /\ Len(fetches) \in Nat
  BY DEF Assets!Shapes
<1>2. Assets!IsFiniteSet(1..Len(fetches))
  BY <1>1, FS_Interval, AssetsCount
<1>3. Assets!Running \subseteq 1..Len(fetches) /\ Assets!Fenced \subseteq Assets!Running
  BY <1>1 DEF Assets!Running, Assets!Fenced
<1>4. Assets!IsFiniteSet(Assets!Running)
  BY <1>2, <1>3, FS_Subset, AssetsCount
<1>5. Assets!IsFiniteSet(Assets!Fenced)
  BY <1>3, <1>4, FS_Subset, AssetsCount
<1>6. Assets!Cardinality(Assets!Fenced) \in Nat
  BY <1>5, FS_CardinalityType, AssetsCount
<1>. QED
  BY <1>1, <1>3, <1>4, <1>5, <1>6

(* A request asks for files only, and starts at most one lookup.            *)
LEMMA RequestShapes ==
  ASSUME Assets!AssetBounds, Assets!Shapes, NEW S \in SUBSET Asset, NEW d \in Downs, NEW others,
         others \subseteq requests, Assets!Request(S, d, others)
  PROVE  /\ \/ fetches' = fetches
            \/ \E own \in SUBSET Asset :
                 fetches' = Append(fetches, [files |-> own, left |-> {}, step |-> "lookup"])
         /\ requests' \subseteq Requests /\ down' \in Downs
<1>. DEFINE e == [d EXCEPT !.queue = @ \union Assets!Requeued(S, d)]
            own == Assets!Wanted(S, d)
            joins == Assets!Joinable(S)
            claims == IF own # {} THEN {}
                            ELSE {n \in Assets!Running : fetches[n].files \cap joins # {}}
<1>1. own \in SUBSET Asset /\ joins \in SUBSET Asset /\ Assets!Requeued(S, d) \in SUBSET Asset
  BY DEF Assets!Wanted, Assets!Joinable, Assets!Requeued
<1>2. requests \subseteq Requests
  BY DEF Assets!Shapes, Requests
<1>3. claims \in SUBSET Nat /\ Len(fetches) \in Nat
  BY RunningIsFinite
<1>4. e \in Downs
  BY <1>1 DEF Downs
<1>5. Assets!Arm(e) \in Downs
  BY <1>4 DEF Assets!Arm, Downs
<1>6. /\ fetches' = IF own = {} THEN fetches
                ELSE Append(fetches, [files |-> own, left |-> {}, step |-> "lookup"])
      /\ IF own \union joins = {} THEN requests' = others /\ down' = Assets!Arm(e)
         ELSE /\ requests' = others \union
                   {[own |-> IF own = {} THEN 0 ELSE Len(fetches) + 1, joinable |-> joins,
                     claims |-> claims]}
              /\ down' = e
  BY DEF Assets!Request
<1>. HIDE DEF e, own, joins, claims
<1>7. fetches' = fetches \/ \E o \in SUBSET Asset :
                 fetches' = Append(fetches, [files |-> o, left |-> {}, step |-> "lookup"])
  BY <1>1, <1>6
<1>8. [own |-> IF own = {} THEN 0 ELSE Len(fetches) + 1, joinable |-> joins,
                     claims |-> claims] \in Requests
  BY <1>1, <1>3 DEF Requests
<1>. QED
  BY <1>2, <1>4, <1>5, <1>6, <1>7, <1>8

(* A new lookup is behind no fence.                                         *)
LEMMA NewLookupIsApart ==
  ASSUME Assets!Shapes, Assets!VerdictInv, verdict' = verdict, seen'.opened = seen.opened,
         seen'.cohort = seen.cohort,
         NEW own \in SUBSET Asset,
         fetches' = Append(fetches, [files |-> own, left |-> {}, step |-> "lookup"])
  PROVE  fetches' \in Seq(Assets!Fetch) /\ Assets!VerdictInv'
<1>. DEFINE r == [files |-> own, left |-> {}, step |-> "lookup"]
<1>1. r \in Assets!Fetch /\ fetches \in Seq(Assets!Fetch)
  BY DEF Assets!Fetch, Assets!Shapes
<1>2. /\ fetches' \in Seq(Assets!Fetch) /\ Len(fetches') = Len(fetches) + 1
      /\ \A n \in 1..Len(fetches) : fetches'[n] = fetches[n]
      /\ fetches'[Len(fetches) + 1] = r
      /\ DOMAIN fetches' = 1..(Len(fetches) + 1) /\ DOMAIN fetches = 1..Len(fetches)
      /\ Len(fetches) \in Nat
  BY <1>1
<1>3. verdict.fence \in Nat
  BY DEF Assets!Shapes
<1>4. CASE verdict.fence <= Len(fetches)
  <2>1. Assets!Fenced' = Assets!Fenced
    BY <1>2, <1>3, <1>4 DEF Assets!Fenced, Assets!Running
  <2>. QED
    BY <1>2, <1>3, <1>4, <2>1 DEF Assets!VerdictInv
<1>5. CASE verdict.fence = Assets!NoFence
  BY <1>2, <1>5 DEF Assets!VerdictInv
<1>. QED
  BY <1>2, <1>4, <1>5 DEF Assets!VerdictInv

(* What leaves the fence, the lookups' steps and the history alone.         *)
LEMMA SameVerdict ==
  ASSUME Assets!VerdictInv, UNCHANGED <<fetches, verdict>>, seen'.opened = seen.opened,
         seen'.cohort = seen.cohort
  PROVE  Assets!VerdictInv'
<1>1. Assets!Running' = Assets!Running
  BY DEF Assets!Running
<1>2. Assets!Fenced' = Assets!Fenced
  BY <1>1 DEF Assets!Fenced
<1>. QED
  BY <1>2 DEF Assets!VerdictInv

LEMMA RequestKeeps ==
  ASSUME Assets!AssetBounds, Assets!Shapes, Assets!VerdictInv,
         verdict' = verdict, seen'.opened = seen.opened, seen'.cohort = seen.cohort,
         NEW S \in SUBSET Asset, NEW d \in Downs, NEW others,
         others \subseteq requests, Assets!Request(S, d, others)
  PROVE  /\ fetches' \in Seq(Assets!Fetch) /\ Assets!VerdictInv'
         /\ requests' \subseteq Requests /\ down' \in Downs
<1>1. CASE fetches' = fetches
  BY <1>1, SameVerdict, RequestShapes DEF Assets!Shapes
<1>. QED
  BY <1>1, RequestShapes, NewLookupIsApart

LEMMA AssetsStart ==
  ASSUME Assets!AssetBounds, Assets!Init
  PROVE  Assets!AssetInv
<1>1. PICK k \in 0..MaxFetches :
        fetches = [n \in 1..k |-> [files |-> {}, left |-> {}, step |-> "done"]]
  BY DEF Assets!Init
<1>2. fetches \in Seq(Assets!Fetch) /\ \A n \in DOMAIN fetches : fetches[n].left = {}
  <2>. DEFINE r == [files |-> {}, left |-> {}, step |-> "done"]
  <2>1. r \in Assets!Fetch /\ k \in Nat
    BY DEF Assets!Fetch, Assets!AssetBounds
  <2>2. fetches = [n \in 1..k |-> r]
    BY <1>1
  <2>. HIDE DEF r
  <2>3. fetches \in Seq(Assets!Fetch)
    BY <2>1, <2>2
  <2>. QED
    BY <2>2, <2>3 DEF r
<1>3. Assets!Fresh \in [attempts : 0..MaxDownloads, early : BOOLEAN]
  BY DEF Assets!Fresh, Assets!AssetBounds
<1>4. PICK t \in 0..MaxTurns :
        assetTab = [alive |-> TRUE, linked |-> TRUE, flush |-> FALSE, turns |-> t]
  BY DEF Assets!Init
<1>5. assetTab \in AssetTabs
  BY <1>4 DEF AssetTabs, Assets!AssetBounds
<1>6. /\ requests = {}
      /\ down = [retry |-> [f \in Asset |-> Assets!Fresh], queue |-> {}, timer |-> FALSE]
      /\ verdict = [fence |-> Assets!NoFence, remaining |-> 0, opened |-> FALSE, reported |-> FALSE]
      /\ seen = [asked |-> {}, opened |-> {}, cohort |-> {}]
  BY DEF Assets!Init
<1>7. [f \in Asset |-> Assets!Fresh] \in Retries
  BY <1>3 DEF Retries
<1>8. down \in Downs
  BY <1>6, <1>7 DEF Downs
<1>9. verdict \in Verdicts /\ seen \in Seens
  BY <1>6 DEF Verdicts, Seens, Assets!NoFence
<1>10. Assets!Shapes
  BY <1>2, <1>5, <1>6, <1>8, <1>9 DEF Assets!Shapes, AssetTabs, Downs, Retries, Verdicts, Seens
<1>11. Assets!VerdictInv
  BY <1>2, <1>6 DEF Assets!VerdictInv
<1>. QED
  BY <1>10, <1>11 DEF Assets!AssetInv

(* What every step finds.                                                   *)
LEMMA AssetsFound ==
  ASSUME Assets!AssetBounds, Assets!AssetInv
  PROVE  /\ Assets!Shapes /\ (assetTab.alive => Assets!VerdictInv)
         /\ down \in Downs /\ assetTab \in AssetTabs /\ seen \in Seens /\ verdict \in Verdicts
         /\ requests \subseteq Requests /\ fetches \in Seq(Assets!Fetch)
BY DEF Assets!AssetInv, Assets!Shapes, Downs, Retries, AssetTabs, Seens, Verdicts, Requests

(* And what it must leave.                                                  *)
LEMMA AssetsLeft ==
  /\ down' \in Downs /\ assetTab' \in AssetTabs /\ seen' \in Seens /\ verdict' \in Verdicts
  /\ requests' \subseteq Requests /\ fetches' \in Seq(Assets!Fetch)
  => Assets!Shapes'
BY DEF Assets!Shapes, Downs, Retries, AssetTabs, Seens, Verdicts, Requests

LEMMA RequestsKeep ==
  ASSUME Assets!AssetBounds, Assets!AssetInv,
         \/ \E S \in SUBSET Asset : Assets!Asked(S)
         \/ Assets!RetryTimerFires
         \/ \E q \in requests : Assets!RequestGoesOn(q)
  PROVE  Assets!AssetInv'
<1>1. CASE \E S \in SUBSET Asset : Assets!Asked(S)
  <2>1. PICK S \in SUBSET Asset : Assets!Asked(S)
    BY <1>1
  <2>2. /\ assetTab.alive /\ Assets!Request(S, down, requests)
        /\ seen' = [seen EXCEPT !.asked = @ \union S] /\ UNCHANGED <<verdict, assetTab>>
    BY <2>1 DEF Assets!Asked
  <2>3. seen' \in Seens /\ seen'.opened = seen.opened /\ seen'.cohort = seen.cohort
    BY <2>2, AssetsFound DEF Seens
  <2>. QED
    BY <2>2, <2>3, AssetsFound, AssetsLeft, RequestKeeps DEF Assets!AssetInv
<1>2. CASE Assets!RetryTimerFires
  <2>. DEFINE due == down.queue \ Assets!Early(down.retry)
              d == [down EXCEPT !.timer = FALSE, !.queue = @ \ due]
  <2>1. assetTab.alive /\ Assets!Request(due, d, requests) /\ UNCHANGED <<verdict, assetTab, seen>>
    BY <1>2 DEF Assets!RetryTimerFires
  <2>2. due \in SUBSET Asset /\ d \in Downs
    BY AssetsFound DEF Downs
  <2>. HIDE DEF due, d
  <2>. QED
    BY <2>1, <2>2, AssetsFound, AssetsLeft, RequestKeeps DEF Assets!AssetInv
<1>3. CASE \E q \in requests : Assets!RequestGoesOn(q)
  <2>1. PICK q \in requests : Assets!RequestGoesOn(q)
    BY <1>3
  <2>. DEFINE waits == {n \in Assets!Running : fetches[n].files \intersect q.joinable # {}}
              rest == {f \in q.joinable : ~Assets!Settled(f)} \ Assets!Downloading
              next == [q EXCEPT !.own = 0, !.claims = waits]
  <2>2. /\ assetTab.alive /\ UNCHANGED <<verdict, assetTab, seen>>
        /\ \/ requests' = (requests \ {q}) \union {next} /\ UNCHANGED <<fetches, down>>
           \/ Assets!Request(rest, down, requests \ {q})
    BY <2>1 DEF Assets!RequestGoesOn
  <2>3. q \in Requests
    BY AssetsFound
  <2>4. rest \in SUBSET Asset /\ waits \in SUBSET Nat
    BY <2>3, AssetsFound, RunningIsFinite DEF Requests
  <2>5. next \in Requests
    BY <2>3, <2>4 DEF Requests
  <2>. HIDE DEF waits, rest, next
  <2>6. CASE requests' = (requests \ {q}) \union {next} /\ UNCHANGED <<fetches, down>>
    BY <2>2, <2>5, <2>6, AssetsFound, AssetsLeft, SameVerdict DEF Assets!AssetInv
  <2>7. CASE Assets!Request(rest, down, requests \ {q})
    BY <2>2, <2>4, <2>7, AssetsFound, AssetsLeft, RequestKeeps DEF Assets!AssetInv
  <2>. QED
    BY <2>2, <2>6, <2>7
<1>. QED
  BY <1>1, <1>2, <1>3

(* A lookup that changes as a lookup does while it runs.                    *)
LEMMA FetchGoesOn ==
  ASSUME Assets!Shapes, Assets!VerdictInv, NEW n \in DOMAIN fetches, NEW left \in SUBSET Asset,
         fetches[n].step # "done",
         fetches' = [fetches EXCEPT ![n] = [@ EXCEPT !.step = "opening", !.left = left]]
  PROVE  /\ fetches' \in Seq(Assets!Fetch) /\ Assets!Running' = Assets!Running
         /\ Len(fetches') = Len(fetches) /\ DOMAIN fetches' = DOMAIN fetches
         /\ \A m \in DOMAIN fetches' : fetches'[m].left # {} => fetches'[m].step = "opening"
<1>1. fetches \in Seq(Assets!Fetch) /\ fetches[n] \in Assets!Fetch
  BY DEF Assets!Shapes
<1>. DEFINE r == [fetches[n] EXCEPT !.step = "opening", !.left = left]
<1>2. r \in Assets!Fetch /\ r.step = "opening"
  BY <1>1 DEF Assets!Fetch
<1>. HIDE DEF r
<1>3. fetches' = [fetches EXCEPT ![n] = r]
  BY <1>1 DEF r
<1>4. /\ fetches' \in Seq(Assets!Fetch) /\ Len(fetches') = Len(fetches)
      /\ DOMAIN fetches' = DOMAIN fetches
      /\ \A m \in DOMAIN fetches : fetches'[m] = IF m = n THEN r ELSE fetches[m]
  BY <1>1, <1>2, <1>3
<1>5. Assets!Running' = Assets!Running
  BY <1>2, <1>4 DEF Assets!Running
<1>. QED
  BY <1>2, <1>4, <1>5 DEF Assets!VerdictInv

LEMMA LookupKeeps ==
  ASSUME Assets!AssetBounds, Assets!AssetInv, NEW n \in DOMAIN fetches, Assets!LookupAnswers(n)
  PROVE  Assets!AssetInv'
<1>. DEFINE S == fetches[n].files
            present == {f \in S : assetRoom[f] # "absent"}
<1>1. fetches[n] \in Assets!Fetch
  BY AssetsFound
<1>2. S \in SUBSET Asset /\ present \in SUBSET Asset /\ fetches[n].left \in SUBSET Asset
  BY <1>1 DEF Assets!Fetch
<1>3. /\ assetTab.alive /\ fetches[n].step = "lookup"
      /\ UNCHANGED <<requests, verdict, assetTab, seen>>
      /\ down' \in {Assets!Defer(down, S), down, Assets!Defer(down, S \ present)}
      /\ \/ fetches' = [fetches EXCEPT ![n].step = "opening"]
         \/ fetches' = [fetches EXCEPT ![n].step = "opening", ![n].left = present]
  BY DEF Assets!LookupAnswers
<1>4. \E left \in SUBSET Asset :
        fetches' = [fetches EXCEPT ![n] = [@ EXCEPT !.step = "opening", !.left = left]]
  <2>1. fetches[n] = [fetches[n] EXCEPT !.left = fetches[n].left]
    BY <1>1 DEF Assets!Fetch
  <2>2. [fetches EXCEPT ![n].step = "opening"]
         = [fetches EXCEPT ![n] = [@ EXCEPT !.step = "opening", !.left = fetches[n].left]]
    BY <1>1 DEF Assets!Fetch
  <2>3. [fetches EXCEPT ![n].step = "opening", ![n].left = present]
         = [fetches EXCEPT ![n] = [@ EXCEPT !.step = "opening", !.left = present]]
    BY AssetsFound
  <2>. QED
    BY <1>2, <1>3, <2>2, <2>3
<1>5. down' \in Downs
  BY <1>2, <1>3, AssetsFound, DeferIsDown
<1>6. /\ fetches' \in Seq(Assets!Fetch) /\ Assets!Running' = Assets!Running
      /\ Len(fetches') = Len(fetches) /\ DOMAIN fetches' = DOMAIN fetches
      /\ \A m \in DOMAIN fetches' : fetches'[m].left # {} => fetches'[m].step = "opening"
  BY <1>3, <1>4, AssetsFound, FetchGoesOn
<1>7. Assets!Fenced' = Assets!Fenced
  BY <1>3, <1>6 DEF Assets!Fenced
<1>8. Assets!VerdictInv'
  BY <1>3, <1>6, <1>7, AssetsFound DEF Assets!VerdictInv
<1>9. Assets!Shapes'
  BY <1>3, <1>5, <1>6, AssetsFound, AssetsLeft
<1>. QED
  BY <1>8, <1>9 DEF Assets!AssetInv

(* A record is opened: the fence is drawn with the cohort, or stays.        *)
LEMMA OpenedKeeps ==
  ASSUME Assets!AssetBounds, Assets!AssetInv,
         NEW n \in DOMAIN fetches, NEW f \in Asset, Assets!Opened(n, f)
  PROVE  Assets!AssetInv'
<1>1. fetches[n] \in Assets!Fetch /\ Assets!Shapes /\ Assets!VerdictInv /\ assetTab.alive
  BY AssetsFound DEF Assets!Opened
<1>2. /\ f \in fetches[n].left /\ fetches' = [fetches EXCEPT ![n].left = @ \ {f}]
      /\ UNCHANGED <<requests, assetTab>>
  BY DEF Assets!Opened
<1>3. fetches[n].step = "opening"
  BY <1>1, <1>2 DEF Assets!VerdictInv
<1>4. fetches' = [fetches EXCEPT ![n] = [@ EXCEPT !.step = "opening",
                                                 !.left = fetches[n].left \ {f}]]
  BY <1>1, <1>2, <1>3 DEF Assets!Fetch
<1>5. fetches[n].left \ {f} \in SUBSET Asset
  BY <1>1 DEF Assets!Fetch
<1>6. /\ fetches' \in Seq(Assets!Fetch) /\ Assets!Running' = Assets!Running
      /\ Len(fetches') = Len(fetches) /\ DOMAIN fetches' = DOMAIN fetches
      /\ \A m \in DOMAIN fetches' : fetches'[m].left # {} => fetches'[m].step = "opening"
  BY <1>1, <1>3, <1>4, <1>5, FetchGoesOn
<1>7. down' \in Downs
  <2>1. down' \in {Assets!Defer(down, {f}), Assets!Forget(down, f)}
    BY DEF Assets!Opened
  <2>. QED
    BY <2>1, AssetsFound, DeferIsDown, ForgetIsDown
<1>8. n \in Assets!Running /\ Assets!Running \subseteq 1..Len(fetches) /\ Len(fetches) \in Nat
  BY <1>1, <1>3, RunningIsFinite DEF Assets!Running
<1>9. CASE UNCHANGED <<verdict, seen>>
  <2>1. Assets!Fenced' = Assets!Fenced
    BY <1>6, <1>9 DEF Assets!Fenced
  <2>2. Assets!VerdictInv'
    BY <1>1, <1>6, <1>9, <2>1 DEF Assets!VerdictInv
  <2>. QED
    BY <1>2, <1>6, <1>7, <1>9, <2>2, AssetsFound, AssetsLeft DEF Assets!AssetInv
<1>10. CASE /\ verdict' = [verdict EXCEPT !.opened = TRUE]
            /\ seen' = [seen EXCEPT !.opened = @ \union {f}]
  <2>1. verdict' \in Verdicts /\ seen' \in Seens
    BY <1>10, AssetsFound DEF Verdicts, Seens
  <2>2. /\ verdict'.fence = verdict.fence /\ verdict'.remaining = verdict.remaining
        /\ verdict'.reported = verdict.reported /\ verdict'.opened
        /\ seen'.cohort = seen.cohort
    BY <1>10, AssetsFound DEF Verdicts, Seens
  <2>3. Assets!Fenced' = Assets!Fenced
    BY <1>6, <2>2 DEF Assets!Fenced
  <2>4. Assets!VerdictInv'
    BY <1>1, <1>6, <2>2, <2>3 DEF Assets!VerdictInv
  <2>. QED
    BY <1>2, <1>6, <1>7, <2>1, <2>4, AssetsFound, AssetsLeft DEF Assets!AssetInv
<1>11. CASE /\ verdict' = Assets!NoteUndecryptable
            /\ seen' = [seen EXCEPT !.cohort = IF @ = {} THEN Assets!Running ELSE @]
  <2>1. /\ seen'.opened = seen.opened
        /\ seen'.cohort = IF seen.cohort = {} THEN Assets!Running ELSE seen.cohort
    BY <1>11, AssetsFound DEF Seens
  <2>2. Assets!Running \in SUBSET Nat
    BY <1>8
  <2>3. seen' \in Seens
    BY <1>11, <2>2, AssetsFound DEF Seens
  <2>4. CASE verdict.fence # Assets!NoFence \/ verdict.opened \/ verdict.reported
    <3>1. verdict' = verdict
      BY <1>11, <2>4 DEF Assets!NoteUndecryptable
    <3>2. Assets!Fenced' = Assets!Fenced
      BY <1>6, <3>1 DEF Assets!Fenced
    <3>3. Assets!VerdictInv'
      BY <1>1, <1>6, <2>1, <2>4, <3>1, <3>2 DEF Assets!VerdictInv
    <3>. QED
      BY <1>2, <1>6, <1>7, <2>3, <3>1, <3>3, AssetsFound, AssetsLeft DEF Assets!AssetInv
  <2>5. CASE ~(verdict.fence # Assets!NoFence \/ verdict.opened \/ verdict.reported)
    <3>1. verdict' = [verdict EXCEPT !.fence = Len(fetches),
                                     !.remaining = Assets!Cardinality(Assets!Running)]
      BY <1>11, <2>5 DEF Assets!NoteUndecryptable
    <3>2. Assets!Cardinality(Assets!Running) \in Nat
      BY <1>1, RunningIsFinite, FS_CardinalityType, AssetsCount
    <3>3. /\ verdict' \in Verdicts /\ verdict'.fence = Len(fetches)
          /\ verdict'.remaining = Assets!Cardinality(Assets!Running)
          /\ verdict'.opened = verdict.opened
          /\ verdict'.reported = verdict.reported
      BY <1>8, <3>1, <3>2, AssetsFound DEF Verdicts
    <3>4. seen.cohort = {}
      BY <1>1, <2>5 DEF Assets!VerdictInv
    <3>5. Assets!Fenced' = Assets!Running
      BY <1>6, <1>8, <3>3 DEF Assets!Fenced
    <3>6. Len(fetches) # Assets!NoFence
      BY <1>8 DEF Assets!NoFence
    <3>7. Assets!VerdictInv'
      BY <1>1, <1>6, <1>8, <2>1, <2>5, <3>3, <3>4, <3>5, <3>6 DEF Assets!VerdictInv
    <3>. QED
      BY <1>2, <1>6, <1>7, <2>3, <3>3, <3>7, AssetsFound, AssetsLeft DEF Assets!AssetInv
  <2>. QED
    BY <2>4, <2>5
<1>. QED
  BY <1>9, <1>10, <1>11 DEF Assets!Opened

(* A lookup settles: one fewer behind the fence, if it was behind it.       *)
LEMMA SettlesWhat ==
  ASSUME Assets!AssetBounds, Assets!AssetInv, NEW n \in DOMAIN fetches, Assets!FetchSettles(n)
  PROVE  /\ fetches' \in Seq(Assets!Fetch) /\ Len(fetches') = Len(fetches)
         /\ DOMAIN fetches' = DOMAIN fetches /\ DOMAIN fetches = 1..Len(fetches)
         /\ \A m \in DOMAIN fetches' : fetches'[m].left # {} => fetches'[m].step = "opening"
         /\ Assets!Running' = Assets!Running \ {n} /\ n \in Assets!Running
         /\ verdict' \in Verdicts /\ verdict'.fence = verdict.fence
         /\ verdict'.opened <=> verdict.opened
         /\ Assets!Fenced' = IF n <= verdict.fence THEN Assets!Fenced \ {n} ELSE Assets!Fenced
         /\ verdict.fence # Assets!NoFence
              => verdict'.remaining = Assets!Cardinality(Assets!Fenced')
         /\ verdict'.reported <=> \/ verdict.reported
                                  \/ /\ verdict.fence # Assets!NoFence /\ ~verdict.opened
                                     /\ verdict'.remaining = 0
         /\ assetTab.alive /\ Assets!VerdictInv /\ UNCHANGED <<requests, down, assetTab, seen>>
<1>1. /\ assetTab.alive /\ UNCHANGED <<requests, down, assetTab, seen>>
      /\ fetches[n].step = "opening" /\ fetches[n].left = {}
      /\ fetches' = [fetches EXCEPT ![n] = [@ EXCEPT !.step = "done", !.files = {}]]
  BY DEF Assets!FetchSettles
<1>2. Assets!VerdictInv /\ Assets!Shapes /\ fetches[n] \in Assets!Fetch
  BY <1>1, AssetsFound
<1>. DEFINE r == [fetches[n] EXCEPT !.step = "done", !.files = {}]
<1>3. r \in Assets!Fetch /\ r.step = "done" /\ r.left = {}
  BY <1>1, <1>2 DEF Assets!Fetch
<1>4. fetches' = [fetches EXCEPT ![n] = r]
  BY <1>1
<1>. HIDE DEF r
<1>5. /\ fetches' \in Seq(Assets!Fetch) /\ Len(fetches') = Len(fetches)
      /\ DOMAIN fetches' = DOMAIN fetches /\ DOMAIN fetches = 1..Len(fetches)
      /\ \A m \in DOMAIN fetches : fetches'[m] = IF m = n THEN r ELSE fetches[m]
  BY <1>3, <1>4, AssetsFound
<1>6. Assets!Running' = Assets!Running \ {n} /\ n \in Assets!Running
  BY <1>1, <1>3, <1>5 DEF Assets!Running
<1>7. \A m \in DOMAIN fetches' : fetches'[m].left # {} => fetches'[m].step = "opening"
  BY <1>2, <1>3, <1>5 DEF Assets!VerdictInv
<1>. DEFINE counted == n <= verdict.fence
            left == verdict.remaining - (IF counted THEN 1 ELSE 0)
            speaks == verdict.fence # Assets!NoFence /\ left = 0 /\ ~verdict.opened
<1>8. verdict' = [verdict EXCEPT !.remaining = IF counted THEN left ELSE @,
                                !.reported = @ \/ speaks]
  BY DEF Assets!FetchSettles
<1>9. verdict \in Verdicts /\ n \in Nat
  BY <1>5, AssetsFound
<1>10. counted => verdict.fence # Assets!NoFence
  BY <1>5, <1>9 DEF Assets!NoFence, Verdicts
<1>11. counted => n \in Assets!Fenced
  BY <1>6 DEF Assets!Fenced
<1>12. verdict.fence # Assets!NoFence => verdict.remaining = Assets!Cardinality(Assets!Fenced)
  BY <1>2 DEF Assets!VerdictInv
<1>13. Assets!IsFiniteSet(Assets!Fenced) /\ Assets!Cardinality(Assets!Fenced) \in Nat
  BY <1>2, RunningIsFinite
<1>14. counted => Assets!Cardinality(Assets!Fenced \ {n}) = Assets!Cardinality(Assets!Fenced) - 1
  BY <1>11, <1>13, FS_RemoveElement, AssetsCount
<1>15. counted => Assets!Cardinality(Assets!Fenced \ {n}) \in Nat
  BY <1>13, FS_RemoveElement, FS_CardinalityType, AssetsCount
<1>16. verdict'.fence = verdict.fence /\ (verdict'.opened <=> verdict.opened)
  BY <1>8, <1>9 DEF Verdicts
<1>17. verdict'.remaining = (IF counted THEN left ELSE verdict.remaining)
  BY <1>8, <1>9 DEF Verdicts
<1>18. verdict'.reported <=> verdict.reported \/ speaks
  BY <1>8, <1>9 DEF Verdicts
<1>19. Assets!Fenced' = IF counted THEN Assets!Fenced \ {n} ELSE Assets!Fenced
  BY <1>6, <1>16 DEF Assets!Fenced
<1>20. verdict.fence # Assets!NoFence
         => left = Assets!Cardinality(Assets!Fenced') /\ verdict'.remaining = left
  BY <1>9, <1>12, <1>13, <1>14, <1>17, <1>19 DEF Verdicts
<1>21. verdict' \in Verdicts
  <2>1. (IF counted THEN left ELSE verdict.remaining) \in Nat
    BY <1>9, <1>10, <1>12, <1>14, <1>15 DEF Verdicts
  <2>2. (verdict.reported \/ speaks) \in BOOLEAN
    OBVIOUS
  <2>. HIDE DEF counted, left, speaks
  <2>. QED
    BY <1>8, <1>9, <2>1, <2>2 DEF Verdicts
<1>22. verdict.fence # Assets!NoFence => verdict'.remaining = Assets!Cardinality(Assets!Fenced')
  BY <1>20
<1>23. verdict'.reported <=> \/ verdict.reported
                                  \/ /\ verdict.fence # Assets!NoFence /\ ~verdict.opened
                                     /\ verdict'.remaining = 0
  BY <1>18, <1>20
<1>. QED
  BY <1>1, <1>2, <1>5, <1>6, <1>7, <1>16, <1>19, <1>21, <1>22, <1>23

LEMMA SettlesKeeps ==
  ASSUME Assets!AssetBounds, Assets!AssetInv, NEW n \in DOMAIN fetches, Assets!FetchSettles(n)
  PROVE  Assets!AssetInv'
<1>1. Assets!Shapes'
  BY SettlesWhat, AssetsFound, AssetsLeft
<1>2. Assets!VerdictInv'
  BY SettlesWhat DEF Assets!VerdictInv
<1>. QED
  BY <1>1, <1>2 DEF Assets!AssetInv

(* Uploads, the user, the others and time leave the fence alone.            *)
LEMMA OthersKeep ==
  ASSUME Assets!AssetBounds, Assets!AssetInv,
         \/ Assets!PublishTimerFires \/ Assets!Flush \/ Assets!LinkChanges \/ Assets!Destroy
         \/ \E f \in Asset : \/ Assets!UploadEnds(f) \/ Assets!UserEdits(f)
                             \/ Assets!PeerUploads(f) \/ Assets!DeadlinePasses(f)
  PROVE  Assets!AssetInv'
<1>1. CASE Assets!Destroy
  <2>1. /\ assetTab' = [assetTab EXCEPT !.alive = FALSE, !.flush = FALSE]
        /\ fetches' = <<>> /\ requests' = {} /\ UNCHANGED verdict
        /\ down' = [retry |-> [f \in Asset |-> Assets!Fresh], queue |-> {}, timer |-> FALSE]
        /\ seen' = [asked |-> {}, opened |-> {}, cohort |-> {}]
    BY <1>1 DEF Assets!Destroy
  <2>2. assetTab' \in AssetTabs /\ ~assetTab'.alive
    BY <2>1, AssetsFound DEF AssetTabs
  <2>3. Assets!Fresh \in [attempts : 0..MaxDownloads, early : BOOLEAN]
    BY DEF Assets!Fresh, Assets!AssetBounds
  <2>4. down' \in Downs
    BY <2>1, <2>3 DEF Downs, Retries
  <2>5. Assets!Shapes'
    BY <2>1, <2>2, <2>4, AssetsFound, AssetsLeft DEF Seens
  <2>. QED
    BY <2>2, <2>5 DEF Assets!AssetInv
<1>2. CASE UNCHANGED <<fetches, requests, down, verdict, seen>> /\ assetTab' \in AssetTabs
           /\ (assetTab'.alive <=> assetTab.alive)
  BY <1>2, SameVerdict, AssetsFound, AssetsLeft DEF Assets!AssetInv
<1>3. CASE Assets!PublishTimerFires
  BY <1>2, <1>3, AssetsFound DEF Assets!PublishTimerFires
<1>4. CASE Assets!Flush
  <2>1. /\ UNCHANGED <<fetches, requests, down, verdict, seen>>
        /\ assetTab' = [assetTab EXCEPT !.flush = FALSE]
    BY <1>4 DEF Assets!Flush
  <2>2. assetTab \in AssetTabs
    BY AssetsFound
  <2>3. assetTab' \in AssetTabs /\ (assetTab'.alive <=> assetTab.alive)
    BY <2>1, <2>2 DEF AssetTabs
  <2>. QED
    BY <1>2, <2>1, <2>3
<1>5. CASE Assets!LinkChanges
  <2>1. /\ UNCHANGED <<fetches, requests, down, verdict, seen>>
        /\ assetTab' = [assetTab EXCEPT !.linked = ~@, !.turns = @ + 1]
    BY <1>5 DEF Assets!LinkChanges
  <2>2. assetTab \in AssetTabs
    BY AssetsFound
  <2>. DEFINE link == ~assetTab.linked
              turned == [assetTab EXCEPT !.turns = @ + 1]
  <2>3. assetTab' = [turned EXCEPT !.linked = link]
    BY <2>1, <2>2 DEF AssetTabs
  <2>4. link \in BOOLEAN /\ turned \in AssetTabs /\ (turned.alive <=> assetTab.alive)
    BY <2>2 DEF AssetTabs
  <2>. HIDE DEF link, turned
  <2>5. assetTab' \in AssetTabs /\ (assetTab'.alive <=> assetTab.alive)
    BY <2>3, <2>4 DEF AssetTabs
  <2>. QED
    BY <1>2, <2>1, <2>5
<1>6. ASSUME NEW f \in Asset, Assets!UploadEnds(f) PROVE Assets!AssetInv'
  BY <1>2, <1>6, AssetsFound DEF Assets!UploadEnds
<1>7. ASSUME NEW f \in Asset, Assets!UserEdits(f) PROVE Assets!AssetInv'
  <2>1. /\ UNCHANGED <<fetches, requests, down, verdict, seen>>
        /\ assetTab' = [assetTab EXCEPT !.flush = TRUE, !.turns = @ + 1]
    BY <1>7 DEF Assets!UserEdits
  <2>2. assetTab \in AssetTabs
    BY AssetsFound
  <2>. DEFINE turned == [assetTab EXCEPT !.turns = @ + 1]
  <2>3. assetTab' = [turned EXCEPT !.flush = TRUE]
    BY <2>1, <2>2 DEF AssetTabs
  <2>4. turned \in AssetTabs /\ (turned.alive <=> assetTab.alive)
    BY <2>2 DEF AssetTabs
  <2>. HIDE DEF turned
  <2>5. assetTab' \in AssetTabs /\ (assetTab'.alive <=> assetTab.alive)
    BY <2>3, <2>4 DEF AssetTabs
  <2>. QED
    BY <1>2, <2>1, <2>5
<1>8. ASSUME NEW f \in Asset, Assets!PeerUploads(f) PROVE Assets!AssetInv'
  <2>1. /\ UNCHANGED <<fetches, requests, down, verdict, seen>>
        /\ assetTab' = [assetTab EXCEPT !.turns = @ + 1]
    BY <1>8 DEF Assets!PeerUploads
  <2>2. assetTab \in AssetTabs
    BY AssetsFound
  <2>3. assetTab' \in AssetTabs /\ (assetTab'.alive <=> assetTab.alive)
    BY <2>1, <2>2 DEF AssetTabs
  <2>. QED
    BY <1>2, <2>1, <2>3
<1>9. ASSUME NEW f \in Asset, Assets!DeadlinePasses(f) PROVE Assets!AssetInv'
  <2>1. /\ UNCHANGED <<fetches, requests, verdict, assetTab, seen>>
        /\ down' = down \/ down' = [down EXCEPT !.retry[f].early = FALSE]
    BY <1>9 DEF Assets!DeadlinePasses
  <2>2. down \in Downs /\ down.retry \in Retries
    BY AssetsFound DEF Downs
  <2>. DEFINE r == [down.retry[f] EXCEPT !.early = FALSE]
  <2>3. r \in [attempts : 0..MaxDownloads, early : BOOLEAN]
    BY <2>2 DEF Retries
  <2>4. [down.retry EXCEPT ![f] = r] \in Retries
    BY <2>2, <2>3 DEF Retries
  <2>5. [down EXCEPT !.retry = [down.retry EXCEPT ![f] = r]] \in Downs
    BY <2>2, <2>4 DEF Downs
  <2>6. [down EXCEPT !.retry[f].early = FALSE]
         = [down EXCEPT !.retry = [down.retry EXCEPT ![f] = r]]
    OBVIOUS
  <2>7. down' \in Downs
    BY <2>1, <2>2, <2>5, <2>6
  <2>. QED
    BY <2>1, <2>7, SameVerdict, AssetsFound, AssetsLeft DEF Assets!AssetInv
<1>. QED
  BY <1>1, <1>3, <1>4, <1>5, <1>6, <1>7, <1>8, <1>9

LEMMA AssetsStep ==
  ASSUME Assets!AssetBounds, Assets!AssetInv, [Assets!Next]_Assets!assetVars
  PROVE  Assets!AssetInv'
<1>1. CASE UNCHANGED Assets!assetVars
  BY <1>1, SameVerdict, AssetsFound, AssetsLeft DEF Assets!AssetInv, Assets!assetVars
<1>. QED
  BY <1>1, RequestsKeep, LookupKeeps, OpenedKeeps, SettlesKeeps, OthersKeep DEF Assets!Next

(* Only a lookup that settles reports, and nothing is behind the fence then. *)
LEMMA ReportHasProof ==
  ASSUME Assets!AssetBounds, Assets!AssetInv, [Assets!Next]_Assets!assetVars
  PROVE  Assets!ReportsWithProof
<1>1. ASSUME NEW n \in DOMAIN fetches, Assets!FetchSettles(n)
      PROVE  Assets!ReportsWithProof
  <2>. SUFFICES ASSUME verdict'.reported, ~verdict.reported
                PROVE  /\ seen'.opened = {} /\ seen.cohort # {}
                       /\ \A m \in seen.cohort : fetches'[m].step = "done"
    BY DEF Assets!ReportsWithProof
  <2>1. /\ Assets!VerdictInv /\ verdict.fence # Assets!NoFence /\ ~verdict.opened
        /\ Assets!Cardinality(Assets!Fenced') = 0 /\ UNCHANGED seen
    BY <1>1, SettlesWhat
  <2>2. Assets!Fenced' = {}
    <3>1. Assets!IsFiniteSet(Assets!Fenced)
      BY AssetsFound, RunningIsFinite
    <3>2. Assets!IsFiniteSet(Assets!Fenced \ {n})
      BY <3>1, FS_Subset, AssetsCount
    <3>3. Assets!IsFiniteSet(Assets!Fenced')
      BY <1>1, <3>1, <3>2, SettlesWhat
    <3>. QED
      BY <2>1, <3>3, FS_EmptySet, AssetsCount
  <2>3. ASSUME NEW m \in seen.cohort PROVE fetches'[m].step = "done"
    <3>1. m \in 1..verdict.fence /\ verdict.fence <= Len(fetches)
      BY <2>1, <2>3 DEF Assets!VerdictInv
    <3>2. verdict.fence \in Nat /\ Len(fetches) \in Nat
      BY AssetsFound DEF Verdicts
    <3>3. m \in 1..Len(fetches) /\ m <= verdict.fence
      BY <3>1, <3>2
    <3>4. m \in DOMAIN fetches' /\ m <= verdict'.fence
      BY <1>1, <3>3, SettlesWhat
    <3>. QED
      BY <2>2, <3>4 DEF Assets!Fenced, Assets!Running
  <2>. QED
    BY <2>1, <2>3 DEF Assets!VerdictInv
<1>2. ASSUME NEW n \in DOMAIN fetches, NEW f \in Asset, Assets!Opened(n, f)
      PROVE  verdict'.reported <=> verdict.reported
  <2>1. verdict' \in {verdict, Assets!NoteUndecryptable, [verdict EXCEPT !.opened = TRUE]}
    BY <1>2 DEF Assets!Opened
  <2>. QED
    BY <2>1, AssetsFound DEF Assets!NoteUndecryptable, Verdicts
<1>3. ASSUME NEW n \in DOMAIN fetches, Assets!LookupAnswers(n) PROVE verdict' = verdict
  BY <1>3 DEF Assets!LookupAnswers
<1>4. ASSUME NEW f \in Asset,
             \/ Assets!UploadEnds(f) \/ Assets!UserEdits(f)
             \/ Assets!PeerUploads(f) \/ Assets!DeadlinePasses(f)
      PROVE  verdict' = verdict
  BY <1>4 DEF Assets!UploadEnds, Assets!UserEdits, Assets!PeerUploads, Assets!DeadlinePasses
<1>5. ASSUME \/ \E S \in SUBSET Asset : Assets!Asked(S)
             \/ Assets!RetryTimerFires \/ \E q \in requests : Assets!RequestGoesOn(q)
             \/ Assets!PublishTimerFires \/ Assets!Flush \/ Assets!LinkChanges \/ Assets!Destroy
             \/ UNCHANGED Assets!assetVars
      PROVE  verdict' = verdict
  BY <1>5 DEF Assets!Asked, Assets!RetryTimerFires, Assets!RequestGoesOn, Assets!PublishTimerFires,
     Assets!Flush, Assets!LinkChanges, Assets!Destroy, Assets!assetVars
<1>6. verdict' = verdict => Assets!ReportsWithProof
  BY DEF Assets!ReportsWithProof
<1>7. (verdict'.reported <=> verdict.reported) => Assets!ReportsWithProof
  BY DEF Assets!ReportsWithProof
<1>. QED
  BY <1>1, <1>2, <1>3, <1>4, <1>5, <1>6, <1>7 DEF Assets!Next

\* The report that this link reads none of the room's images is made only when it never
\* opened one, and when every lookup that ran when the first undecryptable record appeared
\* has ended (asset-unreadable-verdict.ts settleFetch).
THEOREM ReportWaits == Assets!AssetBounds /\ Assets!Spec => Assets!UnreadableIsProved
<1>. SUFFICES ASSUME Assets!AssetBounds
              PROVE  Assets!Spec => Assets!UnreadableIsProved
  OBVIOUS
<1>1. Assets!Init => Assets!AssetInv
  BY AssetsStart
<1>2. Assets!AssetInv /\ [Assets!Next]_Assets!assetVars => Assets!AssetInv'
  BY AssetsStep
<1>3. Assets!AssetInv /\ [Assets!Next]_Assets!assetVars
        => [Assets!ReportsWithProof]_Assets!assetVars
  BY ReportHasProof
<1>. QED
  BY <1>1, <1>2, <1>3, PTL DEF Assets!Spec, Assets!UnreadableIsProved
-----------------------------------------------------------------------------
(***************************************************************************)
(* SharedLinks and SceneCatalog: a link that was handed out opens.         *)
(***************************************************************************)
CONSTANTS SharedFile, Export, MaxRetries, MaxRuns, MaxPageTurns
VARIABLES status, export, shareRow, shown, listing, load, retry, notified, pageCanvas, slipped
Links == INSTANCE SharedLinks WITH
  File <- SharedFile, MaxTurns <- MaxPageTurns, row <- shareRow, canvas <- pageCanvas

(* A shown link is of an export that is done, and stays as it is.           *)
LEMMA ExportStarts == Links!InitExport => Links!ExportInv
<1>. SUFFICES ASSUME Links!InitExport PROVE Links!ExportInv
  OBVIOUS
<1>1. shown = {} /\ Links!ExportShapes
  BY DEF Links!InitExport, Links!ExportShapes
<1>2. Links!UploadsInv
  BY DEF Links!InitExport, Links!UploadsInv
<1>. QED
  BY <1>1, <1>2 DEF Links!ExportInv, Links!ShownInv, Links!LinkOpensWhole

SharedExports == [pc : {"idle", "preparing", "saving", "uploading", "done", "failed"},
                  answer : [SharedFile -> {"none", "pending", "ok", "failed"}]]
SharedCopies == [state : {"none", "live", "gone", "expired"}, files : SUBSET SharedFile]

LEMMA ExportShapesAre ==
  /\ Links!ExportShapes <=> /\ export \in [Export -> SharedExports] /\ shareRow \in [Export -> SharedCopies]
                            /\ shown \subseteq Export
  /\ Links!ExportShapes' <=> /\ export' \in [Export -> SharedExports] /\ shareRow' \in [Export -> SharedCopies]
                             /\ shown' \subseteq Export
BY DEF Links!ExportShapes, SharedExports, SharedCopies

(* Where one link was made, which is whole.                                 *)
LEMMA PageStarts ==
  ASSUME NEW x \in Export, shown = {x},
         export = [y \in Export |-> [pc |-> IF y = x THEN "done" ELSE "failed",
                                    answer |-> [f \in SharedFile |-> "ok"]]],
         shareRow = [y \in Export |-> IF y = x THEN [state |-> "live", files |-> SharedFile]
                                     ELSE [state |-> "none", files |-> {}]]
  PROVE  Links!ExportInv
<1>1. export \in [Export -> SharedExports] /\ shareRow \in [Export -> SharedCopies]
  BY DEF SharedExports, SharedCopies
<1>2. /\ \A y \in Export : /\ export[y].pc \in {"done", "failed"}
                           /\ \A f \in SharedFile : export[y].answer[f] = "ok"
      /\ export[x].pc = "done" /\ shareRow[x] = [state |-> "live", files |-> SharedFile]
  OBVIOUS
<1>. QED
  BY <1>1, <1>2, ExportShapesAre DEF Links!ExportInv, Links!UploadsInv, Links!ShownInv,
     Links!LinkOpensWhole

(* What a step does to one export, and to no other.                         *)
LEMMA ExportGoes ==
  ASSUME Links!ExportInv, NEW x \in Export, NEW e \in SharedExports, NEW r \in SharedCopies,
         export' = [export EXCEPT ![x] = e], shareRow' = [shareRow EXCEPT ![x] = r],
         shown' = shown \/ (shown' = shown \union {x} /\ e.pc = "done"),
         e.pc = "uploading" =>
           /\ r.state = "live"
           /\ \A f \in SharedFile : e.answer[f] # "none" /\ (e.answer[f] = "ok" => f \in r.files),
         (\E f \in SharedFile : e.answer[f] = "pending") => e.pc = "uploading",
         x \in shown' => /\ e.pc = "done"
                         /\ r.state = "expired" \/ r = [state |-> "live", files |-> SharedFile]
  PROVE  Links!ExportInv'
<1>1. /\ export \in [Export -> SharedExports] /\ shareRow \in [Export -> SharedCopies] /\ shown \subseteq Export
      /\ Links!UploadsInv /\ Links!ShownInv /\ Links!LinkOpensWhole
  BY ExportShapesAre DEF Links!ExportInv
<1>2. /\ export'[x] = e /\ shareRow'[x] = r
      /\ \A y \in Export : y # x => export'[y] = export[y] /\ shareRow'[y] = shareRow[y]
      /\ \A y \in shown' : y # x => y \in shown
  BY <1>1
<1>3. Links!ExportShapes'
  BY <1>1, ExportShapesAre
<1>4. Links!UploadsInv'
  BY <1>1, <1>2 DEF Links!UploadsInv
<1>5. Links!ShownInv'
  BY <1>1, <1>2, <1>3 DEF Links!ShownInv, Links!ExportShapes
<1>6. Links!LinkOpensWhole'
  <2>. SUFFICES ASSUME NEW y \in shown'
                PROVE  shareRow'[y].state = "expired" \/ shareRow'[y] = [state |-> "live", files |-> SharedFile]
    BY DEF Links!LinkOpensWhole
  <2>1. CASE y = x
    BY <1>2, <2>1
  <2>2. CASE y # x
    <3>1. y \in Export /\ y \in shown
      BY <1>1, <1>2, <2>2
    <3>2. shareRow'[y] = shareRow[y]
      BY <1>2, <2>2, <3>1
    <3>. QED
      BY <1>1, <3>1, <3>2 DEF Links!LinkOpensWhole
  <2>. QED
    BY <2>1, <2>2
<1>. QED
  BY <1>3, <1>4, <1>5, <1>6 DEF Links!ExportInv

LEMMA ExportStep ==
  ASSUME Links!ExportInv, Links!ExportNext \/ UNCHANGED Links!exportVars
  PROVE  Links!ExportInv'
<1>1. /\ export \in [Export -> SharedExports] /\ shareRow \in [Export -> SharedCopies] /\ shown \subseteq Export
      /\ Links!UploadsInv /\ Links!ShownInv /\ Links!LinkOpensWhole
  BY ExportShapesAre DEF Links!ExportInv
<1>2. CASE UNCHANGED Links!exportVars
  BY <1>1, <1>2 DEF Links!exportVars, Links!ExportInv, Links!ExportShapes, Links!UploadsInv,
     Links!ShownInv, Links!LinkOpensWhole
<1>3. ASSUME NEW x \in Export, NEW pc \in {"preparing", "saving", "failed"},
             export[x].pc \in {"idle", "preparing"},
             export' = [export EXCEPT ![x].pc = pc], UNCHANGED <<shareRow, shown>>
      PROVE  Links!ExportInv'
  <2>1. PICK e : e = [export[x] EXCEPT !.pc = pc]
    OBVIOUS
  <2>2. e \in SharedExports /\ e.pc = pc /\ e.answer = export[x].answer
    BY <1>1, <2>1 DEF SharedExports
  <2>3. PICK r : r = shareRow[x]
    OBVIOUS
  <2>4. /\ export' = [export EXCEPT ![x] = e]
        /\ shareRow' = [shareRow EXCEPT ![x] = r]
        /\ r \in SharedCopies
    BY <1>1, <1>3, <2>1, <2>3
  <2>5. x \notin shown
    BY <1>1, <1>3 DEF Links!ShownInv
  <2>6. \A f \in SharedFile : e.answer[f] # "pending"
    BY <1>1, <1>3, <2>2 DEF Links!UploadsInv
  <2>7. /\ shown' = shown /\ e.pc # "uploading" /\ x \notin shown'
        /\ ~ \E f \in SharedFile : e.answer[f] = "pending"
    BY <1>3, <2>2, <2>5, <2>6
  <2>. QED
    BY <2>2, <2>4, <2>7, ExportGoes
<1>4. ASSUME NEW x \in Export, Links!ExportScene(x) PROVE Links!ExportInv'
  <2>1. CASE export' = export
    BY <1>2, <1>4, <2>1 DEF Links!ExportScene, Links!exportVars, Links!ExportInv,
       Links!ExportShapes, Links!UploadsInv, Links!ShownInv, Links!LinkOpensWhole
  <2>. QED
    BY <1>3, <1>4, <2>1 DEF Links!ExportScene
<1>5. ASSUME NEW x \in Export, Links!Prepare(x) PROVE Links!ExportInv'
  BY <1>3, <1>5 DEF Links!Prepare
<1>6. ASSUME NEW x \in Export, Links!HandleSceneSave(x) PROVE Links!ExportInv'
  <2>1. PICK made \in BOOLEAN, answered \in BOOLEAN :
          /\ answered => made
          /\ shareRow' = IF made THEN [shareRow EXCEPT ![x].state = "live"] ELSE shareRow
          /\ export' = [export EXCEPT ![x] =
               [pc |-> IF answered THEN "uploading" ELSE "failed",
                answer |-> [f \in SharedFile |-> IF answered THEN "pending" ELSE "none"]]]
    BY <1>6 DEF Links!HandleSceneSave
  <2>2. PICK e : e = [pc |-> IF answered THEN "uploading" ELSE "failed",
                      answer |-> [f \in SharedFile |-> IF answered THEN "pending" ELSE "none"]]
    OBVIOUS
  <2>3. /\ e \in SharedExports /\ e.pc = (IF answered THEN "uploading" ELSE "failed")
        /\ \A f \in SharedFile : e.answer[f] = IF answered THEN "pending" ELSE "none"
    BY <2>2 DEF SharedExports
  <2>4. PICK r : r = IF made THEN [shareRow[x] EXCEPT !.state = "live"] ELSE shareRow[x]
    OBVIOUS
  <2>5. r \in SharedCopies /\ (made => r.state = "live")
    BY <1>1, <2>4 DEF SharedCopies
  <2>6. /\ export' = [export EXCEPT ![x] = e]
        /\ shareRow' = [shareRow EXCEPT ![x] = r]
        /\ shown' = shown
    BY <1>1, <1>6, <2>1, <2>2, <2>4 DEF Links!HandleSceneSave
  <2>7. x \notin shown
    BY <1>1, <1>6 DEF Links!ShownInv, Links!HandleSceneSave
  <2>8. e.pc = "uploading" =>
          /\ r.state = "live"
          /\ \A f \in SharedFile : e.answer[f] # "none" /\ (e.answer[f] = "ok" => f \in r.files)
    BY <2>1, <2>3, <2>5
  <2>9. (\E f \in SharedFile : e.answer[f] = "pending") => e.pc = "uploading"
    BY <2>3
  <2>10. e \in SharedExports /\ x \notin shown'
    BY <2>3, <2>6, <2>7
  <2>. QED
    BY <2>5, <2>6, <2>8, <2>9, <2>10, ExportGoes
<1>7. ASSUME NEW x \in Export, NEW f \in SharedFile, Links!UploadFile(x, f) PROVE Links!ExportInv'
  <2>1. PICK recorded \in BOOLEAN, answered \in BOOLEAN :
          /\ answered => recorded
          /\ shareRow' = IF recorded THEN [shareRow EXCEPT ![x].files = @ \union {f}] ELSE shareRow
          /\ export' = [export EXCEPT ![x].answer[f] = IF answered THEN "ok" ELSE "failed"]
    BY <1>7 DEF Links!UploadFile
  <2>2. export[x].answer[f] = "pending" /\ export[x].pc = "uploading" /\ shown' = shown
    BY <1>1, <1>7 DEF Links!UploadFile, Links!UploadsInv
  <2>3. PICK a : a = [export[x].answer EXCEPT ![f] = IF answered THEN "ok" ELSE "failed"]
    OBVIOUS
  <2>4. /\ a \in [SharedFile -> {"none", "pending", "ok", "failed"}]
        /\ a[f] = (IF answered THEN "ok" ELSE "failed")
        /\ \A g \in SharedFile : g # f => a[g] = export[x].answer[g]
    BY <1>1, <2>3 DEF SharedExports
  <2>5. PICK e : e = [export[x] EXCEPT !.answer = a]
    OBVIOUS
  <2>6. e \in SharedExports /\ e.pc = "uploading" /\ e.answer = a
    BY <1>1, <2>2, <2>4, <2>5 DEF SharedExports
  <2>7. PICK r : r = IF recorded THEN [shareRow[x] EXCEPT !.files = @ \union {f}] ELSE shareRow[x]
    OBVIOUS
  <2>8. /\ r \in SharedCopies /\ r.state = shareRow[x].state /\ shareRow[x].files \subseteq r.files
        /\ recorded => f \in r.files
    BY <1>1, <2>7 DEF SharedCopies
  <2>9. export' = [export EXCEPT ![x] = e] /\ shareRow' = [shareRow EXCEPT ![x] = r]
    BY <1>1, <2>1, <2>3, <2>5, <2>7
  <2>10. x \notin shown
    BY <1>1, <2>2 DEF Links!ShownInv
  <2>11. /\ r.state = "live"
         /\ \A g \in SharedFile : e.answer[g] # "none" /\ (e.answer[g] = "ok" => g \in r.files)
    BY <1>1, <2>1, <2>2, <2>4, <2>6, <2>8 DEF Links!UploadsInv
  <2>. QED
    BY <2>2, <2>6, <2>8, <2>9, <2>10, <2>11, ExportGoes
<1>8. ASSUME NEW x \in Export, Links!Settled(x), NEW pc \in {"done", "failed"},
             NEW r \in SharedCopies,
             export' = [export EXCEPT ![x].pc = pc], shareRow' = [shareRow EXCEPT ![x] = r],
             \/ shown' = shown
             \/ (shown' = shown \union {x} /\ pc = "done" /\ r = [state |-> "live", files |-> SharedFile])
      PROVE  Links!ExportInv'
  <2>1. PICK e : e = [export[x] EXCEPT !.pc = pc]
    OBVIOUS
  <2>2. e \in SharedExports /\ e.pc = pc /\ e.answer = export[x].answer
    BY <1>1, <2>1 DEF SharedExports
  <2>3. export' = [export EXCEPT ![x] = e]
    BY <1>1, <1>8, <2>1
  <2>4. x \notin shown /\ \A f \in SharedFile : e.answer[f] # "pending"
    BY <1>1, <1>8, <2>2 DEF Links!ShownInv, Links!Settled
  <2>. QED
    BY <1>8, <2>2, <2>3, <2>4, ExportGoes
<1>9. ASSUME NEW x \in Export, Links!HandOut(x) PROVE Links!ExportInv'
  <2>1. /\ Links!Settled(x) /\ ~Links!UploadFailed(x) /\ shown' = shown \union {x}
        /\ export' = [export EXCEPT ![x].pc = "done"] /\ shareRow' = shareRow
    BY <1>9 DEF Links!HandOut
  <2>2. export[x].pc = "uploading" /\ \A f \in SharedFile : export[x].answer[f] = "ok"
    BY <1>1, <2>1 DEF Links!Settled, Links!UploadFailed, Links!UploadsInv, SharedExports
  <2>3. shareRow[x].state = "live" /\ shareRow[x].files = SharedFile /\ shareRow[x] \in SharedCopies
    BY <1>1, <2>2 DEF Links!UploadsInv, SharedCopies
  <2>4. shareRow[x] = [state |-> "live", files |-> SharedFile]
    BY <2>3 DEF SharedCopies
  <2>5. shareRow' = [shareRow EXCEPT ![x] = shareRow[x]]
    BY <1>1, <2>1
  <2>. QED
    BY <1>8, <2>1, <2>3, <2>4, <2>5
<1>10. ASSUME NEW x \in Export, Links!RollbackSharedScene(x) PROVE Links!ExportInv'
  <2>1. PICK r : r \in {shareRow[x], [state |-> "gone", files |-> {}]} /\ shareRow' = [shareRow EXCEPT ![x] = r]
    BY <1>1, <1>10 DEF Links!RollbackSharedScene
  <2>2. r \in SharedCopies
    BY <1>1, <2>1 DEF SharedCopies
  <2>. QED
    BY <1>8, <1>10, <2>1, <2>2 DEF Links!RollbackSharedScene
<1>11. ASSUME NEW x \in Export, Links!Expire(x) PROVE Links!ExportInv'
  <2>1. PICK e, r : e = export[x] /\ r = [state |-> "expired", files |-> {}]
    OBVIOUS
  <2>2. e \in SharedExports /\ r \in SharedCopies /\ r.state = "expired"
    BY <1>1, <2>1 DEF SharedCopies
  <2>3. /\ export' = [export EXCEPT ![x] = e] /\ shareRow' = [shareRow EXCEPT ![x] = r] /\ shown' = shown
        /\ e.pc \in {"done", "failed"}
    BY <1>1, <1>11, <2>1 DEF Links!Expire
  <2>4. x \in shown => e.pc = "done"
    BY <1>1, <2>1 DEF Links!ShownInv
  <2>5. \A f \in SharedFile : e.answer[f] # "pending"
    BY <1>1, <2>1, <2>3 DEF Links!UploadsInv
  <2>. QED
    BY <2>2, <2>3, <2>4, <2>5, ExportGoes
<1>. QED
  BY <1>2, <1>4, <1>5, <1>6, <1>7, <1>9, <1>10, <1>11 DEF Links!ExportNext

-----------------------------------------------------------------------------
CONSTANTS Scene, DashboardTab, PageSize, MaxTime, MaxSceneRevision, MaxSlugs, MaxSlugAttempts
VARIABLES clock, sceneRow, list, touched, drawn, publish, links, replaced
Catalog == INSTANCE SceneCatalog WITH
  Tab <- DashboardTab, MaxRevision <- MaxSceneRevision, row <- sceneRow

SceneRows == [live : BOOLEAN, updated : Nat, revision : Nat, archived : BOOLEAN, slug : Nat]
FreshRows == [live : BOOLEAN, updated : {1}, revision : {1}, archived : {FALSE}, slug : {0}]
SceneLinks == [scene : Scene, slug : Nat]
PublishRequests == [pc : {"idle", "write"}, scene : Scene \union {0}, attempts : Nat,
                    known : SUBSET SceneLinks]

LEMMA PublishShapesAre ==
  /\ Catalog!PublishShapes <=> /\ sceneRow \in [Scene -> SceneRows] /\ drawn \in Nat
                               /\ links \union replaced \subseteq SceneLinks
                               /\ publish \in [DashboardTab -> PublishRequests]
  /\ Catalog!PublishShapes' <=> /\ sceneRow' \in [Scene -> SceneRows] /\ drawn' \in Nat
                                /\ links' \union replaced' \subseteq SceneLinks
                                /\ publish' \in [DashboardTab -> PublishRequests]
BY DEF Catalog!PublishShapes, SceneRows, SceneLinks, PublishRequests

(* What the writes of a row make of it.                                     *)
LEMMA RowChanged ==
  ASSUME NEW o \in SceneRows, NEW t \in Nat
  PROVE  /\ [o EXCEPT !.updated = t, !.revision = @ + 1] \in SceneRows
         /\ [o EXCEPT !.updated = t, !.revision = @ + 1].slug = o.slug
         /\ [o EXCEPT !.updated = t, !.revision = @ + 1].live = o.live
<1>1. o.revision + 1 \in Nat
  BY DEF SceneRows
<1>2. PICK v : v = o.revision + 1
  OBVIOUS
<1>3. [o EXCEPT !.updated = t, !.revision = v] \in SceneRows
  BY <1>1, <1>2 DEF SceneRows
<1>. QED
  BY <1>2, <1>3 DEF SceneRows

LEMMA RowArchived ==
  ASSUME NEW o \in SceneRows, NEW t \in Nat, NEW b \in BOOLEAN
  PROVE  /\ [o EXCEPT !.archived = b, !.updated = t, !.revision = @ + 1] \in SceneRows
         /\ [o EXCEPT !.archived = b, !.updated = t, !.revision = @ + 1].slug = o.slug
         /\ [o EXCEPT !.archived = b, !.updated = t, !.revision = @ + 1].live = o.live
<1>1. o.revision + 1 \in Nat
  BY DEF SceneRows
<1>2. PICK v : v = o.revision + 1
  OBVIOUS
<1>3. [o EXCEPT !.archived = b, !.updated = t, !.revision = v] \in SceneRows
  BY <1>1, <1>2 DEF SceneRows
<1>. QED
  BY <1>2, <1>3 DEF SceneRows

LEMMA CatalogStarts == Catalog!Init => Catalog!CatalogInv
<1>. SUFFICES ASSUME Catalog!Init PROVE Catalog!CatalogInv
  OBVIOUS
<1>1. /\ \A s \in Scene : sceneRow[s] \in SceneRows /\ sceneRow[s].slug = 0
      /\ sceneRow \in [Scene -> SceneRows]
  <2>1. sceneRow \in [Scene -> FreshRows]
    BY DEF Catalog!Init, FreshRows
  <2>2. ASSUME NEW r \in FreshRows PROVE r \in SceneRows /\ r.slug = 0
    <3>1. PICK b : b = r.live
      OBVIOUS
    <3>2. b \in BOOLEAN /\ r = [live |-> b, updated |-> 1, revision |-> 1,
                               archived |-> FALSE, slug |-> 0]
      BY <3>1 DEF FreshRows
    <3>. QED
      BY <3>2 DEF SceneRows
  <2>. QED
    BY <2>1, <2>2
<1>2. drawn = 0 /\ links = {} /\ replaced = {}
  BY DEF Catalog!Init
<1>3. /\ publish \in [DashboardTab -> PublishRequests]
      /\ \A t \in DashboardTab : publish[t].pc = "idle"
  BY DEF Catalog!Init, PublishRequests
<1>. QED
  BY <1>1, <1>2, <1>3, PublishShapesAre DEF Catalog!CatalogInv, Catalog!SlugsInv, Catalog!HandedInv

(* Without links of a scene that has no slug, nothing known is in the way.  *)
LEMMA SlugsOpen == Catalog!CatalogInv => Catalog!LinksOpen
<1>. SUFFICES ASSUME Catalog!CatalogInv PROVE Catalog!LinksOpen
  OBVIOUS
<1>1. ASSUME NEW l \in links
      PROVE  /\ l.scene \in Scene /\ l.slug # 0
             /\ \A s \in Scene : sceneRow[s].slug = l.slug => s = l.scene
  BY PublishShapesAre DEF Catalog!CatalogInv, Catalog!SlugsInv, Catalog!HandedInv, SceneLinks
<1>2. \A l \in links : Catalog!Opens(l.slug) \subseteq {l.scene}
  BY <1>1 DEF Catalog!Opens
<1>3. ASSUME NEW l \in links \ replaced PROVE Catalog!Opens(l.slug) = {l.scene}
  <2>1. sceneRow[l.scene].slug = l.slug
    BY DEF Catalog!CatalogInv, Catalog!HandedInv
  <2>2. sceneRow[l.scene].live
    BY <1>1, <2>1 DEF Catalog!CatalogInv, Catalog!SlugsInv
  <2>. QED
    BY <1>1, <1>2, <2>1, <2>2 DEF Catalog!Opens
<1>. QED
  BY <1>2, <1>3 DEF Catalog!LinksOpen, Catalog!CatalogInv, Catalog!HandedInv

(* A step that leaves the slugs and the links alone.                        *)
LEMMA SlugsRest ==
  ASSUME Catalog!CatalogInv, sceneRow' \in [Scene -> SceneRows],
         \A s \in Scene : sceneRow'[s].slug = sceneRow[s].slug /\ (sceneRow[s].live => sceneRow'[s].live),
         UNCHANGED Catalog!publishVars
  PROVE  Catalog!CatalogInv'
<1>1. drawn' = drawn /\ links' = links /\ publish' = publish /\ replaced' = replaced
  BY DEF Catalog!publishVars
<1>2. Catalog!PublishShapes'
  BY <1>1, PublishShapesAre DEF Catalog!CatalogInv
<1>3. Catalog!SlugsInv'
  BY <1>1 DEF Catalog!CatalogInv, Catalog!SlugsInv
<1>4. Catalog!HandedInv'
  <2>1. \A l \in links : l.scene \in Scene
    BY PublishShapesAre DEF Catalog!CatalogInv, SceneLinks
  <2>. QED
    BY <1>1, <2>1 DEF Catalog!CatalogInv, Catalog!HandedInv
<1>. QED
  BY <1>2, <1>3, <1>4 DEF Catalog!CatalogInv

(* A scene that is unpublished, or deleted, takes its links along.          *)
LEMMA SlugTaken ==
  ASSUME Catalog!CatalogInv, NEW s \in Scene, NEW r \in SceneRows, r.slug = 0,
         sceneRow' = [sceneRow EXCEPT ![s] = r], Catalog!Withdraw(s)
  PROVE  Catalog!CatalogInv'
<1>1. /\ sceneRow \in [Scene -> SceneRows] /\ drawn \in Nat
      /\ links \union replaced \subseteq SceneLinks
      /\ publish \in [DashboardTab -> PublishRequests] /\ Catalog!SlugsInv /\ Catalog!HandedInv
  BY PublishShapesAre DEF Catalog!CatalogInv
<1>2. /\ links' = {l \in links : l.scene # s}
      /\ drawn' = drawn /\ publish' = publish /\ replaced' = replaced
  BY DEF Catalog!Withdraw
<1>3. /\ sceneRow' \in [Scene -> SceneRows] /\ sceneRow'[s] = r
      /\ \A o \in Scene : o # s => sceneRow'[o] = sceneRow[o]
  BY <1>1
<1>4. Catalog!PublishShapes'
  BY <1>1, <1>2, <1>3, PublishShapesAre
<1>5. \A l \in links' : l \in links /\ l.scene \in Scene /\ l.scene # s /\ l.slug # 0
  BY <1>1, <1>2 DEF SceneLinks, Catalog!HandedInv
<1>6. Catalog!SlugsInv'
  BY <1>1, <1>2, <1>3, <1>5 DEF Catalog!SlugsInv
<1>7. ASSUME NEW o \in Scene, sceneRow'[o].slug # 0
      PROVE  [scene |-> o, slug |-> sceneRow'[o].slug] \in links' \ replaced'
  <2>1. o # s /\ sceneRow'[o] = sceneRow[o]
    BY <1>3, <1>7
  <2>2. PICK l : l = [scene |-> o, slug |-> sceneRow[o].slug]
    OBVIOUS
  <2>3. l \in links \ replaced /\ l.scene = o
    BY <1>1, <1>7, <2>1, <2>2 DEF Catalog!HandedInv
  <2>. QED
    BY <1>2, <2>1, <2>2, <2>3
<1>8. Catalog!HandedInv'
  BY <1>1, <1>2, <1>3, <1>5, <1>7 DEF Catalog!HandedInv
<1>. QED
  BY <1>4, <1>6, <1>8 DEF Catalog!CatalogInv

(* The requests alone: none draws a slug for a scene that has links.        *)
LEMMA RequestGoes ==
  ASSUME Catalog!CatalogInv, NEW t \in DashboardTab, NEW p \in PublishRequests,
         publish' = [publish EXCEPT ![t] = p],
         p.pc = "write" => p.scene \in Scene /\ p.known = {},
         UNCHANGED <<sceneRow, drawn, links, replaced>>
  PROVE  Catalog!CatalogInv'
<1>1. /\ publish' \in [DashboardTab -> PublishRequests]
      /\ publish'[t] = p /\ \A u \in DashboardTab : u # t => publish'[u] = publish[u]
  BY PublishShapesAre DEF Catalog!CatalogInv
<1>2. Catalog!PublishShapes'
  BY <1>1, PublishShapesAre DEF Catalog!CatalogInv
<1>3. Catalog!SlugsInv'
  BY DEF Catalog!CatalogInv, Catalog!SlugsInv
<1>4. Catalog!HandedInv'
  BY <1>1 DEF Catalog!CatalogInv, Catalog!HandedInv
<1>. QED
  BY <1>2, <1>3, <1>4 DEF Catalog!CatalogInv

LEMMA PublishReads ==
  ASSUME Catalog!CatalogInv, NEW t \in DashboardTab, NEW s \in Scene, Catalog!PublishRead(t, s)
  PROVE  Catalog!CatalogInv'
<1>1. /\ sceneRow \in [Scene -> SceneRows] /\ drawn \in Nat
      /\ links \union replaced \subseteq SceneLinks
      /\ publish \in [DashboardTab -> PublishRequests] /\ Catalog!SlugsInv /\ Catalog!HandedInv
  BY PublishShapesAre DEF Catalog!CatalogInv
<1>2. UNCHANGED <<sceneRow, drawn, replaced>>
  BY DEF Catalog!PublishRead
<1>3. CASE Catalog!AlreadyPublished(s)
  <2>1. PICK n : n = sceneRow[s].slug
    OBVIOUS
  <2>2. n \in Nat /\ n # 0
    BY <1>1, <1>3, <2>1 DEF Catalog!AlreadyPublished, SceneRows
  <2>3. [scene |-> s, slug |-> n] \in links
    BY <1>1, <2>1, <2>2 DEF Catalog!HandedInv
  <2>4. links' = links /\ publish' = publish
    BY <1>3, <2>1, <2>3 DEF Catalog!PublishRead, Catalog!HandOut
  <2>5. UNCHANGED Catalog!publishVars
    BY <1>2, <2>4 DEF Catalog!publishVars
  <2>. QED
    BY <1>1, <1>2, <2>5, SlugsRest
<1>4. CASE ~Catalog!AlreadyPublished(s)
  <2>1. {l \in links : l.scene = s} = {}
    BY <1>1, <1>4 DEF Catalog!HandedInv, Catalog!AlreadyPublished
  <2>2. PICK p : p = [pc |-> "write", scene |-> s, attempts |-> 0, known |-> {}]
    OBVIOUS
  <2>3. p \in PublishRequests /\ p.scene = s /\ p.known = {}
    BY <2>2 DEF PublishRequests
  <2>4. publish' = [publish EXCEPT ![t] = p] /\ links' = links
    BY <1>4, <2>1, <2>2 DEF Catalog!PublishRead
  <2>. QED
    BY <1>2, <2>3, <2>4, RequestGoes
<1>. QED
  BY <1>3, <1>4

LEMMA PublishWrites ==
  ASSUME Catalog!CatalogBounds, Catalog!CatalogInv, NEW t \in DashboardTab, Catalog!PublishWrite(t)
  PROVE  Catalog!CatalogInv'
<1>1. /\ sceneRow \in [Scene -> SceneRows] /\ drawn \in Nat
      /\ links \union replaced \subseteq SceneLinks
      /\ publish \in [DashboardTab -> PublishRequests] /\ Catalog!SlugsInv /\ Catalog!HandedInv
  BY PublishShapesAre DEF Catalog!CatalogInv
<1>2. PICK s : s = publish[t].scene
  OBVIOUS
<1>3. publish[t].pc = "write" /\ s \in Scene /\ publish[t].known = {}
  BY <1>1, <1>2 DEF Catalog!HandedInv, Catalog!PublishWrite
<1>4. PICK p : p = [publish[t] EXCEPT !.pc = "idle"]
  OBVIOUS
<1>5. p \in PublishRequests /\ p.pc = "idle" /\ publish' = [publish EXCEPT ![t] = p]
  BY <1>1, <1>4 DEF PublishRequests, Catalog!PublishWrite, Catalog!Answered
<1>6. /\ publish' \in [DashboardTab -> PublishRequests]
      /\ publish'[t] = p /\ \A u \in DashboardTab : u # t => publish'[u] = publish[u]
  BY <1>1, <1>5
<1>7. drawn' = drawn + 1 /\ drawn' \in Nat
  BY <1>1 DEF Catalog!PublishWrite
<1>8. \A u \in DashboardTab : publish'[u].pc = "write"
        => publish'[u].scene \in Scene /\ publish'[u].known = {}
  BY <1>1, <1>5, <1>6 DEF Catalog!HandedInv
<1>9. CASE sceneRow[s].live
  <2>1. PICK time \in 1..MaxTime :
          sceneRow' = [sceneRow EXCEPT ![s].slug = drawn + 1, ![s].updated = time]
    BY <1>2, <1>9 DEF Catalog!PublishWrite
  <2>2. /\ replaced' = replaced \union {l \in links : l.scene = s}
        /\ links' = links \union {[scene |-> s, slug |-> drawn + 1]}
    BY <1>2, <1>3, <1>9 DEF Catalog!PublishWrite, Catalog!HandOut
  <2>3. PICK r : r = [sceneRow[s] EXCEPT !.slug = drawn + 1, !.updated = time]
    OBVIOUS
  <2>4. time \in Nat
    BY <2>1 DEF Catalog!CatalogBounds
  <2>5. r \in SceneRows /\ r.slug = drawn + 1 /\ r.live
    <3>1. PICK o, n : o = sceneRow[s] /\ n = drawn + 1
      OBVIOUS
    <3>2. o \in SceneRows /\ n \in Nat /\ o.live /\ r = [o EXCEPT !.slug = n, !.updated = time]
      BY <1>1, <1>3, <1>9, <2>3, <3>1
    <3>3. r \in SceneRows /\ r.slug = n /\ r.live
      BY <2>4, <3>2 DEF SceneRows
    <3>. QED
      BY <3>1, <3>3
  <2>6. sceneRow' = [sceneRow EXCEPT ![s] = r]
    BY <1>1, <1>3, <2>1, <2>3
  <2>7. /\ sceneRow' \in [Scene -> SceneRows] /\ sceneRow'[s] = r
        /\ \A o \in Scene : o # s => sceneRow'[o] = sceneRow[o]
    BY <1>1, <1>3, <2>5, <2>6
  <2>8. PICK l : l = [scene |-> s, slug |-> drawn + 1]
    OBVIOUS
  <2>9. l \in SceneLinks /\ l.scene = s /\ l.slug = drawn + 1
    BY <1>1, <1>3, <2>8 DEF SceneLinks
  <2>10. Catalog!PublishShapes'
    BY <1>1, <1>6, <1>7, <2>2, <2>7, <2>8, <2>9, PublishShapesAre
  <2>11. Catalog!SlugsInv'
    <3>1. \A o \in Scene : sceneRow[o].slug \in Nat /\ sceneRow[o].slug <= drawn
      BY <1>1 DEF Catalog!SlugsInv, SceneRows
    <3>2. \A o \in Scene : sceneRow'[o].slug <= drawn' /\ (sceneRow'[o].slug # 0 => sceneRow'[o].live)
      BY <1>1, <1>7, <2>5, <2>7, <3>1 DEF Catalog!SlugsInv
    <3>3. \A o \in Scene : o # s => sceneRow'[o].slug # drawn + 1
      BY <1>1, <2>7, <3>1
    <3>4. ASSUME NEW a \in Scene, NEW b \in Scene, sceneRow'[a].slug # 0,
                 sceneRow'[a].slug = sceneRow'[b].slug
          PROVE  a = b
      <4>1. CASE a = s \/ b = s
        BY <2>5, <2>7, <3>3, <3>4, <4>1
      <4>2. CASE a # s /\ b # s
        BY <1>1, <2>7, <3>4, <4>2 DEF Catalog!SlugsInv
      <4>. QED
        BY <4>1, <4>2
    <3>5. \A k \in links' \union replaced' : k.slug \in Nat /\ k.slug <= drawn'
      <4>1. \A k \in links \union replaced : k.slug \in Nat /\ k.slug <= drawn
        BY <1>1 DEF Catalog!SlugsInv, SceneLinks
      <4>2. links' \union replaced' \subseteq links \union replaced \union {l}
        BY <2>2, <2>8
      <4>. QED
        BY <1>1, <1>7, <2>9, <4>1, <4>2
    <3>6. ASSUME NEW k \in links', NEW o \in Scene, sceneRow'[o].slug = k.slug
          PROVE  o = k.scene
      <4>1. CASE k = l
        BY <2>9, <3>3, <3>6, <4>1
      <4>2. CASE k \in links
        <5>1. k.slug \in Nat /\ k.slug <= drawn
          BY <1>1, <4>2 DEF Catalog!SlugsInv, SceneLinks
        <5>2. k.slug # drawn + 1
          BY <1>1, <5>1
        <5>3. o # s
          BY <2>5, <2>7, <3>6, <5>2
        <5>. QED
          BY <1>1, <2>7, <3>6, <4>2, <5>3 DEF Catalog!SlugsInv
      <4>. QED
        BY <2>2, <2>8, <4>1, <4>2
    <3>. QED
      BY <3>2, <3>4, <3>5, <3>6 DEF Catalog!SlugsInv
  <2>12. Catalog!HandedInv'
    <3>1. ASSUME NEW o \in Scene, sceneRow'[o].slug # 0
          PROVE  [scene |-> o, slug |-> sceneRow'[o].slug] \in links' \ replaced'
      <4>1. CASE o = s
        <5>1. l \notin links \union replaced
          BY <1>1, <2>9 DEF Catalog!SlugsInv
        <5>. QED
          BY <2>2, <2>5, <2>7, <2>8, <4>1, <5>1
      <4>2. CASE o # s
        <5>1. PICK k : k = [scene |-> o, slug |-> sceneRow[o].slug]
          OBVIOUS
        <5>2. k \in links \ replaced /\ k.scene = o /\ sceneRow'[o] = sceneRow[o]
          BY <1>1, <2>7, <3>1, <4>2, <5>1 DEF Catalog!HandedInv
        <5>. QED
          BY <2>2, <4>2, <5>1, <5>2
      <4>. QED
        BY <4>1, <4>2
    <3>2. SUFFICES ASSUME NEW k \in links'
                   PROVE  /\ sceneRow'[k.scene].slug # 0 /\ k.slug # 0
                          /\ (k \in replaced' \/ sceneRow'[k.scene].slug = k.slug)
      BY <1>8, <3>1 DEF Catalog!HandedInv
    <3>3. CASE k = l
      BY <1>1, <2>5, <2>7, <2>9, <3>3
    <3>4. CASE k \in links /\ k.scene = s
      <4>1. k \in replaced'
        BY <2>2, <3>4
      <4>2. k.slug # 0
        BY <1>1, <3>4 DEF Catalog!HandedInv
      <4>. QED
        BY <1>1, <2>5, <2>7, <3>4, <4>1, <4>2
    <3>5. CASE k \in links /\ k.scene # s
      <4>1. k.scene \in Scene
        BY <1>1, <3>5 DEF SceneLinks
      <4>. QED
        BY <1>1, <2>2, <2>7, <3>5, <4>1 DEF Catalog!HandedInv
    <3>. QED
      BY <2>2, <2>8, <3>3, <3>4, <3>5
  <2>. QED
    BY <2>10, <2>11, <2>12 DEF Catalog!CatalogInv
<1>10. CASE ~sceneRow[s].live
  <2>1. UNCHANGED <<sceneRow, links, replaced>>
    BY <1>2, <1>10 DEF Catalog!PublishWrite
  <2>2. Catalog!PublishShapes'
    BY <1>1, <1>6, <1>7, <2>1, PublishShapesAre
  <2>3. Catalog!SlugsInv'
    <3>1. \A o \in Scene : sceneRow[o].slug \in Nat
      BY <1>1 DEF SceneRows
    <3>2. \A k \in links \union replaced : k.slug \in Nat /\ k.slug <= drawn'
      BY <1>1, <1>7 DEF Catalog!SlugsInv, SceneLinks
    <3>. QED
      BY <1>1, <1>7, <2>1, <3>1, <3>2 DEF Catalog!SlugsInv
  <2>4. Catalog!HandedInv'
    BY <1>1, <1>8, <2>1 DEF Catalog!HandedInv
  <2>. QED
    BY <2>2, <2>3, <2>4 DEF Catalog!CatalogInv
<1>. QED
  BY <1>9, <1>10

(* The steps of the list that change a row; the others read.                *)
RowsNext ==
  \E s \in Scene :
    \/ Catalog!ChangeScene(s) \/ Catalog!CreateScene(s) \/ Catalog!DeleteScene(s)
    \/ \E archived \in BOOLEAN : Catalog!Archive(s, archived)

LEMMA ListGoes == Catalog!ListNext => RowsNext \/ UNCHANGED <<sceneRow, Catalog!publishVars>>
BY DEF Catalog!ListNext, RowsNext, Catalog!FetchFirstPage, Catalog!FetchNextPage, Catalog!Tick

LEMMA CatalogStep ==
  ASSUME Catalog!CatalogBounds, Catalog!CatalogInv,
         RowsNext \/ Catalog!PublishNext \/ UNCHANGED <<sceneRow, Catalog!publishVars>>
  PROVE  Catalog!CatalogInv'
<1>1. /\ sceneRow \in [Scene -> SceneRows] /\ drawn \in Nat
      /\ links \union replaced \subseteq SceneLinks
      /\ publish \in [DashboardTab -> PublishRequests] /\ Catalog!SlugsInv /\ Catalog!HandedInv
  BY PublishShapesAre DEF Catalog!CatalogInv
<1>2. CASE UNCHANGED <<sceneRow, Catalog!publishVars>>
  BY <1>1, <1>2, SlugsRest
<1>3. \A i \in 1..MaxTime : i \in Nat
  BY DEF Catalog!CatalogBounds
<1>4. ASSUME NEW s \in Scene, NEW r \in SceneRows, sceneRow' = [sceneRow EXCEPT ![s] = r],
             r.slug = sceneRow[s].slug, sceneRow[s].live => r.live, UNCHANGED Catalog!publishVars
      PROVE  Catalog!CatalogInv'
  <2>1. /\ sceneRow' \in [Scene -> SceneRows] /\ sceneRow'[s] = r
        /\ \A o \in Scene : o # s => sceneRow'[o] = sceneRow[o]
    BY <1>1, <1>4
  <2>2. \A o \in Scene : sceneRow'[o].slug
          = sceneRow[o].slug /\ (sceneRow[o].live => sceneRow'[o].live)
    BY <1>4, <2>1
  <2>. QED
    BY <1>4, <2>1, <2>2, SlugsRest
<1>5. ASSUME NEW s \in Scene, Catalog!ChangeScene(s) PROVE Catalog!CatalogInv'
  <2>1. PICK t \in 1..MaxTime : sceneRow' = [sceneRow EXCEPT ![s].updated = t, ![s].revision = @ + 1]
    BY <1>5 DEF Catalog!ChangeScene
  <2>2. PICK r : r = [sceneRow[s] EXCEPT !.updated = t, !.revision = @ + 1]
    OBVIOUS
  <2>3. sceneRow' = [sceneRow EXCEPT ![s] = r] /\ UNCHANGED Catalog!publishVars
    BY <1>1, <1>5, <2>1, <2>2 DEF Catalog!ChangeScene
  <2>4. r \in SceneRows /\ r.slug = sceneRow[s].slug /\ r.live = sceneRow[s].live
    <3>1. sceneRow[s] \in SceneRows /\ t \in Nat
      BY <1>1, <1>3
    <3>. QED
      BY <2>2, <3>1, RowChanged
  <2>. QED
    BY <1>4, <2>3, <2>4
<1>6. ASSUME NEW s \in Scene, Catalog!CreateScene(s) PROVE Catalog!CatalogInv'
  <2>1. PICK t \in 1..MaxTime : sceneRow' = [sceneRow EXCEPT ![s].live = TRUE, ![s].updated = t]
    BY <1>6 DEF Catalog!CreateScene
  <2>2. PICK r : r = [sceneRow[s] EXCEPT !.live = TRUE, !.updated = t]
    OBVIOUS
  <2>3. sceneRow' = [sceneRow EXCEPT ![s] = r] /\ UNCHANGED Catalog!publishVars
    BY <1>1, <1>6, <2>1, <2>2 DEF Catalog!CreateScene
  <2>4. r \in SceneRows /\ r.slug = sceneRow[s].slug /\ r.live
    BY <1>1, <1>3, <2>2 DEF SceneRows
  <2>. QED
    BY <1>4, <2>3, <2>4
<1>7. ASSUME NEW s \in Scene, NEW archived \in BOOLEAN,
             Catalog!Archive(s, archived) PROVE Catalog!CatalogInv'
  <2>1. PICK t \in 1..MaxTime :
          sceneRow' = [sceneRow EXCEPT ![s].archived = archived, ![s].updated = t, ![s].revision = @ + 1]
    BY <1>7 DEF Catalog!Archive
  <2>2. PICK r : r = [sceneRow[s] EXCEPT !.archived = archived, !.updated = t, !.revision = @ + 1]
    OBVIOUS
  <2>3. sceneRow' = [sceneRow EXCEPT ![s] = r] /\ UNCHANGED Catalog!publishVars
    BY <1>1, <1>7, <2>1, <2>2 DEF Catalog!Archive
  <2>4. r \in SceneRows /\ r.slug = sceneRow[s].slug /\ r.live = sceneRow[s].live
    <3>1. sceneRow[s] \in SceneRows /\ t \in Nat
      BY <1>1, <1>3
    <3>. QED
      BY <2>2, <3>1, RowArchived
  <2>. QED
    BY <1>4, <2>3, <2>4
<1>8. ASSUME NEW s \in Scene, Catalog!DeleteScene(s) PROVE Catalog!CatalogInv'
  <2>1. PICK r : r = [sceneRow[s] EXCEPT !.live = FALSE, !.slug = 0, !.revision = MaxSceneRevision]
    OBVIOUS
  <2>2. sceneRow' = [sceneRow EXCEPT ![s] = r] /\ Catalog!Withdraw(s)
    BY <1>1, <1>8, <2>1 DEF Catalog!DeleteScene
  <2>3. r \in SceneRows /\ r.slug = 0
    BY <1>1, <2>1 DEF SceneRows, Catalog!CatalogBounds
  <2>. QED
    BY <2>2, <2>3, SlugTaken
<1>9. ASSUME NEW s \in Scene, Catalog!Unpublish(s) PROVE Catalog!CatalogInv'
  <2>1. PICK t \in 1..MaxTime : sceneRow' = [sceneRow EXCEPT ![s].slug = 0, ![s].updated = t]
    BY <1>9 DEF Catalog!Unpublish
  <2>2. PICK r : r = [sceneRow[s] EXCEPT !.slug = 0, !.updated = t]
    OBVIOUS
  <2>3. sceneRow' = [sceneRow EXCEPT ![s] = r] /\ Catalog!Withdraw(s)
    BY <1>1, <1>9, <2>1, <2>2 DEF Catalog!Unpublish
  <2>4. r \in SceneRows /\ r.slug = 0
    BY <1>1, <1>3, <2>2 DEF SceneRows
  <2>. QED
    BY <2>3, <2>4, SlugTaken
<1>10. ASSUME NEW t \in DashboardTab, Catalog!SlugCollides(t) PROVE Catalog!CatalogInv'
  <2>1. PICK p : /\ p \in {[publish[t] EXCEPT !.attempts = @ + 1], [publish[t] EXCEPT !.pc = "idle"]}
                 /\ publish' = [publish EXCEPT ![t] = p]
    BY <1>1, <1>10 DEF Catalog!SlugCollides, Catalog!Answered
  <2>2. /\ p \in PublishRequests /\ p.known = publish[t].known /\ p.scene = publish[t].scene
        /\ p.pc = "write" => publish[t].pc = "write"
    BY <1>1, <2>1 DEF PublishRequests
  <2>3. p.pc = "write" => p.scene \in Scene /\ p.known = {}
    BY <1>1, <2>2 DEF Catalog!HandedInv
  <2>4. UNCHANGED <<sceneRow, drawn, links, replaced>>
    BY <1>10 DEF Catalog!SlugCollides
  <2>. QED
    BY <2>1, <2>2, <2>3, <2>4, RequestGoes
<1>11. RowsNext => Catalog!CatalogInv'
  BY <1>5, <1>6, <1>7, <1>8 DEF RowsNext
<1>12. Catalog!PublishNext => Catalog!CatalogInv'
  BY <1>8, <1>9, <1>10, PublishReads, PublishWrites DEF Catalog!PublishNext
<1>. QED
  BY <1>2, <1>11, <1>12

-----------------------------------------------------------------------------
(***************************************************************************)
(* RelayTransport, WirePath and RelayProcess: the frames those keys seal,  *)
(* on the connections of one client, on their way, and as the relay ends.  *)
(***************************************************************************)
CONSTANTS MaxWireFrames, MaxArrivals, MaxLinks, MaxInbound, MaxBuffered, MaxSeals, Threshold
VARIABLES relayLink, inbound, openedOnce, delivered, roomVerdict, missed, sealCount, outbound,
          buffered, onWire
Link == INSTANCE RelayTransport WITH
  MaxFrames <- MaxWireFrames, MaxConnections <- MaxLinks, MaxSealed <- MaxSeals,
  link <- relayLink, seen <- openedOnce, verdict <- roomVerdict, sealed <- sealCount

LEMMA TransportCount ==
  ASSUME NEW S
  PROVE  /\ Link!Cardinality(S) = Cardinality(S)
         /\ Link!IsFiniteSet(S) = IsFiniteSet(S)
BY DEF Link!Cardinality, Cardinality, Link!IsFiniteSet, IsFiniteSet

LEMMA RemoveAtIs ==
  ASSUME NEW S, NEW s \in Seq(S), NEW i \in DOMAIN s
  PROVE  /\ Link!RemoveAt(s, i) \in Seq(S) /\ DOMAIN Link!RemoveAt(s, i) = 1..(Len(s) - 1)
         /\ \A j \in DOMAIN Link!RemoveAt(s, i) :
              Link!RemoveAt(s, i)[j] = IF j < i THEN s[j] ELSE s[j + 1]
<1>1. i \in 1..Len(s) /\ Len(s) \in Nat /\ \A j \in 1..Len(s) : s[j] \in S
  BY LenProperties
<1>2. PICK a : a = SubSeq(s, 1, i - 1)
  OBVIOUS
<1>3. a \in Seq(S) /\ Len(a) = i - 1 /\ \A j \in 1..(i - 1) : a[j] = s[j]
  <2>1. \A j \in 1..(i - 1) : s[j] \in S
    BY <1>1
  <2>2. /\ a \in Seq(S) /\ Len(a) = IF 1 <= i - 1 THEN i - 1 - 1 + 1 ELSE 0
        /\ \A j \in 1..(i - 1 - 1 + 1) : a[j] = s[1 + j - 1]
    BY <1>1, <1>2, <2>1, SubSeqProperties
  <2>. QED
    BY <1>1, <2>2
<1>4. PICK b : b = SubSeq(s, i + 1, Len(s))
  OBVIOUS
<1>5. b \in Seq(S) /\ Len(b) = Len(s) - i /\ \A j \in 1..(Len(s) - i) : b[j] = s[i + j]
  <2>1. \A j \in (i + 1)..Len(s) : s[j] \in S
    BY <1>1
  <2>2. /\ b \in Seq(S) /\ Len(b) = IF i + 1 <= Len(s) THEN Len(s) - (i + 1) + 1 ELSE 0
        /\ \A j \in 1..(Len(s) - (i + 1) + 1) : b[j] = s[i + 1 + j - 1]
    BY <1>1, <1>4, <2>1, SubSeqProperties
  <2>. QED
    BY <1>1, <2>2
<1>6. PICK t : t = a \o b
  OBVIOUS
<1>7. /\ t \in Seq(S) /\ Len(t) = Len(a) + Len(b)
      /\ \A j \in 1..(Len(a) + Len(b)) : t[j] = IF j <= Len(a) THEN a[j] ELSE b[j - Len(a)]
  BY <1>3, <1>5, <1>6, ConcatProperties
<1>8. DOMAIN t = 1..(Len(s) - 1)
  BY <1>1, <1>3, <1>5, <1>7, LenProperties
<1>9. ASSUME NEW j \in 1..(Len(s) - 1)
      PROVE  t[j] = IF j < i THEN s[j] ELSE s[j + 1]
  <2>1. CASE j < i
    BY <1>1, <1>3, <1>5, <1>7, <2>1
  <2>2. CASE ~(j < i)
    <3>1. t[j] = b[j - (i - 1)]
      BY <1>1, <1>3, <1>5, <1>7, <2>2
    <3>2. PICK k \in 1..(Len(s) - i) : k = j - (i - 1)
      BY <1>1, <2>2
    <3>3. b[k] = s[i + k] /\ i + k = j + 1
      BY <1>1, <1>5, <3>2
    <3>. QED
      BY <2>2, <3>1, <3>2, <3>3
  <2>. QED
    BY <2>1, <2>2
<1>10. Link!RemoveAt(s, i) = t
  BY <1>2, <1>4, <1>6 DEF Link!RemoveAt
<1>. QED
  BY <1>7, <1>8, <1>9, <1>10

LEMMA AppendIs ==
  ASSUME NEW S, NEW s \in Seq(S), NEW e \in S
  PROVE  /\ Append(s, e) \in Seq(S) /\ DOMAIN Append(s, e) = 1..(Len(s) + 1)
         /\ DOMAIN s = 1..Len(s) /\ Len(s) \in Nat
         /\ Append(s, e)[Len(s) + 1] = e /\ \A j \in 1..Len(s) : Append(s, e)[j] = s[j]
<1>1. PICK t : t = Append(s, e)
  OBVIOUS
<1>2. Len(s) \in Nat /\ DOMAIN s = 1..Len(s)
  BY LenProperties
<1>3. /\ t \in Seq(S) /\ DOMAIN t = 1..(Len(s) + 1)
      /\ t[Len(s) + 1] = e /\ \A j \in 1..Len(s) : t[j] = s[j]
  BY <1>1, <1>2
<1>. QED
  BY <1>1, <1>2, <1>3

(* What becomes of an entry when another one goes.                          *)
Removed(g, f, channel, i) == g = [f EXCEPT ![channel] = Link!RemoveAt(@, i)]
Others(g, f, channel, i) ==
  /\ \A c \in Link!Channels : \A j \in DOMAIN g[c] :
       \E k \in DOMAIN f[c] : g[c][j] = f[c][k] /\ k = IF c = channel /\ j >= i THEN j + 1 ELSE j
  /\ \A c \in Link!Channels : \A k \in DOMAIN f[c] :
       c # channel \/ k # i => \E j \in DOMAIN g[c] : g[c][j] = f[c][k]

LEMMA OthersRemain ==
  ASSUME NEW S, NEW f \in [Link!Channels -> Seq(S)], NEW channel \in Link!Channels,
         NEW i \in DOMAIN f[channel],
         NEW g, Removed(g, f, channel, i)
  PROVE  g \in [Link!Channels -> Seq(S)] /\ Others(g, f, channel, i)
<1>2. PICK t : t = Link!RemoveAt(f[channel], i)
  OBVIOUS
<1>4. g = [f EXCEPT ![channel] = t]
  BY <1>2 DEF Removed
<1>. DEFINE s == f[channel]
<1>1. s \in Seq(S) /\ Len(s) \in Nat /\ DOMAIN s = 1..Len(s)
  OBVIOUS
<1>3. t \in Seq(S) /\ DOMAIN t = 1..(Len(s) - 1)
      /\ \A j \in DOMAIN t : t[j] = IF j < i THEN s[j] ELSE s[j + 1]
  BY <1>1, <1>2, RemoveAtIs
<1>5. g \in [Link!Channels -> Seq(S)]
  BY <1>3, <1>4
<1>6. ASSUME NEW c \in Link!Channels, NEW j \in DOMAIN g[c]
      PROVE  \E k \in DOMAIN f[c] : g[c][j] = f[c][k] /\ k = IF c = channel /\ j >= i THEN j + 1 ELSE j
  <2>1. CASE c = channel
    <3>1. g[c] = t /\ j \in 1..(Len(s) - 1) /\ i \in 1..Len(s)
      BY <1>1, <1>3, <1>4, <2>1
    <3>2. PICK k : k = IF j >= i THEN j + 1 ELSE j
      OBVIOUS
    <3>3. k \in DOMAIN s /\ t[j] = s[k]
      BY <1>1, <1>3, <3>1, <3>2
    <3>. QED
      BY <2>1, <3>1, <3>2, <3>3
  <2>2. CASE c # channel
    BY <1>4, <2>2
  <2>. QED
    BY <2>1, <2>2
<1>7. ASSUME NEW c \in Link!Channels, NEW k \in DOMAIN f[c], c # channel \/ k # i
      PROVE  \E j \in DOMAIN g[c] : g[c][j] = f[c][k]
  <2>1. CASE c = channel
    <3>1. g[c] = t /\ k \in 1..Len(s) /\ i \in 1..Len(s) /\ k # i
      BY <1>1, <1>4, <1>7, <2>1
    <3>2. CASE k < i
      <4>1. k \in DOMAIN t /\ t[k] = s[k]
        BY <1>1, <1>3, <3>1, <3>2
      <4>. QED
        BY <2>1, <3>1, <4>1
    <3>3. CASE k > i
      <4>1. k - 1 \in DOMAIN t /\ t[k - 1] = s[k]
        BY <1>1, <1>3, <3>1, <3>3
      <4>. QED
        BY <2>1, <3>1, <4>1
    <3>. QED
      BY <3>1, <3>2, <3>3
  <2>2. CASE c # channel
    BY <1>4, <2>2
  <2>. QED
    BY <2>1, <2>2
<1>. QED
  BY <1>5, <1>6, <1>7 DEF Others

-----------------------------------------------------------------------------
RoomVerdicts == [opened : BOOLEAN, failed : Nat, pending : Int, last : Nat, fence : Nat,
                 remaining : Int, reported : BOOLEAN, skipped : BOOLEAN]
LinkStates == {"disconnected", "connecting", "connected"}
LinkReasons == {"idle", "protocol", "unauthorized", "membership-revoked", "room-ended",
                "unsupported-protocol-version", "transient"}
LinkRecords == [number : Nat, state : LinkStates, reason : LinkReasons]
Misses == [reported : BOOLEAN, told : BOOLEAN, amiss : BOOLEAN]

LEMMA TransportShapesAre ==
  /\ Link!TransportShapes <=> /\ relayLink \in LinkRecords
     /\ inbound \in [Link!Channels -> Seq(Link!InEntry)]
     /\ delivered \in [Link!Channels -> Seq(Nat)]
     /\ outbound \in [Link!Channels -> Seq(Link!OutEntry)]
     /\ onWire \in [Link!Channels -> Seq(Link!OutEntry)]
     /\ sealCount \in Nat /\ buffered \in Nat /\ missed \in Misses /\ roomVerdict \in RoomVerdicts
  /\ Link!TransportShapes' <=> /\ relayLink' \in LinkRecords
     /\ inbound' \in [Link!Channels -> Seq(Link!InEntry)]
     /\ delivered' \in [Link!Channels -> Seq(Nat)]
     /\ outbound' \in [Link!Channels -> Seq(Link!OutEntry)]
     /\ onWire' \in [Link!Channels -> Seq(Link!OutEntry)]
     /\ sealCount' \in Nat /\ buffered' \in Nat /\ missed' \in Misses
     /\ roomVerdict' \in RoomVerdicts
BY DEF Link!TransportShapes, LinkRecords, LinkStates, LinkReasons, Misses, RoomVerdicts

(* The verdict v on a room where the frames W wait.                         *)
Behind(W, fence) == {id \in W : id <= fence}
VerdictOk(v, W) ==
  /\ Link!IsFiniteSet(W) /\ v.pending = Link!Cardinality(W)
  /\ v.fence # 0 =>
       /\ v.fence <= v.last /\ v.remaining = Link!Cardinality(Behind(W, v.fence))
       /\ v.remaining = 0 /\ ~v.opened => v.reported
  /\ v.reported => v.fence # 0 /\ v.remaining = 0

LEMMA VerdictIs ==
  /\ Link!VerdictInv <=> VerdictOk(roomVerdict, Link!Waiting)
  /\ Link!VerdictInv' <=> VerdictOk(roomVerdict', Link!Waiting')
BY DEF Link!VerdictInv, VerdictOk, Behind, Link!Fenced

LEMMA NoteKeeps ==
  ASSUME NEW v \in RoomVerdicts, NEW W, VerdictOk(v, W), W \subseteq 1..v.last, W # {}
  PROVE  /\ Link!NoteFailed(v) \in RoomVerdicts /\ VerdictOk(Link!NoteFailed(v), W)
         /\ Link!NoteFailed(v).last = v.last
<1>1. PICK failed \in Nat : failed = IF v.failed < Threshold THEN v.failed + 1 ELSE v.failed
  BY DEF RoomVerdicts
<1>2. CASE v.opened \/ v.reported
  BY <1>2 DEF Link!NoteFailed
<1>3. CASE ~(v.opened \/ v.reported) /\ (failed < Threshold \/ v.fence # 0)
  <2>1. Link!NoteFailed(v) = [v EXCEPT !.failed = failed]
    BY <1>1, <1>3 DEF Link!NoteFailed
  <2>2. PICK w : w = [v EXCEPT !.failed = failed]
    OBVIOUS
  <2>3. /\ w \in RoomVerdicts /\ w.opened = v.opened /\ w.pending = v.pending /\ w.last = v.last
        /\ w.fence = v.fence /\ w.remaining = v.remaining /\ w.reported = v.reported
    BY <2>2 DEF RoomVerdicts
  <2>. QED
    BY <2>1, <2>2, <2>3 DEF VerdictOk
<1>4. CASE ~(v.opened \/ v.reported) /\ ~(failed < Threshold \/ v.fence # 0)
  <2>1. PICK w : w = [v EXCEPT !.failed = failed, !.fence = v.last, !.remaining = v.pending]
    OBVIOUS
  <2>2. Link!NoteFailed(v) = w
    BY <1>1, <1>4, <2>1 DEF Link!NoteFailed
  <2>3. /\ w \in RoomVerdicts /\ w.opened = v.opened /\ w.pending = v.pending /\ w.last = v.last
        /\ w.fence = v.last /\ w.remaining = v.pending /\ w.reported = v.reported
    BY <2>1 DEF RoomVerdicts
  <2>4. Behind(W, v.last) = W
    <3>1. PICK last \in Nat : last = v.last
      BY DEF RoomVerdicts
    <3>2. \A id \in W : id <= last
      BY <3>1
    <3>. QED
      BY <3>1, <3>2 DEF Behind
  <2>5. Link!Cardinality(W) # 0
    BY FS_EmptySet, TransportCount DEF VerdictOk
  <2>6. Link!IsFiniteSet(W) /\ v.pending = Link!Cardinality(W)
    BY DEF VerdictOk
  <2>7. w.fence <= w.last /\ ~w.reported /\ w.remaining # 0
    <3>1. v.last \in Nat
      BY DEF RoomVerdicts
    <3>. QED
      BY <1>4, <2>3, <2>5, <2>6, <3>1
  <2>8. VerdictOk(w, W)
    BY <2>3, <2>4, <2>6, <2>7 DEF VerdictOk
  <2>. QED
    BY <2>2, <2>3, <2>8
<1>. QED
  BY <1>2, <1>3, <1>4

(* The frame id settles: it no longer waits, and the verdict is reached     *)
(* with the last one behind its fence.                                      *)
LEMMA VerdictKeeps ==
  ASSUME NEW v \in RoomVerdicts, NEW W, VerdictOk(v, W), W \subseteq 1..v.last, NEW id \in W,
         NEW w, w = Link!Settles([v EXCEPT !.pending = @ - 1], id)
  PROVE  w \in RoomVerdicts /\ VerdictOk(w, W \ {id}) /\ w.last = v.last
<1>1. PICK u : u = [v EXCEPT !.pending = v.pending - 1]
  OBVIOUS
<1>2. /\ u \in RoomVerdicts /\ u.opened = v.opened /\ u.pending = v.pending - 1 /\ u.last = v.last
      /\ u.fence = v.fence /\ u.remaining = v.remaining /\ u.reported = v.reported
  <2>1. PICK k \in Int : k = v.pending - 1
    BY DEF RoomVerdicts
  <2>. QED
    BY <1>1, <2>1 DEF RoomVerdicts
<1>3. w = Link!Settles(u, id)
  BY <1>1
<1>4. Link!IsFiniteSet(W \ {id}) /\ Link!Cardinality(W \ {id}) = Link!Cardinality(W) - 1
  BY FS_RemoveElement, TransportCount DEF VerdictOk
<1>5. CASE v.fence = 0
  <2>1. w = u
    BY <1>2, <1>3, <1>5 DEF Link!Settles
  <2>. QED
    BY <1>2, <1>4, <1>5, <2>1 DEF VerdictOk
<1>6. CASE v.fence # 0
  <2>1. PICK remaining : remaining = IF id <= u.fence THEN u.remaining - 1 ELSE u.remaining
    OBVIOUS
  <2>2. remaining \in Int
    BY <1>2, <2>1 DEF RoomVerdicts
  <2>3. PICK reported \in BOOLEAN : reported = (u.reported \/ (remaining = 0 /\ ~u.opened))
    OBVIOUS
  <2>4. w
          = [u EXCEPT !.remaining = remaining, !.reported = u.reported \/ (remaining = 0 /\ ~u.opened)]
    BY <1>2, <1>3, <1>6, <2>1 DEF Link!Settles, RoomVerdicts
  <2>5. w = [u EXCEPT !.remaining = remaining, !.reported = reported]
    BY <2>3, <2>4, Zenon
  <2>6. /\ w \in RoomVerdicts /\ w.opened = u.opened /\ w.pending = u.pending /\ w.last = u.last
        /\ w.fence = u.fence /\ w.remaining = remaining /\ w.reported = reported
    BY <1>2, <2>2, <2>5 DEF RoomVerdicts
  <2>7. PICK B : B = Behind(W, v.fence)
    OBVIOUS
  <2>8. Link!IsFiniteSet(B) /\ v.remaining = Link!Cardinality(B)
    BY <1>6, <2>7, FS_Subset, TransportCount DEF VerdictOk, Behind
  <2>9. remaining = Link!Cardinality(Behind(W \ {id}, v.fence))
    <3>1. CASE id <= v.fence
      <4>1. id \in B /\ Behind(W \ {id}, v.fence) = B \ {id}
        BY <2>7, <3>1 DEF Behind
      <4>2. Link!Cardinality(B \ {id}) = Link!Cardinality(B) - 1
        BY <2>8, <4>1, FS_RemoveElement, TransportCount
      <4>. QED
        BY <1>2, <2>1, <2>8, <3>1, <4>1, <4>2
    <3>2. CASE ~(id <= v.fence)
      <4>1. Behind(W \ {id}, v.fence) = B
        BY <2>7, <3>2 DEF Behind
      <4>. QED
        BY <1>2, <2>1, <2>8, <3>2, <4>1
    <3>. QED
      BY <3>1, <3>2
  <2>10. v.reported => remaining = 0
    <3>1. SUFFICES ASSUME v.reported PROVE remaining = 0
      OBVIOUS
    <3>2. Link!Cardinality(B) = 0
      BY <2>8, <3>1 DEF VerdictOk
    <3>3. B = {}
      BY <2>8, <3>2, FS_EmptySet, TransportCount
    <3>4. ~(id <= v.fence)
      BY <2>7, <3>3 DEF Behind
    <3>. QED
      BY <1>2, <2>1, <2>8, <3>2, <3>4
  <2>. QED
    BY <1>2, <1>4, <1>6, <2>3, <2>6, <2>9, <2>10 DEF VerdictOk
<1>. QED
  BY <1>5, <1>6

-----------------------------------------------------------------------------
(* What waits, before and after.                                            *)
Queues == [Link!Channels -> Seq(Link!InEntry)]
Ids(f) == {x \in Nat : \E c \in Link!Channels : \E i \in DOMAIN f[c] : x = f[c][i].id}
Apart(f, last) ==
  /\ \A c, d \in Link!Channels : \A i \in DOMAIN f[c], j \in DOMAIN f[d] :
       f[c][i].id = f[d][j].id => c = d /\ i = j
  /\ \A c \in Link!Channels : \A i \in DOMAIN f[c] : f[c][i].id \in 1..last

LEMMA EntriesAre ==
  ASSUME NEW f \in Queues, NEW c \in Link!Channels, NEW i \in DOMAIN f[c]
  PROVE  f[c][i] \in Link!InEntry /\ f[c][i].id \in Nat
<1>1. f[c] \in Seq(Link!InEntry)
  BY DEF Queues
<1>2. f[c][i] \in Link!InEntry
  BY <1>1, LenProperties
<1>. QED
  BY <1>2 DEF Link!InEntry

LEMMA WaitingIs == inbound \in Queues => Link!Waiting = Ids(inbound)
<1>. SUFFICES ASSUME inbound \in Queues PROVE Link!Waiting = Ids(inbound)
  OBVIOUS
<1>1. ASSUME NEW x \in Link!Waiting
      PROVE  x \in Ids(inbound)
  <2>1. PICK c \in Link!Channels : \E i \in DOMAIN inbound[c] : x = inbound[c][i].id
    BY DEF Link!Waiting, Link!WaitingOn, Link!Channels
  <2>2. PICK i \in DOMAIN inbound[c] : x = inbound[c][i].id
    BY <2>1
  <2>3. x \in Nat
    BY <2>2, EntriesAre
  <2>. QED
    BY <2>2, <2>3 DEF Ids
<1>2. Ids(inbound) \subseteq Link!Waiting
  BY DEF Link!Waiting, Link!WaitingOn, Link!Channels, Ids
<1>. QED
  BY <1>1, <1>2

LEMMA WaitingIsThen == inbound' \in Queues => Link!Waiting' = Ids(inbound')
<1>. SUFFICES ASSUME inbound' \in Queues PROVE Link!Waiting' = Ids(inbound')
  OBVIOUS
<1>1. ASSUME NEW x \in Link!Waiting'
      PROVE  x \in Ids(inbound')
  <2>1. PICK c \in Link!Channels : \E i \in DOMAIN inbound'[c] : x = inbound'[c][i].id
    BY DEF Link!Waiting, Link!WaitingOn, Link!Channels
  <2>2. PICK i \in DOMAIN inbound'[c] : x = inbound'[c][i].id
    BY <2>1
  <2>3. x \in Nat
    BY <2>2, EntriesAre
  <2>. QED
    BY <2>2, <2>3 DEF Ids
<1>2. Ids(inbound') \subseteq Link!Waiting'
  BY DEF Link!Waiting, Link!WaitingOn, Link!Channels, Ids
<1>. QED
  BY <1>1, <1>2

LEMMA NumberedIs ==
  /\ Link!NumberedInv <=> Apart(inbound, roomVerdict.last)
  /\ Link!NumberedInv' <=> Apart(inbound', roomVerdict'.last)
BY DEF Link!NumberedInv, Apart

LEMMA IdsAreBounded ==
  ASSUME NEW f, NEW last, Apart(f, last)
  PROVE  Ids(f) \subseteq 1..last
BY DEF Ids, Apart

Came(g, f, channel, e) == g = [f EXCEPT ![channel] = Append(@, e)]
After(g, f, last, id) ==
  g \in Queues /\ Apart(g, last) /\ id \in Ids(f) /\ Ids(g) = Ids(f) \ {id}
Beside(g, f, last, id) ==
  g \in Queues /\ Apart(g, id) /\ Ids(g) = Ids(f) \union {id} /\ id \notin Ids(f) /\ id = last + 1

(* One that waited settles.                                                 *)
LEMMA OneSettles ==
  ASSUME NEW f \in Queues, NEW last, Apart(f, last), NEW channel \in Link!Channels,
         NEW i \in DOMAIN f[channel],
         NEW g, Removed(g, f, channel, i)
  PROVE  After(g, f, last, f[channel][i].id)
<1>1. /\ g \in Queues
      /\ \A c \in Link!Channels : \A j \in DOMAIN g[c] :
           \E k \in DOMAIN f[c] : /\ g[c][j] = f[c][k]
                                 /\ k = IF c = channel /\ j >= i THEN j + 1 ELSE j
      /\ \A c \in Link!Channels : \A k \in DOMAIN f[c] :
           c # channel \/ k # i => \E j \in DOMAIN g[c] : g[c][j] = f[c][k]
  <2>1. f \in [Link!Channels -> Seq(Link!InEntry)]
    BY DEF Queues
  <2>2. g \in [Link!Channels -> Seq(Link!InEntry)] /\ Others(g, f, channel, i)
    BY <2>1, OthersRemain
  <2>. QED
    BY <2>2 DEF Queues, Others
<1>2. i \in Nat /\ \A c \in Link!Channels : \A j \in DOMAIN g[c] : j \in Nat
  <2>1. f[channel] \in Seq(Link!InEntry) /\ \A c \in Link!Channels : g[c] \in Seq(Link!InEntry)
    BY <1>1 DEF Queues
  <2>. QED
    BY <2>1, LenProperties
<1>3. Apart(g, last)
  <2>1. ASSUME NEW c \in Link!Channels, NEW d \in Link!Channels, NEW j \in DOMAIN g[c],
               NEW l \in DOMAIN g[d],
               g[c][j].id = g[d][l].id
        PROVE  c = d /\ j = l
    <3>1. PICK k \in DOMAIN f[c] : g[c][j] = f[c][k] /\ k = IF c = channel /\ j >= i THEN j + 1 ELSE j
      BY <1>1
    <3>2. PICK m \in DOMAIN f[d] : g[d][l] = f[d][m] /\ m = IF d = channel /\ l >= i THEN l + 1 ELSE l
      BY <1>1
    <3>3. c = d /\ k = m
      BY <2>1, <3>1, <3>2 DEF Apart
    <3>4. j \in Nat /\ l \in Nat
      BY <1>2
    <3>. QED
      BY <1>2, <3>1, <3>2, <3>3, <3>4
  <2>2. ASSUME NEW c \in Link!Channels, NEW j \in DOMAIN g[c]
        PROVE  g[c][j].id \in 1..last
    BY <1>1 DEF Apart
  <2>. QED
    BY <2>1, <2>2 DEF Apart
<1>4. f[channel][i].id \in Ids(f)
  BY EntriesAre DEF Ids
<1>5. ASSUME NEW x \in Ids(g)
      PROVE  x \in Ids(f) \ {f[channel][i].id}
  <2>1. PICK c \in Link!Channels, j \in Nat : j \in DOMAIN g[c] /\ x = g[c][j].id
    BY <1>2 DEF Ids
  <2>2. PICK k \in DOMAIN f[c] : g[c][j] = f[c][k] /\ k = IF c = channel /\ j >= i THEN j + 1 ELSE j
    BY <1>1, <2>1
  <2>3. c # channel \/ k # i
    BY <1>2, <2>2
  <2>4. x # f[channel][i].id
    BY <2>1, <2>2, <2>3 DEF Apart
  <2>5. x \in Nat
    BY DEF Ids
  <2>. QED
    BY <2>1, <2>2, <2>4, <2>5 DEF Ids
<1>6. ASSUME NEW x \in Ids(f), x # f[channel][i].id
      PROVE  x \in Ids(g)
  <2>1. PICK c \in Link!Channels : \E k \in DOMAIN f[c] : x = f[c][k].id
    BY DEF Ids
  <2>2. PICK k \in DOMAIN f[c] : x = f[c][k].id
    BY <2>1
  <2>3. c # channel \/ k # i
    BY <1>6, <2>2
  <2>4. PICK j \in DOMAIN g[c] : g[c][j] = f[c][k]
    BY <1>1, <2>3
  <2>5. x \in Nat
    BY DEF Ids
  <2>. QED
    BY <2>2, <2>4, <2>5 DEF Ids
<1>. QED
  BY <1>1, <1>3, <1>4, <1>5, <1>6 DEF After

(* One more waits.                                                          *)
LEMMA OneArrives ==
  ASSUME NEW f \in Queues, NEW last \in Nat, Apart(f, last), NEW channel \in Link!Channels,
         NEW e \in Link!InEntry, e.id = last + 1, NEW g, Came(g, f, channel, e)
  PROVE  Beside(g, f, last, e.id)
<1>. DEFINE s == f[channel]
<1>1. s \in Seq(Link!InEntry) /\ Len(s) \in Nat /\ DOMAIN s = 1..Len(s)
  BY LenProperties DEF Queues
<1>2. PICK t : t = Append(s, e)
  OBVIOUS
<1>4. g = [f EXCEPT ![channel] = t]
  BY <1>2 DEF Came
<1>3. /\ t \in Seq(Link!InEntry) /\ DOMAIN t = 1..(Len(s) + 1)
      /\ t[Len(s) + 1] = e /\ \A j \in 1..Len(s) : t[j] = s[j]
  BY <1>1, <1>2
<1>5. g \in Queues
  BY <1>3, <1>4 DEF Queues
<1>6. ASSUME NEW c \in Link!Channels, NEW j \in DOMAIN g[c]
      PROVE  \/ j \in DOMAIN f[c] /\ g[c][j] = f[c][j]
             \/ c = channel /\ j = Len(s) + 1 /\ g[c][j] = e
  <2>1. CASE c = channel
    BY <1>1, <1>3, <1>4, <2>1 DEF Queues
  <2>2. CASE c # channel
    BY <1>4, <2>2 DEF Queues
  <2>. QED
    BY <2>1, <2>2
<1>7. ASSUME NEW c \in Link!Channels, NEW j \in DOMAIN f[c]
      PROVE  j \in DOMAIN g[c] /\ g[c][j] = f[c][j]
  <2>1. CASE c = channel
    BY <1>1, <1>3, <1>4, <2>1 DEF Queues
  <2>2. CASE c # channel
    BY <1>4, <2>2 DEF Queues
  <2>. QED
    BY <2>1, <2>2
<1>8. Len(s) + 1 \in DOMAIN g[channel] /\ g[channel][Len(s) + 1] = e
  BY <1>1, <1>3, <1>4 DEF Queues
<1>9. \A c \in Link!Channels : \A j \in DOMAIN f[c] : f[c][j].id \in 1..last
  BY DEF Apart
<1>10. Apart(g, last + 1)
  <2>1. ASSUME NEW c \in Link!Channels, NEW d \in Link!Channels, NEW j \in DOMAIN g[c],
               NEW l \in DOMAIN g[d],
               g[c][j].id = g[d][l].id
        PROVE  c = d /\ j = l
    <3>1. CASE j \in DOMAIN f[c] /\ g[c][j] = f[c][j] /\ l \in DOMAIN f[d] /\ g[d][l] = f[d][l]
      BY <2>1, <3>1 DEF Apart
    <3>2. CASE j \in DOMAIN f[c] /\ g[c][j] = f[c][j] /\ g[d][l] = e
      <4>1. f[c][j].id \in 1..last
        BY <1>9, <3>2
      <4>. QED
        BY <2>1, <3>2, <4>1
    <3>3. CASE l \in DOMAIN f[d] /\ g[d][l] = f[d][l] /\ g[c][j] = e
      <4>1. f[d][l].id \in 1..last
        BY <1>9, <3>3
      <4>. QED
        BY <2>1, <3>3, <4>1
    <3>. QED
      BY <1>6, <3>1, <3>2, <3>3
  <2>2. ASSUME NEW c \in Link!Channels, NEW j \in DOMAIN g[c]
        PROVE  g[c][j].id \in 1..(last + 1)
    <3>1. CASE j \in DOMAIN f[c] /\ g[c][j] = f[c][j]
      <4>1. f[c][j].id \in 1..last
        BY <1>9, <3>1
      <4>. QED
        BY <3>1, <4>1
    <3>2. CASE g[c][j] = e
      BY <3>2
    <3>. QED
      BY <1>6, <3>1, <3>2
  <2>. QED
    BY <2>1, <2>2 DEF Apart
<1>11. ASSUME NEW x \in Ids(g)
       PROVE  x \in Ids(f) \union {last + 1}
  <2>1. PICK c \in Link!Channels : \E j \in DOMAIN g[c] : x = g[c][j].id
    BY DEF Ids
  <2>2. PICK j \in DOMAIN g[c] : x = g[c][j].id
    BY <2>1
  <2>3. x \in Nat
    BY DEF Ids
  <2>. QED
    BY <1>6, <2>2, <2>3 DEF Ids
<1>12. ASSUME NEW x \in Ids(f)
       PROVE  x \in Ids(g)
  <2>1. PICK c \in Link!Channels : \E j \in DOMAIN f[c] : x = f[c][j].id
    BY DEF Ids
  <2>. QED
    BY <1>7, <2>1 DEF Ids
<1>13. last + 1 \in Ids(g)
  BY <1>8 DEF Ids
<1>14. last + 1 \notin Ids(f)
  <2>1. SUFFICES ASSUME last + 1 \in Ids(f) PROVE FALSE
    OBVIOUS
  <2>2. last + 1 \in 1..last
    BY <2>1, IdsAreBounded
  <2>. QED
    BY <2>2
<1>. QED
  BY <1>5, <1>10, <1>11, <1>12, <1>13, <1>14 DEF Beside

-----------------------------------------------------------------------------
(* The two sides of a connection.                                           *)
OutVars == <<sealCount, outbound, buffered, onWire>>
Inward ==
  /\ inbound' \in Queues /\ roomVerdict' \in RoomVerdicts /\ missed' \in Misses
  /\ delivered' \in [Link!Channels -> Seq(Nat)]
  /\ Link!DeliveredInv' /\ Link!NumberedInv' /\ Link!VerdictInv' /\ Link!MissedInv'
Outward ==
  /\ outbound' \in [Link!Channels -> Seq(Link!OutEntry)]
  /\ onWire' \in [Link!Channels -> Seq(Link!OutEntry)]
  /\ sealCount' \in Nat /\ buffered' \in Nat /\ Link!OrderInv' /\ Link!BoundInv'

LEMMA Whole == relayLink' \in LinkRecords /\ Inward /\ Outward => Link!TransportInv'
BY TransportShapesAre DEF Inward, Outward, Link!TransportInv, Queues

LEMMA OutwardRests ==
  ASSUME Link!TransportInv, relayLink'.number = relayLink.number, UNCHANGED OutVars
  PROVE  Outward
<1>1. /\ outbound \in [Link!Channels -> Seq(Link!OutEntry)] /\ onWire \in [Link!Channels -> Seq(Link!OutEntry)]
      /\ sealCount \in Nat /\ buffered \in Nat
  BY TransportShapesAre DEF Link!TransportInv
<1>2. outbound' = outbound /\ onWire' = onWire /\ sealCount' = sealCount /\ buffered' = buffered
  BY DEF OutVars
<1>3. Link!OrderInv'
  BY <1>2 DEF Link!TransportInv, Link!OrderInv
<1>4. \A c \in Link!Channels : Link!Mine(outbound[c])' = Link!Mine(outbound[c])
  BY <1>2 DEF Link!Mine
<1>5. Link!Pending' = Link!Pending
  BY <1>4 DEF Link!Pending, Link!Channels
<1>6. Link!BoundInv'
  BY <1>2, <1>4, <1>5 DEF Link!TransportInv, Link!BoundInv, Link!SentInOrder
<1>. QED
  BY <1>1, <1>2, <1>3, <1>6 DEF Outward

LEMMA InwardRests ==
  ASSUME Link!TransportInv, UNCHANGED <<inbound, openedOnce, delivered, roomVerdict, missed>>
  PROVE  Inward
<1>1. /\ inbound \in Queues /\ delivered \in [Link!Channels -> Seq(Nat)]
      /\ missed \in Misses /\ roomVerdict \in RoomVerdicts
  BY TransportShapesAre DEF Link!TransportInv, Queues
<1>2. Link!DeliveredInv'
  BY DEF Link!TransportInv, Link!DeliveredInv, Link!OpenedOnce
<1>3. Link!NumberedInv' /\ Link!VerdictInv'
  <2>1. Link!Waiting' = Link!Waiting
    BY <1>1, WaitingIs, WaitingIsThen
  <2>. QED
    BY <2>1, NumberedIs, VerdictIs DEF Link!TransportInv
<1>4. Link!MissedInv'
  BY DEF Link!TransportInv, Link!MissedInv
<1>. QED
  BY <1>1, <1>2, <1>3, <1>4 DEF Inward

-----------------------------------------------------------------------------
LEMMA DropStep ==
  ASSUME Link!TransportInv, NEW reason \in LinkReasons, Link!Drop(reason)
  PROVE  Link!TransportInv'
<1>1. /\ relayLink \in LinkRecords /\ inbound \in Queues /\ delivered \in [Link!Channels -> Seq(Nat)]
      /\ missed \in Misses /\ roomVerdict \in RoomVerdicts
  BY TransportShapesAre DEF Link!TransportInv, Queues
<1>2. relayLink' \in LinkRecords /\ relayLink'.number = relayLink.number
  BY <1>1 DEF Link!Drop, LinkRecords, LinkStates
<1>3. UNCHANGED <<openedOnce, delivered, roomVerdict, missed>> /\ UNCHANGED OutVars
  BY DEF Link!Drop, OutVars
<1>4. Outward
  BY <1>2, <1>3, OutwardRests
<1>5. ASSUME NEW c \in Link!Channels
      PROVE  /\ inbound'[c] \in Seq(Link!InEntry) /\ DOMAIN inbound'[c] = DOMAIN inbound[c]
             /\ \A i \in DOMAIN inbound[c] : inbound'[c][i].id = inbound[c][i].id
  <2>. DEFINE s == inbound[c]
              begun(i) == s[i].begun \/ (i \in Link!Firsts(s) /\ s[i].number = relayLink.number)
  <2>1. s \in Seq(Link!InEntry) /\ Len(s) \in Nat /\ DOMAIN s = 1..Len(s)
    BY <1>1, LenProperties DEF Queues
  <2>2. inbound'[c] = [i \in DOMAIN s |-> [s[i] EXCEPT !.begun = begun(i)]]
    BY DEF Link!Drop
  <2>3. ASSUME NEW i \in DOMAIN s
        PROVE  [s[i] EXCEPT !.begun = begun(i)] \in Link!InEntry /\ [s[i] EXCEPT !.begun = begun(i)].id = s[i].id
    <3>1. PICK e \in Link!InEntry : e = s[i]
      BY <1>1, EntriesAre
    <3>2. PICK b \in BOOLEAN : b = begun(i)
      BY <3>1 DEF Link!InEntry
    <3>3. [e EXCEPT !.begun = b] \in Link!InEntry /\ [e EXCEPT !.begun = b].id = e.id
      BY DEF Link!InEntry
    <3>. QED
      BY <3>1, <3>2, <3>3
  <2>. HIDE DEF begun
  <2>4. PICK t : t = [i \in 1..Len(s) |-> [s[i] EXCEPT !.begun = begun(i)]]
    OBVIOUS
  <2>5. t \in [1..Len(s) -> Link!InEntry]
    BY <2>1, <2>3, <2>4
  <2>6. t \in Seq(Link!InEntry) /\ DOMAIN t = 1..Len(s)
    BY <2>1, <2>5, SeqDef
  <2>. QED
    BY <2>1, <2>2, <2>3, <2>4, <2>6
<1>6. inbound' \in Queues
  BY <1>5 DEF Link!Drop, Queues
<1>7. /\ Ids(inbound') = Ids(inbound)
      /\ (Apart(inbound, roomVerdict.last) => Apart(inbound', roomVerdict.last))
  BY <1>5 DEF Ids, Apart
<1>8. Link!NumberedInv' /\ Link!VerdictInv'
  BY <1>1, <1>3, <1>6, <1>7, WaitingIs, WaitingIsThen, NumberedIs, VerdictIs DEF Link!TransportInv
<1>9. Link!DeliveredInv' /\ Link!MissedInv'
  BY <1>3 DEF Link!TransportInv, Link!DeliveredInv, Link!OpenedOnce, Link!MissedInv
<1>10. Inward
  BY <1>1, <1>3, <1>6, <1>8, <1>9 DEF Inward
<1>. QED
  BY <1>2, <1>4, <1>10, Whole

LEMMA ReasonsAre == \A code : Link!Reason(code) \in LinkReasons
BY DEF Link!Reason, LinkReasons

LEMMA ConnectStep ==
  ASSUME Link!TransportBounds, Link!TransportInv, Link!Connect
  PROVE  Link!TransportInv'
<1>1. /\ relayLink \in LinkRecords /\ inbound \in Queues /\ delivered \in [Link!Channels -> Seq(Nat)]
      /\ missed \in Misses /\ roomVerdict \in RoomVerdicts
      /\ outbound \in [Link!Channels -> Seq(Link!OutEntry)] /\ sealCount \in Nat
  BY TransportShapesAre DEF Link!TransportInv, Queues
<1>2. relayLink.number \in Nat
  BY <1>1 DEF LinkRecords
<1>3. relayLink' \in LinkRecords /\ relayLink'.number = relayLink.number + 1
  BY <1>2 DEF Link!Connect, LinkRecords, LinkStates, LinkReasons
<1>4. /\ UNCHANGED <<inbound, openedOnce, roomVerdict, sealCount, outbound>>
      /\ delivered' = Link!Empty
      /\ onWire' = Link!Empty
      /\ buffered' = 0
  BY DEF Link!Connect
<1>5. missed' \in Misses /\ Link!MissedInv'
  <2>1. missed.amiss = FALSE
    BY <1>1 DEF Link!TransportInv, Link!MissedInv, Misses
  <2>2. missed' = [reported |-> FALSE, told |-> FALSE, amiss |-> FALSE]
    BY <2>1 DEF Link!Connect, Link!Untold
  <2>. QED
    BY <2>2 DEF Misses, Link!MissedInv
<1>6. /\ Link!Empty \in [Link!Channels -> Seq(Nat)] /\ Link!Empty \in [Link!Channels -> Seq(Link!OutEntry)]
      /\ \A c \in Link!Channels : DOMAIN Link!Empty[c] = {}
  BY EmptySeq, LenProperties DEF Link!Empty
<1>7. Link!DeliveredInv'
  BY <1>4, <1>6 DEF Link!DeliveredInv, Link!OpenedOnce
<1>8. Link!NumberedInv' /\ Link!VerdictInv'
  BY <1>1, <1>4, WaitingIs, WaitingIsThen, NumberedIs, VerdictIs DEF Link!TransportInv
<1>9. Inward
  BY <1>1, <1>4, <1>5, <1>6, <1>7, <1>8 DEF Inward
<1>10. \A c \in Link!Channels : \A i \in DOMAIN outbound[c] : outbound[c][i].number <= relayLink.number /\ outbound[c][i].number \in Nat
  <2>1. ASSUME NEW c \in Link!Channels, NEW i \in DOMAIN outbound[c]
        PROVE  outbound[c][i] \in Link!OutEntry
    BY <1>1, LenProperties
  <2>. QED
    BY <2>1 DEF Link!TransportInv, Link!OrderInv, Link!OutEntry
<1>11. Link!OrderInv'
  BY <1>2, <1>3, <1>4, <1>6, <1>10 DEF Link!TransportInv, Link!OrderInv
<1>12. \A c \in Link!Channels : Link!Mine(outbound[c])' = {}
  BY <1>2, <1>3, <1>4, <1>10 DEF Link!Mine, Link!ToSet
<1>13. Link!Pending' = 0
  BY <1>12, FS_EmptySet, TransportCount DEF Link!Pending, Link!Channels
<1>14. Link!BoundInv'
  <2>1. \A c \in Link!Channels : DOMAIN onWire'[c] = {}
    BY <1>4, <1>6
  <2>2. buffered' + Link!Pending' <= MaxBuffered
    BY <1>4, <1>13 DEF Link!TransportBounds
  <2>3. \A c \in Link!Channels : Link!IsFiniteSet(Link!Mine(outbound[c])')
    BY <1>12, FS_EmptySet, TransportCount
  <2>4. Link!SentInOrder'
    BY <2>1, <2>2 DEF Link!SentInOrder
  <2>. QED
    BY <2>3, <2>4 DEF Link!BoundInv
<1>15. Outward
  BY <1>1, <1>4, <1>6, <1>11, <1>14 DEF Outward
<1>. QED
  BY <1>3, <1>9, <1>15, Whole

LEMMA LinkStep ==
  ASSUME Link!TransportBounds, Link!TransportInv, Link!LinkNext
  PROVE  Link!TransportInv'
<1>1. CASE Link!Connect
  BY <1>1, ConnectStep
<1>2. CASE Link!Disconnect
  BY <1>2, DropStep DEF Link!Disconnect, LinkReasons
<1>3. ASSUME NEW sameRoom \in BOOLEAN, Link!ReceiveJoined(sameRoom)
      PROVE  Link!TransportInv'
  <2>1. CASE Link!Joined \/ ~sameRoom
    BY <1>3, <2>1, DropStep DEF Link!ReceiveJoined, LinkReasons
  <2>2. CASE ~(Link!Joined \/ ~sameRoom)
    <3>1. relayLink' = [relayLink EXCEPT !.state = "connected"]
          /\ UNCHANGED <<inbound, openedOnce, delivered, roomVerdict, missed, sealCount, outbound, buffered, onWire>>
      BY <1>3, <2>2 DEF Link!ReceiveJoined
    <3>2. relayLink' \in LinkRecords /\ relayLink'.number = relayLink.number
      BY <3>1, TransportShapesAre DEF Link!TransportInv, LinkRecords, LinkStates
    <3>. QED
      BY <3>1, <3>2, InwardRests, OutwardRests, Whole DEF OutVars
  <2>. QED
    BY <2>1, <2>2
<1>4. ASSUME NEW code \in Link!Codes, Link!SocketCloses(code)
      PROVE  Link!TransportInv'
  BY <1>4, DropStep, ReasonsAre DEF Link!SocketCloses
<1>. QED
  BY <1>1, <1>2, <1>3, <1>4 DEF Link!LinkNext

-----------------------------------------------------------------------------
LEMMA ArrivesStep ==
  ASSUME Link!TransportBounds, Link!TransportInv, NEW channel \in Link!Channels,
         NEW n \in 1..MaxWireFrames,
         Link!FrameArrives(channel, n)
  PROVE  Link!TransportInv'
<1>1. /\ relayLink \in LinkRecords /\ inbound \in Queues /\ delivered \in [Link!Channels -> Seq(Nat)]
      /\ missed \in Misses /\ roomVerdict \in RoomVerdicts
  BY TransportShapesAre DEF Link!TransportInv, Queues
<1>2. UNCHANGED <<relayLink, openedOnce, delivered>> /\ UNCHANGED OutVars
  BY DEF Link!FrameArrives, OutVars
<1>3. Outward
  BY <1>2, OutwardRests
<1>4. Link!DeliveredInv'
  BY <1>2 DEF Link!TransportInv, Link!DeliveredInv, Link!OpenedOnce
<1>5. CASE Link!Cardinality(Link!Mine(inbound[channel])) < MaxInbound
  <2>1. /\ inbound' = [inbound EXCEPT ![channel] = Append(@, Link!Entry(n))]
        /\ roomVerdict' = [roomVerdict EXCEPT !.pending = @ + 1, !.last = @ + 1] /\ missed' = missed
    BY <1>5 DEF Link!FrameArrives
  <2>2. /\ roomVerdict.last \in Nat
        /\ roomVerdict.pending \in Int
        /\ relayLink.number \in Nat
        /\ n \in Nat
    BY <1>1 DEF RoomVerdicts, LinkRecords, Link!TransportBounds
  <2>3. PICK e \in Link!InEntry : e = Link!Entry(n) /\ e.id = roomVerdict.last + 1
    <3>1. PICK k \in Nat : k = roomVerdict.last + 1
      BY <2>2
    <3>2. PICK e : e = [n |-> n, id |-> k, number |-> relayLink.number, begun |-> FALSE]
      OBVIOUS
    <3>3. e \in Link!InEntry /\ e.id = k
      BY <2>2, <3>2 DEF Link!InEntry
    <3>. QED
      BY <3>1, <3>2, <3>3 DEF Link!Entry
  <2>4. inbound' = [inbound EXCEPT ![channel] = Append(@, e)]
    BY <2>1, <2>3
  <2>5. Apart(inbound, roomVerdict.last)
    BY NumberedIs DEF Link!TransportInv
  <2>6. /\ inbound' \in Queues /\ Apart(inbound', roomVerdict.last + 1)
        /\ Ids(inbound') = Ids(inbound) \union {roomVerdict.last + 1}
        /\ roomVerdict.last + 1 \notin Ids(inbound)
    <3>1. PICK g : g = inbound'
      OBVIOUS
    <3>2. PICK f \in Queues, last \in Nat : f = inbound /\ last = roomVerdict.last
      BY <1>1, <2>2
    <3>3. Came(g, f, channel, e)
      BY <2>4, <3>1, <3>2 DEF Came
    <3>4. e.id = last + 1
      BY <2>3, <3>2
    <3>5. Apart(f, last)
      BY <2>5, <3>2
    <3>6. Beside(g, f, last, e.id)
      BY <3>3, <3>4, <3>5, OneArrives
    <3>. QED
      BY <3>1, <3>2, <3>4, <3>6 DEF Beside
  <2>7. PICK v : v = [roomVerdict EXCEPT !.pending = roomVerdict.pending + 1, !.last = roomVerdict.last + 1]
    OBVIOUS
  <2>8. roomVerdict' = v
    BY <1>1, <2>1, <2>7 DEF RoomVerdicts
  <2>9. /\ v \in RoomVerdicts /\ v.pending = roomVerdict.pending + 1 /\ v.last = roomVerdict.last + 1
        /\ v.opened = roomVerdict.opened /\ v.fence = roomVerdict.fence
        /\ v.remaining = roomVerdict.remaining
        /\ v.reported = roomVerdict.reported
    <3>1. PICK o \in RoomVerdicts : o = roomVerdict
      BY <1>1
    <3>2. PICK p \in Int, l \in Nat : p = roomVerdict.pending + 1 /\ l = roomVerdict.last + 1
      BY <2>2
    <3>3. v = [o EXCEPT !.pending = p, !.last = l]
      BY <2>7, <3>1, <3>2
    <3>4. /\ v \in RoomVerdicts /\ v.pending = p /\ v.last = l /\ v.opened = o.opened /\ v.fence = o.fence
          /\ v.remaining = o.remaining /\ v.reported = o.reported
      BY <3>3 DEF RoomVerdicts
    <3>. QED
      BY <3>1, <3>2, <3>4
  <2>10. VerdictOk(v, Ids(inbound'))
    <3>1. VerdictOk(roomVerdict, Ids(inbound))
      BY <1>1, VerdictIs, WaitingIs DEF Link!TransportInv
    <3>2. PICK W : W = Ids(inbound)
      OBVIOUS
    <3>3. PICK x : x = roomVerdict.last + 1
      OBVIOUS
    <3>4. Link!IsFiniteSet(W \union {x}) /\ Link!Cardinality(W \union {x}) = Link!Cardinality(W) + 1
      <4>1. Link!IsFiniteSet(W) /\ x \notin W
        BY <2>6, <3>1, <3>2, <3>3 DEF VerdictOk
      <4>. QED
        BY <4>1, FS_AddElement, TransportCount
    <3>5. roomVerdict.fence # 0 => Behind(W \union {x}, v.fence) = Behind(W, v.fence)
      <4>1. SUFFICES ASSUME roomVerdict.fence # 0 PROVE Behind(W \union {x}, v.fence) = Behind(W, v.fence)
        OBVIOUS
      <4>2. roomVerdict.fence <= roomVerdict.last /\ roomVerdict.fence \in Nat
        BY <1>1, <3>1, <4>1 DEF VerdictOk, RoomVerdicts
      <4>3. ~(x <= v.fence)
        BY <2>2, <2>9, <3>3, <4>2
      <4>. QED
        BY <4>3 DEF Behind
    <3>6. roomVerdict.fence \in Nat
      BY <1>1 DEF RoomVerdicts
    <3>7. roomVerdict.fence # 0 => v.fence <= v.last
      BY <2>2, <2>9, <3>1, <3>6 DEF VerdictOk
    <3>8. Ids(inbound') = W \union {x}
      BY <2>6, <3>2, <3>3
    <3>. QED
      BY <2>9, <3>1, <3>2, <3>4, <3>5, <3>7, <3>8 DEF VerdictOk
  <2>11. Link!NumberedInv'
    BY <2>6, <2>8, <2>9, NumberedIs
  <2>12. Link!VerdictInv'
    BY <2>6, <2>8, <2>10, VerdictIs, WaitingIsThen
  <2>13. Link!MissedInv'
    BY <2>1 DEF Link!TransportInv, Link!MissedInv
  <2>14. Inward
    BY <1>1, <1>2, <1>4, <2>1, <2>6, <2>8, <2>9, <2>11, <2>12, <2>13 DEF Inward
  <2>. QED
    BY <1>1, <1>2, <1>3, <2>14, Whole
<1>6. CASE ~(Link!Cardinality(Link!Mine(inbound[channel])) < MaxInbound)
  <2>1. /\ UNCHANGED <<inbound, roomVerdict>>
        /\ missed' = IF channel = "presence" THEN missed
                     ELSE [reported |-> TRUE, told |-> missed.told \/ ~missed.reported,
                           amiss |-> missed.amiss \/ missed.told # missed.reported]
    BY <1>6 DEF Link!FrameArrives
  <2>2. missed' \in Misses /\ Link!MissedInv'
    <3>1. CASE channel = "presence"
      BY <1>1, <2>1, <3>1 DEF Link!TransportInv, Link!MissedInv
    <3>2. CASE channel # "presence"
      <4>1. PICK m \in Misses : m = missed /\ ~m.amiss /\ m.reported = m.told
        BY <1>1 DEF Link!TransportInv, Link!MissedInv
      <4>2. PICK told \in BOOLEAN : told = (m.told \/ ~m.reported)
        OBVIOUS
      <4>3. PICK amiss \in BOOLEAN : amiss = (m.amiss \/ m.told # m.reported)
        OBVIOUS
      <4>4. missed' = [reported |-> TRUE, told |-> told, amiss |-> amiss]
        BY <2>1, <3>2, <4>1, <4>2, <4>3
      <4>5. told = TRUE /\ amiss = FALSE
        BY <4>1, <4>2, <4>3 DEF Misses
      <4>. QED
        BY <4>4, <4>5 DEF Misses, Link!MissedInv
    <3>. QED
      BY <3>1, <3>2
  <2>3. Link!NumberedInv' /\ Link!VerdictInv'
    BY <1>1, <2>1, WaitingIs, WaitingIsThen, NumberedIs, VerdictIs DEF Link!TransportInv
  <2>4. Inward
    BY <1>1, <1>2, <1>4, <2>1, <2>2, <2>3 DEF Inward
  <2>. QED
    BY <1>1, <1>2, <1>3, <2>4, Whole
<1>. QED
  BY <1>5, <1>6

(* A frame that waited settles: it is delivered once, and the verdict waits *)
(* for one frame less.                                                      *)
LEMMA OpenStep ==
  ASSUME Link!TransportInv, NEW channel \in Link!Channels, NEW i \in Link!Firsts(inbound[channel]),
         Link!OpenSettles(channel, i)
  PROVE  Link!TransportInv'
<1>1. /\ relayLink \in LinkRecords /\ inbound \in Queues /\ delivered \in [Link!Channels -> Seq(Nat)]
      /\ missed \in Misses /\ roomVerdict \in RoomVerdicts
  BY TransportShapesAre DEF Link!TransportInv, Queues
<1>2. UNCHANGED relayLink /\ UNCHANGED OutVars
  BY DEF Link!OpenSettles, OutVars
<1>3. Outward
  BY <1>2, OutwardRests
<1>4. i \in DOMAIN inbound[channel]
  BY DEF Link!Firsts
<1>5. PICK e \in Link!InEntry : e = inbound[channel][i]
  BY <1>1, <1>4, EntriesAre
<1>. DEFINE current == Link!Joined /\ e.number = relayLink.number
            drained == current /\ Link!Cardinality(Link!Mine(inbound[channel])) = 1
            begun == current \/ e.begun
            opens == begun /\ Link!Good(channel, e.n) /\ ~Link!Replayed(e, channel)
            after == IF opens THEN [roomVerdict EXCEPT !.opened = TRUE]
                     ELSE IF begun THEN Link!NoteFailed(roomVerdict)
                     ELSE [roomVerdict EXCEPT !.skipped = @ \/ (Link!Good(channel, e.n) /\ ~Link!Replayed(e, channel))]
<1>6. /\ inbound' = [inbound EXCEPT ![channel] = Link!RemoveAt(@, i)]
      /\ roomVerdict' = Link!Settles([after EXCEPT !.pending = @ - 1], e.id)
      /\ openedOnce' = IF opens THEN openedOnce \union {<<channel, e.n>>} ELSE openedOnce
      /\ delivered' = IF opens /\ current THEN [delivered EXCEPT ![channel] = Append(@, e.n)] ELSE delivered
      /\ missed' = [missed EXCEPT
           !.reported = Link!Rearmed(channel, current /\ opens, drained),
           !.told = @ /\ ~(drained /\ channel = "scene") /\ delivered'["scene"] = delivered["scene"]]
  BY <1>5 DEF Link!OpenSettles
<1>7. opens => <<channel, e.n>> \notin openedOnce
  BY DEF Link!Replayed
<1>8. Apart(inbound, roomVerdict.last) /\ VerdictOk(roomVerdict, Ids(inbound))
  BY <1>1, NumberedIs, VerdictIs, WaitingIs DEF Link!TransportInv
<1>9. /\ inbound' \in Queues /\ Apart(inbound', roomVerdict.last) /\ e.id \in Ids(inbound)
      /\ Ids(inbound') = Ids(inbound) \ {e.id}
  <2>. HIDE DEF current, begun, opens, after
  <2>1. PICK g : g = inbound'
    OBVIOUS
  <2>2. PICK f \in Queues, last \in Nat : f = inbound /\ last = roomVerdict.last
    BY <1>1 DEF RoomVerdicts
  <2>3. g = [f EXCEPT ![channel] = Link!RemoveAt(@, i)]
    BY <1>6, <2>1, <2>2
  <2>4. PICK k \in DOMAIN f[channel] : k = i
    BY <1>4, <2>2
  <2>5. Removed(g, f, channel, k)
    BY <2>3, <2>4 DEF Removed
  <2>6. Apart(f, last)
    BY <1>8, <2>2
  <2>7. After(g, f, last, f[channel][k].id)
    BY <2>5, <2>6, OneSettles
  <2>. QED
    BY <1>5, <2>1, <2>2, <2>4, <2>7 DEF After
<1>10. Ids(inbound) \subseteq 1..roomVerdict.last /\ Ids(inbound) # {}
  BY <1>8, <1>9, IdsAreBounded
<1>11. PICK v \in RoomVerdicts : v = after /\ VerdictOk(v, Ids(inbound)) /\ v.last = roomVerdict.last
  <2>1. PICK o \in RoomVerdicts : o = roomVerdict
    BY <1>1
  <2>2. CASE opens
    <3>1. PICK v : v = [o EXCEPT !.opened = TRUE]
      OBVIOUS
    <3>2. /\ v \in RoomVerdicts /\ v.opened /\ v.pending = o.pending /\ v.last = o.last
          /\ v.fence = o.fence /\ v.remaining = o.remaining /\ v.reported = o.reported
      BY <3>1 DEF RoomVerdicts
    <3>3. v = after
      BY <2>1, <2>2, <3>1
    <3>. HIDE DEF after, opens
    <3>. QED
      BY <1>8, <2>1, <3>2, <3>3 DEF VerdictOk
  <2>3. CASE ~opens /\ begun
    <3>1. after = Link!NoteFailed(roomVerdict)
      BY <2>3
    <3>. HIDE DEF after, opens, begun
    <3>. QED
      BY <1>1, <1>8, <1>10, <3>1, NoteKeeps
  <2>4. CASE ~opens /\ ~begun
    <3>1. PICK skipped \in BOOLEAN : skipped = (o.skipped \/ (Link!Good(channel, e.n) /\ ~Link!Replayed(e, channel)))
      OBVIOUS
    <3>2. PICK v : v = [o EXCEPT !.skipped = skipped]
      OBVIOUS
    <3>3. /\ v \in RoomVerdicts /\ v.opened = o.opened /\ v.pending = o.pending /\ v.last = o.last
          /\ v.fence = o.fence /\ v.remaining = o.remaining /\ v.reported = o.reported
      BY <3>2 DEF RoomVerdicts
    <3>4. after
            = [o EXCEPT !.skipped = o.skipped \/ (Link!Good(channel, e.n) /\ ~Link!Replayed(e, channel))]
      BY <2>1, <2>4 DEF RoomVerdicts
    <3>5. v = after
      BY <3>1, <3>2, <3>4, Zenon
    <3>. HIDE DEF after, opens, begun
    <3>. QED
      BY <1>8, <2>1, <3>3, <3>5 DEF VerdictOk
  <2>. QED
    BY <2>2, <2>3, <2>4
<1>12. roomVerdict' = Link!Settles([v EXCEPT !.pending = @ - 1], e.id)
  BY <1>6, <1>11
<1>13. /\ roomVerdict' \in RoomVerdicts
       /\ VerdictOk(roomVerdict', Ids(inbound'))
       /\ roomVerdict'.last = roomVerdict.last
  <2>1. PICK w : w = roomVerdict'
    OBVIOUS
  <2>2. w \in RoomVerdicts /\ VerdictOk(w, Ids(inbound) \ {e.id}) /\ w.last = v.last
    <3>. HIDE DEF current, begun, opens, after
    <3>1. w = Link!Settles([v EXCEPT !.pending = @ - 1], e.id)
      BY <1>12, <2>1
    <3>2. Ids(inbound) \subseteq 1..v.last
      BY <1>10, <1>11
    <3>3. PICK W : W = Ids(inbound)
      OBVIOUS
    <3>4. PICK id \in W : id = e.id
      BY <1>9, <3>3
    <3>5. VerdictOk(v, W) /\ W \subseteq 1..v.last
      BY <1>11, <3>2, <3>3
    <3>6. w = Link!Settles([v EXCEPT !.pending = @ - 1], id)
      BY <3>1, <3>4
    <3>7. w \in RoomVerdicts /\ VerdictOk(w, W \ {id}) /\ w.last = v.last
      BY <3>5, <3>6, VerdictKeeps
    <3>. QED
      BY <3>3, <3>4, <3>7
  <2>. QED
    BY <1>9, <1>11, <2>1, <2>2
<1>14. Link!NumberedInv' /\ Link!VerdictInv'
  BY <1>9, <1>13, NumberedIs, VerdictIs, WaitingIsThen
<1>15. delivered' \in [Link!Channels -> Seq(Nat)] /\ Link!DeliveredInv'
  <2>1. CASE ~(opens /\ current)
    <3>1. delivered' = delivered /\ openedOnce \subseteq openedOnce'
      BY <1>6, <2>1
    <3>. HIDE DEF opens, current
    <3>. QED
      BY <1>1, <3>1 DEF Link!TransportInv, Link!DeliveredInv, Link!OpenedOnce
  <2>2. CASE opens /\ current
    <3>1. /\ delivered' = [delivered EXCEPT ![channel] = Append(@, e.n)]
          /\ openedOnce' = openedOnce \union {<<channel, e.n>>}
          /\ <<channel, e.n>> \notin openedOnce
      BY <1>6, <1>7, <2>2
    <3>. HIDE DEF opens, current
    <3>2. PICK n \in Nat : n = e.n
      BY DEF Link!InEntry
    <3>3. PICK s \in Seq(Nat) : s = delivered[channel]
      BY <1>1
    <3>10. PICK t : t = Append(s, n)
      OBVIOUS
    <3>4. /\ t \in Seq(Nat) /\ DOMAIN t = 1..(Len(s) + 1) /\ DOMAIN s = 1..Len(s)
          /\ Len(s) \in Nat /\ t[Len(s) + 1] = n /\ \A j \in 1..Len(s) : t[j] = s[j]
      BY <3>10, AppendIs
    <3>5. delivered' = [delivered EXCEPT ![channel] = t]
      BY <3>1, <3>2, <3>3, <3>10
    <3>6. delivered' \in [Link!Channels -> Seq(Nat)]
      BY <1>1, <3>4, <3>5
    <3>7. ASSUME NEW c \in Link!Channels, NEW j \in DOMAIN delivered'[c]
          PROVE  \/ j \in DOMAIN delivered[c] /\ delivered'[c][j] = delivered[c][j]
                    /\ <<c, delivered[c][j]>> \in openedOnce
                 \/ c = channel /\ j = Len(s) + 1 /\ delivered'[c][j] = n
      <4>1. CASE c = channel
        BY <1>1, <3>3, <3>4, <3>5, <4>1 DEF Link!TransportInv, Link!DeliveredInv
      <4>2. CASE c # channel
        BY <1>1, <3>5, <4>2 DEF Link!TransportInv, Link!DeliveredInv
      <4>. QED
        BY <4>1, <4>2
    <3>8. Link!OpenedOnce'
      <4>1. ASSUME NEW c \in Link!Channels, NEW j \in DOMAIN delivered'[c],
                   NEW k \in DOMAIN delivered'[c], j # k
            PROVE  delivered'[c][j] # delivered'[c][k]
        <5>1. CASE j \in DOMAIN delivered[c] /\ k \in DOMAIN delivered[c]
                   /\ delivered'[c][j] = delivered[c][j] /\ delivered'[c][k] = delivered[c][k]
          BY <4>1, <5>1 DEF Link!TransportInv, Link!DeliveredInv, Link!OpenedOnce
        <5>2. CASE ~(j \in DOMAIN delivered[c] /\ k \in DOMAIN delivered[c]
                   /\ delivered'[c][j] = delivered[c][j] /\ delivered'[c][k] = delivered[c][k])
          BY <3>1, <3>2, <3>7, <4>1, <5>2
        <5>. QED
          BY <5>1, <5>2
      <4>. QED
        BY <4>1 DEF Link!OpenedOnce
    <3>9. ASSUME NEW c \in Link!Channels, NEW j \in DOMAIN delivered'[c]
          PROVE  <<c, delivered'[c][j]>> \in openedOnce'
      <4>1. CASE delivered'[c][j] = delivered[c][j] /\ <<c, delivered[c][j]>> \in openedOnce
        BY <3>1, <4>1
      <4>2. CASE c = channel /\ delivered'[c][j] = n
        BY <3>1, <3>2, <4>2
      <4>. QED
        BY <3>7, <4>1, <4>2
    <3>. QED
      BY <3>6, <3>8, <3>9 DEF Link!DeliveredInv
  <2>. QED
    BY <2>1, <2>2
<1>16. missed' \in Misses /\ Link!MissedInv'
  <2>1. PICK m \in Misses : m = missed /\ ~m.amiss /\ m.reported = m.told
    BY <1>1 DEF Link!TransportInv, Link!MissedInv
  <2>2. PICK heard \in BOOLEAN : heard = (current /\ opens)
    OBVIOUS
  <2>3. PICK dry \in BOOLEAN : dry = drained
    OBVIOUS
  <2>4. PICK same \in BOOLEAN : same = (delivered'["scene"] = delivered["scene"])
    OBVIOUS
  <2>5. same = (channel # "scene" \/ ~heard)
    <3>1. CASE ~heard
      <4>1. delivered' = delivered
        BY <1>6, <2>2, <3>1
      <4>. QED
        BY <2>4, <3>1, <4>1
    <3>2. CASE heard
      <4>1. PICK s, n : s = delivered[channel] /\ n = e.n
        OBVIOUS
      <4>2. PICK t : t = Append(s, n)
        OBVIOUS
      <4>3. s \in Seq(Nat) /\ n \in Nat
        BY <1>1, <4>1 DEF Link!InEntry
      <4>4. DOMAIN t = 1..(Len(s) + 1) /\ DOMAIN s = 1..Len(s) /\ Len(s) \in Nat
        BY <4>2, <4>3, AppendIs
      <4>5. t # s
        <5>1. Len(s) + 1 \in DOMAIN t /\ Len(s) + 1 \notin DOMAIN s
          BY <4>4
        <5>. QED
          BY <5>1
      <4>6. delivered' = [delivered EXCEPT ![channel] = t]
        BY <1>6, <2>2, <3>2, <4>1, <4>2
      <4>. HIDE DEF current, begun, opens, after, drained
      <4>7. CASE channel = "scene"
        BY <1>1, <2>4, <3>2, <4>1, <4>5, <4>6, <4>7 DEF Link!Channels
      <4>8. CASE channel # "scene"
        BY <1>1, <2>4, <3>2, <4>6, <4>8 DEF Link!Channels
      <4>. QED
        BY <4>7, <4>8
    <3>. QED
      BY <3>1, <3>2
  <2>. HIDE DEF current, begun, opens, after, drained
  <2>6. PICK reported \in BOOLEAN : reported = IF channel = "scene" /\ (heard \/ dry) THEN FALSE ELSE m.reported
    BY DEF Misses
  <2>7. PICK told \in BOOLEAN : told = (m.told /\ ~(dry /\ channel = "scene") /\ same)
    OBVIOUS
  <2>8. reported = told
    BY <2>1, <2>5, <2>6, <2>7 DEF Misses
  <2>9. Link!Rearmed(channel, current /\ opens, drained) = reported
    BY <2>1, <2>2, <2>3, <2>6 DEF Link!Rearmed
  <2>10. (m.told /\ ~(drained /\ channel = "scene") /\ delivered'["scene"] = delivered["scene"]) = told
    BY <2>3, <2>4, <2>7
  <2>11. missed' = [m EXCEPT !.reported = reported, !.told = told]
    BY <1>6, <2>1, <2>9, <2>10
  <2>12. PICK k : k = [m EXCEPT !.reported = reported, !.told = told]
    OBVIOUS
  <2>13. k \in Misses /\ k.amiss = m.amiss /\ k.reported = k.told
    BY <2>8, <2>12 DEF Misses
  <2>14. k = missed'
    BY <2>11, <2>12
  <2>. QED
    BY <2>1, <2>13, <2>14 DEF Link!MissedInv
<1>17. Inward
  BY <1>9, <1>13, <1>14, <1>15, <1>16 DEF Inward
<1>. QED
  BY <1>1, <1>2, <1>3, <1>17, Whole

-----------------------------------------------------------------------------
(* The frames that are sent.                                                *)
Sendings == [Link!Channels -> Seq(Link!OutEntry)]

LEMMA SentAre ==
  ASSUME NEW f \in Sendings, NEW c \in Link!Channels, NEW i \in DOMAIN f[c]
  PROVE  f[c][i] \in Link!OutEntry /\ f[c][i].n \in Nat /\ f[c][i].number \in Nat /\ i \in Nat
<1>1. f[c] \in Seq(Link!OutEntry)
  BY DEF Sendings
<1>2. f[c][i] \in Link!OutEntry /\ i \in Nat
  BY <1>1, LenProperties
<1>. QED
  BY <1>2 DEF Link!OutEntry

Ordered(f) == \A c \in Link!Channels : \A i, j \in DOMAIN f[c] : i < j => f[c][i].n < f[c][j].n
Numbered(f, last, number) ==
  \A c \in Link!Channels : \A i \in DOMAIN f[c] : f[c][i].n <= last /\ f[c][i].number <= number
Ahead(w, f, number) ==
  \A c \in Link!Channels : \A i \in DOMAIN w[c], j \in DOMAIN f[c] :
    f[c][j].number = number => w[c][i].n < f[c][j].n
OnLink(w, last, number) ==
  \A c \in Link!Channels : \A i \in DOMAIN w[c] : w[c][i].n <= last /\ w[c][i].number = number

LEMMA OutIs ==
  /\ Link!OrderInv /\ Link!BoundInv <=>
     /\ Ordered(outbound) /\ Numbered(outbound, sealCount, relayLink.number)
     /\ Ahead(onWire, outbound, relayLink.number) /\ Ordered(onWire)
     /\ OnLink(onWire, sealCount, relayLink.number)
     /\ buffered + Link!Pending <= MaxBuffered
     /\ \A c \in Link!Channels : Link!IsFiniteSet(Link!Mine(outbound[c]))
  /\ (Link!OrderInv /\ Link!BoundInv)' <=>
      /\ Ordered(outbound') /\ Numbered(outbound', sealCount', relayLink'.number)
      /\ Ahead(onWire', outbound', relayLink'.number) /\ Ordered(onWire')
      /\ OnLink(onWire', sealCount', relayLink'.number)
      /\ buffered' + Link!Pending' <= MaxBuffered
      /\ \A c \in Link!Channels : Link!IsFiniteSet(Link!Mine(outbound[c])')
BY DEF Link!OrderInv, Link!BoundInv, Link!SentInOrder, Ordered, Numbered, Ahead, OnLink

LEMMA MineIs ==
  ASSUME NEW queue, NEW e
  PROVE  e \in Link!Mine(queue) <=> e.number = relayLink.number /\ \E i \in DOMAIN queue : e = queue[i]
BY DEF Link!Mine, Link!ToSet

LEMMA PendingMoves ==
  ASSUME relayLink' = relayLink, NEW channel \in Link!Channels, NEW d \in Int,
         \A c \in Link!Channels : c # channel => outbound'[c] = outbound[c],
         \A c \in Link!Channels : Link!IsFiniteSet(Link!Mine(outbound[c])),
         Link!IsFiniteSet(Link!Mine(outbound'[channel])),
         Link!Cardinality(Link!Mine(outbound'[channel])) = Link!Cardinality(Link!Mine(outbound[channel])) + d
  PROVE  /\ Link!Pending' = Link!Pending + d /\ Link!Pending \in Nat
         /\ \A c \in Link!Channels : Link!IsFiniteSet(Link!Mine(outbound[c])')
<1>1. \A c \in Link!Channels : Link!Mine(outbound[c])' = Link!Mine(outbound'[c])
  BY DEF Link!Mine
<1>2. \A c \in Link!Channels : Link!Cardinality(Link!Mine(outbound[c])) \in Nat
  BY FS_CardinalityType, TransportCount
<1>3. /\ "scene" \in Link!Channels
      /\ "presence" \in Link!Channels
      /\ Link!Channels = {"scene", "presence"}
  BY DEF Link!Channels
<1>4. Link!Pending'
        = Link!Cardinality(Link!Mine(outbound'["scene"])) + Link!Cardinality(Link!Mine(outbound'["presence"]))
  BY <1>1, <1>3 DEF Link!Pending
<1>5. PICK s \in Nat, p \in Nat : s = Link!Cardinality(Link!Mine(outbound["scene"])) /\ p = Link!Cardinality(Link!Mine(outbound["presence"]))
  BY <1>2, <1>3
<1>6. Link!Pending = s + p
  BY <1>5 DEF Link!Pending
<1>7. Link!Pending' = s + p + d
  <2>1. CASE channel = "scene"
    <3>1. outbound'["presence"] = outbound["presence"]
      BY <1>3, <2>1
    <3>. QED
      BY <1>4, <1>5, <2>1, <3>1
  <2>2. CASE channel = "presence"
    <3>1. outbound'["scene"] = outbound["scene"]
      BY <1>3, <2>2
    <3>. QED
      BY <1>4, <1>5, <2>2, <3>1
  <2>. QED
    BY <1>3, <2>1, <2>2
<1>8. \A c \in Link!Channels : Link!IsFiniteSet(Link!Mine(outbound[c])')
  BY <1>1
<1>. QED
  BY <1>6, <1>7, <1>8

(* A frame is sent: it is the last one.                                     *)
LEMMA SendStep ==
  ASSUME Link!TransportInv, NEW channel \in Link!Channels, Link!Send(channel)
  PROVE  Link!TransportInv'
<1>1. /\ relayLink \in LinkRecords /\ outbound \in Sendings /\ onWire \in Sendings
      /\ sealCount \in Nat /\ buffered \in Nat
  BY TransportShapesAre DEF Link!TransportInv, Sendings
<1>2. /\ UNCHANGED <<relayLink, inbound, openedOnce, delivered, roomVerdict, missed, buffered, onWire>>
      /\ sealCount' = sealCount + 1 /\ buffered + Link!Pending + 1 <= MaxBuffered
  BY DEF Link!Send, Link!Fits
<1>3. Inward
  BY <1>2, InwardRests
<1>4. /\ Ordered(outbound) /\ Numbered(outbound, sealCount, relayLink.number)
      /\ Ahead(onWire, outbound, relayLink.number) /\ Ordered(onWire)
      /\ OnLink(onWire, sealCount, relayLink.number)
      /\ buffered + Link!Pending <= MaxBuffered
      /\ \A c \in Link!Channels : Link!IsFiniteSet(Link!Mine(outbound[c]))
  BY OutIs DEF Link!TransportInv
<1>5. PICK e \in Link!OutEntry : /\ e = [n |-> sealCount + 1, number |-> relayLink.number, done |-> "no"]
                                 /\ e.n = sealCount + 1 /\ e.number = relayLink.number
  <2>1. PICK k \in Nat : k = sealCount + 1
    BY <1>1
  <2>4. PICK number \in Nat : number = relayLink.number
    BY <1>1 DEF LinkRecords
  <2>2. PICK e : e = [n |-> k, number |-> number, done |-> "no"]
    OBVIOUS
  <2>3. e \in Link!OutEntry /\ e.n = k /\ e.number = number
    BY <2>2 DEF Link!OutEntry
  <2>. QED
    BY <2>1, <2>2, <2>3, <2>4
<1>6. PICK s \in Seq(Link!OutEntry) : s = outbound[channel]
  BY <1>1 DEF Sendings
<1>7. PICK t : t = Append(s, e)
  OBVIOUS
<1>8. /\ t \in Seq(Link!OutEntry) /\ DOMAIN t = 1..(Len(s) + 1) /\ DOMAIN s = 1..Len(s)
      /\ Len(s) \in Nat /\ t[Len(s) + 1] = e /\ \A j \in 1..Len(s) : t[j] = s[j]
  BY <1>7, AppendIs
<1>9. outbound' = [outbound EXCEPT ![channel] = t]
  BY <1>2, <1>5, <1>6, <1>7 DEF Link!Send
<1>10. outbound' \in Sendings /\ outbound'[channel] = t
       /\ \A c \in Link!Channels : c # channel => outbound'[c] = outbound[c]
  BY <1>1, <1>8, <1>9 DEF Sendings
<1>11. ASSUME NEW c \in Link!Channels, NEW j \in DOMAIN outbound'[c]
       PROVE  \/ j \in DOMAIN outbound[c] /\ outbound'[c][j] = outbound[c][j]
              \/ c = channel /\ j = Len(s) + 1 /\ outbound'[c][j] = e
  <2>1. CASE c = channel
    <3>1. j \in 1..(Len(s) + 1)
      BY <1>8, <1>10, <2>1
    <3>2. CASE j \in 1..Len(s)
      BY <1>6, <1>8, <1>10, <2>1, <3>2
    <3>3. CASE j = Len(s) + 1
      BY <1>8, <1>10, <2>1, <3>3
    <3>. QED
      BY <1>8, <3>1, <3>2, <3>3
  <2>2. CASE c # channel
    BY <1>10, <2>2
  <2>. QED
    BY <2>1, <2>2
<1>12. \A j \in DOMAIN outbound[channel] : j \in 1..Len(s)
  BY <1>6, <1>8
<1>13. \A c \in Link!Channels : \A j \in DOMAIN outbound[c] :
         outbound[c][j].n \in Nat /\ outbound[c][j].n <= sealCount /\ outbound[c][j].number <= relayLink.number
  BY <1>1, <1>4, SentAre DEF Numbered
<1>14. Ordered(outbound')
  <2>1. ASSUME NEW c \in Link!Channels, NEW j \in DOMAIN outbound'[c],
               NEW k \in DOMAIN outbound'[c], j < k
        PROVE  outbound'[c][j].n < outbound'[c][k].n
    <3>1. CASE /\ j \in DOMAIN outbound[c] /\ outbound'[c][j] = outbound[c][j]
               /\ k \in DOMAIN outbound[c] /\ outbound'[c][k] = outbound[c][k]
      BY <1>4, <2>1, <3>1 DEF Ordered
    <3>2. CASE /\ j \in DOMAIN outbound[c] /\ outbound'[c][j] = outbound[c][j]
               /\ outbound'[c][k] = e
      <4>1. outbound[c][j].n <= sealCount /\ outbound[c][j].n \in Nat
        BY <1>13, <3>2
      <4>. QED
        BY <1>1, <1>5, <3>2, <4>1
    <3>3. CASE /\ c = channel /\ j = Len(s) + 1
      <4>1. k \in 1..(Len(s) + 1)
        BY <1>8, <1>10, <3>3
      <4>. QED
        BY <1>8, <2>1, <3>3, <4>1
    <3>. QED
      BY <1>11, <3>1, <3>2, <3>3
  <2>. QED
    BY <2>1 DEF Ordered
<1>15. Numbered(outbound', sealCount', relayLink'.number)
  <2>1. ASSUME NEW c \in Link!Channels, NEW j \in DOMAIN outbound'[c]
        PROVE  outbound'[c][j].n <= sealCount + 1 /\ outbound'[c][j].number <= relayLink.number
    <3>1. CASE j \in DOMAIN outbound[c] /\ outbound'[c][j] = outbound[c][j]
      <4>1. /\ outbound[c][j].n <= sealCount
            /\ outbound[c][j].n \in Nat
            /\ outbound[c][j].number <= relayLink.number
        BY <1>13, <3>1
      <4>. QED
        BY <1>1, <3>1, <4>1
    <3>2. CASE outbound'[c][j] = e
      <4>1. relayLink.number \in Nat
        BY <1>1 DEF LinkRecords
      <4>. QED
        BY <1>1, <1>5, <3>2, <4>1
    <3>. QED
      BY <1>11, <3>1, <3>2
  <2>. QED
    BY <1>2, <2>1 DEF Numbered
<1>16. ASSUME NEW c \in Link!Channels, NEW i \in DOMAIN onWire[c]
       PROVE  /\ onWire[c][i].n \in Nat /\ onWire[c][i].n <= sealCount /\ onWire[c][i].n <= sealCount + 1
              /\ onWire[c][i].number = relayLink.number
  <2>1. /\ onWire[c][i].n \in Nat
        /\ onWire[c][i].n <= sealCount
        /\ onWire[c][i].number = relayLink.number
    BY <1>1, <1>4, SentAre DEF OnLink
  <2>. QED
    BY <1>1, <2>1
<1>17. OnLink(onWire', sealCount', relayLink'.number)
  BY <1>2, <1>16 DEF OnLink
<1>18. Ahead(onWire', outbound', relayLink'.number)
  <2>1. ASSUME NEW c \in Link!Channels, NEW i \in DOMAIN onWire[c], NEW j \in DOMAIN outbound'[c],
               outbound'[c][j].number = relayLink.number
        PROVE  onWire[c][i].n < outbound'[c][j].n
    <3>1. CASE j \in DOMAIN outbound[c] /\ outbound'[c][j] = outbound[c][j]
      BY <1>4, <2>1, <3>1 DEF Ahead
    <3>2. CASE outbound'[c][j] = e
      <4>1. onWire[c][i].n \in Nat /\ onWire[c][i].n <= sealCount
        BY <1>16
      <4>. QED
        BY <1>1, <1>5, <3>2, <4>1
    <3>. QED
      BY <1>11, <3>1, <3>2
  <2>. QED
    BY <1>2, <2>1 DEF Ahead
<1>19. /\ Link!Mine(outbound'[channel]) = Link!Mine(outbound[channel]) \union {e}
       /\ e \notin Link!Mine(outbound[channel])
  <2>1. ASSUME NEW x \in Link!Mine(outbound'[channel])
        PROVE  x \in Link!Mine(outbound[channel]) \union {e}
    BY <1>11, MineIs
  <2>2. ASSUME NEW x \in Link!Mine(outbound[channel])
        PROVE  x \in Link!Mine(outbound'[channel]) /\ x # e
    <3>1. PICK j \in DOMAIN outbound[channel] : x = outbound[channel][j] /\ x.number = relayLink.number
      BY MineIs
    <3>2. j \in DOMAIN outbound'[channel] /\ outbound'[channel][j] = x
      BY <1>6, <1>8, <1>10, <3>1
    <3>3. x.n \in Nat /\ x.n <= sealCount
      BY <1>13, <3>1
    <3>4. x # e
      BY <1>1, <1>5, <3>3
    <3>. QED
      BY <3>1, <3>2, <3>4, MineIs
  <2>3. e \in Link!Mine(outbound'[channel])
    <3>1. Len(s) + 1 \in DOMAIN outbound'[channel] /\ outbound'[channel][Len(s) + 1] = e
      BY <1>8, <1>10
    <3>. QED
      BY <1>5, <3>1, MineIs
  <2>. QED
    BY <2>1, <2>2, <2>3
<1>20. /\ Link!IsFiniteSet(Link!Mine(outbound'[channel]))
       /\ Link!Cardinality(Link!Mine(outbound'[channel])) = Link!Cardinality(Link!Mine(outbound[channel])) + 1
  <2>1. Link!IsFiniteSet(Link!Mine(outbound[channel]))
    BY <1>4
  <2>. QED
    BY <1>19, <2>1, FS_AddElement, TransportCount
<1>21. /\ Link!Pending' = Link!Pending + 1
       /\ Link!Pending \in Nat
       /\ \A c \in Link!Channels : Link!IsFiniteSet(Link!Mine(outbound[c])')
  BY <1>2, <1>4, <1>10, <1>20, PendingMoves
<1>22. buffered' + Link!Pending' <= MaxBuffered
  BY <1>1, <1>2, <1>21
<1>23. Link!OrderInv' /\ Link!BoundInv'
  BY <1>2, <1>4, <1>14, <1>15, <1>17, <1>18, <1>21, <1>22, OutIs
<1>24. Outward
  <2>1. sealCount' \in Nat /\ buffered' \in Nat /\ onWire' \in Sendings
    BY <1>1, <1>2
  <2>. QED
    BY <1>10, <1>23, <2>1 DEF Outward, Sendings
<1>. QED
  BY <1>1, <1>2, <1>3, <1>24, Whole

(* A seal settles: the frame stays where it is.                             *)
LEMMA SealStep ==
  ASSUME Link!TransportInv, NEW channel \in Link!Channels, NEW i,
         NEW outcome \in {"sealed", "failed"},
         Link!SealSettles(channel, i, outcome)
  PROVE  Link!TransportInv'
<1>1. /\ relayLink \in LinkRecords /\ outbound \in Sendings /\ onWire \in Sendings
      /\ sealCount \in Nat /\ buffered \in Nat
  BY TransportShapesAre DEF Link!TransportInv, Sendings
<1>2. /\ UNCHANGED <<relayLink, inbound, openedOnce, delivered, roomVerdict, missed, sealCount, buffered, onWire>>
      /\ i \in DOMAIN outbound[channel] /\ outbound[channel][i].done = "no"
  BY DEF Link!SealSettles
<1>3. Inward
  BY <1>2, InwardRests
<1>4. /\ Ordered(outbound) /\ Numbered(outbound, sealCount, relayLink.number)
      /\ Ahead(onWire, outbound, relayLink.number) /\ Ordered(onWire)
      /\ OnLink(onWire, sealCount, relayLink.number)
      /\ buffered + Link!Pending <= MaxBuffered
      /\ \A c \in Link!Channels : Link!IsFiniteSet(Link!Mine(outbound[c]))
  BY OutIs DEF Link!TransportInv
<1>5. PICK e \in Link!OutEntry : e = outbound[channel][i]
  BY <1>1, <1>2, SentAre
<1>6. PICK d : d = [e EXCEPT !.done = outcome]
  OBVIOUS
<1>7. d \in Link!OutEntry /\ d.n = e.n /\ d.number = e.number /\ d.done = outcome
  BY <1>6 DEF Link!OutEntry
<1>8. PICK s \in Seq(Link!OutEntry) : s = outbound[channel] /\ Len(s) \in Nat /\ DOMAIN s = 1..Len(s)
  BY <1>1 DEF Sendings
<1>9. PICK t : t = [s EXCEPT ![i] = d]
  OBVIOUS
<1>10. /\ t \in Seq(Link!OutEntry)
       /\ DOMAIN t = DOMAIN s
       /\ t[i] = d
       /\ \A j \in DOMAIN s : j # i => t[j] = s[j]
  BY <1>2, <1>7, <1>8, <1>9
<1>11. outbound' = [outbound EXCEPT ![channel] = t]
  <2>1. outbound'
          = [outbound EXCEPT ![channel] = [outbound[channel] EXCEPT ![i] = [outbound[channel][i] EXCEPT !.done = outcome]]]
    BY DEF Link!SealSettles
  <2>. QED
    BY <1>5, <1>6, <1>8, <1>9, <2>1
<1>12. outbound' \in Sendings /\ outbound'[channel] = t
       /\ \A c \in Link!Channels : c # channel => outbound'[c] = outbound[c]
  BY <1>1, <1>10, <1>11 DEF Sendings
<1>13. ASSUME NEW c \in Link!Channels
       PROVE  /\ DOMAIN outbound'[c] = DOMAIN outbound[c]
              /\ \A j \in DOMAIN outbound[c] :
                   /\ outbound'[c][j].n = outbound[c][j].n
                   /\ outbound'[c][j].number = outbound[c][j].number
                   /\ (c # channel \/ j # i) => outbound'[c][j] = outbound[c][j]
  <2>1. CASE c = channel
    <3>1. ASSUME NEW j \in DOMAIN s
          PROVE  t[j].n = s[j].n /\ t[j].number = s[j].number /\ (j # i => t[j] = s[j])
      <4>1. CASE j = i
        BY <1>5, <1>7, <1>8, <1>10, <4>1
      <4>2. CASE j # i
        BY <1>10, <4>2
      <4>. QED
        BY <4>1, <4>2
    <3>. QED
      BY <1>8, <1>10, <1>12, <2>1, <3>1
  <2>2. CASE c # channel
    BY <1>12, <2>2
  <2>. QED
    BY <2>1, <2>2
<1>14. /\ Ordered(outbound')
       /\ Numbered(outbound', sealCount, relayLink.number)
       /\ Ahead(onWire, outbound', relayLink.number)
  <2>1. Ordered(outbound')
    BY <1>4, <1>13 DEF Ordered
  <2>2. Numbered(outbound', sealCount, relayLink.number)
    BY <1>4, <1>13 DEF Numbered
  <2>3. Ahead(onWire, outbound', relayLink.number)
    BY <1>4, <1>13 DEF Ahead
  <2>. QED
    BY <2>1, <2>2, <2>3
<1>15. \A j \in DOMAIN outbound[channel] : outbound[channel][j].n = e.n => j = i
  <2>1. ASSUME NEW j \in DOMAIN outbound[channel], outbound[channel][j].n = e.n, j # i
        PROVE  FALSE
    <3>1. i \in Nat /\ j \in Nat /\ e.n \in Nat
      BY <1>1, <1>2, <1>5, SentAre
    <3>2. (i < j => outbound[channel][i].n < outbound[channel][j].n)
          /\ (j < i => outbound[channel][j].n < outbound[channel][i].n)
      BY <1>2, <1>4 DEF Ordered
    <3>. QED
      BY <1>5, <2>1, <3>1, <3>2
  <2>. QED
    BY <2>1
<1>16. /\ \A x \in Link!Mine(outbound'[channel]) : x \in (Link!Mine(outbound[channel]) \ {e}) \union {d}
       /\ \A x \in Link!Mine(outbound[channel]) \ {e} : x \in Link!Mine(outbound'[channel]) /\ x # d
       /\ e.number = relayLink.number => e \in Link!Mine(outbound[channel]) /\ d \in Link!Mine(outbound'[channel])
       /\ e.number # relayLink.number => e \notin Link!Mine(outbound[channel]) /\ d \notin Link!Mine(outbound'[channel])
  <2>1. ASSUME NEW x \in Link!Mine(outbound'[channel])
        PROVE  x \in (Link!Mine(outbound[channel]) \ {e}) \union {d}
    <3>1. PICK j \in DOMAIN outbound'[channel] : x = outbound'[channel][j] /\ x.number = relayLink.number
      BY MineIs
    <3>2. CASE j = i
      BY <1>10, <1>12, <3>1, <3>2
    <3>3. CASE j # i
      <4>1. x = outbound[channel][j] /\ j \in DOMAIN outbound[channel]
        BY <1>13, <3>1, <3>3
      <4>2. x # e
        BY <1>15, <3>3, <4>1
      <4>. QED
        BY <3>1, <4>1, <4>2, MineIs
    <3>. QED
      BY <3>2, <3>3
  <2>2. ASSUME NEW x \in Link!Mine(outbound[channel]), x # e
        PROVE  x \in Link!Mine(outbound'[channel]) /\ x # d
    <3>1. PICK j \in DOMAIN outbound[channel] : x = outbound[channel][j] /\ x.number = relayLink.number
      BY MineIs
    <3>2. j # i
      BY <1>5, <2>2, <3>1
    <3>3. x = outbound'[channel][j] /\ j \in DOMAIN outbound'[channel]
      BY <1>13, <3>1, <3>2
    <3>4. x # d
      BY <1>7, <1>15, <3>1, <3>2
    <3>. QED
      BY <3>1, <3>3, <3>4, MineIs
  <2>3. e.number = relayLink.number
          => e \in Link!Mine(outbound[channel]) /\ d \in Link!Mine(outbound'[channel])
    <3>1. i \in DOMAIN outbound'[channel] /\ d = outbound'[channel][i]
      BY <1>2, <1>8, <1>10, <1>12
    <3>. QED
      BY <1>2, <1>5, <1>7, <3>1, MineIs
  <2>4. e.number # relayLink.number
          => e \notin Link!Mine(outbound[channel]) /\ d \notin Link!Mine(outbound'[channel])
    BY <1>7, MineIs
  <2>. QED
    BY <2>1, <2>2, <2>3, <2>4
<1>17. /\ Link!IsFiniteSet(Link!Mine(outbound'[channel]))
       /\ Link!Cardinality(Link!Mine(outbound'[channel])) = Link!Cardinality(Link!Mine(outbound[channel])) + 0
  <2>1. PICK M : M = Link!Mine(outbound[channel])
    OBVIOUS
  <2>2. PICK N : N = Link!Mine(outbound'[channel])
    OBVIOUS
  <2>3. Link!IsFiniteSet(M) /\ Link!Cardinality(M) \in Nat
    BY <1>4, <2>1, FS_CardinalityType, TransportCount
  <2>4. CASE e.number = relayLink.number
    <3>1. e \in M /\ N = (M \ {e}) \union {d} /\ d \notin M \ {e}
      BY <1>16, <2>1, <2>2, <2>4
    <3>2. Link!IsFiniteSet(M \ {e}) /\ Link!Cardinality(M \ {e}) = Link!Cardinality(M) - 1
      BY <2>3, <3>1, FS_RemoveElement, TransportCount
    <3>4. PICK K : K = M \ {e}
      OBVIOUS
    <3>5. /\ Link!IsFiniteSet(K)
          /\ d \notin K
          /\ N = K \union {d}
          /\ Link!Cardinality(K) = Link!Cardinality(M) - 1
      BY <3>1, <3>2, <3>4
    <3>3. Link!IsFiniteSet(N) /\ Link!Cardinality(N) = Link!Cardinality(K) + 1
      BY <3>5, FS_AddElement, TransportCount
    <3>. QED
      BY <2>1, <2>2, <2>3, <3>3, <3>5
  <2>5. CASE e.number # relayLink.number
    <3>1. /\ \A x \in N : x \in (M \ {e}) \union {d}
          /\ \A x \in M \ {e} : x \in N
          /\ e \notin M /\ d \notin N
      BY <1>16, <2>1, <2>2, <2>5
    <3>4. \A x : x \in N <=> x \in M
      BY <3>1, Zenon
    <3>2. N = M
      BY <3>4, Zenon
    <3>. QED
      BY <2>1, <2>2, <2>3, <3>2
  <2>. QED
    BY <2>4, <2>5
<1>18. /\ Link!Pending' = Link!Pending + 0
       /\ Link!Pending \in Nat
       /\ \A c \in Link!Channels : Link!IsFiniteSet(Link!Mine(outbound[c])')
  BY <1>2, <1>4, <1>12, <1>17, PendingMoves
<1>19. buffered' + Link!Pending' <= MaxBuffered
  BY <1>1, <1>2, <1>4, <1>18
<1>20. Link!OrderInv' /\ Link!BoundInv'
  BY <1>2, <1>4, <1>14, <1>18, <1>19, OutIs
<1>21. Outward
  <2>1. sealCount' \in Nat /\ buffered' \in Nat /\ onWire' \in Sendings
    BY <1>1, <1>2
  <2>. QED
    BY <1>12, <1>20, <2>1 DEF Outward, Sendings
<1>. QED
  BY <1>1, <1>2, <1>3, <1>21, Whole

LEMMA DrainsStep ==
  ASSUME Link!TransportBounds, Link!TransportInv, Link!SocketDrains
  PROVE  Link!TransportInv'
<1>1. /\ relayLink \in LinkRecords /\ outbound \in Sendings /\ onWire \in Sendings
      /\ sealCount \in Nat /\ buffered \in Nat
  BY TransportShapesAre DEF Link!TransportInv, Sendings
<1>2. /\ UNCHANGED <<relayLink, inbound, openedOnce, delivered, roomVerdict, missed, sealCount, outbound, onWire>>
      /\ buffered > 0 /\ buffered' = buffered - 1
  BY DEF Link!SocketDrains
<1>3. Inward
  BY <1>2, InwardRests
<1>4. /\ Ordered(outbound) /\ Numbered(outbound, sealCount, relayLink.number)
      /\ Ahead(onWire, outbound, relayLink.number) /\ Ordered(onWire)
      /\ OnLink(onWire, sealCount, relayLink.number)
      /\ buffered + Link!Pending <= MaxBuffered
      /\ \A c \in Link!Channels : Link!IsFiniteSet(Link!Mine(outbound[c]))
  BY OutIs DEF Link!TransportInv
<1>5. PICK channel \in Link!Channels, d \in Int : d = 0
  BY DEF Link!Channels
<1>6. /\ Link!Pending' = Link!Pending
      /\ Link!Pending \in Nat
      /\ \A c \in Link!Channels : Link!IsFiniteSet(Link!Mine(outbound[c])')
  <2>1. /\ Link!IsFiniteSet(Link!Mine(outbound'[channel]))
        /\ Link!IsFiniteSet(Link!Mine(outbound[channel]))
    BY <1>2, <1>4
  <2>2. Link!Cardinality(Link!Mine(outbound'[channel]))
          = Link!Cardinality(Link!Mine(outbound[channel])) + d
    <3>1. Link!Cardinality(Link!Mine(outbound[channel])) \in Nat
      BY <2>1, FS_CardinalityType, TransportCount
    <3>. QED
      BY <1>2, <1>5, <3>1
  <2>3. \A c \in Link!Channels : c # channel => outbound'[c] = outbound[c]
    BY <1>2
  <2>4. /\ Link!Pending' = Link!Pending + d
        /\ Link!Pending \in Nat
        /\ \A c \in Link!Channels : Link!IsFiniteSet(Link!Mine(outbound[c])')
    BY <1>2, <1>4, <2>1, <2>2, <2>3, PendingMoves
  <2>. QED
    BY <1>5, <2>4
<1>7. buffered' + Link!Pending' <= MaxBuffered /\ buffered' \in Nat
  <2>1. PICK p \in Nat, b \in Nat : p = Link!Pending /\ b = buffered
    BY <1>1, <1>6
  <2>2. b + p <= MaxBuffered /\ b > 0 /\ MaxBuffered \in Nat
    BY <1>2, <1>4, <2>1 DEF Link!TransportBounds
  <2>3. b - 1 \in Nat /\ b - 1 + p <= MaxBuffered
    BY <2>2
  <2>. QED
    BY <1>2, <1>6, <2>1, <2>3
<1>8. Link!OrderInv' /\ Link!BoundInv'
  BY <1>2, <1>4, <1>6, <1>7, OutIs
<1>9. Outward
  BY <1>1, <1>2, <1>7, <1>8 DEF Outward, Sendings
<1>. QED
  BY <1>1, <1>2, <1>3, <1>9, Whole

(* The first frame of a connection leaves, for the wire where its socket    *)
(* is still the one it was sent on.                                         *)
LEMMA HandStep ==
  ASSUME Link!TransportBounds, Link!TransportInv, NEW channel \in Link!Channels,
         NEW i \in Link!Firsts(outbound[channel]), Link!HandOver(channel, i)
  PROVE  Link!TransportInv'
<1>1. /\ relayLink \in LinkRecords /\ outbound \in Sendings /\ onWire \in Sendings
      /\ sealCount \in Nat /\ buffered \in Nat
  BY TransportShapesAre DEF Link!TransportInv, Sendings
<1>2. UNCHANGED <<relayLink, inbound, openedOnce, delivered, roomVerdict, missed, sealCount>>
  BY DEF Link!HandOver
<1>3. Inward
  BY <1>2, InwardRests
<1>4. /\ Ordered(outbound) /\ Numbered(outbound, sealCount, relayLink.number)
      /\ Ahead(onWire, outbound, relayLink.number) /\ Ordered(onWire)
      /\ OnLink(onWire, sealCount, relayLink.number)
      /\ buffered + Link!Pending <= MaxBuffered
      /\ \A c \in Link!Channels : Link!IsFiniteSet(Link!Mine(outbound[c]))
  BY OutIs DEF Link!TransportInv
<1>5. /\ i \in DOMAIN outbound[channel]
      /\ \A j \in 1..(i - 1) : outbound[channel][j].number # outbound[channel][i].number
  BY DEF Link!Firsts
<1>6. PICK e \in Link!OutEntry : e = outbound[channel][i] /\ e.n \in Nat /\ e.number \in Nat /\ i \in Nat
  BY <1>1, <1>5, SentAre
<1>8. PICK g : g = outbound'
  OBVIOUS
<1>9. g = [outbound EXCEPT ![channel] = Link!RemoveAt(@, i)]
  BY <1>8 DEF Link!HandOver
<1>10. /\ g \in Sendings
       /\ \A c \in Link!Channels : \A j \in DOMAIN g[c] :
            \E k \in DOMAIN outbound[c] : /\ g[c][j] = outbound[c][k]
                                          /\ k = IF c = channel /\ j >= i THEN j + 1 ELSE j
       /\ \A c \in Link!Channels : \A k \in DOMAIN outbound[c] :
            c # channel \/ k # i => \E j \in DOMAIN g[c] : g[c][j] = outbound[c][k]
  <2>1. PICK f \in [Link!Channels -> Seq(Link!OutEntry)] : f = outbound
    BY <1>1 DEF Sendings
  <2>2. PICK l \in DOMAIN f[channel] : l = i
    BY <1>5, <2>1
  <2>3. Removed(g, f, channel, l)
    BY <1>9, <2>1, <2>2 DEF Removed
  <2>4. g \in [Link!Channels -> Seq(Link!OutEntry)] /\ Others(g, f, channel, l)
    BY <2>3, OthersRemain
  <2>. QED
    BY <2>1, <2>2, <2>4 DEF Sendings, Others
<1>11. \A c \in Link!Channels : c # channel => g[c] = outbound[c]
  BY <1>1, <1>9 DEF Sendings
<1>12. ASSUME NEW c \in Link!Channels, NEW j \in DOMAIN g[c]
       PROVE  \E k \in DOMAIN outbound[c] : /\ g[c][j] = outbound[c][k] /\ j \in Nat /\ k \in Nat
                /\ k = (IF c = channel /\ j >= i THEN j + 1 ELSE j) /\ (c = channel => k # i)
  <2>1. PICK k \in DOMAIN outbound[c] : g[c][j] = outbound[c][k] /\ k = IF c = channel /\ j >= i THEN j + 1 ELSE j
    BY <1>10
  <2>2. j \in Nat /\ k \in Nat
    BY <1>1, <1>10, <2>1, SentAre
  <2>3. c = channel => k # i
    BY <1>6, <2>1, <2>2
  <2>. QED
    BY <2>1, <2>2, <2>3
<1>13. Ordered(g)
  <2>1. ASSUME NEW c \in Link!Channels, NEW j \in DOMAIN g[c], NEW m \in DOMAIN g[c], j < m
        PROVE  g[c][j].n < g[c][m].n
    <3>1. PICK k \in DOMAIN outbound[c] : /\ g[c][j] = outbound[c][k] /\ j \in Nat /\ k \in Nat
                                         /\ k = IF c = channel /\ j >= i THEN j + 1 ELSE j
      BY <1>12
    <3>2. PICK l \in DOMAIN outbound[c] : /\ g[c][m] = outbound[c][l] /\ m \in Nat /\ l \in Nat
                                         /\ l = IF c = channel /\ m >= i THEN m + 1 ELSE m
      BY <1>12
    <3>3. k < l
      BY <1>6, <2>1, <3>1, <3>2
    <3>. QED
      BY <1>4, <3>1, <3>2, <3>3 DEF Ordered
  <2>. QED
    BY <2>1 DEF Ordered
<1>14. Numbered(g, sealCount, relayLink.number)
  BY <1>4, <1>10 DEF Numbered
<1>15. Ahead(onWire, g, relayLink.number)
  <2>1. ASSUME NEW c \in Link!Channels, NEW m \in DOMAIN onWire[c], NEW j \in DOMAIN g[c],
               g[c][j].number = relayLink.number
        PROVE  onWire[c][m].n < g[c][j].n
    <3>1. PICK k \in DOMAIN outbound[c] : g[c][j] = outbound[c][k]
      BY <1>12
    <3>. QED
      BY <1>4, <2>1, <3>1 DEF Ahead
  <2>. QED
    BY <2>1 DEF Ahead
<1>16. ASSUME NEW k \in DOMAIN outbound[channel], k # i
       PROVE  /\ outbound[channel][k].n # e.n /\ outbound[channel][k] # e
              /\ (outbound[channel][k].number = e.number => e.n < outbound[channel][k].n)
  <2>1. k \in Nat /\ outbound[channel][k].n \in Nat /\ k \in 1..Len(outbound[channel])
    <3>1. outbound[channel] \in Seq(Link!OutEntry)
      BY <1>1 DEF Sendings
    <3>. QED
      BY <1>1, <3>1, SentAre, LenProperties
  <2>2. (i < k => e.n < outbound[channel][k].n) /\ (k < i => outbound[channel][k].n < e.n)
    BY <1>4, <1>5, <1>6 DEF Ordered
  <2>3. k < i => outbound[channel][k].number # e.number
    <3>1. k < i => k \in 1..(i - 1)
      BY <1>6, <2>1
    <3>. QED
      BY <1>5, <1>6, <3>1
  <2>. QED
    BY <1>6, <1>16, <2>1, <2>2, <2>3
<1>17. Link!Mine(g[channel]) = Link!Mine(outbound[channel]) \ {e}
  <2>1. ASSUME NEW x \in Link!Mine(g[channel])
        PROVE  x \in Link!Mine(outbound[channel]) /\ x # e
    <3>1. PICK j \in DOMAIN g[channel] : x = g[channel][j] /\ x.number = relayLink.number
      BY MineIs
    <3>2. PICK k \in DOMAIN outbound[channel] : x = outbound[channel][k] /\ k # i
      BY <1>12, <3>1
    <3>. QED
      BY <1>16, <3>1, <3>2, MineIs
  <2>2. ASSUME NEW x \in Link!Mine(outbound[channel]), x # e
        PROVE  x \in Link!Mine(g[channel])
    <3>1. PICK k \in DOMAIN outbound[channel] : x = outbound[channel][k] /\ x.number = relayLink.number
      BY MineIs
    <3>2. k # i
      BY <1>6, <2>2, <3>1
    <3>3. PICK j \in DOMAIN g[channel] : g[channel][j] = outbound[channel][k]
      BY <1>10, <3>2
    <3>. QED
      BY <3>1, <3>3, MineIs
  <2>. QED
    BY <2>1, <2>2
<1>18. e \in Link!Mine(outbound[channel]) <=> e.number = relayLink.number
  BY <1>5, <1>6, MineIs
<1>19. PICK d \in Int : d = IF e.number = relayLink.number THEN -1 ELSE 0
  OBVIOUS
<1>20. /\ Link!IsFiniteSet(Link!Mine(outbound'[channel]))
       /\ Link!Cardinality(Link!Mine(outbound'[channel])) = Link!Cardinality(Link!Mine(outbound[channel])) + d
  <2>1. PICK M : M = Link!Mine(outbound[channel])
    OBVIOUS
  <2>2. PICK K : K = Link!Mine(outbound'[channel])
    OBVIOUS
  <2>3. Link!IsFiniteSet(M) /\ K = M \ {e}
    BY <1>4, <1>8, <1>17, <2>1, <2>2
  <2>4. PICK k \in Nat : k = Link!Cardinality(M)
    BY <2>3, FS_CardinalityType, TransportCount
  <2>5. Link!IsFiniteSet(K) /\ Link!Cardinality(K) = k + d
    <3>1. CASE e \in M
      <4>1. d = -1
        BY <1>18, <1>19, <2>1, <3>1
      <4>2. Link!IsFiniteSet(M \ {e}) /\ Link!Cardinality(M \ {e}) = Link!Cardinality(M) - 1
        BY <2>3, <3>1, FS_RemoveElement, TransportCount
      <4>. QED
        BY <2>3, <2>4, <4>1, <4>2
    <3>2. CASE e \notin M
      <4>1. d = 0
        BY <1>18, <1>19, <2>1, <3>2
      <4>2. K = M
        BY <2>3, <3>2
      <4>. QED
        BY <2>3, <2>4, <4>1, <4>2
    <3>. QED
      BY <3>1, <3>2
  <2>. QED
    BY <2>1, <2>2, <2>4, <2>5
<1>21. /\ Link!Pending' = Link!Pending + d
       /\ Link!Pending \in Nat
       /\ \A c \in Link!Channels : Link!IsFiniteSet(Link!Mine(outbound[c])')
  <2>1. \A c \in Link!Channels : c # channel => outbound'[c] = outbound[c]
    BY <1>8, <1>11
  <2>2. relayLink' = relayLink
    BY <1>2
  <2>. QED
    BY <1>4, <1>20, <2>1, <2>2, PendingMoves
<1>22. CASE UNCHANGED <<buffered, onWire>>
  <2>1. buffered' + Link!Pending' <= MaxBuffered
    <3>1. PICK p \in Nat, b \in Nat : p = Link!Pending /\ b = buffered
      BY <1>1, <1>21
    <3>2. b + p <= MaxBuffered /\ buffered' = b /\ Link!Pending' = p + d /\ (d = -1 \/ d = 0)
      BY <1>4, <1>19, <1>21, <1>22, <3>1
    <3>3. MaxBuffered \in Nat
      BY DEF Link!TransportBounds
    <3>. QED
      BY <3>1, <3>2, <3>3
  <2>2. Link!OrderInv' /\ Link!BoundInv'
    BY <1>2, <1>4, <1>8, <1>13, <1>14, <1>15, <1>21, <1>22, <2>1, OutIs
  <2>3. Outward
    BY <1>1, <1>2, <1>8, <1>10, <1>22, <2>2 DEF Outward, Sendings
  <2>. QED
    BY <1>1, <1>2, <1>3, <2>3, Whole
<1>23. CASE /\ e.number = relayLink.number /\ buffered' = buffered + 1
            /\ onWire' = [onWire EXCEPT ![channel] = Append(@, e)]
  <2>1. PICK s \in Seq(Link!OutEntry) : s = onWire[channel]
    BY <1>1 DEF Sendings
  <2>2. PICK u : u = Append(s, e)
    OBVIOUS
  <2>3. /\ u \in Seq(Link!OutEntry) /\ DOMAIN u = 1..(Len(s) + 1) /\ DOMAIN s = 1..Len(s)
        /\ Len(s) \in Nat /\ u[Len(s) + 1] = e /\ \A j \in 1..Len(s) : u[j] = s[j]
    BY <2>2, AppendIs
  <2>4. PICK w : w = onWire'
    OBVIOUS
  <2>5. w = [onWire EXCEPT ![channel] = u]
    BY <1>23, <2>1, <2>2, <2>4
  <2>6. w \in Sendings /\ w[channel] = u /\ \A c \in Link!Channels : c # channel => w[c] = onWire[c]
    BY <1>1, <2>3, <2>5 DEF Sendings
  <2>7. ASSUME NEW c \in Link!Channels, NEW j \in DOMAIN w[c]
        PROVE  \/ j \in DOMAIN onWire[c] /\ w[c][j] = onWire[c][j]
               \/ c = channel /\ j = Len(s) + 1 /\ w[c][j] = e
    <3>1. CASE c = channel
      <4>1. j \in 1..(Len(s) + 1)
        BY <2>3, <2>6, <3>1
      <4>2. CASE j \in 1..Len(s)
        BY <2>1, <2>3, <2>6, <3>1, <4>2
      <4>3. CASE j = Len(s) + 1
        BY <2>3, <2>6, <3>1, <4>3
      <4>. QED
        BY <2>3, <4>1, <4>2, <4>3
    <3>2. CASE c # channel
      BY <2>6, <3>2
    <3>. QED
      BY <3>1, <3>2
  <2>8. \A m \in DOMAIN onWire[channel] : onWire[channel][m].n < e.n
    BY <1>4, <1>5, <1>6, <1>23 DEF Ahead
  <2>9. Ordered(w)
    <3>1. ASSUME NEW c \in Link!Channels, NEW j \in DOMAIN w[c], NEW m \in DOMAIN w[c], j < m
          PROVE  w[c][j].n < w[c][m].n
      <4>1. CASE j \in DOMAIN onWire[c] /\ w[c][j] = onWire[c][j] /\ m \in DOMAIN onWire[c] /\ w[c][m] = onWire[c][m]
        BY <1>4, <3>1, <4>1 DEF Ordered
      <4>2. CASE j \in DOMAIN onWire[c] /\ w[c][j] = onWire[c][j] /\ c = channel /\ w[c][m] = e
        BY <2>8, <4>2
      <4>3. CASE c = channel /\ j = Len(s) + 1
        <5>1. m \in 1..(Len(s) + 1)
          BY <2>3, <2>6, <4>3
        <5>. QED
          BY <2>3, <3>1, <4>3, <5>1
      <4>. QED
        BY <2>7, <4>1, <4>2, <4>3
    <3>. QED
      BY <3>1 DEF Ordered
  <2>10. OnLink(w, sealCount, relayLink.number)
    <3>1. e.n <= sealCount
      BY <1>4, <1>5, <1>6 DEF Numbered
    <3>2. ASSUME NEW c \in Link!Channels, NEW j \in DOMAIN w[c]
          PROVE  w[c][j].n <= sealCount /\ w[c][j].number = relayLink.number
      <4>1. CASE j \in DOMAIN onWire[c] /\ w[c][j] = onWire[c][j]
        BY <1>4, <4>1 DEF OnLink
      <4>2. CASE w[c][j] = e
        BY <1>23, <3>1, <4>2
      <4>. QED
        BY <2>7, <4>1, <4>2
    <3>. QED
      BY <3>2 DEF OnLink
  <2>11. Ahead(w, g, relayLink.number)
    <3>1. ASSUME NEW c \in Link!Channels, NEW m \in DOMAIN w[c], NEW j \in DOMAIN g[c],
                 g[c][j].number = relayLink.number
          PROVE  w[c][m].n < g[c][j].n
      <4>1. CASE m \in DOMAIN onWire[c] /\ w[c][m] = onWire[c][m]
        BY <1>15, <3>1, <4>1 DEF Ahead
      <4>2. CASE c = channel /\ w[c][m] = e
        <5>1. PICK k \in DOMAIN outbound[c] : g[c][j] = outbound[c][k] /\ k # i
          BY <1>12, <4>2
        <5>. QED
          BY <1>16, <1>23, <3>1, <4>2, <5>1
      <4>. QED
        BY <2>7, <4>1, <4>2
    <3>. QED
      BY <3>1 DEF Ahead
  <2>12. buffered' + Link!Pending' <= MaxBuffered /\ buffered' \in Nat
    <3>1. PICK p \in Nat, b \in Nat : p = Link!Pending /\ b = buffered
      BY <1>1, <1>21
    <3>2. Link!Pending' = p - 1 /\ buffered' = b + 1 /\ b + p <= MaxBuffered
      BY <1>4, <1>19, <1>21, <1>23, <3>1
    <3>. QED
      BY <3>1, <3>2
  <2>13. Link!OrderInv' /\ Link!BoundInv'
    BY <1>2, <1>8, <1>13, <1>14, <1>21, <2>4, <2>9, <2>10, <2>11, <2>12, OutIs
  <2>14. Outward
    BY <1>1, <1>2, <1>8, <1>10, <2>4, <2>6, <2>12, <2>13 DEF Outward, Sendings
  <2>. QED
    BY <1>1, <1>2, <1>3, <2>14, Whole
<1>24. \/ UNCHANGED <<buffered, onWire>>
       \/ e.number = relayLink.number /\ buffered' = buffered + 1 /\ onWire' = [onWire EXCEPT ![channel] = Append(@, e)]
  BY <1>6 DEF Link!HandOver
<1>. QED
  BY <1>22, <1>23, <1>24

-----------------------------------------------------------------------------
LEMMA InboundStep ==
  ASSUME Link!TransportBounds, Link!TransportInv, Link!InboundNext
  PROVE  Link!TransportInv'
<1>1. PICK channel \in Link!Channels :
        \/ \E i \in Link!Firsts(inbound[channel]) : Link!OpenSettles(channel, i)
        \/ \E n \in 1..MaxWireFrames : Link!FrameArrives(channel, n)
  BY DEF Link!InboundNext
<1>. QED
  BY <1>1, OpenStep, ArrivesStep

LEMMA OutboundStep ==
  ASSUME Link!TransportBounds, Link!TransportInv, Link!OutboundNext
  PROVE  Link!TransportInv'
<1>1. CASE Link!SocketDrains
  BY <1>1, DrainsStep
<1>2. ASSUME NEW channel \in Link!Channels, Link!Send(channel)
      PROVE  Link!TransportInv'
  BY <1>2, SendStep
<1>3. ASSUME NEW channel \in Link!Channels, NEW i \in Link!Firsts(outbound[channel]),
             Link!HandOver(channel, i)
      PROVE  Link!TransportInv'
  BY <1>3, HandStep
<1>4. ASSUME NEW channel \in Link!Channels, NEW i \in 1..MaxSeals,
             NEW outcome \in {"sealed", "failed"},
             Link!SealSettles(channel, i, outcome)
      PROVE  Link!TransportInv'
  BY <1>4, SealStep
<1>. QED
  BY <1>1, <1>2, <1>3, <1>4 DEF Link!OutboundNext

LEMMA TransportStays ==
  ASSUME Link!TransportInv, UNCHANGED Link!transportVars
  PROVE  Link!TransportInv'
<1>1. /\ UNCHANGED <<inbound, openedOnce, delivered, roomVerdict, missed>> /\ UNCHANGED OutVars /\ relayLink' = relayLink
  BY DEF Link!transportVars, OutVars
<1>2. relayLink' \in LinkRecords
  BY <1>1, TransportShapesAre DEF Link!TransportInv
<1>. QED
  BY <1>1, <1>2, InwardRests, OutwardRests, Whole

LEMMA TransportInit == Link!TransportBounds /\ Link!Init => Link!TransportInv
<1>. SUFFICES ASSUME Link!TransportBounds, Link!Init PROVE Link!TransportInv
  OBVIOUS
<1>1. /\ \A S : Link!Empty \in [Link!Channels -> Seq(S)]
      /\ \A c \in Link!Channels : DOMAIN Link!Empty[c] = {} /\ Link!Empty[c] = <<>>
  BY EmptySeq, LenProperties DEF Link!Empty
<1>2. Link!TransportShapes
  BY <1>1 DEF Link!TransportShapes, Link!Init, Link!NoEvidence, Link!Untold
<1>3. Link!DeliveredInv /\ Link!NumberedInv /\ Link!MissedInv
  BY <1>1 DEF Link!Init, Link!DeliveredInv, Link!OpenedOnce, Link!NumberedInv, Link!MissedInv,
     Link!Untold
<1>4. Link!VerdictInv
  <2>1. Link!Waiting = {}
    BY <1>1 DEF Link!Init, Link!Waiting, Link!WaitingOn, Link!Channels
  <2>2. Link!IsFiniteSet(Link!Waiting) /\ Link!Cardinality(Link!Waiting) = 0
    BY <2>1, FS_EmptySet, TransportCount
  <2>. QED
    BY <2>2 DEF Link!Init, Link!NoEvidence, Link!VerdictInv
<1>5. \A c \in Link!Channels : Link!Mine(outbound[c]) = {}
  BY <1>1 DEF Link!Init, Link!Mine, Link!ToSet
<1>6. Link!Pending = 0 /\ \A c \in Link!Channels : Link!IsFiniteSet(Link!Mine(outbound[c]))
  <2>1. "scene" \in Link!Channels /\ "presence" \in Link!Channels
    BY DEF Link!Channels
  <2>. QED
    BY <1>5, <2>1, FS_EmptySet, TransportCount DEF Link!Pending
<1>7. Link!OrderInv
  BY <1>1 DEF Link!Init, Link!OrderInv
<1>8. Link!BoundInv
  BY <1>1, <1>6 DEF Link!Init, Link!BoundInv, Link!SentInOrder, Link!TransportBounds
<1>. QED
  BY <1>2, <1>3, <1>4, <1>7, <1>8 DEF Link!TransportInv

LEMMA TransportGives == Link!TransportInv => Link!TransportSound
<1>. SUFFICES ASSUME Link!TransportInv PROVE Link!TransportSound
  OBVIOUS
<1>1. Link!OpenedOnce /\ Link!SentInOrder /\ Link!DropsAreReported
  BY DEF Link!TransportInv, Link!DeliveredInv, Link!BoundInv, Link!MissedInv, Link!DropsAreReported
<1>2. ASSUME NEW c \in Link!Channels, NEW i \in DOMAIN inbound[c]
      PROVE  inbound[c][i].id \in Link!Waiting
  BY DEF Link!Waiting, Link!WaitingOn, Link!Channels
<1>3. roomVerdict.reported => roomVerdict.skipped \/
      \A c \in Link!Channels : \A i \in DOMAIN inbound[c] :
        inbound[c][i].id <= roomVerdict.fence => ~Link!Good(c, inbound[c][i].n)
  <2>1. SUFFICES ASSUME roomVerdict.reported
                 PROVE  \A c \in Link!Channels : \A i \in DOMAIN inbound[c] : ~(inbound[c][i].id <= roomVerdict.fence)
    OBVIOUS
  <2>2. Link!Cardinality(Link!Fenced) = 0 /\ Link!IsFiniteSet(Link!Waiting)
    BY <2>1 DEF Link!TransportInv, Link!VerdictInv
  <2>3. Link!IsFiniteSet(Link!Fenced)
    BY <2>2, FS_Subset, TransportCount DEF Link!Fenced
  <2>4. Link!Fenced = {}
    BY <2>2, <2>3, FS_EmptySet, TransportCount
  <2>. QED
    BY <1>2, <2>4 DEF Link!Fenced
<1>4. (roomVerdict.fence # 0 /\ ~roomVerdict.opened
       /\ \A c \in Link!Channels : \A i \in DOMAIN inbound[c] : inbound[c][i].id > roomVerdict.fence)
     => roomVerdict.reported
  <2>1. SUFFICES ASSUME roomVerdict.fence # 0, ~roomVerdict.opened,
                        \A c \in Link!Channels : \A i \in DOMAIN inbound[c] : inbound[c][i].id > roomVerdict.fence
                 PROVE  roomVerdict.reported
    OBVIOUS
  <2>2. /\ inbound \in Queues /\ roomVerdict.fence \in Nat
    BY TransportShapesAre DEF Link!TransportInv, Queues, RoomVerdicts
  <2>3. Link!Fenced = {}
    <3>1. ASSUME NEW x \in Link!Fenced
          PROVE  FALSE
      <4>1. PICK c \in Link!Channels : \E i \in DOMAIN inbound[c] : x = inbound[c][i].id
        BY <2>2, WaitingIs DEF Link!Fenced, Ids
      <4>2. PICK i \in DOMAIN inbound[c] : x = inbound[c][i].id
        BY <4>1
      <4>3. x \in Nat /\ x > roomVerdict.fence
        BY <2>1, <2>2, <4>2, EntriesAre
      <4>4. x <= roomVerdict.fence
        BY DEF Link!Fenced
      <4>. QED
        BY <2>2, <4>3, <4>4
    <3>. QED
      BY <3>1
  <2>4. roomVerdict.remaining = 0
    BY <2>1, <2>3, FS_EmptySet, TransportCount DEF Link!TransportInv, Link!VerdictInv
  <2>. QED
    BY <2>1, <2>4 DEF Link!TransportInv, Link!VerdictInv
<1>5. Link!VerdictSound
  BY <1>3, <1>4 DEF Link!VerdictSound
<1>. QED
  BY <1>1, <1>5 DEF Link!TransportSound

\* The transport of one client keeps its promises, for every bound.
THEOREM TransportKept == Link!TransportBounds /\ Link!Spec => []Link!TransportSound
<1>. SUFFICES ASSUME Link!TransportBounds PROVE Link!Spec => []Link!TransportSound
  OBVIOUS
<1>1. Link!Init => Link!TransportInv
  BY TransportInit
<1>2. Link!TransportInv /\ [Link!Next]_Link!transportVars => Link!TransportInv'
  BY LinkStep, InboundStep, OutboundStep, TransportStays DEF Link!Next
<1>3. Link!TransportInv => Link!TransportSound
  BY TransportGives
<1>. QED
  BY <1>1, <1>2, <1>3, PTL DEF Link!Spec

-----------------------------------------------------------------------------
CONSTANTS Client, Room, Budget, Overhead, Header, Lifetime, MaxLifetime, Skew, MaxWireTime,
          MaxSessions, MaxMessages, MaxMishaps
VARIABLES wireClock, relay, backend, client, wire, spoilt, used
Wire == INSTANCE WirePath WITH MaxTime <- MaxWireTime, clock <- wireClock

Relays == [version : {1, 2}, secret : {1, 2}, ahead : -Skew..Skew]
Uses == [sessions : Nat, messages : Nat, mishaps : Nat]
Backends == [secret : {1, 2}, gen : {1, 2}, role : [Client -> Wire!Roles]]

LEMMA WireShapesAre ==
  /\ Wire!WireShapes <=> /\ wireClock \in Nat /\ used \in Uses /\ relay \in Relays /\ backend \in Backends
                         /\ client \in [Client -> Wire!ClientState] /\ wire \in SUBSET Wire!Frames
  /\ Wire!WireShapes' <=> /\ wireClock' \in Nat /\ used' \in Uses /\ relay' \in Relays /\ backend' \in Backends
                          /\ client' \in [Client -> Wire!ClientState]
                          /\ wire' \in SUBSET Wire!Frames
BY DEF Wire!WireShapes, Relays, Backends, Uses

LEMMA ClientIsSound ==
  ASSUME Wire!WireInv, NEW c \in Client
  PROVE  client[c] \in Wire!ClientState /\ Wire!ClientSound(client[c], relay.version, wireClock)
BY WireShapesAre DEF Wire!WireInv

(* Where a client is; what a frame's soundness depends on.                  *)
SameSeat(m, n) ==
  m.stage = n.stage /\ m.room = n.room /\ m.gen = n.gen /\ m.version = n.version
  /\ m.role = n.role /\ m.session = n.session

LEMMA SeatKeeps ==
  ASSUME NEW f, NEW m, NEW n, SameSeat(m, n), Wire!FrameSound(f, m)
  PROVE  Wire!FrameSound(f, n)
BY DEF SameSeat, Wire!FrameSound

(* A step that changes one client, drops frames and adds sound ones.        *)
LEMMA OneClient ==
  ASSUME Wire!WireInv, NEW c \in Client, NEW m \in Wire!ClientState,
         Wire!ClientSound(m, relay.version, wireClock),
         client' = [client EXCEPT ![c] = m], UNCHANGED <<wireClock, relay, backend>>,
         used' \in Uses, spoilt' = {},
         \A f \in wire' : \/ f \in wire /\ (f.at # c \/ SameSeat(client[c], m))
                          \/ f \in Wire!Frames /\ Wire!FrameSound(f, client'[f.at])
  PROVE  Wire!WireInv'
<1>1. /\ wireClock \in Nat /\ relay \in Relays /\ backend \in Backends
      /\ client \in [Client -> Wire!ClientState] /\ wire \in SUBSET Wire!Frames
  BY WireShapesAre DEF Wire!WireInv
<1>2. ASSUME NEW f \in wire'
      PROVE  f \in Wire!Frames /\ Wire!FrameSound(f, client'[f.at])
  <2>1. CASE f \in wire /\ (f.at # c \/ SameSeat(client[c], m))
    <3>1. f \in Wire!Frames /\ Wire!FrameSound(f, client[f.at])
      BY <1>1, <2>1 DEF Wire!WireInv
    <3>2. f.at \in Client
      BY <3>1 DEF Wire!Frames
    <3>3. client'[f.at] = IF f.at = c THEN m ELSE client[f.at]
      BY <1>1, <3>2
    <3>. QED
      BY <2>1, <3>1, <3>3, SeatKeeps
  <2>. QED
    BY <2>1
<1>3. Wire!WireShapes'
  BY <1>1, <1>2, WireShapesAre
<1>4. ASSUME NEW d \in Client
      PROVE  Wire!ClientSound(client'[d], relay'.version, wireClock')
  BY <1>1, ClientIsSound
<1>. QED
  BY <1>2, <1>3, <1>4 DEF Wire!WireInv

(* A step of the wire alone.                                                *)
LEMMA WireOnly ==
  ASSUME Wire!WireInv, UNCHANGED <<wireClock, relay, backend, client>>, used' \in Uses,
         spoilt' = {},
         \A f \in wire' : f \in wire \/ (f \in Wire!Frames /\ Wire!FrameSound(f, client[f.at]))
  PROVE  Wire!WireInv'
<1>1. /\ wireClock \in Nat /\ relay \in Relays /\ backend \in Backends
      /\ client \in [Client -> Wire!ClientState] /\ wire \in SUBSET Wire!Frames
  BY WireShapesAre DEF Wire!WireInv
<1>2. \A f \in wire' : f \in Wire!Frames /\ Wire!FrameSound(f, client'[f.at])
  BY <1>1 DEF Wire!WireInv
<1>3. Wire!WireShapes'
  BY <1>1, <1>2, WireShapesAre
<1>. QED
  BY <1>2, <1>3 DEF Wire!WireInv

(* A connection that goes.                                                  *)
Shut(n, reason) == [n EXCEPT !.stage = "out", !.reason = reason, !.token = Wire!NoToken, !.session = 0]

LEMMA ClosedIs ==
  ASSUME NEW c \in Client, client \in [Client -> Wire!ClientState], NEW reason
  PROVE  Wire!Closed(c, reason) = [client EXCEPT ![c] = Shut(client[c], reason)]
BY DEF Wire!Closed, Shut

Reasons == Wire!Retried \cup {"protocol", "unsupported-protocol-version", "rotated"}

LEMMA ShutIsSound ==
  ASSUME NEW n \in Wire!ClientState, NEW version, NEW now, Wire!ClientSound(n, version, now),
         NEW reason \in Reasons,
         reason = "protocol" => n.version = 2,
         reason = "unsupported-protocol-version" => n.version < version
  PROVE  Shut(n, reason) \in Wire!ClientState /\ Wire!ClientSound(Shut(n, reason), version, now)
<1>1. PICK t \in Wire!Tokens \cup {Wire!NoToken} : t = Wire!NoToken
  OBVIOUS
<1>2. PICK m : m = [n EXCEPT !.stage = "out", !.reason = reason, !.token = t, !.session = 0]
  OBVIOUS
<1>3. /\ m \in Wire!ClientState
      /\ m.stage = "out"
      /\ m.reason = reason
      /\ m.session = 0
      /\ m.version = n.version
  BY <1>2 DEF Wire!ClientState, Reasons
<1>. QED
  BY <1>1, <1>2, <1>3 DEF Shut, Wire!ClientSound

LEMMA NoneIsHis ==
  ASSUME Wire!WireInv, NEW c \in Client, NEW f \in Wire!WireWithout({c})
  PROVE  f \in wire /\ f.at # c
<1>1. f \in wire /\ f.conn # client[c].session
  BY DEF Wire!WireWithout
<1>2. Wire!FrameSound(f, client[f.at])
  BY <1>1 DEF Wire!WireInv
<1>. QED
  BY <1>1, <1>2 DEF Wire!FrameSound

LEMMA ConnectingHasNone ==
  ASSUME Wire!WireInv, NEW c \in Client, client[c].stage # "in", NEW f \in wire
  PROVE  f.at # c
<1>1. Wire!FrameSound(f, client[f.at])
  BY DEF Wire!WireInv
<1>. QED
  BY <1>1 DEF Wire!FrameSound

-----------------------------------------------------------------------------
LEMMA WireConnects ==
  ASSUME Wire!WireBounds, Wire!WireInv, NEW c \in Client, NEW hall \in Room, Wire!Connect(c, hall)
  PROVE  Wire!WireInv'
<1>1. /\ wireClock \in Nat /\ used \in Uses /\ relay \in Relays /\ backend \in Backends
      /\ client \in [Client -> Wire!ClientState]
  BY WireShapesAre DEF Wire!WireInv
<1>2. PICK n \in Wire!ClientState : n = client[c]
  BY <1>1
<1>3. Wire!ClientSound(n, relay.version, wireClock) /\ n.stage = "out"
  BY <1>2, ClientIsSound DEF Wire!Connect
<1>4. /\ UNCHANGED <<wireClock, relay, backend>> /\ wire' = wire /\ spoilt' = spoilt
      /\ used' \in Uses
  BY <1>1 DEF Wire!Connect, Uses
<1>5. spoilt' = {}
  BY <1>4 DEF Wire!WireInv
<1>6. \A f \in wire' : f \in wire /\ f.at # c
  BY <1>2, <1>3, <1>4, ConnectingHasNone
<1>7. CASE client' = [client EXCEPT ![c].reason = "rotated"]
  <2>1. PICK m : m = [n EXCEPT !.reason = "rotated"]
    OBVIOUS
  <2>2. m \in Wire!ClientState /\ Wire!ClientSound(m, relay.version, wireClock)
    BY <1>3, <2>1 DEF Wire!ClientState, Wire!ClientSound
  <2>3. client' = [client EXCEPT ![c] = m]
    BY <1>1, <1>2, <1>7, <2>1
  <2>. QED
    BY <1>4, <1>5, <1>6, <2>2, <2>3, OneClient
<1>8. CASE client' = [client EXCEPT ![c].stage = "connecting", ![c].room = hall, ![c].gen = backend.gen,
                                    ![c].token = Wire!Sign(c, hall), ![c].session = used.sessions + 1, ![c].reason = "idle"]
  <2>1. PICK t : t = Wire!Sign(c, hall)
    OBVIOUS
  <2>2. t \in Wire!Tokens /\ t.rid = hall /\ t.exp = t.iat + Lifetime /\ t.iat = wireClock
    <3>1. backend.secret \in {1, 2} /\ backend.gen \in {1, 2} /\ backend.role[c] \in Wire!Roles
      BY <1>1 DEF Backends
    <3>2. wireClock \in Int /\ wireClock + Lifetime \in Int
      BY <1>1 DEF Wire!WireBounds
    <3>. QED
      BY <2>1, <3>1, <3>2 DEF Wire!Sign, Wire!Tokens
  <2>3. PICK g \in 0..2 : g = backend.gen
    BY <1>1 DEF Backends
  <2>4. PICK s \in Nat : s = used.sessions + 1 /\ s # 0
    BY <1>1 DEF Uses
  <2>5. PICK m : m = [n EXCEPT !.stage = "connecting", !.room = hall, !.gen = g, !.token = t, !.session = s,
                               !.reason = "idle"]
    OBVIOUS
  <2>6. /\ m \in Wire!ClientState /\ m.stage = "connecting" /\ m.room = hall /\ m.token = t /\ m.session = s
        /\ m.reason = "idle" /\ m.version = n.version
    <3>1. t \in Wire!Tokens \cup {Wire!NoToken} /\ hall \in Wire!Rooms
          /\ "idle" \in Wire!Retried \cup {"protocol", "unsupported-protocol-version", "rotated"}
      BY <2>2 DEF Wire!Rooms, Wire!Retried
    <3>. QED
      BY <2>5, <3>1 DEF Wire!ClientState
  <2>7. Wire!ClientSound(m, relay.version, wireClock)
    BY <1>1, <2>2, <2>4, <2>6 DEF Wire!ClientSound
  <2>8. client' = [client EXCEPT ![c] = m]
    BY <1>1, <1>2, <1>8, <2>1, <2>3, <2>4, <2>5
  <2>. QED
    BY <1>4, <1>5, <1>6, <2>6, <2>7, <2>8, OneClient
<1>. QED
  BY <1>7, <1>8 DEF Wire!Connect

(* The token that was just signed is verified, though the clocks differ.    *)
LEMMA TokenHolds ==
  ASSUME Wire!WireBounds, Wire!WireInv, NEW c \in Client, client[c].stage = "connecting",
         client[c].token.secret = relay.secret, wireClock < client[c].token.exp
  PROVE  Wire!Verified(client[c].token, client[c].room)
<1>1. wireClock \in Nat /\ relay \in Relays
  BY WireShapesAre DEF Wire!WireInv
<1>2. PICK t \in Wire!Tokens : t = client[c].token
  BY ClientIsSound DEF Wire!ClientSound
<1>3. t.rid = client[c].room /\ t.exp = t.iat + Lifetime /\ t.iat <= wireClock
  BY <1>2, ClientIsSound DEF Wire!ClientSound
<1>4. PICK a \in -Skew..Skew : a = relay.ahead
  BY <1>1 DEF Relays
<1>5. t.iat \in Int /\ t.exp \in Int /\ t.aud = "join"
  BY DEF Wire!Tokens
<1>6. t.exp > t.iat /\ t.exp - t.iat <= MaxLifetime
  BY <1>3, <1>5 DEF Wire!WireBounds
<1>7. wireClock + a + Skew >= t.iat /\ wireClock + a < t.exp + Skew
  BY <1>1, <1>2, <1>3, <1>5 DEF Wire!WireBounds
<1>. QED
  BY <1>2, <1>3, <1>4, <1>5, <1>6, <1>7 DEF Wire!Verified, Wire!Lives

LEMMA JoinStep ==
  ASSUME Wire!WireBounds, Wire!WireInv, NEW c \in Client, Wire!Join(c)
  PROVE  Wire!WireInv'
<1>1. /\ wireClock \in Nat /\ used \in Uses /\ relay \in Relays /\ backend \in Backends
      /\ client \in [Client -> Wire!ClientState]
  BY WireShapesAre DEF Wire!WireInv
<1>2. PICK n \in Wire!ClientState : n = client[c]
  BY <1>1
<1>3. Wire!ClientSound(n, relay.version, wireClock) /\ n.stage = "connecting"
  BY <1>2, ClientIsSound DEF Wire!Join
<1>4. /\ UNCHANGED <<wireClock, relay, backend>> /\ wire' = wire /\ used' \in Uses
  BY <1>1 DEF Wire!Join
<1>5. \A f \in wire' : f \in wire /\ f.at # c
  BY <1>2, <1>3, <1>4, ConnectingHasNone
<1>6. n.version \in {1, 2} /\ relay.version \in {1, 2}
  BY <1>1 DEF Wire!ClientState, Relays
<1>7. CASE n.version # relay.version
  <2>1. PICK reason : reason = Wire!Reason(IF Wire!Outdated(n.version) THEN "unsupportedProtocolVersion"
                                           ELSE "protocolViolation")
    OBVIOUS
  <2>2. \/ reason = "unsupported-protocol-version" /\ n.version < relay.version
        \/ reason = "protocol" /\ n.version = 2
    BY <1>6, <1>7, <2>1 DEF Wire!Reason, Wire!Outdated
  <2>3. client' = [client EXCEPT ![c] = Shut(n, reason)]
    BY <1>1, <1>2, <1>7, <2>1, ClosedIs DEF Wire!Join
  <2>4. reason \in Reasons
    BY <2>2 DEF Reasons
  <2>5. PICK m \in Wire!ClientState : m = Shut(n, reason) /\ Wire!ClientSound(m, relay.version, wireClock)
    BY <1>3, <2>2, <2>4, ShutIsSound
  <2>6. m.reason = reason
    BY <2>5 DEF Shut, Wire!ClientState
  <2>7. client'[c].reason # "unauthorized"
    BY <1>1, <2>2, <2>3, <2>5, <2>6
  <2>8. spoilt' = {}
    BY <2>7 DEF Wire!Join, Wire!WireInv
  <2>. QED
    BY <1>4, <1>5, <2>3, <2>5, <2>8, OneClient
<1>8. CASE n.version = relay.version /\ ~Wire!Verified(n.token, n.room)
  <2>1. client' = [client EXCEPT ![c] = Shut(n, "unauthorized")]
    BY <1>1, <1>2, <1>8, ClosedIs DEF Wire!Join, Wire!Reason
  <2>2. PICK m \in Wire!ClientState : m = Shut(n, "unauthorized") /\ Wire!ClientSound(m, relay.version, wireClock)
    BY <1>3, ShutIsSound DEF Reasons, Wire!Retried
  <2>3. ~(client[c].token.secret = relay.secret /\ wireClock < client[c].token.exp)
    BY <1>2, <1>3, <1>8, TokenHolds
  <2>4. spoilt' = {}
    BY <2>3 DEF Wire!Join, Wire!WireInv
  <2>. QED
    BY <1>4, <1>5, <2>1, <2>2, <2>4, OneClient
<1>9. CASE n.version = relay.version /\ Wire!Verified(n.token, n.room)
  <2>1. PICK role \in Wire!Roles : role = n.token.role
    BY <1>3 DEF Wire!ClientSound, Wire!Tokens
  <2>2. PICK m : m = [n EXCEPT !.stage = "in", !.role = role]
    OBVIOUS
  <2>3. m \in Wire!ClientState /\ Wire!ClientSound(m, relay.version, wireClock) /\ m.reason = "idle"
    BY <1>3, <1>9, <2>2 DEF Wire!ClientState, Wire!ClientSound
  <2>4. client' = [client EXCEPT ![c].stage = "in", ![c].role = client[c].token.role]
    BY <1>2, <1>9 DEF Wire!Join
  <2>5. client' = [client EXCEPT ![c] = m]
    BY <1>1, <1>2, <2>1, <2>2, <2>4
  <2>6. client'[c].reason # "unauthorized"
    BY <1>1, <2>3, <2>5
  <2>7. spoilt' = {}
    BY <2>6 DEF Wire!Join, Wire!WireInv
  <2>. QED
    BY <1>4, <1>5, <2>3, <2>5, <2>7, OneClient
<1>. QED
  BY <1>7, <1>8, <1>9

LEMMA DisconnectStep ==
  ASSUME Wire!WireInv, NEW c \in Client, Wire!Disconnect(c)
  PROVE  Wire!WireInv'
<1>1. /\ used \in Uses /\ client \in [Client -> Wire!ClientState]
  BY WireShapesAre DEF Wire!WireInv
<1>2. PICK n \in Wire!ClientState : n = client[c]
  BY <1>1
<1>3. Wire!ClientSound(n, relay.version, wireClock)
  BY <1>2, ClientIsSound
<1>4. /\ UNCHANGED <<wireClock, relay, backend>> /\ spoilt' = {} /\ wire' = Wire!WireWithout({c})
  BY DEF Wire!Disconnect, Wire!WireInv
<1>5. used' \in Uses
  BY <1>1 DEF Wire!Disconnect, Wire!Mishap, Uses
<1>6. \A f \in wire' : f \in wire /\ f.at # c
  BY <1>4, NoneIsHis
<1>7. CASE client' = [Wire!Closed(c, "idle") EXCEPT ![c].draft = Wire!NoDraft]
  <2>1. PICK m \in Wire!ClientState : m = Shut(n, "idle") /\ Wire!ClientSound(m, relay.version, wireClock)
    BY <1>3, ShutIsSound DEF Reasons, Wire!Retried
  <2>2. PICK k : k = [m EXCEPT !.draft = Wire!NoDraft]
    OBVIOUS
  <2>3. k \in Wire!ClientState /\ Wire!ClientSound(k, relay.version, wireClock)
    BY <2>1, <2>2 DEF Wire!ClientState, Wire!ClientSound
  <2>4. Wire!Closed(c, "idle") = [client EXCEPT ![c] = m]
    BY <1>1, <1>2, <2>1, ClosedIs
  <2>5. client' = [client EXCEPT ![c] = k]
    BY <1>1, <1>7, <2>2, <2>4
  <2>. QED
    BY <1>4, <1>5, <1>6, <2>3, <2>5, OneClient
<1>8. CASE client' = Wire!Closed(c, Wire!Reason("none"))
  <2>1. client' = [client EXCEPT ![c] = Shut(n, "transient")]
    BY <1>1, <1>2, <1>8, ClosedIs DEF Wire!Reason
  <2>2. PICK m \in Wire!ClientState : m = Shut(n, "transient") /\ Wire!ClientSound(m, relay.version, wireClock)
    BY <1>3, ShutIsSound DEF Reasons, Wire!Retried
  <2>. QED
    BY <1>4, <1>5, <1>6, <2>1, <2>2, OneClient
<1>. QED
  BY <1>7, <1>8 DEF Wire!Disconnect

LEMMA ReloadStep ==
  ASSUME Wire!WireInv, NEW c \in Client, Wire!Reload(c)
  PROVE  Wire!WireInv'
<1>1. /\ used \in Uses /\ client \in [Client -> Wire!ClientState]
  BY WireShapesAre DEF Wire!WireInv
<1>2. PICK n \in Wire!ClientState : n = client[c]
  BY <1>1
<1>3. Wire!ClientSound(n, relay.version, wireClock) /\ n.stage = "out"
  BY <1>2, ClientIsSound DEF Wire!Reload
<1>4. /\ UNCHANGED <<wireClock, relay, backend>> /\ spoilt' = {} /\ wire' = wire /\ used' \in Uses
  BY <1>1 DEF Wire!Reload, Wire!WireInv
<1>5. \A f \in wire' : f \in wire /\ f.at # c
  BY <1>2, <1>3, <1>4, ConnectingHasNone
<1>6. PICK v \in {1, 2} : client' = [client EXCEPT ![c].version = v, ![c].reason = "idle", ![c].draft = Wire!NoDraft]
  BY DEF Wire!Reload
<1>7. PICK m : m = [n EXCEPT !.version = v, !.reason = "idle", !.draft = Wire!NoDraft]
  OBVIOUS
<1>8. m \in Wire!ClientState /\ Wire!ClientSound(m, relay.version, wireClock)
  BY <1>3, <1>7 DEF Wire!ClientState, Wire!ClientSound, Wire!Retried
<1>9. client' = [client EXCEPT ![c] = m]
  BY <1>1, <1>2, <1>6, <1>7
<1>. QED
  BY <1>4, <1>5, <1>8, <1>9, OneClient

LEMMA DraftStep ==
  ASSUME Wire!WireBounds, Wire!WireInv, NEW c \in Client, NEW type \in Wire!Type,
         NEW over \in {0, 1},
         NEW fits \in BOOLEAN, Wire!Draft(c, type, Budget[Wire!ChannelOf(type)] + over, fits)
  PROVE  Wire!WireInv'
<1>1. /\ used \in Uses /\ client \in [Client -> Wire!ClientState]
  BY WireShapesAre DEF Wire!WireInv
<1>2. PICK n \in Wire!ClientState : n = client[c]
  BY <1>1
<1>3. Wire!ClientSound(n, relay.version, wireClock)
  BY <1>2, ClientIsSound
<1>4. /\ UNCHANGED <<wireClock, relay, backend>> /\ spoilt' = {} /\ wire' = wire /\ used' \in Uses
  BY <1>1 DEF Wire!Draft, Wire!WireInv, Uses
<1>5. PICK size \in Int : size = Budget[Wire!ChannelOf(type)] + over
  BY DEF Wire!WireBounds, Wire!ChannelOf, Wire!Channels
<1>6. PICK d : d = [type |-> type, size |-> size, fits |-> fits, room |-> n.room, session |-> n.session]
  OBVIOUS
<1>7. d \in Wire!Drafts \cup {Wire!NoDraft}
  BY <1>6 DEF Wire!Drafts, Wire!ClientState
<1>8. PICK m : m = [n EXCEPT !.draft = d]
  OBVIOUS
<1>9. m \in Wire!ClientState /\ Wire!ClientSound(m, relay.version, wireClock) /\ SameSeat(n, m)
  BY <1>3, <1>7, <1>8 DEF Wire!ClientState, Wire!ClientSound, SameSeat
<1>10. client' = [client EXCEPT ![c] = m]
  BY <1>1, <1>2, <1>5, <1>6, <1>8 DEF Wire!Draft
<1>. QED
  BY <1>2, <1>4, <1>9, <1>10, OneClient

(* What the transport accepts goes up as a sound frame.                     *)
LEMMA WireSends ==
  ASSUME Wire!WireBounds, Wire!WireInv, NEW c \in Client, Wire!Send(c)
  PROVE  Wire!WireInv'
<1>1. /\ used \in Uses /\ client \in [Client -> Wire!ClientState] /\ wire \in SUBSET Wire!Frames
  BY WireShapesAre DEF Wire!WireInv
<1>2. PICK n \in Wire!ClientState : n = client[c]
  BY <1>1
<1>3. Wire!ClientSound(n, relay.version, wireClock)
  BY <1>2, ClientIsSound
<1>4. /\ UNCHANGED <<wireClock, relay, backend>> /\ spoilt' = {} /\ used' \in Uses
  BY <1>1 DEF Wire!Send, Wire!WireInv
<1>5. PICK m : m = [n EXCEPT !.draft = Wire!NoDraft]
  OBVIOUS
<1>6. m \in Wire!ClientState /\ Wire!ClientSound(m, relay.version, wireClock) /\ SameSeat(n, m)
  BY <1>3, <1>5 DEF Wire!ClientState, Wire!ClientSound, SameSeat
<1>7. client' = [client EXCEPT ![c] = m]
  BY <1>1, <1>2, <1>5 DEF Wire!Send
<1>8. CASE ~Wire!Accepts(c)
  <2>1. wire' = wire
    BY <1>8 DEF Wire!Send
  <2>. QED
    BY <1>2, <1>4, <1>6, <1>7, <2>1, OneClient
<1>9. CASE Wire!Accepts(c)
  <2>1. PICK d \in Wire!Drafts : d = n.draft
    BY <1>2 DEF Wire!Send, Wire!ClientState
  <2>2. PICK channel \in Wire!Channels : channel = Wire!ChannelOf(d.type)
    BY DEF Wire!ChannelOf, Wire!Channels
  <2>3. PICK label : label = [room |-> n.room, gen |-> n.gen, version |-> n.version, channel |-> channel]
    OBVIOUS
  <2>4. label \in [room : Wire!Rooms, gen : 0..2, version : {1, 2}, channel : Wire!Channels]
    BY <2>3 DEF Wire!ClientState
  <2>5. /\ n.stage = "in" /\ d.fits /\ d.size <= Budget[channel]
        /\ channel = "scene" => Wire!CanEdit(n.role)
    BY <1>2, <1>9, <2>1, <2>2 DEF Wire!Accepts, Wire!Encodes
  <2>6. PICK size \in Int : size = d.size + Overhead + Header
    BY DEF Wire!Drafts, Wire!WireBounds
  <2>7. PICK g : g = [way |-> "up", at |-> c, conn |-> n.session, channel |-> channel, seal |-> label,
                      message |-> d, size |-> size, mixed |-> FALSE]
    OBVIOUS
  <2>8. g \in Wire!Frames
    BY <2>4, <2>7 DEF Wire!Frames, Wire!ClientState
  <2>9. Wire!FrameSound(g, n)
    BY <2>2, <2>3, <2>5, <2>6, <2>7 DEF Wire!FrameSound
  <2>10. g.at = c /\ client'[c] = m
    BY <1>1, <1>7, <2>7
  <2>11. Wire!FrameSound(g, client'[g.at])
    BY <1>6, <2>9, <2>10, SeatKeeps
  <2>12. wire' = wire \cup {g}
    BY <1>2, <1>9, <2>1, <2>2, <2>3, <2>6, <2>7 DEF Wire!Send, Wire!Label
  <2>. QED
    BY <1>2, <1>4, <1>6, <1>7, <2>8, <2>11, <2>12, OneClient
<1>. QED
  BY <1>8, <1>9

(* A frame under way, and the client it is at.                              *)
LEMMA FrameIsSound ==
  ASSUME Wire!WireInv, NEW f \in wire
  PROVE  /\ f \in Wire!Frames /\ f.at \in Client /\ Wire!FrameSound(f, client[f.at])
         /\ client[f.at] \in Wire!ClientState
         /\ Wire!ClientSound(client[f.at], relay.version, wireClock)
<1>1. f \in Wire!Frames /\ Wire!FrameSound(f, client[f.at])
  BY WireShapesAre DEF Wire!WireInv
<1>2. f.at \in Client
  BY <1>1 DEF Wire!Frames
<1>. QED
  BY <1>1, <1>2, ClientIsSound

LEMMA NothingIsRefused ==
  ASSUME Wire!WireBounds, Wire!WireInv, NEW f \in wire, f.way = "up"
  PROVE  Wire!Refusal(f) = "none"
<1>1. f \in Wire!Frames /\ Wire!FrameSound(f, client[f.at])
  BY FrameIsSound
<1>2. ~f.mixed /\ f.channel = Wire!ChannelOf(f.message.type) /\ f.channel \in Wire!Channels /\ f.size \in Int
      /\ f.message.size \in Int
  BY <1>1 DEF Wire!FrameSound, Wire!Frames, Wire!Drafts
<1>3. Budget["presence"] \in Nat /\ Budget["scene"] \in Nat
  BY DEF Wire!WireBounds, Wire!Channels
<1>4. f.size <= Budget[f.channel] + Overhead + Header
  BY <1>1, <1>2, <1>3 DEF Wire!FrameSound, Wire!WireBounds, Wire!Channels
<1>5. f.size <= Wire!MaxFrame(f.channel) /\ f.size <= Wire!MaxFrame("scene")
  BY <1>2, <1>3, <1>4 DEF Wire!MaxFrame, Wire!MaxSealed, Wire!WireBounds, Wire!Channels
<1>6. f.channel = "scene" => Wire!CanEdit(client[f.at].role)
  BY <1>1 DEF Wire!FrameSound
<1>7. Wire!MaxFrame(f.channel) \in Int /\ Wire!MaxFrame("scene") \in Int
  BY <1>2, <1>3 DEF Wire!MaxFrame, Wire!MaxSealed, Wire!WireBounds, Wire!Channels
<1>. QED
  BY <1>2, <1>5, <1>6, <1>7 DEF Wire!Refusal

LEMMA RelayStep ==
  ASSUME Wire!WireBounds, Wire!WireInv, NEW f \in wire, Wire!Relay(f)
  PROVE  Wire!WireInv'
<1>1. f.way = "up" /\ Wire!Refusal(f) = "none"
  BY NothingIsRefused DEF Wire!Relay
<1>2. /\ UNCHANGED <<wireClock, relay, backend, client>> /\ spoilt' = {} /\ used' = used /\ used \in Uses
  BY <1>1, WireShapesAre DEF Wire!Relay, Wire!WireInv
<1>3. PICK n \in Wire!ClientState : n = client[f.at] /\ Wire!FrameSound(f, n) /\ Wire!ClientSound(n, relay.version, wireClock)
  BY FrameIsSound
<1>4. f \in Wire!Frames
  BY FrameIsSound
<1>5. ASSUME NEW d \in Client, client[d].stage = "in", client[d].room = n.room,
             client[d].gen = n.gen,
             NEW g, g = [f EXCEPT !.way = "down", !.at = d, !.conn = client[d].session]
      PROVE  g \in Wire!Frames /\ Wire!FrameSound(g, client[g.at])
  <2>1. PICK m \in Wire!ClientState : m = client[d] /\ Wire!ClientSound(m, relay.version, wireClock)
    BY ClientIsSound
  <2>2. m.stage = "in" /\ m.room = n.room /\ m.gen = n.gen /\ m.version = n.version
    BY <1>3, <1>5, <2>1 DEF Wire!ClientSound, Wire!FrameSound
  <2>3. PICK s \in Nat : s = m.session
    BY DEF Wire!ClientState
  <2>4. g = [f EXCEPT !.way = "down", !.at = d, !.conn = s]
    BY <1>5, <2>1, <2>3
  <2>5. /\ g \in Wire!Frames /\ g.way = "down" /\ g.at = d /\ g.conn = s /\ g.channel = f.channel
        /\ g.seal = f.seal /\ g.message = f.message /\ g.size = f.size /\ g.mixed = f.mixed
    BY <1>4, <2>4 DEF Wire!Frames
  <2>6. Wire!FrameSound(g, m)
    BY <1>1, <1>3, <2>2, <2>3, <2>5 DEF Wire!FrameSound
  <2>. QED
    BY <2>1, <2>5, <2>6
<1>6. ASSUME NEW g \in wire'
      PROVE  g \in wire \/ (g \in Wire!Frames /\ Wire!FrameSound(g, client[g.at]))
  <2>1. SUFFICES ASSUME g \notin wire PROVE g \in Wire!Frames /\ Wire!FrameSound(g, client[g.at])
    OBVIOUS
  <2>2. PICK d \in Client : /\ client[d].stage = "in" /\ client[d].room = client[f.at].room
                            /\ client[d].gen = client[f.at].gen
                            /\ g = [f EXCEPT !.way = "down", !.at = d, !.conn = client[d].session]
    <3>. DEFINE others == {d \in Client \ {f.at} : client[d].stage = "in" /\ client[d].room = client[f.at].room
                                                 /\ client[d].gen = client[f.at].gen}
                sent(d) == [f EXCEPT !.way = "down", !.at = d, !.conn = client[d].session]
    <3>1. wire' = (wire \ {f}) \cup {sent(d) : d \in others}
      BY <1>1 DEF Wire!Relay
    <3>2. \A d \in others : d \in Client /\ client[d].stage = "in" /\ client[d].room = client[f.at].room
                           /\ client[d].gen = client[f.at].gen
      OBVIOUS
    <3>. HIDE DEF others, sent
    <3>3. PICK d \in others : g = sent(d)
      BY <2>1, <3>1
    <3>. QED
      BY <3>2, <3>3 DEF sent
  <2>. QED
    BY <1>3, <1>5, <2>2
<1>. QED
  BY <1>2, <1>6, WireOnly

(* What was not mixed up opens and decodes; what was does not open.         *)
LEMMA ReceiveStep ==
  ASSUME Wire!WireBounds, Wire!WireInv, NEW f \in wire, Wire!Receive(f)
  PROVE  Wire!WireInv'
<1>1. /\ UNCHANGED <<wireClock, relay, backend, client>> /\ used' = used /\ used \in Uses /\ wire' = wire \ {f}
  BY WireShapesAre DEF Wire!Receive, Wire!WireInv
<1>2. PICK n \in Wire!ClientState : n = client[f.at] /\ Wire!FrameSound(f, n)
  BY FrameIsSound
<1>3. f \in Wire!Frames
  BY FrameIsSound
<1>4. Wire!Label(f.at, f.channel)
        = [room |-> n.room, gen |-> n.gen, version |-> n.version, channel |-> f.channel]
  BY <1>2 DEF Wire!Label
<1>5. CASE f.mixed
  <2>1. ~Wire!Opens(f)
    BY <1>2, <1>4, <1>5 DEF Wire!Opens, Wire!FrameSound
  <2>2. spoilt' = {}
    BY <1>5, <2>1 DEF Wire!Receive, Wire!WireInv
  <2>. QED
    BY <1>1, <2>2, WireOnly
<1>6. CASE ~f.mixed
  <2>1. /\ f.seal = Wire!Label(f.at, f.channel) /\ f.seal.version = n.version
        /\ f.channel = Wire!ChannelOf(f.message.type) /\ f.message.fits
        /\ f.message.size <= Budget[f.channel] /\ f.size = f.message.size + Overhead + Header
    BY <1>2, <1>4, <1>6 DEF Wire!FrameSound
  <2>2. f.message.size \in Int /\ Budget[f.channel] \in Nat
    BY <1>3 DEF Wire!Frames, Wire!Drafts, Wire!WireBounds
  <2>3. Wire!Opens(f)
    BY <2>1, <2>2 DEF Wire!Opens, Wire!MaxSealed, Wire!WireBounds
  <2>4. Wire!Decodes(f)
    BY <1>2, <2>1 DEF Wire!Decodes
  <2>5. spoilt' = {}
    BY <1>6, <2>3, <2>4 DEF Wire!Receive, Wire!WireInv
  <2>. QED
    BY <1>1, <2>5, WireOnly
<1>. QED
  BY <1>5, <1>6

LEMMA MixStep ==
  ASSUME Wire!WireInv, NEW f \in wire, Wire!Mix(f)
  PROVE  Wire!WireInv'
<1>1. /\ UNCHANGED <<wireClock, relay, backend, client>> /\ spoilt' = {} /\ used' \in Uses
  BY WireShapesAre DEF Wire!Mix, Wire!Mishap, Wire!WireInv, Uses
<1>2. PICK n \in Wire!ClientState : n = client[f.at] /\ Wire!FrameSound(f, n)
  BY FrameIsSound
<1>3. f \in Wire!Frames /\ ~f.mixed /\ f.way = "down"
  BY FrameIsSound DEF Wire!Mix
<1>4. PICK c \in Client, channel \in Wire!Channels :
        /\ client[c].stage = "in" /\ (c # f.at \/ channel # f.channel)
        /\ c = f.at \/ client[c].room # client[f.at].room \/ client[c].gen # client[f.at].gen
        /\ wire' = (wire \ {f}) \cup {[f EXCEPT !.at = c, !.conn = client[c].session, !.channel = channel, !.mixed = TRUE]}
  BY DEF Wire!Mix
<1>5. PICK m \in Wire!ClientState : m = client[c]
  BY ClientIsSound
<1>6. PICK s \in Nat : s = m.session
  BY DEF Wire!ClientState
<1>7. PICK g : g = [f EXCEPT !.at = c, !.conn = s, !.channel = channel, !.mixed = TRUE]
  OBVIOUS
<1>8. /\ g \in Wire!Frames /\ g.way = "down" /\ g.at = c /\ g.conn = s /\ g.channel = channel
      /\ g.seal = f.seal /\ g.message = f.message /\ g.size = f.size /\ g.mixed
  BY <1>3, <1>7 DEF Wire!Frames
<1>9. f.seal = [room |-> n.room, gen |-> n.gen, version |-> n.version, channel |-> f.channel]
  BY <1>2, <1>3 DEF Wire!FrameSound
<1>10. f.seal # [room |-> m.room, gen |-> m.gen, version |-> m.version, channel |-> channel]
  BY <1>2, <1>4, <1>5, <1>9
<1>11. Wire!FrameSound(g, m)
  BY <1>2, <1>4, <1>5, <1>6, <1>8, <1>10 DEF Wire!FrameSound
<1>12. wire' = (wire \ {f}) \cup {g}
  BY <1>4, <1>5, <1>6, <1>7
<1>. QED
  BY <1>1, <1>5, <1>8, <1>11, <1>12, WireOnly

LEMMA DeployStep ==
  ASSUME Wire!WireInv, Wire!Deploy
  PROVE  Wire!WireInv'
<1>1. /\ wireClock \in Nat /\ used \in Uses /\ relay \in Relays /\ backend \in Backends
      /\ client \in [Client -> Wire!ClientState]
  BY WireShapesAre DEF Wire!WireInv
<1>2. UNCHANGED <<wireClock, backend>> /\ spoilt' = {} /\ wire' = {} /\ used' \in Uses
  BY <1>1 DEF Wire!Deploy, Wire!Mishap, Wire!WireInv, Uses
<1>3. relay' \in Relays /\ relay'.version \in {relay.version, 2}
  BY <1>1 DEF Wire!Deploy, Relays
<1>4. relay.version \in {1, 2}
  BY <1>1 DEF Relays
<1>5. client' = [c \in Client |-> IF client[c].stage = "out" THEN client[c]
                                  ELSE Wire!Closed(c, "transient")[c]]
  BY DEF Wire!Deploy, Wire!Reason
<1>6. ASSUME NEW c \in Client
      PROVE  client'[c] \in Wire!ClientState /\ Wire!ClientSound(client'[c], relay'.version, wireClock)
  <2>1. PICK n \in Wire!ClientState : n = client[c] /\ Wire!ClientSound(n, relay.version, wireClock)
    BY ClientIsSound
  <2>2. n.version \in {1, 2}
    BY DEF Wire!ClientState
  <2>3. CASE n.stage = "out"
    <3>1. client'[c] = n
      BY <1>5, <2>1, <2>3
    <3>. QED
      BY <1>3, <1>4, <2>1, <2>2, <2>3, <3>1 DEF Wire!ClientSound
  <2>4. CASE n.stage # "out"
    <3>1. client'[c] = Shut(n, "transient")
      BY <1>1, <1>5, <2>1, <2>4, ClosedIs
    <3>2. PICK m \in Wire!ClientState : m = Shut(n, "transient") /\ Wire!ClientSound(m, relay.version, wireClock)
      BY <2>1, ShutIsSound DEF Reasons, Wire!Retried
    <3>3. m.stage = "out" /\ m.reason = "transient"
      BY <3>2 DEF Shut, Wire!ClientState
    <3>. QED
      BY <3>1, <3>2, <3>3 DEF Wire!ClientSound
  <2>. QED
    BY <2>3, <2>4
<1>7. Wire!WireShapes'
  BY <1>1, <1>2, <1>3, <1>5, <1>6, WireShapesAre
<1>. QED
  BY <1>2, <1>6, <1>7 DEF Wire!WireInv

LEMMA RestStep ==
  ASSUME Wire!WireInv, Wire!ChangeBackend \/ Wire!Tick
  PROVE  Wire!WireInv'
<1>1. /\ wireClock \in Nat /\ used \in Uses /\ relay \in Relays /\ backend \in Backends
      /\ client \in [Client -> Wire!ClientState] /\ wire \in SUBSET Wire!Frames
  BY WireShapesAre DEF Wire!WireInv
<1>2. UNCHANGED <<relay, client, wire>> /\ spoilt' = {}
  BY DEF Wire!ChangeBackend, Wire!Tick, Wire!WireInv
<1>3. wireClock' \in Nat /\ wireClock <= wireClock'
  BY <1>1 DEF Wire!ChangeBackend, Wire!Tick
<1>4. used' \in Uses /\ backend' \in Backends
  BY <1>1 DEF Wire!ChangeBackend, Wire!Tick, Wire!Mishap, Uses, Backends
<1>5. Wire!WireShapes'
  BY <1>1, <1>2, <1>3, <1>4, WireShapesAre
<1>6. ASSUME NEW c \in Client
      PROVE  Wire!ClientSound(client[c], relay.version, wireClock')
  <2>1. Wire!ClientSound(client[c], relay.version, wireClock)
    BY ClientIsSound
  <2>2. client[c].token \in Wire!Tokens => client[c].token.iat \in Int
    BY DEF Wire!Tokens
  <2>. QED
    BY <1>1, <1>3, <2>1, <2>2 DEF Wire!ClientSound
<1>. QED
  BY <1>2, <1>5, <1>6 DEF Wire!WireInv

LEMMA WireStep == Wire!WireBounds /\ Wire!WireInv /\ Wire!Next => Wire!WireInv'
<1>. SUFFICES ASSUME Wire!WireBounds, Wire!WireInv, Wire!Next PROVE Wire!WireInv'
  OBVIOUS
<1>1. ASSUME NEW c \in Client,
             (\E hall \in Room : Wire!Connect(c, hall)) \/ Wire!Join(c) \/ Wire!Disconnect(c) \/ Wire!Reload(c)
      PROVE  Wire!WireInv'
  BY <1>1, WireConnects, JoinStep, DisconnectStep, ReloadStep
<1>2. ASSUME NEW c \in Client, Wire!Send(c)
      PROVE  Wire!WireInv'
  BY <1>2, WireSends
<1>3. ASSUME NEW c \in Client, NEW type \in Wire!Type, NEW over \in {0, 1}, NEW fits \in BOOLEAN,
             Wire!Draft(c, type, Budget[Wire!ChannelOf(type)] + over, fits)
      PROVE  Wire!WireInv'
  BY <1>3, DraftStep
<1>4. ASSUME NEW f \in wire, Wire!Relay(f) \/ Wire!Receive(f) \/ Wire!Mix(f)
      PROVE  Wire!WireInv'
  BY <1>4, RelayStep, ReceiveStep, MixStep
<1>5. CASE Wire!Deploy \/ Wire!ChangeBackend \/ Wire!Tick
  BY <1>5, DeployStep, RestStep
<1>. QED
  BY <1>1, <1>2, <1>3, <1>4, <1>5 DEF Wire!Next

LEMMA WireStays == Wire!WireInv /\ UNCHANGED Wire!vars => Wire!WireInv'
BY WireShapesAre DEF Wire!vars, Wire!WireInv

LEMMA WireStarts == Wire!WireBounds /\ Wire!Init => Wire!WireInv
<1>. SUFFICES ASSUME Wire!WireBounds, Wire!Init PROVE Wire!WireInv
  OBVIOUS
<1>1. PICK n : n = [version |-> 1, stage |-> "out", room |-> "none", gen |-> 0, role |-> "viewer",
                    token |-> Wire!NoToken, session |-> 0, reason |-> "idle", draft |-> Wire!NoDraft]
  OBVIOUS
<1>2. PICK t \in Wire!Tokens \cup {Wire!NoToken} : t = Wire!NoToken
  OBVIOUS
<1>3. PICK d \in Wire!Drafts \cup {Wire!NoDraft} : d = Wire!NoDraft
  OBVIOUS
<1>4. n = [version |-> 1, stage |-> "out", room |-> "none", gen |-> 0, role |-> "viewer",
           token |-> t, session |-> 0, reason |-> "idle", draft |-> d]
  BY <1>1, <1>2, <1>3
<1>5. n \in Wire!ClientState /\ Wire!ClientSound(n, relay.version, wireClock)
  BY <1>4 DEF Wire!ClientState, Wire!ClientSound, Wire!Roles, Wire!Rooms, Wire!Retried
<1>6. client = [c \in Client |-> n]
  BY <1>1 DEF Wire!Init
<1>7. used \in Uses /\ wireClock \in Nat /\ wire = {} /\ spoilt = {}
  BY DEF Wire!Init, Uses
<1>8. relay \in Relays /\ backend \in Backends
  BY DEF Wire!Init, Relays, Backends, Wire!Roles
<1>9. Wire!WireShapes
  BY <1>5, <1>6, <1>7, <1>8, WireShapesAre
<1>. QED
  BY <1>5, <1>6, <1>7, <1>9 DEF Wire!WireInv

LEMMA WireHolds == Wire!WireInv => Wire!WireSound
BY DEF Wire!WireInv, Wire!ClientSound, Wire!WireSound, Wire!AcceptedArrives, Wire!OneVersion,
   Wire!ToldTheTruth

\* What a sender's transport accepts is refused nowhere on its way and opens in its own
\* place only, a token that has not expired opens its room whatever the clocks, and who
\* is in a room speaks its version (relay-protocol.ts, room-token.ts, server.ts).
THEOREM WireKept == Wire!WireBounds /\ Wire!Init /\ [][Wire!Next]_Wire!vars => []Wire!WireSound
<1>. SUFFICES ASSUME Wire!WireBounds
              PROVE  Wire!Init /\ [][Wire!Next]_Wire!vars => []Wire!WireSound
  OBVIOUS
<1>1. Wire!Init => Wire!WireInv
  BY WireStarts
<1>2. Wire!WireInv /\ [Wire!Next]_Wire!vars => Wire!WireInv'
  BY WireStep, WireStays
<1>. QED
  BY <1>1, <1>2, WireHolds, PTL

-----------------------------------------------------------------------------
CONSTANTS Conn, MaxServed, DrainTimeout, RejectGrace, KillTimeout, MaxCauses
VARIABLES proc, conn, manager
Process == INSTANCE RelayProcess WITH MaxConnections <- MaxServed

Phases == {"starting", "serving", "draining", "closing", "exited", "killed"}
Processes == [phase : Phases, shutting : BOOLEAN, draining : BOOLEAN, watchdog : BOOLEAN,
              age : Nat, pending : SUBSET Conn, code : Nat]
Managers == [causes : Nat, first : Nat, asked : BOOLEAN, age : Nat]

LEMMA ProcessShapesAre ==
  /\ Process!ProcessShapes <=> /\ proc \in Processes /\ conn \in [Conn -> Process!ConnState]
                               /\ manager \in Managers
  /\ Process!ProcessShapes' <=> /\ proc' \in Processes /\ conn' \in [Conn -> Process!ConnState]
                                /\ manager' \in Managers
BY DEF Process!ProcessShapes, Processes, Managers, Phases

LEMMA ProcessStarts == DrainTimeout \in Nat /\ Process!Init => Process!ProcessInv
<1>. SUFFICES ASSUME DrainTimeout \in Nat, Process!Init PROVE Process!ProcessInv
  OBVIOUS
<1>1. proc \in Processes /\ proc.phase = "starting" /\ ~proc.shutting /\ ~proc.watchdog
      /\ proc.age = 0
  BY DEF Process!Init, Processes, Phases
<1>2. manager \in Managers /\ manager.causes = 0 /\ ~manager.asked /\ manager.age = 0
  BY DEF Process!Init, Managers
<1>3. Process!NoConn \in Process!ConnState /\ Process!ConnSound(Process!NoConn)
  BY DEF Process!NoConn, Process!ConnState, Process!Reasons, Process!ConnSound
<1>4. conn \in [Conn -> Process!ConnState] /\ \A c \in Conn : Process!ConnSound(conn[c])
  BY <1>3 DEF Process!Init
<1>. QED
  BY <1>1, <1>2, <1>4, ProcessShapesAre DEF Process!ProcessInv, Process!DrainInv, Process!CauseInv

(* What becomes of a socket that is told, and of one that goes.             *)
LEMMA ToldIsSound ==
  ASSUME NEW n \in Process!ConnState, Process!ConnSound(n),
         NEW code \in {"relayRestarting", "internalError"}
  PROVE  /\ Process!Told(n, code) \in Process!ConnState /\ Process!ConnSound(Process!Told(n, code))
         /\ Process!Told(n, code).sock # "open" /\ Process!Told(n, code).served = n.served
BY DEF Process!Told, Process!Closing, Process!Recorded, Process!ConnSound, Process!ConnState,
   Process!Reasons

LEMMA GoneIsSound ==
  ASSUME NEW n \in Process!ConnState, Process!ConnSound(n), NEW reason \in Process!Reasons,
         n.served /\ n.reason = "none" => reason # "shutdown"
  PROVE  /\ Process!Gone(n, reason) \in Process!ConnState /\ Process!ConnSound(Process!Gone(n, reason))
         /\ Process!Gone(n, reason).sock = "closed" /\ Process!Gone(n, reason).served = n.served
BY DEF Process!Gone, Process!Recorded, Process!ConnSound, Process!ConnState, Process!Reasons

(* Whoever is still there when the listener closes was told before.         *)
Calm(cs) == \A c \in Conn : cs[c].served => cs[c].sock # "open"
Sound(cs) == cs \in [Conn -> Process!ConnState] /\ \A c \in Conn : Process!ConnSound(cs[c])
Same(p, q) == /\ p.shutting = q.shutting /\ p.draining = q.draining /\ p.watchdog = q.watchdog
              /\ p.age = q.age /\ p.code = q.code

LEMMA ClosesSoundly ==
  ASSUME NEW p \in Processes, NEW cs, Sound(cs), Calm(cs), Process!Close(p, cs)
  PROVE  /\ proc' \in Processes /\ proc'.phase = "closing" /\ Same(proc', p)
         /\ Sound(conn')
<1>1. proc' \in Processes /\ proc'.phase = "closing" /\ Same(proc', p)
  BY DEF Process!Close, Processes, Phases, Same
<1>2. ASSUME NEW c \in Conn
      PROVE  conn'[c] \in Process!ConnState /\ Process!ConnSound(conn'[c])
  <2>1. PICK n \in Process!ConnState : n = cs[c]
    BY DEF Sound
  <2>2. Process!ConnSound(n) /\ (n.served => n.sock # "open")
    BY <2>1 DEF Sound, Calm
  <2>3. conn'[c] = IF n.sock \in {"open", "closing"} THEN Process!Gone(n, "shutdown") ELSE n
    BY <2>1 DEF Process!Close
  <2>4. CASE n.sock \in {"open", "closing"}
    <3>1. n.served /\ n.reason = "none" => FALSE
      BY <2>2, <2>4 DEF Process!ConnSound
    <3>2. "shutdown" \in Process!Reasons
      BY DEF Process!Reasons
    <3>. QED
      BY <2>2, <2>3, <2>4, <3>1, <3>2, GoneIsSound
  <2>5. CASE n.sock \notin {"open", "closing"}
    BY <2>2, <2>3, <2>5
  <2>. QED
    BY <2>4, <2>5
<1>3. conn'
        = [c \in Conn |-> IF cs[c].sock \in {"open", "closing"} THEN Process!Gone(cs[c], "shutdown") ELSE cs[c]]
  BY DEF Process!Close
<1>. QED
  BY <1>1, <1>2, <1>3 DEF Sound

(* Where a step goes that leaves the causes alone.                          *)
Onward ==
  /\ proc' \in Processes /\ Same(proc', proc) /\ Sound(conn') /\ manager' = manager
  /\ \/ proc'.phase = proc.phase /\ (proc.phase = "draining" => Calm(conn'))
     \/ proc.phase = "draining" /\ proc'.phase = "closing"

LEMMA OnwardKeeps == Process!ProcessInv /\ Onward => Process!ProcessInv'
<1>. SUFFICES ASSUME Process!ProcessInv, Onward PROVE Process!ProcessInv'
  OBVIOUS
<1>1. Process!ProcessShapes'
  BY ProcessShapesAre DEF Onward, Sound, Process!ProcessInv
<1>2. \A c \in Conn : Process!ConnSound(conn'[c])
  BY DEF Onward, Sound
<1>3. Process!DrainInv'
  BY DEF Process!DrainInv, Process!ProcessInv, Onward, Same, Calm
<1>4. Process!CauseInv'
  BY DEF Process!CauseInv, Process!ProcessInv, Onward, Same
<1>. QED
  BY <1>1, <1>2, <1>3, <1>4 DEF Process!ProcessInv

(* One socket of a process that is up goes.                                 *)
LEMMA SettlesSoundly ==
  ASSUME Process!ProcessInv, NEW c \in Conn, NEW reason \in {"peerClosed", "heartbeatTimeout"},
         Process!Settle(proc, [conn EXCEPT ![c] = Process!Gone(@, reason)], c), UNCHANGED manager
  PROVE  Onward
<1>. DEFINE cs == [conn EXCEPT ![c] = Process!Gone(@, reason)]
<1>1. /\ proc \in Processes /\ conn \in [Conn -> Process!ConnState]
      /\ \A d \in Conn : Process!ConnSound(conn[d])
  BY ProcessShapesAre DEF Process!ProcessInv
<1>2. reason \in Process!Reasons /\ reason # "shutdown"
  BY DEF Process!Reasons
<1>3. Process!Gone(conn[c], reason) \in Process!ConnState /\ Process!ConnSound(Process!Gone(conn[c], reason))
      /\ Process!Gone(conn[c], reason).sock = "closed"
  BY <1>1, <1>2, GoneIsSound
<1>4. Sound(cs)
  BY <1>1, <1>3 DEF Sound
<1>5. proc.phase = "draining" => Calm(cs)
  BY <1>1, <1>3 DEF Process!ProcessInv, Process!DrainInv, Calm
<1>6. CASE proc.phase = "draining" /\ proc.pending \subseteq {c}
  <2>1. Process!Close(proc, cs)
    BY <1>6 DEF Process!Settle
  <2>2. Calm(cs)
    BY <1>5, <1>6
  <2>. HIDE DEF cs
  <2>3. proc' \in Processes /\ proc'.phase = "closing" /\ Same(proc', proc) /\ Sound(conn')
    BY <1>1, <1>4, <2>1, <2>2, ClosesSoundly
  <2>. QED
    BY <1>6, <2>3 DEF Onward
<1>7. CASE ~(proc.phase = "draining" /\ proc.pending \subseteq {c})
  <2>1. proc' = [proc EXCEPT !.pending = @ \ {c}] /\ conn' = cs
    BY <1>7 DEF Process!Settle
  <2>2. proc' \in Processes /\ Same(proc', proc) /\ proc'.phase = proc.phase
    BY <1>1, <2>1 DEF Processes, Same
  <2>. QED
    BY <1>4, <1>5, <2>1, <2>2 DEF Onward
<1>. QED
  BY <1>6, <1>7

LEMMA ConnKeeps ==
  ASSUME Process!ProcessInv, NEW c \in Conn, NEW n \in Process!ConnState, Process!ConnSound(n),
         proc.phase = "draining" /\ n.served => n.sock # "open",
         conn' = [conn EXCEPT ![c] = n], UNCHANGED <<proc, manager>>
  PROVE  Onward
<1>1. /\ proc \in Processes /\ conn \in [Conn -> Process!ConnState]
      /\ \A d \in Conn : Process!ConnSound(conn[d])
  BY ProcessShapesAre DEF Process!ProcessInv
<1>2. Sound(conn')
  BY <1>1 DEF Sound
<1>3. proc.phase = "draining" => Calm(conn')
  BY <1>1 DEF Process!ProcessInv, Process!DrainInv, Calm
<1>. QED
  BY <1>1, <1>2, <1>3 DEF Onward, Same

LEMMA SocketStep ==
  ASSUME Process!ProcessInv, NEW c \in Conn,
         Process!Connect(c) \/ Process!SocketCloses(c) \/ Process!MissesHeartbeat(c) \/ Process!FrameThrows(c) \/ Process!GraceEnds(c)
  PROVE  Process!ProcessInv'
<1>1. conn[c] \in Process!ConnState /\ Process!ConnSound(conn[c])
  BY ProcessShapesAre DEF Process!ProcessInv
<1>2. CASE Process!Connect(c)
  <2>. DEFINE n == IF proc.draining THEN Process!Refused("relayRestarting")
                   ELSE IF Process!Cardinality(Process!Clients) + 1 > MaxServed THEN Process!Refused("relayAtCapacity")
                   ELSE [Process!NoConn EXCEPT !.sock = "open", !.served = TRUE]
  <2>1. conn' = [conn EXCEPT ![c] = n] /\ UNCHANGED <<proc, manager>>
    BY <1>2 DEF Process!Connect
  <2>2. ASSUME NEW code \in {"relayRestarting", "relayAtCapacity"}
        PROVE  Process!Refused(code) \in Process!ConnState /\ Process!ConnSound(Process!Refused(code)) /\ ~Process!Refused(code).served
    BY DEF Process!Refused, Process!NoConn, Process!ConnState, Process!ConnSound, Process!Reasons
  <2>3. [Process!NoConn EXCEPT !.sock = "open", !.served = TRUE] \in Process!ConnState
        /\ Process!ConnSound([Process!NoConn EXCEPT !.sock = "open", !.served = TRUE])
    BY DEF Process!NoConn, Process!ConnState, Process!ConnSound, Process!Reasons
  <2>4. proc.phase = "draining" => proc.draining
    BY DEF Process!ProcessInv, Process!DrainInv
  <2>5. /\ n \in Process!ConnState
        /\ Process!ConnSound(n)
        /\ (proc.phase = "draining" /\ n.served => n.sock # "open")
    BY <2>2, <2>3, <2>4
  <2>. HIDE DEF n
  <2>. QED
    BY <2>1, <2>5, ConnKeeps, OnwardKeeps
<1>3. CASE Process!SocketCloses(c)
  BY <1>3, SettlesSoundly, OnwardKeeps DEF Process!SocketCloses
<1>4. CASE Process!MissesHeartbeat(c)
  BY <1>4, SettlesSoundly, OnwardKeeps DEF Process!MissesHeartbeat
<1>5. CASE Process!FrameThrows(c)
  <2>1. CASE conn' = [conn EXCEPT ![c] = Process!Told(@, "internalError")] /\ UNCHANGED proc
    <3>1. PICK n : n = Process!Told(conn[c], "internalError")
      OBVIOUS
    <3>2. n \in Process!ConnState /\ Process!ConnSound(n) /\ n.sock # "open"
      BY <1>1, <3>1, ToldIsSound
    <3>3. conn' = [conn EXCEPT ![c] = n] /\ UNCHANGED <<proc, manager>>
      BY <1>5, <2>1, <3>1 DEF Process!FrameThrows
    <3>. QED
      BY <3>2, <3>3, ConnKeeps, OnwardKeeps
  <2>2. CASE Process!Settle(proc, [conn EXCEPT ![c] = Process!Gone(@, "peerClosed")], c)
    BY <1>5, <2>2, SettlesSoundly, OnwardKeeps DEF Process!FrameThrows
  <2>. QED
    BY <1>5, <2>1, <2>2 DEF Process!FrameThrows
<1>6. CASE Process!GraceEnds(c)
  BY <1>6, SettlesSoundly, OnwardKeeps DEF Process!GraceEnds
<1>. QED
  BY <1>2, <1>3, <1>4, <1>5, <1>6

(* A cause: the first begins the drain, the others only count.              *)
LEMMA CauseKeeps ==
  ASSUME Process!PatienceIsLonger, Process!ProcessInv, NEW code \in {0, 1}, NEW asked \in BOOLEAN,
         asked => ~manager.asked,
         Process!Cause(code, asked), Process!Shutdown(code)
  PROVE  Process!ProcessInv'
<1>1. /\ proc \in Processes /\ conn \in [Conn -> Process!ConnState] /\ manager \in Managers
      /\ \A d \in Conn : Process!ConnSound(conn[d])
  BY ProcessShapesAre DEF Process!ProcessInv
<1>2. proc.phase \in {"serving", "draining", "closing"}
  BY DEF Process!Cause
<1>3. /\ manager' \in Managers /\ manager'.causes > 0 /\ manager'.age = manager.age
      /\ manager'.asked <=> (manager.asked \/ asked)
      /\ manager'.first = IF manager.causes = 0 THEN code ELSE manager.first
  <2>1. PICK j \in BOOLEAN : j = (manager.asked \/ asked)
    OBVIOUS
  <2>2. PICK e : e = IF manager.causes = 0 THEN code ELSE manager.first
    OBVIOUS
  <2>3. manager.causes \in Nat /\ manager.first \in Nat
    BY <1>1 DEF Managers
  <2>4. e \in Nat
    BY <2>2, <2>3
  <2>5. manager' = [manager EXCEPT !.causes = @ + 1, !.asked = @ \/ asked,
                                   !.first = IF manager.causes = 0 THEN code ELSE @]
    BY DEF Process!Cause
  <2>6. manager' = [manager EXCEPT !.causes = manager.causes + 1, !.asked = j, !.first = e]
    BY <1>1, <2>1, <2>2, <2>5, Zenon DEF Managers
  <2>7. PICK o \in Managers : o = manager
    BY <1>1
  <2>8. PICK k : k = [o EXCEPT !.causes = manager.causes + 1, !.asked = j, !.first = e]
    OBVIOUS
  <2>9. PICK u \in Nat : u = manager.causes + 1
    BY <2>3
  <2>10. k = [o EXCEPT !.causes = u, !.asked = j, !.first = e]
    BY <2>8, <2>9
  <2>11. k \in Managers /\ k.causes = u /\ k.age = o.age /\ k.asked = j /\ k.first = e
    BY <2>4, <2>10 DEF Managers
  <2>12. manager' = k
    BY <2>6, <2>7, <2>8
  <2>13. manager' \in Managers /\ manager'.causes > 0
    BY <2>3, <2>9, <2>11, <2>12
  <2>14. /\ manager'.age = manager.age
         /\ manager'.first = IF manager.causes = 0 THEN code ELSE manager.first
    BY <2>2, <2>7, <2>11, <2>12
  <2>15. manager'.asked <=> (manager.asked \/ asked)
    BY <2>1, <2>11, <2>12, Zenon
  <2>. QED
    BY <2>13, <2>14, <2>15
<1>4. CASE proc.shutting
  <2>1. UNCHANGED <<proc, conn>>
    BY <1>4 DEF Process!Shutdown
  <2>2. Process!ProcessShapes'
    BY <1>1, <1>3, <2>1, ProcessShapesAre
  <2>3. manager.causes > 0 /\ manager.causes \in Nat
    BY <1>1, <1>4 DEF Process!ProcessInv, Process!CauseInv, Managers
  <2>4. Process!CauseInv'
    BY <1>3, <1>4, <2>1, <2>3 DEF Process!ProcessInv, Process!CauseInv
  <2>5. Process!DrainInv'
    <3>1. proc.age \in Nat /\ (asked => manager.age = 0)
      BY <1>1 DEF Process!ProcessInv, Process!CauseInv, Processes
    <3>. QED
      BY <1>3, <2>1, <3>1 DEF Process!ProcessInv, Process!DrainInv
  <2>. QED
    BY <1>1, <2>1, <2>2, <2>4, <2>5 DEF Process!ProcessInv
<1>5. CASE ~proc.shutting
  <2>. DEFINE p == [proc EXCEPT !.shutting = TRUE, !.watchdog = FALSE, !.code = code]
              q == [p EXCEPT !.phase = "draining", !.draining = TRUE, !.pending = Process!Clients]
              told == [c \in Conn |-> IF c \in Process!Clients THEN Process!Told(conn[c], "relayRestarting") ELSE conn[c]]
  <2>1. /\ q \in Processes /\ q.shutting /\ ~q.watchdog /\ q.code = code /\ q.phase = "draining"
        /\ q.draining /\ q.age = proc.age
    <3>1. PICK pending \in SUBSET Conn : pending = Process!Clients
      BY DEF Process!Clients
    <3>2. PICK o \in Processes : o = proc
      BY <1>1
    <3>3. PICK r : r = [o EXCEPT !.shutting = TRUE, !.watchdog = FALSE, !.code = code]
      OBVIOUS
    <3>4. PICK k \in Nat : k = code
      OBVIOUS
    <3>5. r = [o EXCEPT !.shutting = TRUE, !.watchdog = FALSE, !.code = k]
      BY <3>3, <3>4
    <3>6. r \in Processes /\ r.shutting /\ ~r.watchdog /\ r.code = code /\ r.age = o.age
      BY <3>4, <3>5 DEF Processes
    <3>7. q = [r EXCEPT !.phase = "draining", !.draining = TRUE, !.pending = pending]
      BY <3>1, <3>2, <3>3
    <3>. HIDE DEF p, q
    <3>8. /\ q \in Processes /\ q.phase = "draining" /\ q.draining
          /\ q.shutting = r.shutting /\ q.watchdog = r.watchdog /\ q.code = r.code /\ q.age = r.age
      BY <3>7, <3>6 DEF Processes, Phases
    <3>. QED
      BY <3>2, <3>8, <3>6
  <2>2. IF Process!Clients = {} THEN Process!Close(q, told) ELSE proc' = q /\ conn' = told
    BY <1>5 DEF Process!Shutdown, Process!Drain
  <2>3. ASSUME NEW c \in Conn
        PROVE  /\ told[c] \in Process!ConnState /\ Process!ConnSound(told[c])
               /\ told[c].served => told[c].sock # "open"
    <3>1. CASE c \in Process!Clients
      BY <1>1, <3>1, ToldIsSound
    <3>2. CASE c \notin Process!Clients
      BY <1>1, <3>2 DEF Process!Clients
    <3>. QED
      BY <3>1, <3>2
  <2>4. Sound(told) /\ Calm(told)
    BY <2>3 DEF Sound, Calm
  <2>. HIDE DEF p, q, told
  <2>5. /\ proc' \in Processes /\ proc'.shutting /\ ~proc'.watchdog /\ proc'.code = code
        /\ Sound(conn')
        /\ \/ proc'.phase = "draining" /\ Calm(conn') /\ proc'.draining /\ proc'.age = proc.age
           \/ proc'.phase = "closing"
    <3>1. CASE Process!Clients = {}
      <4>1. Process!Close(q, told)
        BY <2>2, <3>1
      <4>2. proc' \in Processes /\ proc'.phase = "closing" /\ Same(proc', q) /\ Sound(conn')
        BY <2>1, <2>4, <4>1, ClosesSoundly
      <4>. QED
        BY <2>1, <4>2 DEF Same
    <3>2. CASE Process!Clients # {}
      BY <2>1, <2>2, <2>4, <3>2
    <3>. QED
      BY <3>1, <3>2
  <2>6. manager.causes = 0 /\ ~manager.asked /\ manager.age = 0 /\ proc.phase = "serving"
    BY <1>1, <1>2, <1>5 DEF Process!ProcessInv, Process!CauseInv, Managers
  <2>7. Process!ProcessShapes'
    BY <1>3, <2>5, ProcessShapesAre DEF Sound
  <2>8. Process!CauseInv'
    BY <1>3, <2>5, <2>6 DEF Process!CauseInv
  <2>9. Process!DrainInv'
    <3>1. proc.age = 0 /\ 0 <= DrainTimeout
      BY <1>5 DEF Process!ProcessInv, Process!CauseInv, Process!PatienceIsLonger
    <3>. QED
      BY <1>3, <2>5, <2>6, <3>1 DEF Process!DrainInv, Calm
  <2>. QED
    BY <2>5, <2>7, <2>8, <2>9 DEF Process!ProcessInv, Sound
<1>. QED
  BY <1>4, <1>5

LEMMA EndStep ==
  ASSUME Process!ProcessInv, Process!Start \/ Process!DrainDeadline \/ Process!Exit
  PROVE  Process!ProcessInv'
<1>1. /\ proc \in Processes /\ conn \in [Conn -> Process!ConnState] /\ manager \in Managers
      /\ \A d \in Conn : Process!ConnSound(conn[d])
  BY ProcessShapesAre DEF Process!ProcessInv
<1>2. CASE Process!DrainDeadline
  <2>1. proc.phase = "draining" /\ Process!Close(proc, conn) /\ manager' = manager
    BY <1>2 DEF Process!DrainDeadline, Process!DrainDue
  <2>2. Sound(conn) /\ Calm(conn)
    BY <1>1, <2>1 DEF Sound, Calm, Process!ProcessInv, Process!DrainInv
  <2>3. proc' \in Processes /\ proc'.phase = "closing" /\ Same(proc', proc) /\ Sound(conn')
    BY <1>1, <2>1, <2>2, ClosesSoundly
  <2>4. Onward
    BY <2>1, <2>3 DEF Onward
  <2>. QED
    BY <2>4, OnwardKeeps
<1>3. CASE Process!Start \/ Process!Exit
  <2>1. UNCHANGED <<conn, manager>>
    BY <1>3 DEF Process!Start, Process!Exit
  <2>2. PICK p \in Processes : p = proc'
    BY <1>1, <1>3 DEF Process!Start, Process!Exit, Processes, Phases
  <2>3. CASE Process!Start
    <3>1. /\ p.phase \in {"serving", "exited"} /\ p.shutting = proc.shutting /\ p.age = proc.age
          /\ p.watchdog => p.phase = "serving"
      BY <1>1, <2>2, <2>3 DEF Process!Start, Processes, Phases, Process!ProcessInv, Process!CauseInv
    <3>2. ~proc.shutting /\ proc.phase = "starting"
      BY <2>3 DEF Process!Start, Process!ProcessInv, Process!CauseInv
    <3>3. Process!CauseInv'
      BY <2>1, <2>2, <3>1, <3>2 DEF Process!ProcessInv, Process!CauseInv
    <3>4. Process!DrainInv'
      BY <2>2, <3>1 DEF Process!DrainInv
    <3>. QED
      BY <1>1, <2>1, <2>2, <3>3, <3>4, ProcessShapesAre DEF Process!ProcessInv
  <2>4. CASE Process!Exit
    <3>1. /\ p.phase = "exited" /\ p.shutting = proc.shutting /\ p.age = proc.age
          /\ p.watchdog = proc.watchdog /\ p.code = proc.code /\ proc.phase = "closing"
      BY <1>1, <2>2, <2>4 DEF Process!Exit, Processes, Phases
    <3>2. Process!CauseInv'
      BY <2>1, <2>2, <3>1 DEF Process!ProcessInv, Process!CauseInv
    <3>3. Process!DrainInv'
      BY <2>2, <3>1 DEF Process!DrainInv
    <3>. QED
      BY <1>1, <2>1, <2>2, <3>2, <3>3, ProcessShapesAre DEF Process!ProcessInv
  <2>. QED
    BY <1>3, <2>3, <2>4
<1>. QED
  BY <1>2, <1>3

(* A tick: the drain is older, and so is the manager's patience, by as      *)
(* much; the drain ends first.                                              *)
LEMMA TickStep ==
  ASSUME Process!PatienceIsLonger, Process!ProcessInv, Process!Tick
  PROVE  Process!ProcessInv'
<1>1. /\ proc \in Processes /\ conn \in [Conn -> Process!ConnState] /\ manager \in Managers
      /\ \A d \in Conn : Process!ConnSound(conn[d])
  BY ProcessShapesAre DEF Process!ProcessInv
<1>2. proc.age \in Nat /\ manager.age \in Nat
  BY <1>1 DEF Processes, Managers
<1>3. PICK a \in Nat : a = IF proc.phase = "draining" THEN proc.age + 1 ELSE proc.age
  BY <1>2
<1>4. PICK b \in Nat : b = IF manager.asked THEN manager.age + 1 ELSE manager.age
  BY <1>2
<1>5. Process!Up /\ ~Process!DrainDue
  BY DEF Process!Tick
<1>6. ~Process!PatienceEnds
  <2>1. SUFFICES ASSUME manager.asked, manager.age + 1 >= KillTimeout PROVE FALSE
    BY DEF Process!PatienceEnds
  <2>2. proc.phase = "draining"
    BY <1>5, <2>1 DEF Process!Up, Process!ProcessInv, Process!CauseInv
  <2>3. manager.age <= proc.age /\ ~(proc.age >= DrainTimeout)
    BY <1>5, <2>1, <2>2 DEF Process!ProcessInv, Process!DrainInv, Process!DrainDue
  <2>. QED
    BY <1>2, <2>1, <2>3 DEF Process!PatienceIsLonger
<1>7. proc' = [proc EXCEPT !.age = a, !.phase = proc.phase]
  <2>1. proc' = [proc EXCEPT !.age = IF proc.phase = "draining" THEN @ + 1 ELSE @,
                             !.phase = IF Process!PatienceEnds THEN "killed" ELSE @]
    BY DEF Process!Tick
  <2>. HIDE <1>1
  <2>2. proc' = [proc EXCEPT !.age = IF proc.phase = "draining" THEN @ + 1 ELSE @, !.phase = @]
    BY <1>1, <1>6, <2>1 DEF Processes
  <2>. QED
    BY <1>1, <1>3, <2>2 DEF Processes
<1>8. /\ proc' \in Processes /\ proc'.phase = proc.phase /\ proc'.age = a
      /\ proc'.shutting = proc.shutting /\ proc'.draining = proc.draining
      /\ proc'.watchdog = proc.watchdog /\ proc'.code = proc.code
  BY <1>1, <1>7 DEF Processes
<1>9. manager' = [manager EXCEPT !.age = b]
  BY <1>1, <1>4 DEF Process!Tick, Managers
<1>10. /\ manager' \in Managers /\ manager'.age = b /\ manager'.asked = manager.asked
       /\ manager'.causes = manager.causes /\ manager'.first = manager.first
  BY <1>1, <1>9 DEF Managers
<1>11. ASSUME NEW c \in Conn
       PROVE  /\ conn'[c] \in Process!ConnState /\ Process!ConnSound(conn'[c])
              /\ conn'[c].served = conn[c].served /\ conn'[c].sock = conn[c].sock
  <2>1. PICK n \in Process!ConnState : n = conn[c]
    BY <1>1
  <2>2. conn'[c] = n \/ conn'[c] = [n EXCEPT !.age = @ + 1]
    BY <2>1 DEF Process!Tick
  <2>3. Process!ConnSound(n)
    BY <1>1, <2>1
  <2>. QED
    BY <2>1, <2>2, <2>3 DEF Process!ConnState, Process!ConnSound
<1>12. conn' = [c \in Conn |-> IF c \in Process!Clients /\ ~conn[c].served
                              THEN [conn[c] EXCEPT !.age = @ + 1] ELSE conn[c]]
  BY DEF Process!Tick
<1>13. conn' \in [Conn -> Process!ConnState]
  BY <1>11, <1>12
<1>14. Process!CauseInv'
  BY <1>3, <1>4, <1>8, <1>10 DEF Process!ProcessInv, Process!CauseInv
<1>15. Process!DrainInv'
  <2>1. SUFFICES ASSUME proc.phase = "draining" PROVE Process!DrainInv'
    BY <1>8 DEF Process!DrainInv
  <2>2. proc.age + 1 <= DrainTimeout
    BY <1>2, <1>5, <2>1 DEF Process!DrainDue, Process!PatienceIsLonger
  <2>3. manager.asked => manager.age + 1 <= proc.age + 1
    BY <1>2, <2>1 DEF Process!ProcessInv, Process!DrainInv
  <2>. QED
    BY <1>3, <1>4, <1>8, <1>10, <1>11, <2>1, <2>2, <2>3 DEF Process!ProcessInv, Process!DrainInv
<1>. QED
  BY <1>8, <1>10, <1>11, <1>13, <1>14, <1>15, ProcessShapesAre DEF Process!ProcessInv

LEMMA ProcessStep == Process!PatienceIsLonger /\ Process!ProcessInv /\ Process!Next => Process!ProcessInv'
<1>. SUFFICES ASSUME Process!PatienceIsLonger, Process!ProcessInv,
                     Process!Next PROVE Process!ProcessInv'
  OBVIOUS
<1>1. CASE \E c \in Conn : Process!Connect(c) \/ Process!SocketCloses(c) \/ Process!MissesHeartbeat(c) \/ Process!FrameThrows(c) \/ Process!GraceEnds(c)
  BY <1>1, SocketStep
<1>2. CASE Process!Start \/ Process!DrainDeadline \/ Process!Exit
  BY <1>2, EndStep
<1>3. CASE Process!Asked
  BY <1>3, CauseKeeps DEF Process!Asked
<1>4. CASE Process!Breach
  BY <1>4, CauseKeeps DEF Process!Breach
<1>5. CASE Process!Uncaught
  BY <1>5, CauseKeeps DEF Process!Uncaught
<1>6. CASE Process!Tick
  BY <1>6, TickStep
<1>. QED
  BY <1>1, <1>2, <1>3, <1>4, <1>5, <1>6 DEF Process!Next

LEMMA ProcessStays == Process!ProcessInv /\ UNCHANGED Process!vars => Process!ProcessInv'
BY DEF Process!vars, Process!ProcessInv, Process!ProcessShapes, Process!ConnSound,
   Process!DrainInv, Process!CauseInv

LEMMA ProcessHolds == Process!ProcessInv => Process!ProcessEndsWell
<1>. SUFFICES ASSUME Process!ProcessInv PROVE Process!ProcessEndsWell
  OBVIOUS
<1>1. Process!NeverKilled
  BY DEF Process!ProcessInv, Process!CauseInv, Process!NeverKilled
<1>2. Process!EveryoneIsTold /\ Process!ReasonsMatch
  BY DEF Process!ProcessInv, Process!ConnSound, Process!EveryoneIsTold, Process!ReasonsMatch
<1>3. Process!FirstCauseCounts
  BY DEF Process!ProcessInv, Process!CauseInv, Process!FirstCauseCounts
<1>. QED
  BY <1>1, <1>2, <1>3 DEF Process!ProcessEndsWell

(* A process ends by one drain within its manager's patience, everyone who  *)
(* was served is told, and the first cause decides the code it exits with.  *)
THEOREM ProcessKept == Process!PatienceIsLonger /\ Process!Spec => []Process!ProcessEndsWell
<1>. SUFFICES ASSUME Process!PatienceIsLonger
              PROVE  Process!Spec => []Process!ProcessEndsWell
  OBVIOUS
<1>1. Process!Init => Process!ProcessInv
  BY ProcessStarts DEF Process!PatienceIsLonger
<1>2. Process!ProcessInv /\ [Process!Next]_Process!vars => Process!ProcessInv'
  BY ProcessStep, ProcessStays
<1>. QED
  BY <1>1, <1>2, ProcessHolds, PTL DEF Process!Spec

-----------------------------------------------------------------------------
(***************************************************************************)
(* BackendBudgets: the limits of what members of a room ask the backend.   *)
(***************************************************************************)
CONSTANTS Member, MemberTab, MemberOf, Allowance, LimitWindow, MaxTries, MaxBudgetTime, MaxCalls
VARIABLES limitClock, spent, limitRole, limitWrite, limitTab, limitCalls
Limits == INSTANCE BackendBudgets WITH
  User <- Member, Tab <- MemberTab, UserOf <- MemberOf, Tokens <- Allowance,
  Window <- LimitWindow, MaxAttempts <- MaxTries, MaxTime <- MaxBudgetTime,
  clock <- limitClock, role <- limitRole, write <- limitWrite, tab <- limitTab, calls <- limitCalls

LEMMA LimitsCount ==
  ASSUME NEW S
  PROVE  /\ Limits!Cardinality(S) = Cardinality(S)
         /\ Limits!IsFiniteSet(S) = IsFiniteSet(S)
BY DEF Limits!Cardinality, Cardinality, Limits!IsFiniteSet, IsFiniteSet

LEMMA WindowParts ==
  ASSUME NEW W \in Nat \ {0}, NEW t \in Nat
  PROVE  /\ t \div W \in Nat /\ t % W \in Nat /\ t % W < W
         /\ t = W * (t \div W) + (t % W)
OBVIOUS

LEMMA WindowFrom ==
  ASSUME NEW W \in Nat \ {0}, NEW q \in Nat, NEW r \in Nat, r < W
  PROVE  (W * q + r) \div W = q /\ (W * q + r) % W = r
OBVIOUS

LEMMA Doubles ==
  ASSUME NEW W \in Nat \ {0}, NEW a \in Nat, NEW b \in Nat, a > b
  PROVE  W * a >= W * b + W
<1>1. PICK k \in Nat : a = b + 1 + k
  OBVIOUS
<1>2. W * a = W * b + W + W * k
  BY <1>1
<1>3. W * k >= 0
  OBVIOUS
<1>. QED
  BY <1>2, <1>3

LEMMA Halves ==
  ASSUME NEW W \in Nat \ {0}, NEW x \in Nat, NEW r \in Nat, r < W \div 2
  PROVE  (x * (W - r)) \div W >= x \div 2
<1>1. PICK d \in Nat : d = W - r
  OBVIOUS
<1>2. 2 * d >= W
  BY <1>1
<1>3. PICK k \in Nat : 2 * d = W + k
  BY <1>2
<1>4. PICK y \in Nat : y = x * d
  OBVIOUS
<1>5. 2 * y = x * (W + k)
  BY <1>3, <1>4
<1>6. x * k >= 0 /\ x * (W + k) = x * W + x * k
  OBVIOUS
<1>7. 2 * y >= x * W
  BY <1>5, <1>6
<1>8. PICK q \in Nat, s \in Nat : q = y \div W /\ s < W /\ y = W * q + s
  BY WindowParts
<1>9. x * W < 2 * (W * q) + 2 * W
  BY <1>7, <1>8
<1>10. x < 2 * q + 2
  <2>1. SUFFICES ASSUME x >= 2 * q + 2 PROVE FALSE
    OBVIOUS
  <2>2. PICK j \in Nat : x = 2 * q + 2 + j
    BY <2>1
  <2>3. x * W = 2 * (W * q) + 2 * W + j * W
    BY <2>2
  <2>4. j * W >= 0
    OBVIOUS
  <2>. QED
    BY <1>9, <2>3, <2>4
<1>. QED
  BY <1>1, <1>4, <1>8, <1>10

LEMMA Wholes ==
  ASSUME NEW W \in Nat \ {0}, NEW x \in Nat
  PROVE  (x * (W - 0)) \div W = x
<1>1. x * (W - 0) = W * x + 0
  OBVIOUS
<1>. QED
  BY <1>1, WindowFrom

-----------------------------------------------------------------------------
(* What is counted of a bucket.                                            *)

LEMMA HitsCounted ==
  ASSUME NEW s \in Seq(Nat), NEW S
  PROVE  /\ Limits!IsFiniteSet(Limits!Hits(s, S)) /\ Limits!Cardinality(Limits!Hits(s, S)) \in Nat
         /\ Limits!Cardinality(Limits!Hits(s, S)) <= Len(s)
         /\ (Limits!Cardinality(Limits!Hits(s, S)) = 0 <=> Limits!Hits(s, S) = {})
<1>1. /\ Limits!IsFiniteSet(1..Len(s)) /\ Limits!Cardinality(1..Len(s)) = Len(s)
  <2>1. PICK n \in Nat : n = Len(s)
    OBVIOUS
  <2>2. Limits!IsFiniteSet(1..n) /\ Limits!Cardinality(1..n) = n
    BY FS_Interval, LimitsCount
  <2>. QED
    BY <2>1, <2>2
<1>2. Limits!Hits(s, S) \subseteq 1..Len(s)
  BY DEF Limits!Hits
<1>3. PICK h : h = Limits!Hits(s, S)
  OBVIOUS
<1>4. Limits!IsFiniteSet(h) /\ Limits!Cardinality(h) <= Limits!Cardinality(1..Len(s))
  BY <1>1, <1>2, <1>3, FS_Subset, LimitsCount
<1>5. Limits!Cardinality(h) \in Nat /\ (Limits!Cardinality(h) = 0 <=> h = {})
  BY <1>4, FS_CardinalityType, FS_EmptySet, LimitsCount
<1>. QED
  BY <1>1, <1>3, <1>4, <1>5

LEMMA HitsGrow ==
  ASSUME NEW s \in Seq(Nat), NEW S, NEW t \in Nat, NEW n, n = Limits!Cardinality(Limits!Hits(s, S))
  PROVE  /\ t \in S => Limits!Cardinality(Limits!Hits(Append(s, t), S)) = n + 1
         /\ t \notin S => Limits!Cardinality(Limits!Hits(Append(s, t), S)) = n
<1>1. /\ Len(Append(s, t)) = Len(s) + 1 /\ DOMAIN Append(s, t) = 1..(Len(s) + 1) /\ DOMAIN s = 1..Len(s)
      /\ Append(s, t)[Len(s) + 1] = t /\ Len(s) \in Nat
      /\ \A i \in 1..Len(s) : Append(s, t)[i] = s[i]
  OBVIOUS
<1>2. Limits!IsFiniteSet(Limits!Hits(s, S)) /\ Len(s) + 1 \notin Limits!Hits(s, S)
  <2>1. Limits!IsFiniteSet(Limits!Hits(s, S))
    BY HitsCounted
  <2>2. Len(s) + 1 \notin Limits!Hits(s, S)
    BY <1>1 DEF Limits!Hits
  <2>. QED
    BY <2>1, <2>2
<1>3. CASE t \in S
  <2>1. Limits!Hits(Append(s, t), S) = Limits!Hits(s, S) \cup {Len(s) + 1}
    <3>1. \A i : i \in Limits!Hits(Append(s, t), S) <=> i \in Limits!Hits(s, S) \cup {Len(s) + 1}
      BY <1>1, <1>3 DEF Limits!Hits
    <3>. QED
      BY <3>1
  <2>. QED
    BY <1>2, <1>3, <2>1, FS_AddElement, LimitsCount
<1>4. CASE t \notin S
  <2>1. Limits!Hits(Append(s, t), S) = Limits!Hits(s, S)
    BY <1>1, <1>4 DEF Limits!Hits
  <2>. QED
    BY <1>4, <2>1
<1>. QED
  BY <1>3, <1>4

(* Windows that are apart add up.                                          *)
LEMMA HitsApart ==
  ASSUME NEW s \in Seq(Nat), NEW S, NEW T, NEW J,
         J \subseteq Limits!Hits(s, S) \cup Limits!Hits(s, T)
  PROVE  /\ Limits!IsFiniteSet(J) /\ Limits!Cardinality(J) <= Limits!Cardinality(Limits!Hits(s, S)) + Limits!Cardinality(Limits!Hits(s, T))
<1>1. Limits!IsFiniteSet(Limits!Hits(s, S)) /\ Limits!IsFiniteSet(Limits!Hits(s, T))
  BY HitsCounted
<1>2. PICK U : U = Limits!Hits(s, S) \cup Limits!Hits(s, T)
  OBVIOUS
<1>3. PICK I : I = Limits!Hits(s, S) \cap Limits!Hits(s, T)
  OBVIOUS
<1>4. /\ Limits!IsFiniteSet(U) /\ Limits!Cardinality(U) = Limits!Cardinality(Limits!Hits(s, S)) + Limits!Cardinality(Limits!Hits(s, T)) - Limits!Cardinality(I)
  BY <1>1, <1>2, <1>3, FS_Union, LimitsCount
<1>5. Limits!IsFiniteSet(I)
  BY <1>1, <1>3, FS_Subset, LimitsCount
<1>6. Limits!Cardinality(I) \in Nat /\ Limits!Cardinality(U) \in Nat
  BY <1>4, <1>5, FS_CardinalityType, LimitsCount
<1>7. /\ Limits!IsFiniteSet(J) /\ Limits!Cardinality(J) <= Limits!Cardinality(U)
  BY <1>2, <1>4, FS_Subset, LimitsCount
<1>8. /\ Limits!Cardinality(J) \in Nat /\ Limits!Cardinality(Limits!Hits(s, S)) \in Nat /\ Limits!Cardinality(Limits!Hits(s, T)) \in Nat
  BY <1>7, FS_CardinalityType, LimitsCount, HitsCounted
<1>. QED
  BY <1>4, <1>6, <1>7, <1>8

LEMMA HitsDisjoint ==
  ASSUME NEW s \in Seq(Nat), NEW S, NEW T, S \cap T = {}
  PROVE  Limits!Cardinality(Limits!Hits(s, S)) + Limits!Cardinality(Limits!Hits(s, T)) <= Len(s)
<1>1. Limits!IsFiniteSet(Limits!Hits(s, S)) /\ Limits!IsFiniteSet(Limits!Hits(s, T))
  BY HitsCounted
<1>2. PICK U : U = Limits!Hits(s, S) \cup Limits!Hits(s, T)
  OBVIOUS
<1>3. Limits!Hits(s, S) \cap Limits!Hits(s, T) = {}
  BY DEF Limits!Hits
<1>4. /\ Limits!Cardinality(U) = Limits!Cardinality(Limits!Hits(s, S)) + Limits!Cardinality(Limits!Hits(s, T)) - Limits!Cardinality({})
  BY <1>1, <1>2, <1>3, FS_Union, LimitsCount
<1>5. Limits!Cardinality({}) = 0
  BY FS_EmptySet, LimitsCount
<1>6. U \subseteq 1..Len(s)
  BY <1>2 DEF Limits!Hits
<1>7. Limits!Cardinality(U) <= Len(s)
  <2>1. PICK n \in Nat : n = Len(s)
    OBVIOUS
  <2>2. Limits!IsFiniteSet(1..n) /\ Limits!Cardinality(1..n) = n
    BY FS_Interval, LimitsCount
  <2>. QED
    <3>1. PICK V : V = 1..n
      OBVIOUS
    <3>2. U \subseteq V
      BY <1>6, <2>1, <3>1
    <3>3. Limits!IsFiniteSet(V) /\ Limits!Cardinality(V) = n
      BY <2>2, <3>1
    <3>4. Limits!Cardinality(U) <= Limits!Cardinality(V)
      BY <3>2, <3>3, FS_Subset, LimitsCount
    <3>. QED
      BY <2>1, <3>3, <3>4
<1>8. Limits!Cardinality(Limits!Hits(s, S)) \in Nat /\ Limits!Cardinality(Limits!Hits(s, T)) \in Nat
  BY HitsCounted
<1>. QED
  BY <1>4, <1>5, <1>7, <1>8

-----------------------------------------------------------------------------
(* Windows.                                                                *)

LEMMA WindowsRise ==
  ASSUME NEW W \in Nat \ {0}, NEW a \in Nat, NEW b \in Nat, a <= b
  PROVE  a \div W <= b \div W
<1>1. SUFFICES ASSUME a \div W > b \div W PROVE FALSE
  BY WindowParts
<1>2. PICK p \in Nat, q \in Nat : p = a \div W /\ q = b \div W
  BY WindowParts
<1>3. W * p >= W * q + W
  BY <1>1, <1>2, Doubles
<1>4. a >= W * p
  BY <1>2, WindowParts
<1>5. b < W * q + W
  BY <1>2, WindowParts
<1>. QED
  BY <1>3, <1>4, <1>5

(* What is half a window or less apart is in one window, or in two that     *)
(* follow one another, then early in the second.                            *)
LEMMA WindowsMeet ==
  ASSUME NEW W \in Nat \ {0}, NEW a \in Nat, NEW b \in Nat, a <= b, b <= a + W \div 2
  PROVE  \/ b \div W = a \div W
         \/ b \div W = a \div W + 1 /\ b % W < W \div 2
<1>1. PICK p \in Nat : p = a \div W
  BY WindowParts
<1>2. PICK q \in Nat : q = b \div W
  BY WindowParts
<1>3. PICK x \in Nat : x = a % W
  BY WindowParts
<1>4. PICK y \in Nat : y = b % W
  BY WindowParts
<1>5. a = W * p + x /\ b = W * q + y /\ x < W /\ y < W
  BY <1>1, <1>2, <1>3, <1>4, WindowParts
<1>6. PICK h \in Nat : h = W \div 2 /\ 2 * h <= W
  OBVIOUS
<1>7. p <= q
  BY <1>1, <1>2, WindowsRise
<1>8. q <= p + 1
  <2>1. SUFFICES ASSUME q > p + 1 PROVE FALSE
    BY <1>7
  <2>2. W * q >= W * (p + 1) + W
    BY <2>1, Doubles
  <2>3. W * (p + 1) = W * p + W
    OBVIOUS
  <2>. QED
    BY <1>5, <1>6, <2>2, <2>3
<1>9. CASE q = p + 1
  <2>1. W * q = W * p + W
    BY <1>9
  <2>2. y < h
    BY <1>5, <1>6, <2>1
  <2>. QED
    BY <1>1, <1>2, <1>4, <1>6, <1>9, <2>2
<1>. QED
  BY <1>1, <1>2, <1>7, <1>8, <1>9

(* A part of something is no more than all of it.                           *)
LEMMA NoMore ==
  ASSUME NEW W \in Nat \ {0}, NEW x \in Nat, NEW r \in Nat, r < W
  PROVE  (x * (W - r)) \div W \in Nat /\ (x * (W - r)) \div W <= x
<1>1. PICK d \in Nat : d = W - r /\ d <= W
  OBVIOUS
<1>2. PICK y \in Nat : y = x * d
  OBVIOUS
<1>3. PICK k \in Nat : W = d + k
  BY <1>1
<1>4. x * W = y + x * k /\ x * k >= 0
  BY <1>2, <1>3
<1>5. PICK q \in Nat, s \in Nat : q = y \div W /\ y = W * q + s
  BY WindowParts
<1>6. q <= x
  <2>1. SUFFICES ASSUME q > x PROVE FALSE
    BY <1>5
  <2>2. W * q >= W * x + W
    BY <2>1, Doubles
  <2>3. W * x = x * W
    OBVIOUS
  <2>. QED
    BY <1>4, <1>5, <2>2, <2>3
<1>. QED
  BY <1>1, <1>2, <1>5, <1>6

-----------------------------------------------------------------------------
(* The limiter.                                                            *)

LEMMA TokensAre ==
  ASSUME Limits!LimitBounds, NEW b \in Limits!Bucket
  PROVE  Limits!TokensOf(b) \in Nat \ {0} /\ (Limits!TokensOf(b) = 1 => LimitWindow < 4)
BY DEF Limits!LimitBounds, Limits!Bucket, Limits!TokensOf

LEMMA TakenIs ==
  ASSUME Limits!LimitShapes, NEW b \in Limits!Bucket, NEW w
  PROVE  Limits!Taken(b, w) = Limits!Count(b, Limits!InWindow(w)) /\ Limits!Taken(b, w) \in Nat
<1>1. spent[b] \in Seq(Nat)
  BY DEF Limits!LimitShapes
<1>2. {i \in DOMAIN spent[b] : Limits!WindowAt(spent[b][i]) = w}
        = Limits!Hits(spent[b], Limits!InWindow(w))
  BY <1>1 DEF Limits!Hits, Limits!InWindow
<1>. QED
  BY <1>1, <1>2, HitsCounted DEF Limits!Taken, Limits!Count

(* Where a token is taken there is room, for half of the window before too. *)
LEMMA NotFull ==
  ASSUME Limits!LimitBounds, Limits!LimitShapes, NEW b \in Limits!Bucket, ~Limits!Full(b)
  PROVE  /\ Limits!Count(b, Limits!InWindow(Limits!WindowAt(limitClock))) + 1 <= Limits!TokensOf(b)
         /\ (limitClock \in Limits!EarlyIn(Limits!WindowAt(limitClock)) /\ Limits!WindowAt(limitClock) # 0) =>
             Limits!Count(b, Limits!InWindow(Limits!WindowAt(limitClock)))
             + Limits!Share(Limits!Count(b, Limits!InWindow(Limits!WindowAt(limitClock) - 1)), Limits!TokensOf(b)) + 1 <= Limits!TokensOf(b)
<1>1. PICK W \in Nat \ {0} : W = LimitWindow
  BY DEF Limits!LimitBounds
<1>2. PICK T \in Nat \ {0} : T = Limits!TokensOf(b) /\ (T = 1 => W < 4)
  BY <1>1, TokensAre
<1>3. limitClock \in Nat
  BY DEF Limits!LimitShapes
<1>4. PICK w \in Nat : w = Limits!WindowAt(limitClock)
  BY <1>1, <1>3, WindowParts DEF Limits!WindowAt
<1>5. PICK r \in Nat : r = limitClock % LimitWindow /\ r < W
  BY <1>1, <1>3, WindowParts
<1>6. PICK n \in Nat : n = Limits!Count(b, Limits!InWindow(w)) /\ n = Limits!Taken(b, w)
  BY TakenIs
<1>7. PICK x \in Nat : x = Limits!Count(b, Limits!InWindow(w - 1)) /\ x = Limits!Taken(b, w - 1)
  BY TakenIs
<1>8. PICK v \in Nat : v = (x * (W - r)) \div W
  BY <1>5, NoMore
<1>9. Limits!Weighted(b) = IF w = 0 THEN 0 ELSE v
  BY <1>1, <1>4, <1>5, <1>7, <1>8 DEF Limits!Weighted
<1>10. n + (IF w = 0 THEN 0 ELSE v) + 1 <= T
  BY <1>2, <1>4, <1>6, <1>9 DEF Limits!Full
<1>11. ASSUME r < W \div 2
       PROVE  Limits!Share(x, T) \in Nat /\ Limits!Share(x, T) <= v
  <2>1. CASE T = 1
    <3>1. r = 0
      BY <1>2, <1>11, <2>1
    <3>2. v = x
      BY <1>8, <3>1, Wholes
    <3>. QED
      BY <2>1, <3>2 DEF Limits!Share
  <2>2. CASE T # 1
    <3>1. x \div 2 <= v
      BY <1>8, <1>11, Halves
    <3>. QED
      BY <2>2, <3>1 DEF Limits!Share
  <2>. QED
    BY <2>1, <2>2
<1>12. limitClock \in Limits!EarlyIn(w) => r < W \div 2
  BY <1>1, <1>5 DEF Limits!EarlyIn
<1>13. ASSUME limitClock \in Limits!EarlyIn(w), w # 0
       PROVE  n + Limits!Share(x, T) + 1 <= T
  BY <1>10, <1>11, <1>12, <1>13
<1>. QED
  BY <1>2, <1>4, <1>6, <1>7, <1>10, <1>13

(* A budget that is full has had its tokens taken, in two windows.          *)
LEMMA FullIs ==
  ASSUME Limits!LimitBounds, Limits!LimitShapes, NEW b \in Limits!Bucket, Limits!Full(b)
  PROVE  /\ Limits!TokensOf(b) <= Len(spent[b])
         /\ \E i \in DOMAIN spent[b] : Limits!WindowAt(spent[b][i]) + 1 >= Limits!WindowAt(limitClock)
<1>1. PICK W \in Nat \ {0} : W = LimitWindow
  BY DEF Limits!LimitBounds
<1>2. PICK T \in Nat \ {0} : T = Limits!TokensOf(b)
  BY TokensAre
<1>3. limitClock \in Nat /\ spent[b] \in Seq(Nat)
  BY DEF Limits!LimitShapes
<1>4. PICK w \in Nat : w = Limits!WindowAt(limitClock)
  BY <1>1, <1>3, WindowParts DEF Limits!WindowAt
<1>5. PICK r \in Nat : r = limitClock % LimitWindow /\ r < W
  BY <1>1, <1>3, WindowParts
<1>6. PICK n \in Nat : n = Limits!Count(b, Limits!InWindow(w)) /\ n = Limits!Taken(b, w)
  BY TakenIs
<1>7. PICK x \in Nat : x = Limits!Count(b, Limits!InWindow(w - 1)) /\ x = Limits!Taken(b, w - 1)
  BY TakenIs
<1>8. PICK v \in Nat : v = (x * (W - r)) \div W /\ v <= x
  BY <1>5, NoMore
<1>9. Limits!Weighted(b) = IF w = 0 THEN 0 ELSE v
  BY <1>1, <1>4, <1>5, <1>7, <1>8 DEF Limits!Weighted
<1>10. n + x >= T
  BY <1>2, <1>4, <1>6, <1>8, <1>9 DEF Limits!Full
<1>11. Limits!InWindow(w) \cap Limits!InWindow(w - 1) = {}
  BY DEF Limits!InWindow
<1>12. n + x <= Len(spent[b])
  BY <1>3, <1>6, <1>7, <1>11, HitsDisjoint DEF Limits!Count
<1>13. T <= Len(spent[b])
  BY <1>3, <1>10, <1>12
<1>14. Limits!Hits(spent[b], Limits!InWindow(w)) # {} \/ Limits!Hits(spent[b], Limits!InWindow(w - 1)) # {}
  <2>1. Limits!Hits(spent[b], Limits!InWindow(w)) = {} => n = 0
    BY <1>3, <1>6, HitsCounted DEF Limits!Count
  <2>2. Limits!Hits(spent[b], Limits!InWindow(w - 1)) = {} => x = 0
    BY <1>3, <1>7, HitsCounted DEF Limits!Count
  <2>. QED
    BY <1>10, <2>1, <2>2
<1>15. PICK i \in DOMAIN spent[b] : Limits!WindowAt(spent[b][i]) = w \/ Limits!WindowAt(spent[b][i]) = w - 1
  BY <1>14 DEF Limits!Hits, Limits!InWindow
<1>. QED
  BY <1>2, <1>4, <1>13, <1>15

LEMMA Decides ==
  ASSUME NEW b, NEW d \in Limits!Evaluate(b)
  PROVE  /\ d.taken \in BOOLEAN /\ (d.taken => ~Limits!Full(b))
         /\ d.status \in {"degraded", "limited", "allowed"}
         /\ d.status = "limited" => /\ Limits!Full(b) /\ d.taken = FALSE
                                    /\ d.reset = Limits!Reset
                                    /\ d.retryAfter = Limits!Reset - limitClock
<1>1. \/ d = [status |-> "degraded", taken |-> FALSE]
      \/ ~Limits!Full(b) /\ d = [status |-> "degraded", taken |-> TRUE]
      \/ Limits!Full(b) /\ d = [status |-> "limited", reset |-> Limits!Reset, retryAfter |-> Limits!Reset - limitClock, taken |-> FALSE]
      \/ ~Limits!Full(b) /\ d = [status |-> "allowed", taken |-> TRUE]
  <2>1. CASE Limits!Full(b)
    <3>1. (~Limits!Full(b)) = FALSE
      BY <2>1
    <3>. QED
      BY Zenon, <2>1, <3>1 DEF Limits!Evaluate
  <2>2. CASE ~Limits!Full(b)
    <3>1. (~Limits!Full(b)) = TRUE
      BY <2>2
    <3>. QED
      BY Zenon, <2>2, <3>1 DEF Limits!Evaluate
  <2>. QED
    BY <2>1, <2>2
<1>2. CASE d = [status |-> "degraded", taken |-> FALSE]
  BY <1>2
<1>3. CASE ~Limits!Full(b) /\ d = [status |-> "degraded", taken |-> TRUE]
  BY <1>3
<1>4. CASE Limits!Full(b) /\ d = [status |-> "limited", reset |-> Limits!Reset, retryAfter |-> Limits!Reset - limitClock, taken |-> FALSE]
  BY <1>4
<1>5. CASE ~Limits!Full(b) /\ d = [status |-> "allowed", taken |-> TRUE]
  BY <1>5
<1>. QED
  BY <1>1, <1>2, <1>3, <1>4, <1>5

-----------------------------------------------------------------------------
(* A token is taken, or none, of one bucket.                               *)

LEMMA SpentGrows ==
  ASSUME Limits!LimitShapes, NEW b \in Limits!Bucket, NEW d \in Limits!Evaluate(b),
         Limits!Charge(b, d)
  PROVE  /\ spent' \in [Limits!Bucket -> Seq(Nat)]
         /\ \A c \in Limits!Bucket : c # b => spent'[c] = spent[c]
         /\ d.taken => spent'[b] = Append(spent[b], limitClock) /\ ~Limits!Full(b)
         /\ ~d.taken => spent' = spent
<1>1. d.taken \in BOOLEAN /\ (d.taken => ~Limits!Full(b))
  BY Decides
<1>2. /\ spent \in [Limits!Bucket -> Seq(Nat)] /\ limitClock \in Nat /\ Append(spent[b], limitClock) \in Seq(Nat)
  <2>1. spent \in [Limits!Bucket -> Seq(Nat)] /\ limitClock \in Nat
    BY DEF Limits!LimitShapes
  <2>2. spent[b] \in Seq(Nat)
    BY <2>1
  <2>. QED
    BY <2>1, <2>2
<1>3. CASE d.taken
  BY <1>1, <1>2, <1>3 DEF Limits!Charge
<1>4. CASE ~d.taken
  BY <1>1, <1>2, <1>4 DEF Limits!Charge
<1>. QED
  BY <1>3, <1>4

LEMMA CountsStay ==
  ASSUME Limits!LimitShapes, Limits!CountsInv, spent' = spent, limitClock' \in Nat,
         limitClock <= limitClock'
  PROVE  Limits!CountsInv'
<1>1. ASSUME NEW b \in Limits!Bucket, NEW i \in DOMAIN spent[b]
      PROVE  spent[b][i] <= limitClock'
  <2>1. spent[b] \in Seq(Nat) /\ limitClock \in Nat
    BY <1>1 DEF Limits!LimitShapes
  <2>2. PICK t \in Nat : t = spent[b][i]
    BY <1>1, <2>1
  <2>3. t <= limitClock
    BY <1>1, <2>2 DEF Limits!CountsInv
  <2>. QED
    BY <2>1, <2>2, <2>3
<1>. QED
  BY <1>1 DEF Limits!CountsInv, Limits!Count

LEMMA CountsTaken ==
  ASSUME Limits!LimitBounds, Limits!LimitShapes, Limits!CountsInv, NEW b \in Limits!Bucket,
         NEW d \in Limits!Evaluate(b), Limits!Charge(b, d),
         limitClock' = limitClock
  PROVE  Limits!CountsInv'
<1>1. CASE ~d.taken
  <2>1. spent' = spent
    BY <1>1, SpentGrows
  <2>2. limitClock \in Nat
    BY DEF Limits!LimitShapes
  <2>3. limitClock' \in Nat /\ limitClock <= limitClock'
    BY <2>2
  <2>. QED
    BY <2>1, <2>3, CountsStay
<1>2. CASE d.taken
  <2>1. /\ spent'[b] = Append(spent[b], limitClock) /\ ~Limits!Full(b) /\ limitClock \in Nat /\ spent[b] \in Seq(Nat)
        /\ \A c \in Limits!Bucket : c # b => spent'[c] = spent[c]
    <3>1. spent \in [Limits!Bucket -> Seq(Nat)] /\ limitClock \in Nat
      BY DEF Limits!LimitShapes
    <3>2. spent[b] \in Seq(Nat)
      BY <3>1
    <3>. QED
      BY <1>2, <3>1, <3>2, SpentGrows
  <2>2. PICK W \in Nat \ {0} : W = LimitWindow
    BY DEF Limits!LimitBounds
  <2>3. PICK now \in Nat : now = Limits!WindowAt(limitClock)
    BY <2>1, <2>2, WindowParts DEF Limits!WindowAt
  <2>4. PICK T \in Nat \ {0} : T = Limits!TokensOf(b)
    BY TokensAre
  <2>5. ASSUME NEW i \in DOMAIN spent'[b]
        PROVE  /\ spent'[b][i] <= limitClock
               /\ Limits!Cardinality(Limits!Hits(spent'[b], Limits!InWindow(Limits!WindowAt(spent'[b][i])))) <= T
               /\ (spent'[b][i] \in Limits!EarlyIn(Limits!WindowAt(spent'[b][i])) /\ Limits!WindowAt(spent'[b][i]) # 0) =>
                    Limits!Cardinality(Limits!Hits(spent'[b], Limits!EarlyIn(Limits!WindowAt(spent'[b][i]))))
                    + Limits!Share(Limits!Cardinality(Limits!Hits(spent'[b], Limits!InWindow(Limits!WindowAt(spent'[b][i]) - 1))), T) <= T
    <3>1. PICK t \in Nat : t = spent'[b][i]
      BY <2>1, <2>5
    <3>2. (i \in DOMAIN spent[b] /\ t = spent[b][i] /\ t <= limitClock) \/ t = limitClock
      BY <2>1, <2>5, <3>1 DEF Limits!CountsInv
    <3>3. t <= limitClock
      BY <2>1, <3>2
    <3>4. PICK w \in Nat : w = Limits!WindowAt(t) /\ w <= now
      BY <2>1, <2>2, <2>3, <3>3, WindowParts, WindowsRise DEF Limits!WindowAt
    <3>5. PICK n \in Nat : n = Limits!Cardinality(Limits!Hits(spent[b], Limits!InWindow(w)))
      BY <2>1, HitsCounted
    <3>6. PICK e \in Nat : e = Limits!Cardinality(Limits!Hits(spent[b], Limits!EarlyIn(w))) /\ e <= n
      <4>1. Limits!Hits(spent[b], Limits!EarlyIn(w)) \subseteq Limits!Hits(spent[b], Limits!InWindow(w))
        BY DEF Limits!Hits, Limits!EarlyIn, Limits!InWindow
      <4>2. /\ Limits!IsFiniteSet(Limits!Hits(spent[b], Limits!InWindow(w)))
            /\ Limits!Cardinality(Limits!Hits(spent[b], Limits!EarlyIn(w))) \in Nat
        BY <2>1, HitsCounted
      <4>. QED
        BY <3>5, <4>1, <4>2, FS_Subset, LimitsCount
    <3>7. PICK x \in Nat : x = Limits!Cardinality(Limits!Hits(spent[b], Limits!InWindow(w - 1)))
      BY <2>1, HitsCounted
    <3>8. limitClock \in Limits!InWindow(w) <=> w = now
      BY <2>1, <2>3 DEF Limits!InWindow
    <3>9. limitClock \notin Limits!InWindow(w - 1)
      BY <2>1, <2>3, <3>4 DEF Limits!InWindow
    <3>10. limitClock \in Limits!EarlyIn(w) => w = now
      BY <2>1, <2>3 DEF Limits!EarlyIn
    <3>11. Limits!Cardinality(Limits!Hits(spent'[b], Limits!InWindow(w))) = IF w
             = now THEN n + 1 ELSE n
      BY <2>1, <3>5, <3>8, HitsGrow
    <3>12. Limits!Cardinality(Limits!Hits(spent'[b], Limits!InWindow(w - 1))) = x
      BY <2>1, <3>7, <3>9, HitsGrow
    <3>13. /\ limitClock \in Limits!EarlyIn(w) => Limits!Cardinality(Limits!Hits(spent'[b], Limits!EarlyIn(w))) = e + 1
           /\ limitClock \notin Limits!EarlyIn(w) => Limits!Cardinality(Limits!Hits(spent'[b], Limits!EarlyIn(w))) = e
      BY <2>1, <3>6, HitsGrow
    <3>14. PICK share \in Nat : share = Limits!Share(x, T)
      BY DEF Limits!Share
    <3>15. /\ w = now => n + 1 <= T
           /\ limitClock \in Limits!EarlyIn(w) /\ w # 0 => n + share + 1 <= T
      BY <2>1, <2>3, <2>4, <3>5, <3>7, <3>10, <3>14, NotFull DEF Limits!Count
    <3>16. w # now => n <= T
      <4>1. SUFFICES ASSUME w # now PROVE n <= T
        OBVIOUS
      <4>2. i \in DOMAIN spent[b] /\ t = spent[b][i]
        BY <2>3, <3>2, <3>4, <4>1
      <4>. QED
        BY <2>4, <3>4, <3>5, <4>2 DEF Limits!CountsInv, Limits!Count
    <3>17. t \in Limits!EarlyIn(w) /\ limitClock \notin Limits!EarlyIn(w) /\ w # 0 => e + share <= T
      <4>1. SUFFICES ASSUME t \in Limits!EarlyIn(w), limitClock \notin Limits!EarlyIn(w),
                            w # 0 PROVE e + share <= T
        OBVIOUS
      <4>2. i \in DOMAIN spent[b] /\ t = spent[b][i]
        BY <3>2, <4>1
      <4>. QED
        BY <2>4, <3>4, <3>6, <3>7, <3>14, <4>1, <4>2 DEF Limits!CountsInv, Limits!Count
    <3>18. Limits!Cardinality(Limits!Hits(spent'[b], Limits!InWindow(w))) <= T
      BY <3>11, <3>15, <3>16
    <3>19. (t \in Limits!EarlyIn(w) /\ w # 0)
             => Limits!Cardinality(Limits!Hits(spent'[b], Limits!EarlyIn(w))) + share <= T
      BY <3>6, <3>13, <3>15, <3>17
    <3>. QED
      BY <3>1, <3>3, <3>4, <3>12, <3>14, <3>18, <3>19
  <2>6. ASSUME NEW c \in Limits!Bucket, NEW i \in DOMAIN spent'[c]
        PROVE  /\ spent'[c][i] <= limitClock
               /\ Limits!Cardinality(Limits!Hits(spent'[c], Limits!InWindow(Limits!WindowAt(spent'[c][i])))) <= Limits!TokensOf(c)
               /\ (spent'[c][i] \in Limits!EarlyIn(Limits!WindowAt(spent'[c][i])) /\ Limits!WindowAt(spent'[c][i]) # 0) =>
                    Limits!Cardinality(Limits!Hits(spent'[c], Limits!EarlyIn(Limits!WindowAt(spent'[c][i]))))
                    + Limits!Share(Limits!Cardinality(Limits!Hits(spent'[c], Limits!InWindow(Limits!WindowAt(spent'[c][i]) - 1))), Limits!TokensOf(c)) <= Limits!TokensOf(c)
    <3>1. CASE c = b
      BY <2>4, <2>5, <2>6, <3>1
    <3>2. CASE c # b
      BY <2>1, <2>6, <3>2 DEF Limits!CountsInv, Limits!Count
    <3>. QED
      BY <3>1, <3>2
  <2>. QED
    BY <2>6 DEF Limits!CountsInv, Limits!Count
<1>3. d.taken \in BOOLEAN
  BY Decides
<1>. QED
  BY <1>1, <1>2, <1>3

LEMMA ReserveTaken ==
  ASSUME Limits!LimitBounds, Limits!LimitShapes, Limits!ReserveIsOnesOwn, NEW b \in Limits!Bucket,
         NEW d \in Limits!Evaluate(b), Limits!Charge(b, d),
         NEW u \in Member, limitWrite[u].pc = "limited", limitWrite[u].intent = "leave"
  PROVE  Len(spent'[<<"snapshot-finalize", u>>]) >= Allowance["snapshot-finalize"]
<1>1. PICK c \in Limits!Bucket : c = <<"snapshot-finalize", u>>
  BY DEF Limits!Bucket
<1>2. Len(spent[c]) >= Allowance["snapshot-finalize"] /\ spent[c] \in Seq(Nat) /\ limitClock \in Nat
  <2>1. spent \in [Limits!Bucket -> Seq(Nat)] /\ limitClock \in Nat
    BY DEF Limits!LimitShapes
  <2>2. Len(spent[c]) >= Allowance["snapshot-finalize"]
    BY <1>1 DEF Limits!ReserveIsOnesOwn
  <2>. QED
    BY <2>1, <2>2
<1>3. spent'[c] = spent[c] \/ spent'[c] = Append(spent[c], limitClock)
  BY SpentGrows, Decides
<1>4. Allowance["snapshot-finalize"] \in Nat
  BY DEF Limits!LimitBounds
<1>. QED
  BY <1>1, <1>2, <1>3, <1>4

-----------------------------------------------------------------------------
(* Who waits.                                                              *)

(* Waiting as told ends at the start of a window.                          *)
LEMMA ResetIs ==
  ASSUME Limits!LimitBounds, Limits!LimitShapes
  PROVE  /\ Limits!Reset \in Nat /\ Limits!Reset % LimitWindow = 0 /\ limitClock < Limits!Reset
         /\ \A m \in Nat : m % LimitWindow = 0 /\ m <= limitClock => m + LimitWindow <= Limits!Reset
<1>1. PICK W \in Nat \ {0} : W = LimitWindow
  BY DEF Limits!LimitBounds
<1>2. PICK t \in Nat : t = limitClock
  BY DEF Limits!LimitShapes
<1>3. PICK q \in Nat, x \in Nat : q = t \div W /\ x < W /\ t = W * q + x
  BY WindowParts
<1>4. PICK k \in Nat : k = q + 1
  OBVIOUS
<1>5. Limits!Reset = W * k + 0 /\ W * k = W * q + W
  <2>1. k * W = W * k + 0 /\ W * k = W * q + W
    BY <1>4
  <2>2. Limits!Reset = k * W
    BY <1>1, <1>2, <1>3, <1>4 DEF Limits!Reset, Limits!WindowAt
  <2>. QED
    BY <2>1, <2>2
<1>6. (W * k + 0) % W = 0 /\ W * k + 0 \in Nat
  BY WindowFrom
<1>7. ASSUME NEW m \in Nat, m % W = 0, m <= t
      PROVE  m + W <= Limits!Reset
  <2>1. PICK p \in Nat : p = m \div W /\ m = W * p
    BY <1>7, WindowParts
  <2>2. p <= q
    BY <1>3, <1>7, <2>1, WindowsRise
  <2>3. k > p
    BY <1>4, <2>2
  <2>4. W * k >= W * p + W
    BY <2>3, Doubles
  <2>. QED
    BY <1>5, <2>1, <2>4
<1>8. t < Limits!Reset
  BY <1>3, <1>5
<1>. QED
  BY <1>1, <1>2, <1>5, <1>6, <1>7, <1>8

(* Nothing is full whose tokens are from before the window before.         *)
LEMMA Passed ==
  ASSUME Limits!LimitBounds, Limits!LimitShapes, NEW b \in Limits!Bucket, NEW m \in Nat,
         m % LimitWindow = 0, m <= limitClock,
         \A i \in DOMAIN spent[b] : spent[b][i] + LimitWindow < m
  PROVE  ~Limits!Full(b)
<1>1. SUFFICES ASSUME Limits!Full(b) PROVE FALSE
  OBVIOUS
<1>2. PICK W \in Nat \ {0} : W = LimitWindow
  BY DEF Limits!LimitBounds
<1>3. PICK t \in Nat : t = limitClock
  BY DEF Limits!LimitShapes
<1>4. PICK i \in DOMAIN spent[b] : Limits!WindowAt(spent[b][i]) + 1 >= Limits!WindowAt(limitClock)
  BY <1>1, FullIs
<1>5. PICK a \in Nat : a = spent[b][i]
  <2>1. spent \in [Limits!Bucket -> Seq(Nat)]
    BY DEF Limits!LimitShapes
  <2>2. spent[b] \in Seq(Nat)
    BY <2>1
  <2>. QED
    BY <2>2
<1>6. PICK p \in Nat : p = m \div W /\ m = W * p
  BY <1>2, WindowParts
<1>7. PICK q \in Nat : q = t \div W /\ p <= q
  BY <1>2, <1>3, <1>6, WindowParts, WindowsRise
<1>8. PICK r \in Nat : r = a \div W /\ W * r <= a
  <2>1. PICK r \in Nat, y \in Nat : r = a \div W /\ a = W * r + y
    BY WindowParts
  <2>2. W * r \in Nat
    OBVIOUS
  <2>. QED
    BY <2>1, <2>2
<1>9. r + 1 >= p
  BY <1>2, <1>3, <1>4, <1>5, <1>7, <1>8 DEF Limits!WindowAt
<1>10. W * (r + 1) >= W * p
  <2>1. CASE r + 1 = p
    BY <2>1
  <2>2. CASE r + 1 > p
    <3>1. W * (r + 1) >= W * p + W
      BY <2>2, Doubles
    <3>2. W * (r + 1) \in Nat /\ W * p \in Nat
      OBVIOUS
    <3>. QED
      BY <3>1, <3>2
  <2>. QED
    BY <1>9, <2>1, <2>2
<1>11. W * (r + 1) = W * r + W
  OBVIOUS
<1>12. a + W < m
  BY <1>2, <1>4, <1>5
<1>. QED
  BY <1>6, <1>8, <1>10, <1>11, <1>12

(* A tab that waits goes on waiting as well as before, while others come.   *)
LEMMA WaitStays ==
  ASSUME NEW t \in MemberTab, Limits!WaitsWell(t), limitTab'[t] = limitTab[t],
         limitTab[t].others \/ spent'[Limits!BudgetOf(t, limitTab[t].kind)] = spent[Limits!BudgetOf(t, limitTab[t].kind)]
  PROVE  Limits!WaitsWell(t)'
BY DEF Limits!WaitsWell, Limits!BudgetOf

LEMMA WaitAlone ==
  ASSUME NEW t \in MemberTab, limitTab'[t].kind # "none", limitTab'[t].attempt # 0,
         limitTab'[t].others
  PROVE  Limits!WaitsWell(t)'
BY DEF Limits!WaitsWell

(* What a refusal tells is the wait until the window is over, whichever way *)
(* it reaches the caller.                                                   *)
LEMMA WaitIsTold ==
  ASSUME Limits!LimitBounds, Limits!LimitShapes, NEW b, NEW d \in Limits!Evaluate(b),
         d.status = "limited", NEW kind
  PROVE  limitClock + Limits!RetryAfter(Limits!Error(kind, d)) = Limits!Reset
<1>1. d.reset = Limits!Reset /\ d.retryAfter = Limits!Reset - limitClock
  BY Decides
<1>2. Limits!Reset \in Nat /\ limitClock \in Nat /\ limitClock < Limits!Reset
  BY ResetIs DEF Limits!LimitShapes
<1>3. PICK n \in Nat : n = Limits!Reset - limitClock /\ limitClock + n = Limits!Reset
  BY <1>2
<1>4. Limits!Metadata(d) = [reset |-> Limits!Reset, retryAfter |-> n]
  BY <1>1, <1>3 DEF Limits!Metadata
<1>5. Limits!ReadMetadata(Limits!Metadata(d)).retryAfter = n
  BY <1>3, <1>4 DEF Limits!ReadMetadata
<1>6. Limits!RetryAfter(Limits!Error(kind, d)) = n
  <2>1. CASE kind = "join"
    BY <2>1, <1>5 DEF Limits!RetryAfter, Limits!Error, Limits!TrpcError
  <2>2. CASE kind # "join"
    BY <2>2, <1>5 DEF Limits!RetryAfter, Limits!Error, Limits!UploadError
  <2>. QED
    BY <2>1, <2>2
<1>. QED
  BY <1>3, <1>6

-----------------------------------------------------------------------------
(* The steps.                                                              *)

LEMMA LimitsStart == Limits!LimitBounds /\ Limits!Init => Limits!LimitInv
<1>. SUFFICES ASSUME Limits!LimitBounds, Limits!Init PROVE Limits!LimitInv
  OBVIOUS
<1>1. Limits!LimitShapes
  <2>1. spent \in [Limits!Bucket -> Seq(Nat)]
    BY DEF Limits!Init
  <2>. QED
    BY <2>1 DEF Limits!Init, Limits!LimitShapes, Limits!Idle
<1>2. Limits!CountsInv
  <2>1. \A b \in Limits!Bucket : DOMAIN spent[b] = {}
    BY DEF Limits!Init
  <2>. QED
    BY <2>1 DEF Limits!CountsInv
<1>3. Limits!WaitInv /\ Limits!ReserveIsOnesOwn /\ Limits!WaitingPays
  BY DEF Limits!Init, Limits!WaitInv, Limits!ReserveIsOnesOwn, Limits!WaitingPays, Limits!Idle
<1>. QED
  BY <1>1, <1>2, <1>3 DEF Limits!LimitInv

(* Nothing is spent and no tab moves.                                       *)
LEMMA TabsStay ==
  ASSUME Limits!WaitInv, Limits!WaitingPays, UNCHANGED <<spent, limitTab>>
  PROVE  Limits!WaitInv' /\ Limits!WaitingPays'
BY DEF Limits!WaitInv, Limits!WaitingPays, Limits!WaitsWell, Limits!BudgetOf

(* A tab asks the budget of its own user.                                  *)
LEMMA BudgetIs ==
  ASSUME Limits!LimitBounds, NEW t \in MemberTab, NEW kind
  PROVE  /\ Limits!BudgetOf(t, kind) \in Limits!Bucket
         /\ Limits!BudgetOf(t, kind)[1] = IF kind = "join" THEN "join" ELSE "asset-upload"
         /\ Limits!BudgetOf(t, kind)[2] = MemberOf[t]
<1>1. PICK u \in Member : u = MemberOf[t]
  BY DEF Limits!LimitBounds
<1>2. PICK op \in {"join", "asset-upload"} : op = IF kind = "join" THEN "join" ELSE "asset-upload"
  OBVIOUS
<1>3. Limits!BudgetOf(t, kind) = <<op, u>>
  BY <1>1, <1>2 DEF Limits!BudgetOf
<1>4. <<op, u>> \in Limits!Bucket
  BY DEF Limits!Bucket
<1>. QED
  BY <1>1, <1>2, <1>3, <1>4

(* A write is decided: the tabs draw on other budgets.                      *)
LEMMA TabsApart ==
  ASSUME Limits!LimitBounds, Limits!WaitInv, Limits!WaitingPays, Limits!LimitShapes,
         NEW b \in Limits!Bucket, b[1] \notin {"join", "asset-upload"},
         NEW d \in Limits!Evaluate(b), Limits!Charge(b, d), UNCHANGED limitTab
  PROVE  Limits!WaitInv' /\ Limits!WaitingPays'
<1>1. Limits!WaitingPays'
  BY DEF Limits!WaitingPays
<1>2. ASSUME NEW t \in MemberTab, limitTab'[t].pc = "waiting" PROVE Limits!WaitsWell(t)'
  <2>1. Limits!WaitsWell(t) /\ limitTab'[t] = limitTab[t]
    BY <1>2 DEF Limits!WaitInv
  <2>2. PICK c \in Limits!Bucket : c = Limits!BudgetOf(t, limitTab[t].kind) /\ c[1] \in {"join", "asset-upload"}
    BY BudgetIs
  <2>3. c # b
    BY <2>2
  <2>4. spent'[c] = spent[c]
    BY <2>3, SpentGrows
  <2>. QED
    BY <2>1, <2>2, <2>4, WaitStays
<1>. QED
  BY <1>1, <1>2 DEF Limits!WaitInv

(* Waiting on after another refusal, with nobody else: the new wait starts  *)
(* a window later, and there is no third.                                   *)
LEMMA WaitsOn ==
  ASSUME Limits!LimitBounds, Limits!LimitShapes, NEW t \in MemberTab, Limits!WaitsWell(t),
         ~limitTab[t].others, limitClock >= limitTab[t].notBefore,
         Limits!Full(Limits!BudgetOf(t, limitTab[t].kind))
  PROVE  /\ limitTab[t].attempt = 1
         /\ LET mine == spent[Limits!BudgetOf(t, limitTab[t].kind)] IN \A i \in DOMAIN mine : mine[i] + LimitWindow < Limits!Reset
<1>1. PICK b \in Limits!Bucket : b = Limits!BudgetOf(t, limitTab[t].kind)
  BY BudgetIs
<1>2. PICK m \in Nat : m = limitTab[t].notBefore
  <2>1. limitTab[t].notBefore \in Nat
    BY DEF Limits!LimitShapes
  <2>. QED
    BY <2>1
<1>3. PICK n \in Nat : n = limitTab[t].attempt /\ n # 0 /\ n < 3
  <2>1. limitTab[t].attempt \in Nat
    BY DEF Limits!LimitShapes
  <2>. QED
    BY <2>1 DEF Limits!WaitsWell
<1>4. PICK mine \in Seq(Nat) : mine = spent[b]
  <2>1. spent \in [Limits!Bucket -> Seq(Nat)]
    BY DEF Limits!LimitShapes
  <2>. QED
    BY <2>1
<1>5. /\ m % LimitWindow = 0
      /\ \A i \in DOMAIN mine : IF n = 1 THEN mine[i] < m ELSE mine[i] + LimitWindow < m
  BY <1>1, <1>2, <1>3, <1>4 DEF Limits!WaitsWell
<1>6. n = 1
  <2>1. SUFFICES ASSUME n # 1 PROVE FALSE
    OBVIOUS
  <2>2. \A i \in DOMAIN spent[b] : spent[b][i] + LimitWindow < m
    BY <1>4, <1>5, <2>1
  <2>3. ~Limits!Full(b)
    BY <1>2, <1>5, <2>2, Passed
  <2>. QED
    BY <1>1, <2>3
<1>7. m + LimitWindow <= Limits!Reset
  BY <1>2, <1>5, ResetIs
<1>8. ASSUME NEW i \in DOMAIN mine PROVE mine[i] + LimitWindow < Limits!Reset
  <2>1. PICK x \in Nat : x = mine[i]
    OBVIOUS
  <2>2. x < m
    BY <1>5, <1>6, <2>1
  <2>3. LimitWindow \in Nat /\ Limits!Reset \in Nat
    BY ResetIs DEF Limits!LimitBounds
  <2>. QED
    BY <1>7, <2>1, <2>2, <2>3
<1>. QED
  BY <1>1, <1>3, <1>4, <1>6, <1>8

(* A tab that is refused, and shares with nobody, has waited once at most   *)
(* and what was taken is from before the wait that starts, or the window    *)
(* before that.                                                             *)
LEMMA RefusedAlone ==
  ASSUME Limits!LimitBounds, Limits!LimitInv, NEW t \in MemberTab, NEW kind,
         Limits!Full(Limits!BudgetOf(t, kind)),
         limitTab[t].pc = "waiting" => limitTab[t].kind = kind /\ limitClock >= limitTab[t].notBefore /\ ~limitTab[t].others,
         NEW n, n = IF limitTab[t].pc = "waiting" THEN limitTab[t].attempt + 1 ELSE 1
  PROVE  /\ n < 3
         /\ LET mine == spent[Limits!BudgetOf(t, kind)]
            IN  \A i \in DOMAIN mine : IF n = 1 THEN mine[i] < Limits!Reset ELSE mine[i] + LimitWindow < Limits!Reset
<1>1. PICK b \in Limits!Bucket : b = Limits!BudgetOf(t, kind)
  BY BudgetIs
<1>2. Limits!LimitShapes /\ Limits!WaitInv /\ Limits!CountsInv
  BY DEF Limits!LimitInv
<1>3. CASE limitTab[t].pc = "waiting"
  <2>1. /\ Limits!WaitsWell(t)
        /\ limitTab[t].kind = kind
        /\ limitClock >= limitTab[t].notBefore
        /\ ~limitTab[t].others
    BY <1>2, <1>3 DEF Limits!WaitInv
  <2>2. limitTab[t].attempt = 1
    BY <1>2, <2>1, WaitsOn
  <2>3. n = 2
    BY <1>3, <2>2
  <2>4. \A i \in DOMAIN spent[b] : spent[b][i] + LimitWindow < Limits!Reset
    BY <1>1, <1>2, <2>1, WaitsOn
  <2>. QED
    BY <1>1, <2>3, <2>4
<1>4. CASE limitTab[t].pc # "waiting"
  <2>1. spent \in [Limits!Bucket -> Seq(Nat)] /\ limitClock \in Nat
    BY <1>2 DEF Limits!LimitShapes
  <2>2. PICK s \in Seq(Nat) : s = spent[b]
    BY <2>1
  <2>3. \A i \in DOMAIN s : s[i] <= limitClock
    BY <1>2, <2>2 DEF Limits!CountsInv
  <2>4. Limits!Reset \in Nat /\ limitClock < Limits!Reset
    BY <1>2, ResetIs
  <2>5. \A i \in DOMAIN s : s[i] < Limits!Reset
    BY <2>1, <2>3, <2>4
  <2>. QED
    BY <1>1, <1>4, <2>2, <2>5
<1>. QED
  BY <1>3, <1>4

(* The record of a tab, field by field.                                     *)
TabShape == [pc : {"new", "waiting", "in", "given up"}, kind : {"none", "join", "upload"},
             attempt : Nat, notBefore : Nat, others : BOOLEAN]
TabAs(x, k, n, m, p) == [pc |-> x, kind |-> k, attempt |-> n, notBefore |-> m, others |-> p]
(* What an attempt leaves of its own tab.                                   *)
LEMMA MineAfter ==
  ASSUME Limits!LimitBounds, Limits!LimitInv, NEW t \in MemberTab, NEW kind \in {"join", "upload"},
         Limits!Attempt(t, kind)
  PROVE  /\ limitTab'[t] \in TabShape
         /\ limitTab'[t].pc = "waiting" => Limits!WaitsWell(t)'
         /\ limitTab'[t].pc = "given up" => limitTab'[t].others
<1>1. PICK b \in Limits!Bucket : b = Limits!BudgetOf(t, kind)
  BY BudgetIs
<1>2. PICK d \in Limits!Evaluate(b) :
        /\ Limits!Charge(b, d)
        /\ limitTab'[t] = [pc |-> IF d.status # "limited" THEN "in"
                                  ELSE IF (IF limitTab[t].pc = "waiting" THEN limitTab[t].attempt + 1 ELSE 1) = MaxTries
                                  THEN "given up" ELSE "waiting",
                           kind |-> kind,
                           attempt |-> IF d.status = "limited" THEN IF limitTab[t].pc = "waiting" THEN limitTab[t].attempt + 1 ELSE 1
                                       ELSE 0,
                           notBefore |-> IF d.status = "limited" THEN limitClock + Limits!RetryAfter(Limits!Error(kind, d)) ELSE 0,
                           others |-> IF limitTab[t].pc = "waiting" THEN limitTab[t].others ELSE FALSE]
  BY <1>1 DEF Limits!Attempt
<1>3. /\ Limits!LimitShapes
      /\ (limitTab[t].pc = "waiting" => limitTab[t].kind = kind /\ limitClock >= limitTab[t].notBefore)
  BY DEF Limits!Attempt, Limits!LimitInv
<1>4. limitTab[t].others \in BOOLEAN /\ limitTab[t].attempt \in Nat
  BY <1>3 DEF Limits!LimitShapes
<1>5. PICK n : n \in Nat /\ n # 0 /\ n = IF limitTab[t].pc = "waiting" THEN limitTab[t].attempt + 1 ELSE 1
  BY <1>4
<1>6. PICK x : /\ x \in {"in", "given up", "waiting"}
               /\ x = IF d.status # "limited" THEN "in" ELSE IF n = MaxTries THEN "given up" ELSE "waiting"
  OBVIOUS
<1>7. PICK a, m : /\ a \in Nat /\ a = IF d.status = "limited" THEN n ELSE 0
                  /\ m \in Nat
                  /\ m = IF d.status = "limited" THEN limitClock + Limits!RetryAfter(Limits!Error(kind, d)) ELSE 0
  <2>1. d.status = "limited" => limitClock + Limits!RetryAfter(Limits!Error(kind, d)) \in Nat
    BY <1>3, WaitIsTold, ResetIs
  <2>. QED
    BY <1>5, <2>1
<1>8. x \in {"in", "given up", "waiting"} /\ kind \in {"join", "upload"} /\ a \in Nat /\ m \in Nat
  BY <1>6, <1>7
<1>9. CASE limitTab[t].pc = "waiting" /\ limitTab[t].others
  <2>1. limitTab'[t] = TabAs(x, kind, a, m, TRUE)
    BY <1>2, <1>4, <1>5, <1>6, <1>7, <1>9 DEF TabAs
  <2>2. PICK r : r = TabAs(x, kind, a, m, TRUE)
    OBVIOUS
  <2>3. r \in TabShape /\ r.pc = x /\ r.kind = kind /\ r.attempt = a /\ r.others
    BY <1>8, <2>2 DEF TabShape, TabAs
  <2>4. x = "waiting" => a # 0 /\ kind # "none"
    BY <1>5, <1>6, <1>7
  <2>. QED
    BY <2>1, <2>2, <2>3, <2>4, WaitAlone
<1>10. CASE ~(limitTab[t].pc = "waiting" /\ limitTab[t].others)
  <2>1. limitTab'[t] = TabAs(x, kind, a, m, FALSE)
    BY <1>2, <1>4, <1>5, <1>6, <1>7, <1>10 DEF TabAs
  <2>2. PICK r : r = TabAs(x, kind, a, m, FALSE)
    OBVIOUS
  <2>3. r \in TabShape /\ r.pc = x /\ r.kind = kind /\ r.attempt = a /\ r.notBefore = m /\ ~r.others
    BY <1>8, <2>2 DEF TabShape, TabAs
  <2>4. CASE d.status = "limited"
    <3>1. Limits!Full(b) /\ spent' = spent
      BY <1>2, <1>3, <2>4, Decides, SpentGrows
    <3>2. m = Limits!Reset /\ Limits!Reset % LimitWindow = 0 /\ a = n
      BY <1>3, <1>7, <2>4, WaitIsTold, ResetIs
    <3>3. /\ n < 3
          /\ LET mine == spent[b] IN \A i \in DOMAIN mine : IF n = 1 THEN mine[i] < Limits!Reset ELSE mine[i] + LimitWindow < Limits!Reset
      <4>1. limitTab[t].pc = "waiting" => limitTab[t].kind
              = kind /\ limitClock >= limitTab[t].notBefore /\ ~limitTab[t].others
        BY <1>3, <1>10
      <4>. QED
        BY <1>1, <1>5, <3>1, <4>1, RefusedAlone
    <3>4. x = "waiting"
      <4>1. MaxTries \in Nat /\ MaxTries > 2
        BY DEF Limits!LimitBounds
      <4>2. n # MaxTries
        BY <1>5, <3>3, <4>1
      <4>. QED
        BY <1>6, <2>4, <4>2
    <3>5. n # 0 /\ kind # "none" /\ Limits!BudgetOf(t, kind)' = b
      BY <1>1, <1>5 DEF Limits!BudgetOf
    <3>6. Limits!WaitsWell(t)'
      BY <2>1, <2>2, <2>3, <3>1, <3>2, <3>3, <3>5 DEF Limits!WaitsWell, Limits!BudgetOf
    <3>. QED
      BY <2>1, <2>2, <2>3, <3>4, <3>6
  <2>5. CASE d.status # "limited"
    BY <1>6, <2>1, <2>2, <2>5, <2>3
  <2>. QED
    BY <2>4, <2>5
<1>. QED
  BY <1>9, <1>10

(* And what it leaves of another.                                           *)
LEMMA OthersAfter ==
  ASSUME Limits!LimitBounds, Limits!LimitInv, NEW t \in MemberTab, NEW kind \in {"join", "upload"},
         Limits!Attempt(t, kind),
         NEW s \in MemberTab, s # t
  PROVE  /\ limitTab'[s] \in TabShape
         /\ limitTab'[s].pc = "waiting" => Limits!WaitsWell(s)'
         /\ limitTab'[s].pc = "given up" => limitTab'[s].others
<1>1. PICK b \in Limits!Bucket : b = Limits!BudgetOf(t, kind)
  BY BudgetIs
<1>2. PICK d \in Limits!Evaluate(b) :
        /\ Limits!Charge(b, d)
        /\ limitTab'[s] = IF MemberOf[s] = MemberOf[t] /\ limitTab[s].kind = kind /\ d.taken
                          THEN [limitTab[s] EXCEPT !.others = TRUE] ELSE limitTab[s]
  BY <1>1 DEF Limits!Attempt
<1>3. /\ Limits!LimitShapes /\ (limitTab[s].pc = "waiting" => Limits!WaitsWell(s)) /\ (limitTab[s].pc = "given up" => limitTab[s].others)
      /\ limitTab[s] \in TabShape
  BY DEF Limits!LimitInv, Limits!WaitInv, Limits!WaitingPays, Limits!LimitShapes, TabShape
<1>4. CASE MemberOf[s] = MemberOf[t] /\ limitTab[s].kind = kind /\ d.taken
  <2>1. limitTab'[s] = [limitTab[s] EXCEPT !.others = TRUE]
    BY <1>2, <1>4
  <2>2. /\ limitTab'[s] \in TabShape
        /\ limitTab'[s].pc = limitTab[s].pc /\ limitTab'[s].kind = limitTab[s].kind
        /\ limitTab'[s].attempt = limitTab[s].attempt
        /\ limitTab'[s].others
    BY <1>3, <2>1 DEF TabShape
  <2>3. limitTab'[s].pc = "waiting" => Limits!WaitsWell(s)'
    BY <1>3, <2>2, WaitAlone DEF Limits!WaitsWell
  <2>. QED
    BY <2>2, <2>3
<1>5. CASE ~(MemberOf[s] = MemberOf[t] /\ limitTab[s].kind = kind /\ d.taken)
  <2>1. limitTab'[s] = limitTab[s]
    BY <1>2, <1>5
  <2>2. ASSUME limitTab[s].pc = "waiting" PROVE Limits!WaitsWell(s)'
    <3>1. Limits!WaitsWell(s) /\ limitTab[s].kind \in {"join", "upload"}
      BY <1>3, <2>2 DEF Limits!WaitsWell, TabShape
    <3>2. PICK c \in Limits!Bucket : /\ c = Limits!BudgetOf(s, limitTab[s].kind) /\ c[2] = MemberOf[s]
                                     /\ c[1] = IF limitTab[s].kind = "join" THEN "join" ELSE "asset-upload"
      BY BudgetIs
    <3>3. b[2] = MemberOf[t] /\ b[1] = IF kind = "join" THEN "join" ELSE "asset-upload"
      BY <1>1, BudgetIs
    <3>4. spent'[c] = spent[c]
      <4>1. CASE c = b
        <5>1. ~d.taken
          BY <1>5, <3>1, <3>2, <3>3, <4>1
        <5>. QED
          BY <1>2, <1>3, <5>1, SpentGrows
      <4>2. CASE c # b
        BY <1>2, <1>3, <4>2, SpentGrows
      <4>. QED
        BY <4>1, <4>2
    <3>. QED
      BY <2>1, <3>1, <3>2, <3>4, WaitStays
  <2>. QED
    BY <1>3, <2>1, <2>2
<1>. QED
  BY <1>4, <1>5

LEMMA AttemptKept ==
  ASSUME Limits!LimitBounds, Limits!LimitInv, NEW t \in MemberTab, NEW kind \in {"join", "upload"},
         Limits!Attempt(t, kind)
  PROVE  Limits!LimitInv'
<1>1. PICK b \in Limits!Bucket : b = Limits!BudgetOf(t, kind)
  BY BudgetIs
<1>2. PICK d \in Limits!Evaluate(b) : Limits!Charge(b, d)
  BY <1>1 DEF Limits!Attempt
<1>3. /\ Limits!LimitShapes
      /\ Limits!CountsInv
      /\ Limits!ReserveIsOnesOwn
      /\ UNCHANGED <<limitClock, limitRole, limitWrite>>
  BY DEF Limits!LimitInv, Limits!Attempt
<1>4. \A s \in MemberTab : /\ limitTab'[s] \in TabShape /\ (limitTab'[s].pc = "waiting" => Limits!WaitsWell(s)')
                          /\ (limitTab'[s].pc = "given up" => limitTab'[s].others)
  BY MineAfter, OthersAfter
<1>5. Limits!LimitShapes'
  <2>1. limitTab' = [s \in MemberTab |-> limitTab'[s]]
    BY DEF Limits!Attempt
  <2>2. limitTab' \in [MemberTab -> TabShape]
    BY <1>4, <2>1
  <2>3. spent' \in [Limits!Bucket -> Seq(Nat)]
    BY <1>2, <1>3, SpentGrows
  <2>. QED
    BY <1>3, <2>2, <2>3 DEF Limits!LimitShapes, TabShape
<1>6. Limits!CountsInv'
  BY <1>2, <1>3, CountsTaken
<1>7. Limits!WaitInv' /\ Limits!WaitingPays'
  BY <1>4 DEF Limits!WaitInv, Limits!WaitingPays
<1>8. Limits!ReserveIsOnesOwn'
  <2>1. ASSUME NEW u \in Member, limitWrite'[u].pc = "limited", limitWrite'[u].intent = "leave"
        PROVE  Len(spent'[<<"snapshot-finalize", u>>]) >= Allowance["snapshot-finalize"]
    BY <1>2, <1>3, <2>1, ReserveTaken
  <2>. QED
    BY <2>1 DEF Limits!ReserveIsOnesOwn
<1>. QED
  BY <1>5, <1>6, <1>7, <1>8 DEF Limits!LimitInv

(* A write of one member moves to another stage.                            *)
WriteShape == [pc : {"idle", "put", "finalize", "allowed", "degraded", "limited", "refused", "done"},
               intent : {"none", "cadence", "leave"}]
LEMMA WriteMoves ==
  ASSUME Limits!LimitShapes, NEW u \in Member,
         NEW x \in {"idle", "put", "finalize", "allowed", "degraded", "limited", "refused", "done"},
         limitWrite' = [limitWrite EXCEPT ![u].pc = x]
  PROVE  /\ limitWrite' \in [Member -> WriteShape] /\ limitWrite'[u].pc = x /\ limitWrite'[u].intent = limitWrite[u].intent
         /\ \A v \in Member : v # u => limitWrite'[v] = limitWrite[v]
BY DEF Limits!LimitShapes, WriteShape

(* A decision on a write's budget.                                          *)
LEMMA WriteDecided ==
  ASSUME Limits!LimitBounds, Limits!LimitInv, NEW u \in Member, NEW b \in Limits!Bucket,
         b[1] \notin {"join", "asset-upload"},
         NEW d \in Limits!Evaluate(b), Limits!Charge(b, d), UNCHANGED <<limitClock, limitRole, limitTab>>,
         NEW x \in {"idle", "put", "finalize", "allowed", "degraded", "limited", "refused", "done"},
         limitWrite' = [limitWrite EXCEPT ![u].pc = x],
         x = "limited" /\ limitWrite[u].intent = "leave" =>
           Len(spent'[<<"snapshot-finalize", u>>]) >= Allowance["snapshot-finalize"]
  PROVE  Limits!LimitInv'
<1>1. /\ Limits!LimitShapes
      /\ Limits!CountsInv
      /\ Limits!WaitInv
      /\ Limits!ReserveIsOnesOwn
      /\ Limits!WaitingPays
  BY DEF Limits!LimitInv
<1>2. /\ limitWrite' \in [Member -> WriteShape] /\ limitWrite'[u].pc = x /\ limitWrite'[u].intent = limitWrite[u].intent
      /\ \A v \in Member : v # u => limitWrite'[v] = limitWrite[v]
  BY <1>1, WriteMoves
<1>3. Limits!LimitShapes'
  <2>1. spent' \in [Limits!Bucket -> Seq(Nat)]
    BY <1>1, SpentGrows
  <2>. QED
    BY <1>1, <1>2, <2>1 DEF Limits!LimitShapes, WriteShape
<1>4. Limits!CountsInv'
  BY <1>1, CountsTaken
<1>5. Limits!WaitInv' /\ Limits!WaitingPays'
  BY <1>1, TabsApart
<1>6. ASSUME NEW v \in Member, limitWrite'[v].pc = "limited", limitWrite'[v].intent = "leave"
      PROVE  Len(spent'[<<"snapshot-finalize", v>>]) >= Allowance["snapshot-finalize"]
  <2>1. CASE v = u
    BY <1>2, <1>6, <2>1
  <2>2. CASE v # u
    <3>1. limitWrite[v].pc = "limited" /\ limitWrite[v].intent = "leave"
      BY <1>2, <1>6, <2>2
    <3>. QED
      BY <1>1, <3>1, ReserveTaken
  <2>. QED
    BY <2>1, <2>2
<1>7. Limits!ReserveIsOnesOwn'
  BY <1>6 DEF Limits!ReserveIsOnesOwn
<1>. QED
  BY <1>3, <1>4, <1>5, <1>7 DEF Limits!LimitInv

LEMMA DecidePutKept ==
  ASSUME Limits!LimitBounds, Limits!LimitInv, NEW u \in Member, Limits!DecidePut(u)
  PROVE  Limits!LimitInv'
<1>1. PICK b \in Limits!Bucket : b = <<"snapshot-put", "room">> /\ b[1] \notin {"join", "asset-upload"}
  <2>1. <<"snapshot-put", "room">> \in Limits!Bucket
    BY DEF Limits!Bucket
  <2>. QED
    BY <2>1
<1>2. PICK d \in Limits!Evaluate(b) :
        /\ Limits!Charge(b, d)
        /\ limitWrite' = [limitWrite EXCEPT ![u].pc = IF d.status # "limited" THEN d.status
                                                     ELSE IF limitWrite[u].intent = "leave" THEN "finalize" ELSE "limited"]
  BY <1>1 DEF Limits!DecidePut
<1>3. d.status \in {"degraded", "limited", "allowed"}
  BY Decides
<1>4. PICK x \in {"idle", "put", "finalize", "allowed", "degraded", "limited", "refused", "done"} :
        x = IF d.status # "limited" THEN d.status
            ELSE IF limitWrite[u].intent = "leave" THEN "finalize" ELSE "limited"
  BY <1>3
<1>5. /\ limitWrite' = [limitWrite EXCEPT ![u].pc = x]
      /\ ~(x = "limited" /\ limitWrite[u].intent = "leave")
  BY <1>2, <1>4
<1>6. UNCHANGED <<limitClock, limitRole, limitTab>>
  BY DEF Limits!DecidePut
<1>. QED
  BY <1>1, <1>2, <1>5, <1>6, WriteDecided

LEMMA DecideFinalizeKept ==
  ASSUME Limits!LimitBounds, Limits!LimitInv, NEW u \in Member, Limits!DecideFinalize(u)
  PROVE  Limits!LimitInv'
<1>1. PICK b \in Limits!Bucket : b = <<"snapshot-finalize", u>> /\ b[1] \notin {"join", "asset-upload"}
  <2>1. <<"snapshot-finalize", u>> \in Limits!Bucket
    BY DEF Limits!Bucket
  <2>. QED
    BY <2>1
<1>2. PICK d \in Limits!Evaluate(b) : Limits!Charge(b, d) /\ limitWrite' = [limitWrite EXCEPT ![u].pc = d.status]
  BY <1>1 DEF Limits!DecideFinalize
<1>3. PICK x \in {"idle", "put", "finalize", "allowed", "degraded", "limited", "refused", "done"} : x = d.status
  BY Decides
<1>4. UNCHANGED <<limitClock, limitRole, limitTab>> /\ Limits!LimitShapes
  BY DEF Limits!DecideFinalize, Limits!LimitInv
<1>5. ASSUME x = "limited" PROVE Len(spent'[<<"snapshot-finalize", u>>]) >= Allowance["snapshot-finalize"]
  <2>1. Limits!Full(b) /\ spent' = spent
    BY <1>2, <1>3, <1>4, <1>5, Decides, SpentGrows
  <2>2. Limits!TokensOf(b) <= Len(spent[b])
    BY <1>4, <2>1, FullIs
  <2>3. Limits!TokensOf(b) = Allowance["snapshot-finalize"] /\ Limits!TokensOf(b) \in Nat
    <3>1. Limits!TokensOf(b) = Allowance["snapshot-finalize"]
      BY <1>1 DEF Limits!TokensOf
    <3>. QED
      BY <3>1, TokensAre
  <2>4. Len(spent[b]) \in Nat
    <3>1. spent \in [Limits!Bucket -> Seq(Nat)]
      BY <1>4 DEF Limits!LimitShapes
    <3>. QED
      BY <3>1
  <2>. QED
    BY <1>1, <2>1, <2>2, <2>3, <2>4
<1>. QED
  BY <1>1, <1>2, <1>3, <1>4, <1>5, WriteDecided

(* Nothing is spent and no tab moves: what a write becomes is its own       *)
(* matter.                                                                  *)
LEMMA WriteMoved ==
  ASSUME Limits!LimitBounds, Limits!LimitInv, UNCHANGED <<spent, limitTab>>, limitClock' \in Nat,
         limitClock <= limitClock',
         limitRole' \in [Member -> {"editor", "viewer"}], limitWrite' \in [Member -> WriteShape],
         \A v \in Member : limitWrite'[v].pc = "limited" => limitWrite'[v] = limitWrite[v]
  PROVE  Limits!LimitInv'
<1>1. /\ Limits!LimitShapes
      /\ Limits!CountsInv
      /\ Limits!WaitInv
      /\ Limits!ReserveIsOnesOwn
      /\ Limits!WaitingPays
  BY DEF Limits!LimitInv
<1>2. Limits!LimitShapes'
  BY <1>1 DEF Limits!LimitShapes, WriteShape
<1>3. Limits!CountsInv'
  BY <1>1, CountsStay
<1>4. Limits!WaitInv' /\ Limits!WaitingPays'
  BY <1>1, TabsStay
<1>5. Limits!ReserveIsOnesOwn'
  BY <1>1 DEF Limits!ReserveIsOnesOwn
<1>. QED
  BY <1>2, <1>3, <1>4, <1>5 DEF Limits!LimitInv

LEMMA QuietKept ==
  ASSUME Limits!LimitBounds, Limits!LimitInv, Limits!Tick \/ \E u \in Member : Limits!Demote(u)
  PROVE  Limits!LimitInv'
<1>1. Limits!LimitShapes
  BY DEF Limits!LimitInv
<1>2. UNCHANGED <<spent, limitTab, limitWrite>> /\ limitClock' \in Nat /\ limitClock <= limitClock'
  <2>1. limitClock \in Nat
    BY <1>1 DEF Limits!LimitShapes
  <2>2. limitClock' = limitClock \/ limitClock' = limitClock + 1
    BY DEF Limits!Tick, Limits!Demote
  <2>3. UNCHANGED <<spent, limitTab, limitWrite>>
    BY DEF Limits!Tick, Limits!Demote
  <2>. QED
    BY <2>1, <2>2, <2>3
<1>3. limitRole' \in [Member -> {"editor", "viewer"}]
  BY <1>1 DEF Limits!Tick, Limits!Demote, Limits!LimitShapes
<1>4. limitWrite' \in [Member -> WriteShape]
  BY <1>1, <1>2 DEF Limits!LimitShapes, WriteShape
<1>. QED
  BY <1>2, <1>3, <1>4, WriteMoved

LEMMA StageKept ==
  ASSUME Limits!LimitBounds, Limits!LimitInv, NEW u \in Member,
         Limits!CommitWrite(u) \/ \E intent \in {"cadence", "leave"} : Limits!StartWrite(u, intent)
  PROVE  Limits!LimitInv'
<1>1. Limits!LimitShapes
  BY DEF Limits!LimitInv
<1>2. UNCHANGED <<spent, limitTab, limitClock, limitRole>>
  BY DEF Limits!CommitWrite, Limits!StartWrite
<1>3. /\ limitClock' \in Nat
      /\ limitClock <= limitClock'
      /\ limitRole' \in [Member -> {"editor", "viewer"}]
  <2>1. limitClock \in Nat /\ limitRole \in [Member -> {"editor", "viewer"}]
    BY <1>1 DEF Limits!LimitShapes
  <2>. QED
    BY <1>2, <2>1
<1>4. /\ limitWrite' \in [Member -> WriteShape]
      /\ \A v \in Member : limitWrite'[v].pc = "limited" => limitWrite'[v] = limitWrite[v]
  <2>1. CASE Limits!CommitWrite(u)
    <3>1. PICK x \in {"idle", "put", "finalize", "allowed", "degraded", "limited", "refused", "done"} :
            x = IF limitRole[u] = "editor" THEN "done" ELSE "refused"
      OBVIOUS
    <3>2. limitWrite' = [limitWrite EXCEPT ![u].pc = x] /\ x # "limited"
      BY <2>1, <3>1 DEF Limits!CommitWrite
    <3>. QED
      BY <1>1, <3>2, WriteMoves
  <2>2. CASE \E intent \in {"cadence", "leave"} : Limits!StartWrite(u, intent)
    <3>1. PICK i \in {"none", "cadence", "leave"} : limitWrite' = [limitWrite EXCEPT ![u] = [pc |-> "put", intent |-> i]]
      BY <2>2 DEF Limits!StartWrite
    <3>2. PICK r : r = [pc |-> "put", intent |-> i]
      OBVIOUS
    <3>3. r \in WriteShape /\ r.pc = "put"
      BY <3>2 DEF WriteShape
    <3>4. limitWrite \in [Member -> WriteShape]
      BY <1>1 DEF Limits!LimitShapes, WriteShape
    <3>. QED
      BY <3>1, <3>2, <3>3, <3>4
  <2>. QED
    BY <2>1, <2>2
<1>. QED
  BY <1>2, <1>3, <1>4, WriteMoved

LEMMA LimitsKept ==
  ASSUME Limits!LimitBounds, Limits!LimitInv, Limits!Next
  PROVE  Limits!LimitInv'
BY AttemptKept, DecidePutKept, DecideFinalizeKept, QuietKept, StageKept DEF Limits!Next,
   Limits!WriteNext, Limits!AttemptNext

LEMMA LimitsIdle ==
  ASSUME Limits!LimitBounds, Limits!LimitInv, UNCHANGED Limits!vars
  PROVE  Limits!LimitInv'
<1>1. /\ Limits!LimitShapes
      /\ UNCHANGED <<limitClock, spent, limitRole, limitWrite, limitTab, limitCalls>>
  BY DEF Limits!LimitInv, Limits!vars
<1>2. /\ limitClock' \in Nat
      /\ limitClock <= limitClock'
      /\ limitRole' \in [Member -> {"editor", "viewer"}]
      /\ limitWrite' \in [Member -> WriteShape]
  <2>1. /\ limitClock \in Nat
        /\ limitRole \in [Member -> {"editor", "viewer"}]
        /\ limitWrite \in [Member -> WriteShape]
    BY <1>1 DEF Limits!LimitShapes, WriteShape
  <2>. QED
    BY <1>1, <2>1
<1>. QED
  BY <1>1, <1>2, WriteMoved

-----------------------------------------------------------------------------
(* What the invariant says of half a window.                               *)

(* What is taken from one token on, within half a window, was taken in that *)
(* window or early in the next.                                             *)
LEMMA HalfWindow ==
  ASSUME Limits!LimitBounds, Limits!LimitInv, NEW b \in Limits!Bucket, NEW i \in DOMAIN spent[b]
  PROVE  Limits!Cardinality({j \in DOMAIN spent[b] : spent[b][j] \in spent[b][i]..spent[b][i] + LimitWindow \div 2})
         < 2 * Limits!TokensOf(b)
<1>1. PICK s \in Seq(Nat) : s = spent[b]
  <2>1. spent \in [Limits!Bucket -> Seq(Nat)]
    BY DEF Limits!LimitInv, Limits!LimitShapes
  <2>. QED
    BY <2>1
<1>2. PICK a \in Nat : a = s[i]
  BY <1>1
<1>3. PICK W \in Nat \ {0} : W = LimitWindow
  BY DEF Limits!LimitBounds
<1>4. PICK w \in Nat : w = a \div W
  BY WindowParts
<1>5. PICK T \in Nat \ {0} : T = Limits!TokensOf(b)
  BY TokensAre
<1>6. PICK J : J = {j \in DOMAIN s : s[j] \in a..a + W \div 2}
  OBVIOUS
<1>7. W \div 2 \in Nat
  OBVIOUS
<1>8. ASSUME NEW j \in J
      PROVE  /\ j \in DOMAIN s /\ s[j] \in Nat
             /\ s[j] \in Limits!InWindow(w) \/ (s[j] \div W = w + 1 /\ s[j] \in Limits!EarlyIn(w + 1))
  <2>1. PICK c \in Nat : c = s[j] /\ a <= c /\ c <= a + W \div 2 /\ j \in DOMAIN s
    BY <1>6, <1>7
  <2>2. c \div W = w \/ (c \div W = w + 1 /\ c % W < W \div 2)
    BY <1>4, <2>1, WindowsMeet
  <2>3. CASE c \div W = w
    BY <1>3, <2>1, <2>3 DEF Limits!InWindow, Limits!WindowAt
  <2>4. CASE c \div W = w + 1 /\ c % W < W \div 2
    BY <1>3, <2>1, <2>4 DEF Limits!EarlyIn, Limits!WindowAt
  <2>. QED
    BY <2>1, <2>2, <2>3, <2>4
<1>9. PICK n \in Nat : n = Limits!Cardinality(Limits!Hits(s, Limits!InWindow(w))) /\ n <= T
  <2>1. Limits!Cardinality(Limits!Hits(s, Limits!InWindow(w))) \in Nat
    BY HitsCounted
  <2>2. Limits!WindowAt(spent[b][i]) = w
    BY <1>1, <1>2, <1>3, <1>4 DEF Limits!WindowAt
  <2>3. Limits!Count(b, Limits!InWindow(w)) <= T
    BY <1>5, <2>2 DEF Limits!LimitInv, Limits!CountsInv
  <2>. QED
    BY <1>1, <2>1, <2>3 DEF Limits!Count
<1>10. n # 0
  <2>1. s[i] \in Limits!InWindow(w)
    BY <1>2, <1>3, <1>4 DEF Limits!InWindow, Limits!WindowAt
  <2>2. Limits!Hits(s, Limits!InWindow(w)) # {}
    BY <1>1, <2>1 DEF Limits!Hits
  <2>. QED
    BY <1>9, <2>2, HitsCounted
<1>11. PICK e \in Nat : e = Limits!Cardinality(Limits!Hits(s, Limits!EarlyIn(w + 1)))
  BY HitsCounted
<1>12. J \subseteq Limits!Hits(s, Limits!InWindow(w)) \cup Limits!Hits(s, Limits!EarlyIn(w + 1))
  BY <1>8 DEF Limits!Hits
<1>13. Limits!Cardinality(J) <= n + e /\ Limits!Cardinality(J) \in Nat
  <2>1. Limits!IsFiniteSet(J) /\ Limits!Cardinality(J) <= n + e
    BY <1>9, <1>11, <1>12, HitsApart
  <2>. QED
    BY <2>1, FS_CardinalityType, LimitsCount
<1>14. n + e < 2 * T
  <2>1. CASE e = 0
    BY <1>9, <2>1
  <2>2. CASE e # 0
    <3>1. PICK j \in DOMAIN s : s[j] \in Limits!EarlyIn(w + 1)
      <4>1. Limits!Hits(s, Limits!EarlyIn(w + 1)) # {}
        BY <1>11, <2>2, HitsCounted
      <4>. QED
        BY <4>1 DEF Limits!Hits
    <3>2. Limits!WindowAt(spent[b][j]) = w + 1
      BY <1>1, <3>1 DEF Limits!EarlyIn
    <3>3. w + 1 # 0 /\ (w + 1) - 1 = w
      OBVIOUS
    <3>4. Limits!Count(b, Limits!EarlyIn(w + 1)) + Limits!Share(Limits!Count(b, Limits!InWindow(w)), Limits!TokensOf(b)) <= Limits!TokensOf(b)
      BY <1>1, <3>1, <3>2, <3>3 DEF Limits!LimitInv, Limits!CountsInv
    <3>5. e + Limits!Share(n, T) <= T
      BY <1>1, <1>5, <1>9, <1>11, <3>4 DEF Limits!Count
    <3>6. CASE T = 1
      BY <1>9, <1>10, <2>2, <3>5, <3>6 DEF Limits!Share
    <3>7. CASE T # 1
      <4>1. e + (n \div 2) <= T
        BY <3>5, <3>7 DEF Limits!Share
      <4>2. n \div 2 \in Nat /\ n <= 2 * (n \div 2) + 1
        OBVIOUS
      <4>. QED
        BY <1>9, <1>10, <3>7, <4>1, <4>2
    <3>. QED
      BY <3>6, <3>7
  <2>. QED
    BY <2>1, <2>2
<1>. QED
  BY <1>1, <1>2, <1>3, <1>5, <1>6, <1>13, <1>14

LEMMA LimitsSay ==
  ASSUME Limits!LimitBounds, Limits!LimitInv
  PROVE  Limits!BudgetsSound
<1>1. Limits!NotTwoWindows
  BY HalfWindow DEF Limits!NotTwoWindows
<1>. QED
  BY <1>1 DEF Limits!BudgetsSound, Limits!LimitInv

(* A budget lets fewer than two windows' worth through within half a window *)
(* of any request, the save on leaving is refused only to who has used up   *)
(* the reserve, and nobody who waits as told, alone in a budget, gives up   *)
(* (rate-limit/collaboration.ts, the client's retry loops).                 *)
THEOREM LimitsHold == Limits!LimitBounds /\ Limits!Spec => []Limits!BudgetsSound
<1>. SUFFICES ASSUME Limits!LimitBounds
              PROVE  Limits!Spec => []Limits!BudgetsSound
  OBVIOUS
<1>1. Limits!Init => Limits!LimitInv
  BY LimitsStart
<1>2. Limits!LimitInv /\ [Limits!Next]_Limits!vars => Limits!LimitInv'
  BY LimitsKept, LimitsIdle
<1>3. Limits!LimitInv => Limits!BudgetsSound
  BY LimitsSay
<1>. QED
  BY <1>1, <1>2, <1>3, PTL DEF Limits!Spec
=============================================================================
