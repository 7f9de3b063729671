------------------------------ MODULE ElementSync ------------------------------
(***************************************************************************)
(* One element of a scene, edited by the peers of a room: which copy of it *)
(* each keeps, and what each believes it has told the others.              *)
(*                                                                         *)
(* A copy is known by its version and nonce; version 0 stands for none.    *)
(* The nonces of two peers differ.  Whether a copy is too small to show,   *)
(* deleted, or an image known to be unavailable is all that is kept of it. *)
(* The publisher commits a batch in the turn that sent it; the model lets  *)
(* a commit come late, as the tracker's contract allows.                   *)
(*                                                                         *)
(* Bounds: MaxVersion; `used` limits lost frames, refused sends, full      *)
(* scenes sent unasked and rejoins; MaxQueue frames on their way to a peer *)
(* stop it from being sent more.                                           *)
(***************************************************************************)
EXTENDS Naturals, Sequences

CONSTANTS
  Peer,         \* the two editors
  Nonce(_),     \* the nonces a peer draws
  MaxVersion, MaxQueue, MaxUsed

VARIABLES
  copy,         \* of each peer
  synced,       \* syncedVersions of its tracker
  batch,        \* extracted and sent, not yet committed
  queue,        \* the frames on their way to it
  locked,       \* who is editing the element: text, drawing or resizing
  expired,      \* the tombstones older than DELETED_ELEMENT_SYNC_TIMEOUT_MS
  owed,         \* who missed a frame that no later one made up for
  used
vars == <<copy, synced, batch, queue, locked, expired, owed, used>>

AllNonces == UNION {Nonce(p) : p \in Peer}
Identity == [version : 0..MaxVersion, nonce : {0} \cup AllNonces]
Copy == [version : 0..MaxVersion, nonce : {0} \cup AllNonces,
         shape : {"shown", "small", "deleted"}, failed : BOOLEAN]
None == [version |-> 0, nonce |-> 0, shape |-> "shown", failed |-> FALSE]
Frame == [full : BOOLEAN, gap : BOOLEAN, element : Copy]

Id(c) == [version |-> c.version, nonce |-> c.nonce]
NoBatch == [of |-> Id(None), live |-> FALSE]

Init ==
  /\ copy = [p \in Peer |-> None] /\ synced = [p \in Peer |-> Id(None)]
  /\ batch = [p \in Peer |-> NoBatch] /\ queue = [p \in Peer |-> <<>>]
  /\ locked = {} /\ expired = {} /\ owed = {} /\ used = 0

Use == used < MaxUsed /\ used' = used + 1

(***************************************************************************)
(* The engine's rules, and the tracker's.                                   *)
(***************************************************************************)
\* Of two copies the later version is kept; of two of one version, the lower nonce.
Beats(c, d) == c.version > d.version \/ (c.version = d.version /\ c.nonce < d.nonce)

Syncable(c) ==
  /\ c.version > 0
  /\ CASE c.shape = "deleted" -> Id(c) \notin expired
       [] OTHER               -> c.shape = "shown"

HasChanged(c, s) ==
  c.version > s.version \/ (c.version = s.version /\ c.nonce # s.nonce)

Pending(p) == HasChanged(copy[p], synced[p]) /\ Syncable(copy[p])

Merge(p, remote) ==
  IF p \in locked \/ Beats(copy[p], remote) THEN copy[p] ELSE remote

Adopted(p, merged, remote) ==
  IF remote.version > 0 /\ Id(merged) = Id(remote) THEN Id(merged) ELSE synced[p]

Committed(s, b) == IF b.live /\ s.version <= b.of.version THEN b.of ELSE s

\* What the frame of p carries: the element if it is sent, nothing if it is not.
Extract(p, all) ==
  IF Syncable(copy[p]) /\ (all \/ HasChanged(copy[p], synced[p])) THEN copy[p] ELSE None

Broadcast(q, p, full, element) ==
  [r \in Peer |-> IF r = p THEN q[r]
                  ELSE Append(q[r], [full |-> full, gap |-> FALSE, element |-> element])]

HasRoom(p) == \A r \in Peer \ {p} : Len(queue[r]) < MaxQueue

(***************************************************************************)
(* What happens at a peer.                                                  *)
(***************************************************************************)
Becomes(p, shape, failed) == \E n \in Nonce(p) :
  /\ copy[p].version < MaxVersion
  /\ copy' = [copy EXCEPT ![p] = [version |-> @.version + 1, nonce |-> n,
                                  shape |-> shape, failed |-> failed]]
  /\ UNCHANGED <<synced, batch, queue, locked, expired, owed, used>>

\* The element is drawn by the first peer, and then changed by who has it.
Edit(p, shape) ==
  /\ copy[p].version > 0 \/ p = CHOOSE q \in Peer : TRUE
  /\ copy[p].shape # "deleted"
  /\ Becomes(p, shape, copy[p].failed)

\* Its image cannot be had; a copy already marked is left as it is.
Unmarked(p) == copy[p].version > 0 /\ ~copy[p].failed

MarkUnavailable(p) ==
  /\ Unmarked(p)
  /\ Becomes(p, copy[p].shape, TRUE)

StartEditing(p) ==
  /\ copy[p].version > 0 /\ p \notin locked
  /\ locked' = locked \cup {p}
  /\ UNCHANGED <<copy, synced, batch, queue, expired, owed, used>>

StopEditing(p) ==
  /\ p \in locked /\ locked' = locked \ {p}
  /\ UNCHANGED <<copy, synced, batch, queue, expired, owed, used>>

\* A day passes after a deletion.
Expire(p) ==
  /\ copy[p].shape = "deleted" /\ Id(copy[p]) \notin expired
  /\ expired' = expired \cup {Id(copy[p])}
  /\ UNCHANGED <<copy, synced, batch, queue, locked, owed, used>>

\* A sent batch is committed at once, or it waits.
Sent(p, element, s) ==
  \/ batch' = batch /\ synced' = [s EXCEPT ![p] =
                         IF element = None THEN @
                         ELSE Committed(@, [of |-> Id(element), live |-> TRUE])]
  \/ /\ element # None /\ batch[p] = NoBatch /\ synced' = s
     /\ batch' = [batch EXCEPT ![p] = [of |-> Id(element), live |-> TRUE]]

SendDelta(p) ==
  /\ Pending(p) /\ HasRoom(p)
  /\ queue' = Broadcast(queue, p, FALSE, copy[p])
  /\ Sent(p, copy[p], synced)
  /\ UNCHANGED <<copy, locked, expired, owed, used>>

\* The periodic full sync, a repair, a greeting to a newcomer.
SendFull(p) ==
  /\ HasRoom(p) /\ Use
  /\ queue' = Broadcast(queue, p, TRUE, Extract(p, TRUE))
  /\ Sent(p, Extract(p, TRUE), synced)
  /\ UNCHANGED <<copy, locked, expired, owed>>

Commit(p) ==
  /\ batch[p] # NoBatch
  /\ synced' = [synced EXCEPT ![p] = Committed(@, batch[p])]
  /\ batch' = [batch EXCEPT ![p] = NoBatch]
  /\ UNCHANGED <<copy, queue, locked, expired, owed, used>>

NeedsReply(p, merged, remote) == Syncable(merged) /\ HasChanged(merged, remote)

Answers(p, frame, merged) ==
  IF frame.full THEN NeedsReply(p, merged, frame.element) ELSE frame.gap

Receive(p) ==
  /\ queue[p] # <<>>
  /\ LET frame == Head(queue[p])
         remote == frame.element
         merged == IF remote = None THEN copy[p] ELSE Merge(p, remote)
         adopted == [synced EXCEPT ![p] = Adopted(p, merged, remote)]
         rest == [queue EXCEPT ![p] = Tail(@)]
         reply == IF Syncable(merged) THEN merged ELSE None
     IN  /\ copy' = [copy EXCEPT ![p] = merged]
         /\ owed' = IF remote = None THEN owed
                    ELSE IF Beats(remote, merged) THEN owed \cup {p} ELSE owed \ {p}
         /\ IF Answers(p, frame, merged)
            THEN queue' = Broadcast(rest, p, TRUE, reply) /\ Sent(p, reply, adopted)
            ELSE queue' = rest /\ synced' = adopted /\ batch' = batch
  /\ UNCHANGED <<locked, expired, used>>

\* A frame is lost; the next to that peer shows a gap.
Lose(p) ==
  /\ queue[p] # <<>> /\ Use
  /\ queue' = [queue EXCEPT ![p] = IF Len(@) = 1 THEN <<>>
                                   ELSE [Tail(@) EXCEPT ![1].gap = TRUE]]
  /\ owed' = owed \cup {p}
  /\ UNCHANGED <<copy, synced, batch, locked, expired>>

\* p leaves and joins again: what was on its way to it is lost, and its tracker forgets
\* what it sent, so that what the peer missed of it is to be sent once more.
Rejoin(p) ==
  /\ Use
  /\ queue' = [queue EXCEPT ![p] = <<>>] /\ owed' = {p}
  /\ synced' = [synced EXCEPT ![p] = Id(None)]
  /\ batch' = [batch EXCEPT ![p].live = FALSE]
  /\ UNCHANGED <<copy, locked, expired>>

Next == \E p \in Peer :
  \/ \E shape \in {"shown", "small", "deleted"} : Edit(p, shape)
  \/ MarkUnavailable(p) \/ StartEditing(p) \/ StopEditing(p) \/ Expire(p)
  \/ SendDelta(p) \/ SendFull(p) \/ Commit(p) \/ Receive(p) \/ Lose(p) \/ Rejoin(p)

Spec == Init /\ [][Next]_vars

(***************************************************************************)
(* Properties.                                                              *)
(***************************************************************************)
TypeOK ==
  /\ copy \in [Peer -> Copy] /\ synced \in [Peer -> Identity]
  /\ batch \in [Peer -> [of : Identity, live : BOOLEAN]]
  /\ \A p \in Peer : \A i \in DOMAIN queue[p] : queue[p][i] \in Frame
  /\ locked \subseteq Peer /\ owed \subseteq Peer /\ expired \subseteq Identity
  /\ used \in 0..MaxUsed

\* No change is lost in silence: a copy that would beat another peer's is still to be
\* sent, on its way there, or made up for by a full scene the peer is known to be owed;
\* unless it is not sent at all, being too small or deleted for a day.
ChangesReachThePeers == \A p, q \in Peer :
  Beats(copy[p], copy[q]) /\ Syncable(copy[p]) =>
    \/ Pending(p) \/ q \in owed
    \/ \E i \in DOMAIN queue[q] : Id(queue[q][i].element) = Id(copy[p])
===============================================================================
