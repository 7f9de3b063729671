--------------------------- MODULE SnapshotStore ---------------------------
(***************************************************************************)
(* What the durable snapshot of a room promises to the people drawing in   *)
(* it: the stored baseline is a set of edits that only grows, unless       *)
(* somebody throws it away on purpose.                                     *)
(*                                                                         *)
(* One weakness is part of the promise.  Revisions start again after the   *)
(* owner resets the baseline, so a writer that still holds a revision of   *)
(* the deleted line cannot be told from one that read the new line.  Until *)
(* the new line has outgrown the old one, the store is "exposed", and a    *)
(* write may lose what it replaces.                                        *)
(***************************************************************************)
CONSTANT Edits      \* changes somebody makes to the scene

VARIABLES
    baseline,       \* the edits the stored scene contains
    exposed         \* a deleted line's revision may still match

store == <<baseline, exposed>>

Init == baseline = {} /\ exposed = FALSE

\* A new baseline that contains the one it replaces.
Publish ==
    /\ baseline' \in SUBSET Edits
    /\ baseline \subseteq baseline'
    /\ exposed' \in {FALSE, exposed}

\* A writer of a deleted line replaces a baseline it has not read.
Overwrite ==
    /\ exposed
    /\ baseline' \in SUBSET Edits
    /\ exposed' \in BOOLEAN

\* The owner resets the baseline, or rotates to a generation that has none.
Discard ==
    /\ baseline' = {}
    /\ exposed' \in BOOLEAN

Next == Publish \/ Overwrite \/ Discard

Spec == Init /\ [][Next]_store
=============================================================================
