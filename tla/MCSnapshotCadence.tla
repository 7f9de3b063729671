------------------------- MODULE MCSnapshotCadence -------------------------
(* Sessions, edits and keys are interchangeable. *)
EXTENDS SnapshotCadence, TLC

Interchangeable ==
    Permutations(Sessions) \cup Permutations(Edits) \cup Permutations(Keys)
=============================================================================
