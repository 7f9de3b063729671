------------------------ MODULE MCRoomAuthorization ------------------------
(***************************************************************************)
(* RoomAuthorization for TLC.  Nothing tells one sealed key-check value    *)
(* from another.                                                           *)
(***************************************************************************)
EXTENDS RoomAuthorization, TLC

KeySymmetry == Permutations(Keys)
=============================================================================
