---------------------------- MODULE MCRelayFanout ----------------------------
(* RelayFanout for TLC: sockets are interchangeable. *)
EXTENDS RelayFanout, TLC

ConnSymmetry == Permutations(Conns)
=============================================================================
