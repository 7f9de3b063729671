------------------------------ MODULE MCSceneSync ------------------------------
(* The instance of SceneSync in which the tab starts knowing the revision   *)
(* of the scene it shows.                                                   *)
EXTENDS SceneSync

MCInit == Init /\ session.rev = 1

MCSpec == MCInit /\ [][Next]_syncVars
=============================================================================
