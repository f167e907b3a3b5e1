------------------------------ MODULE MCTrySend ------------------------------
(***************************************************************************)
(* Two peers and up to two rumours.  A goroutine returns to a peer on its  *)
(* third call of trySend, so MaxSends = 3 lets calls for the same peer     *)
(* overlap with one InformListeners.                                       *)
(***************************************************************************)
EXTENDS TrySend, TLC

Symmetric == Permutations(Peer) \cup Permutations(Msg)
=============================================================================
