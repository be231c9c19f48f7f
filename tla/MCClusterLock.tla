---------------------------- MODULE MCClusterLock ----------------------------
(* The constants of ClusterLock for TLC: nodes are model values, any         *)
(* permutation of which maps behaviours to behaviours.                       *)
EXTENDS ClusterLock, TLC

NodeSymmetry == Permutations(Nodes)
=============================================================================
