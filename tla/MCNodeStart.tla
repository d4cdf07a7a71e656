---------------------------- MODULE MCNodeStart ----------------------------
(* Nodes of one configuration, one of them called private, and two         *)
(* processes: two of one node, two nodes, or a node beside gen-keys.       *)
EXTENDS NodeStart, TLC

Symmetry == Permutations(Procs)
=============================================================================
