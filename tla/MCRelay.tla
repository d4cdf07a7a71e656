------------------------------ MODULE MCRelay ------------------------------
(* Model values and symmetry for the runs of Relay. *)
EXTENDS RelayRefinement, TLC

Symmetry == Permutations(Conns) \cup Permutations(Nodes)
=============================================================================
