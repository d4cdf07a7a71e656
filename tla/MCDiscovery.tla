---------------------------- MODULE MCDiscovery ----------------------------
(* The node names and endpoints of the runs of Discovery are model values. *)
EXTENDS Discovery
=============================================================================
