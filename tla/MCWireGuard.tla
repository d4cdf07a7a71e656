---------------------------- MODULE MCWireGuard ----------------------------
(* One configured peer, with an endpoint and a fallback. *)
EXTENDS WireGuard, TLC

CONSTANTS n1, k1, e1

OneKey == n1 :> k1
OneEndpoint == n1 :> e1
OneFallback == n1 :> e1

\* The goroutines other than the one in Start are interchangeable.
Symmetry == Permutations(Callers \ {Main})
=============================================================================
