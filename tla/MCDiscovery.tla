---------------------------- MODULE MCDiscovery ----------------------------
(* Up to three test processes and three daemons.                           *)
EXTENDS Discovery, TLC
CONSTANTS c1, c2, c3
Symmetry == Permutations(Clients)
=============================================================================
