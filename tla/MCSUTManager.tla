---------------------------- MODULE MCSUTManager ----------------------------
(* Two handlers, the reaper and the closer; up to three SUT processes.     *)
EXTENDS SUTManager, TLC
CONSTANTS h1, h2
Symmetry == Permutations(Handlers)
=============================================================================
