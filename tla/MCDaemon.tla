------------------------------ MODULE MCDaemon ------------------------------
(* Instances of Daemon for TLC: the test processes of the configurations.  *)
EXTENDS Daemon

CONSTANTS c1, c2
=============================================================================
