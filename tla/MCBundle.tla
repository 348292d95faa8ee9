------------------------------ MODULE MCBundle ------------------------------
(* More registrations than workers: some wait for a worker.               *)
EXTENDS Bundle
=============================================================================
