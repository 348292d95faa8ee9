---------------------------- MODULE LeaseService ----------------------------
(***************************************************************************)
(* What the daemon promises its test processes, without timers, locks or   *)
(* messages.  It is cold until the shared environment has been brought up, *)
(* serves leases from then on, and is closing once its shutdown began.     *)
(* A process gets at most one lease, never from a cold daemon, and a lease *)
(* that has ended, by release or by expiry, never comes back.              *)
(***************************************************************************)
EXTENDS Naturals

CONSTANT Clients

VARIABLES
    phase,      \* "cold", "serving" or "closing"
    held,       \* the processes with a lease
    over        \* the processes whose lease has ended

serviceVars == <<phase, held, over>>

ServiceInit == phase = "cold" /\ held = {} /\ over = {}

Open ==
    /\ phase = "cold"
    /\ phase' = "serving"
    /\ UNCHANGED <<held, over>>

Grant(c) ==
    /\ phase # "cold"
    /\ c \notin held \union over
    /\ held' = held \union {c}
    /\ UNCHANGED <<phase, over>>

End(S) ==
    /\ S \subseteq held
    /\ held' = held \ S
    /\ over' = over \union S
    /\ UNCHANGED phase

Close ==
    /\ phase # "closing"
    /\ phase' = "closing"
    /\ UNCHANGED <<held, over>>

ServiceNext ==
    \/ Open \/ Close
    \/ \E c \in Clients : Grant(c)
    \/ \E S \in SUBSET Clients : End(S)

ServiceSpec == ServiceInit /\ [][ServiceNext]_serviceVars
=============================================================================
