----------------------------- MODULE SUTService -----------------------------
(***************************************************************************)
(* The service under test as the handlers of the daemon may rely on it:    *)
(* one of them at a time brings it up, while it is down; it may go down at *)
(* any moment, but comes up only by the hand of the one that holds the     *)
(* lock.  `Daemon' needs no more of the SUT than this, and `SUTManager',   *)
(* with its processes, signals and probes, does no less.                   *)
(***************************************************************************)
CONSTANTS Users, Nobody

VARIABLES
    sut,        \* "down" or "up"
    holder      \* the user that is bringing it up, or Nobody

sutServiceVars == <<sut, holder>>

SUTServiceInit == sut = "down" /\ holder = Nobody

Begin(u) ==
    /\ sut = "down" /\ holder = Nobody
    /\ holder' = u
    /\ UNCHANGED sut

Succeed(u) ==
    /\ holder = u
    /\ sut' = "up" /\ holder' = Nobody

Fail(u) ==
    /\ holder = u
    /\ holder' = Nobody
    /\ UNCHANGED sut

\* It is stopped, or exits by itself; nobody is bringing it up meanwhile.
GoDown ==
    /\ sut = "up" /\ holder = Nobody
    /\ sut' = "down"
    /\ UNCHANGED holder

SUTServiceNext ==
    \/ \E u \in Users : Begin(u) \/ Succeed(u) \/ Fail(u)
    \/ GoDown

SUTServiceSpec == SUTServiceInit /\ [][SUTServiceNext]_sutServiceVars
=============================================================================
