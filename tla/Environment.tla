---------------------------- MODULE Environment ----------------------------
(***************************************************************************)
(* The shared containers as one resource: one call at a time brings them   *)
(* up or takes them down, and a flag tells whether they are up.  `Bundle'  *)
(* implements this with workers, contexts and docker; `Daemon' with the    *)
(* handlers and the shutdown that make the calls.                          *)
(*                                                                         *)
(* What a failed call leaves behind is in the way of the next one: docker  *)
(* refuses a second container of the same name, so where every container   *)
(* has one, a daemon whose start once failed and could not be undone never *)
(* gets the environment up again.  Without names it may come up besides    *)
(* the leftovers, and what the failed start had recorded goes with it.     *)
(***************************************************************************)
CONSTANT
    AllNamed    \* has every container a docker name

VARIABLES
    env,        \* "down", "up", "partial", or "crowded": up besides leftovers
    flag,       \* does the owner hold that the containers are up
    busy        \* the call under way: "no", "start" or "stop"

environmentVars == <<env, flag, busy>>

EnvironmentInit == env = "down" /\ ~flag /\ busy = "no"

BeginStart ==
    /\ busy = "no" /\ ~flag
    /\ busy' = "start"
    /\ UNCHANGED <<env, flag>>

Started ==
    /\ busy = "start"
    /\ \/ env = "down" /\ env' = "up"
       \/ env = "partial" /\ ~AllNamed /\ env' = "crowded"
    /\ flag' = TRUE /\ busy' = "no"

StartFailed ==
    /\ busy = "start"
    /\ env' \in IF env = "partial" /\ AllNamed THEN {"partial"} ELSE {"down", "partial"}
    /\ busy' = "no"
    /\ UNCHANGED flag

BeginStop ==
    /\ busy = "no" /\ flag
    /\ busy' = "stop"
    /\ UNCHANGED <<env, flag>>

\* All are gone; or some would not go, then the owner goes on holding them; or
\* all went that the owner knew of, and leftovers stay.
Stopped ==
    /\ busy = "stop"
    /\ \/ env' = "down" /\ flag' = FALSE
       \/ env' = "partial" /\ UNCHANGED flag
       \/ env = "crowded" /\ env' = "partial" /\ flag' = FALSE
    /\ busy' = "no"

EnvironmentNext == BeginStart \/ Started \/ StartFailed \/ BeginStop \/ Stopped

EnvironmentSpec == EnvironmentInit /\ [][EnvironmentNext]_environmentVars
=============================================================================
